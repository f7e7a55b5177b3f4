---------------------------- MODULE RequestProofs ----------------------------
(***************************************************************************)
(* Proofs about what a write request goes through at both ends: the        *)
(* client's journal, for every number of processes, operations, callers,   *)
(* attempts and power failures, and the upload at the service, for every   *)
(* stream of parts and every way to cut it into chunks.  The two share no  *)
(* state.                                                                  *)
(***************************************************************************)
EXTENDS ClientJournal, FileSetUpload, WellFoundedInduction, TLAPS

----------------------------------------------------------------------------
(* The client's journal: an operation is applied at most once, and the     *)
(* journal and what users were told agree with the service.                *)

----------------------------------------------------------------------------
(* The inductive invariant.                                                *)

Stages == {"idle", "whoami", "create", "created", "written", "synced",
           "waiting", "complete", "prepared", "replaced"}

\* Stages of a process that writes its record, that has sent its request, and
\* that has its answer.
Creating == {"create", "created", "written", "synced"}
Completed == {"complete", "prepared", "replaced"}
Sent == {"waiting"} \cup Completed

\* Contents that load.
Loads == {"pending", "succeeded"}

Messages == [op: Ops, caller: Callers, request: Requests]

JournalTypes ==
    /\ pc \in [Processes -> Stages]
    /\ op \in [Processes -> Ops \cup {NoOp}]
    /\ token \in [Processes -> Callers]
    /\ request \in [Processes -> Requests]
    /\ attempts \in [Processes -> Nat]
    /\ answer \in [Processes -> Answers \cup {"none", "sent"}]
    /\ record \in [Ops -> Records \cup {NoRecord}]
    /\ file \in [Ops -> Contents]
    /\ disk \in [Ops -> SUBSET Contents]
    /\ abandoned \subseteq Messages
    /\ stored \subseteq Messages
    /\ etag \in Nat
    /\ applied \in [Ops -> Nat]
    /\ reported \subseteq Ops
    /\ told \in [Ops -> SUBSET Answers]

\* A message carries what the record of its operation says, and its operation
\* was made durable before.
Genuine(m) ==
    /\ m.op \in reported
    /\ record[m.op].caller = m.caller /\ record[m.op].request = m.request

\* The operation was not applied, and its precondition can never hold again.
Outdated(o) ==
    /\ applied[o] = 0 /\ record[o] # NoRecord
    /\ record[o].request.kind = "archive.revise"
    /\ record[o].request.ifMatch < etag

\* Where a process is says what it holds.
ProcessOK(i) ==
    /\ pc[i] = "idle" => op[i] = NoOp
    /\ request[i].ifMatch <= etag
    /\ answer[i] # "none" => pc[i] = "waiting"
    /\ pc[i] = "whoami" /\ op[i] # NoOp =>
          op[i] \in reported /\ record[op[i]].request = request[i]
    /\ pc[i] \in Creating =>
          /\ op[i] \in Ops \ reported
          /\ record[op[i]] = [caller |-> token[i], request |-> request[i]]
          /\ \A j \in Processes : op[j] = op[i] => j = i
    /\ pc[i] \in {"written", "synced"} => file[op[i]] = "pending"
    /\ pc[i] \in Sent => Genuine(Message(i))
    /\ pc[i] \in Completed \/ answer[i] = "ok" => applied[op[i]] > 0
    /\ answer[i] = "stale" => Outdated(op[i])

\* An operation that became visible has a durable record; the service holds
\* its effect when it holds its idempotency record.
OperationOK(o) ==
    /\ record[o] # NoRecord => record[o].request.ifMatch <= etag
    /\ o \in reported =>
          /\ record[o] # NoRecord
          /\ file[o] \in Loads /\ disk[o] \subseteq Loads
    /\ o \notin reported => told[o] = {}
    /\ applied[o] = IF \E s \in stored : s.op = o THEN 1 ELSE 0
    /\ "stale" \in told[o] => Outdated(o)
    /\ "succeeded" \in disk[o] \cup {file[o]} => applied[o] > 0
    /\ "ok" \in told[o] => disk[o] = {"succeeded"}

JournalInv ==
    /\ JournalTypes
    /\ \A m \in abandoned \cup stored : Genuine(m)
    /\ \A i \in Processes : ProcessOK(i)
    /\ \A o \in Ops : OperationOK(o)

----------------------------------------------------------------------------
(* What an action leaves alone.                                            *)

\* The client state of one process.
SameClient(j) ==
    /\ pc'[j] = pc[j] /\ op'[j] = op[j] /\ token'[j] = token[j]
    /\ request'[j] = request[j] /\ answer'[j] = answer[j]

\* What no step takes back.
Grows ==
    /\ etag <= etag' /\ etag' \in Nat
    /\ reported \subseteq reported'
    /\ \A o \in Ops : record[o] # NoRecord => record'[o] = record[o]
    /\ \A o \in Ops : applied[o] > 0 => applied'[o] > 0

\* The service and the journal do not change.
Quiet ==
    UNCHANGED <<record, file, disk, stored, etag, applied, reported, told>>

\* Requests refer to records with a caller and a request.
LEMMA RequestTyped ==
    ASSUME NEW r \in Requests
    PROVE  r.ifMatch \in Nat /\ r.kind \in {"archive.create", "archive.revise"}
BY JournalConstants DEF Requests, Creates, Revises, ETags

LEMMA RecordTyped ==
    ASSUME JournalTypes, NEW o \in Ops, record[o] # NoRecord
    PROVE  record[o].caller \in Callers /\ record[o].request \in Requests
BY DEF JournalTypes, Records

\* A process that did not move keeps what it holds, as long as nobody draws
\* its operation or touches the file it is writing.
LEMMA OthersKept ==
    ASSUME JournalTypes, NEW j \in Processes, ProcessOK(j), SameClient(j), Grows,
           pc[j] \in Creating =>
              /\ op[j] \notin reported' /\ file'[op[j]] = file[op[j]]
              /\ \A k \in Processes : op'[k] = op[j] => k = j,
           answer[j] = "stale" /\ Outdated(op[j]) => Outdated(op[j])',
           \A o \in reported : record[o] # NoRecord
    PROVE  ProcessOK(j)'
<1> DEFINE o == op[j]
<1>1. op'[j] = o /\ pc'[j] = pc[j] /\ answer'[j] = answer[j] /\ token'[j] = token[j]
      /\ request'[j] = request[j]
    BY DEF SameClient
<1>2. request[j].ifMatch <= etag'
    <2>1. request[j].ifMatch \in Nat /\ etag \in Nat
        BY RequestTyped DEF JournalTypes
    <2>2. QED
        BY <2>1 DEF ProcessOK, Grows
<1>3. o \in reported => o \in Ops /\ o \in reported' /\ record'[o] = record[o]
    BY DEF JournalTypes, Grows
<1>4. pc[j] \in Sent => Genuine(Message(j))'
    BY <1>1, <1>3 DEF ProcessOK, Genuine, Message
<1>5. pc[j] \in Creating => o \in Ops /\ record[o] # NoRecord
    BY NoRecordIsNoRecord DEF ProcessOK, Records, JournalTypes
<1>6. pc[j] \in Creating =>
          /\ o \in Ops \ reported'
          /\ record'[o] = [caller |-> token[j], request |-> request[j]]
          /\ \A k \in Processes : op'[k] = o => k = j
    BY <1>5 DEF ProcessOK, Grows
<1>7. pc[j] \in Completed \/ answer[j] = "ok" => applied'[o] > 0
    <2>1. pc[j] \in Completed \/ answer[j] = "ok" => o \in Ops
        BY <1>3 DEF ProcessOK, Genuine, Message, Sent
    <2>2. QED
        BY <2>1 DEF ProcessOK, Grows
<1>8. QED
    BY <1>1, <1>2, <1>3, <1>4, <1>6, <1>7 DEF ProcessOK, Creating

\* What only the client's side changes: the requests it gives up on are
\* genuine, and no other process is concerned.
LEMMA ClientStep ==
    ASSUME JournalInv, NEW i \in Processes, JournalTypes', Quiet, ProcessOK(i)',
           \A j \in Processes \ {i} : SameClient(j),
           op'[i] \in {NoOp, op[i]} \cup reported,
           \/ abandoned' = abandoned
           \/ pc[i] \in Sent /\ abandoned' = abandoned \cup {Message(i)}
    PROVE  JournalInv'
<1> USE DEF JournalInv
<1>1. Grows
    BY DEF Quiet, Grows, JournalTypes
<1>2. \A m \in abandoned' \cup stored' : Genuine(m)'
    <2>1. \A m \in abandoned \cup stored : Genuine(m)'
        BY DEF Genuine, Quiet
    <2>2. CASE abandoned' = abandoned
        BY <2>1, <2>2 DEF Quiet
    <2>3. CASE pc[i] \in Sent /\ abandoned' = abandoned \cup {Message(i)}
        <3>1. ASSUME NEW m, m = Message(i)
              PROVE  Genuine(m)'
            BY <2>3, <3>1 DEF ProcessOK, Genuine, Quiet
        <3>2. QED
            BY <2>1, <2>3, <3>1 DEF Quiet
    <2>4. QED
        BY <2>2, <2>3
<1>3. \A o \in Ops : OperationOK(o)'
    BY DEF OperationOK, Outdated, Quiet
<1>4. ASSUME NEW j \in Processes, j # i
      PROVE  ProcessOK(j)'
    <2>1. ProcessOK(j) /\ ProcessOK(i) /\ SameClient(j)
        BY <1>4
    <2>2. ASSUME pc[j] \in Creating, NEW k \in Processes, op'[k] = op[j]
          PROVE  k = j
        <3>1. op[j] \in Ops \ reported /\ op[i] # op[j]
            BY <1>4, <2>1, <2>2 DEF ProcessOK
        <3>2. op[j] # op'[i]
            BY <3>1, JournalConstants
        <3>3. k # i => op'[k] = op[k]
            BY DEF SameClient
        <3>4. QED
            BY <2>1, <2>2, <3>2, <3>3 DEF ProcessOK
    <2>3. pc[j] \in Creating => op[j] \notin reported' /\ file'[op[j]] = file[op[j]]
        BY <2>1 DEF ProcessOK, Quiet
    <2>4. Outdated(op[j]) => Outdated(op[j])'
        BY <2>1 DEF Outdated, Quiet, SameClient
    <2>5. \A o \in reported : record[o] # NoRecord
        BY DEF JournalTypes, OperationOK
    <2>6. QED
        BY <1>1, <2>1, <2>2, <2>3, <2>4, <2>5, OthersKept
<1>5. QED
    BY <1>2, <1>3, <1>4

\* A process that ends.
LEMMA EndStep ==
    ASSUME JournalInv, NEW i \in Processes, Exit(i), Quiet,
           \/ answer' = [answer EXCEPT ![i] = "none"]
           \/ answer[i] = "none" /\ UNCHANGED answer,
           \/ abandoned' = abandoned
           \/ pc[i] \in Sent /\ abandoned' = abandoned \cup {Message(i)}
    PROVE  JournalInv'
<1>1. JournalTypes /\ ProcessOK(i)
    BY DEF JournalInv
<1>2. /\ pc' = [pc EXCEPT ![i] = "idle"] /\ op' = [op EXCEPT ![i] = NoOp]
      /\ attempts' = [attempts EXCEPT ![i] = 0] /\ UNCHANGED <<token, request>>
    BY DEF Exit, Goto
<1>3. abandoned' \subseteq Messages
    <2>1. pc[i] \in Sent => Message(i) \in Messages
        BY <1>1 DEF JournalTypes, ProcessOK, Genuine, Message, Messages
    <2>2. QED
        BY <1>1, <2>1 DEF JournalTypes
<1>4. answer' \in [Processes -> Answers \cup {"none", "sent"}] /\ answer'[i] = "none"
    BY <1>1 DEF JournalTypes
<1>5. JournalTypes'
    BY <1>1, <1>2, <1>3, <1>4 DEF JournalTypes, Stages, Quiet
<1>6. pc'[i] = "idle" /\ op'[i] = NoOp /\ request'[i] = request[i]
    BY <1>1, <1>2 DEF JournalTypes
<1>7. ProcessOK(i)'
    BY <1>1, <1>4, <1>6 DEF ProcessOK, Quiet, Creating, Sent, Completed
<1>8. \A j \in Processes \ {i} : SameClient(j)
    BY <1>1, <1>2 DEF SameClient, JournalTypes
<1>9. QED
    BY <1>5, <1>6, <1>7, <1>8, ClientStep

LEMMA EndingsKept ==
    ASSUME JournalInv, NEW i \in Processes,
           \/ WhoAmIFails(i) \/ GiveUp(i) \/ ReplaceFails(i) \/ Interrupt(i)
    PROVE  JournalInv'
<1>1. ProcessOK(i)
    BY DEF JournalInv
<1>2. /\ Exit(i) /\ Quiet
      /\ \/ answer' = [answer EXCEPT ![i] = "none"]
         \/ answer[i] = "none" /\ UNCHANGED answer
      /\ \/ abandoned' = abandoned
         \/ pc[i] \in Sent /\ abandoned' = abandoned \cup {Message(i)}
    BY <1>1 DEF WhoAmIFails, GiveUp, ReplaceFails, Interrupt, HangUp, Quiet,
                journalVars, serverVars, ProcessOK, Sent, Completed
<1>3. QED
    BY <1>2, EndStep

LEMMA StartNewKept ==
    ASSUME JournalInv, NEW i \in Processes, StartNew(i)
    PROVE  JournalInv'
<1>1. JournalTypes /\ ProcessOK(i)
    BY DEF JournalInv
<1>2. PICK c \in Callers, r \in Requests :
        /\ r.ifMatch <= etag
        /\ token' = [token EXCEPT ![i] = c] /\ request' = [request EXCEPT ![i] = r]
    BY DEF StartNew
<1>3. /\ pc[i] = "idle" /\ pc' = [pc EXCEPT ![i] = "whoami"]
      /\ UNCHANGED <<op, attempts, answer, abandoned>> /\ Quiet
    BY DEF StartNew, Goto, Quiet, journalVars, serverVars
<1>4. JournalTypes'
    BY <1>1, <1>2, <1>3 DEF JournalTypes, Stages, Quiet
<1>5. /\ pc'[i] = "whoami" /\ op'[i] = NoOp /\ answer'[i] = "none"
      /\ request'[i].ifMatch <= etag
    BY <1>1, <1>2, <1>3 DEF JournalTypes, ProcessOK
<1>6. ProcessOK(i)'
    BY <1>3, <1>5 DEF ProcessOK, Quiet, Creating, Sent, Completed
<1>7. \A j \in Processes \ {i} : SameClient(j)
    BY <1>1, <1>2, <1>3 DEF SameClient, JournalTypes
<1>8. QED
    BY <1>3, <1>4, <1>5, <1>6, <1>7, ClientStep

LEMMA StartReplayKept ==
    ASSUME JournalInv, NEW i \in Processes, StartReplay(i)
    PROVE  JournalInv'
<1>1. JournalTypes /\ ProcessOK(i)
    BY DEF JournalInv
<1>2. PICK o \in reported, c \in Callers, r \in Requests :
        /\ record[o].request = r /\ op' = [op EXCEPT ![i] = o]
        /\ token' = [token EXCEPT ![i] = c] /\ request' = [request EXCEPT ![i] = r]
    BY DEF StartReplay, Preflight
<1>3. /\ pc[i] = "idle" /\ pc' = [pc EXCEPT ![i] = "whoami"]
      /\ UNCHANGED <<attempts, answer, abandoned>> /\ Quiet
    BY DEF StartReplay, Goto, Quiet, journalVars, serverVars
<1>4. o \in Ops /\ r.ifMatch <= etag
    <2>1. o \in Ops
        BY <1>1 DEF JournalTypes
    <2>2. QED
        BY <1>2, <2>1 DEF JournalInv, OperationOK
<1>5. JournalTypes'
    BY <1>1, <1>2, <1>3, <1>4 DEF JournalTypes, Stages, Quiet
<1>6. /\ pc'[i] = "whoami" /\ op'[i] = o /\ answer'[i] = "none"
      /\ request'[i] = r
    BY <1>1, <1>2, <1>3 DEF JournalTypes, ProcessOK
<1>7. ProcessOK(i)'
    BY <1>2, <1>3, <1>4, <1>6 DEF ProcessOK, Quiet, Creating, Sent, Completed
<1>8. \A j \in Processes \ {i} : SameClient(j)
    BY <1>1, <1>2, <1>3 DEF SameClient, JournalTypes
<1>9. QED
    BY <1>2, <1>3, <1>5, <1>6, <1>7, <1>8, ClientStep

LEMMA ValidateCallerKept ==
    ASSUME JournalInv, NEW i \in Processes, ValidateCaller(i)
    PROVE  JournalInv'
<1>1. JournalTypes /\ ProcessOK(i)
    BY DEF JournalInv
<1>2. /\ pc[i] = "whoami" /\ op[i] # NoOp /\ record[op[i]].caller = token[i]
      /\ pc' = [pc EXCEPT ![i] = "waiting"]
      /\ answer' = [answer EXCEPT ![i] = "sent"]
      /\ attempts' = [attempts EXCEPT ![i] = attempts[i] + 1]
      /\ UNCHANGED <<op, token, request, abandoned>> /\ Quiet
    BY DEF ValidateCaller, Post, Goto, Quiet, journalVars, serverVars, CallerMatches
<1>3. JournalTypes'
    BY <1>1, <1>2 DEF JournalTypes, Stages, Quiet
<1>4. pc'[i] = "waiting" /\ answer'[i] = "sent"
    BY <1>1, <1>2 DEF JournalTypes
<1>5. ProcessOK(i)'
    BY <1>1, <1>2, <1>4 DEF ProcessOK, Quiet, Creating, Sent, Completed, Genuine, Message
<1>6. \A j \in Processes \ {i} : SameClient(j)
    BY <1>1, <1>2 DEF SameClient, JournalTypes
<1>7. QED
    BY <1>2, <1>3, <1>4, <1>5, <1>6, ClientStep

LEMMA RetryKept ==
    ASSUME JournalInv, NEW i \in Processes, Retry(i)
    PROVE  JournalInv'
<1>1. JournalTypes /\ ProcessOK(i)
    BY DEF JournalInv
<1>2. /\ pc[i] = "waiting" /\ answer' = [answer EXCEPT ![i] = "sent"]
      /\ attempts' = [attempts EXCEPT ![i] = attempts[i] + 1]
      /\ UNCHANGED <<pc, op, token, request>> /\ Quiet
      /\ \/ abandoned' = abandoned
         \/ abandoned' = abandoned \cup {Message(i)}
    BY DEF Retry, Attempt, Quiet, journalVars
<1>3. Message(i) \in Messages
    BY <1>1, <1>2 DEF JournalTypes, ProcessOK, Genuine, Message, Messages, Sent
<1>4. JournalTypes'
    BY <1>1, <1>2, <1>3 DEF JournalTypes, Quiet
<1>5. answer'[i] = "sent"
    BY <1>1, <1>2 DEF JournalTypes
<1>6. ProcessOK(i)'
    BY <1>1, <1>2, <1>5 DEF ProcessOK, Quiet, Creating, Sent, Completed, Genuine, Message
<1>7. \A j \in Processes \ {i} : SameClient(j)
    BY <1>1, <1>2 DEF SameClient, JournalTypes
<1>8. QED
    BY <1>2, <1>4, <1>6, <1>7, ClientStep DEF Sent

LEMMA ReceiveSuccessKept ==
    ASSUME JournalInv, NEW i \in Processes, ReceiveSuccess(i)
    PROVE  JournalInv'
<1>1. JournalTypes /\ ProcessOK(i)
    BY DEF JournalInv
<1>2. /\ pc[i] = "waiting" /\ answer[i] = "ok"
      /\ answer' = [answer EXCEPT ![i] = "none"]
      /\ pc' = [pc EXCEPT ![i] = "complete"]
      /\ UNCHANGED <<op, token, request, attempts, abandoned>> /\ Quiet
    BY DEF ReceiveSuccess, Completing, Goto, Quiet, journalVars, serverVars
<1>3. JournalTypes'
    BY <1>1, <1>2 DEF JournalTypes, Stages, Quiet
<1>4. pc'[i] = "complete" /\ answer'[i] = "none"
    BY <1>1, <1>2 DEF JournalTypes
<1>5. ProcessOK(i)'
    BY <1>1, <1>2, <1>4 DEF ProcessOK, Quiet, Creating, Sent, Completed, Genuine, Message
<1>6. \A j \in Processes \ {i} : SameClient(j)
    BY <1>1, <1>2 DEF SameClient, JournalTypes
<1>7. QED
    BY <1>2, <1>3, <1>5, <1>6, ClientStep

LEMMA WriteTemporaryKept ==
    ASSUME JournalInv, NEW i \in Processes, WriteTemporary(i)
    PROVE  JournalInv'
<1>1. JournalTypes /\ ProcessOK(i)
    BY DEF JournalInv
<1>2. /\ pc[i] = "complete" /\ pc' = [pc EXCEPT ![i] = "prepared"]
      /\ UNCHANGED <<op, token, request, attempts, answer, abandoned>> /\ Quiet
    BY DEF WriteTemporary, Goto, Quiet, journalVars, serverVars
<1>3. JournalTypes' /\ pc'[i] = "prepared"
    BY <1>1, <1>2 DEF JournalTypes, Stages, Quiet
<1>4. ProcessOK(i)'
    BY <1>1, <1>2, <1>3 DEF ProcessOK, Quiet, Creating, Sent, Completed, Genuine, Message
<1>5. \A j \in Processes \ {i} : SameClient(j)
    BY <1>1, <1>2 DEF SameClient, JournalTypes
<1>6. QED
    BY <1>2, <1>3, <1>4, <1>5, ClientStep

----------------------------------------------------------------------------
(* Steps that touch the record of one operation.                           *)

\* The journal and what users know of the other operations.
SameOperation(q) ==
    /\ record'[q] = record[q] /\ file'[q] = file[q] /\ disk'[q] = disk[q]
    /\ told'[q] = told[q] /\ (q \in reported' <=> q \in reported)

LEMMA OperationStep ==
    ASSUME JournalInv, NEW i \in Processes, NEW o \in Ops, JournalTypes',
           ProcessOK(i)', OperationOK(o)',
           \A j \in Processes \ {i} : SameClient(j),
           \A q \in Ops \ {o} : SameOperation(q),
           UNCHANGED <<stored, etag, applied>>,
           reported \subseteq reported',
           record[o] # NoRecord => record'[o] = record[o],
           op'[i] \in {NoOp, o},
           \A j \in Processes \ {i} : pc[j] \in Creating => op[j] # o,
           \/ abandoned' = abandoned
           \/ pc[i] \in Sent /\ abandoned' = abandoned \cup {Message(i)}
    PROVE  JournalInv'
<1> USE DEF JournalInv
<1>1. \A q \in Ops : record[q] # NoRecord => record'[q] = record[q]
    BY DEF SameOperation
<1>2. Grows
    BY <1>1 DEF Grows, JournalTypes
<1>3. \A q \in reported : q \in Ops /\ record[q] # NoRecord
    BY DEF JournalTypes, OperationOK
<1>4. \A m \in abandoned' \cup stored' : Genuine(m)'
    <2>1. \A m : Genuine(m) => Genuine(m)'
        BY <1>1, <1>3 DEF Genuine
    <2>2. ASSUME pc[i] \in Sent, NEW m, m = Message(i)
          PROVE  Genuine(m)'
        BY <2>1, <2>2 DEF ProcessOK
    <2>3. QED
        BY <2>1, <2>2
<1>5. ASSUME NEW q \in Ops, q # o
      PROVE  OperationOK(q)'
    BY <1>5 DEF OperationOK, Outdated, SameOperation
<1>6. ASSUME NEW j \in Processes, j # i
      PROVE  ProcessOK(j)'
    <2>1. ProcessOK(j) /\ SameClient(j)
        BY <1>6
    <2>2. ASSUME pc[j] \in Creating
          PROVE  /\ op[j] \notin reported' /\ file'[op[j]] = file[op[j]]
                 /\ \A k \in Processes : op'[k] = op[j] => k = j
        <3>1. op[j] \in Ops /\ op[j] # o /\ op[j] \notin reported
            BY <1>6, <2>1, <2>2 DEF ProcessOK
        <3>2. SameOperation(op[j])
            BY <3>1
        <3>3. op'[i] # op[j]
            BY <3>1, JournalConstants
        <3>4. \A k \in Processes : k # i => op'[k] = op[k]
            BY DEF SameClient
        <3>5. QED
            BY <2>1, <2>2, <3>1, <3>2, <3>3, <3>4 DEF SameOperation, ProcessOK
    <2>3. answer[j] = "stale" /\ Outdated(op[j]) => Outdated(op[j])'
        <3>1. answer[j] = "stale" => op[j] \in reported
            BY <2>1 DEF ProcessOK, Sent, Genuine, Message
        <3>2. QED
            BY <1>1, <1>3, <2>1, <3>1 DEF Outdated, SameClient
    <2>4. QED
        BY <1>2, <1>3, <2>1, <2>2, <2>3, OthersKept
<1>7. QED
    BY <1>4, <1>5, <1>6

\* Nobody else writes the file of an operation that is visible, new or being
\* created by i.
LEMMA NobodyElseCreates ==
    ASSUME JournalInv, NEW i \in Processes, NEW o \in Ops,
           \/ o \in reported
           \/ record[o] = NoRecord
           \/ pc[i] \in Creating /\ o = op[i]
    PROVE  \A j \in Processes \ {i} : pc[j] \in Creating => op[j] # o
<1> SUFFICES ASSUME NEW j \in Processes, j # i, pc[j] \in Creating, op[j] = o
             PROVE  FALSE
    OBVIOUS
<1>1. ProcessOK(j) /\ ProcessOK(i) /\ JournalTypes
    BY DEF JournalInv
<1>2. record[o] \in Records /\ o \notin reported
    BY <1>1 DEF ProcessOK, Records, JournalTypes
<1>3. QED
    BY <1>1, <1>2, NoRecordIsNoRecord DEF ProcessOK

LEMMA DrawOperationKept ==
    ASSUME JournalInv, NEW i \in Processes, DrawOperation(i)
    PROVE  JournalInv'
<1>1. JournalTypes /\ ProcessOK(i)
    BY DEF JournalInv
<1>2. PICK o \in Ops :
        /\ record[o] = NoRecord
        /\ record' = [record EXCEPT ![o] = [caller |-> token[i],
                                            request |-> request[i]]]
        /\ op' = [op EXCEPT ![i] = o]
    BY DEF DrawOperation
<1>3. /\ pc[i] = "whoami" /\ pc' = [pc EXCEPT ![i] = "create"]
      /\ UNCHANGED <<token, request, attempts, answer, file, disk, abandoned,
                     stored, etag, applied, reported, told>>
    BY DEF DrawOperation, Goto, serverVars
<1>4. [caller |-> token[i], request |-> request[i]] \in Records
    BY <1>1 DEF JournalTypes, Records
<1>5. JournalTypes'
    BY <1>1, <1>2, <1>3, <1>4 DEF JournalTypes, Stages
<1>6. /\ pc'[i] = "create" /\ op'[i] = o /\ o \notin reported
      /\ record'[o] = [caller |-> token[i], request |-> request[i]]
      /\ answer'[i] = "none"
    <2>1. o \notin reported
        BY <1>2 DEF JournalInv, OperationOK
    <2>2. QED
        BY <1>1, <1>2, <1>3, <2>1 DEF JournalTypes, ProcessOK
<1>7. \A j \in Processes : op[j] # o
    <2> SUFFICES ASSUME NEW j \in Processes, op[j] = o
                 PROVE  FALSE
        OBVIOUS
    <2>1. ProcessOK(j) /\ o \notin reported /\ o # NoOp
        BY <1>6, JournalConstants DEF JournalInv
    <2>2. pc[j] \in Stages
        BY <1>1 DEF JournalTypes
    <2>3. pc[j] \in Creating
        BY <2>1, <2>2 DEF ProcessOK, Stages, Sent, Completed, Creating, Genuine, Message
    <2>4. record[o] \in Records
        BY <1>1, <2>1, <2>3 DEF ProcessOK, JournalTypes, Records
    <2>5. QED
        BY <1>2, <2>4, NoRecordIsNoRecord
<1>8. ProcessOK(i)'
    <2>1. \A j \in Processes : op'[j] = o => j = i
        BY <1>1, <1>2, <1>7 DEF JournalTypes
    <2>2. QED
        BY <1>1, <1>3, <1>6, <2>1 DEF ProcessOK, Creating, Sent, Completed
<1>9. OperationOK(o)'
    <2>1. OperationOK(o) /\ "stale" \notin told[o]
        BY <1>6 DEF JournalInv, OperationOK
    <2>2. record'[o].request.ifMatch <= etag
        BY <1>1, <1>6 DEF ProcessOK
    <2>3. QED
        BY <1>3, <1>6, <2>1, <2>2 DEF OperationOK
<1>10. \A j \in Processes \ {i} : SameClient(j)
    BY <1>1, <1>2, <1>3 DEF SameClient, JournalTypes
<1>11. \A q \in Ops \ {o} : SameOperation(q)
    BY <1>1, <1>2, <1>3 DEF SameOperation, JournalTypes
<1>12. QED
    BY <1>2, <1>3, <1>5, <1>6, <1>8, <1>9, <1>10, <1>11, NobodyElseCreates,
       OperationStep

\* The writes of _create before the directory sync.
LEMMA CreateStepsKept ==
    ASSUME JournalInv, NEW i \in Processes,
           CreateFile(i) \/ WriteRecord(i) \/ SyncRecord(i)
    PROVE  JournalInv'
<1> DEFINE o == op[i]
<1>1. JournalTypes /\ ProcessOK(i)
    BY DEF JournalInv
<1>2. PICK f \in {file[o], "torn", "pending"}, d \in SUBSET {"absent", "torn", "pending"},
           stage \in {"created", "written", "synced"} :
        /\ pc[i] \in Creating
        /\ file' = [file EXCEPT ![o] = f] /\ disk' = [disk EXCEPT ![o] = d]
        /\ pc' = [pc EXCEPT ![i] = stage]
        /\ stage \in {"written", "synced"} => f = "pending"
    <2>1. CASE CreateFile(i)
        BY <2>1 DEF CreateFile, Goto, Creating
    <2>2. CASE WriteRecord(i)
        BY <2>2 DEF WriteRecord, Goto, Creating
    <2>3. CASE SyncRecord(i)
        <3>1. file[o] = "pending" /\ file' = [file EXCEPT ![o] = file[o]]
            BY <1>1, <2>3 DEF SyncRecord, ProcessOK, JournalTypes
        <3>2. QED
            BY <2>3, <3>1 DEF SyncRecord, Goto, Creating
    <2>4. QED
        BY <2>1, <2>2, <2>3
<1>3. UNCHANGED <<op, token, request, attempts, answer, record, abandoned, stored,
                  etag, applied, reported, told>>
    BY DEF CreateFile, WriteRecord, SyncRecord, serverVars
<1>4. o \in Ops \ reported
    BY <1>1, <1>2 DEF ProcessOK
<1>5. OperationOK(o) /\ file[o] \in Contents
    BY <1>1, <1>4 DEF JournalInv, JournalTypes
<1>6. JournalTypes'
    BY <1>1, <1>2, <1>3, <1>5 DEF JournalTypes, Stages, Contents
<1>7. pc'[i] = stage /\ file'[o] = f /\ disk'[o] = d
    BY <1>1, <1>2, <1>4 DEF JournalTypes
<1>8. ProcessOK(i)'
    <2>1. answer[i] = "none"
        BY <1>1, <1>2 DEF ProcessOK, Creating
    <2>2. QED
        BY <1>1, <1>2, <1>3, <1>7, <2>1 DEF ProcessOK, Creating, Sent, Completed
<1>9. OperationOK(o)'
    BY <1>2, <1>3, <1>4, <1>5, <1>7 DEF OperationOK
<1>10. \A j \in Processes \ {i} : SameClient(j)
    BY <1>1, <1>2, <1>3 DEF SameClient, JournalTypes
<1>11. \A q \in Ops \ {o} : SameOperation(q)
    BY <1>1, <1>2, <1>3 DEF SameOperation, JournalTypes
<1>12. QED
    BY <1>2, <1>3, <1>4, <1>6, <1>8, <1>9, <1>10, <1>11, NobodyElseCreates,
       OperationStep

LEMMA SyncDirectoryKept ==
    ASSUME JournalInv, NEW i \in Processes, SyncDirectory(i)
    PROVE  JournalInv'
<1> DEFINE o == op[i]
<1>1. JournalTypes /\ ProcessOK(i)
    BY DEF JournalInv
<1>2. /\ pc[i] = "synced" /\ disk' = [disk EXCEPT ![o] = {"pending"}]
      /\ reported' = reported \cup {o}
      /\ pc' = [pc EXCEPT ![i] = "waiting"]
      /\ answer' = [answer EXCEPT ![i] = "sent"]
      /\ attempts' = [attempts EXCEPT ![i] = attempts[i] + 1]
      /\ UNCHANGED <<op, token, request, record, file, abandoned, stored, etag,
                     applied, told>>
    BY DEF SyncDirectory, Post, Goto, serverVars
<1>3. /\ o \in Ops \ reported /\ file[o] = "pending" /\ pc[i] \in Creating
      /\ record[o] = [caller |-> token[i], request |-> request[i]]
    BY <1>1, <1>2 DEF ProcessOK, Creating
<1>4. OperationOK(o) /\ record[o] # NoRecord
    BY <1>1, <1>3, NoRecordIsNoRecord DEF JournalInv, JournalTypes, Records
<1>5. JournalTypes'
    BY <1>1, <1>2, <1>3 DEF JournalTypes, Stages, Contents
<1>6. /\ pc'[i] = "waiting" /\ answer'[i] = "sent" /\ disk'[o] = {"pending"}
      /\ record'[o].caller = token[i] /\ record'[o].request = request[i]
    BY <1>1, <1>2, <1>3 DEF JournalTypes
<1>7. ProcessOK(i)'
    BY <1>1, <1>2, <1>3, <1>6 DEF ProcessOK, Creating, Sent, Completed, Genuine, Message
<1>8. OperationOK(o)'
    BY <1>2, <1>3, <1>4, <1>6 DEF OperationOK, Loads
<1>9. \A j \in Processes \ {i} : SameClient(j)
    BY <1>1, <1>2 DEF SameClient, JournalTypes
<1>10. \A q \in Ops \ {o} : SameOperation(q)
    BY <1>1, <1>2 DEF SameOperation, JournalTypes
<1>11. QED
    BY <1>2, <1>3, <1>5, <1>7, <1>8, <1>9, <1>10, NobodyElseCreates, OperationStep

\* What an ended process leaves in order, whatever it did to a file.
LEMMA ExitedOK ==
    ASSUME JournalTypes, NEW i \in Processes, ProcessOK(i), Exit(i),
           answer'[i] = "none", UNCHANGED etag
    PROVE  /\ ProcessOK(i)' /\ op'[i] = NoOp
           /\ pc' \in [Processes -> Stages]
           /\ op' \in [Processes -> Ops \cup {NoOp}]
           /\ attempts' \in [Processes -> Nat]
           /\ \A j \in Processes \ {i} :
                 pc'[j] = pc[j] /\ op'[j] = op[j] /\ token'[j] = token[j]
                 /\ request'[j] = request[j]
<1>1. /\ pc' = [pc EXCEPT ![i] = "idle"] /\ op' = [op EXCEPT ![i] = NoOp]
      /\ attempts' = [attempts EXCEPT ![i] = 0] /\ UNCHANGED <<token, request>>
    BY DEF Exit, Goto
<1>2. pc'[i] = "idle" /\ op'[i] = NoOp
    BY <1>1 DEF JournalTypes
<1>3. ProcessOK(i)'
    BY <1>1, <1>2 DEF ProcessOK, Creating, Sent, Completed
<1>4. QED
    BY <1>1, <1>2, <1>3 DEF JournalTypes, Stages

LEMMA CreateFailsKept ==
    ASSUME JournalInv, NEW i \in Processes, CreateFails(i)
    PROVE  JournalInv'
<1> DEFINE o == op[i]
<1>1. JournalTypes /\ ProcessOK(i)
    BY DEF JournalInv
<1>2. /\ pc[i] \in Creating /\ Exit(i)
      /\ UNCHANGED <<answer, token, request, record, abandoned, stored, etag,
                     applied, reported, told>>
    BY DEF CreateFails, Creating, Exit, serverVars
<1>3. o \in Ops \ reported /\ answer[i] = "none"
    BY <1>1, <1>2 DEF ProcessOK, Creating
<1>4. OperationOK(o) /\ file[o] \in Contents /\ disk[o] \in SUBSET Contents
    BY <1>1, <1>3 DEF JournalInv, JournalTypes
<1>5. PICK f \in {file[o], "absent"}, d \in {disk[o], disk[o] \cup {"absent"}, {"absent"}} :
        file' = [file EXCEPT ![o] = f] /\ disk' = [disk EXCEPT ![o] = d]
    <2>1. file = [file EXCEPT ![o] = file[o]] /\ disk = [disk EXCEPT ![o] = disk[o]]
        BY <1>1 DEF JournalTypes
    <2>2. QED
        BY <2>1 DEF CreateFails
<1>6. /\ ProcessOK(i)' /\ op'[i] = NoOp
      /\ pc' \in [Processes -> Stages]
      /\ op' \in [Processes -> Ops \cup {NoOp}]
      /\ attempts' \in [Processes -> Nat]
      /\ \A j \in Processes \ {i} : SameClient(j)
    BY <1>1, <1>2, <1>3, ExitedOK DEF SameClient
<1>7. JournalTypes'
    <2>1. f \in Contents /\ d \in SUBSET Contents
        BY <1>4 DEF Contents
    <2>2. file' \in [Ops -> Contents] /\ disk' \in [Ops -> SUBSET Contents]
        BY <1>1, <1>3, <1>5, <2>1 DEF JournalTypes
    <2>3. QED
        BY <1>1, <1>2, <1>6, <2>2 DEF JournalTypes
<1>8. file'[o] = f /\ disk'[o] = d
    BY <1>1, <1>3, <1>5 DEF JournalTypes
<1>9. ASSUME NEW q, q = o
      PROVE  OperationOK(q)'
    BY <1>2, <1>3, <1>4, <1>5, <1>8, <1>9 DEF OperationOK
<1>10. \A q \in Ops \ {o} : SameOperation(q)
    BY <1>1, <1>2, <1>5 DEF SameOperation, JournalTypes
<1>11. QED
    BY <1>2, <1>3, <1>6, <1>7, <1>9, <1>10, NobodyElseCreates, OperationStep

LEMMA ReceiveProblemKept ==
    ASSUME JournalInv, NEW i \in Processes, ReceiveProblem(i)
    PROVE  JournalInv'
<1> DEFINE o == op[i]
<1>1. JournalTypes /\ ProcessOK(i)
    BY DEF JournalInv
<1>2. /\ pc[i] = "waiting" /\ answer[i] \in Answers \ {"ok"} /\ Exit(i)
      /\ told' = [told EXCEPT ![o] = @ \cup {answer[i]}]
      /\ answer' = [answer EXCEPT ![i] = "none"]
      /\ abandoned' = abandoned
      /\ UNCHANGED <<record, file, disk, stored, etag, applied, reported>>
    BY DEF ReceiveProblem, Completing, HangUp, journalVars, Answers
<1>3. o \in reported /\ o \in Ops
    BY <1>1, <1>2 DEF ProcessOK, Sent, Genuine, Message, JournalTypes
<1>4. /\ answer' \in [Processes -> Answers \cup {"none", "sent"}]
      /\ answer'[i] = "none" /\ \A j \in Processes \ {i} : answer'[j] = answer[j]
    BY <1>1, <1>2 DEF JournalTypes
<1>5. /\ ProcessOK(i)' /\ op'[i] = NoOp
      /\ pc' \in [Processes -> Stages]
      /\ op' \in [Processes -> Ops \cup {NoOp}]
      /\ attempts' \in [Processes -> Nat]
      /\ \A j \in Processes \ {i} : SameClient(j)
    BY <1>1, <1>2, <1>4, ExitedOK DEF SameClient
<1>6. JournalTypes'
    <2>1. told' \in [Ops -> SUBSET Answers]
        BY <1>1, <1>2, <1>3 DEF JournalTypes
    <2>2. UNCHANGED <<token, request>>
        BY <1>2 DEF Exit
    <2>3. QED
        BY <1>1, <1>2, <1>4, <1>5, <2>1, <2>2 DEF JournalTypes
<1>7. ASSUME NEW q, q = o
      PROVE  OperationOK(q)'
    <2>1. OperationOK(q) /\ told'[q] = told[q] \cup {answer[i]}
        BY <1>1, <1>2, <1>3, <1>7 DEF JournalInv, JournalTypes
    <2>2. "stale" \in told'[q] => Outdated(q)
        BY <1>1, <1>7, <2>1 DEF OperationOK, ProcessOK
    <2>3. Outdated(q) => Outdated(q)'
        BY <1>2 DEF Outdated
    <2>4. "ok" \in told'[q] => "ok" \in told[q]
        BY <1>2, <2>1
    <2>5. QED
        BY <1>2, <1>3, <1>7, <2>1, <2>2, <2>3, <2>4 DEF OperationOK
<1>8. \A q \in Ops \ {o} : SameOperation(q)
    BY <1>1, <1>2 DEF SameOperation, JournalTypes
<1>9. QED
    BY <1>2, <1>3, <1>5, <1>6, <1>7, <1>8, NobodyElseCreates, OperationStep

LEMMA ReplaceRecordKept ==
    ASSUME JournalInv, NEW i \in Processes, ReplaceRecord(i)
    PROVE  JournalInv'
<1> DEFINE o == op[i]
<1>1. JournalTypes /\ ProcessOK(i)
    BY DEF JournalInv
<1>2. /\ pc[i] = "prepared" /\ pc' = [pc EXCEPT ![i] = "replaced"]
      /\ file' = [file EXCEPT ![o] = "succeeded"]
      /\ disk' = [disk EXCEPT ![o] = @ \cup {"succeeded"}]
      /\ UNCHANGED <<op, token, request, attempts, answer, record, abandoned, stored,
                     etag, applied, reported, told>>
    BY DEF ReplaceRecord, Goto, serverVars
<1>3. o \in reported /\ o \in Ops /\ applied[o] > 0
    BY <1>1, <1>2 DEF ProcessOK, Sent, Completed, Genuine, Message, JournalTypes
<1>4. OperationOK(o) /\ file'[o] = "succeeded" /\ disk'[o] = disk[o] \cup {"succeeded"}
    BY <1>1, <1>2, <1>3 DEF JournalInv, JournalTypes
<1>5. JournalTypes' /\ pc'[i] = "replaced"
    BY <1>1, <1>2, <1>3 DEF JournalTypes, Stages, Contents
<1>6. ProcessOK(i)'
    BY <1>1, <1>2, <1>5 DEF ProcessOK, Creating, Sent, Completed, Genuine, Message
<1>7. OperationOK(o)'
    BY <1>2, <1>3, <1>4 DEF OperationOK, Outdated, Loads
<1>8. \A j \in Processes \ {i} : SameClient(j)
    BY <1>1, <1>2 DEF SameClient, JournalTypes
<1>9. \A q \in Ops \ {o} : SameOperation(q)
    BY <1>1, <1>2 DEF SameOperation, JournalTypes
<1>10. QED
    BY <1>2, <1>3, <1>5, <1>6, <1>7, <1>8, <1>9, NobodyElseCreates, OperationStep

LEMMA ReportSuccessKept ==
    ASSUME JournalInv, NEW i \in Processes, ReportSuccess(i)
    PROVE  JournalInv'
<1> DEFINE o == op[i]
<1>1. JournalTypes /\ ProcessOK(i)
    BY DEF JournalInv
<1>2. /\ pc[i] = "replaced" /\ Exit(i)
      /\ disk' = [disk EXCEPT ![o] = {"succeeded"}]
      /\ told' = [told EXCEPT ![o] = @ \cup {"ok"}]
      /\ UNCHANGED <<answer, token, request, record, file, abandoned, stored, etag,
                     applied, reported>>
    BY DEF ReportSuccess, Settled, Exit, serverVars
<1>3. /\ o \in reported /\ o \in Ops /\ applied[o] > 0 /\ answer[i] = "none"
    BY <1>1, <1>2 DEF ProcessOK, Sent, Completed, Genuine, Message, JournalTypes
<1>4. /\ ProcessOK(i)' /\ op'[i] = NoOp
      /\ pc' \in [Processes -> Stages]
      /\ op' \in [Processes -> Ops \cup {NoOp}]
      /\ attempts' \in [Processes -> Nat]
      /\ \A j \in Processes \ {i} : SameClient(j)
    BY <1>1, <1>2, <1>3, ExitedOK DEF SameClient
<1>5. JournalTypes'
    BY <1>1, <1>2, <1>3, <1>4 DEF JournalTypes, Contents, Answers
<1>6. /\ OperationOK(o) /\ disk'[o] = {"succeeded"}
      /\ told'[o] = told[o] \cup {"ok"}
    BY <1>1, <1>2, <1>3 DEF JournalInv, JournalTypes
<1>7. ASSUME NEW q, q = o
      PROVE  OperationOK(q)'
    BY <1>2, <1>3, <1>6, <1>7 DEF OperationOK, Outdated, Loads
<1>8. \A q \in Ops \ {o} : SameOperation(q)
    BY <1>1, <1>2 DEF SameOperation, JournalTypes
<1>9. QED
    BY <1>2, <1>3, <1>4, <1>5, <1>7, <1>8, NobodyElseCreates, OperationStep

----------------------------------------------------------------------------
(* The service.                                                            *)

\* The idempotency record of a genuine message is the only one of its
\* operation: its key, caller and fingerprint come from one journal record.
LEMMA StoredIsMine ==
    ASSUME JournalInv, NEW m \in Messages, Genuine(m)
    PROVE  \A s \in stored : s.op = m.op => s \in Stored(m) /\ s.request = m.request
<1> SUFFICES ASSUME NEW s \in stored, s.op = m.op
             PROVE  s \in Stored(m) /\ s.request = m.request
    OBVIOUS
<1>1. s.caller = m.caller /\ s.request = m.request
    BY DEF JournalInv, Genuine
<1>2. QED
    BY <1>1 DEF Stored

\* What the service's transaction for a genuine message guarantees.
LEMMA TransactionMeans ==
    ASSUME JournalInv, NEW m \in Messages, Genuine(m), NEW result,
           Transaction(m, result), record' = record
    PROVE  /\ stored' \subseteq stored \cup {m}
           /\ etag' \in Nat /\ etag <= etag'
           /\ applied' \in [Ops -> Nat]
           /\ \A o \in Ops : applied'[o] = IF \E s \in stored' : s.op = o THEN 1 ELSE 0
           /\ \A o \in Ops : applied[o] > 0 => applied'[o] > 0
           /\ \A o \in Ops : Outdated(o) => Outdated(o)'
           /\ result = "ok" => applied'[m.op] > 0
           /\ result = "stale" => Outdated(m.op)'
<1>1. JournalTypes /\ m.op \in Ops /\ m.request \in Requests
    BY DEF JournalInv, Messages
<1>2. \A o \in Ops : applied[o] = IF \E s \in stored : s.op = o THEN 1 ELSE 0
    BY DEF JournalInv, OperationOK
<1>3. Replays(m) <=> \E s \in stored : s.op = m.op
    BY StoredIsMine DEF Replays, Stored
<1>4. m.request = record[m.op].request
    BY DEF Genuine
<1>5. m.request.ifMatch \in Nat /\ m.request.kind \in {"archive.create", "archive.revise"}
    BY <1>1, RequestTyped
<1>6. record[m.op] # NoRecord /\ m.request.ifMatch <= etag
    <2>1. record[m.op] # NoRecord
        BY <1>1 DEF Genuine, JournalInv, OperationOK
    <2>2. QED
        BY <1>1, <1>4, <2>1 DEF JournalInv, OperationOK
<1>7. CASE UNCHANGED <<stored, etag, applied>> /\ result \notin {"ok", "stale"}
    BY <1>1, <1>2, <1>7 DEF JournalTypes, Outdated
<1>8. CASE UNCHANGED <<stored, etag, applied>> /\ Replays(m)
           /\ result = IF \E s \in Stored(m) : s.request = m.request
                       THEN "ok" ELSE "mismatch"
    <2>1. applied[m.op] = 1
        BY <1>1, <1>2, <1>3, <1>8
    <2>2. QED
        BY <1>1, <1>2, <1>8, <2>1 DEF JournalTypes, Outdated
<1>9. CASE UNCHANGED <<stored, etag, applied>> /\ ~ Replays(m) /\ ~ Precondition(m)
           /\ result = "stale"
    <2>1. applied[m.op] = 0
        BY <1>1, <1>2, <1>3, <1>9
    <2>2. m.request.kind = "archive.revise" /\ m.request.ifMatch < etag
        BY <1>1, <1>5, <1>6, <1>9 DEF Precondition, JournalTypes
    <2>3. Outdated(m.op)
        BY <1>4, <1>6, <2>1, <2>2 DEF Outdated
    <2>4. QED
        BY <1>1, <1>2, <1>9, <2>3 DEF JournalTypes, Outdated
<1>10. CASE /\ ~ Replays(m) /\ Precondition(m) /\ result = "ok"
            /\ etag' = IF m.request.kind = "archive.revise" THEN etag + 1 ELSE etag
            /\ stored' = stored \cup {m}
            /\ applied' = [applied EXCEPT ![m.op] = @ + 1]
    <2>1. applied[m.op] = 0 /\ etag \in Nat /\ applied \in [Ops -> Nat]
        BY <1>1, <1>2, <1>3, <1>10 DEF JournalTypes
    <2>2. /\ applied'[m.op] = 1 /\ applied' \in [Ops -> Nat]
          /\ \A o \in Ops \ {m.op} : applied'[o] = applied[o]
        BY <1>1, <1>10, <2>1
    <2>3. etag' \in Nat /\ etag <= etag'
        BY <1>10, <2>1
    <2>4. ~ Outdated(m.op)
        BY <1>4, <1>5, <1>10, <2>1 DEF Outdated, Precondition
    <2>5. ASSUME NEW o \in Ops
          PROVE  applied'[o] = IF \E s \in stored' : s.op = o THEN 1 ELSE 0
        <3>1. CASE o = m.op
            BY <1>10, <2>2, <3>1
        <3>2. CASE o # m.op
            BY <1>2, <1>10, <2>2, <3>2
        <3>3. QED
            BY <3>1, <3>2
    <2>6. ASSUME NEW o \in Ops, Outdated(o)
          PROVE  Outdated(o)'
        <3>1. o # m.op /\ applied'[o] = 0
            BY <2>2, <2>4, <2>6 DEF Outdated
        <3>2. record[o].request.ifMatch \in Nat
            BY <1>1, <2>6, RecordTyped, RequestTyped DEF Outdated
        <3>3. QED
            BY <2>1, <2>3, <2>6, <3>1, <3>2 DEF Outdated
    <2>7. QED
        BY <1>10, <2>1, <2>2, <2>3, <2>5, <2>6
<1>11. QED
    BY <1>7, <1>8, <1>9, <1>10 DEF Transaction

\* A step of the service leaves the journal alone and keeps every answer true.
LEMMA ServiceStep ==
    ASSUME JournalInv,
           UNCHANGED <<pc, op, token, request, record, file, disk, abandoned,
                       reported, told>>,
           \A s \in stored' : s \in stored \/ Genuine(s),
           etag' \in Nat, etag <= etag',
           \A o \in Ops : applied'[o] = IF \E s \in stored' : s.op = o THEN 1 ELSE 0,
           \A o \in Ops : applied[o] > 0 => applied'[o] > 0,
           \A o \in Ops : Outdated(o) => Outdated(o)'
    PROVE  /\ \A m \in abandoned' \cup stored' : Genuine(m)'
           /\ \A o \in Ops : OperationOK(o)'
           /\ \A j \in Processes : answer'[j] = answer[j] => ProcessOK(j)'
<1>1. JournalTypes
    BY DEF JournalInv
<1>2. \A m \in abandoned' \cup stored' : Genuine(m)'
    <2>1. \A m : Genuine(m) => Genuine(m)'
        BY DEF Genuine
    <2>2. QED
        BY <2>1 DEF JournalInv
<1>3. ASSUME NEW o \in Ops
      PROVE  OperationOK(o)'
    <2>1. OperationOK(o)
        BY DEF JournalInv
    <2>2. record'[o] # NoRecord => record'[o].request.ifMatch <= etag'
        <3>1. record[o] # NoRecord => record[o].request.ifMatch \in Nat
            BY <1>1, RecordTyped, RequestTyped
        <3>2. QED
            BY <1>1, <2>1, <3>1 DEF OperationOK, JournalTypes
    <2>3. QED
        BY <2>1, <2>2 DEF OperationOK
<1>4. ASSUME NEW j \in Processes, answer'[j] = answer[j]
      PROVE  ProcessOK(j)'
    <2>1. ProcessOK(j) /\ SameClient(j) /\ Grows
        BY <1>4 DEF JournalInv, SameClient, Grows
    <2>2. pc[j] \in Creating =>
              /\ op[j] \notin reported' /\ file'[op[j]] = file[op[j]]
              /\ \A k \in Processes : op'[k] = op[j] => k = j
        BY <2>1 DEF ProcessOK
    <2>3. answer[j] = "stale" /\ Outdated(op[j]) => Outdated(op[j])'
        <3>1. answer[j] = "stale" => op[j] \in Ops
            BY <1>1, <2>1 DEF ProcessOK, Sent, Genuine, Message, JournalTypes
        <3>2. QED
            BY <3>1 DEF Outdated
    <2>4. \A o \in reported : record[o] # NoRecord
        BY <1>1 DEF JournalInv, JournalTypes, OperationOK
    <2>5. QED
        BY <1>1, <2>1, <2>2, <2>3, <2>4, OthersKept
<1>5. QED
    BY <1>2, <1>3, <1>4

LEMMA ExecuteKept ==
    ASSUME JournalInv, NEW i \in Processes, Execute(i)
    PROVE  JournalInv'
<1>1. JournalTypes /\ ProcessOK(i) /\ pc[i] = "waiting" /\ Genuine(Message(i))
    BY DEF JournalInv, Execute, ProcessOK, Sent
<1>2. PICK result \in Answers :
        Transaction(Message(i), result) /\ answer' = [answer EXCEPT ![i] = result]
    BY DEF Execute
<1>3. UNCHANGED <<pc, op, token, request, attempts, record, file, disk, abandoned,
                  reported, told>>
    BY DEF Execute, journalVars
<1>4. PICK m \in Messages : m = Message(i)
    BY <1>1 DEF JournalTypes, Genuine, Message, Messages
<1>5. /\ stored' \subseteq stored \cup {m}
      /\ etag' \in Nat /\ etag <= etag'
      /\ applied' \in [Ops -> Nat]
      /\ \A o \in Ops : applied'[o] = IF \E s \in stored' : s.op = o THEN 1 ELSE 0
      /\ \A o \in Ops : applied[o] > 0 => applied'[o] > 0
      /\ \A o \in Ops : Outdated(o) => Outdated(o)'
      /\ result = "ok" => applied'[m.op] > 0
      /\ result = "stale" => Outdated(m.op)'
    BY <1>1, <1>2, <1>3, <1>4, TransactionMeans
<1>6. JournalTypes'
    BY <1>1, <1>2, <1>3, <1>5 DEF JournalTypes
<1>7. \A s \in stored' : s \in stored \/ Genuine(s)
    BY <1>1, <1>4, <1>5
<1>8. /\ \A n \in abandoned' \cup stored' : Genuine(n)'
      /\ \A o \in Ops : OperationOK(o)'
      /\ \A j \in Processes : answer'[j] = answer[j] => ProcessOK(j)'
    BY <1>3, <1>5, <1>7, ServiceStep
<1>9. ProcessOK(i)'
    <2>1. m.op = op[i] /\ answer'[i] = result
        BY <1>1, <1>2, <1>4 DEF Message, JournalTypes
    <2>2. request[i].ifMatch <= etag'
        <3>1. request[i].ifMatch \in Nat /\ etag \in Nat
            BY <1>1, RequestTyped DEF JournalTypes
        <3>2. QED
            BY <1>1, <1>5, <3>1 DEF ProcessOK
    <2>3. Genuine(Message(i))'
        BY <1>1, <1>3 DEF Genuine, Message
    <2>4. result = "stale" => Outdated(op[i])'
        BY <1>3, <1>5, <2>1 DEF Outdated
    <2>5. QED
        BY <1>1, <1>3, <1>5, <2>1, <2>2, <2>3, <2>4
        DEF ProcessOK, Creating, Sent, Completed
<1>10. \A j \in Processes \ {i} : answer'[j] = answer[j]
    BY <1>1, <1>2 DEF JournalTypes
<1>11. QED
    BY <1>6, <1>8, <1>9, <1>10 DEF JournalInv

LEMMA ExecuteAbandonedKept ==
    ASSUME JournalInv, ExecuteAbandoned
    PROVE  JournalInv'
<1>1. JournalTypes
    BY DEF JournalInv
<1>2. PICK m \in abandoned, result \in Answers : Transaction(m, result)
    BY DEF ExecuteAbandoned
<1>3. UNCHANGED <<pc, op, token, request, attempts, answer, record, file, disk,
                  abandoned, reported, told>>
    BY DEF ExecuteAbandoned, clientVars, journalVars
<1>4. m \in Messages /\ Genuine(m)
    BY <1>1 DEF JournalInv, JournalTypes
<1>5. /\ stored' \subseteq stored \cup {m}
      /\ etag' \in Nat /\ etag <= etag'
      /\ applied' \in [Ops -> Nat]
      /\ \A o \in Ops : applied'[o] = IF \E s \in stored' : s.op = o THEN 1 ELSE 0
      /\ \A o \in Ops : applied[o] > 0 => applied'[o] > 0
      /\ \A o \in Ops : Outdated(o) => Outdated(o)'
    BY <1>2, <1>3, <1>4, TransactionMeans
<1>6. JournalTypes'
    BY <1>1, <1>3, <1>4, <1>5 DEF JournalTypes
<1>7. \A s \in stored' : s \in stored \/ Genuine(s)
    BY <1>4, <1>5
<1>8. QED
    BY <1>3, <1>5, <1>6, <1>7, ServiceStep DEF JournalInv

LEMMA OtherWriteKept ==
    ASSUME JournalInv, OtherWrite
    PROVE  JournalInv'
<1>1. JournalTypes
    BY DEF JournalInv
<1>2. /\ etag' = etag + 1
      /\ UNCHANGED <<pc, op, token, request, attempts, answer, record, file, disk,
                     abandoned, stored, applied, reported, told>>
    BY DEF OtherWrite, clientVars, journalVars
<1>3. etag \in Nat /\ etag' \in Nat /\ etag <= etag'
    BY <1>1, <1>2 DEF JournalTypes
<1>4. JournalTypes'
    BY <1>1, <1>2, <1>3 DEF JournalTypes
<1>5. ASSUME NEW o \in Ops, Outdated(o)
      PROVE  Outdated(o)'
    <2>1. record[o].request.ifMatch \in Nat
        BY <1>1, <1>5, RecordTyped, RequestTyped DEF Outdated
    <2>2. QED
        BY <1>2, <1>3, <1>5, <2>1 DEF Outdated
<1>6. \A o \in Ops : applied[o] = IF \E s \in stored : s.op = o THEN 1 ELSE 0
    BY DEF JournalInv, OperationOK
<1>7. QED
    BY <1>2, <1>3, <1>4, <1>5, <1>6, ServiceStep DEF JournalInv

----------------------------------------------------------------------------
(* Power failures.                                                         *)

LEMMA PowerFailureKept ==
    ASSUME JournalInv, PowerFailure
    PROVE  JournalInv'
<1>1. JournalTypes
    BY DEF JournalInv
<1>2. /\ pc' = [i \in Processes |-> "idle"] /\ op' = [i \in Processes |-> NoOp]
      /\ attempts' = [i \in Processes |-> 0]
      /\ answer' = [i \in Processes |-> "none"]
      /\ file' \in [Ops -> Contents] /\ \A o \in Ops : file'[o] \in disk[o]
      /\ disk' = [o \in Ops |-> {file'[o]}]
      /\ UNCHANGED <<token, request, record, stored, etag, applied, reported, told>>
    BY DEF PowerFailure
<1>3. PICK lost \in SUBSET {i \in Processes : answer[i] = "sent"} :
        abandoned' = abandoned \cup {Message(i) : i \in lost}
    BY DEF PowerFailure
<1>4. ASSUME NEW m \in abandoned'
      PROVE  m \in Messages /\ Genuine(m)
    <2>1. CASE m \in abandoned
        BY <1>1, <2>1 DEF JournalInv, JournalTypes
    <2>2. CASE \E i \in lost : m = Message(i)
        <3>1. PICK i \in lost : m = Message(i)
            BY <2>2
        <3>2. i \in Processes /\ ProcessOK(i) /\ answer[i] = "sent"
            BY <1>3 DEF JournalInv
        <3>3. Genuine(m)
            BY <3>1, <3>2 DEF ProcessOK, Sent
        <3>4. QED
            BY <1>1, <3>1, <3>2, <3>3 DEF JournalTypes, Genuine, Message, Messages
    <2>3. QED
        BY <1>3, <1>4, <2>1, <2>2
<1>5. JournalTypes'
    BY <1>1, <1>2, <1>4 DEF JournalTypes, Stages
<1>6. \A m \in abandoned' \cup stored' : Genuine(m)'
    <2>1. \A m : Genuine(m) => Genuine(m)'
        BY <1>2 DEF Genuine
    <2>2. QED
        BY <1>2, <1>4, <2>1 DEF JournalInv
<1>7. ASSUME NEW i \in Processes
      PROVE  ProcessOK(i)'
    <2>1. ProcessOK(i) /\ pc'[i] = "idle" /\ op'[i] = NoOp /\ answer'[i] = "none"
        BY <1>2 DEF JournalInv
    <2>2. QED
        BY <1>2, <2>1 DEF ProcessOK, Creating, Sent, Completed
<1>8. ASSUME NEW o \in Ops
      PROVE  OperationOK(o)'
    <2>1. OperationOK(o) /\ file'[o] \in disk[o] /\ disk'[o] = {file'[o]}
        BY <1>2 DEF JournalInv
    <2>2. "ok" \in told[o] => file'[o] = "succeeded"
        BY <2>1 DEF OperationOK
    <2>3. QED
        BY <1>2, <2>1, <2>2 DEF OperationOK, Outdated
<1>9. QED
    BY <1>5, <1>6, <1>7, <1>8 DEF JournalInv

----------------------------------------------------------------------------
(* The theorems.                                                           *)

LEMMA JournalInvInit == JournalInit => JournalInv
<1> SUFFICES ASSUME JournalInit
             PROVE  JournalInv
    OBVIOUS
<1>1. JournalTypes
    BY DEF JournalInit, JournalTypes, Stages, Contents, Requests, Creates
<1>2. \A m \in abandoned \cup stored : Genuine(m)
    BY DEF JournalInit
<1>3. ASSUME NEW i \in Processes
      PROVE  ProcessOK(i)
    <2>1. pc[i] = "idle" /\ op[i] = NoOp /\ answer[i] = "none" /\ request[i] \in Creates
        BY DEF JournalInit
    <2>2. request[i].ifMatch <= etag
        BY <2>1 DEF JournalInit, Creates
    <2>3. QED
        BY <2>1, <2>2 DEF ProcessOK, Creating, Sent, Completed
<1>4. \A o \in Ops : OperationOK(o)
    BY DEF JournalInit, OperationOK
<1>5. QED
    BY <1>1, <1>2, <1>3, <1>4 DEF JournalInv

LEMMA JournalInvStep == JournalInv /\ [JournalNext]_vars => JournalInv'
<1> SUFFICES ASSUME JournalInv, [JournalNext]_vars
             PROVE  JournalInv'
    OBVIOUS
<1>1. CASE UNCHANGED vars
    BY <1>1 DEF vars, clientVars, journalVars, serverVars, JournalInv, JournalTypes,
       Genuine, ProcessOK, Message, OperationOK, Outdated
<1>2. ASSUME NEW i \in Processes, StartNew(i) \/ StartReplay(i)
      PROVE  JournalInv'
    BY <1>2, StartNewKept, StartReplayKept
<1>3. ASSUME NEW i \in Processes, Step(i)
      PROVE  JournalInv'
    BY <1>3, DrawOperationKept, ValidateCallerKept, EndingsKept, CreateStepsKept,
       SyncDirectoryKept, CreateFailsKept, RetryKept, ReceiveSuccessKept,
       ReceiveProblemKept, WriteTemporaryKept, ReplaceRecordKept, ReportSuccessKept
    DEF Step
<1>4. ASSUME NEW i \in Processes, Interrupt(i) \/ Execute(i)
      PROVE  JournalInv'
    BY <1>4, EndingsKept, ExecuteKept
<1>5. CASE ExecuteAbandoned \/ OtherWrite \/ PowerFailure
    BY <1>5, ExecuteAbandonedKept, OtherWriteKept, PowerFailureKept
<1>6. QED
    BY <1>1, <1>2, <1>3, <1>4, <1>5 DEF JournalNext

\* JournalInv is an invariant of the client, the disk and the service.
LEMMA JournalInvHolds == JournalSpec => []JournalInv
BY JournalInvInit, JournalInvStep, PTL DEF JournalSpec

\* For any number of concurrent commands, replays, retries, late executions
\* and power failures, the service applies an operation at most once: every
\* message of an operation carries the key, the caller and the fingerprint of
\* one journal record, so the idempotency record of the first one answers all.
THEOREM OperationsAppliedOnce == JournalSpec => []AppliedOnce
<1>1. JournalInv => AppliedOnce
    BY DEF JournalInv, OperationOK, AppliedOnce
<1>2. QED
    BY <1>1, JournalInvHolds, PTL

\* In every content a power failure may uncover, an applied operation can be
\* replayed, a record marked succeeded was applied, a reported success stays
\* recorded, and "not applied" stays true.
THEOREM JournalTellsTheTruth == JournalSpec => []JournalAgrees
<1>1. ASSUME JournalInv, NEW o \in Ops
      PROVE  /\ applied[o] > 0 => disk[o] \subseteq {"pending", "succeeded"}
             /\ "succeeded" \in disk[o] \cup {file[o]} => applied[o] > 0
             /\ "stale" \in told[o] => applied[o] = 0
             /\ "ok" \in told[o] => disk[o] = {"succeeded"}
    <2>1. OperationOK(o)
        BY <1>1 DEF JournalInv
    <2>2. applied[o] > 0 => o \in reported
        <3>1. applied[o] > 0 => \E s \in stored : s.op = o
            BY <2>1 DEF OperationOK
        <3>2. QED
            BY <1>1, <3>1 DEF JournalInv, Genuine
    <2>3. QED
        BY <2>1, <2>2 DEF OperationOK, Outdated, Loads
<1>2. JournalInv => JournalAgrees
    BY <1>1 DEF JournalAgrees, AppliedIsRecoverable, SucceededIsApplied,
       NotAppliedIsFinal, SuccessIsDurable
<1>3. QED
    BY <1>2, JournalInvHolds, PTL

----------------------------------------------------------------------------
(* The upload of a Page's files.  Sizes of sequences first: SizeOf is the  *)
(* last of the running totals.                                             *)

Sized(entries) ==
    Len(entries) \in Nat /\ \A i \in 1 .. Len(entries) : entries[i].size \in Nat

\* f[i] is the size of the first i entries, for i up to n.
Totals(entries, n, f) ==
    /\ f \in [0 .. n -> Nat] /\ f[0] = 0
    /\ \A i \in 1 .. n : f[i] = f[i - 1] + entries[i].size

\* A set of naturals that is not empty has a least element.
LEMMA Least ==
    ASSUME NEW S, S \subseteq Nat, S # {}
    PROVE  \E n \in S : \A m \in S : ~(m < n)
<1>1. PICK n \in S : \A m \in S : ~(<<m, n>> \in OpToRel(<, Nat))
    BY NatLessThanWellFounded, WFMin
<1>2. QED
    BY <1>1 DEF OpToRel

LEMMA TotalsExist ==
    ASSUME NEW entries, Sized(entries)
    PROVE  \E f : Totals(entries, Len(entries), f)
<1> DEFINE none == {n \in 0 .. Len(entries) : ~\E f : Totals(entries, n, f)}
<1>1. none = {}
    <2> SUFFICES ASSUME none # {}
                 PROVE  FALSE
        OBVIOUS
    <2>1. none \subseteq Nat
        BY DEF Sized
    <2>2. PICK n \in none : \A m \in none : ~(m < n)
        BY <2>1, Least
    <2>3. n \in 0 .. Len(entries) /\ ~\E f : Totals(entries, n, f) /\ Len(entries) \in Nat
        BY <2>2 DEF Sized
    <2>4. Totals(entries, 0, [i \in 0 .. 0 |-> 0])
        BY DEF Totals
    <2>5. n # 0
        BY <2>3, <2>4
    <2>6. n - 1 \in 0 .. Len(entries) /\ n - 1 < n
        BY <2>3, <2>5
    <2>7. PICK f : Totals(entries, n - 1, f)
        BY <2>2, <2>6
    <2> DEFINE g == [i \in 0 .. n |-> IF i = n THEN f[n - 1] + entries[n].size ELSE f[i]]
    <2>8. /\ n \in 1 .. Len(entries) /\ entries[n].size \in Nat
          /\ f \in [0 .. n - 1 -> Nat] /\ f[0] = 0
          /\ \A i \in 1 .. n - 1 : f[i] = f[i - 1] + entries[i].size
        BY <2>3, <2>5, <2>7 DEF Sized, Totals
    <2>9. g \in [0 .. n -> Nat] /\ g[0] = 0
        BY <2>8
    <2>10. \A i \in 1 .. n : g[i] = g[i - 1] + entries[i].size
        BY <2>8
    <2>11. Totals(entries, n, g)
        BY <2>9, <2>10 DEF Totals
    <2>12. QED
        BY <2>3, <2>11
<1>2. Len(entries) \in 0 .. Len(entries)
    BY DEF Sized
<1>3. QED
    BY <1>1, <1>2

\* There is one such function, and SizeOf is its last value.
LEMMA SizeFound ==
    ASSUME NEW entries, Sized(entries), NEW f, Totals(entries, Len(entries), f)
    PROVE  SizeOf(entries) = f[Len(entries)]
<1> DEFINE N == Len(entries)
           Stage(g, i) == IF i = 0 THEN 0 ELSE g[i - 1] + entries[i].size
           Obeys(g) == g = [i \in 0 .. N |-> Stage(g, i)]
<1>1. N \in Nat /\ f = [i \in 0 .. N |-> f[i]] /\ \A i \in 0 .. N : f[i] = Stage(f, i)
    BY DEF Sized, Totals
<1>2. Obeys(f)
    <2> HIDE DEF Stage, N
    <2>1. QED
        BY <1>1
<1>3. ASSUME NEW g, Obeys(g)
      PROVE  g = f
    <2> DEFINE differ == {i \in 0 .. N : g[i] # f[i]}
    <2>1. \A i \in 0 .. N : g[i] = Stage(g, i)
        <3> HIDE DEF Stage, N
        <3>1. QED
            BY <1>3
    <2>2. differ = {}
        <3> SUFFICES ASSUME differ # {}
                     PROVE  FALSE
            OBVIOUS
        <3>1. differ \subseteq Nat
            BY <1>1
        <3>2. PICK i \in differ : \A j \in differ : ~(j < i)
            BY <3>1, Least
        <3>3. i # 0
            BY <1>1, <2>1, <3>2
        <3>4. i - 1 \in 0 .. N /\ i - 1 \notin differ
            BY <1>1, <3>2, <3>3
        <3>5. QED
            BY <1>1, <2>1, <3>2, <3>3, <3>4
    <2>3. g = [i \in 0 .. N |-> g[i]]
        BY <1>3
    <2>4. \A i \in 0 .. N : g[i] = f[i]
        BY <2>2
    <2> HIDE DEF Obeys, Stage, N
    <2>5. QED
        BY <1>1, <2>3, <2>4
<1>4. SizeOf(entries) = (CHOOSE g : Obeys(g))[N]
    BY DEF SizeOf
<1> HIDE DEF Obeys
<1>5. QED
    BY <1>2, <1>3, <1>4

LEMMA SizeNatural ==
    ASSUME NEW entries, Sized(entries)
    PROVE  SizeOf(entries) \in Nat
<1>1. PICK f : Totals(entries, Len(entries), f)
    BY TotalsExist
<1>2. QED
    BY <1>1, SizeFound DEF Totals, Sized

LEMMA SizeOfNothing == SizeOf(<<>>) = 0
<1>1. Len(<<>>) = 0 /\ Sized(<<>>)
    BY DEF Sized
<1>2. PICK f : Totals(<<>>, 0, f)
    BY <1>1, TotalsExist
<1>3. QED
    BY <1>1, <1>2, SizeFound DEF Totals

\* The first entries of a sequence weigh no more than all of it, and as much as
\* another sequence of entries of their sizes.
LEMMA SizeOfFirst ==
    ASSUME NEW a, NEW b, Sized(a), Sized(b), Len(a) <= Len(b),
           \A i \in 1 .. Len(a) : a[i].size = b[i].size
    PROVE  /\ SizeOf(a) \in Nat /\ SizeOf(b) \in Nat
           /\ Len(a) = Len(b) => SizeOf(a) = SizeOf(b)
           /\ Len(a) < Len(b) => SizeOf(a) + b[Len(a) + 1].size <= SizeOf(b)
<1>1. PICK f : Totals(b, Len(b), f)
    BY TotalsExist
<1>2. PICK m \in Nat, n \in Nat : m = Len(a) /\ n = Len(b)
    BY DEF Sized
<1>3. f \in [0 .. n -> Nat] /\ \A i \in 1 .. n : f[i] = f[i - 1] + b[i].size
    BY <1>1, <1>2 DEF Totals
<1>4. SizeOf(a) = f[m]
    <2> DEFINE g == [i \in 0 .. m |-> f[i]]
    <2>1. Totals(a, m, g)
        BY <1>1, <1>2, <1>3 DEF Totals
    <2>2. QED
        BY <1>2, <2>1, SizeFound
<1>5. SizeOf(b) = f[n]
    BY <1>1, <1>2, SizeFound
<1>6. ASSUME m < n
      PROVE  f[m + 1] <= f[n]
    <2> DEFINE less == {i \in m + 1 .. n : f[i] < f[m + 1]}
    <2>1. less = {}
        <3> SUFFICES ASSUME less # {}
                     PROVE  FALSE
            OBVIOUS
        <3>1. PICK i \in less : \A j \in less : ~(j < i)
            <4>1. less \subseteq Nat
                BY <1>2
            <4>2. QED
                BY <4>1, Least
        <3>2. i \in m + 1 .. n /\ f[i] < f[m + 1] /\ i # m + 1
            BY <1>3, <1>6, <3>1
        <3>3. i - 1 \in m + 1 .. n /\ i - 1 \notin less
            BY <3>1, <3>2
        <3>4. i \in 1 .. n /\ i \in 0 .. n /\ i - 1 \in 0 .. n /\ m + 1 \in 0 .. n
            BY <1>6, <3>2
        <3>5. f[i] \in Nat /\ f[i - 1] \in Nat /\ f[m + 1] \in Nat
            BY <1>3, <3>4
        <3>6. b[i].size \in Nat
            BY <1>2, <3>4 DEF Sized
        <3>7. f[m + 1] <= f[i - 1]
            BY <3>3, <3>5
        <3>8. f[i] = f[i - 1] + b[i].size /\ f[i] < f[m + 1]
            BY <1>3, <3>2, <3>4
        <3> HIDE DEF less
        <3>9. QED
            BY <3>5, <3>6, <3>7, <3>8
    <2>2. n \in m + 1 .. n
        BY <1>6
    <2>3. f[n] \in Nat /\ f[m + 1] \in Nat
        BY <1>3, <1>6
    <2>4. QED
        BY <2>1, <2>2, <2>3
<1>7. m < n => f[m + 1] = f[m] + b[m + 1].size
    BY <1>3
<1>8. QED
    BY <1>2, <1>3, <1>4, <1>5, <1>6, <1>7

\* One more entry.
LEMMA SizeOfMore ==
    ASSUME NEW S, NEW entries \in Seq(S), NEW x \in S, Sized(entries), x.size \in Nat
    PROVE  Sized(Append(entries, x)) /\ SizeOf(Append(entries, x)) = SizeOf(entries) + x.size
<1> DEFINE more == Append(entries, x)
           N == Len(entries)
<1>1. /\ N \in Nat /\ Len(more) = N + 1 /\ more[N + 1] = x
      /\ \A i \in 1 .. N : more[i] = entries[i]
    OBVIOUS
<1> HIDE DEF more, N
<1>2. Sized(more)
    BY <1>1 DEF Sized, N
<1>3. PICK f : Totals(more, N + 1, f)
    BY <1>1, <1>2, TotalsExist
<1> DEFINE g == [i \in 0 .. N |-> f[i]]
<1>4. Totals(entries, N, g)
    <2>1. /\ f \in [0 .. N + 1 -> Nat] /\ f[0] = 0
          /\ \A i \in 1 .. N + 1 : f[i] = f[i - 1] + more[i].size
        BY <1>3 DEF Totals
    <2>2. g \in [0 .. N -> Nat] /\ g[0] = 0
        BY <1>1, <2>1
    <2>3. \A i \in 1 .. N : g[i] = g[i - 1] + entries[i].size
        <3> SUFFICES ASSUME NEW i \in 1 .. N
                     PROVE  g[i] = g[i - 1] + entries[i].size
            OBVIOUS
        <3>1. i \in 1 .. N + 1 /\ i \in 0 .. N /\ i - 1 \in 0 .. N
            BY <1>1
        <3>2. f[i] = f[i - 1] + more[i].size /\ more[i] = entries[i]
            BY <1>1, <2>1, <3>1
        <3>3. QED
            BY <3>1, <3>2
    <2> HIDE DEF g
    <2>4. QED
        BY <2>2, <2>3 DEF Totals
<1>5. SizeOf(entries) = f[N] /\ SizeOf(more) = f[N + 1]
    <2>1. SizeOf(entries) = g[N]
        BY <1>4, SizeFound DEF N
    <2>2. g[N] = f[N]
        BY <1>1
    <2>3. SizeOf(more) = f[N + 1]
        BY <1>1, <1>2, <1>3, SizeFound
    <2>4. QED
        BY <2>1, <2>2, <2>3
<1>6. f[N + 1] = f[N] + x.size
    <2>1. N + 1 \in 1 .. N + 1 /\ (N + 1) - 1 = N
        BY <1>1
    <2>2. QED
        BY <1>1, <1>3, <2>1 DEF Totals
<1>7. QED
    BY <1>2, <1>5, <1>6 DEF more


\* What the collector holds once a part is under way or ended.
HeldTypes ==
    /\ upload \in Uploads /\ declared \in BOOLEAN
    /\ at \in 1 .. Len(upload) + 1 /\ part \in {"outside", "data"}
    /\ data \in Nat /\ metadata \in Nat
    /\ files \in Seq([key: {upload[i].key : i \in DOMAIN upload}, size: Nat])

\* The parts before at were accepted and are what is held.
HeldOK ==
    /\ IF at = 1 THEN metadata = 0 /\ files = <<>>
       ELSE /\ metadata = upload[1].size /\ metadata \in 1 .. MaxMetadata
            /\ upload[1].name = "metadata" /\ upload[1].media
            /\ Len(files) = at - 2
    /\ \A i \in DOMAIN files :
          /\ upload[i + 1].name = "file" /\ upload[i + 1].media
          /\ files[i].key = upload[i + 1].key /\ files[i].size = upload[i + 1].size
          /\ files[i].size <= MaxFile
    /\ \A i, j \in DOMAIN files : files[i].key = files[j].key => i = j
    /\ Len(files) <= MaxFiles /\ SizeOf(files) <= MaxPage

\* The part under way was accepted as far as it arrived.
PartOK ==
    part = "data" =>
       /\ at \in DOMAIN upload /\ Current.media /\ data <= Current.size
       /\ Len(files) < MaxFiles
       /\ IF at = 1
          THEN Current.name = "metadata" /\ data <= MaxMetadata
          ELSE /\ Current.name = "file"
               /\ \A i \in DOMAIN files : files[i].key # Current.key
               /\ data <= MaxFile /\ SizeOf(files) + data <= MaxPage

VerdictOK ==
    /\ verdict = "accepted" => WellFormed
    /\ verdict \in {"too large", "media", "invalid"} => ~WellFormed

UploadInv == HeldTypes /\ HeldOK /\ PartOK /\ VerdictOK

\* The stream as a sequence, its files, and what is held of them.
LEMMA StreamTyped ==
    ASSUME upload \in Uploads
    PROVE  /\ upload \in Seq(Range(upload)) /\ Len(upload) \in Nat
           /\ DOMAIN upload = 1 .. Len(upload)
           /\ \A i \in DOMAIN upload : upload[i].media \in BOOLEAN /\ upload[i].size \in Nat
           /\ MaxMetadata \in Nat /\ MaxFile \in Nat /\ MaxPage \in Nat /\ MaxFiles \in Nat
<1>1. upload \in Seq(Range(upload))
    BY UploadAssumption
<1>2. QED
    BY <1>1, UploadAssumption

LEMMA FilesOfStream ==
    ASSUME upload \in Uploads, Len(upload) > 0, NEW t, t = Tail(upload)
    PROVE  /\ Len(t) = Len(upload) - 1 /\ DOMAIN t = 1 .. Len(upload) - 1
           /\ \A i \in DOMAIN t : t[i] = upload[i + 1]
           /\ Sized(t)
<1>1. upload \in Seq(Range(upload)) /\ Len(upload) \in Nat
    BY StreamTyped
<1>2. /\ Len(t) = Len(upload) - 1 /\ DOMAIN t = 1 .. Len(upload) - 1
      /\ \A i \in DOMAIN t : t[i] = upload[i + 1]
    BY <1>1
<1>3. Sized(t)
    BY <1>1, <1>2, StreamTyped DEF Sized
<1>4. QED
    BY <1>2, <1>3

LEMMA FilesTyped ==
    ASSUME HeldTypes
    PROVE  /\ Len(files) \in Nat /\ DOMAIN files = 1 .. Len(files)
           /\ Sized(files) /\ SizeOf(files) \in Nat
<1>1. PICK K : files \in Seq([key: K, size: Nat])
    BY DEF HeldTypes
<1>2. PICK R : R = [key: K, size: Nat]
    OBVIOUS
<1>3. files \in Seq(R) /\ \A x \in R : x.size \in Nat
    BY <1>1, <1>2
<1>4. /\ Len(files) \in Nat /\ DOMAIN files = 1 .. Len(files)
      /\ \A i \in 1 .. Len(files) : files[i] \in R
    BY <1>3
<1>5. Sized(files)
    BY <1>3, <1>4 DEF Sized
<1>6. QED
    BY <1>4, <1>5, SizeNatural

\* A well-formed upload is not refused anywhere.
LEMMA WellFormedPasses ==
    ASSUME UploadInv, WellFormed, at \in DOMAIN upload
    PROVE  /\ Len(files) < MaxFiles /\ ~HeadersMalformed /\ Current.media
           /\ at = 1 => Current.size \in 1 .. MaxMetadata
           /\ at # 1 => /\ Current.size <= MaxFile
                        /\ SizeOf(files) + Current.size <= MaxPage
<1> DEFINE N == Len(upload)
<1>1. HeldTypes /\ HeldOK
    BY DEF UploadInv
<1>2. /\ N \in Nat /\ DOMAIN upload = 1 .. N /\ at \in 1 .. N /\ MaxFiles \in Nat
      /\ N >= 2 /\ N - 1 <= MaxFiles /\ \A i \in 1 .. N : upload[i].size \in Nat
    <2>1. upload \in Uploads
        BY <1>1 DEF HeldTypes
    <2>2. /\ N \in Nat /\ DOMAIN upload = 1 .. N /\ MaxFiles \in Nat
          /\ \A i \in DOMAIN upload : upload[i].size \in Nat
        BY <2>1, StreamTyped
    <2>3. N \in 2 .. MaxFiles + 1
        BY DEF WellFormed
    <2>4. QED
        BY <2>2, <2>3
<1>3. /\ Len(files) \in Nat /\ DOMAIN files = 1 .. Len(files)
      /\ Sized(files)
    BY <1>1, FilesTyped
<1>4. CASE at = 1
    <2>1. Len(<<>>) = 0 /\ DOMAIN <<>> = {}
        OBVIOUS
    <2>2. files = <<>> /\ metadata = 0
        BY <1>1, <1>4 DEF HeldOK
    <2>3. Current.name = "metadata" /\ Current.media /\ Current.size \in 1 .. MaxMetadata
        BY <1>2, <1>4 DEF WellFormed, Current
    <2>4. ~HeadersMalformed
        BY <2>2, <2>3 DEF HeadersMalformed
    <2>5. QED
        BY <1>2, <1>4, <2>1, <2>2, <2>3, <2>4
<1>5. CASE at # 1
    <2>1. /\ metadata # 0 /\ Len(files) = at - 2
          /\ \A i \in DOMAIN files :
                files[i].key = upload[i + 1].key /\ files[i].size = upload[i + 1].size
        BY <1>1, <1>5, StreamTyped DEF HeldOK, HeldTypes
    <2>2. Current.name = "file" /\ Current.media
        BY <1>2, <1>5 DEF WellFormed, Current
    <2>3. PICK t : t = Tail(upload)
        OBVIOUS
    <2>4. /\ Len(t) = N - 1 /\ DOMAIN t = 1 .. N - 1 /\ Sized(t)
          /\ \A i \in DOMAIN t : t[i] = upload[i + 1]
        <3>1. upload \in Uploads /\ Len(upload) > 0
            BY <1>1, <1>2 DEF HeldTypes
        <3>2. QED
            BY <2>3, <3>1, FilesOfStream
    <2>5. ManifestBuilds(t)
        BY <2>3 DEF WellFormed
    <2>6. PICK k \in DOMAIN t : k = at - 1 /\ t[k] = Current
        BY <1>2, <1>5, <2>4 DEF Current
    <2>7. Current.size <= MaxFile
        BY <2>5, <2>6 DEF ManifestBuilds
    <2>8. \A i \in DOMAIN files : files[i].key # Current.key
        <3> SUFFICES ASSUME NEW i \in DOMAIN files
                     PROVE  files[i].key # Current.key
            OBVIOUS
        <3>1. i \in DOMAIN t /\ i # k /\ t[i] = upload[i + 1]
            BY <1>2, <1>3, <1>5, <2>1, <2>4, <2>6
        <3>2. t[i].key # t[k].key
            BY <2>5, <3>1 DEF ManifestBuilds
        <3>3. QED
            BY <2>1, <2>6, <3>1, <3>2
    <2>9. ~HeadersMalformed
        BY <2>1, <2>2, <2>8 DEF HeadersMalformed
    <2>10. SizeOf(files) + Current.size <= MaxPage
        <3>1. /\ Len(files) < Len(t) /\ Len(files) + 1 = k
              /\ \A i \in 1 .. Len(files) : files[i].size = t[i].size
            <4>1. Len(files) = at - 2 /\ Len(t) = N - 1 /\ k = at - 1 /\ at \in 1 .. N
                BY <1>2, <2>1, <2>4, <2>6
            <4>2. Len(files) < Len(t) /\ Len(files) + 1 = k
                BY <1>2, <1>5, <4>1
            <4>3. \A i \in DOMAIN files : i \in DOMAIN t
                BY <1>2, <1>3, <2>4, <4>2
            <4>4. \A i \in DOMAIN files : files[i].size = t[i].size
                BY <2>1, <2>4, <4>3
            <4>5. QED
                BY <1>3, <4>2, <4>4
        <3>2. SizeOf(files) + t[k].size <= SizeOf(t) /\ SizeOf(t) \in Nat /\ SizeOf(files) \in Nat
            BY <1>3, <2>4, <3>1, SizeOfFirst
        <3>3. SizeOf(t) <= MaxPage /\ MaxPage \in Nat
            BY <1>1, <2>5, StreamTyped DEF ManifestBuilds, HeldTypes
        <3>4. Current.size \in Nat
            BY <1>2 DEF Current
        <3>5. QED
            BY <2>6, <3>2, <3>3, <3>4
    <2>11. QED
        BY <1>2, <1>3, <1>5, <2>1, <2>2, <2>7, <2>9, <2>10
<1>6. QED
    BY <1>4, <1>5

\* A problem reported about an upload that is not well formed, or about one that
\* is cut off.
LEMMA ReportKeeps ==
    ASSUME UploadInv, NEW problem, Report(problem),
           problem = "accepted" => WellFormed,
           problem \in {"too large", "media", "invalid"} => ~WellFormed
    PROVE  UploadInv'
<1>1. /\ upload' = upload /\ declared' = declared /\ at' = at /\ part' = part
      /\ data' = data /\ metadata' = metadata /\ files' = files
      /\ verdict' = problem
    BY DEF Report
<1>2. HeldTypes' /\ HeldOK'
    <2>1. HeldTypes'
        BY <1>1 DEF UploadInv, HeldTypes
    <2>2. HeldOK'
        BY <1>1 DEF UploadInv, HeldOK
    <2>3. QED
        BY <2>1, <2>2
<1>3. PartOK'
    BY <1>1 DEF UploadInv, PartOK, Current
<1>4. WellFormed' <=> WellFormed
    BY <1>1 DEF WellFormed
<1>5. VerdictOK'
    BY <1>1, <1>4 DEF VerdictOK
<1>6. QED
    BY <1>2, <1>3, <1>5 DEF UploadInv

\* Parts stay what they are while the upload is received.
LEMMA VerdictStays ==
    ASSUME UploadInv, UNCHANGED <<upload, declared, verdict>>
    PROVE  VerdictOK'
<1>1. WellFormed' <=> WellFormed
    BY DEF WellFormed
<1>2. QED
    BY <1>1 DEF UploadInv, VerdictOK

LEMMA HeadersKeep ==
    ASSUME UploadInv, Headers
    PROVE  UploadInv'
<1>1. HeldTypes /\ HeldOK /\ at \in DOMAIN upload
    <2>1. HeldTypes /\ HeldOK
        BY DEF UploadInv
    <2>2. upload \in Uploads /\ at \in 1 .. Len(upload) + 1 /\ at <= Len(upload)
        BY <2>1 DEF Headers, Receiving, HeldTypes
    <2>3. Len(upload) \in Nat /\ DOMAIN upload = 1 .. Len(upload)
        BY <2>2, StreamTyped
    <2>4. QED
        BY <2>1, <2>2, <2>3
<1>2. Current.media \in BOOLEAN /\ Len(files) \in Nat /\ MaxFiles \in Nat
    BY <1>1, StreamTyped, FilesTyped DEF HeldTypes, Current
<1>3. CASE PartRefused
    <2>1. ~WellFormed
        BY <1>1, <1>2, <1>3, WellFormedPasses DEF PartRefused
    <2>2. QED
        BY <1>3, <2>1, ReportKeeps DEF Headers
<1>4. CASE ~PartRefused /\ HeadersMalformed
    <2>1. ~WellFormed
        BY <1>1, <1>4, WellFormedPasses
    <2>2. QED
        BY <1>4, <2>1, ReportKeeps DEF Headers
<1>5. CASE ~PartRefused /\ ~HeadersMalformed /\ ~Current.media
    <2>1. ~WellFormed
        BY <1>1, <1>5, WellFormedPasses
    <2>2. QED
        BY <1>5, <2>1, ReportKeeps DEF Headers
<1>6. CASE ~PartRefused /\ ~HeadersMalformed /\ Current.media
    <2>1. /\ part' = "data" /\ data' = 0
          /\ UNCHANGED <<upload, declared, at, metadata, files, verdict>>
        BY <1>6 DEF Headers
    <2>2. HeldTypes' /\ HeldOK'
        BY <1>1, <2>1 DEF HeldTypes, HeldOK
    <2>3. Current' = Current /\ Current.size \in Nat
        BY <1>1, <2>1, StreamTyped DEF Current, HeldTypes
    <2>4. Len(files) < MaxFiles
        BY <1>2, <1>6 DEF PartRefused
    <2>5. CASE at = 1
        <3>1. metadata = 0 /\ files = <<>> /\ MaxMetadata \in Nat
            BY <1>1, <2>5, StreamTyped DEF HeldOK, HeldTypes
        <3>2. Current.name = "metadata"
            BY <1>6, <3>1 DEF HeadersMalformed
        <3>3. PartOK'
            BY <1>1, <1>6, <2>1, <2>3, <2>4, <2>5, <3>1, <3>2 DEF PartOK
        <3>4. QED
            BY <2>1, <2>2, <3>3, VerdictStays DEF UploadInv
    <2>6. CASE at # 1
        <3>1. metadata # 0 /\ MaxFile \in Nat
            BY <1>1, <2>6, StreamTyped DEF HeldOK, HeldTypes
        <3>2. Current.name = "file" /\ \A i \in DOMAIN files : files[i].key # Current.key
            BY <1>6, <3>1 DEF HeadersMalformed
        <3>3. SizeOf(files) + 0 <= MaxPage
            BY <1>1, FilesTyped DEF HeldOK
        <3>4. PartOK'
            BY <1>1, <1>6, <2>1, <2>3, <2>4, <2>6, <3>1, <3>2, <3>3 DEF PartOK
        <3>5. QED
            BY <2>1, <2>2, <3>4, VerdictStays DEF UploadInv
    <2>7. QED
        BY <2>5, <2>6
<1>7. QED
    BY <1>2, <1>3, <1>4, <1>5, <1>6

LEMMA DataKeeps ==
    ASSUME UploadInv, NEW n \in Nat, Data(n)
    PROVE  UploadInv'
<1>1. /\ HeldTypes /\ HeldOK /\ PartOK /\ part = "data" /\ n <= Current.size - data
    BY DEF UploadInv, Data
<1>2. /\ at \in DOMAIN upload /\ data \in Nat /\ Current.size \in Nat /\ data + n <= Current.size
      /\ SizeOf(files) \in Nat
      /\ MaxMetadata \in Nat /\ MaxFile \in Nat /\ MaxPage \in Nat
    BY <1>1, StreamTyped, FilesTyped DEF HeldTypes, PartOK, Current
<1>3. CASE Exceeds(n)
    <2>1. ~WellFormed
        <3> SUFFICES ASSUME WellFormed
                     PROVE  FALSE
            OBVIOUS
        <3>1. /\ at = 1 => Current.size \in 1 .. MaxMetadata /\ Current.name = "metadata"
              /\ at # 1 => /\ Current.size <= MaxFile /\ Current.name = "file"
                           /\ SizeOf(files) + Current.size <= MaxPage
            BY <1>1, <1>2, WellFormedPasses DEF PartOK
        <3>2. QED
            BY <1>2, <1>3, <3>1 DEF Exceeds
    <2>2. QED
        BY <1>3, <2>1, ReportKeeps DEF Data
<1>4. CASE ~Exceeds(n)
    <2>1. data' = data + n /\ UNCHANGED <<upload, declared, at, part, metadata, files, verdict>>
        BY <1>4 DEF Data
    <2>2. HeldTypes' /\ HeldOK'
        BY <1>1, <1>2, <2>1 DEF HeldTypes, HeldOK
    <2>3. IF Current.name = "metadata" THEN data + n <= MaxMetadata
          ELSE data + n <= MaxFile /\ SizeOf(files) + data + n <= MaxPage
        BY <1>2, <1>4 DEF Exceeds
    <2>4. SizeOf(files) + data + n = SizeOf(files) + (data + n)
        BY <1>2
    <2>5. Current' = Current
        BY <2>1 DEF Current
    <2>6. PartOK'
        BY <1>1, <1>2, <2>1, <2>3, <2>4, <2>5 DEF PartOK
    <2>7. QED
        BY <2>1, <2>2, <2>6, VerdictStays DEF UploadInv
<1>5. QED
    BY <1>3, <1>4

LEMMA PartEndKeeps ==
    ASSUME UploadInv, PartEnd
    PROVE  UploadInv'
<1>1. HeldTypes /\ HeldOK /\ PartOK /\ part = "data" /\ data = Current.size
    BY DEF UploadInv, PartEnd
<1>2. /\ at \in DOMAIN upload /\ at \in 1 .. Len(upload) /\ Len(upload) \in Nat
      /\ data \in Nat /\ Current.media /\ MaxMetadata \in Nat
      /\ Len(files) < MaxFiles /\ Len(files) \in Nat /\ MaxFiles \in Nat
    BY <1>1, StreamTyped, FilesTyped DEF HeldTypes, PartOK
<1>3. CASE at = 1 /\ data = 0
    <2>1. Report("invalid")
        BY <1>1, <1>3 DEF PartOK, PartEnd
    <2>2. ~WellFormed
        BY <1>1, <1>2, <1>3, WellFormedPasses
    <2>3. QED
        BY <2>1, <2>2, ReportKeeps
<1>4. CASE at = 1 /\ data # 0
    <2>1. Current.name = "metadata" /\ data <= MaxMetadata /\ files = <<>>
        BY <1>1, <1>4 DEF PartOK, HeldOK
    <2>2. /\ at' = 2 /\ part' = "outside" /\ data' = 0 /\ metadata' = data
          /\ UNCHANGED <<upload, declared, verdict, files>>
        BY <1>4, <2>1 DEF PartEnd
    <2>3. HeldTypes'
        BY <1>1, <1>2, <1>4, <2>2 DEF HeldTypes
    <2>4. Len(<<>>) = 0 /\ DOMAIN <<>> = {}
        OBVIOUS
    <2>5. HeldOK'
        BY <1>1, <1>2, <1>4, <2>1, <2>2, <2>4 DEF HeldOK, Current
    <2>6. PartOK'
        BY <2>2 DEF PartOK
    <2>7. QED
        BY <2>2, <2>3, <2>5, <2>6, VerdictStays DEF UploadInv
<1>5. CASE at # 1
    <2>1. /\ Current.name = "file" /\ \A i \in DOMAIN files : files[i].key # Current.key
          /\ data <= MaxFile /\ SizeOf(files) + data <= MaxPage
        BY <1>1, <1>5 DEF PartOK
    <2>2. PICK x : x = [key |-> Current.key, size |-> data]
        OBVIOUS
    <2>3. /\ at' = at + 1 /\ part' = "outside" /\ data' = 0 /\ files' = Append(files, x)
          /\ UNCHANGED <<upload, declared, verdict, metadata>>
        BY <1>5, <2>1, <2>2 DEF PartEnd
    <2>4. x.key = Current.key /\ x.size = data
        BY <2>2
    <2>5. x \in [key: {upload[i].key : i \in DOMAIN upload}, size: Nat]
        BY <1>2, <2>2 DEF Current
    <2>6. /\ Len(files') = Len(files) + 1 /\ DOMAIN files = 1 .. Len(files)
          /\ DOMAIN files' = 1 .. Len(files) + 1
          /\ files'[Len(files) + 1] = x /\ \A i \in DOMAIN files : files'[i] = files[i]
        BY <1>1, <2>3, <2>5 DEF HeldTypes
    <2>7. HeldTypes'
        BY <1>1, <1>2, <2>3, <2>5 DEF HeldTypes
    <2>8. SizeOf(files') = SizeOf(files) + data
        <3>1. PICK R : R = [key: {upload[i].key : i \in DOMAIN upload}, size: Nat]
            OBVIOUS
        <3>2. files \in Seq(R) /\ x \in R
            BY <1>1, <2>5, <3>1 DEF HeldTypes
        <3>3. Sized(files) /\ x.size \in Nat
            BY <1>1, <1>2, <2>4, FilesTyped
        <3>4. SizeOf(Append(files, x)) = SizeOf(files) + x.size
            BY <3>2, <3>3, SizeOfMore
        <3>5. QED
            BY <2>3, <2>4, <3>4
    <2>9. Len(files) = at - 2
        BY <1>1, <1>5 DEF HeldOK
    <2>10. \A i \in DOMAIN files' :
             /\ upload[i + 1].name = "file" /\ upload[i + 1].media
             /\ files'[i].key = upload[i + 1].key /\ files'[i].size = upload[i + 1].size
             /\ files'[i].size <= MaxFile
        <3>1. Len(files) + 1 + 1 = at
            BY <1>2, <2>9
        <3>2. \A i \in DOMAIN files' : i \in DOMAIN files \/ i = Len(files) + 1
            BY <1>2, <2>6
        <3>3. QED
            BY <1>1, <1>2, <2>1, <2>4, <2>6, <3>1, <3>2 DEF HeldOK, Current
    <2>11. \A i, j \in DOMAIN files' : files'[i].key = files'[j].key => i = j
        <3>1. \A i \in DOMAIN files' : i \in DOMAIN files \/ i = Len(files) + 1
            BY <1>2, <2>6
        <3>2. \A i \in DOMAIN files : files'[i].key # x.key
            BY <2>1, <2>4, <2>6
        <3>3. \A i, j \in DOMAIN files : files'[i].key = files'[j].key => i = j
            BY <1>1, <2>6 DEF HeldOK
        <3>4. QED
            BY <2>6, <3>1, <3>2, <3>3
    <2>12. HeldOK'
        <3>1. at' # 1 /\ Len(files') = at' - 2 /\ Len(files') <= MaxFiles
            BY <1>2, <1>5, <2>3, <2>6, <2>9
        <3>2. /\ metadata' = upload'[1].size /\ metadata' \in 1 .. MaxMetadata
              /\ upload'[1].name = "metadata" /\ upload'[1].media
            BY <1>1, <1>5, <2>3 DEF HeldOK
        <3>3. SizeOf(files') <= MaxPage
            BY <2>1, <2>8
        <3>4. QED
            BY <2>3, <2>10, <2>11, <3>1, <3>2, <3>3 DEF HeldOK
    <2>13. PartOK'
        BY <2>3 DEF PartOK
    <2>14. QED
        BY <2>3, <2>7, <2>12, <2>13, VerdictStays DEF UploadInv
<1>6. QED
    BY <1>3, <1>4, <1>5

LEMMA FinishKeeps ==
    ASSUME UploadInv, Finish
    PROVE  UploadInv'
<1>1. HeldTypes /\ HeldOK /\ at > Len(upload)
    BY DEF UploadInv, Finish
<1>2. /\ Len(upload) \in Nat /\ at = Len(upload) + 1 /\ DOMAIN upload = 1 .. Len(upload)
      /\ Len(files) \in Nat /\ DOMAIN files = 1 .. Len(files) /\ Sized(files)
      /\ MaxFiles \in Nat
    BY <1>1, StreamTyped, FilesTyped DEF HeldTypes
<1> DEFINE Complete == metadata # 0 /\ files # <<>> /\ declared /\ ManifestBuilds(files)
<1>3. CASE at = 1
    <2>1. metadata = 0
        BY <1>1, <1>3 DEF HeldOK
    <2>2. ~WellFormed
        BY <1>2, <1>3 DEF WellFormed
    <2>3. QED
        BY <2>1, <2>2, ReportKeeps DEF Finish
<1>4. CASE at # 1
    <2>1. PICK t : t = Tail(upload)
        OBVIOUS
    <2>2. /\ Len(t) = Len(upload) - 1 /\ DOMAIN t = 1 .. Len(upload) - 1 /\ Sized(t)
          /\ \A i \in DOMAIN t : t[i] = upload[i + 1]
        <3>1. upload \in Uploads /\ Len(upload) > 0
            BY <1>1, <1>2, <1>4 DEF HeldTypes
        <3>2. QED
            BY <2>1, <3>1, FilesOfStream
    <2>3. Len(files) = Len(t) /\ DOMAIN files = DOMAIN t
        BY <1>1, <1>2, <1>4, <2>2 DEF HeldOK
    <2>4. \A i \in DOMAIN t : files[i].key = t[i].key /\ files[i].size = t[i].size
        BY <1>1, <2>2, <2>3 DEF HeldOK
    <2>5. SizeOf(files) = SizeOf(t)
        <3>1. \A i \in 1 .. Len(files) : files[i].size = t[i].size
            BY <1>2, <2>3, <2>4
        <3>2. Len(files) <= Len(t)
            BY <1>2, <2>3
        <3>3. QED
            BY <1>2, <2>2, <2>3, <3>1, <3>2, SizeOfFirst
    <2>6. ManifestBuilds(files) <=> ManifestBuilds(t)
        BY <2>3, <2>4, <2>5 DEF ManifestBuilds
    <2>7. /\ upload[1].name = "metadata" /\ upload[1].size \in 1 .. MaxMetadata
          /\ upload[1].media /\ metadata # 0
        BY <1>1, <1>4, StreamTyped DEF HeldOK, HeldTypes
    <2>8. \A i \in DOMAIN upload : upload[i].media /\ (i > 1 => upload[i].name = "file")
        <3> SUFFICES ASSUME NEW i \in DOMAIN upload, i # 1
                     PROVE  upload[i].media /\ upload[i].name = "file"
            BY <2>7
        <3>1. i - 1 \in DOMAIN files /\ (i - 1) + 1 = i
            BY <1>2, <2>2, <2>3
        <3>2. QED
            BY <1>1, <3>1 DEF HeldOK
    <2>9. WellFormed <=> declared /\ Len(upload) \in 2 .. MaxFiles + 1 /\ ManifestBuilds(t)
        BY <2>1, <2>7, <2>8 DEF WellFormed
    <2>10. ManifestBuilds(files) => Len(upload) \in 2 .. MaxFiles + 1 /\ files # <<>>
        <3>1. Len(<<>>) = 0
            OBVIOUS
        <3>2. QED
            BY <1>2, <2>2, <2>3, <3>1 DEF ManifestBuilds
    <2>11. Complete <=> WellFormed
        BY <2>6, <2>7, <2>9, <2>10
    <2> HIDE DEF Complete
    <2>12. IF Complete THEN Report("accepted") ELSE Report("invalid")
        BY DEF Finish, Complete
    <2>13. CASE Complete
        BY <2>11, <2>12, <2>13, ReportKeeps
    <2>14. CASE ~Complete
        BY <2>11, <2>12, <2>14, ReportKeeps
    <2>15. QED
        BY <2>13, <2>14
<1>5. QED
    BY <1>3, <1>4

LEMMA UploadInvHolds == UploadSpec => []UploadInv
<1>1. UploadInit => UploadInv
    <2> SUFFICES ASSUME UploadInit
                 PROVE  UploadInv
        OBVIOUS
    <2>1. /\ upload \in Uploads /\ declared \in BOOLEAN
          /\ at = 1 /\ part = "outside" /\ data = 0 /\ metadata = 0 /\ files = <<>>
          /\ verdict = "none"
        BY DEF UploadInit
    <2>2. HeldTypes
        BY <2>1, StreamTyped DEF HeldTypes
    <2>3. Len(<<>>) = 0 /\ DOMAIN <<>> = {}
        OBVIOUS
    <2>4. HeldOK
        BY <2>1, <2>3, StreamTyped, SizeOfNothing DEF HeldOK
    <2>5. PartOK /\ VerdictOK
        BY <2>1 DEF PartOK, VerdictOK
    <2>6. QED
        BY <2>2, <2>4, <2>5 DEF UploadInv
<1>2. ASSUME UploadInv, UploadNext
      PROVE  UploadInv'
    <2>1. CASE Headers
        BY <1>2, <2>1, HeadersKeep
    <2>2. CASE PartEnd
        BY <1>2, <2>2, PartEndKeeps
    <2>3. CASE CutOff
        BY <1>2, <2>3, ReportKeeps DEF CutOff
    <2>4. CASE Finish
        BY <1>2, <2>4, FinishKeeps
    <2>5. ASSUME NEW n \in 1 .. MaxFile + MaxMetadata, Data(n)
          PROVE  UploadInv'
        <3>1. n \in Nat
            BY UploadAssumption
        <3>2. QED
            BY <1>2, <2>5, <3>1, DataKeeps
    <2>6. QED
        BY <1>2, <2>1, <2>2, <2>3, <2>4, <2>5 DEF UploadNext
<1>3. ASSUME UploadInv, UNCHANGED uploadVars
      PROVE  UploadInv'
    <2>1. UNCHANGED <<upload, declared, at, part, data, metadata, files, verdict>>
        BY <1>3 DEF uploadVars
    <2>2. HeldTypes' /\ HeldOK'
        BY <1>3, <2>1 DEF UploadInv, HeldTypes, HeldOK
    <2>3. PartOK'
        BY <1>3, <2>1 DEF UploadInv, PartOK, Current
    <2>4. QED
        BY <1>3, <2>1, <2>2, <2>3, VerdictStays DEF UploadInv
<1>4. QED
    BY <1>1, <1>2, <1>3, PTL DEF UploadSpec

\* For every stream of parts, every limit and every way to cut the stream into
\* chunks, the collector accepts exactly the well-formed uploads among those
\* received to their end, and never holds more than the limits allow.
THEOREM ChunksDoNotMatter == UploadSpec => []VerdictIgnoresChunks
<1>1. UploadInv => VerdictIgnoresChunks
    <2> SUFFICES ASSUME UploadInv
                 PROVE  VerdictIgnoresChunks
        OBVIOUS
    <2>1. /\ part = "data" /\ Current.name = "metadata" => data <= MaxMetadata
          /\ part = "data" /\ Current.name = "file" => SizeOf(files) + data <= MaxPage
        BY DEF UploadInv, PartOK
    <2>2. QED
        BY <2>1 DEF UploadInv, VerdictOK, VerdictIgnoresChunks
<1>2. QED
    BY <1>1, UploadInvHolds, PTL

=============================================================================
