---------------------------- MODULE ClientJournal ----------------------------
(***************************************************************************)
(* The command-line client (and the MCP server, which shares its archive   *)
(* application) against the service.  An archive write first becomes a     *)
(* journal record on disk that holds its idempotency key; the request is   *)
(* sent, resent after lost answers, and the record is marked succeeded.    *)
(* Any later process may replay the operation by its identifier.           *)
(*                                                                         *)
(* Between a process and the disk lies the page cache: file[o] is what     *)
(* processes read, disk[o] the contents a power failure may leave.  A      *)
(* request that its client gave up on may still be executed much later.    *)
(* The service is reduced to what a keyed archive write meets there; the   *)
(* Page that revisions target is represented by its ETag, which PageStore  *)
(* shows never to repeat, so that it is a growing number here.             *)
(***************************************************************************)
EXTENDS Naturals, FiniteSets

CONSTANTS
    Processes,      \* running clients
    Ops,            \* operation identifiers that may be drawn
    Callers,        \* identities behind bearer tokens
    MaxAttempts,    \* RetryPolicy.max_attempts
    MaxETag,        \* bound on the states of the revised Page
    MaxFailures,    \* bound on power failures
    NoOp,           \* no operation chosen
    NoRecord        \* the operation was never drawn

ETags == 1 .. MaxETag

\* What the fingerprint covers.  A create has no precondition.
Creates == [kind: {"archive.create"}, ifMatch: {0}]
Revises == [kind: {"archive.revise"}, ifMatch: ETags]
Requests == Creates \cup Revises

ASSUME JournalConstants ==
    /\ MaxAttempts \in Nat \ {0} /\ MaxETag \in Nat \ {0} /\ MaxFailures \in Nat
    /\ NoOp \notin Ops

\* The immutable part of an OperationRecord; the key is drawn with the
\* identifier and stands for it.
Records == [caller: Callers, request: Requests]
ASSUME NoRecordIsNoRecord == NoRecord \notin Records

Contents == {"absent", "torn", "pending", "succeeded"}
Answers == {"ok", "refused", "mismatch", "stale"}

VARIABLES
    pc,         \* process -> where it is
    op,         \* process -> operation_id it works on
    token,      \* process -> caller of its bearer token
    request,    \* process -> request assembled from its inputs
    attempts,   \* process -> attempts made by Transport.send
    answer,     \* process -> state of its HTTP exchange
    record,     \* operation -> caller and request of its record
    file,       \* operation -> content a process reads
    disk,       \* operation -> contents a power failure may leave
    abandoned,  \* requests whose client gave up, still to be executed
    stored,     \* idempotency records of the service
    etag,       \* current ETag of the Page
    applied,    \* operation -> times the service applied it
    reported,   \* operations that became visible as application.operation_id
    told,       \* operation -> answers its users were given
    failures    \* power failures so far

clientVars == <<pc, op, token, request, attempts, answer>>
journalVars == <<record, file, disk>>
serverVars == <<abandoned, stored, etag, applied>>
vars == <<clientVars, journalVars, serverVars, reported, told, failures>>

JournalInit ==
    /\ pc = [i \in Processes |-> "idle"]
    /\ op = [i \in Processes |-> NoOp]
    /\ token \in [Processes -> Callers]
    /\ request \in [Processes -> Creates]
    /\ attempts = [i \in Processes |-> 0]
    /\ answer = [i \in Processes |-> "none"]
    /\ record = [o \in Ops |-> NoRecord]
    /\ file = [o \in Ops |-> "absent"]
    /\ disk = [o \in Ops |-> {"absent"}]
    /\ abandoned = {}
    /\ stored = {}
    /\ etag = 1
    /\ applied = [o \in Ops |-> 0]
    /\ reported = {}
    /\ told = [o \in Ops |-> {}]
    /\ failures = 0

-----------------------------------------------------------------------------
(* Steps of one process. *)

Goto(i, stage) == pc' = [pc EXCEPT ![i] = stage]

Message(i) == [op |-> op[i], caller |-> token[i], request |-> request[i]]

\* The process ends, with an error or a success, or is killed.  A request it
\* has on the wire is lost, or abandoned and executed some time later.
HangUp(i) ==
    /\ answer' = [answer EXCEPT ![i] = "none"]
    /\ \/ abandoned' = abandoned
       \/ /\ answer[i] = "sent"
          /\ abandoned' = abandoned \cup {Message(i)}
    /\ UNCHANGED <<stored, etag, applied>>

Exit(i) ==
    /\ Goto(i, "idle")
    /\ op' = [op EXCEPT ![i] = NoOp]
    /\ attempts' = [attempts EXCEPT ![i] = 0]
    /\ UNCHANGED <<token, request>>

\* _archive_operation without --operation-id: inputs are read; an ETag the
\* user passes was read from the service before.
StartNew(i) ==
    /\ pc[i] = "idle"
    /\ Goto(i, "whoami")
    /\ \E c \in Callers : token' = [token EXCEPT ![i] = c]
    /\ \E r \in Requests :
         /\ r.ifMatch <= etag
         /\ request' = [request EXCEPT ![i] = r]
    /\ UNCHANGED <<op, attempts, answer, journalVars, serverVars,
                   reported, told, failures>>

\* preflight: the record must load and carry this request's fingerprint.
Preflight(o, r) ==
    /\ file[o] \in {"pending", "succeeded"}
    /\ record[o].request = r

\* _archive_operation with --operation-id, an identifier that an earlier
\* command printed.  Inputs that do not match the record end the command
\* without a trace.
StartReplay(i) ==
    /\ pc[i] = "idle"
    /\ \E o \in reported, c \in Callers, r \in Requests :
         /\ Preflight(o, r)
         /\ op' = [op EXCEPT ![i] = o]
         /\ token' = [token EXCEPT ![i] = c]
         /\ request' = [request EXCEPT ![i] = r]
    /\ Goto(i, "whoami")
    /\ UNCHANGED <<attempts, answer, journalVars, serverVars,
                   reported, told, failures>>

Post(i) ==
    /\ Goto(i, "waiting")
    /\ answer' = [answer EXCEPT ![i] = "sent"]
    /\ attempts' = [attempts EXCEPT ![i] = attempts[i] + 1]

\* whoami answers for a new operation: prepare draws an identifier and a key.
DrawOperation(i) ==
    /\ pc[i] = "whoami" /\ op[i] = NoOp
    /\ \E o \in Ops :
         /\ record[o] = NoRecord
         /\ record' = [record EXCEPT ![o] = [caller |-> token[i],
                                             request |-> request[i]]]
         /\ op' = [op EXCEPT ![i] = o]
    /\ Goto(i, "create")
    /\ UNCHANGED <<token, request, attempts, answer, file, disk,
                   serverVars, reported, told, failures>>

\* Mutant: anyone may replay an operation.
CallerMatchesAlways(i) == op[i] \in Ops

\* validate_caller: the record belongs to the caller whoami names.
CallerMatches(i) == record[op[i]].caller = token[i]

\* whoami answers for a replay: the first attempt is made.
ValidateCaller(i) ==
    /\ pc[i] = "whoami" /\ op[i] # NoOp
    /\ CallerMatches(i)
    /\ Post(i)
    /\ UNCHANGED <<op, token, request, journalVars, serverVars,
                   reported, told, failures>>

\* whoami fails, or names another caller: nothing was sent.
WhoAmIFails(i) ==
    /\ pc[i] = "whoami"
    /\ Exit(i)
    /\ UNCHANGED <<answer, journalVars, serverVars, reported, told, failures>>

\* OperationJournal._create: create_file, write_all, file.sync, directory
\* sync, each of which may be the last thing that happens.
CreateFile(i) ==
    /\ pc[i] = "create"
    /\ file' = [file EXCEPT ![op[i]] = "torn"]
    /\ disk' = [disk EXCEPT ![op[i]] = {"absent", "torn"}]
    /\ Goto(i, "created")
    /\ UNCHANGED <<op, token, request, attempts, answer, record,
                   serverVars, reported, told, failures>>

WriteRecord(i) ==
    /\ pc[i] = "created"
    /\ file' = [file EXCEPT ![op[i]] = "pending"]
    /\ disk' = [disk EXCEPT ![op[i]] = {"absent", "torn", "pending"}]
    /\ Goto(i, "written")
    /\ UNCHANGED <<op, token, request, attempts, answer, record,
                   serverVars, reported, told, failures>>

SyncRecord(i) ==
    /\ pc[i] = "written"
    /\ disk' = [disk EXCEPT ![op[i]] = {"absent", "pending"}]
    /\ Goto(i, "synced")
    /\ UNCHANGED <<op, token, request, attempts, answer, record,
                   file, serverVars, reported, told, failures>>

\* Mutant: the directory entry is never synced before the request is sent.
SyncDirectoryNever(i) ==
    /\ pc[i] = "synced"
    /\ reported' = reported \cup {op[i]}
    /\ Post(i)
    /\ UNCHANGED <<op, token, request, journalVars, serverVars,
                   told, failures>>

\* The directory sync makes the record durable; only then does the identifier
\* become visible and is the request sent for the first time.
SyncDirectory(i) ==
    /\ pc[i] = "synced"
    /\ disk' = [disk EXCEPT ![op[i]] = {"pending"}]
    /\ reported' = reported \cup {op[i]}
    /\ Post(i)
    /\ UNCHANGED <<op, token, request, record, file, serverVars,
                   told, failures>>

\* A file system call of _create fails: the file is unlinked if possible.
CreateFails(i) ==
    /\ pc[i] \in {"create", "created", "written", "synced"}
    /\ \/ UNCHANGED <<file, disk>>
       \/ /\ file' = [file EXCEPT ![op[i]] = "absent"]
          /\ \/ disk' = [disk EXCEPT ![op[i]] = @ \cup {"absent"}]
             \/ disk' = [disk EXCEPT ![op[i]] = {"absent"}]
    /\ Exit(i)
    /\ UNCHANGED <<answer, record, serverVars, reported, told, failures>>

\* Mutant: the retry loop never counts.
AttemptUncounted(i) == attempts[i]

Attempt(i) == attempts[i] + 1

MayRetry(i) == attempts[i] < MaxAttempts

\* A timeout, a broken connection, or a status in retry_statuses: the loop in
\* Transport.send tries again with the same key.
Retry(i) ==
    /\ pc[i] = "waiting"
    /\ MayRetry(i)
    /\ \/ abandoned' = abandoned
       \/ /\ answer[i] = "sent"
          /\ abandoned' = abandoned \cup {Message(i)}
    /\ answer' = [answer EXCEPT ![i] = "sent"]
    /\ attempts' = [attempts EXCEPT ![i] = Attempt(i)]
    /\ UNCHANGED <<pc, op, token, request, journalVars, stored,
                   etag, applied, reported, told, failures>>

\* The last attempt fails, or any attempt with an error that is not transient
\* or a response that breaks the protocol: TransportError, ProtocolError, or
\* the transient status itself.
GiveUp(i) ==
    /\ pc[i] = "waiting"
    /\ HangUp(i)
    /\ Exit(i)
    /\ UNCHANGED <<journalVars, reported, told, failures>>

\* Only a response that _mutation_success accepts completes the record.
Completing == {"ok"}

ReceiveSuccess(i) ==
    /\ pc[i] = "waiting" /\ answer[i] \in Completing
    /\ answer' = [answer EXCEPT ![i] = "none"]
    /\ Goto(i, "complete")
    /\ UNCHANGED <<op, token, request, attempts, journalVars,
                   serverVars, reported, told, failures>>

\* ProblemError: the command exits and reports the problem; the record stays.
ReceiveProblem(i) ==
    /\ pc[i] = "waiting" /\ answer[i] \in Answers \ Completing
    /\ told' = [told EXCEPT ![op[i]] = @ \cup {answer[i]}]
    /\ HangUp(i)
    /\ Exit(i)
    /\ UNCHANGED <<journalVars, reported, failures>>

\* OperationJournal._replace writes and syncs the temporary file,
WriteTemporary(i) ==
    /\ pc[i] = "complete"
    /\ Goto(i, "prepared")
    /\ UNCHANGED <<op, token, request, attempts, answer, journalVars,
                   serverVars, reported, told, failures>>

\* renames it over the record, so that the disk may hold either content,
ReplaceRecord(i) ==
    /\ pc[i] = "prepared"
    /\ file[op[i]] # "absent"
    /\ file' = [file EXCEPT ![op[i]] = "succeeded"]
    /\ disk' = [disk EXCEPT ![op[i]] = @ \cup {"succeeded"}]
    /\ Goto(i, "replaced")
    /\ UNCHANGED <<op, token, request, attempts, answer, record,
                   serverVars, reported, told, failures>>

Settled(o) == {"succeeded"}

\* and syncs the directory; the command reports success.
ReportSuccess(i) ==
    /\ pc[i] = "replaced"
    /\ disk' = [disk EXCEPT ![op[i]] = Settled(op[i])]
    /\ told' = [told EXCEPT ![op[i]] = @ \cup {"ok"}]
    /\ Exit(i)
    /\ UNCHANGED <<answer, record, file, serverVars, reported, failures>>

\* A file system call of _replace fails: the command reports a journal error.
ReplaceFails(i) ==
    /\ pc[i] \in {"complete", "prepared", "replaced"}
    /\ Exit(i)
    /\ UNCHANGED <<answer, journalVars, serverVars, reported, told, failures>>

\* The process is interrupted or killed anywhere.
Interrupt(i) ==
    /\ pc[i] # "idle"
    /\ HangUp(i)
    /\ Exit(i)
    /\ UNCHANGED <<journalVars, reported, told, failures>>

-----------------------------------------------------------------------------
(* The service. *)

\* The idempotency record that answers m: same caller, route and key.
Stored(m) == {s \in stored : /\ s.op = m.op /\ s.caller = m.caller
                             /\ s.request.kind = m.request.kind}

Precondition(m) == m.request.kind = "archive.create" \/ m.request.ifMatch = etag

\* The lookup comes before every check of the Page's state.
Replays(m) == Stored(m) # {}

\* create_archive and append_revision, one transaction; result is the answer.
Transaction(m, result) ==
    \* The credential or its grant is gone, or the Page is deleted.
    \/ /\ result = "refused"
       /\ UNCHANGED <<stored, etag, applied>>
    \/ /\ Replays(m)
       /\ result = IF \E s \in Stored(m) : s.request = m.request
                   THEN "ok" ELSE "mismatch"
       /\ UNCHANGED <<stored, etag, applied>>
    \/ /\ ~ Replays(m) /\ ~ Precondition(m)
       /\ result = "stale"
       /\ UNCHANGED <<stored, etag, applied>>
    \/ /\ ~ Replays(m) /\ Precondition(m)
       /\ m.request.kind = "archive.revise" => etag < MaxETag
       /\ result = "ok"
       /\ etag' = IF m.request.kind = "archive.revise" THEN etag + 1 ELSE etag
       /\ stored' = stored \cup {m}
       /\ applied' = [applied EXCEPT ![m.op] = @ + 1]

\* A request on an open connection is executed and answered.
Execute(i) ==
    /\ answer[i] = "sent"
    /\ \E result \in Answers :
         /\ Transaction(Message(i), result)
         /\ answer' = [answer EXCEPT ![i] = result]
    /\ UNCHANGED <<pc, op, token, request, attempts, journalVars,
                   abandoned, reported, told, failures>>

\* A request nobody waits for is executed.  Several abandoned attempts are the
\* same message, so it stays.
ExecuteAbandoned ==
    /\ \E m \in abandoned, result \in Answers : Transaction(m, result)
    /\ UNCHANGED <<clientVars, journalVars, abandoned, reported, told, failures>>

\* Anyone else changes the Page.
OtherWrite ==
    /\ etag < MaxETag
    /\ etag' = etag + 1
    /\ UNCHANGED <<clientVars, journalVars, abandoned, stored, applied,
                   reported, told, failures>>

\* The client's machine loses power: all processes end, and every file is
\* left with one of the contents the disk may hold.
PowerFailure ==
    /\ failures < MaxFailures
    /\ failures' = failures + 1
    /\ pc' = [i \in Processes |-> "idle"]
    /\ op' = [i \in Processes |-> NoOp]
    /\ attempts' = [i \in Processes |-> 0]
    /\ answer' = [i \in Processes |-> "none"]
    /\ \E lost \in SUBSET {i \in Processes : answer[i] = "sent"} :
         abandoned' = abandoned \cup {Message(i) : i \in lost}
    /\ file' \in {f \in [Ops -> Contents] : \A o \in Ops : f[o] \in disk[o]}
    /\ disk' = [o \in Ops |-> {file'[o]}]
    /\ UNCHANGED <<token, request, record, stored, etag, applied, reported, told>>

-----------------------------------------------------------------------------

\* What the running process does without further input.
Step(i) ==
    \/ DrawOperation(i) \/ ValidateCaller(i) \/ WhoAmIFails(i)
    \/ CreateFile(i) \/ WriteRecord(i) \/ SyncRecord(i) \/ SyncDirectory(i)
    \/ CreateFails(i)
    \/ Retry(i) \/ GiveUp(i) \/ ReceiveSuccess(i) \/ ReceiveProblem(i)
    \/ WriteTemporary(i) \/ ReplaceRecord(i) \/ ReportSuccess(i)
    \/ ReplaceFails(i)

JournalNext ==
    \/ \E i \in Processes :
         StartNew(i) \/ StartReplay(i) \/ Step(i) \/ Interrupt(i) \/ Execute(i)
    \/ ExecuteAbandoned \/ OtherWrite \/ PowerFailure

\* A running process is scheduled; httpx bounds every attempt by a timeout, so
\* Step(i) is enabled in every stage.  Nothing is assumed of the network, the
\* service, the user or the power.
JournalSpec ==
    /\ JournalInit
    /\ [][JournalNext]_vars
    /\ \A i \in Processes : WF_vars(Step(i))

-----------------------------------------------------------------------------
(* Properties. *)

\* However often an operation is retried, replayed by concurrent processes,
\* by other users of the machine, or executed late, the service applies it at
\* most once.
AppliedOnce == \A o \in Ops : applied[o] <= 1

\* An operation whose effect the service holds can still be replayed after a
\* power failure: every content the disk may hold is a record that loads.
AppliedIsRecoverable == \A o \in Ops :
    applied[o] > 0 => disk[o] \subseteq {"pending", "succeeded"}

\* A record marked succeeded names an operation the service applied, even in
\* the contents a power failure might uncover.
SucceededIsApplied == \A o \in Ops :
    "succeeded" \in disk[o] \cup {file[o]} => applied[o] > 0

\* Once a user is told "revision was not applied", the operation is not
\* applied later either, neither by an abandoned attempt nor by a replay.
NotAppliedIsFinal == \A o \in Ops : "stale" \in told[o] => applied[o] = 0

\* After a reported success no power failure brings the record back to pending.
SuccessIsDurable == \A o \in Ops : "ok" \in told[o] => disk[o] = {"succeeded"}

\* The journal and what users were told agree with the service, in every
\* content a power failure may uncover: an applied operation can be replayed,
\* a success was applied and stays recorded, "not applied" stays true.
JournalAgrees ==
    AppliedIsRecoverable /\ SucceededIsApplied /\ NotAppliedIsFinal /\ SuccessIsDurable

\* Every command ends: bounded attempts, each with a timeout.
CommandsEnd == \A i \in Processes : pc[i] # "idle" ~> pc[i] = "idle"

=============================================================================
