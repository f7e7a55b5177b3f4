-------------------------- MODULE InstallationProofs --------------------------
(***************************************************************************)
(* Proofs about what one installation runs around its Page store: the      *)
(* request log, the master identity with its onboarding tickets, the       *)
(* backup command, and the HTTP routes of Archive Pages.  The four share   *)
(* no state; each part has its own invariant.                              *)
(***************************************************************************)
EXTENDS RequestLog, MasterIdentity, BackupBundle, ArchiveRoutes,
        FiniteSetTheorems, TLAPS

-----------------------------------------------------------------------------
(* The request log.                                                        *)

JobStates == {"none", "queued", "running", "backoff", "committed", "failed", "refused"}
Lives == {"down", "up", "stopping", "closing", "disposed"}

\* At work: the task holds, or believes to hold, the writer's gate.
AtWork(t) == job[t] \in {"running", "backoff"}

\* Only the holder of the gate is at work; rows and jobs agree; what close()
\* did not find pending is not pending later.
LogInv ==
    /\ life \in Lives /\ job \in [Tasks -> JobStates] /\ rows \in [Exchanges -> Nat]
    /\ \A t \in Tasks : AtWork(t) => gate = t
    /\ \A r \in Exchanges : rows[r] = IF job[r] = "committed" THEN 1 ELSE 0
    /\ life = "closing" => Pending \subseteq drain
    /\ life = "disposed" => Pending = {}

\* A step that moves one job keeps the invariant when it respects the gate,
\* writes the row with the commit, and admits nothing once close() began.
LEMMA JobStep ==
    ASSUME LogInv, NEW t \in Tasks, NEW s \in JobStates,
           UNCHANGED <<life, drain>>, job' = [job EXCEPT ![t] = s],
           \/ gate' = gate
           \/ gate = Nobody
           \/ gate = t /\ s \notin {"running", "backoff"},
           s \in {"running", "backoff"} => gate' = t,
           s \in {"queued", "running", "backoff"} => t \in Pending \/ Open,
           rows' \in [Exchanges -> Nat],
           \A r \in Exchanges \ {t} : rows'[r] = rows[r],
           t \in Exchanges => rows'[t] = IF s = "committed" THEN 1 ELSE 0
    PROVE  LogInv'
<1> USE DEF LogInv
<1>1. job' \in [Tasks -> JobStates] /\ job'[t] = s
      /\ \A u \in Tasks \ {t} : job'[u] = job[u]
    OBVIOUS
<1>2. ASSUME NEW u \in Tasks, AtWork(u)'
      PROVE  gate' = u
    <2>1. CASE u = t
        BY <1>1, <1>2, <2>1 DEF AtWork
    <2>2. CASE u # t
        <3>1. gate = u
            BY <1>1, <1>2, <2>2 DEF AtWork
        <3>2. u # Nobody
            BY RequestLogAssumption DEF Tasks
        <3>3. QED
            BY <2>2, <3>1, <3>2
    <2>3. QED
        BY <2>1, <2>2
<1>3. \A r \in Exchanges : rows'[r] = IF job'[r] = "committed" THEN 1 ELSE 0
    BY <1>1 DEF Tasks
<1>4. Pending' \subseteq Pending \cup {t}
    BY <1>1 DEF Pending
<1>5. life \in {"closing", "disposed"} => Pending' \subseteq Pending
    <2>1. life \in {"closing", "disposed"} => ~ Open
        BY DEF Open
    <2>2. t \in Pending' => s \in {"queued", "running", "backoff"}
        BY <1>1 DEF Pending
    <2>3. QED
        BY <1>4, <2>1, <2>2
<1>6. QED
    BY <1>1, <1>2, <1>3, <1>5

LEMMA WriterKept ==
    ASSUME LogInv, NEW t \in Tasks,
           TakeGate(t) \/ Commit(t) \/ Busy(t) \/ RetryWrite(t) \/ Error(t)
    PROVE  LogInv'
<1> USE DEF LogInv
<1>1. job[t] \in JobStates /\ t # Nobody /\ (t \in Exchanges => t # Retention)
    BY RequestLogAssumption DEF Tasks
<1>2. CASE TakeGate(t)
    BY <1>1, <1>2, JobStep DEF TakeGate, JobStates, Pending
<1>3. CASE Commit(t)
    <2>1. gate = t /\ job' = [job EXCEPT ![t] = "committed"] /\ gate' = Nobody
          /\ UNCHANGED <<life, drain>>
        BY <1>3 DEF Commit, Finish, AtWork
    <2>2. CASE t = Retention
        <3>1. UNCHANGED rows
            BY <1>3, <2>2 DEF Commit
        <3>2. QED
            BY <1>1, <2>1, <2>2, <3>1, JobStep DEF JobStates
    <2>3. CASE t # Retention
        <3>1. t \in Exchanges /\ rows' = [rows EXCEPT ![t] = @ + 1] /\ rows[t] = 0
            BY <1>3, <2>3 DEF Commit, Tasks
        <3>2. rows' \in [Exchanges -> Nat] /\ rows'[t] = 1
              /\ \A r \in Exchanges \ {t} : rows'[r] = rows[r]
            BY <3>1
        <3>3. QED
            BY <1>1, <2>1, <3>2, JobStep DEF JobStates
    <2>4. QED
        BY <2>2, <2>3
<1>4. CASE Busy(t) \/ Error(t)
    <2>1. gate = t /\ UNCHANGED <<life, drain, rows>> /\ job[t] = "running" /\ t \in Pending
        BY <1>4 DEF Busy, Error, RolledBack, AtWork, Pending
    <2>2. t \in Exchanges => rows[t] = 0
        BY <2>1
    <2>3. \/ job' = [job EXCEPT ![t] = "failed"] /\ gate' = Nobody
          \/ job' = [job EXCEPT ![t] = "backoff"] /\ UNCHANGED gate
        BY <1>4 DEF Busy, Error, Finish
    <2>4. QED
        BY <1>1, <2>1, <2>2, <2>3, JobStep DEF JobStates
<1>5. CASE RetryWrite(t)
    <2>1. gate = t /\ t \in Pending /\ (t \in Exchanges => rows[t] = 0)
        BY <1>5 DEF RetryWrite, AtWork, Pending
    <2>2. QED
        BY <1>1, <1>5, <2>1, JobStep DEF RetryWrite, JobStates
<1>6. QED
    BY <1>2, <1>3, <1>4, <1>5

LEMMA SubmitKept ==
    ASSUME LogInv, NEW t \in Tasks, Submit(t), UNCHANGED <<life, gate, drain, rows>>,
           t \in Exchanges => job[t] = "none"
    PROVE  LogInv'
<1>1. t \in Exchanges => rows[t] = 0
    BY DEF LogInv
<1>2. PICK s \in {"queued", "refused"} :
        job' = [job EXCEPT ![t] = s] /\ (s = "queued" => Open)
    BY DEF Submit
<1>3. QED
    BY <1>1, <1>2, JobStep DEF LogInv, JobStates

LEMMA LogInvHolds == LogSpec => []LogInv
<1>1. LogInit => LogInv
    BY DEF LogInit, LogInv, Lives, JobStates, AtWork, Tasks, Pending
<1>2. ASSUME LogInv, [LogNext]_logVars
      PROVE  LogInv'
    <2>1. ASSUME NEW r \in Exchanges, Respond(r) \/ LogRequest(r)
          PROVE  LogInv'
        <3>1. CASE Respond(r)
            BY <1>2, <3>1 DEF Respond, LogInv, AtWork, Pending
        <3>2. CASE LogRequest(r)
            BY <1>2, <3>2, SubmitKept DEF LogRequest, Tasks
        <3>3. QED
            BY <2>1, <3>1, <3>2
    <2>2. CASE StartCleanup
        <3>1. Retention \in Tasks /\ Retention \notin Exchanges
            BY RequestLogAssumption DEF Tasks
        <3>2. CASE cancel
            BY <1>2, <2>2, <3>2 DEF StartCleanup, LogInv, AtWork, Pending
        <3>3. CASE ~ cancel
            BY <1>2, <2>2, <3>1, <3>3, SubmitKept DEF StartCleanup
        <3>4. QED
            BY <3>2, <3>3
    <2>3. CASE EndCleanup \/ UNCHANGED logVars
        BY <1>2, <2>3 DEF EndCleanup, logVars, LogInv, AtWork, Pending
    <2>4. CASE Start \/ Stop
        BY <1>2, <2>4 DEF Start, Stop, LogInv, AtWork, Pending, Lives
    <2>5. CASE Close \/ Dispose
        <3>1. Pending' = Pending
            BY <2>5 DEF Close, Dispose, Pending
        <3>2. QED
            BY <1>2, <2>5, <3>1 DEF Close, Dispose, LogInv, AtWork, Lives
    <2>6. QED
        BY <1>2, <2>1, <2>2, <2>3, <2>4, <2>5, WriterKept DEF LogNext
<1>3. QED
    BY <1>1, <1>2, PTL DEF LogSpec

\* For any number of requests and retries: when RequestLogWriter.close has
\* drained and the engine is disposed no accepted write is undecided, a request
\* has a row exactly when its write committed, never two, and only the holder
\* of the gate is at work on the database.
THEOREM RequestWritesDecided == LogSpec => []AcceptedWritesDecided
<1>1. LogInv => AcceptedWritesDecided
    BY DEF LogInv, AcceptedWritesDecided, Pending, AtWork
<1>2. QED
    BY <1>1, LogInvHolds, PTL

-----------------------------------------------------------------------------
(* The master identity and the onboarding tickets.                         *)

CookieRows == [id: Nat, generation: Nat, expires: Nat]
AgentRows == [ticket: TicketIds \cup {NoTicket}, at: Nat]
AuditActions == {"auth.master.initialize", "auth.master.rotate", "auth.agent.provision",
                 "auth.onboarding.create"}
AuditRows == [generation: Nat, by: Nat, action: AuditActions,
              target: TicketIds \cup Nat, at: Nat]

IdentityTypes ==
    /\ identity \in Identities \cup {NoIdentity}
    /\ setups \subseteq CookieRows /\ IsFiniteSet(setups)
    /\ sessions \subseteq CookieRows /\ IsFiniteSet(sessions)
    /\ pending \subseteq Nat
    /\ tickets \in [TicketIds -> TicketRows \cup {NoTicket}]
    /\ agents \in Seq(AgentRows)
    /\ audits \in Seq(AuditRows)

\* Whoever acted did so under the present generation or an earlier one.
AuditsCurrent ==
    \A i \in DOMAIN audits : HasIdentity /\ audits[i].generation <= identity.generation

IsCreation(i) == audits[i].action = "auth.onboarding.create"

\* Every ticket row was created by exactly one audited action.
CreationsMatch ==
    /\ \A i \in DOMAIN audits : IsCreation(i) =>
          audits[i].target \in TicketIds /\ tickets[audits[i].target] # NoTicket
    /\ \A i, j \in DOMAIN audits :
          IsCreation(i) /\ IsCreation(j) /\ audits[i].target = audits[j].target => i = j

CreatedBy(t) == [generation |-> tickets[t].generation, by |-> tickets[t].by,
                 action |-> "auth.onboarding.create", target |-> t,
                 at |-> tickets[t].created]

ProvisionedBy(t) == [generation |-> tickets[t].generation, by |-> tickets[t].by,
                     action |-> "auth.agent.provision",
                     target |-> tickets[t].credential, at |-> tickets[t].consumed]

\* The row of a ticket agrees with the audits and with the Agent it bought.
TicketOK(t) ==
    /\ \E i \in DOMAIN audits : audits[i] = CreatedBy(t)
    /\ tickets[t].consumed = 0 => tickets[t].credential = 0
    /\ tickets[t].consumed # 0 =>
          /\ tickets[t].created <= tickets[t].consumed
          /\ tickets[t].consumed < tickets[t].expires
          /\ tickets[t].credential \in DOMAIN agents
          /\ agents[tickets[t].credential].at = tickets[t].consumed
          /\ \E i \in DOMAIN audits : audits[i] = ProvisionedBy(t)

AgentOK(n) == agents[n].ticket # NoTicket =>
    /\ tickets[agents[n].ticket] # NoTicket
    /\ tickets[agents[n].ticket].credential = n

IdentityInv ==
    /\ IdentityTypes
    /\ RequireMasterIdentity
    /\ AuditsCurrent /\ GenerationsAscend
    /\ CreationsMatch
    /\ \A t \in TicketIds : tickets[t] # NoTicket => TicketOK(t)
    /\ \A n \in DOMAIN agents : AgentOK(n)

\* Histories only grow.
Appended ==
    /\ \A i \in DOMAIN audits : i \in DOMAIN audits' /\ audits'[i] = audits[i]
    /\ \A n \in DOMAIN agents : n \in DOMAIN agents' /\ agents'[n] = agents[n]

\* An audited action under the present generation.
LEMMA AuditKept ==
    ASSUME IdentityTypes, AuditsCurrent, GenerationsAscend,
           NEW e \in AuditRows, audits' = Append(audits, e),
           HasIdentity', identity' \in Identities,
           e.generation <= identity'.generation,
           HasIdentity => e.generation = identity.generation
    PROVE  /\ audits' \in Seq(AuditRows)
           /\ Len(audits) \in Nat /\ DOMAIN audits = 1 .. Len(audits)
           /\ DOMAIN audits' = 1 .. (Len(audits) + 1)
           /\ \A i \in DOMAIN audits : i \in DOMAIN audits' /\ audits'[i] = audits[i]
           /\ audits'[Len(audits) + 1] = e
           /\ AuditsCurrent' /\ GenerationsAscend'
<1> DEFINE g == e.generation
<1>1. audits \in Seq(AuditRows)
    BY DEF IdentityTypes
<1>2. /\ audits' \in Seq(AuditRows) /\ Len(audits') = Len(audits) + 1
      /\ Len(audits) \in Nat
      /\ DOMAIN audits = 1 .. Len(audits) /\ DOMAIN audits' = 1 .. (Len(audits) + 1)
      /\ \A i \in DOMAIN audits : i \in DOMAIN audits' /\ audits'[i] = audits[i]
      /\ audits'[Len(audits) + 1] = e
    BY <1>1
<1>4. ASSUME NEW i \in DOMAIN audits
      PROVE  audits[i].generation \in Nat /\ audits[i].generation <= g
    <2>1. audits[i] \in AuditRows
        BY <1>1, <1>2
    <2>2. HasIdentity /\ audits[i].generation <= identity.generation
        BY DEF AuditsCurrent
    <2>3. QED
        BY <2>1, <2>2 DEF AuditRows
<1>5. identity'.generation \in Nat /\ g \in Nat
    BY DEF Identities, AuditRows
<1>6. ASSUME NEW i \in DOMAIN audits'
      PROVE  audits'[i].generation <= identity'.generation
    <2>1. CASE i \in DOMAIN audits
        BY <1>2, <1>4, <1>5, <2>1
    <2>2. CASE i \notin DOMAIN audits
        <3>1. i = Len(audits) + 1
            BY <1>2, <1>6, <2>2
        <3>2. QED
            BY <1>2, <3>1
    <2>3. QED
        BY <2>1, <2>2
<1>7. ASSUME NEW i \in DOMAIN audits', NEW j \in DOMAIN audits', i < j
      PROVE  audits'[i].generation <= audits'[j].generation
    <2>1. i \in DOMAIN audits /\ audits'[i] = audits[i]
        BY <1>2, <1>7
    <2>2. CASE j \in DOMAIN audits
        BY <1>2, <1>7, <2>1, <2>2 DEF GenerationsAscend
    <2>3. CASE j \notin DOMAIN audits
        <3>1. j = Len(audits) + 1
            BY <1>2, <1>7, <2>3
        <3>2. QED
            BY <1>2, <1>4, <2>1, <3>1
    <2>4. QED
        BY <2>2, <2>3
<1>8. QED
    BY <1>2, <1>6, <1>7 DEF AuditsCurrent, GenerationsAscend

LEMMA AgentTyped ==
    ASSUME IdentityTypes, NEW n \in DOMAIN agents
    PROVE  agents[n].ticket \in TicketIds \cup {NoTicket}
<1>1. agents \in Seq(AgentRows) /\ DOMAIN agents = 1 .. Len(agents)
    BY DEF IdentityTypes
<1>2. agents[n] \in AgentRows
    BY <1>1
<1>3. QED
    BY <1>2 DEF AgentRows

\* A ticket row that does not change stays in agreement with longer histories.
LEMMA TicketKept ==
    ASSUME NEW t \in TicketIds, TicketOK(t), Appended, tickets'[t] = tickets[t]
    PROVE  TicketOK(t)'
<1>1. CreatedBy(t)' = CreatedBy(t) /\ ProvisionedBy(t)' = ProvisionedBy(t)
    BY DEF CreatedBy, ProvisionedBy
<1>2. QED
    BY <1>1 DEF TicketOK, Appended

\* Steps that create no ticket and redeem none.
LEMMA TicketsKept ==
    ASSUME IdentityInv, Appended, UNCHANGED tickets,
           \A i \in DOMAIN audits' \ DOMAIN audits : ~ IsCreation(i)',
           \A n \in DOMAIN agents' \ DOMAIN agents : agents'[n].ticket = NoTicket
    PROVE  /\ CreationsMatch'
           /\ \A t \in TicketIds : tickets'[t] # NoTicket => TicketOK(t)'
           /\ \A n \in DOMAIN agents' : AgentOK(n)'
<1>1. \A i \in DOMAIN audits' : IsCreation(i)' =>
         i \in DOMAIN audits /\ audits'[i] = audits[i] /\ IsCreation(i)
    BY DEF IsCreation, Appended
<1>2. CreationsMatch'
    BY <1>1 DEF IdentityInv, CreationsMatch
<1>3. \A t \in TicketIds : tickets'[t] # NoTicket => TicketOK(t)'
    BY TicketKept DEF IdentityInv
<1>4. \A n \in DOMAIN agents' : AgentOK(n)'
    BY DEF IdentityInv, AgentOK, Appended
<1>5. QED
    BY <1>2, <1>3, <1>4

\* Cookies are handed out and generations read; nothing is written.
LEMMA CookiesKept ==
    ASSUME IdentityInv, UNCHANGED <<identity, tickets, agents, audits>>,
           \/ UNCHANGED <<setups, sessions, pending>>
           \/ \E now \in Clocks : IssueSetup(now) \/ IssueMaster(now)
           \/ \E token \in Tokens : SignIn(token)
    PROVE  IdentityInv'
<1>1. IdentityTypes
    BY DEF IdentityInv
<1>2. Cookies + 1 \in Nat
    BY <1>1, FS_CardinalityType DEF IdentityTypes, Cookies
<1>3. IdentityTypes'
    <2>1. CASE UNCHANGED <<setups, sessions, pending>>
        BY <1>1, <2>1 DEF IdentityTypes
    <2>2. CASE \E now \in Clocks : IssueSetup(now)
        <3>1. PICK now \in Clocks : IssueSetup(now)
            BY <2>2
        <3>2. NewCookie(0, now + SetupTTL) \in CookieRows
            BY <1>2, IdentityAssumption DEF NewCookie, CookieRows
        <3>3. setups' \subseteq CookieRows /\ IsFiniteSet(setups')
            BY <1>1, <3>1, <3>2, FS_AddElement DEF IssueSetup, IdentityTypes
        <3>4. QED
            BY <1>1, <3>1, <3>3 DEF IssueSetup, IdentityTypes
    <2>3. CASE \E now \in Clocks : IssueMaster(now)
        <3>1. PICK now \in Clocks, g \in pending :
                /\ sessions' = sessions \cup {NewCookie(g, now + SessionTTL)}
                /\ pending' = pending \ {g} /\ UNCHANGED setups
            BY <2>3 DEF IssueMaster
        <3>2. NewCookie(g, now + SessionTTL) \in CookieRows
            BY <1>1, <1>2, IdentityAssumption DEF NewCookie, CookieRows, IdentityTypes
        <3>3. sessions' \subseteq CookieRows /\ IsFiniteSet(sessions')
            BY <1>1, <3>1, <3>2, FS_AddElement DEF IdentityTypes
        <3>4. QED
            BY <1>1, <3>1, <3>3 DEF IdentityTypes
    <2>4. CASE \E token \in Tokens : SignIn(token)
        BY <1>1, <2>4 DEF SignIn, HasIdentity, IdentityTypes, Identities
    <2>5. QED
        BY <2>1, <2>2, <2>3, <2>4
<1>4. QED
    BY <1>3 DEF IdentityInv, RequireMasterIdentity, AuditsCurrent, GenerationsAscend,
       HasIdentity, CreationsMatch, IsCreation, TicketOK, CreatedBy, ProvisionedBy, AgentOK

\* What a new or replaced identity row satisfies.
LEMMA NewIdentityMeans ==
    ASSUME IdentityTypes, NEW token \in Tokens, NEW now \in Clocks, NewIdentity(token, now)
    PROVE  /\ ~ HasIdentity /\ identity' \in Identities /\ HasIdentity'
           /\ identity'.generation = 1 /\ RequireMasterIdentity'
<1>1. identity' = [token |-> token, generation |-> 1, created |-> now, updated |-> now]
      /\ now \in Nat /\ ~ HasIdentity
    BY IdentityAssumption DEF NewIdentity
<1>2. QED
    BY <1>1, EmptyTablesAssumption DEF Identities, HasIdentity, RequireMasterIdentity

LEMMA ReplaceTokenMeans ==
    ASSUME IdentityTypes, RequireMasterIdentity, NEW token \in Tokens,
           NEW now \in Clocks, ReplaceToken(token, now)
    PROVE  /\ HasIdentity /\ identity \in Identities
           /\ identity' \in Identities /\ HasIdentity'
           /\ identity.generation <= identity'.generation /\ RequireMasterIdentity'
<1>1. /\ identity \in Identities /\ HasIdentity /\ now \in Nat /\ now >= identity.updated
      /\ identity' = [identity EXCEPT !.token = token, !.updated = now, !.generation = @ + 1]
    BY IdentityAssumption DEF ReplaceToken, Replaced, IdentityTypes, HasIdentity
<1>2. /\ identity' = [token |-> token, generation |-> identity.generation + 1,
                       created |-> identity.created, updated |-> now]
      /\ identity.generation \in Nat /\ identity.created \in Nat /\ identity.updated \in Nat
    BY <1>1 DEF Identities
<1>3. identity' \in Identities /\ HasIdentity'
    <2>1. identity' \in Identities
        BY <1>1, <1>2 DEF Identities
    <2>2. QED
        BY <2>1, EmptyTablesAssumption DEF HasIdentity
<1>4. identity.generation >= 1 /\ identity.updated >= identity.created
    BY <1>1 DEF RequireMasterIdentity
<1>5. identity'.generation >= 1 /\ identity'.updated >= identity'.created
    BY <1>1, <1>2, <1>4
<1>6. QED
    BY <1>1, <1>2, <1>3, <1>5 DEF RequireMasterIdentity

\* The local commands write the identity row without an audit.
LEMMA LocalKept ==
    ASSUME IdentityInv, NEW token \in Tokens, NEW now \in Clocks,
           \/ LocalInitialize(token, now)
           \/ LocalRecover(token, now)
           \/ \E former \in Tokens : LocalRotate(former, token, now)
    PROVE  IdentityInv'
<1>1. IdentityTypes /\ RequireMasterIdentity /\ AuditsCurrent /\ GenerationsAscend
    BY DEF IdentityInv
<1>2. UNCHANGED <<setups, sessions, pending, tickets, agents, audits>>
    BY DEF LocalInitialize, LocalRecover, LocalRotate
<1>3. \/ NewIdentity(token, now) \/ ReplaceToken(token, now)
    BY DEF LocalInitialize, LocalRecover, LocalRotate
<1>4. /\ identity' \in Identities /\ HasIdentity' /\ RequireMasterIdentity'
      /\ HasIdentity => identity \in Identities /\ identity.generation <= identity'.generation
    BY <1>1, <1>3, NewIdentityMeans, ReplaceTokenMeans
<1>5. IdentityTypes'
    BY <1>1, <1>2, <1>4 DEF IdentityTypes
<1>6. AuditsCurrent' /\ GenerationsAscend'
    <2>1. ASSUME NEW i \in DOMAIN audits
          PROVE  audits[i].generation <= identity'.generation
        <3>1. audits[i] \in AuditRows /\ HasIdentity /\ audits[i].generation <= identity.generation
            BY <1>1 DEF IdentityTypes, AuditsCurrent
        <3>2. QED
            BY <1>4, <3>1 DEF AuditRows, Identities
    <2>2. QED
        BY <1>1, <1>2, <1>4, <2>1 DEF AuditsCurrent, GenerationsAscend
<1>7. Appended /\ UNCHANGED tickets
    BY <1>2 DEF Appended
<1>8. QED
    BY <1>2, <1>4, <1>5, <1>6, <1>7, TicketsKept DEF IdentityInv

\* An accepted session is typed and carries the present generation.
LEMMA SessionMeans ==
    ASSUME IdentityTypes, NEW c \in sessions, NEW now, Authorized(c, now)
    PROVE  /\ c.id \in Nat /\ c.generation \in Nat
           /\ HasIdentity /\ identity \in Identities /\ c.generation = identity.generation
BY DEF IdentityTypes, CookieRows, Authorized, CurrentGeneration, HasIdentity

\* Setup and rotation, which replace the identity row and leave an audit.
LEMMA InitializeKept ==
    ASSUME IdentityInv, NEW token \in Tokens, NEW checked \in Clocks, NEW now \in Clocks,
           Initialize(token, checked, now)
    PROVE  IdentityInv'
<1>1. IdentityTypes /\ AuditsCurrent /\ GenerationsAscend
    BY DEF IdentityInv
<1>2. PICK c \in setups :
        /\ NewIdentity(token, now)
        /\ Audit(1, c.id, "auth.master.initialize", 0, now)
        /\ pending' = pending \cup {1}
        /\ UNCHANGED <<setups, sessions, tickets, agents>>
    BY DEF Initialize
<1>3. c.id \in Nat /\ now \in Nat
    BY <1>1, IdentityAssumption DEF IdentityTypes, CookieRows
<1>4. /\ ~ HasIdentity /\ identity' \in Identities /\ HasIdentity'
      /\ identity'.generation = 1 /\ RequireMasterIdentity'
    BY <1>1, <1>2, NewIdentityMeans
<1> DEFINE e == [generation |-> 1, by |-> c.id, action |-> "auth.master.initialize",
                 target |-> 0, at |-> now]
<1>e1. e \in AuditRows /\ audits' = Append(audits, e)
    BY <1>2, <1>3 DEF Audit, AuditRows, AuditActions
<1>e2. e.generation = 1 /\ e.action = "auth.master.initialize"
    OBVIOUS
<1> HIDE DEF e
<1>5. /\ audits' \in Seq(AuditRows)
      /\ DOMAIN audits' = 1 .. (Len(audits) + 1) /\ DOMAIN audits = 1 .. Len(audits)
      /\ \A i \in DOMAIN audits : i \in DOMAIN audits' /\ audits'[i] = audits[i]
      /\ audits'[Len(audits) + 1].action = "auth.master.initialize"
      /\ AuditsCurrent' /\ GenerationsAscend'
    BY <1>1, <1>3, <1>4, <1>e1, <1>e2, AuditKept
<1>6. IdentityTypes'
    BY <1>1, <1>2, <1>4, <1>5 DEF IdentityTypes
<1>7. Appended /\ \A i \in DOMAIN audits' \ DOMAIN audits : ~ IsCreation(i)'
    <2>1. \A i \in DOMAIN audits' \ DOMAIN audits : i = Len(audits) + 1
        BY <1>5
    <2>2. QED
        BY <1>2, <1>5, <2>1 DEF Appended, IsCreation
<1>8. QED
    BY <1>2, <1>4, <1>5, <1>6, <1>7, TicketsKept DEF IdentityInv

LEMMA RotateMasterKept ==
    ASSUME IdentityInv, NEW former, NEW token \in Tokens, NEW now \in Clocks,
           RotateMaster(former, token, now)
    PROVE  IdentityInv'
<1>1. IdentityTypes /\ AuditsCurrent /\ GenerationsAscend /\ RequireMasterIdentity
    BY DEF IdentityInv
<1>2. PICK c \in sessions :
        /\ Authorized(c, now) /\ ReplaceToken(token, now)
        /\ Audit(c.generation, c.id, "auth.master.rotate", 0, now)
        /\ UNCHANGED <<setups, sessions, pending, tickets, agents>>
    BY DEF RotateMaster
<1>3. /\ c.id \in Nat /\ c.generation \in Nat /\ now \in Nat
      /\ HasIdentity /\ c.generation = identity.generation
    BY <1>1, <1>2, SessionMeans, IdentityAssumption
<1>4. /\ identity' \in Identities /\ HasIdentity' /\ RequireMasterIdentity'
      /\ identity.generation <= identity'.generation
    BY <1>1, <1>2, ReplaceTokenMeans
<1> DEFINE e == [generation |-> c.generation, by |-> c.id, action |-> "auth.master.rotate",
                 target |-> 0, at |-> now]
<1>e1. e \in AuditRows /\ audits' = Append(audits, e)
    BY <1>2, <1>3 DEF Audit, AuditRows, AuditActions
<1>e2. e.generation = c.generation /\ e.action = "auth.master.rotate"
    OBVIOUS
<1> HIDE DEF e
<1>5. /\ audits' \in Seq(AuditRows)
      /\ DOMAIN audits' = 1 .. (Len(audits) + 1) /\ DOMAIN audits = 1 .. Len(audits)
      /\ \A i \in DOMAIN audits : i \in DOMAIN audits' /\ audits'[i] = audits[i]
      /\ audits'[Len(audits) + 1].action = "auth.master.rotate"
      /\ AuditsCurrent' /\ GenerationsAscend'
    BY <1>1, <1>3, <1>4, <1>e1, <1>e2, AuditKept
<1>6. IdentityTypes'
    BY <1>1, <1>2, <1>4, <1>5 DEF IdentityTypes
<1>7. Appended /\ \A i \in DOMAIN audits' \ DOMAIN audits : ~ IsCreation(i)'
    <2>1. \A i \in DOMAIN audits' \ DOMAIN audits : i = Len(audits) + 1
        BY <1>5
    <2>2. QED
        BY <1>2, <1>5, <2>1 DEF Appended, IsCreation
<1>8. QED
    BY <1>2, <1>4, <1>5, <1>6, <1>7, TicketsKept DEF IdentityInv

AgentRow(x, at) == [ticket |-> x, at |-> at]
ProvisionAudit(g, b, n, at) == [generation |-> g, by |-> b,
    action |-> "auth.agent.provision", target |-> n, at |-> at]

\* provision_agent_in_transaction under the present generation: the Agent is
\* new, and the audit that names it is the last one.
LEMMA ProvisionMeans ==
    ASSUME IdentityInv, NEW g \in Nat, NEW b \in Nat, NEW x \in TicketIds \cup {NoTicket},
           NEW now \in Clocks, ProvisionAgent(g, b, x, now), UNCHANGED identity,
           HasIdentity, g = identity.generation
    PROVE  /\ audits' \in Seq(AuditRows) /\ agents' \in Seq(AgentRows)
           /\ AuditsCurrent' /\ GenerationsAscend' /\ RequireMasterIdentity'
           /\ Appended
           /\ DOMAIN agents = 1 .. Len(agents) /\ Len(agents) \in Nat
           /\ DOMAIN agents' = 1 .. (Len(agents) + 1)
           /\ agents'[Len(agents) + 1] = AgentRow(x, now)
           /\ \A i \in DOMAIN audits' \ DOMAIN audits : ~ IsCreation(i)'
           /\ Len(audits) + 1 \in DOMAIN audits'
           /\ audits'[Len(audits) + 1] = ProvisionAudit(g, b, Len(agents) + 1, now)
<1> DEFINE e == [ticket |-> x, at |-> now]
<1>1. IdentityTypes /\ AuditsCurrent /\ GenerationsAscend /\ RequireMasterIdentity
    BY DEF IdentityInv
<1>2. now \in Nat /\ e \in AgentRows /\ agents \in Seq(AgentRows) /\ agents' = Append(agents, e)
    BY <1>1, IdentityAssumption DEF IdentityTypes, AgentRows, ProvisionAgent
<1> HIDE DEF e
<1>3. /\ agents' \in Seq(AgentRows) /\ Len(agents) \in Nat
      /\ DOMAIN agents = 1 .. Len(agents) /\ DOMAIN agents' = 1 .. (Len(agents) + 1)
      /\ \A n \in DOMAIN agents : n \in DOMAIN agents' /\ agents'[n] = agents[n]
      /\ agents'[Len(agents) + 1] = e
    BY <1>2
<1>4. identity' \in Identities /\ HasIdentity' /\ identity'.generation = g
    BY <1>1 DEF IdentityTypes, HasIdentity
<1> DEFINE a == [generation |-> g, by |-> b, action |-> "auth.agent.provision",
                 target |-> Len(agents) + 1, at |-> now]
<1>5. a \in AuditRows /\ audits' = Append(audits, a) /\ a.generation = g
      /\ a.action = "auth.agent.provision"
    BY <1>2, <1>3 DEF ProvisionAgent, Audit, AuditRows, AuditActions
<1> HIDE DEF a
<1>6. /\ audits' \in Seq(AuditRows)
      /\ DOMAIN audits' = 1 .. (Len(audits) + 1) /\ DOMAIN audits = 1 .. Len(audits)
      /\ \A i \in DOMAIN audits : i \in DOMAIN audits' /\ audits'[i] = audits[i]
      /\ audits'[Len(audits) + 1] = a /\ Len(audits) \in Nat
      /\ AuditsCurrent' /\ GenerationsAscend'
    <2>1. a.generation = g /\ g <= identity'.generation
        BY <1>4, <1>5
    <2>2. QED
        BY <1>1, <1>4, <1>5, <2>1, AuditKept
<1>7. a.action = "auth.agent.provision"
    BY <1>5
<1>8. \A i \in DOMAIN audits' \ DOMAIN audits : ~ IsCreation(i)'
    <2>1. \A i \in DOMAIN audits' \ DOMAIN audits : i = Len(audits) + 1
        BY <1>6
    <2>2. QED
        BY <1>6, <1>7, <2>1 DEF IsCreation
<1>9. RequireMasterIdentity'
    BY <1>1 DEF RequireMasterIdentity, HasIdentity
<1>10. Len(audits) + 1 \in DOMAIN audits'
    BY <1>6
<1>11. QED
    BY <1>3, <1>5, <1>6, <1>8, <1>9, <1>10 DEF Appended, e, a, AgentRow, ProvisionAudit

LEMMA ProvisionInConsoleKept ==
    ASSUME IdentityInv, NEW now \in Clocks, ProvisionInConsole(now)
    PROVE  IdentityInv'
<1>1. IdentityTypes
    BY DEF IdentityInv
<1>2. PICK c \in sessions :
        /\ Authorized(c, now) /\ ProvisionAgent(c.generation, c.id, NoTicket, now)
        /\ UNCHANGED <<identity, tickets, setups, sessions, pending>>
    BY DEF ProvisionInConsole
<1>3. c.id \in Nat /\ c.generation \in Nat /\ HasIdentity /\ c.generation = identity.generation
    BY <1>1, <1>2, SessionMeans
<1>4. /\ audits' \in Seq(AuditRows) /\ agents' \in Seq(AgentRows)
      /\ AuditsCurrent' /\ GenerationsAscend' /\ RequireMasterIdentity'
      /\ Appended
      /\ DOMAIN agents = 1 .. Len(agents) /\ Len(agents) \in Nat
      /\ DOMAIN agents' = 1 .. (Len(agents) + 1)
      /\ agents'[Len(agents) + 1] = AgentRow(NoTicket, now)
      /\ \A i \in DOMAIN audits' \ DOMAIN audits : ~ IsCreation(i)'
    <2>1. PICK x \in TicketIds \cup {NoTicket} :
            x = NoTicket /\ ProvisionAgent(c.generation, c.id, x, now)
        BY <1>2
    <2>2. PICK g \in Nat, b \in Nat : g = c.generation /\ b = c.id
        BY <1>3
    <2>3. ProvisionAgent(g, b, x, now) /\ UNCHANGED identity /\ g = identity.generation
        BY <1>2, <1>3, <2>1, <2>2
    <2>4. HasIdentity /\ IdentityInv
        BY <1>3
    <2>5. \A i \in DOMAIN audits' \ DOMAIN audits : ~ IsCreation(i)'
        BY <2>3, <2>4, ProvisionMeans
    <2>6. /\ audits' \in Seq(AuditRows) /\ agents' \in Seq(AgentRows)
          /\ AuditsCurrent' /\ GenerationsAscend' /\ RequireMasterIdentity'
          /\ Appended
        BY <2>3, <2>4, ProvisionMeans
    <2>7. /\ DOMAIN agents = 1 .. Len(agents) /\ Len(agents) \in Nat
          /\ DOMAIN agents' = 1 .. (Len(agents) + 1)
          /\ agents'[Len(agents) + 1] = AgentRow(x, now)
        BY <2>3, <2>4, ProvisionMeans
    <2>8. QED
        BY <2>1, <2>5, <2>6, <2>7
<1>5. IdentityTypes'
    BY <1>1, <1>2, <1>4 DEF IdentityTypes
<1>6. \A n \in DOMAIN agents' \ DOMAIN agents : agents'[n].ticket = NoTicket
    <2>1. \A n \in DOMAIN agents' \ DOMAIN agents : n = Len(agents) + 1
        BY <1>4
    <2>2. QED
        BY <1>4, <2>1 DEF AgentRow
<1>7. QED
    BY <1>2, <1>4, <1>5, <1>6, TicketsKept DEF IdentityInv

\* A new ticket row and the audit of its creation appear together.
LEMMA CreateTicketKept ==
    ASSUME IdentityInv, NEW t \in TicketIds, NEW now \in Clocks, CreateTicket(t, now)
    PROVE  IdentityInv'
<1>1. IdentityTypes /\ AuditsCurrent /\ GenerationsAscend /\ CreationsMatch
    BY DEF IdentityInv
<1>2. PICK c \in sessions :
        /\ tickets[t] = NoTicket /\ Authorized(c, now)
        /\ tickets' = [tickets EXCEPT ![t] =
              [generation |-> c.generation, by |-> c.id, created |-> now,
               expires |-> now + TicketTTL, consumed |-> 0, credential |-> 0]]
        /\ Audit(c.generation, c.id, "auth.onboarding.create", t, now)
        /\ UNCHANGED <<identity, setups, sessions, pending, agents>>
    BY DEF CreateTicket
<1>3. /\ c.id \in Nat /\ c.generation \in Nat /\ now \in Nat /\ TicketTTL \in Nat
      /\ HasIdentity /\ identity \in Identities /\ c.generation = identity.generation
    BY <1>1, <1>2, SessionMeans, IdentityAssumption
<1> DEFINE e == [generation |-> c.generation, by |-> c.id,
                 action |-> "auth.onboarding.create", target |-> t, at |-> now]
           row == [generation |-> c.generation, by |-> c.id, created |-> now,
                   expires |-> now + TicketTTL, consumed |-> 0, credential |-> 0]
<1>4. row \in TicketRows /\ row # NoTicket
    BY <1>3, EmptyTablesAssumption DEF TicketRows
<1>5. e \in AuditRows /\ audits' = Append(audits, e)
    BY <1>2, <1>3 DEF Audit, AuditRows, AuditActions
<1>6. /\ e.generation = identity.generation /\ e.action = "auth.onboarding.create"
      /\ e.target = t
    BY <1>3
<1>7. e = [generation |-> row.generation, by |-> row.by,
           action |-> "auth.onboarding.create", target |-> t, at |-> row.created]
      /\ row.consumed = 0 /\ row.credential = 0
    OBVIOUS
<1>8. tickets' = [tickets EXCEPT ![t] = row]
    BY <1>2
<1> HIDE DEF e, row
<1>9. HasIdentity' /\ identity' = identity /\ RequireMasterIdentity'
    BY <1>2, <1>3 DEF HasIdentity, IdentityInv, RequireMasterIdentity
<1>10. identity.generation \in Nat
    BY <1>3 DEF Identities
<1>11. /\ audits' \in Seq(AuditRows) /\ Len(audits) \in Nat
       /\ DOMAIN audits' = 1 .. (Len(audits) + 1) /\ DOMAIN audits = 1 .. Len(audits)
       /\ \A i \in DOMAIN audits : i \in DOMAIN audits' /\ audits'[i] = audits[i]
       /\ audits'[Len(audits) + 1] = e
       /\ AuditsCurrent' /\ GenerationsAscend'
    BY <1>1, <1>3, <1>5, <1>6, <1>9, <1>10, AuditKept
<1>12. /\ tickets' \in [TicketIds -> TicketRows \cup {NoTicket}]
       /\ tickets'[t] = row /\ \A u \in TicketIds \ {t} : tickets'[u] = tickets[u]
    BY <1>1, <1>4, <1>8 DEF IdentityTypes
<1>13. IdentityTypes'
    BY <1>1, <1>2, <1>9, <1>11, <1>12 DEF IdentityTypes
<1>14. Appended
    BY <1>2, <1>11 DEF Appended
<1>15. \A i \in DOMAIN audits : IsCreation(i) => audits[i].target \in TicketIds \ {t}
    BY <1>1, <1>2 DEF CreationsMatch
<1>16. \A i \in DOMAIN audits' : IsCreation(i)' =>
          \/ i = Len(audits) + 1 /\ audits'[i].target = t
          \/ /\ i \in DOMAIN audits /\ IsCreation(i) /\ audits'[i].target = audits[i].target
             /\ audits[i].target \in TicketIds \ {t}
    <2>1. \A i \in DOMAIN audits' : i \in DOMAIN audits \/ i = Len(audits) + 1
        BY <1>11
    <2>2. QED
        BY <1>6, <1>11, <1>15, <2>1 DEF IsCreation
<1>17. CreationsMatch'
    <2>1. \A i \in DOMAIN audits' : IsCreation(i)' =>
             audits'[i].target \in TicketIds /\ tickets'[audits'[i].target] # NoTicket
        BY <1>1, <1>4, <1>12, <1>16 DEF CreationsMatch
    <2>2. \A i, j \in DOMAIN audits' :
             IsCreation(i)' /\ IsCreation(j)' /\ audits'[i].target = audits'[j].target => i = j
        BY <1>1, <1>16 DEF CreationsMatch
    <2>3. QED
        BY <2>1, <2>2 DEF CreationsMatch
<1>18. ASSUME NEW u \in TicketIds, tickets'[u] # NoTicket
       PROVE  TicketOK(u)'
    <2>1. CASE u # t
        BY <1>12, <1>14, <1>18, <2>1, TicketKept DEF IdentityInv
    <2>2. CASE u = t
        <3>1. audits'[Len(audits) + 1] = CreatedBy(u)' /\ Len(audits) + 1 \in DOMAIN audits'
            BY <1>7, <1>11, <1>12, <2>2 DEF CreatedBy
        <3>2. QED
            BY <1>7, <1>12, <2>2, <3>1 DEF TicketOK
    <2>3. QED
        BY <2>1, <2>2
<1>19. ASSUME NEW n \in DOMAIN agents'
       PROVE  AgentOK(n)'
    <2>1. n \in DOMAIN agents /\ agents' = agents /\ AgentOK(n)
        BY <1>2 DEF IdentityInv
    <2>2. agents[n].ticket \in TicketIds \cup {NoTicket}
        BY <1>1, <2>1, AgentTyped
    <2>3. QED
        BY <1>2, <1>12, <2>1, <2>2 DEF AgentOK
<1>20. QED
    BY <1>9, <1>11, <1>13, <1>17, <1>18, <1>19 DEF IdentityInv

\* The Agent, its audit and the consumption of the ticket appear together.
LEMMA RedeemKept ==
    ASSUME IdentityInv, NEW t \in TicketIds, NEW now \in Clocks, Redeem(t, now)
    PROVE  IdentityInv'
<1>1. IdentityTypes /\ CreationsMatch
    BY DEF IdentityInv
<1>2. /\ Admit(t, now)
      /\ ProvisionAgent(tickets[t].generation, tickets[t].by, t, now)
      /\ tickets' = [tickets EXCEPT ![t].consumed = now, ![t].credential = Len(agents) + 1]
      /\ UNCHANGED <<identity, setups, sessions, pending>>
    BY DEF Redeem
<1>3. /\ tickets[t] \in TicketRows /\ now \in Nat \ {0}
      /\ tickets[t].created <= now /\ now < tickets[t].expires /\ tickets[t].consumed = 0
      /\ HasIdentity /\ tickets[t].generation = identity.generation
    BY <1>1, <1>2, IdentityAssumption DEF IdentityTypes, Admit, CurrentGeneration
<1>4. PICK g \in Nat, b \in Nat : g = tickets[t].generation /\ b = tickets[t].by
    BY <1>3 DEF TicketRows
<1>5. /\ ProvisionAgent(g, b, t, now) /\ UNCHANGED identity /\ g = identity.generation
      /\ t \in TicketIds \cup {NoTicket}
    BY <1>2, <1>3, <1>4
<1>6. /\ audits' \in Seq(AuditRows) /\ agents' \in Seq(AgentRows)
      /\ AuditsCurrent' /\ GenerationsAscend' /\ RequireMasterIdentity'
      /\ Appended
    BY <1>3, <1>5, ProvisionMeans
<1>7. /\ DOMAIN agents = 1 .. Len(agents) /\ Len(agents) \in Nat
      /\ DOMAIN agents' = 1 .. (Len(agents) + 1)
      /\ agents'[Len(agents) + 1] = AgentRow(t, now)
    BY <1>3, <1>5, ProvisionMeans
<1>8. \A i \in DOMAIN audits' \ DOMAIN audits : ~ IsCreation(i)'
    BY <1>3, <1>5, ProvisionMeans
<1>9. /\ Len(audits) + 1 \in DOMAIN audits'
      /\ audits'[Len(audits) + 1] = ProvisionAudit(g, b, Len(agents) + 1, now)
    BY <1>3, <1>5, ProvisionMeans
<1>10. PICK row \in TicketRows :
         /\ row.generation = g /\ row.by = b /\ row.created = tickets[t].created
         /\ row.expires = tickets[t].expires
         /\ row.consumed = now /\ row.credential = Len(agents) + 1
         /\ tickets' = [tickets EXCEPT ![t] = row]
    <2>1. PICK former \in TicketRows, n \in Nat, at \in Nat :
            former = tickets[t] /\ n = Len(agents) + 1 /\ at = now
        BY <1>3, <1>7
    <2>2. PICK row : row = [former EXCEPT !.consumed = at, !.credential = n]
        OBVIOUS
    <2>3. tickets' = [tickets EXCEPT ![t] = row]
        BY <1>1, <1>2, <2>1, <2>2 DEF IdentityTypes
    <2>4. /\ row \in TicketRows /\ row.generation = former.generation /\ row.by = former.by
          /\ row.created = former.created /\ row.expires = former.expires
          /\ row.consumed = at /\ row.credential = n
        BY <2>2 DEF TicketRows
    <2>5. QED
        BY <1>4, <2>1, <2>3, <2>4
<1>11. row # NoTicket
    BY EmptyTablesAssumption
<1>12. /\ tickets' \in [TicketIds -> TicketRows \cup {NoTicket}]
       /\ tickets'[t] = row /\ \A u \in TicketIds \ {t} : tickets'[u] = tickets[u]
    BY <1>1, <1>10 DEF IdentityTypes
<1>13. IdentityTypes'
    BY <1>1, <1>2, <1>6, <1>12 DEF IdentityTypes
<1>14. CreationsMatch'
    <2>1. \A i \in DOMAIN audits' : IsCreation(i)' =>
             i \in DOMAIN audits /\ audits'[i] = audits[i] /\ IsCreation(i)
        BY <1>6, <1>8 DEF IsCreation, Appended
    <2>2. QED
        BY <1>1, <1>11, <1>12, <2>1 DEF CreationsMatch
<1>15. ASSUME NEW u \in TicketIds, tickets'[u] # NoTicket
       PROVE  TicketOK(u)'
    <2>1. CASE u # t
        BY <1>6, <1>12, <1>15, <2>1, TicketKept DEF IdentityInv
    <2>2. CASE u = t
        <3>1. tickets[t] # NoTicket /\ TicketOK(t)
            BY <1>3, EmptyTablesAssumption DEF IdentityInv
        <3>2. CreatedBy(t)' = CreatedBy(t)
            BY <1>4, <1>10, <1>12 DEF CreatedBy
        <3>3. \E i \in DOMAIN audits' : audits'[i] = CreatedBy(t)'
            BY <1>6, <3>1, <3>2 DEF TicketOK, Appended
        <3>4. \E i \in DOMAIN audits' : audits'[i] = ProvisionedBy(t)'
            BY <1>9, <1>10, <1>12 DEF ProvisionedBy, ProvisionAudit
        <3>5. Len(agents) + 1 \in DOMAIN agents' /\ agents'[Len(agents) + 1].at = now
            BY <1>7 DEF AgentRow
        <3>6. QED
            BY <1>3, <1>10, <1>12, <2>2, <3>3, <3>4, <3>5 DEF TicketOK
    <2>3. QED
        BY <2>1, <2>2
<1>16. ASSUME NEW n \in DOMAIN agents'
       PROVE  AgentOK(n)'
    <2>1. CASE n \in DOMAIN agents
        <3>1. AgentOK(n) /\ agents'[n] = agents[n] /\ n # 0
            BY <1>6, <1>7, <2>1 DEF IdentityInv, Appended
        <3>2. agents[n].ticket \in TicketIds \cup {NoTicket}
            BY <1>1, <2>1, AgentTyped
        <3>3. tickets[t].credential = 0
            BY <1>3, EmptyTablesAssumption DEF IdentityInv, TicketOK
        <3>4. agents[n].ticket # NoTicket => agents[n].ticket # t
            BY <3>1, <3>3 DEF AgentOK
        <3>5. QED
            BY <1>12, <3>1, <3>2, <3>4 DEF AgentOK
    <2>2. CASE n \notin DOMAIN agents
        <3>1. n = Len(agents) + 1
            BY <1>7, <2>2
        <3>2. QED
            BY <1>7, <1>10, <1>11, <1>12, <3>1 DEF AgentOK, AgentRow
    <2>3. QED
        BY <2>1, <2>2
<1>17. QED
    BY <1>6, <1>13, <1>14, <1>15, <1>16 DEF IdentityInv

LEMMA IdentityInvHolds == IdentitySpec => []IdentityInv
<1>1. IdentityInit => IdentityInv
    <2> SUFFICES ASSUME IdentityInit
                 PROVE  IdentityInv
        OBVIOUS
    <2>1. IdentityTypes
        BY FS_EmptySet DEF IdentityInit, IdentityTypes
    <2>2. DOMAIN audits = {} /\ DOMAIN agents = {} /\ ~ HasIdentity
          /\ \A t \in TicketIds : tickets[t] = NoTicket
        BY DEF IdentityInit, HasIdentity
    <2>3. QED
        BY <2>1, <2>2 DEF IdentityInv, RequireMasterIdentity, AuditsCurrent,
           GenerationsAscend, CreationsMatch
<1>2. ASSUME IdentityInv, [IdentityNext]_identityVars
      PROVE  IdentityInv'
    <2>1. ASSUME NEW now \in Clocks, IssueSetup(now) \/ IssueMaster(now)
          PROVE  IdentityInv'
        BY <1>2, <2>1, CookiesKept DEF IssueSetup, IssueMaster
    <2>2. ASSUME NEW token \in Tokens, SignIn(token)
          PROVE  IdentityInv'
        BY <1>2, <2>2, CookiesKept DEF SignIn
    <2>3. CASE UNCHANGED identityVars
        BY <1>2, <2>3, CookiesKept DEF identityVars
    <2>4. ASSUME NEW token \in Tokens, NEW now \in Clocks,
                 LocalInitialize(token, now) \/ LocalRecover(token, now)
                    \/ \E former \in Tokens : LocalRotate(former, token, now)
          PROVE  IdentityInv'
        BY <1>2, <2>4, LocalKept
    <2>5. QED
        BY <1>2, <2>1, <2>2, <2>3, <2>4, ProvisionInConsoleKept, CreateTicketKept,
           RedeemKept, InitializeKept, RotateMasterKept DEF IdentityNext
<1>3. QED
    BY <1>1, <1>2, PTL DEF IdentitySpec

\* For any number of sessions, tickets, rotations and recoveries, and whatever
\* clock each transaction reads: once a later generation of the master token
\* has acted, nothing acts in the name of an earlier one.
THEOREM GenerationsOnlyAscend == IdentitySpec => []GenerationsAscend
BY IdentityInvHolds, PTL DEF IdentityInv

\* An onboarding ticket buys at most one Agent, the one its row records, and
\* the backup validator accepts the history of the tickets at any time.
THEOREM TicketBuysOneAgent == IdentitySpec => []TicketsBuyOneAgent
<1>1. ASSUME IdentityInv, NEW t \in TicketIds, tickets[t] # NoTicket
      PROVE  Cardinality(CreationAudits(t)) = 1
    <2>1. PICK i \in DOMAIN audits : audits[i] = CreatedBy(t)
        BY <1>1 DEF IdentityInv, TicketOK
    <2>2. i \in CreationAudits(t)
        BY <2>1 DEF CreationAudits, CreatedBy
    <2>3. \A j \in CreationAudits(t) : j = i
        BY <1>1, <2>2 DEF CreationAudits, IdentityInv, CreationsMatch, IsCreation
    <2>4. CreationAudits(t) = {i}
        BY <2>2, <2>3
    <2>5. QED
        BY <2>4, FS_Singleton
<1>2. ASSUME IdentityInv
      PROVE  RequireOnboardingTickets
    <2>1. \A t \in TicketIds : tickets[t] # NoTicket => TicketOK(t)
        BY <1>2 DEF IdentityInv
    <2>2. QED
        BY <1>1, <1>2, <2>1 DEF RequireOnboardingTickets, IdentityInv, CreationsMatch,
           IsCreation, TicketOK, ProvisionedBy
<1>3. IdentityInv => TicketsBuyOneAgent
    BY <1>2 DEF TicketsBuyOneAgent, IdentityInv, AgentOK
<1>4. QED
    BY <1>3, IdentityInvHolds, PTL

-----------------------------------------------------------------------------
(* The backup command.                                                     *)

Finished == {"done", "reported", "unreported"}
Steps == Preparing \cup Publishing \cup Clearing \cup Finished
            \cup {"start", "failed", "dead", "remove bundle", "unlink", "remove target"}

\* Stages of a creator that has made the bundle directory and may still
\* withdraw it, and of a restorer that has placed the destination.
Owning == Publishing \cup Finished \cup {"clear", "remove bundle", "unlink"}
Placing == Finished \cup {"identify", "clear", "remove target"}

\* Stages before the bundle directory is made.
Early == {"start", "copy", "reset", "validate", "seal", "mkdir"}

\* What the file a command writes may hold: a copy on its way to a backup, or the
\* database a restorer found in the bundle directory.
Contents == {"none", "partial", "copied", "portable", "valid"} \cup Creators \cup {Somebody}

BundleTypes ==
    /\ step \in [Work -> Steps]
    /\ temp \in [Work -> (SUBSET Names) \cup {Absent}]
    /\ data \in [Work -> Contents]
    /\ bundle \in Bundles \cup {Absent}
    /\ source \in [Restorers -> Creators \cup {Absent}]
    /\ target \in Targets \cup {Absent}
    /\ scanned \in [Work -> SUBSET Names]
    /\ \A w \in Work : step[w] \notin Finished \cup {"start", "failed", "dead"} =>
          temp[w] \in SUBSET Names

\* The database of creator p was validated, and restorer r may use it.
ValidFor(p, r) == p \in Creators /\ data[p] = "valid" /\ VersionOf[p] = VersionOf[r]

\* The directory belongs to the creator that made it until he removes it, and
\* holds a validated database.
CreatorOK(p) ==
    /\ step[p] = "reset" => data[p] # "valid"
    /\ step[p] \in {"seal", "mkdir"} => data[p] = "valid"
    /\ step[p] \in Owning => bundle # Absent /\ bundle.owner = p
    /\ step[p] = "link manifest" => "database" \in bundle.entries
    /\ step[p] \in Finished \cup {"list", "clear"} => bundle.entries = Names
    /\ step[p] \in Finished => temp[p] = Absent
    /\ bundle # Absent /\ bundle.owner = p => data[p] = "valid" /\ step[p] \notin Early

\* What a restorer links was copied from the bundle whose manifest it read.
RestorerOK(r) ==
    /\ step[r] \in {"copy bundle", "link target"} => ValidFor(source[r], r)
    /\ step[r] = "link target" => data[r] = source[r]
    /\ step[r] \in Placing => target # Absent /\ target.owner = r

TargetOK == target # Absent /\ target.owner # Somebody => ValidFor(target.of, target.owner)

BundleInv ==
    /\ BundleTypes
    /\ \A p \in Creators : CreatorOK(p)
    /\ \A r \in Restorers : RestorerOK(r)
    /\ TargetOK

LEMMA BundleStart == BundleInit => BundleInv
<1> SUFFICES ASSUME BundleInit
             PROVE  BundleInv
    OBVIOUS
<1>1. \A w \in Work : step[w] = "start"
    BY DEF BundleInit
<1>2. BundleTypes
    <2>1. "start" \in Steps /\ "start" \in Finished \cup {"start", "failed", "dead"}
        BY DEF Steps
    <2>2. QED
        BY <1>1, <2>1 DEF BundleInit, BundleTypes, Contents
<1>3. \A p \in Creators : CreatorOK(p)
    BY <1>1 DEF BundleInit, CreatorOK, Finished, Owning, Publishing, Work
<1>4. \A r \in Restorers : RestorerOK(r)
    BY <1>1 DEF RestorerOK, Placing, Finished, Work
<1>5. QED
    BY <1>2, <1>3, <1>4 DEF BundleInv, TargetOK, BundleInit

\* A step of one command that leaves the bundle directory and the destination
\* alone is looked at where it happens.
LEMMA LocalStepKept ==
    ASSUME BundleInv, NEW w \in Work, BundleTypes', UNCHANGED <<bundle, target>>,
           \A v \in Work \ {w} : step'[v] = step[v] /\ temp'[v] = temp[v] /\ data'[v] = data[v],
           \A r \in Restorers \ {w} : source'[r] = source[r],
           w \in Creators /\ data[w] = "valid" => data'[w] = "valid",
           w \in Creators => CreatorOK(w)',
           w \in Restorers => RestorerOK(w)'
    PROVE  BundleInv'
<1>1. \A p \in Creators : data[p] = "valid" => data'[p] = "valid"
    BY DEF Work
<1>2. ASSUME NEW p \in Creators
      PROVE  CreatorOK(p)'
    BY <1>2 DEF BundleInv, CreatorOK, Work
<1>3. ASSUME NEW r \in Restorers
      PROVE  RestorerOK(r)'
    <2>1. CASE r = w
        BY <2>1
    <2>2. CASE r # w
        <3>1. data'[r] = data[r] /\ step'[r] = step[r] /\ source'[r] = source[r]
            BY <2>2 DEF Work
        <3>2. RestorerOK(r)
            BY DEF BundleInv
        <3>3. QED
            BY <1>1, <3>1, <3>2 DEF RestorerOK, ValidFor
    <2>3. QED
        BY <2>1, <2>2
<1>4. TargetOK'
    BY <1>1 DEF BundleInv, TargetOK, ValidFor
<1>5. QED
    BY <1>2, <1>3, <1>4 DEF BundleInv

\* The directory changes under its owner's hand, or by somebody's new entry:
\* what restorers rely on are the files that were validated, not the directory.
LEMMA BundleStepKept ==
    ASSUME BundleInv, BundleTypes', UNCHANGED <<temp, data, source, target>>,
           \A r \in Restorers : step'[r] = step[r],
           \A p \in Creators : CreatorOK(p)'
    PROVE  BundleInv'
<1>1. \A r \in Restorers : RestorerOK(r)'
    BY DEF BundleInv, RestorerOK, ValidFor
<1>2. TargetOK'
    BY DEF BundleInv, TargetOK, ValidFor
<1>3. QED
    BY <1>1, <1>2 DEF BundleInv

\* What any command may do: fail, be interrupted, die, clear its directory.
\* None of it re-enters a stage that claims more than the stage it left.
LEMMA AnyCommandKept ==
    ASSUME BundleInv, NEW w \in Work,
           \/ Refuse(w) \/ Fail(w) \/ Interrupt(w) \/ Die(w) \/ Deliver(w)
           \/ ClearTemp(w) \/ ClearFails(w)
    PROVE  BundleInv'
<1>1. /\ UNCHANGED <<data, bundle, source, target, scanned>>
      /\ step \in [Work -> Steps] /\ temp \in [Work -> (SUBSET Names) \cup {Absent}]
      /\ step[w] \notin Finished \cup {"start", "failed", "dead"} => temp[w] \in SUBSET Names
    BY DEF Refuse, Fail, Interrupt, Die, Deliver, ClearTemp, ClearFails, BundleInv, BundleTypes
<1>2. ASSUME NEW s \in Steps, step' = [step EXCEPT ![w] = s], temp' = temp,
             s \in Finished \cup {"failed", "dead"} \/ temp[w] \in SUBSET Names,
             w \in Creators => CreatorOK(w)', w \in Restorers => RestorerOK(w)'
      PROVE  BundleInv'
    <2>1. BundleTypes'
        BY <1>1, <1>2 DEF BundleInv, BundleTypes
    <2>2. QED
        BY <1>1, <1>2, <2>1, LocalStepKept
<1>3. ASSUME NEW s \in {"failed", "clear failed", "dead"}, step' = [step EXCEPT ![w] = s],
             temp' = temp, s # "clear failed" \/ temp[w] \in SUBSET Names
      PROVE  BundleInv'
    <2>1. step'[w] = s
        BY <1>1, <1>3
    <2>2. w \in Creators => CreatorOK(w)'
        BY <1>1, <1>3, <2>1 DEF BundleInv, CreatorOK, Finished, Owning, Publishing, Early
    <2>3. w \in Restorers => RestorerOK(w)'
        BY <1>1, <1>3, <2>1 DEF RestorerOK, Placing, Finished
    <2>4. s \in Steps
        BY <1>3 DEF Steps, Clearing
    <2>5. QED
        BY <1>2, <1>3, <2>2, <2>3, <2>4
<1>4. CASE Refuse(w) \/ Interrupt(w) \/ Die(w)
    BY <1>1, <1>3, <1>4 DEF Refuse, Interrupt, Die, Goto, Publishing, Finished
<1>5. CASE Fail(w)
    <2>1. CASE step[w] \in Publishing
        <3>1. step' = [step EXCEPT ![w] = "remove bundle"] /\ temp' = temp
              /\ step'[w] = "remove bundle" /\ "remove bundle" \in Steps
            BY <1>1, <1>5, <2>1 DEF Fail, Goto, Steps
        <3>2. temp[w] \in SUBSET Names
            BY <1>1, <2>1 DEF Publishing, Finished
        <3>3. w \in Creators => CreatorOK(w)'
            BY <1>1, <2>1, <3>1 DEF BundleInv, CreatorOK, Finished, Owning, Publishing, Early
        <3>4. w \in Restorers => RestorerOK(w)'
            BY <3>1 DEF RestorerOK, Placing, Finished
        <3>5. QED
            BY <1>2, <3>1, <3>2, <3>3, <3>4
    <2>2. CASE step[w] \notin Publishing
        BY <1>1, <1>3, <1>5, <2>2 DEF Fail, Goto, Publishing, Preparing, Finished
    <2>3. QED
        BY <2>1, <2>2
<1>6. CASE Deliver(w)
    <2>1. PICK s \in {"reported", "unreported"} : step' = [step EXCEPT ![w] = s]
        BY <1>6 DEF Deliver, Goto
    <2>2. step'[w] = s /\ s \in Steps /\ s \in Finished /\ temp' = temp /\ step[w] = "done"
        BY <1>1, <1>6, <2>1 DEF Deliver, Steps, Finished
    <2>3. w \in Creators => CreatorOK(w)'
        BY <1>1, <2>1, <2>2 DEF BundleInv, CreatorOK, Finished, Owning, Publishing, Early
    <2>4. w \in Restorers => RestorerOK(w)'
        BY <1>1, <2>1, <2>2 DEF BundleInv, RestorerOK, Placing, Finished
    <2>5. QED
        BY <1>2, <2>1, <2>2, <2>3, <2>4
<1>7. CASE ClearTemp(w)
    <2>1. step[w] \in {"clear", "clear failed"} /\ temp[w] \in SUBSET Names
        BY <1>1, <1>7 DEF ClearTemp, Clearing, Finished
    <2>2. CASE temp[w] = {}
        <3>1. /\ temp' = [temp EXCEPT ![w] = Absent] /\ temp'[w] = Absent
              /\ step' = [step EXCEPT ![w] = IF step[w] = "clear" THEN "done" ELSE "failed"]
              /\ step'[w] = IF step[w] = "clear" THEN "done" ELSE "failed"
            BY <1>1, <1>7, <2>2 DEF ClearTemp, Goto, AfterClear
        <3>2. BundleTypes'
            BY <1>1, <3>1 DEF BundleInv, BundleTypes, Steps, Finished
        <3>3. w \in Creators => CreatorOK(w)'
            BY <1>1, <2>1, <3>1
               DEF BundleInv, CreatorOK, Finished, Owning, Publishing, Early
        <3>4. w \in Restorers => RestorerOK(w)'
            BY <1>1, <2>1, <3>1 DEF BundleInv, RestorerOK, Placing, Finished
        <3>5. QED
            BY <1>1, <3>1, <3>2, <3>3, <3>4, LocalStepKept
    <2>3. CASE temp[w] # {}
        <3>1. PICK name \in temp[w] : temp' = [temp EXCEPT ![w] = @ \ {name}]
            BY <1>7, <2>3 DEF ClearTemp
        <3>2. step' = step
            BY <1>7, <2>3 DEF ClearTemp
        <3>3. BundleTypes'
            BY <1>1, <2>1, <3>1, <3>2 DEF BundleInv, BundleTypes
        <3>4. w \in Creators => CreatorOK(w)'
            BY <1>1, <2>1, <3>2 DEF BundleInv, CreatorOK, Finished
        <3>5. w \in Restorers => RestorerOK(w)'
            BY <1>1, <3>2 DEF BundleInv, RestorerOK, ValidFor
        <3>6. QED
            BY <1>1, <3>1, <3>2, <3>3, <3>4, <3>5, LocalStepKept
    <2>4. QED
        BY <2>2, <2>3
<1>8. CASE ClearFails(w)
    <2>1. step[w] \in {"clear", "clear failed"} /\ temp[w] \in SUBSET Names /\ temp' = temp
        BY <1>1, <1>8 DEF ClearFails, Clearing, Finished
    <2>2. CASE step[w] = "clear failed"
        BY <1>1, <1>3, <1>8, <2>1, <2>2 DEF ClearFails, Goto
    <2>3. CASE step[w] = "clear" /\ w \in Creators
        <3>1. step' = [step EXCEPT ![w] = "remove bundle"] /\ step'[w] = "remove bundle"
              /\ "remove bundle" \in Steps
            BY <1>1, <1>8, <2>3 DEF ClearFails, Goto, Steps
        <3>2. CreatorOK(w)'
            BY <1>1, <2>3, <3>1 DEF BundleInv, CreatorOK, Finished, Owning, Publishing, Early
        <3>3. QED
            BY <1>2, <2>1, <2>3, <3>1, <3>2, BackupAssumption
    <2>4. CASE step[w] = "clear" /\ w \in Restorers
        <3>1. step' = [step EXCEPT ![w] = "remove target"] /\ step'[w] = "remove target"
              /\ "remove target" \in Steps /\ w \notin Creators
            BY <1>1, <1>8, <2>4, BackupAssumption DEF ClearFails, Goto, Steps
        <3>2. RestorerOK(w)'
            BY <1>1, <2>4, <3>1 DEF BundleInv, RestorerOK, Placing, Finished
        <3>3. QED
            BY <1>2, <2>1, <3>1, <3>2
    <2>5. QED
        BY <2>1, <2>2, <2>3, <2>4 DEF Work
<1>9. QED
    BY <1>4, <1>5, <1>6, <1>7, <1>8

\* A creator before it makes the directory, and when it looks at it: the
\* database it will publish is validated before the directory exists.
LEMMA CreateKept ==
    ASSUME BundleInv, NEW p \in Creators,
           \/ StartCreate(p) \/ OpenCopy(p) \/ SqliteBackup(p) \/ ResetSearch(p)
           \/ Validate(p) \/ WriteManifest(p) \/ CheckPublished(p) \/ ScanBundle(p)
           \/ UnlinkFails(p)
    PROVE  BundleInv'
<1>1. /\ p \in Work /\ p \notin Restorers
      /\ step \in [Work -> Steps] /\ temp \in [Work -> (SUBSET Names) \cup {Absent}]
      /\ data \in [Work -> Contents]
      /\ scanned \in [Work -> SUBSET Names]
      /\ step[p] \notin Finished \cup {"start", "failed", "dead"} => temp[p] \in SUBSET Names
    BY BackupAssumption DEF Work, BundleInv, BundleTypes
<1>2. CASE StartCreate(p)
    <2>1. /\ step[p] = "start" /\ step' = [step EXCEPT ![p] = "copy"] /\ step'[p] = "copy"
          /\ data' = data
          /\ temp' = [temp EXCEPT ![p] = {}] /\ {} \in SUBSET Names
          /\ scanned' = scanned
        BY <1>1, <1>2 DEF StartCreate, Goto, Names, Finished
    <2>2. BundleTypes'
        BY <1>1, <1>2, <2>1 DEF StartCreate, BundleInv, BundleTypes, Finished,
           Steps, Preparing, Clearing, Publishing
    <2>3. CreatorOK(p)'
        BY <1>1, <1>2, <2>1 DEF StartCreate, BundleInv, CreatorOK,
           Finished, Owning, Publishing, Early
    <2>4. QED
        BY <1>1, <1>2, <2>1, <2>2, <2>3, LocalStepKept DEF StartCreate
<1>3. CASE OpenCopy(p)
    <2>1. /\ step[p] = "copy" /\ step' = step /\ scanned' = scanned
          /\ data' = [data EXCEPT ![p] = "partial"] /\ data[p] = "none"
          /\ temp[p] \in SUBSET Names
          /\ temp' = [temp EXCEPT ![p] = temp[p] \cup {"database"}]
          /\ temp[p] \cup {"database"} \in SUBSET Names
        BY <1>1, <1>3 DEF OpenCopy, Names, Finished
    <2>2. BundleTypes'
        BY <1>1, <1>3, <2>1 DEF OpenCopy, BundleInv, BundleTypes, Contents
    <2>3. CreatorOK(p)'
        BY <1>1, <1>3, <2>1 DEF OpenCopy, BundleInv, CreatorOK,
           Finished, Owning, Publishing, Early
    <2>4. QED
        BY <1>1, <1>3, <2>1, <2>2, <2>3, LocalStepKept DEF OpenCopy
<1>4. CASE SqliteBackup(p)
    <2>1. /\ step[p] = "copy" /\ step' = [step EXCEPT ![p] = "reset"] /\ step'[p] = "reset"
          /\ data' = [data EXCEPT ![p] = "copied"] /\ data'[p] = "copied"
          /\ temp' = temp /\ temp[p] \in SUBSET Names
          /\ scanned' = scanned
        BY <1>1, <1>4 DEF SqliteBackup, Goto, Names, Finished
    <2>2. BundleTypes'
        BY <1>1, <1>4, <2>1 DEF SqliteBackup, BundleInv, BundleTypes, Contents, Finished,
           Steps, Preparing, Clearing, Publishing
    <2>3. CreatorOK(p)'
        BY <1>1, <1>4, <2>1 DEF SqliteBackup, BundleInv, CreatorOK,
           Finished, Owning, Publishing, Early
    <2>4. QED
        BY <1>1, <1>4, <2>1, <2>2, <2>3, LocalStepKept DEF SqliteBackup
<1>5. CASE ResetSearch(p)
    <2>1. /\ step[p] = "reset" /\ step' = [step EXCEPT ![p] = "validate"] /\ step'[p] = "validate"
          /\ data' = [data EXCEPT ![p] = "portable"] /\ data'[p] = "portable"
          /\ temp' = temp /\ temp[p] \in SUBSET Names
          /\ scanned' = scanned
        BY <1>1, <1>5 DEF ResetSearch, Goto, Names, Finished
    <2>2. BundleTypes'
        BY <1>1, <1>5, <2>1 DEF ResetSearch, BundleInv, BundleTypes, Contents, Finished,
           Steps, Preparing, Clearing, Publishing
    <2>3. CreatorOK(p)'
        BY <1>1, <1>5, <2>1 DEF ResetSearch, BundleInv, CreatorOK,
           Finished, Owning, Publishing, Early
    <2>4. QED
        <3>1. data[p] # "valid"
            BY <2>1 DEF BundleInv, CreatorOK
        <3>2. QED
            BY <1>1, <1>5, <2>1, <2>2, <2>3, <3>1, LocalStepKept DEF ResetSearch
<1>6. CASE Validate(p)
    <2>1. /\ step[p] = "validate" /\ step' = [step EXCEPT ![p] = "seal"] /\ step'[p] = "seal"
          /\ data' = [data EXCEPT ![p] = "valid"] /\ data'[p] = "valid"
          /\ temp' = temp /\ temp[p] \in SUBSET Names
          /\ scanned' = scanned
        BY <1>1, <1>6 DEF Validate, Goto, Names, Finished
    <2>2. BundleTypes'
        BY <1>1, <1>6, <2>1 DEF Validate, BundleInv, BundleTypes, Contents, Finished,
           Steps, Preparing, Clearing, Publishing
    <2>3. CreatorOK(p)'
        BY <1>1, <1>6, <2>1 DEF Validate, BundleInv, CreatorOK,
           Finished, Owning, Publishing, Early
    <2>4. QED
        BY <1>1, <1>6, <2>1, <2>2, <2>3, LocalStepKept DEF Validate
<1>7. CASE WriteManifest(p)
    <2>1. /\ step[p] = "seal" /\ step' = [step EXCEPT ![p] = "mkdir"] /\ step'[p] = "mkdir"
          /\ data' = data
          /\ temp' = [temp EXCEPT ![p] = temp[p] \cup {"manifest"}] /\ temp[p] \cup {"manifest"} \in SUBSET Names
          /\ scanned' = scanned
        BY <1>1, <1>7 DEF WriteManifest, Goto, Names, Finished
    <2>2. BundleTypes'
        BY <1>1, <1>7, <2>1 DEF WriteManifest, BundleInv, BundleTypes, Finished,
           Steps, Preparing, Clearing, Publishing
    <2>3. CreatorOK(p)'
        BY <1>1, <1>7, <2>1 DEF WriteManifest, BundleInv, CreatorOK,
           Finished, Owning, Publishing, Early
    <2>4. QED
        BY <1>1, <1>7, <2>1, <2>2, <2>3, LocalStepKept DEF WriteManifest
<1>8. CASE CheckPublished(p)
    <2>1. PICK s \in {"clear", "remove bundle"} : step' = [step EXCEPT ![p] = s]
        BY <1>8 DEF CheckPublished, Goto
    <2>2. step[p] = "list" /\ step'[p] = s /\ temp[p] \in SUBSET Names /\ s \in Steps
        BY <1>1, <1>8, <2>1 DEF CheckPublished, Finished, Steps, Clearing
    <2>3. BundleTypes'
        BY <1>1, <1>8, <2>1, <2>2 DEF CheckPublished, BundleInv, BundleTypes
    <2>4. bundle.entries = Names
        BY <2>2 DEF BundleInv, CreatorOK
    <2>5. CreatorOK(p)'
        BY <1>1, <1>8, <2>1, <2>2, <2>4
           DEF CheckPublished, BundleInv, CreatorOK, Finished, Owning, Publishing, Early
    <2>6. QED
        BY <1>1, <1>8, <2>1, <2>3, <2>5, LocalStepKept DEF CheckPublished
<1>9. CASE ScanBundle(p) \/ UnlinkFails(p)
    <2>1. PICK s \in {"unlink", "clear failed", "remove bundle"} :
              step' = [step EXCEPT ![p] = s]
        BY <1>9 DEF ScanBundle, UnlinkFails, Goto
    <2>2. /\ step[p] \in {"remove bundle", "unlink"} /\ step'[p] = s
          /\ temp[p] \in SUBSET Names /\ s \in Steps
        BY <1>1, <1>9, <2>1 DEF ScanBundle, UnlinkFails, Finished, Steps, Clearing
    <2>3. scanned' \in [Work -> SUBSET Names]
        BY <1>1, <1>9 DEF ScanBundle, UnlinkFails, Known
    <2>4. BundleTypes'
        BY <1>1, <1>9, <2>1, <2>2, <2>3 DEF ScanBundle, UnlinkFails, BundleInv, BundleTypes
    <2>5. CreatorOK(p)'
        BY <1>1, <1>9, <2>1, <2>2
           DEF ScanBundle, UnlinkFails, BundleInv, CreatorOK, Finished, Owning, Publishing, Early
    <2>6. QED
        BY <1>1, <1>9, <2>1, <2>4, <2>5, LocalStepKept DEF ScanBundle, UnlinkFails
<1>10. QED
    BY <1>2, <1>3, <1>4, <1>5, <1>6, <1>7, <1>8, <1>9

\* The directory itself: made where none was, filled and emptied by the creator
\* that made it, added to by somebody else.
LEMMA DirectoryKept ==
    ASSUME BundleInv, NEW p \in Creators,
           \/ MakeBundle(p) \/ LinkDatabase(p) \/ LinkManifest(p)
           \/ UnlinkEntry(p) \/ RemoveDirectory(p)
    PROVE  BundleInv'
<1>1. /\ p \in Work /\ p \notin Restorers
      /\ step \in [Work -> Steps]
      /\ bundle \in Bundles \cup {Absent}
      /\ step[p] \notin Finished \cup {"start", "failed", "dead"} => temp[p] \in SUBSET Names
    BY BackupAssumption DEF Work, BundleInv, BundleTypes
<1>2. UNCHANGED <<temp, data, source, target>>
    BY DEF MakeBundle, LinkDatabase, LinkManifest, UnlinkEntry, RemoveDirectory
<1>3. \A q \in Creators : CreatorOK(q)
    BY DEF BundleInv
<1>4. ASSUME step[p] \in {"link database", "link manifest", "unlink"},
             bundle' \in Bundles, bundle'.owner = bundle.owner, scanned' \in [Work -> SUBSET Names],
             NEW s \in {"link manifest", "list", "unlink", "remove bundle"},
             step' = [step EXCEPT ![p] = s],
             s = "link manifest" => "database" \in bundle'.entries,
             s = "list" => bundle'.entries = Names
      PROVE  BundleInv'
    <2>1. bundle # Absent /\ bundle.owner = p /\ bundle' # Absent /\ step'[p] = s
        BY <1>1, <1>3, <1>4, AbsentAssumption DEF CreatorOK, Owning, Publishing
    <2>2. s \in Steps /\ s \notin Finished \cup Early \cup {"clear"} /\ s \in Owning
        BY <1>4 DEF Steps, Finished, Early, Owning, Publishing
    <2>3. BundleTypes'
        BY <1>1, <1>2, <1>4, <2>2 DEF BundleInv, BundleTypes, Finished
    <2>4. ASSUME NEW q \in Creators
          PROVE  CreatorOK(q)'
        <3>1. CASE q = p
            BY <1>1, <1>2, <1>3, <1>4, <2>1, <2>2, <3>1 DEF CreatorOK, Early
        <3>2. CASE q # p
            <4>1. step'[q] = step[q] /\ step[q] \notin Owning
                BY <1>1, <1>3, <1>4, <2>1, <3>2 DEF CreatorOK, Work
            <4>2. QED
                BY <1>2, <1>3, <1>4, <2>1, <3>2, <4>1 DEF CreatorOK, Owning, Publishing
        <3>3. QED
            BY <3>1, <3>2
    <2>5. \A r \in Restorers : step'[r] = step[r]
        BY <1>1, <1>4 DEF Work
    <2>6. QED
        BY <1>2, <2>3, <2>4, <2>5, BundleStepKept
<1>5. CASE MakeBundle(p)
    <2>1. /\ step[p] = "mkdir" /\ bundle = Absent /\ scanned' = scanned
          /\ step' = [step EXCEPT ![p] = "link database"] /\ step'[p] = "link database"
          /\ bundle' = [owner |-> p, entries |-> {}, foreign |-> {}]
        BY <1>1, <1>5 DEF MakeBundle, NewDirectory, Goto
    <2>2. bundle' \in Bundles /\ bundle' # Absent /\ bundle'.owner = p
        <3>1. bundle' \in Bundles /\ bundle'.owner = p
            BY <2>1 DEF Bundles
        <3>2. QED
            BY <3>1, AbsentAssumption
    <2>3. BundleTypes'
        BY <1>1, <1>2, <2>1, <2>2
           DEF BundleInv, BundleTypes, Finished, Steps, Publishing
    <2>4. ASSUME NEW q \in Creators
          PROVE  CreatorOK(q)'
        <3>1. CASE q = p
            BY <1>2, <1>3, <2>1, <2>2, <3>1
               DEF CreatorOK, Early, Owning, Finished, Publishing
        <3>2. CASE q # p
            <4>1. step'[q] = step[q] /\ step[q] \notin Owning
                BY <1>1, <1>3, <2>1, <3>2 DEF CreatorOK, Work
            <4>2. QED
                BY <1>2, <1>3, <2>2, <3>2, <4>1 DEF CreatorOK, Owning, Publishing
        <3>3. QED
            BY <3>1, <3>2
    <2>5. \A r \in Restorers : step'[r] = step[r]
        BY <1>1, <2>1 DEF Work
    <2>6. QED
        BY <1>2, <2>3, <2>4, <2>5, BundleStepKept
<1>6. CASE LinkDatabase(p) \/ LinkManifest(p)
    <2>1. PICK s \in {"link manifest", "list"} : step' = [step EXCEPT ![p] = s]
        BY <1>6 DEF LinkDatabase, LinkManifest, Goto
    <2>2. /\ step[p] \in {"link database", "link manifest"} /\ bundle # Absent
          /\ step[p] = "link manifest" => "database" \in bundle.entries
          /\ bundle \in Bundles
        BY <1>1, <1>3, <1>6 DEF LinkDatabase, LinkManifest, CreatorOK, Owning, Publishing
    <2>3. PICK name \in Names :
              /\ bundle' = [bundle EXCEPT !.entries = bundle.entries \cup {name}]
              /\ step[p] = "link database" => name = "database"
              /\ step[p] = "link manifest" => name = "manifest"
        BY <1>6 DEF LinkDatabase, LinkManifest, Link, Names
    <2>4. /\ bundle' \in Bundles /\ bundle'.owner = bundle.owner
          /\ bundle'.entries = bundle.entries \cup {name} /\ bundle'.entries \in SUBSET Names
        BY <2>2, <2>3 DEF Bundles
    <2>5. step'[p] = s /\ (s = "list" <=> step[p] = "link manifest")
        BY <1>1, <1>6, <2>1 DEF LinkDatabase, LinkManifest, Goto
    <2>6. /\ s = "link manifest" => "database" \in bundle'.entries
          /\ s = "list" => bundle'.entries = Names
        BY <2>1, <2>2, <2>3, <2>4, <2>5 DEF Names
    <2>7. scanned' \in [Work -> SUBSET Names]
        BY <1>6 DEF LinkDatabase, LinkManifest, BundleInv, BundleTypes
    <2>8. QED
        BY <1>4, <2>1, <2>2, <2>4, <2>6, <2>7
<1>7. CASE UnlinkEntry(p)
    <2>1. step[p] = "unlink" /\ bundle # Absent /\ step' = [step EXCEPT ![p] = "unlink"]
        BY <1>1, <1>7 DEF UnlinkEntry
    <2>2. bundle' \in Bundles /\ bundle'.owner = bundle.owner
        BY <1>1, <1>7, <2>1 DEF UnlinkEntry, Bundles
    <2>3. scanned' \in [Work -> SUBSET Names]
        BY <1>1, <1>7 DEF UnlinkEntry, BundleInv, BundleTypes
    <2>4. QED
        BY <1>4, <2>1, <2>2, <2>3
<1>8. CASE RemoveDirectory(p)
    <2>1. PICK s \in {"clear failed", "remove bundle"} :
              /\ step' = [step EXCEPT ![p] = s]
              /\ bundle' = IF s = "clear failed" THEN Absent ELSE bundle
        BY <1>8 DEF RemoveDirectory, Goto
    <2>2. /\ step[p] = "unlink" /\ bundle # Absent /\ bundle.owner = p /\ scanned' = scanned
          /\ step'[p] = s /\ s \in Steps
        BY <1>1, <1>3, <1>8, <2>1 DEF RemoveDirectory, CreatorOK, Owning, Steps, Clearing
    <2>3. BundleTypes'
        BY <1>1, <1>2, <2>1, <2>2 DEF BundleInv, BundleTypes, Finished
    <2>4. ASSUME NEW q \in Creators
          PROVE  CreatorOK(q)'
        <3>1. CASE q = p
            BY <1>2, <1>3, <2>1, <2>2, <3>1
               DEF CreatorOK, Early, Owning, Finished, Publishing
        <3>2. CASE q # p
            <4>1. step'[q] = step[q] /\ step[q] \notin Owning
                BY <1>1, <1>3, <2>1, <2>2, <3>2 DEF CreatorOK, Work
            <4>2. QED
                BY <1>2, <1>3, <2>1, <2>2, <3>2, <4>1 DEF CreatorOK, Owning, Publishing
        <3>3. QED
            BY <3>1, <3>2
    <2>5. \A r \in Restorers : step'[r] = step[r]
        BY <1>1, <2>1, <2>2 DEF Work
    <2>6. QED
        BY <1>2, <2>3, <2>4, <2>5, BundleStepKept
<1>9. QED
    BY <1>5, <1>6, <1>7, <1>8

\* A restorer copies the database its manifest binds, whichever bundle stands
\* at the path meanwhile, and places it where nothing was.
LEMMA RestoreKept ==
    ASSUME BundleInv, NEW r \in Restorers,
           \/ StartRestore(r) \/ CopyPart(r) \/ CopyVerified(r) \/ LinkTarget(r)
           \/ IdentifyTarget(r) \/ RemoveTarget(r)
    PROVE  BundleInv'
<1>1. /\ r \in Work /\ r \notin Creators
      /\ step \in [Work -> Steps] /\ temp \in [Work -> (SUBSET Names) \cup {Absent}]
      /\ data \in [Work -> Contents]
      /\ source \in [Restorers -> Creators \cup {Absent}]
      /\ bundle \in Bundles \cup {Absent} /\ target \in Targets \cup {Absent}
      /\ step[r] \notin Finished \cup {"start", "failed", "dead"} => temp[r] \in SUBSET Names
      /\ RestorerOK(r)
    BY BackupAssumption DEF Work, BundleInv, BundleTypes
<1>2. bundle # Absent => bundle.owner \in Creators
    BY <1>1 DEF Bundles
<1>3. CASE StartRestore(r)
    <2>1. /\ step' = [step EXCEPT ![r] = "copy bundle"] /\ step'[r] = "copy bundle"
          /\ temp' = [temp EXCEPT ![r] = {}]
          /\ source' = [source EXCEPT ![r] = bundle.owner] /\ source'[r] = bundle.owner
          /\ UNCHANGED <<data, bundle, target, scanned>>
        BY <1>1, <1>3 DEF StartRestore, Goto
    <2>2. bundle # Absent /\ data[bundle.owner] = "valid" /\ VersionOf[bundle.owner] = VersionOf[r]
        BY <1>3 DEF StartRestore, Verified, Loads, Compatible
    <2>3. BundleTypes'
        BY <1>1, <1>2, <2>1, <2>2 DEF BundleInv, BundleTypes, Steps, Preparing
    <2>4. RestorerOK(r)'
        BY <1>2, <2>1, <2>2 DEF RestorerOK, ValidFor, Placing, Finished
    <2>5. QED
        BY <1>1, <2>1, <2>3, <2>4, LocalStepKept
<1>4. CASE CopyPart(r)
    <2>1. /\ step[r] = "copy bundle" /\ bundle # Absent
          /\ temp' = [temp EXCEPT ![r] = {"database"}]
          /\ data' = [data EXCEPT ![r] = Contained]
          /\ UNCHANGED <<step, bundle, source, target, scanned>>
        BY <1>4 DEF CopyPart, Readable
    <2>2. BundleTypes'
        <3>1. Contained \in Contents
            BY <1>2, <2>1 DEF Contained, Contents
        <3>2. QED
            BY <1>1, <2>1, <3>1 DEF BundleInv, BundleTypes, Names
    <2>3. ValidFor(source[r], r) /\ data'[source[r]] = data[source[r]]
        BY <1>1, <2>1 DEF RestorerOK, ValidFor, Work
    <2>4. RestorerOK(r)'
        BY <1>1, <2>1, <2>3 DEF RestorerOK, ValidFor, Placing, Finished
    <2>5. QED
        BY <1>1, <2>1, <2>2, <2>4, LocalStepKept
<1>5. CASE CopyVerified(r)
    <2>1. /\ step[r] = "copy bundle" /\ data[r] = source[r]
          /\ step' = [step EXCEPT ![r] = "link target"] /\ step'[r] = "link target"
          /\ UNCHANGED <<temp, data, bundle, source, target, scanned>>
        BY <1>1, <1>5 DEF CopyVerified, Unchanged, Goto
    <2>2. BundleTypes'
        BY <1>1, <2>1 DEF BundleInv, BundleTypes, Steps, Preparing, Finished
    <2>3. RestorerOK(r)'
        BY <1>1, <2>1 DEF RestorerOK, ValidFor, Placing, Finished
    <2>4. QED
        BY <1>1, <2>1, <2>2, <2>3, LocalStepKept
<1>6. CASE IdentifyTarget(r)
    <2>1. /\ step[r] = "identify"
          /\ step' = [step EXCEPT ![r] = "clear"] /\ step'[r] = "clear"
          /\ UNCHANGED <<temp, data, bundle, source, target, scanned>>
        BY <1>1, <1>6 DEF IdentifyTarget, Goto
    <2>2. BundleTypes'
        BY <1>1, <2>1 DEF BundleInv, BundleTypes, Steps, Clearing, Finished
    <2>3. RestorerOK(r)'
        BY <1>1, <2>1 DEF RestorerOK, ValidFor, Placing, Finished
    <2>4. QED
        BY <1>1, <2>1, <2>2, <2>3, LocalStepKept
<1>7. ASSUME UNCHANGED <<temp, data, bundle, source, scanned>>, BundleTypes', RestorerOK(r)',
             \A v \in Work \ {r} : step'[v] = step[v], TargetOK',
             target # Absent /\ target.owner # r => target' = target
      PROVE  BundleInv'
    <2>1. \A p \in Creators : CreatorOK(p)'
        BY <1>1, <1>7 DEF BundleInv, CreatorOK, Work
    <2>2. ASSUME NEW q \in Restorers
          PROVE  RestorerOK(q)'
        BY <1>7 DEF BundleInv, RestorerOK, ValidFor, Work
    <2>3. QED
        BY <1>7, <2>1, <2>2 DEF BundleInv
<1>8. CASE LinkTarget(r)
    <2>1. /\ step[r] = "link target" /\ target = Absent
          /\ step' = [step EXCEPT ![r] = "identify"] /\ step'[r] = "identify"
          /\ target' = [owner |-> r, of |-> data[r]]
          /\ UNCHANGED <<temp, data, bundle, source, scanned>>
        BY <1>1, <1>8 DEF LinkTarget, Placed, Goto
    <2>2. ValidFor(data[r], r) /\ data[r] \in Creators
        BY <1>1, <2>1 DEF RestorerOK, ValidFor
    <2>3. target' \in Targets /\ target'.owner = r /\ target'.of = data[r]
        BY <2>1, <2>2 DEF Targets
    <2>4. target' # Absent
        BY <2>3, AbsentAssumption
    <2>5. BundleTypes'
        BY <1>1, <2>1, <2>3 DEF BundleInv, BundleTypes, Steps, Preparing, Finished
    <2>6. RestorerOK(r)'
        BY <2>1, <2>3, <2>4 DEF RestorerOK, Placing, Finished
    <2>7. TargetOK'
        BY <2>1, <2>2, <2>3 DEF TargetOK, ValidFor
    <2>8. QED
        BY <1>1, <1>7, <2>1, <2>5, <2>6, <2>7
<1>9. CASE RemoveTarget(r)
    <2>1. /\ step[r] = "remove target" /\ target # Absent /\ target.owner = r
          /\ step' = [step EXCEPT ![r] = "failed"] /\ step'[r] = "failed"
          /\ target' = Absent
          /\ UNCHANGED <<temp, data, bundle, source, scanned>>
        BY <1>1, <1>9 DEF RemoveTarget, Goto, RestorerOK, Placing
    <2>2. BundleTypes'
        BY <1>1, <2>1 DEF BundleInv, BundleTypes, Steps, Finished
    <2>3. RestorerOK(r)' /\ TargetOK'
        BY <2>1 DEF RestorerOK, TargetOK, Placing, Finished
    <2>4. QED
        BY <1>1, <1>7, <2>1, <2>2, <2>3
<1>10. QED
    BY <1>3, <1>4, <1>5, <1>6, <1>8, <1>9

LEMMA ForeignKept ==
    ASSUME BundleInv, ForeignEntry \/ ForeignTarget
    PROVE  BundleInv'
<1>1. CASE ForeignEntry
    <2>1. PICK name \in ForeignNames :
              /\ bundle # Absent /\ bundle' = [bundle EXCEPT !.foreign = bundle.foreign \cup {name}]
              /\ UNCHANGED <<step, temp, data, source, target, scanned>>
        BY <1>1 DEF ForeignEntry
    <2>2. bundle \in Bundles
        BY <2>1 DEF BundleInv, BundleTypes
    <2>3. /\ bundle' \in Bundles /\ bundle'.owner = bundle.owner
          /\ bundle'.entries = bundle.entries
        BY <2>1, <2>2 DEF Bundles
    <2>4. BundleTypes'
        BY <2>1, <2>3 DEF BundleInv, BundleTypes
    <2>5. \A p \in Creators : CreatorOK(p)'
        BY <2>1, <2>3, AbsentAssumption DEF BundleInv, CreatorOK
    <2>6. QED
        BY <2>1, <2>4, <2>5, BundleStepKept
<1>2. CASE ForeignTarget
    <2>1. /\ target = Absent /\ target' = [owner |-> Somebody, of |-> Somebody]
          /\ UNCHANGED <<step, temp, data, bundle, source, scanned>>
        BY <1>2 DEF ForeignTarget
    <2>2. target' \in Targets /\ target'.owner = Somebody
        BY <2>1 DEF Targets
    <2>3. BundleTypes'
        BY <2>1, <2>2 DEF BundleInv, BundleTypes
    <2>4. \A p \in Creators : CreatorOK(p)'
        BY <2>1 DEF BundleInv, CreatorOK
    <2>5. \A r \in Restorers : RestorerOK(r)'
        BY <2>1 DEF BundleInv, RestorerOK, ValidFor, Placing
    <2>6. QED
        BY <2>2, <2>3, <2>4, <2>5 DEF BundleInv, TargetOK
<1>3. QED
    BY <1>1, <1>2

LEMMA BundleInvHolds == BundleSpec => []BundleInv
<1>1. ASSUME BundleInv, [BundleNext]_bundleVars
      PROVE  BundleInv'
    <2>1. CASE UNCHANGED bundleVars
        BY <1>1, <2>1 DEF bundleVars, BundleInv, BundleTypes, CreatorOK, RestorerOK, TargetOK, ValidFor
    <2>2. ASSUME NEW p \in Creators,
                 \/ StartCreate(p) \/ OpenCopy(p) \/ SqliteBackup(p) \/ ResetSearch(p)
                 \/ Validate(p) \/ WriteManifest(p) \/ MakeBundle(p) \/ LinkDatabase(p)
                 \/ LinkManifest(p) \/ CheckPublished(p) \/ ScanBundle(p)
                 \/ UnlinkEntry(p) \/ RemoveDirectory(p) \/ UnlinkFails(p)
          PROVE  BundleInv'
        BY <1>1, <2>2, CreateKept, DirectoryKept
    <2>3. QED
        BY <1>1, <2>1, <2>2, AnyCommandKept, RestoreKept, ForeignKept DEF BundleNext
<1>2. QED
    BY <1>1, BundleStart, PTL DEF BundleSpec

\* For any number of creators and restorers, whatever fails, dies or races: a
\* bundle that loads holds a validated database, a reported bundle stays, and
\* a placed destination is the copy of one validated database.
THEOREM BundleWholeOrNothing == BundleSpec => []WholeOrNothing
<1> SUFFICES ASSUME BundleInv
             PROVE  WholeOrNothing
    BY BundleInvHolds, PTL
<1>1. Loads => data[bundle.owner] = "valid"
    BY AbsentAssumption DEF Loads, BundleInv, BundleTypes, Bundles, CreatorOK
<1>2. ASSUME NEW p \in Creators, Completed(p)
      PROVE  /\ bundle # Absent
             /\ bundle.owner = p /\ bundle.entries = Names
             /\ bundle.foreign = {} => Loads
    <2>1. CreatorOK(p) /\ step[p] \in Finished
        BY <1>2 DEF BundleInv, Completed, Finished
    <2>2. bundle # Absent /\ bundle.owner = p /\ bundle.entries = Names /\ temp[p] = Absent
        BY <2>1 DEF CreatorOK, Owning
    <2>3. InTemp(bundle.owner) = {}
        BY <2>2 DEF InTemp
    <2>4. QED
        BY <2>2, <2>3 DEF Loads, Listing, SingleLink, ParsesManifest, Names
<1>3. target # Absent /\ target.owner # Somebody =>
          /\ target.of \in Creators /\ data[target.of] = "valid"
          /\ VersionOf[target.of] = VersionOf[target.owner]
    BY DEF BundleInv, TargetOK, ValidFor
<1>4. \A r \in Restorers : Completed(r) => target # Absent /\ target.owner = r
    BY DEF BundleInv, RestorerOK, Completed, Placing, Finished
<1>5. QED
    BY <1>1, <1>2, <1>3, <1>4 DEF WholeOrNothing

\* No file of somebody else's at the destination is removed by any step.  Of what
\* somebody else put into a bundle directory, a step removes at most a file under
\* one of the two names of a bundle's files, and only the step of the creator who
\* made the directory and withdraws it.
THEOREM ForeignFilesSurvive == BundleSpec => NothingForeignRemoved
<1> DEFINE Stays(name) == bundle' # Absent /\ name \in bundle'.foreign
           Survives ==
               /\ bundle # Absent =>
                     \A name \in bundle.foreign :
                         Stays(name) \/ (name \in Names /\ Withdrawing(bundle.owner))
               /\ target # Absent /\ target.owner = Somebody => target' = target
<1>1. ASSUME BundleInv, BundleNext
      PROVE  Survives
    <2>1. bundle \in Bundles \cup {Absent}
        BY <1>1 DEF BundleInv, BundleTypes
    <2>2. ASSUME NEW e \in SUBSET Names, NEW f \in SUBSET ForeignNames, bundle # Absent,
                 bundle' = [bundle EXCEPT !.entries = e, !.foreign = f]
          PROVE  bundle' # Absent /\ bundle'.foreign = f
        <3>1. bundle' \in Bundles /\ bundle'.foreign = f
            BY <2>1, <2>2 DEF Bundles
        <3>2. QED
            BY <3>1, AbsentAssumption
    <2>3. ASSUME NEW p \in Creators, MakeBundle(p) \/ LinkDatabase(p) \/ LinkManifest(p)
          PROVE  Survives
        <3>1. target' = target
            BY <2>3 DEF MakeBundle, LinkDatabase, LinkManifest
        <3>2. CASE bundle = Absent
            BY <3>1, <3>2
        <3>3. CASE bundle # Absent
            <4>1. PICK name \in Names :
                      bundle' = [bundle EXCEPT !.entries = bundle.entries \cup {name}]
                BY <2>3, <3>3 DEF MakeBundle, NewDirectory, LinkDatabase, LinkManifest,
                   Link, Names
            <4>2. bundle' \in Bundles /\ bundle'.foreign = bundle.foreign
                BY <2>1, <3>3, <4>1 DEF Bundles
            <4>3. QED
                BY <3>1, <4>2, AbsentAssumption
        <3>4. QED
            BY <3>2, <3>3
    <2>4. ASSUME NEW p \in Creators, UnlinkEntry(p) \/ RemoveDirectory(p)
          PROVE  Survives
        <3>1. step[p] = "unlink" /\ bundle # Absent /\ target' = target
            BY <2>4 DEF UnlinkEntry, RemoveDirectory
        <3>2. bundle.owner = p /\ Withdrawing(bundle.owner)
            BY <1>1, <2>4, <3>1 DEF BundleInv, CreatorOK, Owning, Withdrawing
        <3>3. CASE UnlinkEntry(p)
            <4>1. PICK name \in scanned[p] :
                      bundle' = [bundle EXCEPT !.entries = bundle.entries \ {name},
                                               !.foreign = bundle.foreign \ {name}]
                BY <3>3 DEF UnlinkEntry
            <4>2. name \in Names
                BY <1>1, <4>1 DEF BundleInv, BundleTypes, Work
            <4>3. /\ bundle.entries \ {name} \in SUBSET Names
                  /\ bundle.foreign \ {name} \in SUBSET ForeignNames
                BY <2>1, <3>1 DEF Bundles
            <4>4. bundle' # Absent /\ bundle'.foreign = bundle.foreign \ {name}
                BY <2>2, <3>1, <4>1, <4>3
            <4>5. QED
                BY <3>1, <3>2, <4>2, <4>4
        <3>4. CASE RemoveDirectory(p)
            BY <3>1, <3>4 DEF RemoveDirectory, Listing
        <3>5. QED
            BY <2>4, <3>3, <3>4
    <2>5. ASSUME NEW r \in Restorers, LinkTarget(r) \/ RemoveTarget(r)
          PROVE  Survives
        BY <2>5, BackupAssumption DEF LinkTarget, RemoveTarget, Placed
    <2>6. CASE ForeignEntry \/ ForeignTarget
        <3>1. CASE ForeignEntry
            <4>1. PICK name \in ForeignNames :
                      bundle' = [bundle EXCEPT !.foreign = bundle.foreign \cup {name}]
                BY <3>1 DEF ForeignEntry
            <4>2. bundle # Absent /\ target' = target
                BY <3>1 DEF ForeignEntry
            <4>3. bundle' \in Bundles /\ bundle'.foreign = bundle.foreign \cup {name}
                BY <2>1, <4>1, <4>2 DEF Bundles
            <4>4. QED
                BY <4>2, <4>3, AbsentAssumption
        <3>2. CASE ForeignTarget
            BY <3>2 DEF ForeignTarget
        <3>3. QED
            BY <2>6, <3>1, <3>2
    <2>7. CASE \E w \in Work : Refuse(w) \/ Fail(w) \/ Interrupt(w) \/ Die(w) \/ Deliver(w)
                                \/ ClearTemp(w) \/ ClearFails(w)
        BY <2>7 DEF Refuse, Fail, Interrupt, Die, Deliver, ClearTemp, ClearFails
    <2>8. CASE \/ \E p \in Creators : \/ StartCreate(p) \/ OpenCopy(p) \/ SqliteBackup(p)
                     \/ ResetSearch(p) \/ Validate(p) \/ WriteManifest(p)
                     \/ CheckPublished(p) \/ ScanBundle(p) \/ UnlinkFails(p)
               \/ \E r \in Restorers : \/ StartRestore(r) \/ CopyPart(r) \/ CopyVerified(r)
                     \/ IdentifyTarget(r)
        BY <2>8 DEF StartCreate, OpenCopy, SqliteBackup, ResetSearch, Validate,
           WriteManifest, CheckPublished, ScanBundle, UnlinkFails, StartRestore, CopyPart,
           CopyVerified, IdentifyTarget
    <2>9. QED
        BY <1>1, <2>3, <2>4, <2>5, <2>6, <2>7, <2>8 DEF BundleNext
<1>2. BundleInv /\ [BundleNext]_bundleVars => [Survives]_bundleVars
    BY <1>1
<1>3. QED
    BY <1>2, BundleInvHolds, PTL DEF BundleSpec, NothingForeignRemoved

-----------------------------------------------------------------------------
(* The HTTP routes of Archive Pages.  A receipt describes a state its Page *)
(* really had, and there is at most one for a caller, route and key: that  *)
(* is what makes a retry safe after the Page moved, changed or went to the *)
(* Trash.                                                                  *)

PageStates == [book: Books, live: BOOLEAN, markdown: BOOLEAN]

RouteTypes ==
    /\ history \in [Pages -> Seq(PageStates)]
    /\ \A c \in Connections : calls[c] # None => calls[c] \in [key: Keys, request: Requests]

\* The answer a receipt stores is about a state of its Page and about the path
\* the request was sent to.
ReceiptOK(r) ==
    /\ r.page \in Pages /\ r.version \in DOMAIN history[r.page]
    /\ history[r.page][r.version].book = r.book
    /\ history[r.page][r.version].live = (r.request.route # "delete")
    /\ SectionOf[r.book] = r.request.section
    /\ NamesPath(r, r.request)

OneReceipt ==
    \A r, q \in receipts :
        r.agent = q.agent /\ r.key = q.key /\ r.request.route = q.request.route => r = q

\* The inductive invariant.
RoutesInv == RouteTypes /\ (\A r \in receipts : ReceiptOK(r)) /\ OneReceipt

\* The last state of a Page that exists.
LEMMA LastState ==
    ASSUME NEW states \in Seq(PageStates), states # <<>>
    PROVE  Last(states) \in PageStates
<1>1. Len(states) \in DOMAIN states
    OBVIOUS
<1>2. QED
    BY <1>1 DEF Last

\* States are only added, so what a receipt describes stays.
LEMMA AppendKeepsReceipts ==
    ASSUME RoutesInv, NEW p \in Pages, NEW state \in PageStates,
           history' = [history EXCEPT ![p] = Append(history[p], state)]
    PROVE  /\ history' \in [Pages -> Seq(PageStates)]
           /\ \A r : ReceiptOK(r) => ReceiptOK(r)'
           /\ Version(p) + 1 \in DOMAIN history'[p] /\ history'[p][Version(p) + 1] = state
<1>1. history[p] \in Seq(PageStates)
    BY DEF RoutesInv, RouteTypes
<1>2. /\ Append(history[p], state) \in Seq(PageStates)
      /\ DOMAIN history[p] = 1 .. Len(history[p]) /\ Len(history[p]) \in Nat
      /\ DOMAIN Append(history[p], state) = 1 .. Len(history[p]) + 1
      /\ Append(history[p], state)[Len(history[p]) + 1] = state
      /\ \A n \in DOMAIN history[p] : Append(history[p], state)[n] = history[p][n]
    BY <1>1
<1>3. /\ history' \in [Pages -> Seq(PageStates)]
      /\ history'[p] = Append(history[p], state)
      /\ \A q \in Pages : q # p => history'[q] = history[q]
    BY <1>2 DEF RoutesInv, RouteTypes
<1>4. ASSUME NEW r, ReceiptOK(r)
      PROVE  ReceiptOK(r)'
    <2>1. /\ r.version \in DOMAIN history'[r.page]
          /\ history'[r.page][r.version] = history[r.page][r.version]
        <3>1. r.page \in Pages /\ r.version \in DOMAIN history[r.page]
            BY <1>4 DEF ReceiptOK
        <3>2. CASE r.page = p
            BY <1>2, <1>3, <3>1, <3>2
        <3>3. CASE r.page # p
            BY <1>3, <3>1, <3>3
        <3>4. QED
            BY <3>2, <3>3
    <2>2. QED
        BY <1>4, <2>1 DEF ReceiptOK, NamesPath
<1>5. QED
    BY <1>2, <1>3, <1>4 DEF Version

LEMMA AdminChangeHolds ==
    ASSUME RoutesInv, NEW p \in Pages, AdminChange(p)
    PROVE  RoutesInv'
<1>1. PICK state \in AdminStates(Last(history[p])) :
          history' = [history EXCEPT ![p] = Append(history[p], state)]
    BY DEF AdminChange
<1>2. Last(history[p]) \in PageStates
    BY LastState DEF RoutesInv, RouteTypes, AdminChange, Exists
<1>3. state \in PageStates
    BY <1>1, <1>2 DEF AdminStates, PageStates
<1>4. UNCHANGED <<receipts, calls>>
    BY DEF AdminChange
<1>5. /\ history' \in [Pages -> Seq(PageStates)]
      /\ \A r : ReceiptOK(r) => ReceiptOK(r)'
    BY <1>1, <1>3, AppendKeepsReceipts
<1>6. QED
    BY <1>4, <1>5 DEF RoutesInv, RouteTypes, OneReceipt

\* A request that applies leaves a state its receipt describes.
LEMMA FreshReceipt ==
    ASSUME RoutesInv, NEW request \in Requests, NEW p \in Pages, Applies(request, p)
    PROVE  /\ After(request, p) \in PageStates
           /\ After(request, p).live = (request.route # "delete")
           /\ SectionOf[After(request, p).book] = request.section
           /\ request.page \in {None, p}
           /\ request.book \in {None, After(request, p).book}
<1>1. CASE request.route = "create"
    <2>1. request.book \in Books /\ request.page = None
        BY <1>1 DEF Requests
    <2>2. After(request, p) = [book |-> request.book, live |-> TRUE, markdown |-> TRUE]
        BY <1>1 DEF After
    <2>3. SectionOf[request.book] = request.section
        BY <1>1 DEF Applies
    <2>4. After(request, p) \in PageStates /\ After(request, p).book = request.book
        BY <2>1, <2>2 DEF PageStates
    <2>5. After(request, p).live = TRUE
        BY <2>2
    <2>6. request.route # "delete"
        BY <1>1
    <2>7. After(request, p).live = (request.route # "delete")
        BY <2>5, <2>6
    <2>8. QED
        BY <2>1, <2>3, <2>4, <2>7
<1>2. CASE request.route # "create"
    <2> DEFINE last == Last(history[p])
    <2>1. p = request.page /\ Exists(p) /\ SectionOf[last.book] = request.section
        BY <1>2 DEF Applies, SectionNow
    <2>2. last \in PageStates
        BY <2>1, LastState DEF RoutesInv, RouteTypes, Exists
    <2>3. request.book = None
        BY <1>2 DEF Requests
    <2>4. After(request, p) = [last EXCEPT !.live = request.route # "delete"]
        BY <1>2 DEF After
    <2>5. /\ After(request, p) \in PageStates
          /\ After(request, p).live = (request.route # "delete")
          /\ After(request, p).book = last.book
        BY <2>2, <2>4 DEF PageStates
    <2>6. QED
        BY <2>1, <2>3, <2>5
<1>3. QED
    BY <1>1, <1>2

\* The transaction: nothing, or a new state and its receipt.
LEMMA PerformHolds ==
    ASSUME RoutesInv, NEW c \in Connections, Perform(c),
           NEW a, a = AgentOf[c], NEW k, k = calls[c].key,
           NEW request, request = calls[c].request
    PROVE  RoutesInv'
<1>1. request \in Requests
    BY DEF Perform, RoutesInv, RouteTypes
<1>2. \A d \in Connections : calls'[d] # None => calls'[d] \in [key: Keys, request: Requests]
    BY DEF Perform, RoutesInv, RouteTypes
<1>3. CASE UNCHANGED <<history, receipts>>
    BY <1>2, <1>3 DEF RoutesInv, RouteTypes, ReceiptOK, OneReceipt, NamesPath
<1>4. CASE ~UNCHANGED <<history, receipts>>
    <2>1. Outcome(a, k, request) = "fresh"
        BY <1>4 DEF Perform
    <2>2. Stored(a, k, request) = {}
        BY <2>1 DEF Outcome
    <2>3. PICK p \in Pages :
              /\ Applies(request, p)
              /\ history' = [history EXCEPT ![p] = Append(history[p], After(request, p))]
              /\ receipts' = receipts \cup
                    {[agent |-> a, key |-> k, request |-> request, page |-> p,
                      section |-> request.section, book |-> After(request, p).book,
                      version |-> Version(p) + 1]}
        BY <1>4 DEF Perform
    <2>4. PICK new : /\ receipts' = receipts \cup {new}
                     /\ new.agent = a /\ new.key = k /\ new.request = request
                     /\ new.page = p /\ new.section = request.section
                     /\ new.book = After(request, p).book /\ new.version = Version(p) + 1
        <3> DEFINE w == [agent |-> a, key |-> k, request |-> request, page |-> p,
                         section |-> request.section, book |-> After(request, p).book,
                         version |-> Version(p) + 1]
        <3>1. receipts' = receipts \cup {w}
            BY <2>3
        <3>2. /\ w.agent = a /\ w.key = k /\ w.request = request
              /\ w.page = p /\ w.section = request.section
              /\ w.book = After(request, p).book /\ w.version = Version(p) + 1
            OBVIOUS
        <3> HIDE DEF w
        <3>3. QED
            BY <3>1, <3>2
    <2>5. /\ After(request, p) \in PageStates
          /\ After(request, p).live = (request.route # "delete")
          /\ SectionOf[After(request, p).book] = request.section
          /\ request.page \in {None, p}
          /\ request.book \in {None, After(request, p).book}
        BY <1>1, <2>3, FreshReceipt
    <2>6. /\ history' \in [Pages -> Seq(PageStates)]
          /\ \A r : ReceiptOK(r) => ReceiptOK(r)'
          /\ Version(p) + 1 \in DOMAIN history'[p]
          /\ history'[p][Version(p) + 1] = After(request, p)
        BY <2>3, <2>5, AppendKeepsReceipts
    <2>7. ReceiptOK(new)'
        BY <2>4, <2>5, <2>6 DEF ReceiptOK, NamesPath
    <2>8. \A r \in receipts' : ReceiptOK(r)'
        BY <2>4, <2>6, <2>7 DEF RoutesInv
    <2>9. OneReceipt'
        BY <2>2, <2>4 DEF RoutesInv, OneReceipt, Stored
    <2>10. QED
        BY <1>2, <2>6, <2>8, <2>9 DEF RoutesInv, RouteTypes
<1>5. QED
    BY <1>3, <1>4

LEMMA RoutesInvHolds == RoutesSpec => []RoutesInv
<1>1. RoutesInit => RoutesInv
    BY DEF RoutesInit, RoutesInv, RouteTypes, OneReceipt
<1>2. RoutesInv /\ [RoutesNext]_routeVars => RoutesInv'
    <2> SUFFICES ASSUME RoutesInv, [RoutesNext]_routeVars
                 PROVE  RoutesInv'
        OBVIOUS
    <2>1. ASSUME UNCHANGED <<history, receipts>>,
                 \A c \in Connections :
                    calls'[c] # None => calls'[c] \in [key: Keys, request: Requests]
          PROVE  RoutesInv'
        BY <2>1 DEF RoutesInv, RouteTypes, ReceiptOK, OneReceipt, NamesPath
    <2>2. ASSUME NEW c \in Connections, NEW k \in Keys, NEW request \in Requests,
                 Send(c, k, request)
          PROVE  RoutesInv'
        <3> DEFINE new == [key |-> k, request |-> request]
        <3>1. new \in [key: Keys, request: Requests]
            OBVIOUS
        <3>2. calls' = [calls EXCEPT ![c] = new] /\ UNCHANGED <<history, receipts>>
            BY <2>2 DEF Send
        <3> HIDE DEF new
        <3>3. QED
            BY <2>1, <3>1, <3>2 DEF RoutesInv, RouteTypes
    <2>3. ASSUME NEW c \in Connections, RejectBody(c)
          PROVE  RoutesInv'
        BY <2>1, <2>3 DEF RejectBody, RoutesInv, RouteTypes
    <2>4. ASSUME NEW a \in Agents, NEW r \in Rights, ChangeRights(a, r)
          PROVE  RoutesInv'
        BY <2>1, <2>4 DEF ChangeRights, RoutesInv, RouteTypes
    <2>5. CASE UNCHANGED routeVars
        BY <2>1, <2>5 DEF routeVars, RoutesInv, RouteTypes
    <2>6. QED
        BY <2>2, <2>3, <2>4, <2>5, PerformHolds, AdminChangeHolds DEF RoutesNext
<1>3. QED
    BY <1>1, <1>2, PTL DEF RoutesSpec

\* The retry of a request that succeeded is judged by where its Page is now:
\* whoever may write there gets the original answer, wherever the Page went and
\* whatever became of it; whoever may not is refused.
THEOREM RetriesFollowThePage == RoutesSpec => []RetryFollowsThePage
<1>1. RoutesInv => RetryFollowsThePage
    <2> SUFFICES ASSUME RoutesInv, NEW r \in receipts
                 PROVE  Outcome(r.agent, r.key, r.request) =
                            IF May(r.agent, SectionNow(r.page), "archive.write")
                            THEN "replay" ELSE "refused"
        BY DEF RetryFollowsThePage
    <2>1. ReceiptOK(r) /\ NamesPath(r, r.request)
        BY DEF RoutesInv, ReceiptOK
    <2>2. Stored(r.agent, r.key, r.request) = {r}
        BY DEF RoutesInv, OneReceipt, Stored
    <2>3. TargetSection(r.agent, r.key, r.request) = {SectionNow(r.page)}
        BY <2>1, <2>2 DEF TargetSection
    <2>4. Admitted(r.agent, r.key, r.request) <=>
              May(r.agent, SectionNow(r.page), "archive.write")
        BY <2>3 DEF Admitted
    <2>5. (CHOOSE q \in Stored(r.agent, r.key, r.request) : NamesPath(q, r.request)) = r
        BY <2>1, <2>2
    <2>6. ReplayProved(r)
        BY <2>1 DEF ReceiptOK, ReplayProved, Version, RoutesInv, RouteTypes
    <2>7. QED
        BY <2>2, <2>4, <2>5, <2>6 DEF Outcome
<1>2. QED
    BY <1>1, RoutesInvHolds, PTL

\* An Agent that sees a Page in the Trash can restore it with the ETag it was
\* shown, under a key it has not used: reading the Trash asks for what the
\* restoring transaction asks for.
THEOREM TrashedPagesRestorable == RoutesSpec => []TrashIsRestorable
<1>1. RoutesInv => TrashIsRestorable
    <2> SUFFICES ASSUME RoutesInv, NEW a \in Agents, NEW s \in Sections,
                        NEW p \in Trashed(a, s), NEW k \in Keys,
                        \A r \in receipts : r.key # k,
                        NEW request, request = [route |-> "restore", section |-> s,
                             book |-> None, page |-> p, etag |-> Version(p)]
                 PROVE  Outcome(a, k, request) = "fresh"
        BY DEF TrashIsRestorable
    <2>1. /\ p \in Pages /\ May(a, s, "archive.write") /\ Exists(p)
          /\ SectionNow(p) = s /\ ~Last(history[p]).live
        BY DEF Trashed, ReadTrash, MayReadTrash
    <2>2. Stored(a, k, request) = {}
        BY DEF Stored
    <2>3. request.section = s /\ request.route = "restore" /\ request.page = p
          /\ request.etag = Version(p)
        OBVIOUS
    <2>4. Admitted(a, k, request)
        BY <2>1, <2>2, <2>3 DEF Admitted, TargetSection
    <2>5. Last(history[p]).live = FALSE
        <3>1. Last(history[p]) \in PageStates
            BY <2>1, LastState DEF RoutesInv, RouteTypes, Exists
        <3>2. QED
            BY <2>1, <3>1 DEF PageStates
    <2>6. Applies(request, p)
        BY <2>1, <2>3, <2>5 DEF Applies
    <2>7. QED
        BY <2>1, <2>2, <2>4, <2>6 DEF Outcome
<1>2. QED
    BY <1>1, RoutesInvHolds, PTL

=============================================================================
