------------------------------ MODULE AdminFeeds ------------------------------
(***************************************************************************)
(* The administrator's two feeds, read newest first in several requests    *)
(* while entries are added: content activity, which merges the Agents'     *)
(* audit events with the administrator's, and the request log, whose rows  *)
(* age out.  An activity cursor is the bare position of the last entry     *)
(* shown; a request-log cursor is also bound to the session and filters.   *)
(* Event ids are random, so an entry may be older than the last one shown  *)
(* and still be new: only what was there all along is owed to the reader.  *)
(***************************************************************************)
EXTENDS Integers, Sequences, FiniteSets, SequencesExt

CONSTANTS
    Instants,      \* occurred_at values
    Ids,        \* audit event ids, in their order
    PageSize,   \* _ACTIVITY_PAGE_SIZE and _REQUEST_LOG_PAGE_SIZE
    MaxEntries, \* bound on the entries of a feed
    MaxLogins,  \* bound on sign-ins
    NoPosition    \* the first request

ASSUME FeedConstants ==
    /\ Instants \subseteq Nat \ {0} /\ Ids \subseteq Nat
    /\ PageSize \in Nat \ {0} /\ MaxEntries \in Nat /\ MaxLogins \in Nat

\* An entry of a feed: when, its id, and the table it is from.
Entries == Nat \X Nat \X Nat

ASSUME NoPositionAssumption ==
    NoPosition \notin Entries \cup [at: Entries, login: Nat]

VARIABLES
    audits,    \* <<occurred_at, id, source>>: source 1 Agents, 2 administrator
    log,       \* <<occurred_at, id, 0>>: request-log rows
    retained,  \* occurred_at from which request-log rows are still shown
    login,     \* the session: its CSRF token is that of this sign-in
    walk       \* the administrator's walk through a feed

feedVars == <<audits, log, retained, login, walk>>

\* One entry is shown before another: later, then greater id, then source m.
Newer(a, b) ==
    \/ a[1] > b[1]
    \/ a[1] = b[1] /\ a[2] > b[2]
    \/ a[1] = b[1] /\ a[2] = b[2] /\ a[3] > b[3]

\* ORDER BY: the entry with n - 1 others before it comes n-th.
NewestFirst(entries) ==
    [n \in 1 .. Cardinality(entries) |->
        CHOOSE e \in entries : Cardinality({f \in entries : Newer(f, e)}) = n - 1]

First(n, entries) ==
    LET sorted == NewestFirst(entries)
    IN  SubSeq(sorted, 1, IF Len(sorted) < n THEN Len(sorted) ELSE n)

-----------------------------------------------------------------------------
(* Content activity.                                                       *)

\* Mutant: the two streams use the same condition.
ActivityBeforeSame(e, before) ==
    \/ before = NoPosition
    \/ e[1] < before[1]
    \/ e[1] = before[1] /\ e[2] < before[2]

\* _activity_before: on an equal time, a stream that sorts after the cursor's
\* still owes the entry with the cursor's own id.
ActivityBefore(e, before) ==
    \/ before = NoPosition
    \/ e[1] < before[1]
    \/ e[1] = before[1] /\ IF e[3] < before[3] THEN e[2] <= before[2] ELSE e[2] < before[2]

\* The audit events of the Agents, at most n of them.
AgentEntries(n, before) ==
    Range(First(n, {e \in audits : e[3] = 1 /\ ActivityBefore(e, before)}))

\* The administrator's; not shown when the feed of one Agent is asked for.
MasterEntries(n, before, actor) ==
    IF actor THEN {}
    ELSE Range(First(n, {e \in audits : e[3] = 2 /\ ActivityBefore(e, before)}))

\* _content_activity_entries: both streams of one snapshot, merged and cut.
ActivityEntries(n, before, actor) ==
    First(n, AgentEntries(n, before) \cup MasterEntries(n, before, actor))

-----------------------------------------------------------------------------
(* Request log.                                                            *)

LogEntries(n, before) ==
    First(n, {e \in log : e[1] >= retained /\ (before = NoPosition \/ Newer(before, e))})

\* What the feed can show now.
Visible(feed) ==
    CASE feed = "activity" -> audits
      [] feed = "actor" -> {e \in audits : e[3] = 1}
      [] feed = "requests" -> {e \in log : e[1] >= retained}

-----------------------------------------------------------------------------
(* Requests.                                                               *)

\* content_activity_page and request_log_page: one entry more than is shown.
Show(entries) ==
    LET shown == SubSeq(entries, 1, IF Len(entries) < PageSize THEN Len(entries) ELSE PageSize)
        more == Len(entries) > PageSize
    IN  walk' = [walk EXCEPT
            !.got = @ \o shown,
            !.status = IF more THEN "open" ELSE "complete",
            !.cursor = IF more THEN [at |-> shown[Len(shown)], login |-> login] ELSE NoPosition,
            !.stayed = IF walk.status = "fresh" THEN Visible(walk.feed) ELSE @]

Reading == walk.status \in {"fresh", "open"}

Before == IF walk.cursor = NoPosition THEN NoPosition ELSE walk.cursor.at

ActivityPage ==
    /\ Reading /\ walk.feed \in {"activity", "actor"}
    /\ Show(ActivityEntries(PageSize + 1, Before, walk.feed = "actor"))
    /\ UNCHANGED <<audits, log, retained, login>>

\* RequestLogCursorCodec.decode: a cursor of another session is refused.
BoundToSession == walk.cursor = NoPosition \/ walk.cursor.login = login

RequestLogPage ==
    /\ Reading /\ walk.feed = "requests"
    /\ IF BoundToSession THEN Show(LogEntries(PageSize + 1, Before))
       ELSE walk' = [walk EXCEPT !.status = "refused"]
    /\ UNCHANGED <<audits, log, retained, login>>

-----------------------------------------------------------------------------
(* What happens meanwhile.                                                 *)

KeepWalk ==
    \E feed \in {walk.feed} : walk' = [walk EXCEPT !.stayed = @ \cap Visible(feed)']

\* An audited change: the id is new in its own table, the clock is the host's.
Audit ==
    /\ Reading /\ Cardinality(audits) < MaxEntries
    /\ \E at \in Instants, id \in Ids, source \in {1, 2} :
          /\ \A e \in audits : e[3] = source => e[2] # id
          /\ audits' = audits \cup {<<at, id, source>>}
    /\ UNCHANGED <<log, retained, login>>
    /\ KeepWalk

\* A logged request: ids of the log ascend.
LogRequest ==
    /\ Reading /\ Cardinality(log) < MaxEntries
    /\ \E at \in Instants : log' = log \cup {<<at, Cardinality(log) + 1, 0>>}
    /\ UNCHANGED <<audits, retained, login>>
    /\ KeepWalk

\* Thirty days pass for the oldest rows.
Age ==
    /\ Reading /\ retained + 1 \in Instants
    /\ retained' = retained + 1
    /\ UNCHANGED <<audits, log, login>>
    /\ KeepWalk

SignInAgain ==
    /\ Reading /\ login < MaxLogins
    /\ login' = login + 1
    /\ UNCHANGED <<audits, log, retained, walk>>

FeedInit ==
    /\ audits = {} /\ log = {}
    /\ retained = 1 /\ login = 1
    /\ walk \in [feed: {"activity", "actor", "requests"}, status: {"fresh"},
                 cursor: {NoPosition}, got: {<< >>}, stayed: {{}}]

FeedNext == ActivityPage \/ RequestLogPage \/ Audit \/ LogRequest \/ Age \/ SignInAgain

FeedSpec == FeedInit /\ [][FeedNext]_feedVars

-----------------------------------------------------------------------------
\* An entry that could be shown at every moment of a walk is shown at most
\* once, and exactly once when the walk reaches the end, even when two audit
\* tables hold the same id at the same microsecond: the per-table conditions
\* and limits of _content_activity_entries agree with the order of the merge.
FeedListedExactlyOnce ==
    \A e \in walk.stayed :
        LET times == Cardinality({i \in DOMAIN walk.got : walk.got[i] = e})
        IN  /\ times <= 1
            /\ walk.status = "complete" => times = 1
==============================================================================
