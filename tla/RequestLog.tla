----------------------------- MODULE RequestLog -----------------------------
(***************************************************************************)
(* The request log of one application: every API request leaves a row,     *)
(* a retention loop prunes old rows, both through one writer that lets one *)
(* transaction run at a time and retries a busy database; shutdown cancels *)
(* the loop, closes the writer and disposes the engine.                    *)
(***************************************************************************)
EXTENDS Naturals

CONSTANTS
    Exchanges,   \* API requests
    Retention,  \* the retention task
    OldRows,    \* number of rows older than the cutoff when the application starts
    Batch,      \* rows removed by one cleanup
    Attempts,   \* len(_BUSY_RETRY_DELAYS) + 1
    Nobody      \* the gate is free

ASSUME RequestLogAssumption ==
    /\ Retention \notin Exchanges /\ Nobody \notin Exchanges \cup {Retention}
    /\ OldRows \in Nat /\ Batch \in Nat \ {0} /\ Attempts \in Nat \ {0}

Tasks == Exchanges \cup {Retention}

VARIABLES
    life,       \* "down", "up", "stopping", "closing" or "disposed"
    response,   \* request -> what of the response was sent
    job,        \* task -> its operation in the writer
    attempt,    \* task -> attempts of the running operation
    gate,       \* holder of the writer's lock
    drain,      \* operations close() waits for
    loop,       \* the retention loop: "none", "fresh", "writing", "asleep", "ended"
    rows,       \* request -> number of rows it left
    old,        \* number of old rows still in the table
    cancel      \* a cancellation of the loop that was not delivered yet

logVars == <<life, response, job, attempt, gate, drain, loop, rows, old, cancel>>

LogInit ==
    /\ life = "down"
    /\ response = [r \in Exchanges |-> "none"]
    /\ job = [t \in Tasks |-> "none"]
    /\ attempt = [t \in Tasks |-> 0]
    /\ gate = Nobody
    /\ drain = {}
    /\ loop = "none"
    /\ rows = [r \in Exchanges |-> 0]
    /\ old = OldRows
    /\ cancel = FALSE

-----------------------------------------------------------------------------
(* RequestLogWriter                                                        *)

Pending == {t \in Tasks : job[t] \in {"queued", "running", "backoff"}}

\* Mutant: close() does not stop admission.
OpenAlways == life # "disposed"

Open == life \in {"up", "stopping"}

\* run: the operation becomes a task of its own, or is refused.
Submit(t) == job' = [job EXCEPT ![t] = IF Open THEN "queued" ELSE "refused"]

\* async with self._gate
TakeGate(t) ==
    /\ job[t] = "queued" /\ gate = Nobody
    /\ gate' = t
    /\ job' = [job EXCEPT ![t] = "running"]
    /\ attempt' = [attempt EXCEPT ![t] = 1]
    /\ UNCHANGED <<life, response, drain, loop, rows, old, cancel>>

Finish(t, outcome) ==
    /\ job' = [job EXCEPT ![t] = outcome]
    /\ gate' = Nobody

\* The transaction context has rolled back.
RolledBack(t) == UNCHANGED rows

\* delete_before: at most one batch, strictly older than the cutoff.
DeleteBefore == old' = IF old < Batch THEN 0 ELSE old - Batch

Commit(t) ==
    /\ job[t] = "running"
    /\ Finish(t, "committed")
    /\ IF t = Retention THEN DeleteBefore /\ UNCHANGED rows
       ELSE rows' = [rows EXCEPT ![t] = @ + 1] /\ UNCHANGED old
    /\ UNCHANGED <<life, response, attempt, drain, loop, cancel>>

\* SQLITE_BUSY: wait and run the whole operation again, up to the last attempt.
Busy(t) ==
    /\ job[t] = "running"
    /\ RolledBack(t)
    /\ IF attempt[t] = Attempts THEN Finish(t, "failed")
       ELSE job' = [job EXCEPT ![t] = "backoff"] /\ UNCHANGED gate
    /\ UNCHANGED <<life, response, attempt, drain, loop, old, cancel>>

RetryWrite(t) ==
    /\ job[t] = "backoff"
    /\ job' = [job EXCEPT ![t] = "running"]
    /\ attempt' = [attempt EXCEPT ![t] = @ + 1]
    /\ UNCHANGED <<life, response, gate, drain, loop, rows, old, cancel>>

\* Any other database error.
Error(t) ==
    /\ job[t] = "running"
    /\ RolledBack(t)
    /\ Finish(t, "failed")
    /\ UNCHANGED <<life, response, attempt, drain, loop, old, cancel>>

-----------------------------------------------------------------------------
(* RequestLogMiddleware                                                    *)

\* send_with_status
Respond(r) ==
    /\ life # "down"
    /\ job[r] = "none" /\ response[r] # "complete"
    /\ response' = [response EXCEPT ![r] = IF @ = "none" THEN "started" ELSE "complete"]
    /\ UNCHANGED <<life, job, attempt, gate, drain, loop, rows, old, cancel>>

\* The entry of a request whose handler returned, raised or was cancelled.
Entry(r) == [status |-> response[r] # "none", completed |-> response[r] = "complete"]

\* RequestLogWrite accepts no completed request without a status.
ValidEntry(entry) == entry.completed => entry.status

LogRequest(r) ==
    /\ life # "down"
    /\ job[r] = "none"
    /\ ValidEntry(Entry(r))
    /\ Submit(r)
    /\ UNCHANGED <<life, response, attempt, gate, drain, loop, rows, old, cancel>>

-----------------------------------------------------------------------------
(* run_request_log_retention                                               *)

\* The first step and every wake-up submit a cleanup; a cancellation that
\* finds the loop there ends it.
StartCleanup ==
    /\ loop \in {"fresh", "asleep"}
    /\ IF cancel THEN loop' = "ended" /\ UNCHANGED job
       ELSE loop' = "writing" /\ Submit(Retention)
    /\ cancel' = FALSE
    /\ UNCHANGED <<life, response, attempt, gate, drain, rows, old>>

\* Mutant: the failure of the joined work hides the cancellation.
AfterCleanupSwallowed(outcome) ==
    IF cancel /\ outcome = "committed" THEN "ended" ELSE "asleep"

\* _finish_owned_task: the work is joined, then the cancellation goes on.
AfterCleanup(outcome) == IF cancel THEN "ended" ELSE "asleep"

\* The cancellation is delivered while the loop awaits the cleanup.
EndCleanup ==
    /\ loop = "writing" /\ Retention \notin Pending
    /\ loop' = AfterCleanup(job[Retention])
    /\ cancel' = FALSE
    /\ UNCHANGED <<life, response, job, attempt, gate, drain, rows, old>>

-----------------------------------------------------------------------------
(* The application's lifespan: start, then cancel the retention, await it,  *)
(* close, dispose.                                                         *)

Start ==
    /\ life = "down"
    /\ life' = "up"
    /\ loop' = "fresh"
    /\ UNCHANGED <<response, job, attempt, gate, drain, rows, old, cancel>>

Stop ==
    /\ life = "up"
    /\ life' = "stopping"
    /\ cancel' = TRUE
    /\ UNCHANGED <<response, job, attempt, gate, drain, loop, rows, old>>

Close ==
    /\ life = "stopping" /\ loop = "ended"
    /\ life' = "closing"
    /\ drain' = Pending
    /\ UNCHANGED <<response, job, attempt, gate, loop, rows, old, cancel>>

Dispose ==
    /\ life = "closing"
    /\ drain \cap Pending = {}
    /\ life' = "disposed"
    /\ UNCHANGED <<response, job, attempt, gate, drain, loop, rows, old, cancel>>

-----------------------------------------------------------------------------

LogNext ==
    \/ \E t \in Tasks : TakeGate(t) \/ Commit(t) \/ Busy(t) \/ RetryWrite(t) \/ Error(t)
    \/ \E r \in Exchanges : Respond(r) \/ LogRequest(r)
    \/ StartCleanup \/ EndCleanup
    \/ Start \/ Stop \/ Close \/ Dispose

\* Threads return, timers fire and the event loop runs what is ready; nothing
\* obliges a client to finish or the server to stop.
LogFairness ==
    /\ \A t \in Tasks : /\ SF_logVars(TakeGate(t))
                        /\ WF_logVars(Commit(t) \/ Busy(t) \/ Error(t))
                        /\ WF_logVars(RetryWrite(t))
    /\ WF_logVars(StartCleanup) /\ WF_logVars(EndCleanup)
    /\ WF_logVars(Close) /\ WF_logVars(Dispose)

LogSpec == LogInit /\ [][LogNext]_logVars /\ LogFairness

-----------------------------------------------------------------------------
(* Properties.                                                             *)

\* When the engine is disposed no accepted write is still waiting, running or
\* backing off; and at any time a request has exactly one row if its write
\* committed, however often it was retried, and none otherwise.
AcceptedWritesDecided ==
    /\ life = "disposed" => Pending = {}
    /\ \A r \in Exchanges : rows[r] = IF job[r] = "committed" THEN 1 ELSE 0
    /\ \A t \in Tasks : t \in Pending /\ job[t] # "queued" => gate = t

\* Shutdown ends: a cancelled retention loop that is in the middle of a busy or
\* failing cleanup does not go back to sleep, and the drain terminates.
ShutdownEnds == life = "stopping" ~> life = "disposed"

=============================================================================
