---------------------------- MODULE PageRegister ----------------------------
(***************************************************************************)
(* What the page store promises its clients, without tables, clocks or     *)
(* hashes: every page is a register with numbered versions, and a request  *)
(* is a compare-and-set of one register that is answered at most once.     *)
(***************************************************************************)
EXTENDS Naturals

CONSTANTS
    Pages,     \* the registers
    Requests   \* names of requests: actor, operation and idempotency key

VARIABLES
    version,   \* page -> number of its current version, 0 before creation
    answered   \* the successful answers: the request's name and page, the
               \* version it was based on and the version it was answered with

vars == <<version, answered>>

Init ==
    /\ version = [p \in Pages |-> 0]
    /\ answered = {}

\* A request is answered for the first time; what it was based on is the
\* current version of its page (0 creates the page).
Answer(name, p, wrote) ==
    /\ \A a \in answered : a.name # name
    /\ answered' = answered \cup
          {[name |-> name, page |-> p, read |-> version[p], wrote |-> wrote]}

\* The request changes the page: its answer is the very next version.
Write(name, p) ==
    /\ version' = [version EXCEPT ![p] = @ + 1]
    /\ Answer(name, p, version[p] + 1)

\* The page already is what the request asks for.
Confirm(name, p) ==
    /\ version[p] > 0
    /\ UNCHANGED version
    /\ Answer(name, p, version[p])

\* A change that leaves no answer behind: the administrator's forms.
Edit(p) ==
    /\ version[p] > 0
    /\ version' = [version EXCEPT ![p] = @ + 1]
    /\ UNCHANGED answered

Next ==
    \E p \in Pages :
        \/ \E name \in Requests : Write(name, p) \/ Confirm(name, p)
        \/ Edit(p)

Spec == Init /\ [][Next]_vars
=============================================================================
