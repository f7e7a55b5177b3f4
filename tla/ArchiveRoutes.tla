--------------------------- MODULE ArchiveRoutes ---------------------------
(***************************************************************************)
(* The HTTP routes of Archive Pages.  A write names a Section in its path, *)
(* is admitted by a preflight in a read snapshot, then receives its body,  *)
(* and only then runs in a write transaction that authorizes it again.  A  *)
(* success leaves a receipt under the caller, the route and the key, and   *)
(* the same request may be sent again at any time: after its answer was    *)
(* lost, after the Page moved to another Section, went to the Trash or was *)
(* edited, and after the caller's rights changed.                          *)
(***************************************************************************)
EXTENDS Naturals, Sequences, SequencesExt, FiniteSets

CONSTANTS
    Agents, Connections,
    AgentOf,       \* connection -> the Agent whose token it presents
    Sections, Books,
    SectionOf,     \* Book -> its Section
    Pages,         \* Pages that may be created
    Keys,          \* Idempotency-Key values
    Rights,        \* what a credential may allow: Section -> actions
    MaxVersion,    \* bound on the states of a Page
    None           \* no call, no Book, no Page

ASSUME RoutesAssumption ==
    /\ AgentOf \in [Connections -> Agents]
    /\ SectionOf \in [Books -> Sections]
    /\ Rights \subseteq [Sections -> SUBSET {"query", "page.read", "archive.write"}]
    /\ MaxVersion \in Nat

VARIABLES
    history,    \* Page -> its states, oldest first; its ETag is their number
    rights,     \* Agent -> Section -> actions allowed now
    receipts,   \* recorded successes: agent, key, request, page, version
    calls       \* connection -> admitted request whose body is arriving, or None

routeVars == <<history, rights, receipts, calls>>

RoutesInit ==
    /\ history = [p \in Pages |-> <<>>]
    /\ rights \in [Agents -> Rights]
    /\ receipts = {}
    /\ calls = [c \in Connections |-> None]

\* A create carries a Book and no If-Match, the others a Page and one ETag.
Requests ==
    [route: {"create"}, section: Sections, book: Books, page: {None}, etag: {0}]
    \cup [route: {"revise", "occurrence", "delete", "restore"}, section: Sections,
          book: {None}, page: Pages, etag: 1 .. MaxVersion]

Exists(p) == history[p] # <<>>

Version(p) == Len(history[p])

SectionNow(p) == SectionOf[Last(history[p]).book]

May(a, s, action) == action \in rights[a][s]

----------------------------------------------------------------------------
(* Locating a recorded success.                                            *)

\* The receipt in the namespace of caller, route and key; there is one at most.
Stored(a, k, request) ==
    {r \in receipts : r.agent = a /\ r.key = k /\ r.request.route = request.route}

\* _find_replay_page: the stored answer names the path of this request.
NamesPath(r, request) ==
    /\ request.page \in {None, r.page}
    /\ r.section = request.section
    /\ request.book \in {None, r.book}

\* Mutant: the Section of the path, wherever the Page is by now.
SectionOfPath(a, k, request) == {request.section}

\* _replay_target_section: where a retry is authorized; none if the key was
\* used on another path, which looks like a missing resource.
TargetSection(a, k, request) ==
    IF Stored(a, k, request) = {} THEN {request.section}
    ELSE {SectionNow(r.page) : r \in {q \in Stored(a, k, request) : NamesPath(q, request)}}

\* _require_archive_access, and _authorize_archive_mutation in the transaction.
Admitted(a, k, request) ==
    \E s \in TargetSection(a, k, request) : May(a, s, "archive.write")

----------------------------------------------------------------------------
(* The write transaction.                                                  *)

\* _require_replay_state: the state the answer described is one of the Page's.
ReplayProved(r) ==
    /\ r.version <= Version(r.page)
    /\ LET state == history[r.page][r.version]
       IN  /\ SectionOf[state.book] = r.request.section
           /\ state.book = r.book
           /\ state.live = (r.request.route # "delete")

\* The state a request leaves: create, append_revision, correct_occurrence and
\* transition_page_lifecycle.
After(request, p) ==
    IF request.route = "create"
    THEN [book |-> request.book, live |-> TRUE, markdown |-> TRUE]
    ELSE [Last(history[p]) EXCEPT !.live = request.route # "delete"]

\* _require_route_section, If-Match, and what each operation asks of the Page.
Applies(request, p) ==
    IF request.route = "create"
    THEN ~Exists(p) /\ SectionOf[request.book] = request.section
    ELSE /\ p = request.page /\ Exists(p)
         /\ SectionNow(p) = request.section
         /\ Version(p) = request.etag
         /\ Last(history[p]).live = (request.route # "restore")
         /\ request.route = "revise" => Last(history[p]).markdown

\* What the transaction answers: the recorded success, a new one, or a refusal.
Outcome(a, k, request) ==
    IF ~Admitted(a, k, request) THEN "refused"
    ELSE IF Stored(a, k, request) # {}
         THEN LET r == CHOOSE q \in Stored(a, k, request) : NamesPath(q, request)
              IN  IF r.request # request THEN "conflict"
                  ELSE IF ReplayProved(r) THEN "replay" ELSE "corrupt"
    ELSE IF \E p \in Pages : Applies(request, p) THEN "fresh" ELSE "failed"

----------------------------------------------------------------------------
(* Requests.                                                               *)

\* Headers, authentication and preflight; the rest of the request follows.
Send(c, k, request) ==
    /\ calls[c] = None
    /\ Admitted(AgentOf[c], k, request)
    /\ calls' = [calls EXCEPT ![c] = [key |-> k, request |-> request]]
    /\ UNCHANGED <<history, rights, receipts>>

\* The body is cut off, malformed or too large, or has bytes where none belong.
RejectBody(c) ==
    /\ calls[c] # None
    /\ calls' = [calls EXCEPT ![c] = None]
    /\ UNCHANGED <<history, rights, receipts>>

\* _mutation_result runs to its end even when the client has gone: the answer
\* may be lost, the commit is not.
Perform(c) ==
    /\ calls[c] # None
    /\ calls' = [calls EXCEPT ![c] = None]
    /\ LET a == AgentOf[c]
           k == calls[c].key
           request == calls[c].request
       IN  IF Outcome(a, k, request) # "fresh" THEN UNCHANGED <<history, receipts>>
           ELSE \E p \in Pages :
                   /\ Applies(request, p) /\ Version(p) < MaxVersion
                   /\ history' = [history EXCEPT ![p] = Append(@, After(request, p))]
                   /\ receipts' = receipts \cup
                         {[agent |-> a, key |-> k, request |-> request, page |-> p,
                           section |-> request.section, book |-> After(request, p).book,
                           version |-> Version(p) + 1]}
    /\ UNCHANGED rights

\* What the administrator may make of a Page: moved or edited in place, edited
\* into a set of files, trashed, or, from the Trash, restored.
AdminStates(state) ==
    IF ~state.live THEN {[state EXCEPT !.live = TRUE]}
    ELSE {[state EXCEPT !.book = b] : b \in Books}
         \cup {[state EXCEPT !.markdown = FALSE], [state EXCEPT !.live = FALSE]}

AdminChange(p) ==
    /\ Exists(p) /\ Version(p) < MaxVersion
    /\ \E state \in AdminStates(Last(history[p])) :
          history' = [history EXCEPT ![p] = Append(@, state)]
    /\ UNCHANGED <<rights, receipts, calls>>

ChangeRights(a, r) ==
    /\ rights' = [rights EXCEPT ![a] = r]
    /\ UNCHANGED <<history, receipts, calls>>

RoutesNext ==
    \/ \E c \in Connections, k \in Keys, request \in Requests : Send(c, k, request)
    \/ \E c \in Connections : RejectBody(c) \/ Perform(c)
    \/ \E p \in Pages : AdminChange(p)
    \/ \E a \in Agents, r \in Rights : ChangeRights(a, r)

RoutesSpec == RoutesInit /\ [][RoutesNext]_routeVars

----------------------------------------------------------------------------
(* The Trash of a Section.                                                 *)

\* Mutant: the Trash is open to readers.
MayReadTrashAsReader(a, s, read) == May(a, s, read)

\* _require_trash_read_access: only for who may write there.
MayReadTrash(a, s, read) == May(a, s, "archive.write") /\ May(a, s, read)

\* _read_trash, which authorizes again in its own snapshot.
ReadTrash(a, s, read) ==
    {p \in Pages : /\ MayReadTrash(a, s, read)
                   /\ Exists(p) /\ SectionNow(p) = s /\ ~Last(history[p]).live}

\* list_trashed_pages and get_trashed_page show the Page with its ETag.
Trashed(a, s) == ReadTrash(a, s, "query") \cup ReadTrash(a, s, "page.read")

----------------------------------------------------------------------------
(* Properties.                                                             *)

\* The retry of a request that succeeded is judged by where its Page is now:
\* whoever may write there gets the original answer, wherever the Page went and
\* whatever became of it since; whoever may not learns nothing of it.
RetryFollowsThePage ==
    \A r \in receipts :
        Outcome(r.agent, r.key, r.request) =
            IF May(r.agent, SectionNow(r.page), "archive.write")
            THEN "replay" ELSE "refused"

\* An Agent that sees a Page in the Trash can restore it with the ETag it was
\* shown, under a key it has not used.
TrashIsRestorable ==
    \A a \in Agents, s \in Sections : \A p \in Trashed(a, s) :
        \A k \in {j \in Keys : \A r \in receipts : r.key # j} :
            Outcome(a, k, [route |-> "restore", section |-> s, book |-> None,
                           page |-> p, etag |-> Version(p)]) = "fresh"

=============================================================================
