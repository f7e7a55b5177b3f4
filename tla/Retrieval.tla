------------------------------ MODULE Retrieval ------------------------------
(***************************************************************************)
(* Reading a listing in several requests.  A client follows the cursors of *)
(* one listing from its first request to the answer without a next cursor, *)
(* while Pages are written, rights change and tokens are revoked between   *)
(* its requests and between the two transactions of one request: the first *)
(* authenticates and captures the caller, the second reads everything else *)
(* in one SQLite snapshot.                                                 *)
(*                                                                         *)
(* The listings differ in what a cursor is bound to.  Section, Page and    *)
(* Library listings sign the last key together with the caller, its policy *)
(* version and the request; search also signs a fingerprint of the whole   *)
(* ranking; the administrator's Book and Trash pages and a Page's history  *)
(* carry the bare last key.                                                *)
(***************************************************************************)
EXTENDS Integers, Sequences, FiniteSets

CONSTANTS
    Pages,        \* page_id values, in their order
    Sections,     \* section ids, in their order
    Here,         \* the Section (and Book) that is listed
    Watched,      \* the Page whose history is listed
    Stamps,       \* occurred_at and deleted_at values
    Limits,       \* page sizes a request may ask for
    AdminLimit,   \* _BOOK_PAGE_SIZE, and the 20 of list_trash
    Routes,       \* the listings
    MaxRevision,  \* bound on revision numbers
    MaxWrites,    \* bound on writes
    Absent,       \* no pages row
    NoCursor,     \* no cursor, no context, no binding
    Refused       \* a cursor that does not decode under the binding

ASSUME RetrievalConstants ==
    /\ Pages \subseteq Nat /\ Sections \subseteq Nat /\ Stamps \subseteq Nat \ {0}
    /\ IsFiniteSet(Pages) /\ IsFiniteSet(Sections)
    /\ Here \in Sections /\ Watched \in Pages
    /\ Limits \subseteq Nat \ {0} /\ AdminLimit \in Nat \ {0}
    /\ MaxRevision \in Nat \ {0, 1} /\ MaxWrites \in Nat
    /\ Routes \subseteq {"sections", "pages", "library", "search", "book", "trash", "history",
                        "preview", "current", "locate", "revision", "file"}

\* An item of a listing: what it is ordered by, then its id.
Keys == Nat \X Nat

\* What a cursor may be bound to.
Bindings ==
    {NoCursor}
    \cup [version: Nat, limit: Limits]
    \cup [version: Nat, limit: Limits, mode: {"legacy", "library"}, rights: BOOLEAN]
    \cup [version: Nat, limit: Limits, grants: (SUBSET Sections) \X BOOLEAN,
          ranking: Seq(Keys \X Nat \X Sections)]

ASSUME NoCursorAssumption ==
    /\ NoCursor \notin Keys \cup [version: Nat] \cup [binding: Bindings, key: Keys]
    /\ Refused \notin Keys \cup {NoCursor}

VARIABLES
    rows,       \* pages: where a Page is, when it occurred, its Trash time (0: live)
    mode,       \* the credential's policy: "legacy" Section grants or "library" grants
    queryable,  \* Sections the caller holds section:query and page:read for
    readable,   \* the Library grant's read action
    version,    \* policy_version of the caller
    live,       \* the credential and its caller are active
    session,    \* the administrator's session generation is current
    writes,     \* number of writes so far
    request,    \* the AuthenticatedRequestContext of the running request
    pass        \* the client's walk through a listing

retrievalVars == <<rows, mode, queryable, readable, version, live, session, writes,
                   request, pass>>

IsLive(p) == rows[p] # Absent /\ rows[p].deleted = 0

InHere(p) == IsLive(p) /\ rows[p].place = Here

-----------------------------------------------------------------------------
(* Listings.  An item is <<major, id>>; every listing is ordered by major  *)
(* descending, then id ascending.                                          *)

Precedes(a, b) == a[1] > b[1] \/ (a[1] = b[1] /\ a[2] < b[2])

\* ORDER BY: the item with n - 1 others before it comes n-th.
InOrder(items) ==
    [n \in 1 .. Cardinality(items) |->
        CHOOSE i \in items : Cardinality({j \in items : Precedes(j, i)}) = n - 1]

\* list_queryable_sections and list_sections
SectionItems == {<<0, s>> : s \in IF mode = "legacy" THEN queryable ELSE Sections}

\* RetrievalRepository.list_pages: live Pages of the Section by page_id.
PageItems == {<<0, p>> : p \in {q \in Pages : InHere(q)}}

\* The administrator's Book page: newest occurrence first.
BookItems == {<<rows[p].occurred, p>> : p \in {q \in Pages : InHere(q)}}

\* _trash_query: latest deletion first, wherever the Page was.
TrashItems ==
    {<<rows[p].deleted, p>> : p \in {q \in Pages : rows[q] # Absent /\ ~IsLive(q)}}

\* FileSetReadService.list_revisions: numbers up to the current one.
HistoryItems == IF InHere(Watched) THEN {<<n, 0>> : n \in 1 .. rows[Watched].rev} ELSE {}

\* _current_scope: without a readable Section or Library the search is empty.
SearchScope ==
    {q \in Pages : IsLive(q) /\ IF mode = "legacy" THEN rows[q].place \in queryable ELSE readable}

\* _search_pages: what the keyword matches in the readable scope, ranked.
SearchItems == {<<rows[p].occurred, p>> : p \in {q \in SearchScope : rows[q].match}}

\* AdminReadModel._get_page: the history beside a Page shown in the console.
PreviewItems == IF IsLive(Watched) THEN {<<n, 0>> : n \in 1 .. rows[Watched].rev} ELSE {}

\* read_verified_revision_snapshot: a Revision is written with its files, its
\* manifest and both seals in one transaction, so a number that exists verifies.
Verified(n) == n \in 1 .. rows[Watched].rev

\* The exact Revision a caller asks for under the Page's present Section.
RevisionItems(n) == IF InHere(Watched) /\ Verified(n) THEN {<<n, Watched>>} ELSE {}

\* exact_file: the console's download, text and image of one saved Revision.
FileItems(n) == IF IsLive(Watched) /\ Verified(n) THEN {<<n, Watched>>} ELSE {}

\* get_page: a live Page asked for under its present Section.
CurrentItems == IF InHere(Watched) THEN {<<rows[Watched].rev, Watched>>} ELSE {}

\* get_page_by_id: a live Page wherever it is in the Library.
LocatedItems == IF IsLive(Watched) THEN {<<rows[Watched].rev, Watched>>} ELSE {}

Items(route, n) ==
    CASE route = "sections" -> SectionItems
      [] route \in {"pages", "library"} -> PageItems
      [] route = "search" -> SearchItems
      [] route = "book" -> BookItems
      [] route = "trash" -> TrashItems
      [] route = "history" -> HistoryItems
      [] route = "current" -> CurrentItems
      [] route = "locate" -> LocatedItems
      [] route = "preview" -> PreviewItems
      [] route = "revision" -> RevisionItems(n)
      [] route = "file" -> FileItems(n)

\* The ranked rows with everything _ranked_fingerprint digests.
Ranking == [i \in 1 .. Cardinality(SearchItems) |->
              LET item == InOrder(SearchItems)[i]
              IN  <<item, rows[item[2]].rev, rows[item[2]].place>>]

-----------------------------------------------------------------------------
(* Cursors.                                                                *)

\* Mutant: the condition keeps the row the cursor names.
BeyondOrAt(after, item) == after = NoCursor \/ after = item \/ Precedes(after, item)

\* The keyset condition: strictly after the last key of the previous answer.
Beyond(after, item) == after = NoCursor \/ Precedes(after, item)

\* CursorCodec.encode: the last key with the digest of the binding.
Encode(binding, key) == [binding |-> binding, key |-> key]

\* CursorCodec.decode: the digest must be that of this request's binding.
Decode(cursor, binding) ==
    IF cursor = NoCursor THEN NoCursor
    ELSE IF cursor.binding = binding THEN cursor.key ELSE Refused

\* _binding: what the route knows before it reads, from the authentication.
ContextBinding(limit) == [version |-> request.version, limit |-> limit]

\* library_page_cursor_binding: rights and version of the read snapshot.
LibraryBinding(limit) ==
    [version |-> version, limit |-> limit, mode |-> mode,
     rights |-> IF mode = "legacy" THEN Here \in queryable ELSE readable]

\* Mutant: the ranking is not part of the binding.
SearchBindingWithoutRanking(limit) ==
    [version |-> version, limit |-> limit, grants |-> <<queryable, readable>>, ranking |-> << >>]

\* _cursor_binding: principal, policy, grants and the fingerprint of the ranking.
SearchBinding(limit) ==
    [version |-> version, limit |-> limit, grants |-> <<queryable, readable>>,
     ranking |-> Ranking]

-----------------------------------------------------------------------------
(* Answers.                                                                *)

\* The pages of a listing after a key: RetrievalRepository._page reads
\* limit + 1 rows, shows limit and names the last one when there are more.
Shown(items, after, limit) ==
    LET rest == InOrder({i \in items : Beyond(after, i)})
    IN  SubSeq(rest, 1, IF Len(rest) < limit THEN Len(rest) ELSE limit)

More(items, after, limit) == Cardinality({i \in items : Beyond(after, i)}) > limit

\* A refusal ends the walk: 400, 401, 403 and 404 problems.
Refuse ==
    /\ pass' = [pass EXCEPT !.status = "refused"]
    /\ request' = NoCursor

\* The client appends the items and keeps the next cursor.
Answer(items, after, limit, binding) ==
    LET shown == Shown(items, after, limit)
        more == More(items, after, limit)
    IN  /\ pass' = [pass EXCEPT
              !.got = @ \o shown,
              !.status = IF more THEN "open" ELSE "complete",
              !.cursor = IF more THEN Encode(binding, shown[Len(shown)]) ELSE NoCursor,
              !.stayed = IF pass.status = "fresh" THEN items ELSE @,
              !.first = IF pass.status = "fresh" THEN Ranking ELSE @]
        /\ request' = NoCursor

\* Nothing a read transaction does changes the database.
ReadOnly == UNCHANGED <<rows, mode, queryable, readable, version, live, session, writes>>

Asked(route) == pass.route = route /\ pass.status \in {"fresh", "open"} /\ request # NoCursor

\* Mutant: the caller that authenticated is trusted for the whole request.
TrustAuthentication == TRUE

\* _require_current_agent: the credential that authenticated is still active
\* in the read snapshot.
RequireCurrentAgent == live

\* _require_action, for the legacy routes.
RequireAction == IF mode = "legacy" THEN Here \in queryable ELSE readable

\* _require_library_section_action and _require_discovery_agent
RequireLibrarySection == RequireCurrentAgent /\ RequireAction

\* RetrievalService.list_sections: legacy callers see what they are granted.
MayListSections == RequireCurrentAgent /\ (mode = "library" => readable)

\* RetrievalService.list_pages
MayListPages == RequireCurrentAgent /\ RequireAction

\* FileSetReadService._visible_page
VisiblePage == RequireCurrentAgent /\ RequireAction /\ InHere(Watched)

\* get_library_page: a legacy caller needs page:read where the Page is now.
MayLocate ==
    /\ RequireCurrentAgent
    /\ IsLive(Watched)
    /\ IF mode = "legacy" THEN rows[Watched].place \in queryable ELSE readable

\* BrowserAuth.read: the session's generation is checked in the read snapshot.
BrowserRead == session

-----------------------------------------------------------------------------
(* The two transactions of a request.                                      *)

\* The listings of the administrator's console.
Console == {"book", "trash", "preview", "file"}

\* BearerAuthentication; the administrator's cookie carries its generation.
Authenticate ==
    /\ request = NoCursor
    /\ pass.status \in {"fresh", "open"}
    /\ IF pass.route \in Console \/ live
       THEN request' = [version |-> version] /\ UNCHANGED pass
       ELSE Refuse
    /\ ReadOnly

ListSections ==
    /\ Asked("sections")
    /\ LET binding == ContextBinding(pass.limit)
           after == Decode(pass.cursor, binding)
       IN  IF after = Refused \/ ~MayListSections THEN Refuse
           ELSE Answer(SectionItems, after, pass.limit, binding)
    /\ ReadOnly

ListPages ==
    /\ Asked("pages")
    /\ LET binding == ContextBinding(pass.limit)
           after == Decode(pass.cursor, binding)
       IN  IF after = Refused \/ ~MayListPages THEN Refuse
           ELSE Answer(PageItems, after, pass.limit, binding)
    /\ ReadOnly

\* The binding is built inside the snapshot, after the rights were checked.
ListLibraryPages ==
    /\ Asked("library")
    /\ LET binding == LibraryBinding(pass.limit)
           after == Decode(pass.cursor, binding)
       IN  IF ~RequireLibrarySection \/ after = Refused THEN Refuse
           ELSE Answer(PageItems, after, pass.limit, binding)
    /\ ReadOnly

\* _cursor_start: the key is a position in the ranking, the one after what was
\* shown so far, and that row's own key.
CursorStart(after) ==
    \/ after = NoCursor
    \/ /\ Len(pass.got) <= Len(Ranking)
       /\ Ranking[Len(pass.got)][1] = after

SearchPages ==
    /\ Asked("search")
    /\ LET binding == SearchBinding(pass.limit)
           after == Decode(pass.cursor, binding)
       IN  IF ~RequireCurrentAgent \/ after = Refused \/ ~CursorStart(after) THEN Refuse
           ELSE Answer(SearchItems, after, pass.limit, binding)
    /\ ReadOnly

\* get_book_page: the Page the cursor names must still be where it was.
Anchored(after) == after = NoCursor \/ after \in BookItems

BookPage ==
    /\ Asked("book")
    /\ LET after == Decode(pass.cursor, NoCursor)
       IN  IF ~BrowserRead \/ ~Anchored(after) THEN Refuse
           ELSE Answer(BookItems, after, AdminLimit, NoCursor)
    /\ ReadOnly

ListTrash ==
    /\ Asked("trash")
    /\ IF ~BrowserRead THEN Refuse
       ELSE Answer(TrashItems, Decode(pass.cursor, NoCursor), AdminLimit, NoCursor)
    /\ ReadOnly

\* The numbers listed run down from the current one without a gap.
ListRevisions ==
    /\ Asked("history")
    /\ IF ~VisiblePage THEN Refuse
       ELSE Answer(HistoryItems, Decode(pass.cursor, NoCursor), pass.limit, NoCursor)
    /\ ReadOnly

\* current_files and get_current_page: pointer, files and ETag in one snapshot.
ReadCurrent ==
    /\ Asked("current")
    /\ IF ~VisiblePage THEN Refuse ELSE Answer(CurrentItems, NoCursor, 1, NoCursor)
    /\ ReadOnly

\* get_revision, list_files and get_file: an exact Revision stays readable
\* under its number while the Page is where it was asked for.
ReadRevision ==
    /\ Asked("revision")
    /\ IF ~VisiblePage \/ RevisionItems(pass.limit) = {} THEN Refuse
       ELSE Answer(RevisionItems(pass.limit), NoCursor, 1, NoCursor)
    /\ ReadOnly

\* before_revision_number may not point beyond the current Revision.
PagePreview ==
    /\ Asked("preview")
    /\ LET after == Decode(pass.cursor, NoCursor)
       IN  IF ~BrowserRead \/ ~IsLive(Watched) THEN Refuse
           ELSE IF after # NoCursor /\ after[1] > rows[Watched].rev + 1 THEN Refuse
           ELSE Answer(PreviewItems, after, AdminLimit, NoCursor)
    /\ ReadOnly

ReadFile ==
    /\ Asked("file")
    /\ IF ~BrowserRead \/ FileItems(pass.limit) = {} THEN Refuse
       ELSE Answer(FileItems(pass.limit), NoCursor, 1, NoCursor)
    /\ ReadOnly

LocatePage ==
    /\ Asked("locate")
    /\ IF ~MayLocate THEN Refuse ELSE Answer(LocatedItems, NoCursor, 1, NoCursor)
    /\ ReadOnly

-----------------------------------------------------------------------------
(* Writers.                                                                *)

\* What has been in the listing at every moment since the first answer.
Keep ==
    \E route \in {pass.route}, n \in {pass.limit} :
        pass' = [pass EXCEPT !.stayed = @ \cap Items(route, n)']

\* The bound on the writes of a behaviour.
Disturb == writes < MaxWrites /\ writes' = writes + 1

Write(p, row) ==
    /\ Disturb
    /\ row # rows[p]
    /\ rows' = [rows EXCEPT ![p] = row]
    /\ UNCHANGED <<mode, queryable, readable, version, live, session, request>>
    /\ Keep

CreatePage(p) ==
    /\ rows[p] = Absent
    /\ \E at \in Stamps, m \in BOOLEAN :
          Write(p, [place |-> Here, occurred |-> at, deleted |-> 0, rev |-> 1, match |-> m])

RevisePage(p) ==
    /\ IsLive(p) /\ rows[p].rev < MaxRevision
    /\ \E m \in BOOLEAN : Write(p, [rows[p] EXCEPT !.rev = @ + 1, !.match = m])

MovePage(p) == IsLive(p) /\ \E s \in Sections : Write(p, [rows[p] EXCEPT !.place = s])

CorrectOccurrence(p) ==
    IsLive(p) /\ \E at \in Stamps : Write(p, [rows[p] EXCEPT !.occurred = at])

DeletePage(p) == IsLive(p) /\ \E at \in Stamps : Write(p, [rows[p] EXCEPT !.deleted = at])

RestorePage(p) == rows[p] # Absent /\ ~IsLive(p) /\ Write(p, [rows[p] EXCEPT !.deleted = 0])

\* grant_section and revoke_section advance the caller's policy_version.
ChangeSectionGrant(s) ==
    /\ mode = "legacy" /\ Disturb
    /\ queryable' = IF s \in queryable THEN queryable \ {s} ELSE queryable \cup {s}
    /\ version' = version + 1
    /\ UNCHANGED <<rows, mode, readable, live, session, request>>
    /\ Keep

\* Library grants are rows of the credential; the caller's version stays.
ChangeLibraryGrant ==
    /\ mode = "library" /\ Disturb
    /\ readable' = ~readable
    /\ UNCHANGED <<rows, mode, queryable, version, live, session, request>>
    /\ Keep

\* Revocation, rotation, expiry or disabling of the caller.
EndCredential ==
    /\ live /\ live' = FALSE
    /\ Disturb
    /\ UNCHANGED <<rows, mode, queryable, readable, version, session, request, pass>>

\* Rotation of the master token ends the session.
EndSession ==
    /\ session /\ session' = FALSE
    /\ Disturb
    /\ UNCHANGED <<rows, mode, queryable, readable, version, live, request, pass>>

-----------------------------------------------------------------------------
Writers ==
    \/ \E p \in Pages : \/ CreatePage(p) \/ RevisePage(p) \/ MovePage(p)
                        \/ CorrectOccurrence(p) \/ DeletePage(p) \/ RestorePage(p)
    \/ \E s \in Sections : ChangeSectionGrant(s)
    \/ ChangeLibraryGrant
    \/ EndCredential
    \/ EndSession

Readers ==
    \/ Authenticate
    \/ ListSections \/ ListPages \/ ListLibraryPages \/ SearchPages
    \/ BookPage \/ ListTrash \/ ListRevisions \/ ReadCurrent \/ LocatePage
    \/ ReadRevision \/ PagePreview \/ ReadFile

\* A bound: writers before the first request lead to another initial state,
\* and what they do after the last answer the walk cannot see.
Walking == request # NoCursor \/ pass.status = "open"

RetrievalNext == (Walking /\ Writers) \/ Readers

\* The rows a run starts from; every one is the result of the writers above.
RetrievalInit ==
    /\ rows \in [Pages -> {Absent}
                   \cup [place: {Here}, occurred: Stamps, deleted: {0}, rev: {MaxRevision - 1},
                         match: {TRUE}]
                   \cup [place: {Here}, occurred: {1}, deleted: Stamps, rev: {1},
                         match: {TRUE}]]
    /\ mode \in {"legacy", "library"}
    /\ queryable = IF mode = "legacy" THEN Sections ELSE {}
    /\ readable = (mode = "library")
    /\ version = 1
    /\ live = TRUE /\ session = TRUE
    /\ writes = 0
    /\ request = NoCursor
    /\ pass \in [route: Routes, limit: Limits, status: {"fresh"}, cursor: {NoCursor},
                 got: {<< >>}, stayed: {{}}, first: {<< >>}]

RetrievalSpec == RetrievalInit /\ [][RetrievalNext]_retrievalVars

-----------------------------------------------------------------------------
(* Properties.                                                             *)

Times(item) == Cardinality({i \in DOMAIN pass.got : pass.got[i] = item})

\* Whatever is written between the requests, an entry that was in the listing,
\* under the same key, at every moment of a walk is shown at most once, and
\* exactly once when the walk ends without a further cursor: the keyset
\* conditions of retrieval/repository.py, admin/read_model.py and
\* file_set_read.py neither skip nor repeat a row.
ListedExactlyOnce ==
    \A item \in pass.stayed :
        /\ Times(item) <= 1
        /\ pass.status = "complete" => Times(item) = 1

\* No answer reaches a caller that lost its token or its rights before the
\* read snapshot of that answer, even when they were lost after the request
\* authenticated (_perform_read keeps the rechecks and the content in one
\* snapshot).
AnswersOnlyTheAdmitted ==
    [][Len(pass'.got) > Len(pass.got) =>
        CASE pass.route \in Console -> session
          [] pass.route = "sections" -> live
          [] pass.route = "search" -> live /\ (queryable # {} \/ readable)
          [] pass.route = "locate" -> live /\ (rows[Watched].place \in queryable \/ readable)
          [] OTHER -> live /\ (Here \in queryable \/ readable)]_retrievalVars

\* The pages of one search are consecutive parts of one ranking: a search
\* walk shows a prefix of the ranking its first answer was cut from, with the
\* revisions of that ranking, and all of it when it completes.  A change that
\* would reorder, insert or drop a result refuses the cursor instead
\* (search/service_v2.py _cursor_binding).
SearchWalksOneRanking ==
    pass.route = "search" /\ pass.status \in {"open", "complete"} =>
        LET shown == [i \in DOMAIN pass.got |-> pass.first[i][1]]
        IN  /\ Len(pass.got) <= Len(pass.first)
            /\ pass.got = shown
            /\ pass.status = "complete" => Len(pass.got) = Len(pass.first)
=============================================================================
