----------------------------- MODULE SearchIndex -----------------------------
(***************************************************************************)
(* The search index: a disposable projection of the current Pages, kept    *)
(* inside the same SQLite database.  Triggers mark every Page a write      *)
(* touches dirty; database.immediate_transaction projects the Pages its    *)
(* own transaction dirtied just before COMMIT.  A writer that bypasses it, *)
(* an index that is not ready, or software of another index version leave  *)
(* dirty rows behind.  A reader answers only when the index is ready and   *)
(* nothing dirty or missing can concern the Sections it may see.           *)
(*                                                                         *)
(* The Pages are PageStore's, reduced to the columns the index projects.   *)
(* A write transaction is one action; one that fails rolls back with its   *)
(* dirty rows and is a stuttering step.                                    *)
(***************************************************************************)
EXTENDS Naturals, FiniteSets

CONSTANTS
    Pages,          \* page_uid values that may be allocated
    Sections,       \* Sections of the Library
    Scopes,         \* the sets of Sections readers are granted
    Titles,         \* searchable text of a Page
    Occurrences,    \* occurred_at values
    Versions,       \* INDEX_VERSION values of the deployed software
    MaxRevision,    \* bound on revision numbers
    MaxSequence,    \* bound on dirty_sequence
    MaxGeneration,  \* bound on generations built
    NoPage,         \* absence of a page row
    NoState,        \* absence of a search_page_state row
    NoBackup        \* no backup has been taken

Row == [section: Sections, title: Titles, occurred: Occurrences,
        rev: 1 .. MaxRevision, deleted: BOOLEAN, tagged: BOOLEAN]

\* search_page_state with its search_documents; by is the version that
\* wrote the documents.
State == [section: Sections, title: Titles, occurred: Occurrences,
          rev: 1 .. MaxRevision, by: Versions]

Generations == 1 .. MaxGeneration

ASSUME SearchConstants ==
    /\ MaxRevision \in Nat /\ MaxSequence \in Nat /\ MaxGeneration \in Nat
    /\ \A scope \in Scopes : scope \subseteq Sections
    /\ NoPage \notin Row /\ NoState \notin State

VARIABLES
    pages,          \* page_uid -> row, with whether it carries the Tag
    dirty,          \* search_dirty_pages: page_uid -> seq, 0 without a row
    dirtySequence,  \* search_meta.dirty_sequence
    meta,           \* search_meta: ready, active generation (0: NULL), version
    generations,    \* search_generations: generation -> state and version
    lastGeneration, \* sqlite_sequence of search_generations
    index,          \* generation -> page_uid -> search_page_state
    running,        \* INDEX_VERSION of the running software
    backup          \* the authority part of the last backup bundle

searchVars == <<pages, dirty, dirtySequence, meta, generations, lastGeneration,
                index, running, backup>>

Unbuilt == [state |-> "none", version |-> "none"]

Empty == [p \in Pages |-> NoState]

----------------------------------------------------------------------------
(* Projection.                                                             *)

\* _project_page: the complete replacement for one Page, by software of the
\* version; a Page that is missing or in the Trash is only erased.
Project(row, version) ==
    IF row = NoPage THEN NoState
    ELSE IF row.deleted THEN NoState
    ELSE [section |-> row.section, title |-> row.title,
          occurred |-> row.occurred, rev |-> row.rev, by |-> version]

\* Mutant: the page trigger forgets the title column.
TriggersMarkWithoutTitle(old, new) ==
    IF old = NoPage THEN TRUE ELSE [old EXCEPT !.title = new.title] # new

\* trg_search_pages_insert, trg_search_pages_update_old and the page_tags and
\* revision triggers: which row changes mark the Page dirty.
TriggersMark(old, new) == old # new

\* flush_dirty_since and require_ready_index: the active generation is ready
\* and was built by this version.
Usable ==
    /\ meta.ready
    /\ meta.generation # 0
    /\ meta.version = running

GenerationReady ==
    /\ generations[meta.generation].state = "ready"
    /\ generations[meta.generation].version = running

\* What is left of a dirty row after the flush: rows of this transaction are
\* deleted one by one, older ones stay.
StillDirty(q, dirtied) == IF dirtied[q] > dirtySequence THEN 0 ELSE dirtied[q]

\* flush_dirty_since(start), start being dirty_sequence at BEGIN.
FlushDirtySince(dirtied) ==
    IF Usable
    THEN /\ GenerationReady
         /\ index' = [index EXCEPT ![meta.generation] =
               [q \in Pages |-> IF dirtied[q] > dirtySequence
                                THEN Project(pages'[q], running) ELSE @[q]]]
         /\ dirty' = [q \in Pages |-> StillDirty(q, dirtied)]
    ELSE index' = index /\ dirty' = dirtied

----------------------------------------------------------------------------
(* Writers.                                                                *)

\* The rows one handler may leave in the place of a Page's row: creation, or
\* a new Revision, title, occurrence, Section, Trash state or Tag.
Changes(p) ==
    IF pages[p] = NoPage
    THEN {[section |-> s, title |-> t, occurred |-> o, rev |-> 1,
           deleted |-> FALSE, tagged |-> FALSE] :
             s \in Sections, t \in Titles, o \in Occurrences}
    ELSE LET row == pages[p]
         IN  {[row EXCEPT !.deleted = ~@]}
             \cup (IF row.deleted THEN {} ELSE
                   {[row EXCEPT !.section = s] : s \in Sections}
                   \cup {[row EXCEPT !.title = t] : t \in Titles}
                   \cup {[row EXCEPT !.occurred = o] : o \in Occurrences}
                   \cup {[row EXCEPT !.tagged = ~@]}
                   \cup (IF row.rev < MaxRevision
                         THEN {[row EXCEPT !.rev = @ + 1, !.title = t] : t \in Titles}
                         ELSE {}))

\* Triggers: next dirty_sequence, and the row of p set to it.
Dirtied(p) == [dirty EXCEPT ![p] = dirtySequence + 1]

\* A handler inside immediate_transaction changes Page p.
CoordinatedWrite(p) ==
    \E row \in Changes(p) :
        /\ row # pages[p]
        /\ dirtySequence < MaxSequence
        /\ pages' = [pages EXCEPT ![p] = row]
        /\ IF TriggersMark(pages[p], row)
           THEN /\ dirtySequence' = dirtySequence + 1
                /\ FlushDirtySince(Dirtied(p))
           ELSE UNCHANGED <<dirtySequence, dirty, index>>
        /\ UNCHANGED <<meta, generations, lastGeneration, running, backup>>

\* A writer outside immediate_transaction: only the triggers see it.
BypassedWrite(p) ==
    \E row \in Changes(p) :
        /\ row # pages[p]
        /\ dirtySequence < MaxSequence
        /\ pages' = [pages EXCEPT ![p] = row]
        /\ IF TriggersMark(pages[p], row)
           THEN dirtySequence' = dirtySequence + 1 /\ dirty' = Dirtied(p)
           ELSE UNCHANGED <<dirtySequence, dirty>>
        /\ UNCHANGED <<index, meta, generations, lastGeneration, running, backup>>

----------------------------------------------------------------------------
(* Maintenance.                                                            *)

\* The documents and page states of a replaced generation are deleted.
Erased(g) == Empty

\* rebuild_search_index: a new generation from the live Pages, activated,
\* every dirty row cleared and the old generation erased and retired, all in
\* one transaction.
RebuildSearchIndex ==
    LET g == lastGeneration + 1
        old == meta.generation
    IN  /\ g \in Generations
        /\ lastGeneration' = g
        /\ index' = [h \in Generations |->
              IF h = g THEN [p \in Pages |-> Project(pages[p], running)]
              ELSE IF h = old THEN Erased(h) ELSE index[h]]
        /\ generations' = [h \in Generations |->
              IF h = g THEN [state |-> "ready", version |-> running]
              ELSE IF h = old THEN [generations[h] EXCEPT !.state = "retired"]
              ELSE generations[h]]
        /\ meta' = [ready |-> TRUE, generation |-> g, version |-> running]
        /\ dirty' = [p \in Pages |-> 0]
        /\ UNCHANGED <<pages, dirtySequence, running, backup>>

\* Other software is started on the same database.
Deploy(version) ==
    /\ version # running
    /\ running' = version
    /\ UNCHANGED <<pages, dirty, dirtySequence, meta, generations,
                   lastGeneration, index, backup>>

\* create_backup: the copied database with its search tables reset.
CreateBackup ==
    /\ backup = NoBackup
    /\ backup' = [pages |-> pages, dirty |-> dirty, sequence |-> dirtySequence,
                  last |-> lastGeneration, version |-> meta.version]
    /\ UNCHANGED <<pages, dirty, dirtySequence, meta, generations,
                   lastGeneration, index, running>>

\* The operator replaces the database by the one restored from the bundle.
RestoreBackup ==
    /\ backup # NoBackup
    /\ pages' = backup.pages
    /\ dirty' = backup.dirty
    /\ dirtySequence' = backup.sequence
    /\ lastGeneration' = backup.last
    /\ meta' = [ready |-> FALSE, generation |-> 0, version |-> backup.version]
    /\ generations' = [g \in Generations |-> Unbuilt]
    /\ index' = [g \in Generations |-> Empty]
    /\ UNCHANGED <<running, backup>>

----------------------------------------------------------------------------

\* After the schema migration: every existing Page dirty, nothing indexed.
SearchInit ==
    /\ \E s \in Sections, t \in Titles, o \in Occurrences,
          existing \in SUBSET Pages :
          /\ pages = [p \in Pages |->
                IF p \in existing
                THEN [section |-> s, title |-> t, occurred |-> o, rev |-> 1,
                      deleted |-> FALSE, tagged |-> FALSE]
                ELSE NoPage]
          /\ dirty = [p \in Pages |-> IF p \in existing THEN 1 ELSE 0]
          /\ dirtySequence = IF existing = {} THEN 0 ELSE 1
    /\ running \in Versions
    /\ meta = [ready |-> FALSE, generation |-> 0, version |-> running]
    /\ generations = [g \in Generations |-> Unbuilt]
    /\ lastGeneration = 0
    /\ index = [g \in Generations |-> Empty]
    /\ backup = NoBackup

SearchNext ==
    \/ \E p \in Pages : CoordinatedWrite(p)
    \/ \E p \in Pages : BypassedWrite(p)
    \/ RebuildSearchIndex
    \/ \E version \in Versions : Deploy(version)
    \/ CreateBackup
    \/ RestoreBackup

SearchSpec == SearchInit /\ [][SearchNext]_searchVars

----------------------------------------------------------------------------
(* Readers: one read transaction, so one state.                            *)

Live(p) == IF pages[p] = NoPage THEN FALSE ELSE ~pages[p].deleted

Indexed(p) == index[meta.generation][p]

\* _section_predicate for the authority and for the projection.
PageIn(p, scope) == IF pages[p] = NoPage THEN FALSE ELSE pages[p].section \in scope
IndexedIn(p, scope) == IF Indexed(p) = NoState THEN FALSE ELSE Indexed(p).section \in scope

\* _check_scope_integrity, first query.
NoDirtyPage(scope) ==
    \A p \in Pages : dirty[p] > 0 => ~PageIn(p, scope) /\ ~IndexedIn(p, scope)

\* The join of search_page_state with pages on the copied columns.
StateMatches(p) ==
    IF Indexed(p) = NoState \/ pages[p] = NoPage THEN FALSE
    ELSE /\ Indexed(p).section = pages[p].section
         /\ Indexed(p).rev = pages[p].rev
         /\ Indexed(p).occurred = pages[p].occurred

\* _check_scope_integrity, second query.
ScopeComplete(scope) ==
    \A p \in Pages : Live(p) /\ PageIn(p, scope) => StateMatches(p)

\* The search is answered, not refused with 503.
Served(scope) ==
    /\ Usable
    /\ GenerationReady
    /\ NoDirtyPage(scope)
    /\ ScopeComplete(scope)

\* _rows_for_scope: Pages whose indexed documents match the text.
Hits(scope, text) ==
    {p \in Pages : Live(p) /\ PageIn(p, scope) /\ StateMatches(p)
                     /\ Indexed(p).title = text}

\* Reference: a scan of the authority.
Scan(scope, text) ==
    {p \in Pages : Live(p) /\ PageIn(p, scope) /\ pages[p].title = text}

----------------------------------------------------------------------------
(* Properties.                                                             *)

\* A Page without a dirty row is projected as it is, by the version that
\* built the active generation.
CleanPagesProjected ==
    meta.generation # 0 =>
        \A p \in Pages : dirty[p] = 0 =>
            Indexed(p) = Project(pages[p], meta.version)

\* A search that is answered is exact: whatever mix of coordinated and
\* bypassed writers, rebuilds, software versions and restored backups came
\* before, a served scope returns exactly the Pages a scan of the authority
\* would, from documents the running version wrote.
SearchNeverStale ==
    \A scope \in Scopes : Served(scope) =>
        /\ \A text \in Titles : Hits(scope, text) = Scan(scope, text)
        /\ \A p \in Pages : StateMatches(p) /\ PageIn(p, scope) => Indexed(p).by = running

=============================================================================
