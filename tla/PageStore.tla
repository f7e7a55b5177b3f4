----------------------------- MODULE PageStore -----------------------------
(***************************************************************************)
(* The Archive pages of one Library: the pages table, its revisions, the   *)
(* four append-only event tables (occurrence corrections, lifecycle, title *)
(* and move events), the audit logs and the durable idempotency receipts.  *)
(*                                                                         *)
(* Every write handler runs inside database.immediate_transaction (BEGIN   *)
(* IMMEDIATE ... COMMIT, any exception rolls back), so a handler that      *)
(* succeeds is one action and a handler that fails is a stuttering step.   *)
(* A request whose receipt is already stored only reads: it is not an      *)
(* action; whether that read succeeds is stated in PageTimeline.           *)
(*                                                                         *)
(* The wall clock is an input of every handler (now \in Clocks): it may     *)
(* stand still or run backwards between two requests.  Who may call what   *)
(* is the subject of the credential policy and is left open here: any      *)
(* caller may issue any request.                                           *)
(***************************************************************************)
EXTENDS Naturals, Sequences, FiniteSets

CONSTANTS
    Pages,        \* page_uid values that may be allocated
    Places,       \* the <<section_id, book_id>> pairs of existing Books
    Titles,       \* page titles
    Contents,     \* complete file snapshots with their presentation
    Occurrences,  \* declared occurrence times a request may carry
    Callers,      \* caller identities
    Master,       \* the master administrator's identity
    Keys,         \* Idempotency-Key digests
    Routes,       \* the operations clients use in this instance
    NoPage,       \* absence of a page row, or of a page in a request
    NoETag,       \* absence of If-Match
    Clocks,       \* instants the wall clock may read
    MaxTime,      \* last instant canonical_utc_wire accepts
    MaxRevision,  \* MAX_REVISION_NUMBER
    MaxRestores,  \* bound on concurrently running revision restores
    MaxReceipts   \* bound on the keyed requests answered

Times == 1 .. MaxTime

\* SQL NULL for a time column; real instants start at 1.
NoTime == 0

\* A page row: pages columns that any handler changes, plus created_at.
Row == [place: Places, title: Titles, occurred: Nat, deleted: 0 .. MaxTime,
        created: Times, updated: Times, rev: 1 .. MaxRevision]

Actors == Callers \cup {Master}

ASSUME ConstantsAssumption ==
    /\ MaxTime \in Nat /\ MaxRevision \in Nat /\ MaxRestores \in Nat
    /\ MaxReceipts \in Nat
    /\ MaxRevision > 0
    /\ Clocks \subseteq Times
    /\ Occurrences \subseteq Nat
    /\ NoPage \notin Row

\* The administrator is no caller, and the two absences are told apart from
\* what they stand for.
ASSUME IdentityAssumption == Master \notin Callers /\ NoPage \notin Pages

VARIABLES
    pages,        \* page_uid -> current row
    revisions,    \* page_uid -> sequence of revisions; index = revision_number
    corrections,  \* page_uid -> page_occurrence_corrections; index = sequence
    lifecycle,    \* page_uid -> page_lifecycle_events
    titles,       \* page_uid -> page_title_events
    moves,        \* page_uid -> page_move_events
    audits,       \* auth_audit_events and admin_master_audit_events; index = id
    receipts,     \* idempotency_records and the master receipts
    restores,     \* revision restores between their read and write phases
    rows          \* history: every row each page ever had, in commit order

vars == <<pages, revisions, corrections, lifecycle, titles, moves, audits,
          receipts, restores, rows>>

events == <<corrections, lifecycle, titles, moves>>

----------------------------------------------------------------------------
(* Values computed by the handlers.                                        *)

Section(place) == place[1]

Sections == {Section(place) : place \in Places}

\* The hash inputs; the revision id is the page's revision-number-th id.
ETag(p, row) == [page |-> p, rev |-> row.rev, occurred |-> row.occurred,
                 updated |-> row.updated]

\* Mutant: the page clock follows a later wall clock but does not tick.
LogicalTimeWithoutTick(row, now) == IF now > row.updated THEN now ELSE row.updated

\* max(operation_at, page.updated_at + 1)
LogicalTime(row, now) == IF now > row.updated THEN now ELSE row.updated + 1

\* Mutant: the page clock may run past the last representable instant.
AnyTime(t) == t \in Nat

\* canonical_utc_wire rejects later instants, and the write with them.
Representable(t) == t <= MaxTime

Exists(p) == pages[p] # NoPage

\* Mutant: pages in the Trash count as available.
ActiveOrTrashed(p) == Exists(p)

Active(p) == Exists(p) /\ pages[p].deleted = NoTime

\* If-Match values a client can hold for p: every ETag p ever had.
IssuedETags(p) == {ETag(p, rows[p][i]) : i \in DOMAIN rows[p]}

\* Mutant: the legacy ETag, which hashes only the page and its revision.
IfMatchLegacy(p, etag) == etag.rev = pages[p].rev

\* hmac.compare_digest(command.expected_etag, current_etag)
IfMatch(p, etag) == etag = ETag(p, pages[p])

CurrentRevision(p) == revisions[p][pages[p].rev]

\* Mutant: the receipt lookup is skipped.
UnusedUnchecked(actor, op, key) ==
    op \in Routes /\ Cardinality(receipts) < MaxReceipts

\* No receipt exists in the namespace (actor, route, key digest).
Unused(actor, op, key) ==
    /\ op \in Routes
    /\ Cardinality(receipts) < MaxReceipts
    /\ \A r \in receipts : r.key # <<actor, op, key>>

----------------------------------------------------------------------------
(* Table writes shared by the handlers.                                    *)

Save(p, row) ==
    /\ pages' = [pages EXCEPT ![p] = row]
    /\ rows' = [rows EXCEPT ![p] = Append(@, row)]

NextAudit == Len(audits) + 1

\* Mutant: a handler commits without its success audit.
AuditSkipped(actor, action, p, at) == UNCHANGED audits

Audit(actor, action, p, at) ==
    audits' = Append(audits, [actor |-> actor, action |-> action,
                              page |-> p, at |-> at])

AddRevision(p, at, format, content, sourceAt) ==
    revisions' = [revisions EXCEPT ![p] = Append(@,
        [at |-> at, format |-> format, content |-> content,
         sourceAt |-> sourceAt])]

\* record_success: the stored response.  row is what the body and the ETag
\* describe, before the page clock the request was made against, stamp the
\* original request timestamp; each body carries only some of these fields.
Respond(actor, op, key, request, p, row, before, stamp, changed, content, audit) ==
    receipts' = receipts \cup
        {[key |-> <<actor, op, key>>, request |-> request, page |-> p,
          row |-> row, etag |-> ETag(p, row), before |-> before,
          stamp |-> stamp, changed |-> changed, content |-> content,
          audit |-> audit]}

----------------------------------------------------------------------------
(* Creation.                                                               *)

CreatePage(actor, op, key, format, action) ==
    \E p \in Pages, place \in Places, title \in Titles, content \in Contents,
       declared \in Occurrences \cup {NoTime}, now \in Clocks :
        LET row == [place |-> place, title |-> title,
                    occurred |-> IF declared = NoTime THEN now ELSE declared,
                    deleted |-> NoTime, created |-> now, updated |-> now,
                    rev |-> 1]
            request == [page |-> NoPage, section |-> Section(place),
                        etag |-> NoETag,
                        arg |-> <<place, title, declared, content>>]
        IN  /\ ~Exists(p)
            /\ Unused(actor, op, key)
            /\ Save(p, row)
            /\ AddRevision(p, now, format, content, now)
            /\ Audit(actor, action, p, now)
            /\ Respond(actor, op, key, request, p, row, now, now, TRUE,
                       content, NextAudit)
            /\ UNCHANGED <<events, restores>>

CreateArchive(c, key) ==
    CreatePage(c, "archive_create", key, "legacy_markdown", "content.archive.create")

CreateFileSet(c, key) ==
    CreatePage(c, "file_set_create", key, "file_set_v1", "content.page.file_set.create")

MasterCreateFileSet(key) ==
    CreatePage(Master, "master_create", key, "file_set_v1", "content.page.file_set.create")

----------------------------------------------------------------------------
(* New revisions.                                                          *)

AppendRevision(c, key) ==
    \E p \in Pages, section \in Sections,
       content \in Contents, now \in Clocks :
    \E etag \in IssuedETags(p) :
        LET t == LogicalTime(pages[p], now)
            row == [pages[p] EXCEPT !.rev = @ + 1, !.updated = t]
            request == [page |-> p, section |-> section, etag |-> etag,
                        arg |-> content]
        IN  /\ Exists(p)
            /\ Unused(c, "archive_revise", key)
            /\ Section(pages[p].place) = section
            /\ pages[p].deleted = NoTime
            /\ IfMatch(p, etag)
            /\ CurrentRevision(p).format = "legacy_markdown"
            /\ pages[p].rev < MaxRevision
            /\ Representable(t)
            /\ Save(p, row)
            /\ AddRevision(p, t, "legacy_markdown", content, now)
            /\ Audit(c, "content.archive.revise", p, now)
            /\ Respond(c, "archive_revise", key, request, p, row,
                       pages[p].updated, t, TRUE, content, NextAudit)
            /\ UNCHANGED <<events, restores>>

\* FileSetRevisionService.append_existing_page for a snapshot that differs
\* from the current one, with the wrapper's audit and receipt.
NewSnapshot(actor, op, key, request, p, content, now) ==
    LET t == LogicalTime(pages[p], now)
        row == [pages[p] EXCEPT !.rev = @ + 1, !.updated = t]
    IN  /\ CurrentRevision(p).content # content
        /\ pages[p].rev < MaxRevision
        /\ Representable(t)
        /\ Save(p, row)
        /\ AddRevision(p, t, "file_set_v1", content, now)
        /\ Audit(actor, "content.page.file_set.revise", p, now)
        /\ Respond(actor, op, key, request, p, row, pages[p].updated, now, TRUE,
                   content, NextAudit)
        /\ UNCHANGED events

\* The identical snapshot and presentation: a recorded no-op without audit.
SameSnapshot(actor, op, key, request, p, content, now) ==
    /\ CurrentRevision(p).content = content
    /\ Respond(actor, op, key, request, p, pages[p], pages[p].updated, now,
               FALSE, content, 0)
    /\ UNCHANGED <<pages, rows, revisions, events, audits>>

AppendFileSet(c, key) ==
    \E p \in Pages, section \in Sections,
       content \in Contents, now \in Clocks :
    \E etag \in IssuedETags(p) :
        LET request == [page |-> p, section |-> section, etag |-> etag,
                        arg |-> content]
        IN  /\ Exists(p)
            /\ Unused(c, "file_set_append", key)
            /\ Section(pages[p].place) = section
            /\ pages[p].deleted = NoTime
            /\ IfMatch(p, etag)
            /\ \/ NewSnapshot(c, "file_set_append", key, request, p, content, now)
               \/ SameSnapshot(c, "file_set_append", key, request, p, content, now)
            /\ UNCHANGED restores

\* MasterFileSetService._write for "revise": source is the restored revision
\* number, or 0 for an ordinary edit.
MasterRevise(key, p, place, etag, content, source, now) ==
    LET request == [page |-> p, section |-> Section(place), etag |-> etag,
                    arg |-> <<place, content, source>>]
    IN  /\ Unused(Master, "master_revise", key)
        /\ Active(p)
        /\ pages[p].place = place
        /\ source > 0 => revisions[p][source].content = content
        /\ IfMatch(p, etag)
        /\ \/ NewSnapshot(Master, "master_revise", key, request, p, content, now)
           \/ SameSnapshot(Master, "master_revise", key, request, p, content, now)

MasterReviseFileSet(key) ==
    \E p \in Pages, place \in Places, content \in Contents, now \in Clocks :
    \E etag \in IssuedETags(p) :
        /\ MasterRevise(key, p, place, etag, content, 0, now)
        /\ UNCHANGED restores

\* The read phase of restore_revision: a snapshot transaction that ends
\* before the write lock is taken.
RestoreRead(key) ==
    \E p \in Pages, place \in Places :
    \E n \in DOMAIN revisions[p], etag \in IssuedETags(p) :
        /\ "master_restore" \in Routes
        /\ Cardinality(restores) < MaxRestores
        /\ Exists(p)
        /\ n <= pages[p].rev
        /\ restores' = restores \cup
              {[key |-> key, page |-> p, place |-> place, etag |-> etag,
                source |-> n, content |-> revisions[p][n].content]}
        /\ UNCHANGED <<pages, rows, revisions, events, audits, receipts>>

\* The write phase: revise_page under the lock with the snapshot read above.
RestoreWrite ==
    \E cmd \in restores, now \in Clocks :
        /\ MasterRevise(cmd.key, cmd.page, cmd.place, cmd.etag, cmd.content,
                        cmd.source, now)
        /\ restores' = restores \ {cmd}

\* The write phase ends in an error or in a replay, or the process stops.
RestoreEnd ==
    \E cmd \in restores :
        /\ restores' = restores \ {cmd}
        /\ UNCHANGED <<pages, rows, revisions, events, audits, receipts>>

----------------------------------------------------------------------------
(* Occurrence corrections.                                                 *)

AfterCorrection(p, new, t) == [pages[p] EXCEPT !.occurred = new, !.updated = t]

\* ContentRepository.correct_occurrence and the recording trigger; audit is
\* master_audit_event_id, 0 for a caller.
RecordCorrection(p, new, t, audit) ==
    /\ Save(p, AfterCorrection(p, new, t))
    /\ corrections' = [corrections EXCEPT ![p] = Append(@,
          [old |-> pages[p].occurred, new |-> new, at |-> t,
           rev |-> pages[p].rev, audit |-> audit])]

CorrectOccurrence(c, key) ==
    \E p \in Pages, section \in Sections,
       new \in Occurrences, now \in Clocks :
    \E etag \in IssuedETags(p) :
        LET t == LogicalTime(pages[p], now)
            request == [page |-> p, section |-> section, etag |-> etag,
                        arg |-> new]
        IN  /\ Exists(p)
            /\ Unused(c, "correct_occurrence", key)
            /\ Section(pages[p].place) = section
            /\ pages[p].deleted = NoTime
            /\ IfMatch(p, etag)
            /\ new # pages[p].occurred
            /\ Representable(t)
            /\ RecordCorrection(p, new, t, 0)
            /\ Audit(c, "content.archive.correct_occurrence", p, t)
            /\ Respond(c, "correct_occurrence", key, request, p,
                       AfterCorrection(p, new, t), pages[p].updated, t, TRUE,
                       CurrentRevision(p).content, NextAudit)
            /\ UNCHANGED <<revisions, lifecycle, titles, moves, restores>>

MasterCorrectOccurrence ==
    \E p \in Pages, place \in Places, new \in Occurrences, now \in Clocks :
    \E etag \in IssuedETags(p) :
        LET t == LogicalTime(pages[p], now)
        IN  /\ "master_correct" \in Routes
            /\ Active(p)
            /\ pages[p].place = place
            /\ IfMatch(p, etag)
            /\ new # pages[p].occurred
            /\ Representable(t)
            /\ Audit(Master, "content.page.occurrence.correct", p, t)
            /\ RecordCorrection(p, new, t, NextAudit)
            /\ UNCHANGED <<revisions, lifecycle, titles, moves, receipts, restores>>

----------------------------------------------------------------------------
(* Soft deletion and restoration.                                          *)

\* Route template and audit action of each lifecycle action.
LibraryRoute == [delete |-> "page_delete", restore |-> "page_restore"]
ArchiveAudit == [delete |-> "content.archive.delete", restore |-> "content.archive.restore"]
PageAudit == [delete |-> "content.page.delete", restore |-> "content.page.restore"]

AfterLifecycle(p, action, t) ==
    [pages[p] EXCEPT !.deleted = IF action = "delete" THEN t ELSE NoTime,
                     !.updated = t]

\* ContentRepository.transition_page_lifecycle and the recording trigger;
\* audit is master_audit_event_id, 0 for a caller.
RecordLifecycle(p, action, actor, t, audit) ==
    /\ (action = "delete") = (pages[p].deleted = NoTime)
    /\ Representable(t)
    /\ Save(p, AfterLifecycle(p, action, t))
    /\ lifecycle' = [lifecycle EXCEPT ![p] = Append(@,
          [action |-> action, section |-> Section(pages[p].place),
           oldDeleted |-> pages[p].deleted, oldUpdated |-> pages[p].updated,
           at |-> t, rev |-> pages[p].rev, occurred |-> pages[p].occurred,
           actor |-> actor, audit |-> audit])]

\* Section route, for callers and for restore_page_as_operator.
TransitionPageLifecycle(c, key, action) ==
    \E p \in Pages, section \in Sections, now \in Clocks :
    \E etag \in IssuedETags(p) :
        LET t == LogicalTime(pages[p], now)
            request == [page |-> p, section |-> section, etag |-> etag,
                        arg |-> action]
        IN  /\ Exists(p)
            /\ Unused(c, action, key)
            /\ Section(pages[p].place) = section
            /\ IfMatch(p, etag)
            /\ RecordLifecycle(p, action, c, t, 0)
            /\ Audit(c, ArchiveAudit[action], p, t)
            /\ Respond(c, action, key, request, p, AfterLifecycle(p, action, t),
                       pages[p].updated, t, TRUE, CurrentRevision(p).content,
                       NextAudit)
            /\ UNCHANGED <<revisions, corrections, titles, moves, restores>>

\* Library route: no section in the request.
LibraryPageLifecycle(c, key, action) ==
    \E p \in Pages, now \in Clocks :
    \E etag \in IssuedETags(p) :
        LET t == LogicalTime(pages[p], now)
            request == [page |-> p, section |-> NoPage, etag |-> etag,
                        arg |-> action]
        IN  /\ Unused(c, LibraryRoute[action], key)
            /\ Exists(p)
            /\ IfMatch(p, etag)
            /\ RecordLifecycle(p, action, c, t, 0)
            /\ Audit(c, PageAudit[action], p, t)
            /\ Respond(c, LibraryRoute[action], key, request, p,
                       AfterLifecycle(p, action, t), pages[p].updated, t, TRUE,
                       CurrentRevision(p).content, NextAudit)
            /\ UNCHANGED <<revisions, corrections, titles, moves, restores>>

MasterPageLifecycle(action) ==
    \E p \in Pages, place \in Places, now \in Clocks :
    \E etag \in IssuedETags(p) :
        LET t == LogicalTime(pages[p], now)
        IN  /\ "master_lifecycle" \in Routes
            /\ Exists(p)
            /\ Section(pages[p].place) = Section(place)
            /\ action = "delete" => pages[p].place = place
            /\ IfMatch(p, etag)
            /\ Audit(Master, ArchiveAudit[action], p, t)
            /\ RecordLifecycle(p, action, Master, t, NextAudit)
            /\ UNCHANGED <<revisions, corrections, titles, moves, receipts, restores>>

----------------------------------------------------------------------------
(* Title edits and moves between Books.                                    *)

AfterTitle(p, title, t) == [pages[p] EXCEPT !.title = title, !.updated = t]

AfterMove(p, target, t) == [pages[p] EXCEPT !.place = target, !.updated = t]

\* The master title form sends expected_updated_at instead of an ETag.
MasterUpdateTitle ==
    \E p \in Pages, place \in Places, title \in Titles, now \in Clocks :
    \E expected \in {etag.updated : etag \in IssuedETags(p)} :
        LET t == LogicalTime(pages[p], now)
        IN  /\ "master_title" \in Routes
            /\ Active(p)
            /\ pages[p].place = place
            /\ pages[p].updated = expected
            /\ pages[p].title # title
            /\ Representable(t)
            /\ Audit(Master, "content.page.title.edit", p, t)
            /\ Save(p, AfterTitle(p, title, t))
            /\ titles' = [titles EXCEPT ![p] = Append(@,
                  [old |-> pages[p].title, new |-> title,
                   oldUpdated |-> pages[p].updated, at |-> t,
                   rev |-> pages[p].rev, audit |-> NextAudit])]
            /\ UNCHANGED <<revisions, corrections, lifecycle, moves, receipts, restores>>

\* apply_page_move for a plan that changes the place, with its audit.
ChangePlace(actor, op, key, request, p, target, now) ==
    LET t == LogicalTime(pages[p], now)
        row == AfterMove(p, target, t)
    IN  /\ pages[p].place # target
        /\ Representable(t)
        /\ Audit(actor, "content.page.move", p, t)
        /\ Save(p, row)
        /\ moves' = [moves EXCEPT ![p] = Append(@,
              [old |-> pages[p].place, new |-> target,
               oldUpdated |-> pages[p].updated, at |-> t, rev |-> pages[p].rev,
               occurred |-> pages[p].occurred, audit |-> NextAudit])]
        /\ Respond(actor, op, key, request, p, row, pages[p].updated, now, TRUE,
                   CurrentRevision(p).content, NextAudit)
        /\ UNCHANGED <<corrections, lifecycle, titles>>

\* A move to the page's own place: a recorded no-op without audit or event.
SamePlace(actor, op, key, request, p, target, now) ==
    /\ pages[p].place = target
    /\ Respond(actor, op, key, request, p, pages[p], pages[p].updated, now,
               FALSE, CurrentRevision(p).content, 0)
    /\ UNCHANGED <<pages, rows, events, audits>>

MovePage(actor, op, key) ==
    \E p \in Pages, source \in Places, target \in Places, now \in Clocks :
    \E etag \in IssuedETags(p) :
        LET request == [page |-> p, section |-> NoPage, etag |-> etag,
                        arg |-> <<source, target>>]
        IN  /\ Unused(actor, op, key)
            /\ Active(p)
            /\ pages[p].place = source
            /\ IfMatch(p, etag)
            /\ \/ ChangePlace(actor, op, key, request, p, target, now)
               \/ SamePlace(actor, op, key, request, p, target, now)
            /\ UNCHANGED <<revisions, restores>>

CallerMovePage(c, key) == MovePage(c, "page_move", key)

MasterMovePage(key) == MovePage(Master, "master_move", key)

----------------------------------------------------------------------------

Init ==
    /\ pages = [p \in Pages |-> NoPage]
    /\ revisions = [p \in Pages |-> <<>>]
    /\ corrections = [p \in Pages |-> <<>>]
    /\ lifecycle = [p \in Pages |-> <<>>]
    /\ titles = [p \in Pages |-> <<>>]
    /\ moves = [p \in Pages |-> <<>>]
    /\ audits = <<>>
    /\ receipts = {}
    /\ restores = {}
    /\ rows = [p \in Pages |-> <<>>]

CallerNext(c, key) ==
    \/ CreateArchive(c, key)
    \/ CreateFileSet(c, key)
    \/ AppendRevision(c, key)
    \/ AppendFileSet(c, key)
    \/ CorrectOccurrence(c, key)
    \/ \E action \in {"delete", "restore"} :
          \/ TransitionPageLifecycle(c, key, action)
          \/ LibraryPageLifecycle(c, key, action)
    \/ CallerMovePage(c, key)

MasterNext ==
    \/ \E key \in Keys :
          \/ MasterCreateFileSet(key)
          \/ MasterReviseFileSet(key)
          \/ RestoreRead(key)
          \/ MasterMovePage(key)
    \/ RestoreWrite
    \/ RestoreEnd
    \/ MasterCorrectOccurrence
    \/ \E action \in {"delete", "restore"} : MasterPageLifecycle(action)
    \/ MasterUpdateTitle

Next ==
    \/ \E c \in Callers, key \in Keys : CallerNext(c, key)
    \/ MasterNext

Spec == Init /\ [][Next]_vars

----------------------------------------------------------------------------
(* Row types of the other tables.                                          *)

RevisionRow == [at: Times, format: {"legacy_markdown", "file_set_v1"},
                content: Contents, sourceAt: Times]

CorrectionRow == [old: Nat, new: Nat, at: Times, rev: 1 .. MaxRevision, audit: Nat]

LifecycleRow == [action: {"delete", "restore"}, section: Sections,
                 oldDeleted: 0 .. MaxTime, oldUpdated: Times, at: Times,
                 rev: 1 .. MaxRevision, occurred: Nat, actor: Actors, audit: Nat]

TitleRow == [old: Titles, new: Titles, oldUpdated: Times, at: Times,
             rev: 1 .. MaxRevision, audit: Nat]

MoveRow == [old: Places, new: Places, oldUpdated: Times, at: Times,
            rev: 1 .. MaxRevision, occurred: Nat, audit: Nat]

AuditActions ==
    {"content.archive.create", "content.archive.revise",
     "content.archive.correct_occurrence", "content.archive.delete",
     "content.archive.restore", "content.page.file_set.create",
     "content.page.file_set.revise", "content.page.occurrence.correct",
     "content.page.delete", "content.page.restore",
     "content.page.title.edit", "content.page.move"}

AuditRow == [actor: Actors, action: AuditActions, page: Pages, at: Times]

ReceiptTyped(r) ==
    /\ r.page \in Pages /\ r.row \in Row /\ r.changed \in BOOLEAN
    /\ r.before \in Times /\ r.stamp \in Times
    /\ r.content \in Contents /\ r.audit \in Nat

RestoreTyped(cmd) ==
    /\ cmd.page \in Pages /\ cmd.place \in Places /\ cmd.content \in Contents

\* Type invariant: every column holds a value its schema allows; in particular
\* no handler stores a time or revision number beyond its limit, however far
\* the page clock has run ahead of the wall clock.
TypeOK ==
    /\ pages \in [Pages -> Row \cup {NoPage}]
    /\ rows \in [Pages -> Seq(Row)]
    /\ revisions \in [Pages -> Seq(RevisionRow)]
    /\ corrections \in [Pages -> Seq(CorrectionRow)]
    /\ lifecycle \in [Pages -> Seq(LifecycleRow)]
    /\ titles \in [Pages -> Seq(TitleRow)]
    /\ moves \in [Pages -> Seq(MoveRow)]
    /\ audits \in Seq(AuditRow)
    /\ \A r \in receipts : ReceiptTyped(r)
    /\ \A cmd \in restores : RestoreTyped(cmd)

\* The rows of a page end with its current row, and its revision number is
\* the number of its revisions.
HistoryEndsAtPage ==
    \A p \in Pages :
        IF Exists(p)
        THEN /\ Len(rows[p]) > 0
             /\ rows[p][Len(rows[p])] = pages[p]
             /\ Len(revisions[p]) = pages[p].rev
        ELSE rows[p] = <<>> /\ revisions[p] = <<>>

\* The page clock strictly advances from row to row.
ClockAdvances ==
    \A p \in Pages : \A i, j \in DOMAIN rows[p] :
        i < j => rows[p][i].updated < rows[p][j].updated

\* An ETag names one state: no two rows of a page have the same ETag, so a
\* client cannot overwrite a state it has not seen (page_current_etag over
\* the "strictly advancing Page clock").
ETagsNeverRepeat ==
    \A p \in Pages : \A i, j \in DOMAIN rows[p] :
        i # j => ETag(p, rows[p][i]) # ETag(p, rows[p][j])

\* No lost update: the row a request wrote directly follows the row whose
\* ETag the request carried in If-Match; a no-op answered with that row.
NoLostUpdate ==
    \A r \in receipts : r.request.page # NoPage =>
        \E i \in DOMAIN rows[r.page] :
            /\ ETag(r.page, rows[r.page][i]) = r.request.etag
            /\ LET j == IF r.changed THEN i + 1 ELSE i
               IN  j \in DOMAIN rows[r.page] /\ rows[r.page][j] = r.row

\* Master form edits that carry no idempotency key.
Unkeyed(a) ==
    /\ a.actor = Master
    /\ a.action \notin {"content.page.file_set.create",
                        "content.page.file_set.revise", "content.page.move"}

\* Exactly once: a key has one receipt; every committed row has one success
\* audit; and every audit of a keyed operation belongs to exactly one
\* receipt that reports a change, a retry adding neither row nor audit.
ExactlyOnce ==
    /\ \A r, s \in receipts : r.key = s.key => r = s
    /\ \A p \in Pages :
          Len(rows[p]) = Cardinality({i \in DOMAIN audits : audits[i].page = p})
    /\ \A i \in DOMAIN audits :
          Cardinality({r \in receipts : r.changed /\ r.audit = i})
              = IF Unkeyed(audits[i]) THEN 0 ELSE 1

=============================================================================
