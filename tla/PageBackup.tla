----------------------------- MODULE PageBackup -----------------------------
(***************************************************************************)
(* What a backup requires of the page tables.  create_backup copies the    *)
(* live database and publishes the copy only if validate_database accepts  *)
(* it; restore runs the same checks.  They are a third reading of the page *)
(* rules, over a complete database and in both directions: every event has *)
(* its receipt and its audit, and every audit and receipt has its event.   *)
(*                                                                         *)
(* SQLite storage classes, digests and wire formats are left out; schema   *)
(* revisions before the current one select subsets of these checks.        *)
(***************************************************************************)
EXTENDS PageTimeline

----------------------------------------------------------------------------
(* Rows of one page.                                                       *)

\* The guard tables of appends, corrections, lifecycle changes and moves are
\* empty between transactions: no write is modelled as leaving one.

\* _require_page_graph: the current revision is the last of 1 .. count, and
\* every revision has its source.
RequirePageGraph(p) ==
    /\ pages[p].rev \in DOMAIN revisions[p]
    /\ pages[p].rev = Len(revisions[p])
    /\ \A n \in DOMAIN revisions[p] : revisions[p][n].sourceAt # NoTime

\* _require_manifested_revision_files: one complete snapshot per revision, in
\* one of the two storage formats.
RequireRevisionFiles(p) ==
    \A n \in DOMAIN revisions[p] :
        /\ revisions[p][n].content \in Contents
        /\ revisions[p][n].format \in {"legacy_markdown", "file_set_v1"}

\* Corrections of one revision lie between its creation and the next one's.
WithinRevision(p, c) ==
    /\ c.rev \in DOMAIN revisions[p]
    /\ c.at >= revisions[p][c.rev].at
    /\ c.rev < pages[p].rev => c.at < revisions[p][c.rev + 1].at

\* _require_occurrence_graph
RequireOccurrenceGraph(p) ==
    LET chain == corrections[p]
    IN  /\ \A i \in DOMAIN chain :
              /\ chain[i].audit # 0 =>
                    AuditedAs(chain[i].audit, "content.page.occurrence.correct",
                              p, chain[i].at)
              /\ chain[i].new # chain[i].old
              /\ chain[i].at >= pages[p].created /\ chain[i].at <= pages[p].updated
              /\ WithinRevision(p, chain[i])
        /\ \A i \in 1 .. Len(chain) - 1 :
              /\ chain[i + 1].old = chain[i].new
              /\ chain[i + 1].at > chain[i].at
              /\ chain[i + 1].rev >= chain[i].rev
        /\ chain # <<>> => Last(chain).new = pages[p].occurred

\* _require_lifecycle_graph, title events: each names its own audit.
RequireTitleEvents(p) ==
    \A i \in DOMAIN titles[p] :
        LET e == titles[p][i]
        IN  e.old # e.new
            /\ AuditedAs(e.audit, "content.page.title.edit", p, e.at)

\* Idempotency records of the request that made lifecycle event e.  Request
\* ids are generated per request, so equal ids mean the same transaction.
LifecycleRecords(p, e) ==
    {r \in receipts :
        /\ r.key[1] = e.actor
        /\ r.key[2] \in {e.action, LibraryRoute[e.action]}
        /\ r.page = p /\ r.stamp = e.at}

\* _require_lifecycle_graph, lifecycle events: the master's have an audit, a
\* caller's exactly one stored response about the same Section.
RequireLifecycleEvents(p) ==
    \A i \in DOMAIN lifecycle[p] :
        LET e == lifecycle[p][i]
            records == LifecycleRecords(p, e)
        IN  IF e.audit # 0
            THEN AuditedAs(e.audit, ArchiveAudit[e.action], p, e.at)
            ELSE /\ Cardinality(records) = 1
                 /\ \A r \in records : Section(r.row.place) = e.section

\* _require_lifecycle_graph, clocks: the membership-aware timeline loads.
RequireLifecycleGraph(p) ==
    /\ RequireTitleEvents(p)
    /\ RequireLifecycleEvents(p)
    /\ TimelineLoads(p)

----------------------------------------------------------------------------
(* Audits of the master administrator.                                     *)

\* Events of page p that carry master audit id.
EventsOf(table, id) == {i \in DOMAIN table : table[i].audit = id}

\* _require_master_audit: an audit of an event has exactly that one event.
RequireMasterAudit(id) ==
    LET a == audits[id]
        OneEvent(table) ==
            /\ Cardinality(EventsOf(table, id)) = 1
            /\ \A i \in EventsOf(table, id) : table[i].at = a.at
    IN  CASE a.action = "content.page.move" ->
               /\ OneEvent(moves[a.page])
               /\ \E r \in receipts : r.changed /\ r.audit = id
          [] a.action = "content.page.occurrence.correct" ->
               OneEvent(corrections[a.page])
          [] a.action \in {"content.archive.restore", "content.archive.delete"} ->
               /\ OneEvent(lifecycle[a.page])
               /\ \A i \in EventsOf(lifecycle[a.page], id) :
                     a.action = ArchiveAudit[lifecycle[a.page][i].action]
          [] a.action = "content.page.title.edit" -> OneEvent(titles[a.page])
          [] OTHER -> TRUE

\* _require_actor_home_graph: a master event names no caller.
RequireActorHomeGraph(p) ==
    \A i \in DOMAIN lifecycle[p] :
        (lifecycle[p][i].audit # 0) = (lifecycle[p][i].actor = Master)

----------------------------------------------------------------------------
(* Idempotency records.                                                    *)

\* Success audits of the request that stored r: same actor, page and clock.
\* Request ids keep the audits of two requests apart.
RecordAudits(r, action, at) ==
    {i \in DOMAIN audits : /\ AuditedAs(i, action, r.page, at)
                           /\ audits[i].actor = r.key[1] /\ i = r.audit}

\* _require_lifecycle_replay
RequireLifecycleReplay(r) ==
    LET p == r.page
        action == r.request.arg
        same == {e \in Range(lifecycle[p]) :
                   e.at = r.stamp /\ e.section = Section(r.row.place)}
    IN  /\ Cardinality(same) = 1
        /\ \A e \in same :
              /\ HasExactState(p, e.at)
              /\ Section(StateAt(p, e.at).place) = Section(r.row.place)
              /\ e.action = action /\ e.actor = r.key[1]
              /\ r.row.deleted = IF action = "delete" THEN e.at ELSE NoTime
              /\ r.row.updated = e.at /\ r.row.rev = e.rev
              /\ r.etag = [page |-> p, rev |-> e.rev, occurred |-> e.occurred,
                           updated |-> e.at]
              /\ Cardinality(RecordAudits(r, ArchiveAudit[action], e.at)) = 1

\* Mutant: the occurrence the page has now.
OccurrenceNow(p, at) == pages[p].occurred

\* _file_set_occurrence_at: the occurrence before the first correction at or
\* after an instant.
OccurrenceAt(p, at) ==
    LET before == {i \in DOMAIN corrections[p] : corrections[p][i].at < at}
    IN  IF corrections[p] = <<>> THEN pages[p].occurred
        ELSE IF before = {} THEN corrections[p][1].old
        ELSE corrections[p][Cardinality(before)].new

\* match_active_etag: the one active state the response describes.
ActiveMatches(r) ==
    LET states == States(r.page)
    IN  {i \in DOMAIN states :
            /\ states[i].deleted = NoTime /\ states[i].rev = r.row.rev
            /\ Section(states[i].place) = Section(r.row.place)
            /\ r.key[2] = "file_set_create" => states[i].place = r.row.place
            /\ ETag(r.page, states[i]) = r.etag}

\* _require_file_set_replay
RequireFileSetReplay(r) ==
    LET p == r.page
        create == r.key[2] = "file_set_create"
        revision == revisions[p][r.row.rev]
        occurrence == OccurrenceAt(p, revision.at)
        stated == [page |-> p, rev |-> r.row.rev, occurred |-> occurrence,
                   updated |-> revision.at]
    IN  /\ r.row.rev \in DOMAIN revisions[p]
        /\ Cardinality(ActiveMatches(r)) = 1
        /\ revision.content = r.content
        /\ r.changed =>
              /\ \A i \in ActiveMatches(r) : States(p)[i].updated = revision.at
              /\ revision.format = "file_set_v1"
              /\ r.etag = stated
              /\ revision.sourceAt = r.stamp
              /\ IF create
                 THEN /\ r.row.rev = 1 /\ r.row.occurred = occurrence
                      /\ revision.at = pages[p].created /\ revision.at = r.stamp
                 ELSE revision.at >= r.stamp
              /\ Cardinality(RecordAudits(r, IF create
                    THEN "content.page.file_set.create"
                    ELSE "content.page.file_set.revise", r.stamp)) = 1

\* _page_title_at: the oldest title replaced after an instant.
TitleAt(p, at) ==
    LET later == {i \in DOMAIN titles[p] : titles[p][i].at > at}
    IN  IF later = {} THEN pages[p].title
        ELSE titles[p][CHOOSE i \in later : \A j \in later : i <= j].old

\* _require_idempotency_graph, PATCH: one correction at the stored clock.
RequireCorrectionRecord(r) ==
    LET p == r.page
        same == {c \in Range(corrections[p]) : c.at = r.stamp}
        s == StateAt(p, r.stamp)
    IN  /\ Cardinality(same) = 1
        /\ HasExactState(p, r.stamp)
        /\ Section(s.place) = Section(r.row.place) /\ s.deleted = NoTime
        /\ \A c \in same :
              /\ c.audit = 0
              /\ r.request.etag.occurred = c.old /\ r.row.occurred = c.new
              /\ r.row.rev = c.rev
              /\ r.etag = [page |-> p, rev |-> c.rev, occurred |-> c.new,
                           updated |-> c.at]
        /\ Cardinality(RecordAudits(r, "content.archive.correct_occurrence",
                                    r.stamp)) = 1

\* _require_idempotency_graph, Archive creation and revision: the response is
\* rebuilt from the immutable revision row and the events around it.
RequireArchiveRecord(r) ==
    LET p == r.page
        revision == revisions[p][r.row.rev]
        s == StateAt(p, revision.at)
        earlier == {i \in DOMAIN corrections[p] : corrections[p][i].rev < r.row.rev}
        occurrence == IF corrections[p] = <<>> THEN s.occurred
                      ELSE IF earlier = {} THEN corrections[p][1].old
                      ELSE corrections[p][Cardinality(earlier)].new
    IN  /\ r.row.rev \in DOMAIN revisions[p]
        /\ HasExactState(p, revision.at)
        /\ s.deleted = NoTime /\ s.place = r.row.place
        /\ r.row.title = TitleAt(p, revision.at)
        /\ r.row.occurred = occurrence
        /\ r.content = revision.content
        /\ r.etag = [page |-> p, rev |-> r.row.rev, occurred |-> occurrence,
                     updated |-> revision.at]

\* _require_idempotency_graph: the record's route selects its check.
RequireIdempotencyGraph(r) ==
    CASE r.key[2] = "correct_occurrence" -> RequireCorrectionRecord(r)
      [] r.key[2] \in {"delete", "restore"} -> RequireLifecycleReplay(r)
      [] r.key[2] \in {"file_set_create", "file_set_append"} -> RequireFileSetReplay(r)
      [] r.key[2] \in {"archive_create", "archive_revise"} -> RequireArchiveRecord(r)
      [] OTHER -> TRUE

\* require_library_lifecycle_graph: Library-route records, their events and
\* their audits, in both directions.
RequireLibraryLifecycleGraph ==
    LET records == {r \in receipts : r.key[2] \in {"page_delete", "page_restore"}}
    IN  /\ \A r \in records : LibraryLifecycleReplay(r)
        /\ \A i \in DOMAIN audits :
              audits[i].action \in {"content.page.delete", "content.page.restore"} =>
                 Cardinality({r \in records :
                    /\ r.page = audits[i].page /\ r.stamp = audits[i].at
                    /\ r.key[1] = audits[i].actor}) = 1

----------------------------------------------------------------------------
(* Moves and the master's keyed writes.                                    *)

MoveEvents(p, byMaster) ==
    {e \in Range(moves[p]) : (audits[e.audit].actor = Master) = byMaster}

\* _require_caller_move_graph: records that report a change and caller events
\* are the same multiset without repetitions, and each move audit has its event.
RequireCallerMoveGraph ==
    LET records == {r \in receipts : r.key[2] = "page_move"}
    IN  /\ \A r \in records : MoveReplay(r)
        /\ \A p \in Pages :
              /\ \A e \in MoveEvents(p, FALSE) :
                    Cardinality({r \in records :
                       r.changed /\ r.page = p /\ r.row.updated = e.at}) = 1
              /\ \A r \in records : r.changed /\ r.page = p =>
                    \E e \in MoveEvents(p, FALSE) : e.at = r.row.updated
        /\ \A i \in DOMAIN audits : audits[i].action = "content.page.move" =>
              EventsOf(moves[audits[i].page], i) # {}

\* _require_page_moves
RequirePageMoves ==
    LET records == {r \in receipts : r.key[2] = "master_move"}
    IN  /\ \A p \in Pages : \A e \in MoveEvents(p, TRUE) :
              \E r \in records : r.changed /\ r.page = p /\ r.audit = e.audit
        /\ RequireCallerMoveGraph
        /\ \A r \in records : MoveReplay(r)

\* _require_master_file_set_receipts
RequireMasterFileSetReceipts ==
    LET records == {r \in receipts : r.key[2] \in {"master_create", "master_revise"}}
    IN  /\ \A r \in records : MasterFileSetReplay(r)
        /\ \A i \in DOMAIN audits :
              /\ audits[i].actor = Master
              /\ audits[i].action \in {"content.page.file_set.create",
                                       "content.page.file_set.revise"}
              => \E r \in records : r.audit = i

----------------------------------------------------------------------------

\* Whatever the handlers have committed, a backup taken now validates: no
\* order of edits, moves, deletions, no-ops and retries, and no clock, makes
\* validate_database refuse the copy (_validate_connection).  The operator
\* would otherwise lose the ability to back up a healthy Library.
BackupAccepts ==
    /\ \A p \in Pages : Exists(p) =>
          /\ RequirePageGraph(p) /\ RequireRevisionFiles(p)
          /\ RequireOccurrenceGraph(p) /\ RequireLifecycleGraph(p)
          /\ RequireActorHomeGraph(p)
    /\ \A i \in DOMAIN audits : audits[i].actor = Master => RequireMasterAudit(i)
    /\ RequireLibraryLifecycleGraph
    /\ \A r \in receipts : RequireIdempotencyGraph(r)
    /\ RequirePageMoves
    /\ RequireMasterFileSetReceipts

=============================================================================
