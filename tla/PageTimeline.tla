---------------------------- MODULE PageTimeline ----------------------------
(***************************************************************************)
(* What the readers of PageStore's tables rebuild from them: the timeline  *)
(* of complete historical page states (page_membership_history) and, on    *)
(* top of it, the checks every replay of a stored receipt must pass before *)
(* the stored response is returned.  A check that fails raises a           *)
(* "replay corrupt" error, so a retry that was once answered would stop    *)
(* being answered.                                                         *)
(***************************************************************************)
EXTENDS PageStore, SequencesExt

----------------------------------------------------------------------------
(* load_page_state_timeline                                                *)

\* Rows of one table as operations: their clock, kind, sequence and columns.
OperationsOf(kind, table, first) ==
    {[at |-> table[i].at, kind |-> kind, seq |-> i, row |-> table[i]] :
        i \in first .. Len(table)}

Operations(p) ==
    OperationsOf("revision", revisions[p], 2)
        \cup OperationsOf("correction", corrections[p], 1)
        \cup OperationsOf("lifecycle", lifecycle[p], 1)
        \cup OperationsOf("title", titles[p], 1)
        \cup OperationsOf("move", moves[p], 1)

\* The state before every operation: the oldest recorded "old" values, or the
\* page row where a table has no event.
InitialState(p) ==
    [place |-> IF moves[p] = <<>> THEN pages[p].place ELSE moves[p][1].old,
     title |-> IF titles[p] = <<>> THEN pages[p].title ELSE titles[p][1].old,
     occurred |-> IF corrections[p] = <<>> THEN pages[p].occurred
                                           ELSE corrections[p][1].old,
     deleted |-> NoTime, created |-> pages[p].created,
     updated |-> pages[p].created, rev |-> 1]

\* The audit row an event references says what the event says.
AuditedAs(id, action, p, at) ==
    /\ id \in DOMAIN audits
    /\ audits[id].action = action /\ audits[id].page = p /\ audits[id].at = at

\* What one operation requires of the state it was applied to.
OperationFits(p, s, o) ==
    /\ o.at > s.updated
    /\ CASE o.kind = "revision" ->
              s.deleted = NoTime /\ o.seq = s.rev + 1
         [] o.kind = "correction" ->
              /\ s.deleted = NoTime /\ o.row.rev = s.rev
              /\ o.row.old = s.occurred /\ o.row.new # s.occurred
         [] o.kind = "lifecycle" ->
              /\ o.row.rev = s.rev /\ o.row.oldUpdated = s.updated
              /\ o.row.section = Section(s.place)
              /\ o.row.oldDeleted = s.deleted /\ o.row.occurred = s.occurred
              /\ (o.row.action = "delete") = (s.deleted = NoTime)
         [] o.kind = "title" ->
              /\ s.deleted = NoTime
              /\ o.row.rev = s.rev /\ o.row.oldUpdated = s.updated
              /\ o.row.old = s.title /\ o.row.new # s.title
         [] o.kind = "move" ->
              /\ s.deleted = NoTime
              /\ o.row.rev = s.rev /\ o.row.oldUpdated = s.updated
              /\ o.row.old = s.place /\ o.row.new # s.place
              /\ o.row.occurred = s.occurred
              /\ AuditedAs(o.row.audit, "content.page.move", p, o.at)

OperationApplied(s, o) ==
    LET moved == [s EXCEPT !.updated = o.at]
    IN  CASE o.kind = "revision" -> [moved EXCEPT !.rev = o.seq]
          [] o.kind = "correction" -> [moved EXCEPT !.occurred = o.row.new]
          [] o.kind = "lifecycle" ->
               [moved EXCEPT !.deleted =
                   IF o.row.action = "delete" THEN o.at ELSE NoTime]
          [] o.kind = "title" -> [moved EXCEPT !.title = o.row.new]
          [] o.kind = "move" -> [moved EXCEPT !.place = o.row.new]

\* The order in which the tables are read.
KindOrder ==
    [revision |-> 1, correction |-> 2, lifecycle |-> 3, title |-> 4, move |-> 5]

\* sorted() by clock is stable: operations with the same clock stay in the
\* order in which they were read.
Earlier(a, b) ==
    \/ a.at < b.at
    \/ a.at = b.at /\ KindOrder[a.kind] < KindOrder[b.kind]
    \/ a.at = b.at /\ a.kind = b.kind /\ a.seq < b.seq

\* Operations in clock order: the n-th is the one that n - 1 are earlier than.
SortedOperations(p) ==
    LET ops == Operations(p)
    IN  [n \in 1 .. Cardinality(ops) |->
            CHOOSE o \in ops : Cardinality({e \in ops : Earlier(e, o)}) = n - 1]

\* Each table in sequence order.
InSequence(ops) ==
    \A i, j \in DOMAIN ops :
        ops[i].kind = ops[j].kind /\ i < j => ops[i].seq < ops[j].seq

\* The states: the n-th is the one after n - 1 operations.
States(p) ==
    LET ops == SortedOperations(p)
        state[n \in 1 .. Len(ops) + 1] ==
            IF n = 1 THEN InitialState(p)
            ELSE OperationApplied(state[n - 1], ops[n - 1])
    IN  state

\* Every _require of load_page_state_timeline holds.
TimelineLoads(p) ==
    LET ops == SortedOperations(p)
        states == States(p)
    IN  /\ Exists(p)
        /\ revisions[p] # <<>> /\ revisions[p][1].at = pages[p].created
        /\ InSequence(ops)
        /\ \A i \in DOMAIN ops : OperationFits(p, states[i], ops[i])
        /\ Last(states) = pages[p]
        /\ \A i \in DOMAIN states : states[i].place \in Places

\* PageStateTimeline.exact_state: holds of s when it is the only match.
ExactState(p, at, s) ==
    LET states == States(p)
        matches == {i \in DOMAIN states : states[i].updated = at}
    IN  Cardinality(matches) = 1 /\ \A i \in matches : states[i] = s

\* Mutant: a replay is compared with the current row.
StateNow(p, at) == pages[p]

StateAt(p, at) ==
    LET states == States(p)
    IN  states[CHOOSE i \in DOMAIN states : states[i].updated = at]

HasExactState(p, at) == ExactState(p, at, StateAt(p, at))

----------------------------------------------------------------------------
(* Replay validators, one per family of routes.                            *)

\* _require_replay_state with an exact clock.
ReplayState(r, at, active) ==
    LET s == StateAt(r.page, at)
    IN  /\ TimelineLoads(r.page)
        /\ HasExactState(r.page, at)
        /\ Section(s.place) = r.request.section
        /\ s.rev = r.row.rev
        /\ (s.deleted = NoTime) = active
        /\ r.etag = ETag(r.page, s)

\* create_archive and append_revision: _validate_archive_replay.
ArchiveReplay(r) ==
    LET s == StateAt(r.page, r.row.updated)
    IN  /\ ReplayState(r, r.row.updated, TRUE)
        /\ s.place = r.row.place
        /\ r.row.title = s.title /\ r.row.occurred = s.occurred
        /\ r.row.rev \in DOMAIN revisions[r.page]
        /\ revisions[r.page][r.row.rev].content = r.content
        /\ r.stamp = r.row.updated

\* FileSetCreateService.create_page.
FileSetCreateReplay(r) ==
    LET s == StateAt(r.page, r.stamp)
    IN  /\ ReplayState(r, r.stamp, TRUE)
        /\ s.rev = 1
        /\ <<s.place, s.title>> = <<r.request.arg[1], r.request.arg[2]>>
        /\ r.row.occurred = s.occurred
        /\ r.content = r.request.arg[4]

\* FileSetWriteService.append_existing_page: match_active_etag.
FileSetAppendReplay(r) ==
    LET states == States(r.page)
        matches == {i \in DOMAIN states :
                      /\ states[i].deleted = NoTime
                      /\ states[i].rev = r.row.rev
                      /\ Section(states[i].place) = r.request.section
                      /\ ETag(r.page, states[i]) = r.etag}
    IN  /\ TimelineLoads(r.page)
        /\ Cardinality(matches) = 1
        /\ r.row.rev \in DOMAIN revisions[r.page]
        /\ r.changed => \A i \in matches :
              states[i].updated = revisions[r.page][r.row.rev].at
        /\ r.content = r.request.arg

CorrectionReplay(r) ==
    LET s == StateAt(r.page, r.stamp)
        same == {i \in DOMAIN corrections[r.page] :
                   corrections[r.page][i].at = r.stamp}
    IN  /\ ReplayState(r, r.stamp, TRUE)
        /\ Cardinality(same) = 1
        /\ \A i \in same : /\ corrections[r.page][i].new = r.request.arg
                           /\ corrections[r.page][i].old = r.request.etag.occurred
        /\ r.row.occurred = s.occurred

LifecycleReplay(r) ==
    LET at == r.row.updated
        same == {i \in DOMAIN lifecycle[r.page] : lifecycle[r.page][i].at = at}
    IN  /\ ReplayState(r, at, r.request.arg = "restore")
        /\ Cardinality(same) = 1
        /\ \A i \in same : lifecycle[r.page][i].action = r.request.arg
        /\ r.row.deleted = StateAt(r.page, at).deleted
        /\ r.stamp = at

\* validate_library_lifecycle_receipt.
LibraryLifecycleReplay(r) ==
    LET p == r.page
        before == StateAt(p, r.before)
        after == StateAt(p, r.row.updated)
        action == r.request.arg
        same == {e \in Range(lifecycle[p]) : e.at = after.updated}
        audited == {i \in DOMAIN audits :
                      AuditedAs(i, PageAudit[action], p, after.updated)}
    IN  /\ TimelineLoads(p)
        /\ HasExactState(p, r.before) /\ HasExactState(p, r.row.updated)
        /\ before.updated < after.updated
        /\ after = [before EXCEPT !.updated = after.updated,
                       !.deleted = IF action = "delete" THEN after.updated ELSE NoTime]
        /\ (before.deleted = NoTime) = (action = "delete")
        /\ after = r.row
        /\ r.stamp = r.row.updated
        /\ r.request.etag = ETag(p, before) /\ r.etag = ETag(p, after)
        /\ same = {[action |-> action, section |-> Section(r.row.place),
                    oldDeleted |-> before.deleted, oldUpdated |-> before.updated,
                    at |-> after.updated, rev |-> r.row.rev,
                    occurred |-> before.occurred, actor |-> r.key[1], audit |-> 0]}
        /\ Cardinality(audited) = 1
        /\ \A i \in audited : audits[i].actor = r.key[1]

\* validate_caller_move_receipt and validate_master_move_receipt.
MoveReplay(r) ==
    LET p == r.page
        source == StateAt(p, r.before)
        result == StateAt(p, r.row.updated)
        same == {e \in Range(moves[p]) : e.at = result.updated}
    IN  /\ TimelineLoads(p)
        /\ HasExactState(p, r.before) /\ HasExactState(p, r.row.updated)
        /\ source.deleted = NoTime /\ result.deleted = NoTime
        /\ <<source.place, result.place>> = r.request.arg
        /\ source.rev = result.rev /\ result.rev = r.row.rev
        /\ source.occurred = result.occurred /\ source.occurred = r.row.occurred
        /\ source.title = result.title
        /\ r.request.etag = ETag(p, source) /\ r.etag = ETag(p, result)
        /\ r.changed =>
              /\ same = {[old |-> source.place, new |-> result.place,
                          oldUpdated |-> source.updated, at |-> result.updated,
                          rev |-> r.row.rev, occurred |-> source.occurred,
                          audit |-> r.audit]}
              /\ AuditedAs(r.audit, "content.page.move", p, result.updated)
              /\ audits[r.audit].actor = r.key[1]
              /\ source.updated < result.updated
        /\ ~r.changed => source = result /\ r.audit = 0

\* validate_master_file_set_receipt.
MasterFileSetReplay(r) ==
    LET p == r.page
        s == StateAt(p, r.row.updated)
        revision == revisions[p][r.row.rev]
    IN  /\ TimelineLoads(p)
        /\ HasExactState(p, r.row.updated)
        /\ s.deleted = NoTime /\ s.rev = r.row.rev
        /\ s.occurred = r.row.occurred /\ s.place = r.row.place
        /\ revision.content = r.content
        /\ r.etag = ETag(p, r.row)
        /\ r.key[2] = "master_create" =>
              /\ r.changed /\ r.row.rev = 1
              /\ pages[p].created = revision.at /\ revision.at = r.stamp
        /\ r.changed =>
              /\ revision.format = "file_set_v1"
              /\ r.row.updated = revision.at /\ revision.at >= r.stamp
              /\ revision.sourceAt = r.stamp
              /\ r.audit \in DOMAIN audits
              /\ audits[r.audit] =
                    [actor |-> Master, page |-> p, at |-> r.stamp,
                     action |-> IF r.key[2] = "master_create"
                                THEN "content.page.file_set.create"
                                ELSE "content.page.file_set.revise"]
        /\ ~r.changed => r.key[2] = "master_revise" /\ r.audit = 0

Replayable(r) ==
    CASE r.key[2] \in {"archive_create", "archive_revise"} -> ArchiveReplay(r)
      [] r.key[2] = "file_set_create" -> FileSetCreateReplay(r)
      [] r.key[2] = "file_set_append" -> FileSetAppendReplay(r)
      [] r.key[2] = "correct_occurrence" -> CorrectionReplay(r)
      [] r.key[2] \in {"delete", "restore"} -> LifecycleReplay(r)
      [] r.key[2] \in {"page_delete", "page_restore"} -> LibraryLifecycleReplay(r)
      [] r.key[2] \in {"page_move", "master_move"} -> MoveReplay(r)
      [] r.key[2] \in {"master_create", "master_revise"} -> MasterFileSetReplay(r)

----------------------------------------------------------------------------
(* Properties.                                                             *)

\* The event tables alone rebuild the whole past: whatever mix of handlers
\* wrote them and however the wall clock behaved, load_page_state_timeline
\* accepts them and yields exactly the rows the page really had, in order.
TimelineReconstructs ==
    \A p \in Pages : Exists(p) => TimelineLoads(p) /\ States(p) = rows[p]

\* A stored success can be replayed for ever: no later revision, correction,
\* title edit, move, deletion or restoration makes the validators of its
\* route (_require_replay_state, validate_*_receipt) report corruption.
ReceiptsReplay == \A r \in receipts : Replayable(r)

=============================================================================
