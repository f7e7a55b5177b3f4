---------------------------- MODULE PageTriggers ----------------------------
(***************************************************************************)
(* The triggers and deferred constraints the migrations put on the tables  *)
(* of PageStore, as conditions on one committed write transaction.  They   *)
(* are a second implementation of the page rules, written in SQL and       *)
(* independent of the Python handlers; a handler that violated one would   *)
(* abort and turn a legal request into a persistence error.                *)
(***************************************************************************)
EXTENDS PageStore

\* The rows a step appended to a table.
Added(old, new) == {i \in DOMAIN new : i \notin DOMAIN old}

\* Rows are never updated or deleted (trg_*_no_update, trg_*_no_delete).
Kept(old, new) ==
    /\ Len(old) <= Len(new)
    /\ \A i \in DOMAIN old : new[i] = old[i]

HistoryImmutable(p) ==
    /\ Kept(revisions[p], revisions'[p])
    /\ Kept(corrections[p], corrections'[p])
    /\ Kept(lifecycle[p], lifecycle'[p])
    /\ Kept(titles[p], titles'[p])
    /\ Kept(moves[p], moves'[p])

\* trg_pages_initial_revision_number, trg_pages_lifecycle_initial_live
PageInsertAllowed(new) == new.rev = 1 /\ new.deleted = NoTime

\* trg_revisions_sequential_insert, and the append guard whose deferred
\* foreign key forces the page onto the new revision before COMMIT.
RevisionInsertAllowed(p) ==
    \A n \in Added(revisions[p], revisions'[p]) :
        /\ n = IF Exists(p) THEN pages[p].rev + 1 ELSE 1
        /\ pages'[p].rev = n

\* trg_pages_current_revision_advance
RevisionAdvanceAllowed(p, old, new) ==
    new.rev # old.rev =>
        /\ new.rev = old.rev + 1
        /\ new.rev \in Added(revisions[p], revisions'[p])

\* trg_pages_stable_identity, trg_pages_updated_at_monotonic
IdentityStable(old, new) ==
    new.created = old.created /\ new.updated >= old.updated

\* trg_page_occurrence_guards_*, trg_pages_occurrence_require_guard
OccurrenceChangeAllowed(p, old, new) ==
    new.occurred # old.occurred =>
        /\ new.updated > old.updated
        /\ new = [old EXCEPT !.occurred = new.occurred, !.updated = new.updated]
        /\ \E n \in Added(corrections[p], corrections'[p]) :
              LET g == corrections'[p][n]
              IN  /\ n = Len(corrections[p]) + 1
                  /\ g.old = old.occurred /\ g.new = new.occurred
                  /\ g.at = new.updated /\ g.rev = new.rev
                  /\ g.audit # 0 =>
                        audits'[g.audit] =
                            [actor |-> Master, page |-> p, at |-> g.at,
                             action |-> "content.page.occurrence.correct"]

\* trg_page_lifecycle_guards_*, trg_pages_lifecycle_require_guard
LifecycleChangeAllowed(p, old, new) ==
    new.deleted # old.deleted =>
        /\ new.updated > old.updated
        /\ new = [old EXCEPT !.deleted = new.deleted, !.updated = new.updated]
        /\ \E n \in Added(lifecycle[p], lifecycle'[p]) :
              LET g == lifecycle'[p][n]
              IN  /\ n = Len(lifecycle[p]) + 1
                  /\ g.section = Section(old.place)
                  /\ g.oldDeleted = old.deleted /\ g.oldUpdated = old.updated
                  /\ g.at = new.updated /\ g.rev = old.rev
                  /\ g.occurred = old.occurred
                  /\ new.deleted = IF g.action = "delete" THEN g.at ELSE NoTime
                  /\ g.audit # 0 =>
                        audits'[g.audit] =
                            [actor |-> Master, page |-> p, at |-> g.at,
                             action |-> ArchiveAudit[g.action]]

\* trg_pages_lifecycle_no_content_while_deleted
DeletedContentFrozen(old, new) ==
    old.deleted # NoTime => new.occurred = old.occurred /\ new.rev = old.rev

\* trg_pages_title_require_audit: exactly one unused master audit.
TitleChangeAllowed(p, old, new) ==
    new.title # old.title =>
        LET unused == {i \in DOMAIN audits' :
                         /\ audits'[i] = [actor |-> Master, page |-> p,
                                          at |-> new.updated,
                                          action |-> "content.page.title.edit"]
                         /\ \A n \in DOMAIN titles[p] : titles[p][n].audit # i}
        IN  /\ old.deleted = NoTime
            /\ new.updated > old.updated
            /\ new = [old EXCEPT !.title = new.title, !.updated = new.updated]
            /\ Cardinality(unused) = 1

\* trg_page_move_guards_validate_insert, trg_pages_move_require_guard
MoveAllowed(p, old, new) ==
    new.place # old.place =>
        /\ old.deleted = NoTime
        /\ new = [old EXCEPT !.place = new.place, !.updated = new.updated]
        /\ \E n \in Added(moves[p], moves'[p]) :
              LET g == moves'[p][n]
              IN  /\ n = Len(moves[p]) + 1
                  /\ g.old = old.place /\ g.new = new.place
                  /\ g.oldUpdated = old.updated /\ g.at = new.updated
                  /\ g.rev = old.rev /\ g.occurred = old.occurred
                  /\ audits'[g.audit].action = "content.page.move"
                  /\ audits'[g.audit].page = p /\ audits'[g.audit].at = g.at
                  /\ \A q \in Pages : \A m \in DOMAIN moves[q] :
                        moves[q][m].audit # g.audit

\* trg_master_move_receipts_validate_insert
MoveReceiptAllowed(r) ==
    r.key[2] = "master_move" =>
        /\ \A s \in receipts : r.changed => s.audit # r.audit
        /\ pages'[r.page] = r.row /\ r.row.deleted = NoTime
        /\ r.changed =>
              LET g == moves'[r.page][Len(moves'[r.page])]
              IN  /\ g.audit = r.audit /\ audits'[g.audit].actor = Master
                  /\ <<g.old, g.new>> = r.request.arg
                  /\ g.oldUpdated = r.before /\ g.at = r.row.updated
                  /\ g.rev = r.row.rev /\ g.occurred = r.row.occurred

PageUpdateAllowed(p, old, new) ==
    /\ IdentityStable(old, new)
    /\ RevisionAdvanceAllowed(p, old, new)
    /\ OccurrenceChangeAllowed(p, old, new)
    /\ LifecycleChangeAllowed(p, old, new)
    /\ DeletedContentFrozen(old, new)
    /\ TitleChangeAllowed(p, old, new)
    /\ MoveAllowed(p, old, new)

\* No trigger refuses what a handler approved: in every step of every handler
\* the rows written satisfy all conditions the migrations enforce, so the
\* Python rules are at least as strict as the SQL ones and no legal request
\* ends in an aborted transaction.  Receipts are never changed or dropped.
TriggersAccept ==
    [][ /\ receipts \subseteq receipts'
        /\ \A r \in receipts' \ receipts : MoveReceiptAllowed(r)
        /\ \A p \in Pages :
              /\ HistoryImmutable(p)
              /\ RevisionInsertAllowed(p)
              /\ IF Exists(p) THEN PageUpdateAllowed(p, pages[p], pages'[p])
                 ELSE pages'[p] # NoPage => PageInsertAllowed(pages'[p]) ]_vars

=============================================================================
