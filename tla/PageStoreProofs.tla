-------------------------- MODULE PageStoreProofs --------------------------
(***************************************************************************)
(* Proofs about PageStore for every number of pages, callers and keys and  *)
(* every bound: type correctness, the uniqueness of ETags, the absence of  *)
(* lost updates, requests that take effect exactly once, and that the      *)
(* store implements the page register.                                     *)
(*                                                                         *)
(* The last two rest on one observation, shown action by action: a step of *)
(* the store answers one new request, with or without writing a row, or is *)
(* an edit of the administrator's forms, or touches neither rows nor       *)
(* audits nor receipts.                                                    *)
(***************************************************************************)
EXTENDS PageRefinement, FiniteSetTheorems, TLAPS

----------------------------------------------------------------------------
(* What a step does to the page rows, seen from the invariant.             *)

\* The row of p is written together with at most one new revision; an
\* existing page keeps its revision number or takes the next one, and its
\* clock advances.
Writes(p, row) ==
    /\ Save(p, row)
    /\ Exists(p) => row.updated > pages[p].updated
    /\ \/ Exists(p) /\ row.rev = pages[p].rev /\ UNCHANGED revisions
       \/ /\ row.rev = IF Exists(p) THEN pages[p].rev + 1 ELSE 1
          /\ \E v \in RevisionRow :
                revisions' = [revisions EXCEPT ![p] = Append(@, v)]

RowStep ==
    \/ UNCHANGED <<pages, rows, revisions>>
    \/ \E p \in Pages, row \in Row : Writes(p, row)

\* A new receipt of a request with If-Match answers the current row: it
\* stores that row, or the row the same step writes.
Answers(r) ==
    /\ Exists(r.page)
    /\ r.request.etag = ETag(r.page, pages[r.page])
    /\ IF r.changed THEN Save(r.page, r.row)
                    ELSE r.row = pages[r.page] /\ UNCHANGED <<pages, rows>>

ReceiptStep ==
    \A r \in receipts' \ receipts : r.request.page # NoPage => Answers(r)

\* The inductive invariant.
IInv == TypeOK /\ HistoryEndsAtPage /\ ClockAdvances /\ NoLostUpdate

\* What is shown of every action.
GoodStep == TypeOK' /\ RowStep /\ ReceiptStep

----------------------------------------------------------------------------
(* The page clock and the table writes.                                    *)

\* max(now, updated + 1) is later than updated, and if it can be represented
\* it is a time.
LEMMA LogicalTimeAdvances ==
    ASSUME NEW row \in Row, NEW now \in Clocks
    PROVE  /\ LogicalTime(row, now) > row.updated
           /\ Representable(LogicalTime(row, now)) => LogicalTime(row, now) \in Times
BY ConstantsAssumption DEF LogicalTime, Row, Times, Representable

\* A page that exists has a row, and a clock reading is a time.
LEMMA ExistingRow ==
    ASSUME TypeOK, NEW p \in Pages, Exists(p)
    PROVE  pages[p] \in Row
BY DEF TypeOK, Exists

LEMMA SaveTyped ==
    ASSUME TypeOK, NEW p \in Pages, NEW row \in Row, Save(p, row)
    PROVE  /\ pages' \in [Pages -> Row \cup {NoPage}]
           /\ rows' \in [Pages -> Seq(Row)]
BY DEF TypeOK, Save

LEMMA AddRevisionTyped ==
    ASSUME TypeOK, NEW p \in Pages, NEW at \in Times, NEW content \in Contents,
           NEW format \in {"legacy_markdown", "file_set_v1"}, NEW sourceAt \in Times,
           AddRevision(p, at, format, content, sourceAt)
    PROVE  /\ revisions' \in [Pages -> Seq(RevisionRow)]
           /\ \E v \in RevisionRow :
                 revisions' = [revisions EXCEPT ![p] = Append(@, v)]
<1> DEFINE v == [at |-> at, format |-> format, content |-> content,
                 sourceAt |-> sourceAt]
<1>1. v \in RevisionRow
    BY DEF RevisionRow
<1>2. revisions' = [revisions EXCEPT ![p] = Append(@, v)]
    BY DEF AddRevision
<1> HIDE DEF v
<1>3. revisions \in [Pages -> Seq(RevisionRow)]
    BY DEF TypeOK
<1>4. revisions' \in [Pages -> Seq(RevisionRow)]
    BY <1>1, <1>2, <1>3
<1>5. QED
    BY <1>1, <1>2, <1>4

LEMMA AuditTyped ==
    ASSUME TypeOK, NEW actor \in Actors, NEW action \in AuditActions,
           NEW p \in Pages, NEW at \in Times, Audit(actor, action, p, at)
    PROVE  audits' \in Seq(AuditRow)
BY DEF TypeOK, Audit, AuditRow

LEMMA NextAuditTyped == TypeOK => NextAudit \in Nat
BY DEF TypeOK, NextAudit

\* Respond adds one receipt; the other receipts are as they were.
LEMMA RespondAdds ==
    ASSUME TypeOK, NEW actor, NEW op, NEW key, NEW request,
           NEW p \in Pages, NEW row \in Row, NEW before \in Times,
           NEW stamp \in Times, NEW content \in Contents,
           Respond(actor, op, key, request, p, row, before, stamp, TRUE,
                   content, NextAudit)
    PROVE  /\ \A r \in receipts' : ReceiptTyped(r)
           /\ \A r \in receipts' \ receipts :
                 r.request = request /\ r.page = p /\ r.row = row /\ r.changed
<1> DEFINE new == [key |-> <<actor, op, key>>, request |-> request, page |-> p,
                   row |-> row, etag |-> ETag(p, row), before |-> before,
                   stamp |-> stamp, changed |-> TRUE, content |-> content,
                   audit |-> NextAudit]
<1>1. receipts' = receipts \cup {new}
    BY DEF Respond
<1>2. new.request = request /\ new.page = p /\ new.row = row /\ new.changed
    OBVIOUS
<1>3. ReceiptTyped(new)
    BY NextAuditTyped DEF ReceiptTyped
<1>4. \A r \in receipts : ReceiptTyped(r)
    BY DEF TypeOK
<1> HIDE DEF new
<1>5. QED
    BY <1>1, <1>2, <1>3, <1>4

----------------------------------------------------------------------------
(* The three shapes of a successful handler.                               *)

EventTablesTyped ==
    /\ corrections \in [Pages -> Seq(CorrectionRow)]
    /\ lifecycle \in [Pages -> Seq(LifecycleRow)]
    /\ titles \in [Pages -> Seq(TitleRow)]
    /\ moves \in [Pages -> Seq(MoveRow)]

RestoresTyped == \A cmd \in restores : RestoreTyped(cmd)

LEMMA EventsUnchangedTyped ==
    TypeOK /\ UNCHANGED events => EventTablesTyped'
BY DEF TypeOK, events, EventTablesTyped

LEMMA RestoresUnchangedTyped ==
    TypeOK /\ UNCHANGED restores => RestoresTyped'
BY DEF TypeOK, RestoresTyped, RestoreTyped

\* If-Match held for the request behind a receipt, or it names no page.
Matched(request, p) ==
    request.page # NoPage => Exists(p) /\ request.etag = ETag(p, pages[p])

\* A new revision: row, revision, audit and receipt.
LEMMA RevisionWriteGood ==
    ASSUME TypeOK, NEW actor \in Actors, NEW op, NEW key, NEW request,
           NEW p \in Pages, NEW row \in Row, NEW content \in Contents,
           NEW format \in {"legacy_markdown", "file_set_v1"},
           NEW action \in AuditActions, NEW at \in Times, NEW now \in Times,
           NEW before \in Times, NEW stamp \in Times,
           Exists(p) => row.updated > pages[p].updated,
           row.rev = IF Exists(p) THEN pages[p].rev + 1 ELSE 1,
           Matched(request, p),
           Save(p, row),
           AddRevision(p, at, format, content, now),
           Audit(actor, action, p, now),
           Respond(actor, op, key, request, p, row, before, stamp, TRUE,
                   content, NextAudit),
           UNCHANGED events, RestoresTyped'
    PROVE  GoodStep
<1>1. /\ revisions' \in [Pages -> Seq(RevisionRow)]
      /\ \E v \in RevisionRow : revisions' = [revisions EXCEPT ![p] = Append(@, v)]
    BY AddRevisionTyped
<1>2. /\ pages' \in [Pages -> Row \cup {NoPage}]
      /\ rows' \in [Pages -> Seq(Row)]
    BY SaveTyped
<1>3. audits' \in Seq(AuditRow)
    BY AuditTyped
<1>4. /\ \A r \in receipts' : ReceiptTyped(r)
      /\ \A r \in receipts' \ receipts :
            r.request = request /\ r.page = p /\ r.row = row /\ r.changed
    BY RespondAdds
<1>5. EventTablesTyped'
    BY EventsUnchangedTyped
<1>6. TypeOK'
    BY <1>1, <1>2, <1>3, <1>4, <1>5
    DEF TypeOK, EventTablesTyped, RestoresTyped, ReceiptTyped
<1>7. RowStep
    BY <1>1 DEF RowStep, Writes
<1>8. ReceiptStep
    BY <1>4 DEF ReceiptStep, Answers, Matched
<1>9. QED
    BY <1>6, <1>7, <1>8 DEF GoodStep

\* A recorded no-op: only the receipt is new.
LEMMA NoOpGood ==
    ASSUME TypeOK, NEW actor, NEW op, NEW key, NEW request, NEW p \in Pages,
           NEW content \in Contents, NEW stamp \in Times,
           Exists(p), Matched(request, p),
           Respond(actor, op, key, request, p, pages[p], pages[p].updated, stamp,
                   FALSE, content, 0),
           UNCHANGED <<pages, rows, revisions, events, audits>>, RestoresTyped'
    PROVE  GoodStep
<1>1. pages[p] \in Row /\ pages[p].updated \in Times
    BY ExistingRow DEF Row
<1>2. /\ \A r \in receipts' : ReceiptTyped(r)
      /\ \A r \in receipts' \ receipts :
            /\ r.request = request /\ r.page = p /\ r.row = pages[p]
            /\ ~r.changed
    <2> DEFINE new == [key |-> <<actor, op, key>>, request |-> request,
                       page |-> p, row |-> pages[p], etag |-> ETag(p, pages[p]),
                       before |-> pages[p].updated, stamp |-> stamp,
                       changed |-> FALSE, content |-> content, audit |-> 0]
    <2>1. receipts' = receipts \cup {new}
        BY DEF Respond
    <2>2. /\ new.request = request /\ new.page = p /\ new.row = pages[p]
          /\ ~new.changed
        OBVIOUS
    <2>3. ReceiptTyped(new)
        BY <1>1 DEF ReceiptTyped
    <2>4. \A r \in receipts : ReceiptTyped(r)
        BY DEF TypeOK
    <2> HIDE DEF new
    <2>5. QED
        BY <2>1, <2>2, <2>3, <2>4
<1>3. EventTablesTyped'
    BY EventsUnchangedTyped
<1>4. TypeOK'
    BY <1>2, <1>3 DEF TypeOK, EventTablesTyped, RestoresTyped, ReceiptTyped
<1>5. RowStep /\ ReceiptStep
    BY <1>2 DEF RowStep, ReceiptStep, Answers, Matched
<1>6. QED
    BY <1>4, <1>5 DEF GoodStep

\* An event without a new revision, with or without a receipt.
LEMMA EventWriteGood ==
    ASSUME TypeOK, NEW actor \in Actors, NEW p \in Pages, NEW row \in Row,
           NEW action \in AuditActions, NEW at \in Times,
           Exists(p), row.updated > pages[p].updated, row.rev = pages[p].rev,
           Save(p, row), Audit(actor, action, p, at),
           EventTablesTyped', UNCHANGED <<revisions, restores>>,
           \A r \in receipts' : ReceiptTyped(r),
           \A r \in receipts' \ receipts :
              Matched(r.request, p) /\ r.page = p /\ r.row = row /\ r.changed
    PROVE  GoodStep
<1>1. /\ pages' \in [Pages -> Row \cup {NoPage}]
      /\ rows' \in [Pages -> Seq(Row)]
    BY SaveTyped
<1>2. audits' \in Seq(AuditRow)
    BY AuditTyped
<1>3. RestoresTyped'
    BY RestoresUnchangedTyped
<1>4. TypeOK'
    BY <1>1, <1>2, <1>3 DEF TypeOK, EventTablesTyped, RestoresTyped, ReceiptTyped
<1>5. RowStep
    BY DEF RowStep, Writes
<1>6. ReceiptStep
    BY DEF ReceiptStep, Answers, Matched
<1>7. QED
    BY <1>4, <1>5, <1>6 DEF GoodStep

----------------------------------------------------------------------------
(* Creation.                                                               *)

LEMMA CreatePageGood ==
    ASSUME TypeOK, NEW actor \in Actors, NEW op, NEW key,
           NEW format \in {"legacy_markdown", "file_set_v1"},
           NEW action \in AuditActions,
           CreatePage(actor, op, key, format, action)
    PROVE  GoodStep
<1>1. PICK p \in Pages, place \in Places, title \in Titles, content \in Contents,
           declared \in Occurrences \cup {NoTime}, now \in Clocks :
        CreatePage(actor, op, key, format, action)!(p, place, title, content,
                                                    declared, now)
    BY DEF CreatePage
<1> DEFINE row == [place |-> place, title |-> title,
                   occurred |-> IF declared = NoTime THEN now ELSE declared,
                   deleted |-> NoTime, created |-> now, updated |-> now,
                   rev |-> 1]
           request == [page |-> NoPage, section |-> Section(place),
                       etag |-> NoETag,
                       arg |-> <<place, title, declared, content>>]
<1>2. row \in Row /\ now \in Times /\ row.rev = 1
    BY ConstantsAssumption DEF Row, Times, NoTime
<1>3. /\ ~Exists(p)
      /\ Save(p, row)
      /\ AddRevision(p, now, format, content, now)
      /\ Audit(actor, action, p, now)
      /\ Respond(actor, op, key, request, p, row, now, now, TRUE, content, NextAudit)
      /\ UNCHANGED <<events, restores>>
    BY <1>1
<1>4. Matched(request, p)
    BY DEF Matched
<1> HIDE DEF row, request
<1>5. RestoresTyped'
    BY <1>3, RestoresUnchangedTyped
<1>6. QED
    BY <1>2, <1>3, <1>4, <1>5, RevisionWriteGood

----------------------------------------------------------------------------
(* New revisions.                                                          *)

\* The row, revision and clock of an append.
LEMMA AppendedRow ==
    ASSUME TypeOK, NEW p \in Pages, Exists(p), NEW now \in Clocks,
           pages[p].rev < MaxRevision,
           Representable(LogicalTime(pages[p], now))
    PROVE  LET t == LogicalTime(pages[p], now)
               row == [pages[p] EXCEPT !.rev = @ + 1, !.updated = t]
           IN  /\ t \in Times /\ row \in Row
               /\ row.rev = pages[p].rev + 1
               /\ row.updated > pages[p].updated
<1> DEFINE t == LogicalTime(pages[p], now)
<1>1. pages[p] \in Row
    BY ExistingRow
<1>2. t \in Times /\ t > pages[p].updated
    BY <1>1, LogicalTimeAdvances
<1>3. /\ pages[p].rev + 1 \in 1 .. MaxRevision
      /\ pages[p].updated \in Times
    BY <1>1, ConstantsAssumption DEF Row
<1> HIDE DEF t
<1> DEFINE row == [pages[p] EXCEPT !.rev = @ + 1, !.updated = t]
<1>4. row \in Row
    BY <1>1, <1>2, <1>3 DEF Row
<1>5. row.rev = pages[p].rev + 1 /\ row.updated = t
    BY <1>1 DEF Row
<1>6. QED
    BY <1>2, <1>4, <1>5 DEF t

LEMMA AppendRevisionGood ==
    ASSUME TypeOK, NEW c \in Callers, NEW key \in Keys, AppendRevision(c, key)
    PROVE  GoodStep
<1>1. PICK p \in Pages, section \in Sections, content \in Contents, now \in Clocks :
        \E etag \in IssuedETags(p) :
            AppendRevision(c, key)!(p, section, content, now)!(etag)
    BY DEF AppendRevision
<1>2. PICK etag \in IssuedETags(p) :
        AppendRevision(c, key)!(p, section, content, now)!(etag)
    BY <1>1
<1> DEFINE t == LogicalTime(pages[p], now)
           row == [pages[p] EXCEPT !.rev = @ + 1, !.updated = t]
           request == [page |-> p, section |-> section, etag |-> etag,
                       arg |-> content]
<1>3. /\ Exists(p) /\ IfMatch(p, etag)
      /\ pages[p].rev < MaxRevision /\ Representable(t)
      /\ Save(p, row)
      /\ AddRevision(p, t, "legacy_markdown", content, now)
      /\ Audit(c, "content.archive.revise", p, now)
      /\ Respond(c, "archive_revise", key, request, p, row, pages[p].updated, t,
                 TRUE, content, NextAudit)
      /\ UNCHANGED <<events, restores>>
    BY <1>2
<1>4. /\ t \in Times /\ row \in Row
      /\ row.rev = pages[p].rev + 1 /\ row.updated > pages[p].updated
    BY <1>3, AppendedRow
<1>5. now \in Times /\ pages[p].updated \in Times
    BY <1>3, ExistingRow, ConstantsAssumption DEF Row
<1>6. Matched(request, p)
    BY <1>3 DEF Matched, IfMatch
<1>7. c \in Actors /\ "content.archive.revise" \in AuditActions
    BY DEF Actors, AuditActions
<1> HIDE DEF t, row, request
<1>8. RestoresTyped'
    BY <1>3, RestoresUnchangedTyped
<1>9. QED
    BY <1>3, <1>4, <1>5, <1>6, <1>7, <1>8, RevisionWriteGood

LEMMA NewSnapshotGood ==
    ASSUME TypeOK, NEW actor \in Actors, NEW op, NEW key, NEW request,
           NEW p \in Pages, NEW content \in Contents, NEW now \in Clocks,
           Exists(p), Matched(request, p),
           NewSnapshot(actor, op, key, request, p, content, now),
           RestoresTyped'
    PROVE  GoodStep
<1> DEFINE t == LogicalTime(pages[p], now)
           row == [pages[p] EXCEPT !.rev = @ + 1, !.updated = t]
<1>1. /\ pages[p].rev < MaxRevision /\ Representable(t)
      /\ Save(p, row)
      /\ AddRevision(p, t, "file_set_v1", content, now)
      /\ Audit(actor, "content.page.file_set.revise", p, now)
      /\ Respond(actor, op, key, request, p, row, pages[p].updated, now, TRUE,
                 content, NextAudit)
      /\ UNCHANGED events
    BY DEF NewSnapshot
<1>2. /\ t \in Times /\ row \in Row
      /\ row.rev = pages[p].rev + 1 /\ row.updated > pages[p].updated
    BY <1>1, AppendedRow
<1>3. now \in Times /\ pages[p].updated \in Times
    BY ExistingRow, ConstantsAssumption DEF Row
<1>4. "content.page.file_set.revise" \in AuditActions
    BY DEF AuditActions
<1> HIDE DEF t, row
<1>5. QED
    BY <1>1, <1>2, <1>3, <1>4, RevisionWriteGood

LEMMA SameSnapshotGood ==
    ASSUME TypeOK, NEW actor, NEW op, NEW key, NEW request,
           NEW p \in Pages, NEW content \in Contents, NEW now \in Clocks,
           Exists(p), Matched(request, p),
           SameSnapshot(actor, op, key, request, p, content, now),
           RestoresTyped'
    PROVE  GoodStep
<1>1. now \in Times
    BY ConstantsAssumption
<1>2. QED
    BY <1>1, NoOpGood DEF SameSnapshot

LEMMA AppendFileSetGood ==
    ASSUME TypeOK, NEW c \in Callers, NEW key \in Keys, AppendFileSet(c, key)
    PROVE  GoodStep
<1>1. PICK p \in Pages, section \in Sections, content \in Contents, now \in Clocks :
        \E etag \in IssuedETags(p) :
            AppendFileSet(c, key)!(p, section, content, now)!(etag)
    BY DEF AppendFileSet
<1>2. PICK etag \in IssuedETags(p) :
        AppendFileSet(c, key)!(p, section, content, now)!(etag)
    BY <1>1
<1> DEFINE request == [page |-> p, section |-> section, etag |-> etag,
                       arg |-> content]
<1>3. /\ Exists(p) /\ IfMatch(p, etag) /\ UNCHANGED restores
      /\ \/ NewSnapshot(c, "file_set_append", key, request, p, content, now)
         \/ SameSnapshot(c, "file_set_append", key, request, p, content, now)
    BY <1>2
<1>4. Matched(request, p) /\ RestoresTyped' /\ c \in Actors
    BY <1>3, RestoresUnchangedTyped DEF Matched, IfMatch, Actors
<1> HIDE DEF request
<1>5. QED
    BY <1>3, <1>4, NewSnapshotGood, SameSnapshotGood

LEMMA MasterReviseGood ==
    ASSUME TypeOK, NEW key, NEW p \in Pages, NEW place, NEW etag,
           NEW content \in Contents, NEW source, NEW now \in Clocks,
           MasterRevise(key, p, place, etag, content, source, now),
           RestoresTyped'
    PROVE  GoodStep
<1> DEFINE request == [page |-> p, section |-> Section(place), etag |-> etag,
                       arg |-> <<place, content, source>>]
<1>1. /\ Exists(p) /\ IfMatch(p, etag)
      /\ \/ NewSnapshot(Master, "master_revise", key, request, p, content, now)
         \/ SameSnapshot(Master, "master_revise", key, request, p, content, now)
    BY DEF MasterRevise, Active
<1>2. Matched(request, p) /\ Master \in Actors
    BY <1>1 DEF Matched, IfMatch, Actors
<1> HIDE DEF request
<1>3. QED
    BY <1>1, <1>2, NewSnapshotGood, SameSnapshotGood

LEMMA MasterReviseFileSetGood ==
    ASSUME TypeOK, NEW key \in Keys, MasterReviseFileSet(key)
    PROVE  GoodStep
BY MasterReviseGood, RestoresUnchangedTyped DEF MasterReviseFileSet

LEMMA RestoreReadGood ==
    ASSUME TypeOK, NEW key \in Keys, RestoreRead(key)
    PROVE  GoodStep
<1>1. PICK p \in Pages, place \in Places :
        \E n \in DOMAIN revisions[p], etag \in IssuedETags(p) :
            RestoreRead(key)!(p, place)!(n, etag)
    BY DEF RestoreRead
<1>2. PICK n \in DOMAIN revisions[p], etag \in IssuedETags(p) :
        RestoreRead(key)!(p, place)!(n, etag)
    BY <1>1
<1> DEFINE cmd == [key |-> key, page |-> p, place |-> place, etag |-> etag,
                   source |-> n, content |-> revisions[p][n].content]
<1>3. revisions[p][n] \in RevisionRow
    BY DEF TypeOK
<1>4. RestoreTyped(cmd)
    BY <1>3 DEF RestoreTyped, RevisionRow
<1>5. restores' = restores \cup {cmd}
    BY <1>2
<1>6. UNCHANGED <<pages, rows, revisions, events, audits, receipts>>
    BY <1>2
<1> HIDE DEF cmd
<1>7. RestoresTyped'
    BY <1>4, <1>5 DEF TypeOK, RestoresTyped
<1>8. TypeOK'
    BY <1>6, <1>7 DEF TypeOK, events, RestoresTyped, ReceiptTyped
<1>9. QED
    BY <1>6, <1>8 DEF GoodStep, RowStep, ReceiptStep

LEMMA RestoreEndGood ==
    ASSUME TypeOK, RestoreEnd
    PROVE  GoodStep
<1>1. PICK cmd \in restores :
        /\ restores' = restores \ {cmd}
        /\ UNCHANGED <<pages, rows, revisions, events, audits, receipts>>
    BY DEF RestoreEnd
<1>2. TypeOK'
    BY <1>1 DEF TypeOK, events, RestoreTyped, ReceiptTyped
<1>3. QED
    BY <1>1, <1>2 DEF GoodStep, RowStep, ReceiptStep

LEMMA RestoreWriteGood ==
    ASSUME TypeOK, RestoreWrite
    PROVE  GoodStep
<1>1. PICK cmd \in restores, now \in Clocks :
        /\ MasterRevise(cmd.key, cmd.page, cmd.place, cmd.etag, cmd.content,
                        cmd.source, now)
        /\ restores' = restores \ {cmd}
    BY DEF RestoreWrite
<1>2. cmd.page \in Pages /\ cmd.content \in Contents
    BY DEF TypeOK, RestoreTyped
<1>3. RestoresTyped'
    BY <1>1 DEF TypeOK, RestoresTyped, RestoreTyped
<1>4. QED
    BY <1>1, <1>2, <1>3, MasterReviseGood

----------------------------------------------------------------------------
(* Events: corrections, lifecycle, titles and moves.                       *)

\* A row whose clock advances and whose revision stays.
LEMMA EventRow ==
    ASSUME TypeOK, NEW p \in Pages, Exists(p), NEW now \in Clocks,
           Representable(LogicalTime(pages[p], now))
    PROVE  /\ pages[p] \in Row
           /\ LogicalTime(pages[p], now) \in Times
           /\ LogicalTime(pages[p], now) > pages[p].updated
           /\ pages[p].updated \in Times
BY ExistingRow, LogicalTimeAdvances DEF Row

\* The receipt of a keyed event: its content is that of the current revision.
LEMMA CurrentContentTyped ==
    ASSUME TypeOK, HistoryEndsAtPage, NEW p \in Pages, Exists(p)
    PROVE  CurrentRevision(p).content \in Contents
<1>1. pages[p].rev \in DOMAIN revisions[p]
    <2>1. pages[p].rev \in 1 .. MaxRevision
        BY ExistingRow DEF Row
    <2>2. Len(revisions[p]) = pages[p].rev /\ revisions[p] \in Seq(RevisionRow)
        BY DEF TypeOK, HistoryEndsAtPage
    <2>3. QED
        BY <2>1, <2>2, ConstantsAssumption
<1>2. revisions[p][pages[p].rev] \in RevisionRow
    BY <1>1 DEF TypeOK
<1>3. QED
    BY <1>2 DEF CurrentRevision, RevisionRow

\* A keyed event: its receipt answers the row that was matched.
LEMMA KeyedEventGood ==
    ASSUME TypeOK, NEW actor \in Actors, NEW op, NEW key, NEW request,
           NEW p \in Pages, NEW row \in Row, NEW before \in Times,
           NEW stamp \in Times, NEW content \in Contents,
           NEW action \in AuditActions, NEW at \in Times,
           Exists(p), row.updated > pages[p].updated, row.rev = pages[p].rev,
           Matched(request, p),
           Save(p, row), Audit(actor, action, p, at), EventTablesTyped',
           Respond(actor, op, key, request, p, row, before, stamp, TRUE, content,
                   NextAudit),
           UNCHANGED <<revisions, restores>>
    PROVE  GoodStep
<1>1. /\ \A r \in receipts' : ReceiptTyped(r)
      /\ \A r \in receipts' \ receipts :
            r.request = request /\ r.page = p /\ r.row = row /\ r.changed
    BY RespondAdds
<1>2. \A r \in receipts' \ receipts :
         Matched(r.request, p) /\ r.page = p /\ r.row = row /\ r.changed
    BY <1>1
<1>3. QED
    BY <1>1, <1>2, EventWriteGood

\* An event of the master forms stores no receipt.
LEMMA UnkeyedEventGood ==
    ASSUME TypeOK, NEW p \in Pages, NEW row \in Row,
           NEW action \in AuditActions, NEW at \in Times,
           Exists(p), row.updated > pages[p].updated, row.rev = pages[p].rev,
           Save(p, row), Audit(Master, action, p, at),
           EventTablesTyped', UNCHANGED <<revisions, receipts, restores>>
    PROVE  GoodStep
<1>1. \A r \in receipts' : ReceiptTyped(r)
    BY DEF TypeOK
<1>2. Master \in Actors
    BY DEF Actors
<1>3. QED
    BY <1>1, <1>2, EventWriteGood

\* A correction's row and event.
LEMMA RecordCorrectionTyped ==
    ASSUME TypeOK, NEW p \in Pages, Exists(p), NEW new \in Nat, NEW t \in Times,
           NEW audit \in Nat, RecordCorrection(p, new, t, audit)
    PROVE  /\ Save(p, AfterCorrection(p, new, t))
           /\ AfterCorrection(p, new, t) \in Row
           /\ AfterCorrection(p, new, t).updated = t
           /\ AfterCorrection(p, new, t).rev = pages[p].rev
           /\ corrections' \in [Pages -> Seq(CorrectionRow)]
<1> DEFINE row == AfterCorrection(p, new, t)
           e == [old |-> pages[p].occurred, new |-> new, at |-> t,
                 rev |-> pages[p].rev, audit |-> audit]
<1>1. pages[p] \in Row
    BY ExistingRow
<1>2. row \in Row /\ row.updated = t /\ row.rev = pages[p].rev
    BY <1>1 DEF Row, AfterCorrection
<1>3. e \in CorrectionRow
    BY <1>1 DEF Row, CorrectionRow
<1>4. /\ Save(p, row)
      /\ corrections' = [corrections EXCEPT ![p] = Append(@, e)]
    BY DEF RecordCorrection
<1> HIDE DEF e
<1>5. corrections' \in [Pages -> Seq(CorrectionRow)]
    BY <1>3, <1>4 DEF TypeOK
<1>6. QED
    BY <1>2, <1>4, <1>5

LEMMA CorrectOccurrenceGood ==
    ASSUME TypeOK, HistoryEndsAtPage, NEW c \in Callers, NEW key \in Keys,
           CorrectOccurrence(c, key)
    PROVE  GoodStep
<1>1. PICK p \in Pages, section \in Sections, new \in Occurrences, now \in Clocks :
        \E etag \in IssuedETags(p) :
            CorrectOccurrence(c, key)!(p, section, new, now)!(etag)
    BY DEF CorrectOccurrence
<1>2. PICK etag \in IssuedETags(p) :
        CorrectOccurrence(c, key)!(p, section, new, now)!(etag)
    BY <1>1
<1> DEFINE t == LogicalTime(pages[p], now)
           row == AfterCorrection(p, new, t)
           request == [page |-> p, section |-> section, etag |-> etag,
                       arg |-> new]
<1>3. /\ Exists(p) /\ IfMatch(p, etag) /\ Representable(t)
      /\ RecordCorrection(p, new, t, 0)
      /\ Audit(c, "content.archive.correct_occurrence", p, t)
      /\ Respond(c, "correct_occurrence", key, request, p, row, pages[p].updated,
                 t, TRUE, CurrentRevision(p).content, NextAudit)
      /\ UNCHANGED <<revisions, lifecycle, titles, moves, restores>>
    BY <1>2
<1>4. t \in Times /\ t > pages[p].updated /\ pages[p].updated \in Times
    BY <1>3, EventRow
<1>5. new \in Nat
    BY ConstantsAssumption
<1>6. Matched(request, p)
    BY <1>3 DEF Matched, IfMatch
<1>7. c \in Actors /\ "content.archive.correct_occurrence" \in AuditActions
    BY DEF Actors, AuditActions
<1>8. CurrentRevision(p).content \in Contents
    BY <1>3, CurrentContentTyped
<1> HIDE DEF t, request
<1>9. /\ Save(p, row) /\ row \in Row /\ row.updated = t
      /\ row.rev = pages[p].rev
      /\ corrections' \in [Pages -> Seq(CorrectionRow)]
    BY <1>3, <1>4, <1>5, RecordCorrectionTyped
<1> HIDE DEF row
<1>10. EventTablesTyped'
    BY <1>3, <1>9 DEF TypeOK, EventTablesTyped
<1>11. QED
    BY <1>3, <1>4, <1>6, <1>7, <1>8, <1>9, <1>10, KeyedEventGood

LEMMA MasterCorrectOccurrenceGood ==
    ASSUME TypeOK, MasterCorrectOccurrence
    PROVE  GoodStep
<1>1. PICK p \in Pages, place \in Places, new \in Occurrences, now \in Clocks :
        \E etag \in IssuedETags(p) :
            MasterCorrectOccurrence!(p, place, new, now)!(etag)
    BY DEF MasterCorrectOccurrence
<1> DEFINE t == LogicalTime(pages[p], now)
           row == AfterCorrection(p, new, t)
<1>2. /\ Exists(p) /\ Representable(t)
      /\ Audit(Master, "content.page.occurrence.correct", p, t)
      /\ RecordCorrection(p, new, t, NextAudit)
      /\ UNCHANGED <<revisions, lifecycle, titles, moves, receipts, restores>>
    BY <1>1 DEF Active
<1>3. t \in Times /\ t > pages[p].updated
    BY <1>2, EventRow
<1>4. /\ new \in Nat /\ NextAudit \in Nat
      /\ "content.page.occurrence.correct" \in AuditActions
    BY ConstantsAssumption, NextAuditTyped DEF AuditActions
<1> HIDE DEF t
<1>5. /\ Save(p, row) /\ row \in Row /\ row.updated = t
      /\ row.rev = pages[p].rev
      /\ corrections' \in [Pages -> Seq(CorrectionRow)]
    BY <1>2, <1>3, <1>4, RecordCorrectionTyped
<1> HIDE DEF row
<1>6. EventTablesTyped'
    BY <1>2, <1>5 DEF TypeOK, EventTablesTyped
<1>7. QED
    BY <1>2, <1>3, <1>4, <1>5, <1>6, UnkeyedEventGood

\* A lifecycle transition's row and event.
LEMMA RecordLifecycleTyped ==
    ASSUME TypeOK, NEW p \in Pages, Exists(p),
           NEW action \in {"delete", "restore"}, NEW actor \in Actors,
           NEW t \in Times, NEW audit \in Nat,
           RecordLifecycle(p, action, actor, t, audit)
    PROVE  /\ Save(p, AfterLifecycle(p, action, t))
           /\ AfterLifecycle(p, action, t) \in Row
           /\ AfterLifecycle(p, action, t).updated = t
           /\ AfterLifecycle(p, action, t).rev = pages[p].rev
           /\ lifecycle' \in [Pages -> Seq(LifecycleRow)]
<1> DEFINE row == AfterLifecycle(p, action, t)
           e == [action |-> action, section |-> Section(pages[p].place),
                 oldDeleted |-> pages[p].deleted, oldUpdated |-> pages[p].updated,
                 at |-> t, rev |-> pages[p].rev, occurred |-> pages[p].occurred,
                 actor |-> actor, audit |-> audit]
<1>1. pages[p] \in Row
    BY ExistingRow
<1>2. row \in Row /\ row.updated = t /\ row.rev = pages[p].rev
    <2> DEFINE d == IF action = "delete" THEN t ELSE NoTime
    <2>1. d \in 0 .. MaxTime
        BY ConstantsAssumption DEF Times, NoTime
    <2>2. row = [pages[p] EXCEPT !.deleted = d, !.updated = t]
        BY DEF AfterLifecycle
    <2> HIDE DEF d, row
    <2>3. QED
        BY <1>1, <2>1, <2>2 DEF Row
<1>3. Section(pages[p].place) \in Sections
    BY <1>1 DEF Row, Sections
<1>4. e \in LifecycleRow
    BY <1>1, <1>3 DEF Row, LifecycleRow
<1>5. /\ Save(p, row)
      /\ lifecycle' = [lifecycle EXCEPT ![p] = Append(@, e)]
    BY DEF RecordLifecycle
<1> HIDE DEF e
<1>6. lifecycle' \in [Pages -> Seq(LifecycleRow)]
    BY <1>4, <1>5 DEF TypeOK
<1>7. QED
    BY <1>2, <1>5, <1>6

LEMMA LifecycleAuditTyped ==
    ASSUME NEW action \in {"delete", "restore"}
    PROVE  ArchiveAudit[action] \in AuditActions /\ PageAudit[action] \in AuditActions
<1>1. CASE action = "delete"
    BY <1>1 DEF ArchiveAudit, PageAudit, AuditActions
<1>2. CASE action = "restore"
    BY <1>2 DEF ArchiveAudit, PageAudit, AuditActions
<1>3. QED
    BY <1>1, <1>2

\* A lifecycle transition with its audit and receipt.
LEMMA KeyedLifecycleGood ==
    ASSUME TypeOK, HistoryEndsAtPage, NEW c \in Callers, NEW op, NEW key,
           NEW request, NEW p \in Pages, NEW now \in Clocks,
           NEW action \in {"delete", "restore"}, NEW audited \in AuditActions,
           Exists(p), Matched(request, p),
           RecordLifecycle(p, action, c, LogicalTime(pages[p], now), 0),
           Audit(c, audited, p, LogicalTime(pages[p], now)),
           Respond(c, op, key, request, p,
                   AfterLifecycle(p, action, LogicalTime(pages[p], now)),
                   pages[p].updated, LogicalTime(pages[p], now), TRUE,
                   CurrentRevision(p).content, NextAudit),
           UNCHANGED <<revisions, corrections, titles, moves, restores>>
    PROVE  GoodStep
<1> DEFINE t == LogicalTime(pages[p], now)
           row == AfterLifecycle(p, action, t)
<1>1. Representable(t)
    BY DEF RecordLifecycle
<1>2. t \in Times /\ t > pages[p].updated /\ pages[p].updated \in Times
    BY <1>1, EventRow
<1>3. CurrentRevision(p).content \in Contents
    BY CurrentContentTyped
<1>4. c \in Actors
    BY DEF Actors
<1>5. /\ Save(p, row) /\ row \in Row /\ row.updated = t
      /\ row.rev = pages[p].rev
      /\ lifecycle' \in [Pages -> Seq(LifecycleRow)]
    BY <1>2, <1>4, RecordLifecycleTyped
<1>6. EventTablesTyped'
    BY <1>5 DEF TypeOK, EventTablesTyped
<1>7. QED
    BY <1>2, <1>3, <1>4, <1>5, <1>6, KeyedEventGood

LEMMA TransitionPageLifecycleGood ==
    ASSUME TypeOK, HistoryEndsAtPage, NEW c \in Callers, NEW key \in Keys,
           NEW action \in {"delete", "restore"},
           TransitionPageLifecycle(c, key, action)
    PROVE  GoodStep
<1>1. PICK p \in Pages, section \in Sections, now \in Clocks :
        \E etag \in IssuedETags(p) :
            TransitionPageLifecycle(c, key, action)!(p, section, now)!(etag)
    BY DEF TransitionPageLifecycle
<1>2. PICK etag \in IssuedETags(p) :
        TransitionPageLifecycle(c, key, action)!(p, section, now)!(etag)
    BY <1>1
<1> DEFINE request == [page |-> p, section |-> section, etag |-> etag,
                       arg |-> action]
<1>3. Matched(request, p)
    BY <1>2 DEF Matched, IfMatch
<1>4. ArchiveAudit[action] \in AuditActions
    BY LifecycleAuditTyped
<1>5. QED
    BY <1>2, <1>3, <1>4, KeyedLifecycleGood

LEMMA LibraryPageLifecycleGood ==
    ASSUME TypeOK, HistoryEndsAtPage, NEW c \in Callers, NEW key \in Keys,
           NEW action \in {"delete", "restore"},
           LibraryPageLifecycle(c, key, action)
    PROVE  GoodStep
<1>1. PICK p \in Pages, now \in Clocks :
        \E etag \in IssuedETags(p) :
            LibraryPageLifecycle(c, key, action)!(p, now)!(etag)
    BY DEF LibraryPageLifecycle
<1>2. PICK etag \in IssuedETags(p) :
        LibraryPageLifecycle(c, key, action)!(p, now)!(etag)
    BY <1>1
<1> DEFINE request == [page |-> p, section |-> NoPage, etag |-> etag,
                       arg |-> action]
<1>3. Matched(request, p)
    BY <1>2 DEF Matched, IfMatch
<1>4. PageAudit[action] \in AuditActions
    BY LifecycleAuditTyped
<1>5. QED
    BY <1>2, <1>3, <1>4, KeyedLifecycleGood

LEMMA MasterPageLifecycleGood ==
    ASSUME TypeOK, NEW action \in {"delete", "restore"},
           MasterPageLifecycle(action)
    PROVE  GoodStep
<1>1. PICK p \in Pages, place \in Places, now \in Clocks :
        \E etag \in IssuedETags(p) :
            MasterPageLifecycle(action)!(p, place, now)!(etag)
    BY DEF MasterPageLifecycle
<1> DEFINE t == LogicalTime(pages[p], now)
           row == AfterLifecycle(p, action, t)
<1>2. /\ Exists(p)
      /\ Audit(Master, ArchiveAudit[action], p, t)
      /\ RecordLifecycle(p, action, Master, t, NextAudit)
      /\ UNCHANGED <<revisions, corrections, titles, moves, receipts, restores>>
    BY <1>1
<1>3. t \in Times /\ t > pages[p].updated
    BY <1>2, EventRow DEF RecordLifecycle
<1>4. Master \in Actors /\ NextAudit \in Nat /\ ArchiveAudit[action] \in AuditActions
    BY NextAuditTyped, LifecycleAuditTyped DEF Actors
<1> HIDE DEF t
<1>5. /\ Save(p, row) /\ row \in Row /\ row.updated = t
      /\ row.rev = pages[p].rev
      /\ lifecycle' \in [Pages -> Seq(LifecycleRow)]
    BY <1>2, <1>3, <1>4, RecordLifecycleTyped
<1> HIDE DEF row
<1>6. EventTablesTyped'
    BY <1>2, <1>5 DEF TypeOK, EventTablesTyped
<1>7. QED
    BY <1>2, <1>3, <1>4, <1>5, <1>6, UnkeyedEventGood

LEMMA MasterUpdateTitleGood ==
    ASSUME TypeOK, MasterUpdateTitle
    PROVE  GoodStep
<1>1. PICK p \in Pages, place \in Places, title \in Titles, now \in Clocks :
        \E expected \in {etag.updated : etag \in IssuedETags(p)} :
            MasterUpdateTitle!(p, place, title, now)!(expected)
    BY DEF MasterUpdateTitle
<1> DEFINE t == LogicalTime(pages[p], now)
           row == AfterTitle(p, title, t)
           e == [old |-> pages[p].title, new |-> title,
                 oldUpdated |-> pages[p].updated, at |-> t,
                 rev |-> pages[p].rev, audit |-> NextAudit]
<1>2. /\ Exists(p) /\ Representable(t)
      /\ Audit(Master, "content.page.title.edit", p, t)
      /\ Save(p, row)
      /\ titles' = [titles EXCEPT ![p] = Append(@, e)]
      /\ UNCHANGED <<revisions, corrections, lifecycle, moves, receipts, restores>>
    BY <1>1 DEF Active
<1>3. pages[p] \in Row /\ t \in Times /\ t > pages[p].updated
    BY <1>2, EventRow
<1>4. NextAudit \in Nat /\ "content.page.title.edit" \in AuditActions
    BY NextAuditTyped DEF AuditActions
<1> HIDE DEF t
<1>5. row \in Row /\ row.updated = t /\ row.rev = pages[p].rev
    BY <1>3 DEF Row, AfterTitle
<1>6. e \in TitleRow
    BY <1>3, <1>4 DEF Row, TitleRow
<1> HIDE DEF e, row
<1>7. titles' \in [Pages -> Seq(TitleRow)]
    BY <1>2, <1>6 DEF TypeOK
<1>8. EventTablesTyped'
    BY <1>2, <1>7 DEF TypeOK, EventTablesTyped
<1>9. QED
    BY <1>2, <1>3, <1>4, <1>5, <1>8, UnkeyedEventGood

LEMMA ChangePlaceGood ==
    ASSUME TypeOK, HistoryEndsAtPage, NEW actor \in Actors, NEW op, NEW key,
           NEW request, NEW p \in Pages, NEW target \in Places,
           NEW now \in Clocks, Exists(p), Matched(request, p),
           ChangePlace(actor, op, key, request, p, target, now),
           UNCHANGED <<revisions, restores>>
    PROVE  GoodStep
<1> DEFINE t == LogicalTime(pages[p], now)
           row == AfterMove(p, target, t)
           e == [old |-> pages[p].place, new |-> target,
                 oldUpdated |-> pages[p].updated, at |-> t, rev |-> pages[p].rev,
                 occurred |-> pages[p].occurred, audit |-> NextAudit]
<1>1. /\ Representable(t)
      /\ Audit(actor, "content.page.move", p, t)
      /\ Save(p, row)
      /\ moves' = [moves EXCEPT ![p] = Append(@, e)]
      /\ Respond(actor, op, key, request, p, row, pages[p].updated, now, TRUE,
                 CurrentRevision(p).content, NextAudit)
      /\ UNCHANGED <<corrections, lifecycle, titles>>
    BY DEF ChangePlace
<1>2. /\ pages[p] \in Row /\ t \in Times /\ t > pages[p].updated
      /\ pages[p].updated \in Times /\ now \in Times
    BY <1>1, EventRow, ConstantsAssumption
<1>3. NextAudit \in Nat /\ "content.page.move" \in AuditActions
    BY NextAuditTyped DEF AuditActions
<1>4. CurrentRevision(p).content \in Contents
    BY CurrentContentTyped
<1> HIDE DEF t
<1>5. row \in Row /\ row.updated = t /\ row.rev = pages[p].rev
    BY <1>2 DEF Row, AfterMove
<1>6. e \in MoveRow
    BY <1>2, <1>3 DEF Row, MoveRow
<1> HIDE DEF e, row
<1>7. moves' \in [Pages -> Seq(MoveRow)]
    BY <1>1, <1>6 DEF TypeOK
<1>8. EventTablesTyped'
    BY <1>1, <1>7 DEF TypeOK, EventTablesTyped
<1>9. QED
    BY <1>1, <1>2, <1>3, <1>4, <1>5, <1>8, KeyedEventGood

LEMMA MovePageGood ==
    ASSUME TypeOK, HistoryEndsAtPage, NEW actor \in Actors, NEW op, NEW key,
           MovePage(actor, op, key)
    PROVE  GoodStep
<1>1. PICK p \in Pages, source \in Places, target \in Places, now \in Clocks :
        \E etag \in IssuedETags(p) :
            MovePage(actor, op, key)!(p, source, target, now)!(etag)
    BY DEF MovePage
<1>2. PICK etag \in IssuedETags(p) :
        MovePage(actor, op, key)!(p, source, target, now)!(etag)
    BY <1>1
<1> DEFINE request == [page |-> p, section |-> NoPage, etag |-> etag,
                       arg |-> <<source, target>>]
<1>3. /\ Exists(p) /\ IfMatch(p, etag) /\ UNCHANGED <<revisions, restores>>
      /\ \/ ChangePlace(actor, op, key, request, p, target, now)
         \/ SamePlace(actor, op, key, request, p, target, now)
    BY <1>2 DEF Active
<1>4. Matched(request, p)
    BY <1>3 DEF Matched, IfMatch
<1> HIDE DEF request
<1>5. CASE ChangePlace(actor, op, key, request, p, target, now)
    BY <1>3, <1>4, <1>5, ChangePlaceGood
<1>6. CASE SamePlace(actor, op, key, request, p, target, now)
    <2>1. CurrentRevision(p).content \in Contents /\ now \in Times
        BY <1>3, CurrentContentTyped, ConstantsAssumption
    <2>2. RestoresTyped'
        BY <1>3, RestoresUnchangedTyped
    <2>3. /\ Respond(actor, op, key, request, p, pages[p], pages[p].updated, now,
                     FALSE, CurrentRevision(p).content, 0)
          /\ UNCHANGED <<pages, rows, revisions, events, audits>>
        BY <1>3, <1>6 DEF SamePlace
    <2>4. QED
        BY <1>3, <1>4, <2>1, <2>2, <2>3, NoOpGood
<1>7. QED
    BY <1>3, <1>5, <1>6

----------------------------------------------------------------------------
(* Every step is good, and good steps keep the invariant.                  *)

LEMMA NextGood ==
    ASSUME IInv, Next
    PROVE  GoodStep
<1> USE DEF IInv
<1>1. ASSUME NEW c \in Callers, NEW key \in Keys, CallerNext(c, key)
      PROVE  GoodStep
    <2> c \in Actors
        BY DEF Actors
    <2> /\ "content.archive.create" \in AuditActions
        /\ "content.page.file_set.create" \in AuditActions
        BY DEF AuditActions
    <2>1. CASE CreateArchive(c, key)
        BY <2>1, CreatePageGood DEF CreateArchive
    <2>2. CASE CreateFileSet(c, key)
        BY <2>2, CreatePageGood DEF CreateFileSet
    <2>3. CASE AppendRevision(c, key)
        BY <2>3, AppendRevisionGood
    <2>4. CASE AppendFileSet(c, key)
        BY <2>4, AppendFileSetGood
    <2>5. CASE CorrectOccurrence(c, key)
        BY <2>5, CorrectOccurrenceGood
    <2>6. ASSUME NEW action \in {"delete", "restore"},
                 TransitionPageLifecycle(c, key, action)
          PROVE  GoodStep
        BY <2>6, TransitionPageLifecycleGood
    <2>7. ASSUME NEW action \in {"delete", "restore"},
                 LibraryPageLifecycle(c, key, action)
          PROVE  GoodStep
        BY <2>7, LibraryPageLifecycleGood
    <2>8. CASE CallerMovePage(c, key)
        BY <2>8, MovePageGood DEF CallerMovePage
    <2>9. QED
        BY <1>1, <2>1, <2>2, <2>3, <2>4, <2>5, <2>6, <2>7, <2>8 DEF CallerNext
<1>2. ASSUME MasterNext
      PROVE  GoodStep
    <2> Master \in Actors /\ "content.page.file_set.create" \in AuditActions
        BY DEF Actors, AuditActions
    <2>1. ASSUME NEW key \in Keys, MasterCreateFileSet(key)
          PROVE  GoodStep
        BY <2>1, CreatePageGood DEF MasterCreateFileSet
    <2>2. ASSUME NEW key \in Keys, MasterReviseFileSet(key)
          PROVE  GoodStep
        BY <2>2, MasterReviseFileSetGood
    <2>3. ASSUME NEW key \in Keys, RestoreRead(key)
          PROVE  GoodStep
        BY <2>3, RestoreReadGood
    <2>4. ASSUME NEW key \in Keys, MasterMovePage(key)
          PROVE  GoodStep
        BY <2>4, MovePageGood DEF MasterMovePage
    <2>5. ASSUME NEW action \in {"delete", "restore"}, MasterPageLifecycle(action)
          PROVE  GoodStep
        BY <2>5, MasterPageLifecycleGood
    <2>6. QED
        BY <1>2, <2>1, <2>2, <2>3, <2>4, <2>5, RestoreWriteGood, RestoreEndGood,
           MasterCorrectOccurrenceGood, MasterUpdateTitleGood DEF MasterNext
<1>3. QED
    BY <1>1, <1>2 DEF Next

\* The rows after a write: the old ones, then the new one.
LEMMA SaveRows ==
    ASSUME TypeOK, NEW p \in Pages, NEW row \in Row, Save(p, row)
    PROVE  /\ pages'[p] = row
           /\ rows[p] \in Seq(Row) /\ rows'[p] = Append(rows[p], row)
           /\ Len(rows'[p]) = Len(rows[p]) + 1
           /\ DOMAIN rows'[p] = DOMAIN rows[p] \cup {Len(rows[p]) + 1}
           /\ rows'[p][Len(rows[p]) + 1] = row
           /\ \A i \in DOMAIN rows[p] : rows'[p][i] = rows[p][i]
           /\ \A q \in Pages \ {p} : rows'[q] = rows[q] /\ pages'[q] = pages[q]
<1>1. /\ pages' = [pages EXCEPT ![p] = row]
      /\ rows' = [rows EXCEPT ![p] = Append(@, row)]
    BY DEF Save
<1>2. pages \in [Pages -> Row \cup {NoPage}] /\ rows \in [Pages -> Seq(Row)]
    BY DEF TypeOK
<1>3. pages'[p] = row /\ rows[p] \in Seq(Row) /\ rows'[p] = Append(rows[p], row)
    BY <1>1, <1>2
<1>4. \A q \in Pages \ {p} : rows'[q] = rows[q] /\ pages'[q] = pages[q]
    BY <1>1, <1>2
<1>5. QED
    BY <1>3, <1>4

LEMMA HistoryKept ==
    ASSUME TypeOK, HistoryEndsAtPage, RowStep
    PROVE  HistoryEndsAtPage'
<1>1. CASE UNCHANGED <<pages, rows, revisions>>
    BY <1>1 DEF HistoryEndsAtPage, Exists
<1>2. ASSUME NEW p \in Pages, NEW row \in Row, Writes(p, row)
      PROVE  HistoryEndsAtPage'
    <2>1. Save(p, row) /\ row # NoPage
        BY <1>2, ConstantsAssumption DEF Writes
    <2>2. revisions \in [Pages -> Seq(RevisionRow)]
        BY DEF TypeOK
    <2>3. Len(revisions'[p]) = row.rev
        <3>1. CASE Exists(p) /\ row.rev = pages[p].rev /\ UNCHANGED revisions
            BY <3>1 DEF HistoryEndsAtPage
        <3>2. ASSUME row.rev = IF Exists(p) THEN pages[p].rev + 1 ELSE 1,
                     NEW v \in RevisionRow,
                     revisions' = [revisions EXCEPT ![p] = Append(@, v)]
              PROVE  Len(revisions'[p]) = row.rev
            <4>1. Len(revisions'[p]) = Len(revisions[p]) + 1
                BY <2>2, <3>2
            <4>2. Len(revisions[p]) = IF Exists(p) THEN pages[p].rev ELSE 0
                BY DEF HistoryEndsAtPage
            <4>3. QED
                BY <3>2, <4>1, <4>2
        <3>3. QED
            BY <1>2, <3>1, <3>2 DEF Writes
    <2>4. \A q \in Pages \ {p} : revisions'[q] = revisions[q]
        BY <1>2, <2>2 DEF Writes
    <2>5. /\ Len(rows'[p]) > 0 /\ rows'[p][Len(rows'[p])] = pages'[p]
          /\ pages'[p] = row
        BY <2>1, SaveRows
    <2>6. \A q \in Pages \ {p} : rows'[q] = rows[q] /\ pages'[q] = pages[q]
        BY <2>1, SaveRows
    <2>7. QED
        BY <2>1, <2>3, <2>4, <2>5, <2>6 DEF HistoryEndsAtPage, Exists
<1>3. QED
    BY <1>1, <1>2 DEF RowStep

LEMMA ClockKept ==
    ASSUME TypeOK, HistoryEndsAtPage, ClockAdvances, RowStep
    PROVE  ClockAdvances'
<1>1. CASE UNCHANGED <<pages, rows, revisions>>
    BY <1>1 DEF ClockAdvances
<1>2. ASSUME NEW p \in Pages, NEW row \in Row, Writes(p, row)
      PROVE  ClockAdvances'
    <2>1. Save(p, row)
        BY <1>2 DEF Writes
    <2> DEFINE n == Len(rows[p])
    <2>2. n \in Nat /\ DOMAIN rows[p] = 1 .. n /\ DOMAIN rows'[p] = 1 .. n + 1
        BY <2>1, SaveRows
    <2>3. \A i \in DOMAIN rows[p] : rows[p][i].updated < row.updated
        <3> SUFFICES ASSUME NEW i \in DOMAIN rows[p]
                     PROVE  rows[p][i].updated < row.updated
            OBVIOUS
        <3>1. Exists(p) /\ n \in DOMAIN rows[p] /\ rows[p][n] = pages[p]
            BY <2>2 DEF HistoryEndsAtPage
        <3>2. rows[p][i].updated <= pages[p].updated
            <4>1. rows[p][i] \in Row /\ pages[p] \in Row
                BY <3>1, ExistingRow DEF TypeOK
            <4>2. rows[p][i].updated \in Nat /\ pages[p].updated \in Nat
                BY <4>1 DEF Row, Times
            <4>3. CASE i = n
                BY <3>1, <4>2, <4>3
            <4>4. CASE i < n
                BY <3>1, <4>2, <4>4 DEF ClockAdvances
            <4>5. QED
                BY <2>2, <4>3, <4>4
        <3>3. pages[p].updated < row.updated
            BY <1>2, <3>1 DEF Writes
        <3>4. rows[p][i] \in Row /\ pages[p] \in Row
            BY <3>1, ExistingRow DEF TypeOK
        <3>5. /\ rows[p][i].updated \in Nat /\ pages[p].updated \in Nat
              /\ row.updated \in Nat
            BY <3>4 DEF Row, Times
        <3>6. QED
            BY <3>2, <3>3, <3>5
    <2> HIDE DEF n
    <2>4. ASSUME NEW i \in DOMAIN rows'[p], NEW j \in DOMAIN rows'[p], i < j
          PROVE  rows'[p][i].updated < rows'[p][j].updated
        <3>1. i \in DOMAIN rows[p] /\ rows'[p][i] = rows[p][i]
            BY <2>1, <2>2, <2>4, SaveRows
        <3>2. CASE j \in DOMAIN rows[p]
            BY <2>1, <2>4, <3>1, <3>2, SaveRows DEF ClockAdvances
        <3>3. CASE j \notin DOMAIN rows[p]
            BY <2>1, <2>3, <3>1, <3>3, SaveRows
        <3>4. QED
            BY <3>2, <3>3
    <2>5. \A q \in Pages \ {p} : rows'[q] = rows[q]
        BY <2>1, SaveRows
    <2>6. QED
        BY <2>4, <2>5 DEF ClockAdvances
<1>3. QED
    BY <1>1, <1>2 DEF RowStep

\* A receipt that once directly followed the state it matched still does:
\* rows are only added at the end.
Follows(r) ==
    \E i \in DOMAIN rows[r.page] :
        /\ ETag(r.page, rows[r.page][i]) = r.request.etag
        /\ LET j == IF r.changed THEN i + 1 ELSE i
           IN  j \in DOMAIN rows[r.page] /\ rows[r.page][j] = r.row

LEMMA FollowsKept ==
    ASSUME TypeOK, RowStep, NEW r, r.page \in Pages, Follows(r)
    PROVE  Follows(r)'
<1>1. CASE UNCHANGED <<pages, rows, revisions>>
    BY <1>1 DEF Follows, ETag
<1>2. ASSUME NEW p \in Pages, NEW row \in Row, Writes(p, row)
      PROVE  Follows(r)'
    <2>1. Save(p, row)
        BY <1>2 DEF Writes
    <2>2. /\ DOMAIN rows[r.page] \subseteq DOMAIN rows'[r.page]
          /\ \A i \in DOMAIN rows[r.page] : rows'[r.page][i] = rows[r.page][i]
        BY <2>1, SaveRows
    <2>3. QED
        BY <2>2 DEF Follows, ETag
<1>3. QED
    BY <1>1, <1>2 DEF RowStep

LEMMA AnswerFollows ==
    ASSUME TypeOK, HistoryEndsAtPage, NEW r, r.page \in Pages, r.row \in Row,
           Answers(r)
    PROVE  Follows(r)'
<1> DEFINE p == r.page
           n == Len(rows[p])
<1>1. rows[p] \in Seq(Row) /\ n \in DOMAIN rows[p] /\ rows[p][n] = pages[p]
    BY DEF TypeOK, HistoryEndsAtPage, Answers
<1>2. ETag(p, rows[p][n]) = r.request.etag
    BY <1>1 DEF Answers
<1>3. CASE r.changed
    <2>1. Save(p, r.row)
        BY <1>3 DEF Answers
    <2>2. /\ n \in DOMAIN rows'[p] /\ rows'[p][n] = rows[p][n]
          /\ n + 1 \in DOMAIN rows'[p] /\ rows'[p][n + 1] = r.row
        BY <1>1, <2>1, SaveRows
    <2>3. QED
        BY <1>2, <1>3, <2>2 DEF Follows, ETag
<1>4. CASE ~r.changed
    BY <1>1, <1>2, <1>4 DEF Answers, Follows, ETag
<1>5. QED
    BY <1>3, <1>4

LEMMA NoLostUpdateKept ==
    ASSUME TypeOK, HistoryEndsAtPage, NoLostUpdate, GoodStep
    PROVE  NoLostUpdate'
<1> SUFFICES ASSUME NEW r \in receipts', r.request.page # NoPage
             PROVE  Follows(r)'
    BY DEF NoLostUpdate, Follows
<1>1. r.page \in Pages /\ r.row \in Row
    BY DEF GoodStep, TypeOK, ReceiptTyped
<1>2. CASE r \in receipts
    <2>1. Follows(r)
        BY <1>2 DEF NoLostUpdate, Follows
    <2>2. QED
        BY <1>1, <2>1, FollowsKept DEF GoodStep
<1>3. CASE r \notin receipts
    BY <1>1, <1>3, AnswerFollows DEF GoodStep, ReceiptStep
<1>4. QED
    BY <1>2, <1>3

LEMMA IInvHolds == Spec => []IInv
<1>1. Init => IInv
    BY DEF Init, IInv, TypeOK, HistoryEndsAtPage, ClockAdvances, NoLostUpdate, Exists
<1>2. IInv /\ [Next]_vars => IInv'
    <2> SUFFICES ASSUME IInv, [Next]_vars
                 PROVE  IInv'
        OBVIOUS
    <2>1. CASE Next
        <3>1. GoodStep
            BY <2>1, NextGood
        <3>2. QED
            BY <3>1, HistoryKept, ClockKept, NoLostUpdateKept DEF IInv, GoodStep
    <2>2. CASE UNCHANGED vars
        BY <2>2 DEF vars, IInv, TypeOK, HistoryEndsAtPage, ClockAdvances,
                    NoLostUpdate, Exists, ETag, ReceiptTyped, RestoreTyped
    <2>3. QED
        BY <2>1, <2>2
<1>3. QED
    BY <1>1, <1>2, PTL DEF Spec

----------------------------------------------------------------------------
(* The theorems.                                                           *)

\* Every column always holds a value its schema allows, whatever the wall
\* clock does: no handler stores a time or revision number out of range.
THEOREM TypesHold == Spec => []TypeOK
<1>1. IInv => TypeOK
    BY DEF IInv
<1>2. QED
    BY <1>1, IInvHolds, PTL

\* No two states a page ever had share an ETag (page_current_etag), because
\* every write advances the page clock past max(now, updated_at + 1).
THEOREM ETagsIdentifyStates == Spec => []ETagsNeverRepeat
<1>1. IInv => ETagsNeverRepeat
    <2> SUFFICES ASSUME IInv, NEW p \in Pages, NEW i \in DOMAIN rows[p],
                        NEW j \in DOMAIN rows[p], i # j
                 PROVE  ETag(p, rows[p][i]) # ETag(p, rows[p][j])
        BY DEF ETagsNeverRepeat
    <2>1. rows[p] \in Seq(Row) /\ i \in Nat /\ j \in Nat
        BY DEF IInv, TypeOK
    <2>2. rows[p][i].updated \in Nat /\ rows[p][j].updated \in Nat
        <3>1. rows[p][i] \in Row /\ rows[p][j] \in Row
            BY <2>1
        <3>2. QED
            BY <3>1 DEF Row, Times
    <2>3. rows[p][i].updated # rows[p][j].updated
        BY <2>1, <2>2 DEF IInv, ClockAdvances
    <2>4. QED
        BY <2>3 DEF ETag
<1>2. QED
    BY <1>1, IInvHolds, PTL

\* Every answered If-Match request wrote the row that directly follows the
\* row whose ETag it carried, or answered a no-op with that very row.
THEOREM UpdatesAreNotLost == Spec => []NoLostUpdate
<1>1. IInv => NoLostUpdate
    BY DEF IInv
<1>2. QED
    BY <1>1, IInvHolds, PTL

----------------------------------------------------------------------------
(* The three effects of a step.                                            *)

\* A success audit that belongs to a keyed request.
Audited(p, keyed) ==
    \E a \in AuditRow : /\ audits' = Append(audits, a)
                        /\ a.page = p /\ Unkeyed(a) = ~keyed

\* The request behind r was made against the current row of its page, or
\* creates the page.
BasedOnCurrent(r) ==
    IF Exists(r.page)
    THEN /\ r.request.page = r.page
         /\ r.request.etag = ETag(r.page, pages[r.page])
    ELSE r.request.page = NoPage

\* The step answers the request behind r, which had no answer.
KeyedEffect(r) ==
    /\ receipts' = receipts \cup {r}
    /\ r.key \in RequestNames /\ \A s \in receipts : s.key # r.key
    /\ r.page \in Pages /\ r.etag = ETag(r.page, r.row)
    /\ BasedOnCurrent(r)
    /\ \/ /\ r.changed /\ r.audit = NextAudit
          /\ Save(r.page, r.row) /\ Audited(r.page, TRUE)
       \/ /\ ~r.changed /\ Exists(r.page) /\ r.row = pages[r.page]
          /\ UNCHANGED <<pages, rows, audits>>

\* The administrator edits p through a form.
FormEffect(p) ==
    /\ Exists(p) /\ \E row \in Row : Save(p, row)
    /\ Audited(p, FALSE)
    /\ UNCHANGED receipts

NoEffect == UNCHANGED <<pages, rows, audits, receipts>>

Effect ==
    \/ \E r : KeyedEffect(r)
    \/ \E p \in Pages : FormEffect(p)
    \/ NoEffect

\* Restores that are under way were submitted with a key.
RestoresKeyed == \A cmd \in restores : cmd.key \in Keys

----------------------------------------------------------------------------
(* Every action has one of the effects.                                    *)

\* Who may send what: the administrator's requests are audited under the
\* actions that count as keyed.
KeyedActions ==
    {"content.page.file_set.create", "content.page.file_set.revise",
     "content.page.move"}

LEMMA AuditIsKeyed ==
    ASSUME NEW actor \in Actors, NEW action \in AuditActions, NEW p \in Pages,
           NEW at \in Times, Audit(actor, action, p, at),
           actor = Master => action \in KeyedActions
    PROVE  Audited(p, TRUE)
<1> DEFINE a == [actor |-> actor, action |-> action, page |-> p, at |-> at]
<1>1. a \in AuditRow
    BY DEF AuditRow
<1>2. audits' = Append(audits, a)
    BY DEF Audit
<1>3. ~Unkeyed(a) /\ a.page = p
    BY DEF Unkeyed, KeyedActions
<1> HIDE DEF a
<1>4. QED
    BY <1>1, <1>2, <1>3 DEF Audited, Unkeyed

LEMMA AuditIsUnkeyed ==
    ASSUME NEW action \in AuditActions \ KeyedActions, NEW p \in Pages,
           NEW at \in Times, Audit(Master, action, p, at)
    PROVE  Audited(p, FALSE)
<1> DEFINE a == [actor |-> Master, action |-> action, page |-> p, at |-> at]
<1>1. a \in AuditRow
    BY DEF AuditRow, Actors
<1>2. audits' = Append(audits, a)
    BY DEF Audit
<1>3. Unkeyed(a) /\ a.page = p
    BY DEF Unkeyed, KeyedActions
<1> HIDE DEF a
<1>4. QED
    BY <1>1, <1>2, <1>3 DEF Audited, Unkeyed

\* A handler that writes a row, its audit and its receipt.
LEMMA ChangeEffect ==
    ASSUME NEW actor \in Actors, NEW op, NEW key, NEW request, NEW p \in Pages,
           NEW row, NEW before, NEW stamp, NEW content,
           NEW action \in AuditActions, NEW at \in Times,
           <<actor, op, key>> \in RequestNames, Unused(actor, op, key),
           actor = Master => action \in KeyedActions,
           IF Exists(p) THEN request.page = p /\ request.etag = ETag(p, pages[p])
                        ELSE request.page = NoPage,
           Save(p, row), Audit(actor, action, p, at),
           Respond(actor, op, key, request, p, row, before, stamp, TRUE, content,
                   NextAudit)
    PROVE  Effect
<1> DEFINE r == [key |-> <<actor, op, key>>, request |-> request, page |-> p,
                 row |-> row, etag |-> ETag(p, row), before |-> before,
                 stamp |-> stamp, changed |-> TRUE, content |-> content,
                 audit |-> NextAudit]
<1>1. receipts' = receipts \cup {r}
    BY DEF Respond
<1>2. /\ r.key = <<actor, op, key>> /\ r.request = request /\ r.page = p
      /\ r.row = row /\ r.etag = ETag(p, row) /\ r.changed /\ r.audit = NextAudit
    OBVIOUS
<1>3. Audited(p, TRUE)
    BY AuditIsKeyed
<1> HIDE DEF r
<1>4. KeyedEffect(r)
    BY <1>1, <1>2, <1>3 DEF KeyedEffect, BasedOnCurrent, Unused
<1>5. QED
    BY <1>4 DEF Effect

\* A handler that finds the page as the request wants it.
LEMMA NoOpEffect ==
    ASSUME NEW actor, NEW op, NEW key, NEW request, NEW p \in Pages,
           NEW before, NEW stamp, NEW content,
           <<actor, op, key>> \in RequestNames, Unused(actor, op, key),
           Exists(p), request.page = p, request.etag = ETag(p, pages[p]),
           Respond(actor, op, key, request, p, pages[p], before, stamp, FALSE,
                   content, 0),
           UNCHANGED <<pages, rows, audits>>
    PROVE  Effect
<1> DEFINE r == [key |-> <<actor, op, key>>, request |-> request, page |-> p,
                 row |-> pages[p], etag |-> ETag(p, pages[p]), before |-> before,
                 stamp |-> stamp, changed |-> FALSE, content |-> content,
                 audit |-> 0]
<1>1. receipts' = receipts \cup {r}
    BY DEF Respond
<1>2. /\ r.key = <<actor, op, key>> /\ r.request = request /\ r.page = p
      /\ r.row = pages[p] /\ r.etag = ETag(p, pages[p]) /\ ~r.changed
    OBVIOUS
<1> HIDE DEF r
<1>3. KeyedEffect(r)
    BY <1>1, <1>2 DEF KeyedEffect, BasedOnCurrent, Unused
<1>4. QED
    BY <1>3 DEF Effect

\* The names of the requests each kind of actor sends.
LEMMA CallerName ==
    ASSUME NEW c \in Callers, NEW key \in Keys, NEW op,
           op \in {"archive_create", "file_set_create", "archive_revise",
                   "file_set_append", "correct_occurrence", "delete", "restore",
                   "page_delete", "page_restore", "page_move"},
           Unused(c, op, key)
    PROVE  /\ <<c, op, key>> \in RequestNames
           /\ c \in Actors /\ c # Master
BY IdentityAssumption DEF RequestNames, CallerRoutes, Unused, Actors

LEMMA MasterName ==
    ASSUME NEW key \in Keys, NEW op,
           op \in {"master_create", "master_revise", "master_move"},
           Unused(Master, op, key)
    PROVE  <<Master, op, key>> \in RequestNames /\ Master \in Actors
BY DEF RequestNames, MasterRoutes, Unused, Actors

LEMMA CreatePageEffect ==
    ASSUME NEW actor \in Actors, NEW op, NEW key, NEW format,
           NEW action \in AuditActions,
           CreatePage(actor, op, key, format, action),
           Unused(actor, op, key) => <<actor, op, key>> \in RequestNames,
           actor = Master => action \in KeyedActions
    PROVE  Effect
<1>1. PICK p \in Pages, place \in Places, title \in Titles, content \in Contents,
           declared \in Occurrences \cup {NoTime}, now \in Clocks :
        CreatePage(actor, op, key, format, action)!(p, place, title, content,
                                                    declared, now)
    BY DEF CreatePage
<1> DEFINE row == [place |-> place, title |-> title,
                   occurred |-> IF declared = NoTime THEN now ELSE declared,
                   deleted |-> NoTime, created |-> now, updated |-> now,
                   rev |-> 1]
           request == [page |-> NoPage, section |-> Section(place),
                       etag |-> NoETag,
                       arg |-> <<place, title, declared, content>>]
<1>2. /\ ~Exists(p) /\ Unused(actor, op, key)
      /\ Save(p, row) /\ Audit(actor, action, p, now)
      /\ Respond(actor, op, key, request, p, row, now, now, TRUE, content, NextAudit)
    BY <1>1
<1>3. request.page = NoPage /\ now \in Times
    BY ConstantsAssumption
<1> HIDE DEF row, request
<1>4. QED
    BY <1>2, <1>3, ChangeEffect

LEMMA AppendRevisionEffect ==
    ASSUME TypeOK, NEW c \in Callers, NEW key \in Keys, AppendRevision(c, key)
    PROVE  Effect
<1>1. PICK p \in Pages, section \in Sections, content \in Contents, now \in Clocks :
        \E etag \in IssuedETags(p) :
            AppendRevision(c, key)!(p, section, content, now)!(etag)
    BY DEF AppendRevision
<1>2. PICK etag \in IssuedETags(p) :
        AppendRevision(c, key)!(p, section, content, now)!(etag)
    BY <1>1
<1> DEFINE t == LogicalTime(pages[p], now)
           row == [pages[p] EXCEPT !.rev = @ + 1, !.updated = t]
           request == [page |-> p, section |-> section, etag |-> etag,
                       arg |-> content]
<1>3. /\ Exists(p) /\ IfMatch(p, etag) /\ Unused(c, "archive_revise", key)
      /\ Save(p, row) /\ Audit(c, "content.archive.revise", p, now)
      /\ Respond(c, "archive_revise", key, request, p, row, pages[p].updated, t,
                 TRUE, content, NextAudit)
    BY <1>2
<1>4. request.page = p /\ request.etag = ETag(p, pages[p])
    BY <1>3 DEF IfMatch
<1>5. now \in Times /\ "content.archive.revise" \in AuditActions
    BY ConstantsAssumption DEF AuditActions
<1> HIDE DEF t, row, request
<1>6. QED
    BY <1>3, <1>4, <1>5, CallerName, ChangeEffect

LEMMA SnapshotEffect ==
    ASSUME NEW actor \in Actors, NEW op, NEW key, NEW request, NEW p \in Pages,
           NEW content, NEW now \in Clocks,
           <<actor, op, key>> \in RequestNames, Unused(actor, op, key),
           Exists(p), request.page = p, request.etag = ETag(p, pages[p]),
           \/ NewSnapshot(actor, op, key, request, p, content, now)
           \/ SameSnapshot(actor, op, key, request, p, content, now)
    PROVE  Effect
<1>1. CASE NewSnapshot(actor, op, key, request, p, content, now)
    <2> DEFINE row == [pages[p] EXCEPT !.rev = @ + 1,
                                       !.updated = LogicalTime(pages[p], now)]
    <2>1. /\ Save(p, row) /\ Audit(actor, "content.page.file_set.revise", p, now)
          /\ Respond(actor, op, key, request, p, row, pages[p].updated, now, TRUE,
                     content, NextAudit)
        BY <1>1 DEF NewSnapshot
    <2>2. /\ now \in Times /\ "content.page.file_set.revise" \in AuditActions
          /\ "content.page.file_set.revise" \in KeyedActions
        BY ConstantsAssumption DEF AuditActions, KeyedActions
    <2> HIDE DEF row
    <2>3. QED
        BY <2>1, <2>2, ChangeEffect
<1>2. CASE SameSnapshot(actor, op, key, request, p, content, now)
    BY <1>2, NoOpEffect DEF SameSnapshot
<1>3. QED
    BY <1>1, <1>2

LEMMA AppendFileSetEffect ==
    ASSUME NEW c \in Callers, NEW key \in Keys, AppendFileSet(c, key)
    PROVE  Effect
<1>1. PICK p \in Pages, section \in Sections, content \in Contents, now \in Clocks :
        \E etag \in IssuedETags(p) :
            AppendFileSet(c, key)!(p, section, content, now)!(etag)
    BY DEF AppendFileSet
<1>2. PICK etag \in IssuedETags(p) :
        AppendFileSet(c, key)!(p, section, content, now)!(etag)
    BY <1>1
<1> DEFINE request == [page |-> p, section |-> section, etag |-> etag,
                       arg |-> content]
<1>3. /\ Exists(p) /\ IfMatch(p, etag) /\ Unused(c, "file_set_append", key)
      /\ \/ NewSnapshot(c, "file_set_append", key, request, p, content, now)
         \/ SameSnapshot(c, "file_set_append", key, request, p, content, now)
    BY <1>2
<1>4. request.page = p /\ request.etag = ETag(p, pages[p])
    BY <1>3 DEF IfMatch
<1> HIDE DEF request
<1>5. QED
    BY <1>3, <1>4, CallerName, SnapshotEffect

LEMMA MasterReviseEffect ==
    ASSUME NEW key \in Keys, NEW p \in Pages, NEW place, NEW etag,
           NEW content, NEW source, NEW now \in Clocks,
           MasterRevise(key, p, place, etag, content, source, now)
    PROVE  Effect
<1> DEFINE request == [page |-> p, section |-> Section(place), etag |-> etag,
                       arg |-> <<place, content, source>>]
<1>1. /\ Exists(p) /\ IfMatch(p, etag) /\ Unused(Master, "master_revise", key)
      /\ \/ NewSnapshot(Master, "master_revise", key, request, p, content, now)
         \/ SameSnapshot(Master, "master_revise", key, request, p, content, now)
    BY DEF MasterRevise, Active
<1>2. request.page = p /\ request.etag = ETag(p, pages[p])
    BY <1>1 DEF IfMatch
<1> HIDE DEF request
<1>3. QED
    BY <1>1, <1>2, MasterName, SnapshotEffect

LEMMA RestoreWriteEffect ==
    ASSUME TypeOK, RestoresKeyed, RestoreWrite
    PROVE  Effect
<1>1. PICK cmd \in restores, now \in Clocks :
        MasterRevise(cmd.key, cmd.page, cmd.place, cmd.etag, cmd.content,
                     cmd.source, now)
    BY DEF RestoreWrite
<1>2. cmd.key \in Keys /\ cmd.page \in Pages
    BY DEF RestoresKeyed, TypeOK, RestoreTyped
<1>3. QED
    BY <1>1, <1>2, MasterReviseEffect

LEMMA CorrectOccurrenceEffect ==
    ASSUME TypeOK, NEW c \in Callers, NEW key \in Keys, CorrectOccurrence(c, key)
    PROVE  Effect
<1>1. PICK p \in Pages, section \in Sections, new \in Occurrences, now \in Clocks :
        \E etag \in IssuedETags(p) :
            CorrectOccurrence(c, key)!(p, section, new, now)!(etag)
    BY DEF CorrectOccurrence
<1>2. PICK etag \in IssuedETags(p) :
        CorrectOccurrence(c, key)!(p, section, new, now)!(etag)
    BY <1>1
<1> DEFINE t == LogicalTime(pages[p], now)
           row == AfterCorrection(p, new, t)
           request == [page |-> p, section |-> section, etag |-> etag,
                       arg |-> new]
<1>3. /\ Exists(p) /\ IfMatch(p, etag) /\ Representable(t)
      /\ Unused(c, "correct_occurrence", key)
      /\ Save(p, row) /\ Audit(c, "content.archive.correct_occurrence", p, t)
      /\ Respond(c, "correct_occurrence", key, request, p, row, pages[p].updated,
                 t, TRUE, CurrentRevision(p).content, NextAudit)
    BY <1>2 DEF RecordCorrection
<1>4. request.page = p /\ request.etag = ETag(p, pages[p])
    BY <1>3 DEF IfMatch
<1>5. t \in Times /\ "content.archive.correct_occurrence" \in AuditActions
    BY <1>3, EventRow DEF AuditActions
<1> HIDE DEF t, row, request
<1>6. QED
    BY <1>3, <1>4, <1>5, CallerName, ChangeEffect

LEMMA KeyedLifecycleEffect ==
    ASSUME TypeOK, NEW c \in Callers, NEW op, NEW key \in Keys,
           NEW request, NEW p \in Pages, NEW now \in Clocks, NEW content,
           NEW action \in {"delete", "restore"}, NEW audited \in AuditActions,
           op \in {"delete", "restore", "page_delete", "page_restore"},
           Unused(c, op, key), Exists(p),
           request.page = p, request.etag = ETag(p, pages[p]),
           RecordLifecycle(p, action, c, LogicalTime(pages[p], now), 0),
           Audit(c, audited, p, LogicalTime(pages[p], now)),
           Respond(c, op, key, request, p,
                   AfterLifecycle(p, action, LogicalTime(pages[p], now)),
                   pages[p].updated, LogicalTime(pages[p], now), TRUE,
                   content, NextAudit)
    PROVE  Effect
<1> DEFINE t == LogicalTime(pages[p], now)
           row == AfterLifecycle(p, action, t)
<1>1. Representable(t) /\ Save(p, row)
    BY DEF RecordLifecycle
<1>2. t \in Times
    BY <1>1, EventRow
<1>3. /\ <<c, op, key>> \in RequestNames
      /\ c \in Actors /\ c # Master
    BY CallerName
<1> HIDE DEF row
<1>4. QED
    BY <1>1, <1>2, <1>3, ChangeEffect DEF row

LEMMA TransitionPageLifecycleEffect ==
    ASSUME TypeOK, NEW c \in Callers, NEW key \in Keys,
           NEW action \in {"delete", "restore"},
           TransitionPageLifecycle(c, key, action)
    PROVE  Effect
<1>1. PICK p \in Pages, section \in Sections, now \in Clocks :
        \E etag \in IssuedETags(p) :
            TransitionPageLifecycle(c, key, action)!(p, section, now)!(etag)
    BY DEF TransitionPageLifecycle
<1>2. PICK etag \in IssuedETags(p) :
        TransitionPageLifecycle(c, key, action)!(p, section, now)!(etag)
    BY <1>1
<1> DEFINE request == [page |-> p, section |-> section, etag |-> etag,
                       arg |-> action]
<1>3. request.page = p /\ request.etag = ETag(p, pages[p])
    BY <1>2 DEF IfMatch
<1>4. ArchiveAudit[action] \in AuditActions
    BY LifecycleAuditTyped
<1>5. QED
    BY <1>2, <1>3, <1>4, KeyedLifecycleEffect

LEMMA LibraryPageLifecycleEffect ==
    ASSUME TypeOK, NEW c \in Callers, NEW key \in Keys,
           NEW action \in {"delete", "restore"},
           LibraryPageLifecycle(c, key, action)
    PROVE  Effect
<1>1. PICK p \in Pages, now \in Clocks :
        \E etag \in IssuedETags(p) :
            LibraryPageLifecycle(c, key, action)!(p, now)!(etag)
    BY DEF LibraryPageLifecycle
<1>2. PICK etag \in IssuedETags(p) :
        LibraryPageLifecycle(c, key, action)!(p, now)!(etag)
    BY <1>1
<1> DEFINE request == [page |-> p, section |-> NoPage, etag |-> etag,
                       arg |-> action]
<1>3. request.page = p /\ request.etag = ETag(p, pages[p])
    BY <1>2 DEF IfMatch
<1>4. PageAudit[action] \in AuditActions
    BY LifecycleAuditTyped
<1>5. LibraryRoute[action] \in {"page_delete", "page_restore"}
    <2>1. CASE action = "delete"
        BY <2>1 DEF LibraryRoute
    <2>2. CASE action = "restore"
        BY <2>2 DEF LibraryRoute
    <2>3. QED
        BY <2>1, <2>2
<1>6. QED
    BY <1>2, <1>3, <1>4, <1>5, KeyedLifecycleEffect

LEMMA MovePageEffect ==
    ASSUME TypeOK, NEW actor \in Actors, NEW op, NEW key,
           MovePage(actor, op, key),
           Unused(actor, op, key) => <<actor, op, key>> \in RequestNames
    PROVE  Effect
<1>1. PICK p \in Pages, source \in Places, target \in Places, now \in Clocks :
        \E etag \in IssuedETags(p) :
            MovePage(actor, op, key)!(p, source, target, now)!(etag)
    BY DEF MovePage
<1>2. PICK etag \in IssuedETags(p) :
        MovePage(actor, op, key)!(p, source, target, now)!(etag)
    BY <1>1
<1> DEFINE request == [page |-> p, section |-> NoPage, etag |-> etag,
                       arg |-> <<source, target>>]
<1>3. /\ Exists(p) /\ IfMatch(p, etag) /\ Unused(actor, op, key)
      /\ \/ ChangePlace(actor, op, key, request, p, target, now)
         \/ SamePlace(actor, op, key, request, p, target, now)
    BY <1>2 DEF Active
<1>4. request.page = p /\ request.etag = ETag(p, pages[p])
    BY <1>3 DEF IfMatch
<1> HIDE DEF request
<1>5. CASE ChangePlace(actor, op, key, request, p, target, now)
    <2> DEFINE t == LogicalTime(pages[p], now)
               row == AfterMove(p, target, t)
    <2>1. /\ Representable(t) /\ Save(p, row)
          /\ Audit(actor, "content.page.move", p, t)
          /\ Respond(actor, op, key, request, p, row, pages[p].updated, now, TRUE,
                     CurrentRevision(p).content, NextAudit)
        BY <1>5 DEF ChangePlace
    <2>2. /\ t \in Times /\ "content.page.move" \in AuditActions
          /\ "content.page.move" \in KeyedActions
        BY <1>3, <2>1, EventRow DEF AuditActions, KeyedActions
    <2> HIDE DEF t, row
    <2>3. QED
        BY <1>3, <1>4, <2>1, <2>2, ChangeEffect
<1>6. CASE SamePlace(actor, op, key, request, p, target, now)
    BY <1>3, <1>4, <1>6, NoOpEffect DEF SamePlace
<1>7. QED
    BY <1>3, <1>5, <1>6

LEMMA MasterCorrectOccurrenceEffect ==
    ASSUME TypeOK, MasterCorrectOccurrence
    PROVE  Effect
<1>1. PICK p \in Pages, place \in Places, new \in Occurrences, now \in Clocks :
        \E etag \in IssuedETags(p) :
            MasterCorrectOccurrence!(p, place, new, now)!(etag)
    BY DEF MasterCorrectOccurrence
<1> DEFINE t == LogicalTime(pages[p], now)
           row == AfterCorrection(p, new, t)
<1>2. /\ Exists(p) /\ Representable(t)
      /\ Audit(Master, "content.page.occurrence.correct", p, t)
      /\ RecordCorrection(p, new, t, NextAudit) /\ UNCHANGED receipts
    BY <1>1 DEF Active
<1>3. /\ t \in Times /\ new \in Nat /\ NextAudit \in Nat
      /\ "content.page.occurrence.correct" \in AuditActions \ KeyedActions
    BY <1>2, EventRow, ConstantsAssumption, NextAuditTyped
    DEF AuditActions, KeyedActions
<1>4. Save(p, row) /\ row \in Row
    BY <1>2, <1>3, RecordCorrectionTyped
<1>5. Audited(p, FALSE)
    BY <1>2, <1>3, AuditIsUnkeyed
<1>6. QED
    BY <1>2, <1>4, <1>5 DEF Effect, FormEffect

LEMMA MasterPageLifecycleEffect ==
    ASSUME TypeOK, NEW action \in {"delete", "restore"},
           MasterPageLifecycle(action)
    PROVE  Effect
<1>1. PICK p \in Pages, place \in Places, now \in Clocks :
        \E etag \in IssuedETags(p) :
            MasterPageLifecycle(action)!(p, place, now)!(etag)
    BY DEF MasterPageLifecycle
<1> DEFINE t == LogicalTime(pages[p], now)
           row == AfterLifecycle(p, action, t)
<1>2. /\ Exists(p) /\ UNCHANGED receipts
      /\ Audit(Master, ArchiveAudit[action], p, t)
      /\ RecordLifecycle(p, action, Master, t, NextAudit)
    BY <1>1
<1>3. t \in Times /\ Master \in Actors /\ NextAudit \in Nat
    BY <1>2, EventRow, NextAuditTyped DEF RecordLifecycle, Actors
<1>4. ArchiveAudit[action] \in AuditActions \ KeyedActions
    BY DEF ArchiveAudit, AuditActions, KeyedActions
<1>5. Save(p, row) /\ row \in Row
    BY <1>2, <1>3, RecordLifecycleTyped
<1>6. Audited(p, FALSE)
    BY <1>2, <1>3, <1>4, AuditIsUnkeyed
<1>7. QED
    BY <1>2, <1>5, <1>6 DEF Effect, FormEffect

LEMMA MasterUpdateTitleEffect ==
    ASSUME TypeOK, MasterUpdateTitle
    PROVE  Effect
<1>1. PICK p \in Pages, place \in Places, title \in Titles, now \in Clocks :
        \E expected \in {etag.updated : etag \in IssuedETags(p)} :
            MasterUpdateTitle!(p, place, title, now)!(expected)
    BY DEF MasterUpdateTitle
<1> DEFINE t == LogicalTime(pages[p], now)
           row == AfterTitle(p, title, t)
<1>2. /\ Exists(p) /\ Representable(t) /\ UNCHANGED receipts
      /\ Audit(Master, "content.page.title.edit", p, t)
      /\ Save(p, row)
    BY <1>1 DEF Active
<1>3. pages[p] \in Row /\ t \in Times
    BY <1>2, EventRow
<1>4. "content.page.title.edit" \in AuditActions \ KeyedActions
    BY DEF AuditActions, KeyedActions
<1> HIDE DEF t
<1>5. row \in Row
    BY <1>3 DEF Row, AfterTitle
<1>6. Audited(p, FALSE)
    BY <1>2, <1>3, <1>4, AuditIsUnkeyed
<1>7. QED
    BY <1>2, <1>5, <1>6 DEF Effect, FormEffect

LEMMA NextEffect ==
    ASSUME TypeOK, RestoresKeyed, Next
    PROVE  Effect
<1>1. ASSUME NEW c \in Callers, NEW key \in Keys, CallerNext(c, key)
      PROVE  Effect
    <2> c \in Actors /\ c # Master
        BY IdentityAssumption DEF Actors
    <2> /\ "content.archive.create" \in AuditActions
        /\ "content.page.file_set.create" \in AuditActions
        BY DEF AuditActions
    <2>1. CASE CreateArchive(c, key)
        BY <2>1, CreatePageEffect, CallerName DEF CreateArchive
    <2>2. CASE CreateFileSet(c, key)
        BY <2>2, CreatePageEffect, CallerName DEF CreateFileSet
    <2>3. CASE CallerMovePage(c, key)
        BY <2>3, MovePageEffect, CallerName DEF CallerMovePage
    <2>4. ASSUME NEW action \in {"delete", "restore"},
                 \/ TransitionPageLifecycle(c, key, action)
                 \/ LibraryPageLifecycle(c, key, action)
          PROVE  Effect
        BY <2>4, TransitionPageLifecycleEffect, LibraryPageLifecycleEffect
    <2>5. QED
        BY <1>1, <2>1, <2>2, <2>3, <2>4, AppendRevisionEffect,
           AppendFileSetEffect, CorrectOccurrenceEffect DEF CallerNext
<1>2. ASSUME MasterNext
      PROVE  Effect
    <2> /\ Master \in Actors /\ "content.page.file_set.create" \in AuditActions
        /\ "content.page.file_set.create" \in KeyedActions
        BY DEF Actors, AuditActions, KeyedActions
    <2>1. ASSUME NEW key \in Keys, MasterCreateFileSet(key)
          PROVE  Effect
        BY <2>1, CreatePageEffect, MasterName DEF MasterCreateFileSet
    <2>2. ASSUME NEW key \in Keys, MasterReviseFileSet(key)
          PROVE  Effect
        BY <2>2, MasterReviseEffect DEF MasterReviseFileSet
    <2>3. ASSUME NEW key \in Keys, RestoreRead(key)
          PROVE  Effect
        BY <2>3 DEF RestoreRead, Effect, NoEffect
    <2>4. ASSUME NEW key \in Keys, MasterMovePage(key)
          PROVE  Effect
        BY <2>4, MovePageEffect, MasterName DEF MasterMovePage
    <2>5. CASE RestoreEnd
        BY <2>5 DEF RestoreEnd, Effect, NoEffect
    <2>6. ASSUME NEW action \in {"delete", "restore"}, MasterPageLifecycle(action)
          PROVE  Effect
        BY <2>6, MasterPageLifecycleEffect
    <2>7. QED
        BY <1>2, <2>1, <2>2, <2>3, <2>4, <2>5, <2>6, RestoreWriteEffect,
           MasterCorrectOccurrenceEffect, MasterUpdateTitleEffect DEF MasterNext
<1>3. QED
    BY <1>1, <1>2 DEF Next

----------------------------------------------------------------------------
(* Exactly once.                                                           *)

\* Every receipt names a row its page had, and a receipt that reports a
\* change names an audit that exists.
ReceiptsAnchored ==
    \A r \in receipts :
        /\ r.etag = ETag(r.page, r.row)
        /\ \E i \in DOMAIN rows[r.page] : rows[r.page][i] = r.row
        /\ r.changed => r.audit \in DOMAIN audits

\* The inductive invariant.
OnceInv == IInv /\ RestoresKeyed /\ ReceiptsAnchored /\ ExactlyOnce

LEMMA RestoresKeyedKept ==
    ASSUME RestoresKeyed, Next
    PROVE  RestoresKeyed'
<1>1. ASSUME NEW c \in Callers, NEW key \in Keys, CallerNext(c, key)
      PROVE  UNCHANGED restores
    <2>1. ASSUME NEW op, NEW format, NEW action,
                 CreatePage(c, op, key, format, action)
          PROVE  UNCHANGED restores
        BY <2>1 DEF CreatePage
    <2>2. ASSUME NEW op, MovePage(c, op, key)
          PROVE  UNCHANGED restores
        BY <2>2 DEF MovePage
    <2>3. ASSUME NEW action, \/ TransitionPageLifecycle(c, key, action)
                             \/ LibraryPageLifecycle(c, key, action)
          PROVE  UNCHANGED restores
        BY <2>3 DEF TransitionPageLifecycle, LibraryPageLifecycle
    <2>4. AppendRevision(c, key) => UNCHANGED restores
        BY DEF AppendRevision
    <2>5. AppendFileSet(c, key) => UNCHANGED restores
        BY DEF AppendFileSet
    <2>6. CorrectOccurrence(c, key) => UNCHANGED restores
        BY DEF CorrectOccurrence
    <2>7. QED
        BY <1>1, <2>1, <2>2, <2>3, <2>4, <2>5, <2>6
        DEF CallerNext, CreateArchive, CreateFileSet, CallerMovePage
<1>2. ASSUME NEW key \in Keys, RestoreRead(key)
      PROVE  RestoresKeyed'
    <2>1. PICK p \in Pages, place \in Places :
            \E n \in DOMAIN revisions[p], etag \in IssuedETags(p) :
                restores' = restores \cup
                    {[key |-> key, page |-> p, place |-> place, etag |-> etag,
                      source |-> n, content |-> revisions[p][n].content]}
        BY <1>2 DEF RestoreRead
    <2>2. QED
        BY <2>1 DEF RestoresKeyed
<1>3. ASSUME MasterNext, \A key \in Keys : ~RestoreRead(key)
      PROVE  restores' \subseteq restores
    <2>1. ASSUME NEW key, \/ MasterCreateFileSet(key)
                          \/ MasterReviseFileSet(key) \/ MasterMovePage(key)
          PROVE  UNCHANGED restores
        <3>1. MasterCreateFileSet(key) => UNCHANGED restores
            BY DEF MasterCreateFileSet, CreatePage
        <3>2. MasterReviseFileSet(key) => UNCHANGED restores
            BY DEF MasterReviseFileSet
        <3>3. MasterMovePage(key) => UNCHANGED restores
            BY DEF MasterMovePage, MovePage
        <3>4. QED
            BY <2>1, <3>1, <3>2, <3>3
    <2>2. RestoreWrite \/ RestoreEnd => restores' \subseteq restores
        BY DEF RestoreWrite, RestoreEnd
    <2>3. MasterCorrectOccurrence => UNCHANGED restores
        BY DEF MasterCorrectOccurrence
    <2>4. MasterUpdateTitle => UNCHANGED restores
        BY DEF MasterUpdateTitle
    <2>5. ASSUME NEW action, MasterPageLifecycle(action)
          PROVE  UNCHANGED restores
        BY <2>5 DEF MasterPageLifecycle
    <2>6. QED
        BY <1>3, <2>1, <2>2, <2>3, <2>4, <2>5 DEF MasterNext
<1>4. QED
    BY <1>1, <1>2, <1>3 DEF Next, RestoresKeyed

\* A new audit of p: it is the last one, and the others stay.
LEMMA AuditAdded ==
    ASSUME TypeOK, NEW a \in AuditRow, audits' = Append(audits, a)
    PROVE  /\ DOMAIN audits = 1 .. Len(audits) /\ Len(audits) \in Nat
           /\ NextAudit \notin DOMAIN audits
           /\ DOMAIN audits' = DOMAIN audits \cup {NextAudit}
           /\ audits'[NextAudit] = a
           /\ \A i \in DOMAIN audits : audits'[i] = audits[i]
BY DEF TypeOK, NextAudit

\* The success audits of a page.
AuditsOf(p) == {i \in DOMAIN audits : audits[i].page = p}

\* They are one more exactly when the new one is of that page.
LEMMA AuditsCounted ==
    ASSUME TypeOK, NEW a \in AuditRow, audits' = Append(audits, a), NEW p \in Pages
    PROVE  Cardinality(AuditsOf(p)')
              = IF a.page = p THEN Cardinality(AuditsOf(p)) + 1
                              ELSE Cardinality(AuditsOf(p))
<1>1. IsFiniteSet(AuditsOf(p))
    <2>1. IsFiniteSet(DOMAIN audits)
        BY AuditAdded, FS_Interval
    <2>2. AuditsOf(p) \subseteq DOMAIN audits
        BY DEF AuditsOf
    <2>3. QED
        BY <2>1, <2>2, FS_Subset
<1>2. CASE a.page = p
    <2>1. /\ AuditsOf(p)' = AuditsOf(p) \cup {NextAudit}
          /\ NextAudit \notin AuditsOf(p)
        BY <1>2, AuditAdded DEF AuditsOf
    <2>2. QED
        BY <1>1, <1>2, <2>1, FS_AddElement
<1>3. CASE a.page # p
    <2>1. AuditsOf(p)' = AuditsOf(p)
        BY <1>3, AuditAdded DEF AuditsOf
    <2>2. QED
        BY <1>3, <2>1
<1>4. QED
    BY <1>2, <1>3

\* A row is added to the page of the new audit.
LEMMA RowsCounted ==
    ASSUME TypeOK, NEW p \in Pages, NEW row \in Row, Save(p, row),
           NEW a \in AuditRow, audits' = Append(audits, a), a.page = p,
           NEW q \in Pages, Len(rows[q]) = Cardinality(AuditsOf(q))
    PROVE  Len(rows'[q]) = Cardinality(AuditsOf(q)')
<1>1. CASE q = p
    <2>1. Len(rows'[p]) = Len(rows[p]) + 1
        BY SaveRows
    <2>2. QED
        BY <1>1, <2>1, AuditsCounted
<1>2. CASE q # p
    <2>1. rows'[q] = rows[q]
        BY <1>2, SaveRows
    <2>2. QED
        BY <1>2, <2>1, AuditsCounted
<1>3. QED
    BY <1>1, <1>2

\* The receipts that report the change of audit i.
ChangesOf(i) == {r \in receipts : r.changed /\ r.audit = i}

\* The new audit and the receipt stored with it, if any, belong together.
LEMMA ChangesCounted ==
    ASSUME TypeOK, ReceiptsAnchored, NEW a \in AuditRow, audits' = Append(audits, a),
           \A i \in DOMAIN audits :
              Cardinality(ChangesOf(i)) = IF Unkeyed(audits[i]) THEN 0 ELSE 1,
           \/ Unkeyed(a) /\ UNCHANGED receipts
           \/ /\ ~Unkeyed(a)
              /\ \E r : receipts' = receipts \cup {r} /\ r.changed /\ r.audit = NextAudit
    PROVE  \A i \in DOMAIN audits' :
              Cardinality(ChangesOf(i)') = IF Unkeyed(audits'[i]) THEN 0 ELSE 1
<1>1. ChangesOf(NextAudit) = {}
    BY AuditAdded DEF ReceiptsAnchored, ChangesOf
<1>2. \A i \in DOMAIN audits : ChangesOf(i)' = ChangesOf(i) /\ audits'[i] = audits[i]
    BY AuditAdded DEF ChangesOf
<1>3. audits'[NextAudit] = a
    BY AuditAdded
<1>4. Cardinality({r \in receipts' : r.changed /\ r.audit = NextAudit})
         = IF Unkeyed(a) THEN 0 ELSE 1
    <2>1. CASE Unkeyed(a) /\ UNCHANGED receipts
        BY <1>1, <2>1, FS_EmptySet DEF ChangesOf
    <2>2. ASSUME ~Unkeyed(a), NEW r, receipts' = receipts \cup {r},
                 r.changed, r.audit = NextAudit
          PROVE  Cardinality({s \in receipts' : s.changed /\ s.audit = NextAudit}) = 1
        <3>1. {s \in receipts' : s.changed /\ s.audit = NextAudit} = {r}
            BY <1>1, <2>2 DEF ChangesOf
        <3>2. QED
            BY <3>1, FS_Singleton
    <2>3. QED
        BY <2>1, <2>2
<1>5. ASSUME NEW i \in DOMAIN audits', i \notin DOMAIN audits
      PROVE  i = NextAudit
    BY <1>5, AuditAdded
<1>6. ASSUME NEW i \in DOMAIN audits'
      PROVE  Cardinality(ChangesOf(i)') = IF Unkeyed(audits'[i]) THEN 0 ELSE 1
    <2>1. CASE i \in DOMAIN audits
        BY <1>2, <2>1
    <2>2. CASE i = NextAudit
        BY <1>3, <1>4, <2>2 DEF ChangesOf
    <2>3. QED
        BY <1>5, <1>6, <2>1, <2>2
<1>7. QED
    BY <1>6

\* What ExactlyOnce says, with its counts named.
LEMMA ExactlyOnceParts ==
    ExactlyOnce <=>
        /\ \A r, s \in receipts : r.key = s.key => r = s
        /\ \A p \in Pages : Len(rows[p]) = Cardinality(AuditsOf(p))
        /\ \A i \in DOMAIN audits :
              Cardinality(ChangesOf(i)) = IF Unkeyed(audits[i]) THEN 0 ELSE 1
BY DEF ExactlyOnce, AuditsOf, ChangesOf

LEMMA OnceKept ==
    ASSUME TypeOK, TypeOK', ReceiptsAnchored, ExactlyOnce, Effect
    PROVE  ExactlyOnce'
<1>1. ASSUME NEW r, KeyedEffect(r), r.changed
      PROVE  ExactlyOnce'
    <2>1. PICK a \in AuditRow : /\ audits' = Append(audits, a)
                                /\ a.page = r.page /\ ~Unkeyed(a)
        BY <1>1 DEF KeyedEffect, Audited
    <2>2. /\ receipts' = receipts \cup {r} /\ r.audit = NextAudit
          /\ \A s \in receipts : s.key # r.key
          /\ r.page \in Pages /\ Save(r.page, r.row)
        BY <1>1 DEF KeyedEffect
    <2>3. r.row \in Row
        BY <2>2 DEF TypeOK, ReceiptTyped
    <2>4. \A q, s \in receipts' : q.key = s.key => q = s
        BY <2>2, ExactlyOnceParts
    <2>5. \A p \in Pages : Len(rows'[p]) = Cardinality(AuditsOf(p)')
        BY <2>1, <2>2, <2>3, ExactlyOnceParts, RowsCounted
    <2>6. \A i \in DOMAIN audits' :
             Cardinality(ChangesOf(i)') = IF Unkeyed(audits'[i]) THEN 0 ELSE 1
        BY <1>1, <2>1, <2>2, ExactlyOnceParts, ChangesCounted
    <2>7. QED
        BY <2>4, <2>5, <2>6, ExactlyOnceParts DEF ExactlyOnce, AuditsOf, ChangesOf, Unkeyed
<1>2. ASSUME NEW r, KeyedEffect(r), ~r.changed
      PROVE  ExactlyOnce'
    <2>1. /\ receipts' = receipts \cup {r} /\ UNCHANGED <<rows, audits>>
          /\ \A s \in receipts : s.key # r.key
        BY <1>2 DEF KeyedEffect
    <2>2. \A q, s \in receipts' : q.key = s.key => q = s
        BY <2>1, ExactlyOnceParts
    <2>3. \A i : ChangesOf(i)' = ChangesOf(i)
        BY <1>2, <2>1 DEF ChangesOf
    <2>4. QED
        BY <2>1, <2>2, <2>3, ExactlyOnceParts DEF ExactlyOnce, ChangesOf, Unkeyed
<1>3. ASSUME NEW p \in Pages, FormEffect(p)
      PROVE  ExactlyOnce'
    <2>1. PICK a \in AuditRow : /\ audits' = Append(audits, a)
                                /\ a.page = p /\ Unkeyed(a)
        BY <1>3 DEF FormEffect, Audited
    <2>2. PICK row \in Row : Save(p, row)
        BY <1>3 DEF FormEffect
    <2>3. receipts' = receipts
        BY <1>3 DEF FormEffect
    <2>4. \A q \in Pages : Len(rows'[q]) = Cardinality(AuditsOf(q)')
        BY <2>1, <2>2, ExactlyOnceParts, RowsCounted
    <2>5. \A i \in DOMAIN audits' :
             Cardinality(ChangesOf(i)') = IF Unkeyed(audits'[i]) THEN 0 ELSE 1
        BY <2>1, <2>3, ExactlyOnceParts, ChangesCounted
    <2>6. QED
        BY <2>3, <2>4, <2>5, ExactlyOnceParts DEF ExactlyOnce, AuditsOf, ChangesOf, Unkeyed
<1>4. CASE NoEffect
    BY <1>4 DEF NoEffect, ExactlyOnce, Unkeyed
<1>5. QED
    BY <1>1, <1>2, <1>3, <1>4 DEF Effect

\* Rows are only added at the end.
RowsExtended ==
    \A p \in Pages : /\ DOMAIN rows[p] \subseteq DOMAIN rows'[p]
                      /\ \A i \in DOMAIN rows[p] : rows'[p][i] = rows[p][i]

LEMMA EffectExtends ==
    ASSUME TypeOK, TypeOK', Effect
    PROVE  RowsExtended
<1>1. ASSUME NEW p \in Pages, NEW row \in Row, Save(p, row)
      PROVE  RowsExtended
    BY <1>1, SaveRows DEF RowsExtended
<1>2. UNCHANGED rows => RowsExtended
    BY DEF RowsExtended
<1>3. ASSUME NEW r, KeyedEffect(r)
      PROVE  r.page \in Pages /\ r.row \in Row
    BY <1>3 DEF KeyedEffect, TypeOK, ReceiptTyped
<1>4. QED
    BY <1>1, <1>2, <1>3 DEF Effect, KeyedEffect, FormEffect, NoEffect

LEMMA AnchoredKept ==
    ASSUME TypeOK, TypeOK', HistoryEndsAtPage, ReceiptsAnchored, Effect
    PROVE  ReceiptsAnchored'
<1> SUFFICES ASSUME NEW r \in receipts'
             PROVE  /\ r.etag = ETag(r.page, r.row)
                    /\ \E i \in DOMAIN rows'[r.page] : rows'[r.page][i] = r.row
                    /\ r.changed => r.audit \in DOMAIN audits'
    BY DEF ReceiptsAnchored, ETag
<1>1. r.page \in Pages /\ r.row \in Row
    BY DEF TypeOK, ReceiptTyped
<1>2. /\ DOMAIN rows[r.page] \subseteq DOMAIN rows'[r.page]
      /\ \A i \in DOMAIN rows[r.page] : rows'[r.page][i] = rows[r.page][i]
    BY <1>1, EffectExtends DEF RowsExtended
<1>3. DOMAIN audits \subseteq DOMAIN audits'
    BY AuditAdded DEF Effect, KeyedEffect, FormEffect, NoEffect, Audited
<1>4. CASE r \in receipts
    BY <1>2, <1>3, <1>4 DEF ReceiptsAnchored
<1>5. CASE r \notin receipts
    <2>1. KeyedEffect(r)
        BY <1>5 DEF Effect, KeyedEffect, FormEffect, NoEffect
    <2>2. CASE r.changed
        <3>1. Save(r.page, r.row) /\ Audited(r.page, TRUE) /\ r.audit = NextAudit
            BY <2>1, <2>2 DEF KeyedEffect
        <3>2. r.audit \in DOMAIN audits'
            BY <3>1, AuditAdded DEF Audited
        <3>3. \E i \in DOMAIN rows'[r.page] : rows'[r.page][i] = r.row
            BY <1>1, <3>1, SaveRows
        <3>4. QED
            BY <2>1, <3>2, <3>3 DEF KeyedEffect
    <2>3. CASE ~r.changed
        <3>1. /\ Exists(r.page) /\ r.row = pages[r.page]
              /\ UNCHANGED <<pages, rows, audits>>
            BY <2>1, <2>3 DEF KeyedEffect
        <3>2. rows[r.page] \in Seq(Row)
            BY <1>1 DEF TypeOK
        <3>3. /\ Len(rows[r.page]) \in DOMAIN rows[r.page]
              /\ rows[r.page][Len(rows[r.page])] = r.row
            BY <1>1, <3>1, <3>2 DEF HistoryEndsAtPage
        <3>4. QED
            BY <2>1, <2>3, <3>1, <3>3 DEF KeyedEffect
    <2>4. QED
        BY <2>2, <2>3
<1>6. QED
    BY <1>4, <1>5

LEMMA OnceInvHolds == Spec => []OnceInv
<1>1. Init => OnceInv
    <2> SUFFICES ASSUME Init
                 PROVE  OnceInv
        OBVIOUS
    <2>1. IInv
        BY DEF Init, IInv, TypeOK, HistoryEndsAtPage, ClockAdvances, NoLostUpdate,
               Exists
    <2>2. RestoresKeyed /\ ReceiptsAnchored
        BY DEF Init, RestoresKeyed, ReceiptsAnchored
    <2>3. \A p \in Pages : rows[p] = <<>> /\ AuditsOf(p) = {}
        BY DEF Init, AuditsOf
    <2>4. ExactlyOnce
        BY <2>3, FS_EmptySet, ExactlyOnceParts DEF Init
    <2>5. QED
        BY <2>1, <2>2, <2>4 DEF OnceInv
<1>2. OnceInv /\ [Next]_vars => OnceInv'
    <2> SUFFICES ASSUME OnceInv, [Next]_vars
                 PROVE  OnceInv'
        OBVIOUS
    <2>1. CASE Next
        <3>1. IInv /\ TypeOK /\ HistoryEndsAtPage
            BY DEF OnceInv, IInv
        <3>2. GoodStep /\ TypeOK'
            BY <2>1, <3>1, NextGood DEF GoodStep
        <3>3. IInv'
            BY <3>1, <3>2, HistoryKept, ClockKept, NoLostUpdateKept DEF IInv, GoodStep
        <3>4. Effect
            BY <2>1, <3>1, NextEffect DEF OnceInv
        <3>5. QED
            BY <2>1, <3>1, <3>2, <3>3, <3>4, OnceKept, AnchoredKept,
               RestoresKeyedKept DEF OnceInv
    <2>2. CASE UNCHANGED vars
        <3>1. IInv'
            BY <2>2 DEF vars, OnceInv, IInv, TypeOK, HistoryEndsAtPage, ClockAdvances,
                        NoLostUpdate, Exists, ETag, ReceiptTyped, RestoreTyped
        <3>2. QED
            BY <2>2, <3>1 DEF vars, OnceInv, RestoresKeyed, ReceiptsAnchored,
                              ExactlyOnce, ETag, Unkeyed
    <2>3. QED
        BY <2>1, <2>2
<1>3. QED
    BY <1>1, <1>2, PTL DEF Spec

----------------------------------------------------------------------------
(* The page register.                                                      *)

\* An ETag that some row has names that row and no other.
LEMMA VersionUnique ==
    ASSUME NEW p, NEW s, NEW i \in DOMAIN s, NEW etag,
           \A j \in DOMAIN s : ETag(p, s[j]) = etag <=> j = i
    PROVE  (CHOOSE j \in DOMAIN s : ETag(p, s[j]) = etag) = i
OBVIOUS

LEMMA VersionOfRow ==
    ASSUME ETagsNeverRepeat, NEW p \in Pages, NEW i \in DOMAIN rows[p]
    PROVE  VersionOf(p, ETag(p, rows[p][i])) = i
BY VersionUnique DEF VersionOf, ETagsNeverRepeat

LEMMA VersionStable ==
    ASSUME ETagsNeverRepeat, ETagsNeverRepeat', RowsExtended,
           NEW p \in Pages, NEW i \in DOMAIN rows[p],
           NEW etag, etag = ETag(p, rows[p][i])
    PROVE  VersionOf(p, etag) = i /\ VersionOf(p, etag)' = i
<1>1. VersionOf(p, etag) = i
    BY VersionOfRow
<1>2. i \in DOMAIN rows'[p] /\ rows'[p][i] = rows[p][i]
    BY DEF RowsExtended
<1>3. \A j \in DOMAIN rows'[p] : ETag(p, rows'[p][j]) = etag <=> j = i
    BY <1>2 DEF ETagsNeverRepeat, ETag
<1>4. (CHOOSE j \in DOMAIN rows'[p] : ETag(p, rows'[p][j]) = etag) = i
    BY <1>2, <1>3, VersionUnique
<1>5. VersionOf(p, etag)' = i
    BY <1>4 DEF VersionOf, ETag
<1>6. QED
    BY <1>1, <1>5

\* An answer never changes its meaning.
LEMMA AnswersStable ==
    ASSUME OnceInv, ETagsNeverRepeat, ETagsNeverRepeat', RowsExtended,
           NEW r \in receipts
    PROVE  AsAnswer(r)' = AsAnswer(r)
<1>1. r.page \in Pages
    BY DEF OnceInv, IInv, TypeOK, ReceiptTyped
<1>2. VersionOf(r.page, r.etag)' = VersionOf(r.page, r.etag)
    BY <1>1, VersionStable DEF OnceInv, ReceiptsAnchored
<1>3. r.request.page # NoPage =>
         VersionOf(r.page, r.request.etag)' = VersionOf(r.page, r.request.etag)
    BY <1>1, VersionStable DEF OnceInv, IInv, NoLostUpdate
<1>4. QED
    BY <1>2, <1>3 DEF AsAnswer

\* The answer to the request that a step answers.
LEMMA NewAnswer ==
    ASSUME OnceInv, TypeOK', ETagsNeverRepeat, ETagsNeverRepeat',
           NEW r, KeyedEffect(r)
    PROVE  AsAnswer(r)' = [name |-> r.key, page |-> r.page,
                           read |-> Len(rows[r.page]), wrote |-> Len(rows'[r.page])]
<1> DEFINE p == r.page
           n == Len(rows[p])
<1>1. /\ p \in Pages /\ r.row \in Row /\ r.etag = ETag(p, r.row)
      /\ BasedOnCurrent(r)
    BY DEF KeyedEffect, TypeOK, ReceiptTyped
<1>2. TypeOK /\ HistoryEndsAtPage /\ rows[p] \in Seq(Row)
    BY <1>1 DEF OnceInv, IInv, TypeOK
<1>3. Effect
    BY DEF Effect
<1>4. RowsExtended
    BY <1>2, <1>3, EffectExtends
<1>5. Exists(p) => n \in DOMAIN rows[p] /\ rows[p][n] = pages[p]
    BY <1>1, <1>2 DEF HistoryEndsAtPage
<1>6. IF r.request.page = NoPage THEN n = 0
      ELSE VersionOf(p, r.request.etag)' = n
    <2>1. CASE Exists(p)
        <3>1. r.request.page # NoPage /\ r.request.etag = ETag(p, rows[p][n])
            BY <1>1, <1>5, <2>1, IdentityAssumption DEF BasedOnCurrent
        <3>2. QED
            BY <1>1, <1>4, <1>5, <2>1, <3>1, VersionStable
    <2>2. CASE ~Exists(p)
        BY <1>1, <1>2, <2>2 DEF BasedOnCurrent, HistoryEndsAtPage
    <2>3. QED
        BY <2>1, <2>2
<1>7. /\ Len(rows'[p]) \in DOMAIN rows'[p]
      /\ rows'[p][Len(rows'[p])] = r.row
    <2>1. CASE r.changed
        BY <1>1, <1>2, <2>1, SaveRows DEF KeyedEffect
    <2>2. CASE ~r.changed
        BY <1>5, <2>2 DEF KeyedEffect
    <2>3. QED
        BY <2>1, <2>2
<1>8. VersionOf(p, r.etag)' = Len(rows'[p])
    <2> DEFINE m == Len(rows'[p])
    <2>1. \A j \in DOMAIN rows'[p] : ETag(p, rows'[p][j]) = r.etag <=> j = m
        BY <1>1, <1>7 DEF ETagsNeverRepeat, ETag
    <2>2. (CHOOSE j \in DOMAIN rows'[p] : ETag(p, rows'[p][j]) = r.etag) = m
        BY <1>7, <2>1, VersionUnique
    <2>3. QED
        BY <2>2 DEF VersionOf, ETag
<1>9. QED
    BY <1>6, <1>8 DEF AsAnswer

\* What a new row does to the version numbers.
LEMMA VersionAfterSave ==
    ASSUME TypeOK, NEW p \in Pages, NEW row \in Row, Save(p, row)
    PROVE  [q \in Pages |-> Len(rows'[q])]
              = [[q \in Pages |-> Len(rows[q])] EXCEPT ![p] = @ + 1]
<1>1. Len(rows'[p]) = Len(rows[p]) + 1
    BY SaveRows
<1>2. \A q \in Pages \ {p} : Len(rows'[q]) = Len(rows[q])
    BY SaveRows
<1>3. QED
    BY <1>1, <1>2

LEMMA EffectIsRegisterStep ==
    ASSUME OnceInv, TypeOK', ETagsNeverRepeat, ETagsNeverRepeat', Effect
    PROVE  [Register!Next]_(Register!vars)
<1> DEFINE version == [p \in Pages |-> Len(rows[p])]
           answered == {AsAnswer(r) : r \in receipts}
<1>1. TypeOK /\ HistoryEndsAtPage /\ RowsExtended
    BY EffectExtends DEF OnceInv, IInv
<1>2. \A r \in receipts : AsAnswer(r)' = AsAnswer(r)
    BY <1>1, AnswersStable
<1>3. ASSUME NEW r, KeyedEffect(r)
      PROVE  Register!Next
    <2> DEFINE p == r.page
               new == [name |-> r.key, page |-> p, read |-> version[p],
                       wrote |-> Len(rows'[p])]
    <2>1. p \in Pages /\ r.key \in RequestNames /\ r.row \in Row
        BY <1>3 DEF KeyedEffect, TypeOK, ReceiptTyped
    <2>2. AsAnswer(r)' = new
        BY <1>3, <2>1, NewAnswer
    <2>3. answered' = answered \cup {new}
        <3>1. receipts' = receipts \cup {r}
            BY <1>3 DEF KeyedEffect
        <3> HIDE DEF new
        <3>2. QED
            BY <1>2, <2>2, <3>1
    <2>4. \A a \in answered : a.name # r.key
        BY <1>3 DEF KeyedEffect, AsAnswer
    <2>5. CASE r.changed
        <3>1. Save(p, r.row)
            BY <1>3, <2>5 DEF KeyedEffect
        <3>2. version' = [version EXCEPT ![p] = @ + 1]
            BY <1>1, <2>1, <3>1, VersionAfterSave
        <3>3. Len(rows'[p]) = version[p] + 1
            BY <1>1, <2>1, <3>1, SaveRows
        <3>4. Register!Write(r.key, p)
            BY <2>1, <2>3, <2>4, <3>2, <3>3 DEF Register!Write, Register!Answer
        <3>5. QED
            BY <2>1, <3>4 DEF Register!Next
    <2>6. CASE ~r.changed
        <3>1. UNCHANGED rows /\ Exists(p)
            BY <1>3, <2>6 DEF KeyedEffect
        <3>2. version[p] > 0 /\ Len(rows'[p]) = version[p] /\ UNCHANGED version
            BY <1>1, <2>1, <3>1 DEF HistoryEndsAtPage
        <3>3. Register!Confirm(r.key, p)
            BY <2>1, <2>3, <2>4, <3>2 DEF Register!Confirm, Register!Answer
        <3>4. QED
            BY <2>1, <3>3 DEF Register!Next
    <2>7. QED
        BY <2>5, <2>6
<1>4. ASSUME NEW p \in Pages, FormEffect(p)
      PROVE  Register!Next
    <2>1. PICK row \in Row : Save(p, row)
        BY <1>4 DEF FormEffect
    <2>2. receipts' = receipts /\ Exists(p)
        BY <1>4 DEF FormEffect
    <2>3. answered' = answered
        BY <1>2, <2>2
    <2>4. version[p] > 0
        BY <1>1, <2>2 DEF HistoryEndsAtPage
    <2>5. version' = [version EXCEPT ![p] = @ + 1]
        BY <1>1, <2>1, VersionAfterSave
    <2>6. QED
        BY <2>3, <2>4, <2>5 DEF Register!Next, Register!Edit
<1>5. CASE NoEffect
    <2>1. version' = version
        BY <1>5 DEF NoEffect
    <2>2. answered' = answered
        BY <1>2, <1>5 DEF NoEffect
    <2>3. QED
        BY <2>1, <2>2 DEF Register!vars
<1>6. QED
    BY <1>3, <1>4, <1>5 DEF Effect

----------------------------------------------------------------------------
(* The theorems.                                                           *)

\* A key has one receipt, every row one success audit, and every audit of a
\* keyed operation exactly one receipt that reports its change: no retry
\* applies an operation twice (record_success under the write lock).
THEOREM RequestsTakeEffectOnce == Spec => []ExactlyOnce
<1>1. OnceInv => ExactlyOnce
    BY DEF OnceInv
<1>2. QED
    BY <1>1, OnceInvHolds, PTL

\* The store implements the page register: every request is an atomic
\* compare-and-set of the version whose ETag it carried, answered once, and
\* no later write changes what an answer means (page_current_etag and the
\* If-Match checks of every handler).
THEOREM StoreImplementsRegister == Spec => ImplementsRegister
<1>1. Init => Register!Init
    BY DEF Init, Register!Init
<1>2. OnceInv /\ OnceInv' /\ ETagsNeverRepeat /\ ETagsNeverRepeat' /\ [Next]_vars
        => [Register!Next]_(Register!vars)
    <2> SUFFICES ASSUME OnceInv, OnceInv', ETagsNeverRepeat, ETagsNeverRepeat',
                        [Next]_vars
                 PROVE  [Register!Next]_(Register!vars)
        OBVIOUS
    <2>1. TypeOK /\ RestoresKeyed /\ TypeOK'
        BY DEF OnceInv, IInv
    <2>2. CASE Next
        BY <2>1, <2>2, NextEffect, EffectIsRegisterStep
    <2>3. CASE UNCHANGED vars
        <3>1. NoEffect
            BY <2>3 DEF vars, NoEffect
        <3>2. QED
            BY <2>1, <3>1, EffectIsRegisterStep DEF Effect
    <2>4. QED
        BY <2>2, <2>3
<1>3. QED
    BY <1>1, <1>2, OnceInvHolds, ETagsIdentifyStates, PTL
    DEF Spec, ImplementsRegister, Register!Spec

=============================================================================
