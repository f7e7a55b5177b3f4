------------------------- MODULE PageHistoryProofs -------------------------
(***************************************************************************)
(* What the tables behind the pages guarantee to those who read and guard  *)
(* them, for every instance: no write of a handler is refused by the       *)
(* triggers of its tables, the readers' timeline rebuilds every state that *)
(* a page had, every stored answer can be replayed for ever, and a backup  *)
(* accepts whatever the handlers have committed.                           *)
(*                                                                         *)
(* The inductive invariant adds to the one of PageStoreProofs that the     *)
(* tables of a page list one fitting operation for every row but the first *)
(* (Chronicle), that events and receipts refer to audits already written,  *)
(* that audits which carry a page's clock carry different ones, that every *)
(* event has its audit or its receipt and every such audit its event or    *)
(* its receipt (Ledger), and that each receipt still finds what its route  *)
(* left behind (Substantiated).  Every handler writes one row at most: a   *)
(* created page, a revision, a correction, a lifecycle transition, a title *)
(* edit or a move, and each of these is shown to satisfy the triggers, to  *)
(* extend the chronicle and to enter the ledger.                           *)
(***************************************************************************)
EXTENDS PageBackup, PageTriggers, PageStoreProofs, WellFoundedInduction

----------------------------------------------------------------------------
(* The tables of one page.                                                 *)

LEMMA TablesTyped ==
    ASSUME TypeOK, NEW p \in Pages
    PROVE  /\ revisions[p] \in Seq(RevisionRow) /\ corrections[p] \in Seq(CorrectionRow)
           /\ lifecycle[p] \in Seq(LifecycleRow) /\ titles[p] \in Seq(TitleRow)
           /\ moves[p] \in Seq(MoveRow) /\ pages[p] \in Row \cup {NoPage}
BY DEF TypeOK

\* The tables of p are left alone.
Undisturbed(p) ==
    /\ pages'[p] = pages[p] /\ revisions'[p] = revisions[p]
    /\ corrections'[p] = corrections[p] /\ lifecycle'[p] = lifecycle[p]
    /\ titles'[p] = titles[p] /\ moves'[p] = moves[p]

\* The events that a title edit and a move leave.
TitleEvent(p, title, t) ==
    [old |-> pages[p].title, new |-> title, oldUpdated |-> pages[p].updated,
     at |-> t, rev |-> pages[p].rev, audit |-> NextAudit]

MoveEvent(p, target, t) ==
    [old |-> pages[p].place, new |-> target, oldUpdated |-> pages[p].updated,
     at |-> t, rev |-> pages[p].rev, occurred |-> pages[p].occurred, audit |-> NextAudit]

----------------------------------------------------------------------------
(* The timeline of a page.                                                 *)

\* ops lists the operations of p in the order in which they happened: the
\* i-th was made on row i and left row i + 1.
Enumerates(p, ops) ==
    /\ \A i \in DOMAIN ops :
          /\ OperationFits(p, rows[p][i], ops[i])
          /\ rows[p][i + 1] = OperationApplied(rows[p][i], ops[i])
    /\ \A o \in Operations(p) : \E i \in DOMAIN ops : ops[i] = o
    /\ InSequence(ops)

\* The tables of p record its history: one operation for every row but the
\* first, which the events and the first revision still describe.
Recorded(p) ==
    /\ rows[p][1] = InitialState(p)
    /\ revisions[p][1].at = pages[p].created
    /\ \E ops \in [1 .. Len(rows[p]) - 1 -> Operations(p)] : Enumerates(p, ops)

\* A page that does not exist has no events.
Blank(p) ==
    corrections[p] = <<>> /\ lifecycle[p] = <<>> /\ titles[p] = <<>> /\ moves[p] = <<>>

Chronicle == \A p \in Pages : IF Exists(p) THEN Recorded(p) ELSE Blank(p)

Kinds == {"revision", "correction", "lifecycle", "title", "move"}

LEMMA TableOperations ==
    ASSUME NEW table, \A i \in 1 .. Len(table) : table[i].at \in Nat, Len(table) \in Nat,
           NEW kind, NEW first \in Nat \ {0},
           NEW o \in OperationsOf(kind, table, first)
    PROVE  /\ o.at \in Nat /\ o.seq \in Nat /\ o.kind = kind
           /\ o.seq \in first .. Len(table) /\ o.row = table[o.seq] /\ o.at = o.row.at
<1>1. PICK i \in first .. Len(table) :
        o = [at |-> table[i].at, kind |-> kind, seq |-> i, row |-> table[i]]
    BY DEF OperationsOf
<1>2. i \in 1 .. Len(table)
    BY <1>1
<1>3. QED
    BY <1>1, <1>2

LEMMA TableClocks ==
    ASSUME NEW S, NEW table \in Seq(S), \A x \in S : x.at \in Times
    PROVE  Len(table) \in Nat /\ \A i \in 1 .. Len(table) : table[i].at \in Nat
BY DEF Times

LEMMA OperationTyped ==
    ASSUME TypeOK, NEW p \in Pages, NEW o \in Operations(p)
    PROVE  o.at \in Nat /\ o.seq \in Nat /\ o.kind \in Kinds
<1>1. CASE o \in OperationsOf("revision", revisions[p], 2)
    <2>1. revisions[p] \in Seq(RevisionRow)
        BY TablesTyped
    <2>2. \A x \in RevisionRow : x.at \in Times
        BY DEF RevisionRow
    <2>3. Len(revisions[p]) \in Nat /\ \A i \in 1 .. Len(revisions[p]) : revisions[p][i].at \in Nat
        BY <2>1, <2>2, TableClocks
    <2>4. 2 \in Nat \ {0}
        OBVIOUS
    <2>5. o.at \in Nat /\ o.seq \in Nat /\ o.kind = "revision"
        BY <1>1, <2>3, <2>4, TableOperations
    <2>6. QED
        BY <2>5 DEF Kinds
<1>2. CASE o \in OperationsOf("correction", corrections[p], 1)
    <2>1. corrections[p] \in Seq(CorrectionRow)
        BY TablesTyped
    <2>2. \A x \in CorrectionRow : x.at \in Times
        BY DEF CorrectionRow
    <2>3. Len(corrections[p]) \in Nat /\ \A i \in 1 .. Len(corrections[p]) : corrections[p][i].at \in Nat
        BY <2>1, <2>2, TableClocks
    <2>4. 1 \in Nat \ {0}
        OBVIOUS
    <2>5. o.at \in Nat /\ o.seq \in Nat /\ o.kind = "correction"
        BY <1>2, <2>3, <2>4, TableOperations
    <2>6. QED
        BY <2>5 DEF Kinds
<1>3. CASE o \in OperationsOf("lifecycle", lifecycle[p], 1)
    <2>1. lifecycle[p] \in Seq(LifecycleRow)
        BY TablesTyped
    <2>2. \A x \in LifecycleRow : x.at \in Times
        BY DEF LifecycleRow
    <2>3. Len(lifecycle[p]) \in Nat /\ \A i \in 1 .. Len(lifecycle[p]) : lifecycle[p][i].at \in Nat
        BY <2>1, <2>2, TableClocks
    <2>4. 1 \in Nat \ {0}
        OBVIOUS
    <2>5. o.at \in Nat /\ o.seq \in Nat /\ o.kind = "lifecycle"
        BY <1>3, <2>3, <2>4, TableOperations
    <2>6. QED
        BY <2>5 DEF Kinds
<1>4. CASE o \in OperationsOf("title", titles[p], 1)
    <2>1. titles[p] \in Seq(TitleRow)
        BY TablesTyped
    <2>2. \A x \in TitleRow : x.at \in Times
        BY DEF TitleRow
    <2>3. Len(titles[p]) \in Nat /\ \A i \in 1 .. Len(titles[p]) : titles[p][i].at \in Nat
        BY <2>1, <2>2, TableClocks
    <2>4. 1 \in Nat \ {0}
        OBVIOUS
    <2>5. o.at \in Nat /\ o.seq \in Nat /\ o.kind = "title"
        BY <1>4, <2>3, <2>4, TableOperations
    <2>6. QED
        BY <2>5 DEF Kinds
<1>5. CASE o \in OperationsOf("move", moves[p], 1)
    <2>1. moves[p] \in Seq(MoveRow)
        BY TablesTyped
    <2>2. \A x \in MoveRow : x.at \in Times
        BY DEF MoveRow
    <2>3. Len(moves[p]) \in Nat /\ \A i \in 1 .. Len(moves[p]) : moves[p][i].at \in Nat
        BY <2>1, <2>2, TableClocks
    <2>4. 1 \in Nat \ {0}
        OBVIOUS
    <2>5. o.at \in Nat /\ o.seq \in Nat /\ o.kind = "move"
        BY <1>5, <2>3, <2>4, TableOperations
    <2>6. QED
        BY <2>5 DEF Kinds
<1>6. QED
    BY <1>1, <1>2, <1>3, <1>4, <1>5 DEF Operations

\* The clock of a state is that of the last operation applied to it.
LEMMA AppliedClock ==
    ASSUME NEW s \in Row, NEW o, o.kind \in Kinds
    PROVE  OperationApplied(s, o).updated = o.at
BY DEF OperationApplied, Kinds, Row

\* The clock strictly advances along the operations of a page.
LEMMA OperationsAscend ==
    ASSUME TypeOK, ClockAdvances, NEW p \in Pages, NEW n \in Nat, Len(rows[p]) = n + 1,
           NEW ops \in [1 .. n -> Operations(p)], Enumerates(p, ops)
    PROVE  /\ \A i \in 1 .. n : ops[i].at = rows[p][i + 1].updated
           /\ \A i, j \in 1 .. n : i < j => ops[i].at < ops[j].at
<1>1. rows[p] \in Seq(Row) /\ DOMAIN rows[p] = 1 .. n + 1
    BY DEF TypeOK
<1>2. ASSUME NEW i \in 1 .. n
      PROVE  ops[i].at = rows[p][i + 1].updated
    <2>1. rows[p][i] \in Row /\ ops[i].kind \in Kinds
        BY <1>1, OperationTyped
    <2>2. rows[p][i + 1] = OperationApplied(rows[p][i], ops[i])
        BY DEF Enumerates
    <2>3. QED
        BY <2>1, <2>2, AppliedClock
<1>3. ASSUME NEW i \in 1 .. n, NEW j \in 1 .. n, i < j
      PROVE  ops[i].at < ops[j].at
    <2>1. i + 1 \in DOMAIN rows[p] /\ j + 1 \in DOMAIN rows[p] /\ i + 1 < j + 1
        BY <1>1, <1>3
    <2>2. rows[p][i + 1].updated < rows[p][j + 1].updated
        BY <2>1 DEF ClockAdvances
    <2>3. QED
        BY <1>2, <2>2
<1>4. QED
    BY <1>2, <1>3

\* A function onto a set that takes no value twice counts it.
LEMMA Counted ==
    ASSUME NEW S, NEW n \in Nat, NEW f \in [1 .. n -> S],
           \A x \in S : \E i \in 1 .. n : f[i] = x,
           \A i, j \in 1 .. n : i < j => f[i] # f[j]
    PROVE  Cardinality(S) = n
<1>1. \A i, j \in 1 .. n : f[i] = f[j] => i = j
    OBVIOUS
<1>2. f \in Bijection(1 .. n, S)
    BY <1>1 DEF Bijection, Injection, Surjection, IsInjective
<1>3. QED
    BY <1>2, FS_CountingElements DEF ExistsBijection

\* Sorting the operations by clock puts them in the order of the rows.
LEMMA SortedFound ==
    ASSUME TypeOK, ClockAdvances, NEW p \in Pages, NEW n \in Nat, Len(rows[p]) = n + 1,
           NEW ops \in [1 .. n -> Operations(p)], Enumerates(p, ops)
    PROVE  SortedOperations(p) = ops
<1> DEFINE all == Operations(p)
           Rank(o) == Cardinality({e \in all : Earlier(e, o)})
<1>1. /\ \A i \in 1 .. n : ops[i].at \in Nat /\ ops[i].seq \in Nat /\ ops[i].kind \in Kinds
      /\ \A i, j \in 1 .. n : i < j => ops[i].at < ops[j].at
    BY OperationTyped, OperationsAscend
<1>2. \A x \in all : \E i \in 1 .. n : ops[i] = x
    BY DEF Enumerates
<1>3. \A i, j \in 1 .. n : i < j => ops[i] # ops[j]
    BY <1>1
<1>4. Cardinality(all) = n
    BY <1>2, <1>3, Counted
<1>5. ASSUME NEW i \in 1 .. n, NEW j \in 1 .. n
      PROVE  Earlier(ops[j], ops[i]) <=> j < i
    <2>1. ~(KindOrder[ops[i].kind] < KindOrder[ops[i].kind])
        BY <1>1 DEF KindOrder, Kinds
    <2>2. QED
        BY <1>1, <2>1 DEF Earlier
<1>6. ASSUME NEW i \in 1 .. n
      PROVE  Rank(ops[i]) = i - 1
    <2> DEFINE past == {e \in all : Earlier(e, ops[i])}
               f == [j \in 1 .. i - 1 |-> ops[j]]
    <2>1. i - 1 \in Nat /\ f \in [1 .. i - 1 -> past]
        BY <1>5
    <2>2. \A x \in past : \E j \in 1 .. i - 1 : f[j] = x
        <3> SUFFICES ASSUME NEW x \in past
                     PROVE  \E j \in 1 .. i - 1 : f[j] = x
            OBVIOUS
        <3>1. PICK j \in 1 .. n : ops[j] = x
            BY <1>2
        <3>2. j < i
            BY <1>5, <3>1
        <3>3. QED
            BY <3>1, <3>2
    <2>3. \A j, k \in 1 .. i - 1 : j < k => f[j] # f[k]
        BY <1>3
    <2> HIDE DEF past, f
    <2>4. Cardinality(past) = i - 1
        BY <2>1, <2>2, <2>3, Counted
    <2>5. QED
        BY <2>4 DEF past
<1>7. ASSUME NEW i \in 1 .. n
      PROVE  (CHOOSE o \in all : Rank(o) = i - 1) = ops[i]
    <2> DEFINE o == CHOOSE o \in all : Rank(o) = i - 1
    <2>1. ops[i] \in all /\ Rank(ops[i]) = i - 1
        BY <1>6
    <2>2. o \in all /\ Rank(o) = i - 1
        BY <2>1
    <2> HIDE DEF o
    <2>3. PICK j \in 1 .. n : ops[j] = o
        BY <1>2, <2>2
    <2>4. Rank(ops[j]) = j - 1 /\ Rank(ops[j]) = i - 1
        BY <1>6, <2>2, <2>3
    <2>5. j = i
        BY <2>4
    <2>6. QED
        BY <2>3, <2>5 DEF o
<1>8. SortedOperations(p) = [i \in 1 .. n |-> CHOOSE o \in all : Rank(o) = i - 1]
    BY <1>4 DEF SortedOperations
<1> HIDE DEF Rank, all
<1>9. QED
    BY <1>7, <1>8 DEF all

\* Applying the sorted operations one by one to the state before all of them
\* yields the rows: there is one sequence with that recurrence.
LEMMA StatesFound ==
    ASSUME TypeOK, ClockAdvances, NEW p \in Pages, NEW n \in Nat, Len(rows[p]) = n + 1,
           NEW ops \in [1 .. n -> Operations(p)], Enumerates(p, ops),
           rows[p][1] = InitialState(p)
    PROVE  States(p) = rows[p]
<1> DEFINE Stage(f, k) == IF k = 1 THEN InitialState(p)
                          ELSE OperationApplied(f[k - 1], ops[k - 1])
           Obeys(f) == f = [k \in 1 .. n + 1 |-> Stage(f, k)]
<1>1. SortedOperations(p) = ops /\ Len(ops) = n
    <2>1. ops \in Seq(Operations(p)) /\ Len(ops) = n
        OBVIOUS
    <2>2. QED
        BY <2>1, SortedFound
<1>2. States(p) = CHOOSE f : Obeys(f)
    BY <1>1 DEF States
<1>3. Obeys(rows[p])
    <2>1. rows[p] = [k \in 1 .. n + 1 |-> rows[p][k]]
        BY DEF TypeOK
    <2>2. ASSUME NEW k \in 1 .. n + 1
          PROVE  rows[p][k] = Stage(rows[p], k)
        <3>1. CASE k = 1
            BY <3>1
        <3>2. CASE k # 1
            <4>1. k - 1 \in 1 .. n /\ k - 1 \in DOMAIN ops /\ (k - 1) + 1 = k
                BY <3>2
            <4>2. rows[p][(k - 1) + 1] = OperationApplied(rows[p][k - 1], ops[k - 1])
                BY <4>1 DEF Enumerates
            <4>3. QED
                BY <3>2, <4>1, <4>2
        <3>3. QED
            BY <3>1, <3>2
    <2> HIDE DEF Stage
    <2>3. QED
        BY <2>1, <2>2
<1>4. ASSUME NEW f, Obeys(f)
      PROVE  f = rows[p]
    <2> DEFINE differ == {k \in 1 .. n + 1 : f[k] # rows[p][k]}
    <2>1. \A k \in 1 .. n + 1 : f[k] = Stage(f, k) /\ rows[p][k] = Stage(rows[p], k)
        <3> HIDE DEF Stage
        <3>1. QED
            BY <1>3, <1>4
    <2>2. differ = {}
        <3> SUFFICES ASSUME differ # {}
                     PROVE  FALSE
            OBVIOUS
        <3>1. differ \subseteq Nat
            OBVIOUS
        <3>2. PICK k \in differ : \A j \in differ : ~(<<j, k>> \in OpToRel(<, Nat))
            BY <3>1, NatLessThanWellFounded, WFMin
        <3>3. k \in Nat /\ \A j \in differ : ~(j < k)
            BY <3>1, <3>2 DEF OpToRel
        <3>4. k # 1
            BY <2>1
        <3>5. k - 1 \in 1 .. n + 1 /\ k - 1 \notin differ
            BY <3>3, <3>4
        <3>6. f[k - 1] = rows[p][k - 1]
            BY <3>5
        <3>7. QED
            BY <2>1, <3>4, <3>6
    <2>3. /\ f = [k \in 1 .. n + 1 |-> f[k]]
          /\ rows[p] = [k \in 1 .. n + 1 |-> rows[p][k]]
        BY <1>3, <1>4
    <2>4. \A k \in 1 .. n + 1 : f[k] = rows[p][k]
        BY <2>2
    <2> HIDE DEF Stage, Obeys
    <2>5. QED
        BY <2>3, <2>4
<1> HIDE DEF Obeys
<1>5. QED
    BY <1>2, <1>3, <1>4

\* A recorded page loads, and its timeline is its rows.
LEMMA TimelineFound ==
    ASSUME IInv, NEW p \in Pages, Exists(p), Recorded(p)
    PROVE  TimelineLoads(p) /\ States(p) = rows[p]
<1>1. TypeOK /\ ClockAdvances
    BY DEF IInv
<1> DEFINE n == Len(rows[p]) - 1
<1>2. /\ rows[p] \in Seq(Row) /\ n \in Nat /\ Len(rows[p]) = n + 1
      /\ rows[p][n + 1] = pages[p] /\ pages[p] \in Row
      /\ DOMAIN rows[p] = 1 .. n + 1
      /\ Len(revisions[p]) = pages[p].rev /\ revisions[p] \in Seq(RevisionRow)
    BY <1>1, ExistingRow, TablesTyped DEF IInv, TypeOK, HistoryEndsAtPage
<1>3. PICK ops \in [1 .. n -> Operations(p)] : Enumerates(p, ops)
    BY DEF Recorded
<1> HIDE DEF n
<1>4. SortedOperations(p) = ops
    BY <1>1, <1>2, <1>3, SortedFound
<1>5. States(p) = rows[p]
    BY <1>1, <1>2, <1>3, StatesFound DEF Recorded
<1>6. revisions[p] # <<>> /\ revisions[p][1].at = pages[p].created
    <2>1. pages[p].rev > 0 /\ Len(<<>>) = 0
        BY <1>2, ConstantsAssumption DEF Row
    <2>2. revisions[p] # <<>>
        BY <1>2, <2>1
    <2>3. QED
        BY <2>2 DEF Recorded
<1>7. InSequence(ops) /\ \A i \in DOMAIN ops : OperationFits(p, rows[p][i], ops[i])
    BY <1>3 DEF Enumerates
<1>8. Last(rows[p]) = pages[p]
    BY <1>2 DEF Last
<1>9. \A i \in DOMAIN rows[p] : rows[p][i].place \in Places
    <2>1. \A i \in DOMAIN rows[p] : rows[p][i] \in Row
        BY <1>2
    <2>2. QED
        BY <2>1 DEF Row
<1>10. QED
    BY <1>4, <1>5, <1>6, <1>7, <1>8, <1>9 DEF TimelineLoads

----------------------------------------------------------------------------
(* What one step does to the history of a page.                            *)

\* The audits written so far stay.
AuditsStay == \A i \in DOMAIN audits : i \in DOMAIN audits' /\ audits'[i] = audits[i]

\* The page is created, with its first revision and no event.
Begins(p) ==
    /\ ~Exists(p) /\ pages'[p] # NoPage /\ rows'[p] = <<pages'[p]>>
    /\ Operations(p)' = {} /\ InitialState(p)' = pages'[p]
    /\ revisions'[p][1].at = pages'[p].created

\* The operation o, the last of its table, takes the page on from row s.
Continues(p, s, o) ==
    /\ Exists(p) /\ pages'[p] # NoPage
    /\ rows'[p] = Append(rows[p], OperationApplied(s, o))
    /\ OperationFits(p, s, o)'
    /\ Operations(p)' = Operations(p) \cup {o}
    /\ \A e \in Operations(p) : e.kind = o.kind => e.seq < o.seq
    /\ InitialState(p)' = InitialState(p)
    /\ revisions'[p][1] = revisions[p][1] /\ pages'[p].created = pages[p].created

Chronicled(p) ==
    \/ Undisturbed(p) /\ rows'[p] = rows[p]
    \/ Begins(p)
    \/ \E s, o : s = rows[p][Len(rows[p])] /\ Continues(p, s, o)

\* What an operation required it still requires when audits are added.
LEMMA FitsStay ==
    ASSUME AuditsStay, NEW p, NEW s, NEW o, o.kind \in Kinds, OperationFits(p, s, o)
    PROVE  OperationFits(p, s, o)'
<1>1. ASSUME AuditedAs(o.row.audit, "content.page.move", p, o.at)
      PROVE  AuditedAs(o.row.audit, "content.page.move", p, o.at)'
    BY <1>1 DEF AuditedAs, AuditsStay
<1>2. CASE o.kind = "move"
    BY <1>1, <1>2 DEF OperationFits
<1>3. CASE o.kind # "move"
    BY <1>3 DEF OperationFits, Kinds
<1>4. QED
    BY <1>2, <1>3

LEMMA UndisturbedRecorded ==
    ASSUME TypeOK, AuditsStay, NEW p \in Pages, Undisturbed(p), rows'[p] = rows[p], Recorded(p)
    PROVE  Recorded(p)'
<1>1. Operations(p)' = Operations(p) /\ InitialState(p)' = InitialState(p)
    BY DEF Undisturbed, Operations, OperationsOf, InitialState
<1>2. PICK ops \in [1 .. Len(rows[p]) - 1 -> Operations(p)] : Enumerates(p, ops)
    BY DEF Recorded
<1>3. Enumerates(p, ops)'
    <2>1. ASSUME NEW i \in DOMAIN ops
          PROVE  OperationFits(p, rows[p][i], ops[i])'
        <3>1. OperationFits(p, rows[p][i], ops[i])
            BY <1>2 DEF Enumerates
        <3>2. ops[i].kind \in Kinds
            BY <1>2, OperationTyped
        <3>3. \A s : OperationFits(p, s, ops[i]) => OperationFits(p, s, ops[i])'
            BY <3>2, FitsStay
        <3>4. QED
            BY <3>1, <3>3
    <2>2. QED
        BY <1>1, <1>2, <2>1 DEF Enumerates
<1>4. QED
    BY <1>1, <1>2, <1>3 DEF Recorded, Undisturbed

LEMMA BeginsRecorded ==
    ASSUME NEW p \in Pages, Begins(p)
    PROVE  Recorded(p)'
<1> DEFINE ops == [i \in 1 .. 0 |-> i]
<1>1. rows'[p][1] = pages'[p] /\ Len(rows'[p]) - 1 = 0
    BY DEF Begins
<1>2. ops \in [1 .. 0 -> Operations(p)'] /\ DOMAIN ops = {}
    OBVIOUS
<1> HIDE DEF ops
<1>3. Enumerates(p, ops)'
    BY <1>2 DEF Enumerates, InSequence, Begins
<1>4. QED
    BY <1>1, <1>2, <1>3 DEF Recorded, Begins

LEMMA ContinuesRecorded ==
    ASSUME IInv, TypeOK', AuditsStay, NEW p \in Pages, Recorded(p),
           NEW s, s = rows[p][Len(rows[p])], NEW o, Continues(p, s, o)
    PROVE  Recorded(p)'
<1>1. PICK n \in Nat : Len(rows[p]) = n + 1 /\ rows[p] \in Seq(Row)
    <2> DEFINE m == Len(rows[p]) - 1
    <2>1. rows[p] \in Seq(Row) /\ m \in Nat /\ Len(rows[p]) = m + 1
        BY DEF IInv, TypeOK, HistoryEndsAtPage, Continues
    <2>2. QED
        BY <2>1
<1>2. PICK ops \in [1 .. n -> Operations(p)] : Enumerates(p, ops)
    BY <1>1 DEF Recorded
<1> DEFINE next == [i \in 1 .. n + 1 |-> IF i = n + 1 THEN o ELSE ops[i]]
<1>3. /\ rows'[p] = Append(rows[p], OperationApplied(s, o))
      /\ Len(rows'[p]) = n + 2 /\ rows'[p][n + 2] = OperationApplied(s, o)
      /\ \A i \in 1 .. n + 1 : rows'[p][i] = rows[p][i]
    BY <1>1 DEF Continues
<1>4. Operations(p)' = Operations(p) \cup {o}
    BY DEF Continues
<1>5. /\ next \in [1 .. n + 1 -> Operations(p)'] /\ DOMAIN next = 1 .. n + 1
      /\ next[n + 1] = o /\ \A i \in 1 .. n : next[i] = ops[i]
    BY <1>1, <1>4
<1> HIDE DEF next
<1>6. ASSUME NEW i \in 1 .. n + 1
      PROVE  /\ OperationFits(p, rows[p][i], next[i])'
             /\ rows'[p][i + 1] = OperationApplied(rows'[p][i], next[i])
    <2>1. CASE i = n + 1
        <3>1. OperationFits(p, s, o)'
            BY DEF Continues
        <3>2. rows'[p][i] = s /\ next[i] = o
            BY <1>1, <1>3, <1>5, <2>1
        <3>3. rows'[p][i + 1] = OperationApplied(rows'[p][i], next[i])
            BY <1>3, <2>1, <3>2
        <3>4. QED
            BY <3>1, <3>2, <3>3
    <2>2. CASE i # n + 1
        <3>1. i \in 1 .. n /\ i + 1 \in 1 .. n + 1
            BY <1>1, <2>2
        <3>2. /\ OperationFits(p, rows[p][i], ops[i])
              /\ rows[p][i + 1] = OperationApplied(rows[p][i], ops[i])
            BY <1>2, <3>1 DEF Enumerates
        <3>3. rows'[p][i] = rows[p][i] /\ rows'[p][i + 1] = rows[p][i + 1] /\ next[i] = ops[i]
            BY <1>3, <1>5, <3>1
        <3>4. PICK b : b = rows[p][i]
            OBVIOUS
        <3>5. OperationFits(p, b, ops[i])'
            <4>1. ops[i].kind \in Kinds
                BY <1>2, <3>1, OperationTyped DEF IInv
            <4>2. OperationFits(p, b, ops[i])
                BY <3>2, <3>4
            <4>3. QED
                BY <4>1, <4>2, FitsStay
        <3>6. QED
            BY <3>2, <3>3, <3>4, <3>5
    <2>3. QED
        BY <2>1, <2>2
<1>7. \A e \in Operations(p)' : \E i \in 1 .. n + 1 : next[i] = e
    <2> SUFFICES ASSUME NEW e \in Operations(p)'
                 PROVE  \E i \in 1 .. n + 1 : next[i] = e
        OBVIOUS
    <2>1. CASE e = o
        BY <1>1, <1>5, <2>1
    <2>2. CASE e \in Operations(p)
        <3>1. PICK i \in 1 .. n : ops[i] = e
            BY <1>2, <2>2 DEF Enumerates
        <3>2. i \in 1 .. n + 1 /\ next[i] = e
            BY <1>1, <1>5, <3>1
        <3>3. QED
            BY <3>2
    <2>3. QED
        BY <1>4, <2>1, <2>2
<1>8. InSequence(next)
    <2> SUFFICES ASSUME NEW i \in 1 .. n + 1, NEW j \in 1 .. n + 1,
                        next[i].kind = next[j].kind, i < j
                 PROVE  next[i].seq < next[j].seq
        BY <1>5 DEF InSequence
    <2>1. i \in 1 .. n /\ next[i] = ops[i] /\ ops[i] \in Operations(p)
        BY <1>1, <1>2, <1>5
    <2>2. CASE j = n + 1
        BY <1>5, <2>1, <2>2 DEF Continues
    <2>3. CASE j # n + 1
        <3>1. j \in 1 .. n /\ next[j] = ops[j]
            BY <1>1, <1>5, <2>3
        <3>2. QED
            BY <1>2, <2>1, <3>1 DEF Enumerates, InSequence
    <2>4. QED
        BY <2>2, <2>3
<1>9. Enumerates(p, next)'
    BY <1>5, <1>6, <1>7, <1>8 DEF Enumerates, InSequence
<1>10. rows'[p][1] = InitialState(p)' /\ revisions'[p][1].at = pages'[p].created
    BY <1>1, <1>3 DEF Recorded, Continues
<1>11. Len(rows'[p]) - 1 = n + 1
    BY <1>1, <1>3
<1>12. QED
    BY <1>5, <1>9, <1>10, <1>11 DEF Recorded

LEMMA ChronicleKept ==
    ASSUME IInv, TypeOK', Chronicle, AuditsStay, \A p \in Pages : Chronicled(p)
    PROVE  Chronicle'
<1> SUFFICES ASSUME NEW p \in Pages
             PROVE  (IF Exists(p) THEN Recorded(p) ELSE Blank(p))'
    BY DEF Chronicle
<1>1. CASE Undisturbed(p) /\ rows'[p] = rows[p]
    <2>1. Exists(p)' = Exists(p)
        BY <1>1 DEF Undisturbed, Exists
    <2>2. CASE Exists(p)
        BY <1>1, <2>1, <2>2, UndisturbedRecorded DEF Chronicle, IInv
    <2>3. CASE ~Exists(p)
        BY <1>1, <2>1, <2>3 DEF Chronicle, Blank, Undisturbed
    <2>4. QED
        BY <2>2, <2>3
<1>2. CASE Begins(p)
    <2>1. Exists(p)'
        BY <1>2 DEF Begins, Exists
    <2>2. QED
        BY <1>2, <2>1, BeginsRecorded
<1>3. ASSUME NEW s, NEW o, s = rows[p][Len(rows[p])], Continues(p, s, o)
      PROVE  Exists(p)' /\ Recorded(p)'
    <2>1. Exists(p) /\ Exists(p)'
        BY <1>3 DEF Continues, Exists
    <2>2. QED
        BY <1>3, <2>1, ContinuesRecorded DEF Chronicle
<1>4. QED
    BY <1>1, <1>2, <1>3 DEF Chronicled

----------------------------------------------------------------------------
(* The writes of the handlers, as operations.                              *)

LEMMA TableGrows ==
    ASSUME NEW S, NEW table \in Seq(S), NEW x, NEW kind, NEW first \in Nat \ {0},
           first <= Len(table) + 1
    PROVE  /\ OperationsOf(kind, Append(table, x), first)
                = OperationsOf(kind, table, first)
                    \cup {[at |-> x.at, kind |-> kind, seq |-> Len(table) + 1, row |-> x]}
           /\ \A e \in OperationsOf(kind, table, first) : e.kind = kind /\ e.seq < Len(table) + 1
<1> DEFINE n == Len(table)
           new == Append(table, x)
<1>1. /\ n \in Nat /\ Len(new) = n + 1 /\ new[n + 1] = x
      /\ \A i \in 1 .. n : new[i] = table[i]
    OBVIOUS
<1>2. first .. n + 1 = (first .. n) \cup {n + 1} /\ first .. n \subseteq 1 .. n
    BY <1>1
<1> HIDE DEF n, new
<1>3. OperationsOf(kind, new, first)
         = OperationsOf(kind, table, first)
             \cup {[at |-> x.at, kind |-> kind, seq |-> n + 1, row |-> x]}
    BY <1>1, <1>2 DEF OperationsOf, n
<1>4. \A e \in OperationsOf(kind, table, first) : e.kind = kind /\ e.seq < n + 1
    BY <1>1, <1>2 DEF OperationsOf, n
<1>5. QED
    BY <1>3, <1>4 DEF n, new

\* Where a page is taken on, the other pages are left alone.
LEMMA PageContinued ==
    ASSUME IInv, NEW p \in Pages, Exists(p), NEW row, row # NoPage, Save(p, row),
           NEW s, s = pages[p], row.created = s.created,
           NEW o, row = OperationApplied(s, o), OperationFits(p, s, o)',
           Operations(p)' = Operations(p) \cup {o},
           \A e \in Operations(p) : e.kind = o.kind => e.seq < o.seq,
           InitialState(p)' = InitialState(p), revisions'[p][1] = revisions[p][1],
           \A q \in Pages \ {p} : Undisturbed(q)
    PROVE  \A q \in Pages : Chronicled(q)
<1>1. /\ rows'[p] = Append(rows[p], row) /\ pages'[p] = row
      /\ \A q \in Pages \ {p} : rows'[q] = rows[q]
    BY DEF IInv, TypeOK, Save
<1>2. s = rows[p][Len(rows[p])]
    BY DEF IInv, HistoryEndsAtPage
<1>3. Continues(p, s, o)
    BY <1>1 DEF Continues
<1>4. QED
    BY <1>1, <1>2, <1>3 DEF Chronicled

LEMMA CreationChronicled ==
    ASSUME IInv, Chronicle, NEW p \in Pages, NEW row \in Row, ~Exists(p),
           row.rev = 1, row.deleted = NoTime, row.updated = row.created, Save(p, row),
           NEW v, v.at = row.created,
           revisions' = [revisions EXCEPT ![p] = Append(@, v)], UNCHANGED events
    PROVE  \A q \in Pages : Chronicled(q)
<1>1. TypeOK /\ row # NoPage
    BY ConstantsAssumption DEF IInv
<1>2. \A q \in Pages \ {p} : Undisturbed(q) /\ rows'[q] = rows[q]
    BY <1>1 DEF TypeOK, Undisturbed, Save, events
<1>3. Blank(p) /\ rows[p] = <<>> /\ revisions[p] = <<>>
    BY DEF Chronicle, IInv, HistoryEndsAtPage
<1>4. pages'[p] = row /\ revisions'[p] = <<v>> /\ rows'[p] = <<row>>
    BY <1>1, <1>3 DEF TypeOK, Save
<1>5. /\ corrections'[p] = <<>> /\ lifecycle'[p] = <<>> /\ titles'[p] = <<>>
      /\ moves'[p] = <<>>
    BY <1>3 DEF Blank, events
<1>6. Operations(p)' = {}
    BY <1>4, <1>5 DEF Operations, OperationsOf
<1>7. InitialState(p)' = row
    <2>1. row = [place |-> row.place, title |-> row.title, occurred |-> row.occurred,
                 deleted |-> row.deleted, created |-> row.created,
                 updated |-> row.updated, rev |-> row.rev]
        BY DEF Row
    <2>2. QED
        BY <1>4, <1>5, <2>1, Zenon DEF InitialState
<1>8. Begins(p)
    BY <1>1, <1>4, <1>6, <1>7 DEF Begins
<1>9. QED
    BY <1>2, <1>8 DEF Chronicled

LEMMA RevisionChronicled ==
    ASSUME IInv, NEW p \in Pages, Exists(p), pages[p].deleted = NoTime,
           NEW t \in Times, t > pages[p].updated,
           NEW row \in Row, row = [pages[p] EXCEPT !.rev = @ + 1, !.updated = t],
           Save(p, row),
           NEW v, v.at = t, revisions' = [revisions EXCEPT ![p] = Append(@, v)],
           UNCHANGED events
    PROVE  \A q \in Pages : Chronicled(q)
<1>1. TypeOK /\ pages[p] \in Row
    BY ExistingRow DEF IInv
<1>2. \A q \in Pages \ {p} : Undisturbed(q)
    BY <1>1 DEF TypeOK, Undisturbed, Save, events
<1>3. /\ revisions[p] \in Seq(RevisionRow) /\ revisions'[p] = Append(revisions[p], v)
      /\ Len(revisions[p]) = pages[p].rev /\ pages'[p] = row
    BY <1>1, TablesTyped DEF TypeOK, IInv, HistoryEndsAtPage, Save
<1>4. pages[p].rev \in Nat /\ pages[p].rev >= 1
    BY <1>1, ConstantsAssumption DEF Row
<1>5. PICK s : s = pages[p]
    OBVIOUS
<1>6. PICK o : o = [at |-> v.at, kind |-> "revision", seq |-> pages[p].rev + 1, row |-> v]
    OBVIOUS
<1>7. o.at = t /\ o.kind = "revision" /\ o.seq = s.rev + 1
    BY <1>5, <1>6
<1>8. row = OperationApplied(s, o) /\ row.created = s.created
    BY <1>1, <1>5, <1>7 DEF OperationApplied, Row
<1>9. OperationFits(p, s, o)'
    BY <1>5, <1>7 DEF OperationFits, NoTime
<1>10. /\ OperationsOf("revision", revisions'[p], 2)
            = OperationsOf("revision", revisions[p], 2) \cup {o}
       /\ \A e \in OperationsOf("revision", revisions[p], 2) :
             e.kind = "revision" /\ e.seq < Len(revisions[p]) + 1
    <2>1. PICK table \in Seq(RevisionRow) : table = revisions[p]
        BY <1>3
    <2>2. 2 \in Nat \ {0} /\ 2 <= Len(table) + 1
        BY <1>3, <1>4, <2>1
    <2>3. o = [at |-> v.at, kind |-> "revision", seq |-> Len(table) + 1, row |-> v]
        BY <1>3, <1>6, <2>1
    <2>4. /\ OperationsOf("revision", Append(table, v), 2)
               = OperationsOf("revision", table, 2)
                   \cup {[at |-> v.at, kind |-> "revision", seq |-> Len(table) + 1, row |-> v]}
          /\ \A e \in OperationsOf("revision", table, 2) :
                e.kind = "revision" /\ e.seq < Len(table) + 1
        BY <2>2, TableGrows
    <2>5. QED
        BY <1>3, <2>1, <2>3, <2>4
<1>11. Operations(p)' = Operations(p) \cup {o}
    BY <1>10 DEF Operations, events
<1>12. \A e \in Operations(p) : e.kind = o.kind => e.seq < o.seq
    BY <1>3, <1>5, <1>7, <1>10 DEF Operations, OperationsOf
<1>13. row.place = s.place /\ row.title = s.title /\ row.occurred = s.occurred
    BY <1>1, <1>5 DEF Row
<1>14. InitialState(p)' = InitialState(p)
    BY <1>3, <1>5, <1>8, <1>13 DEF InitialState, events
<1>15. revisions'[p][1] = revisions[p][1]
    BY <1>3, <1>4
<1>16. row # NoPage
    BY ConstantsAssumption
<1>17. QED
    BY <1>2, <1>5, <1>8, <1>9, <1>11, <1>12, <1>14, <1>15, <1>16, PageContinued

LEMMA CorrectionChronicled ==
    ASSUME IInv, NEW p \in Pages, Exists(p), NEW t \in Times, t > pages[p].updated,
           pages[p].deleted = NoTime, NEW new \in Occurrences, new # pages[p].occurred,
           NEW audit, RecordCorrection(p, new, t, audit),
           UNCHANGED <<revisions, lifecycle, titles, moves>>
    PROVE  \A q \in Pages : Chronicled(q)
<1>1. TypeOK /\ pages[p] \in Row
    BY ExistingRow DEF IInv
<1>2. PICK s : s = pages[p]
    OBVIOUS
<1>3. PICK row : row = AfterCorrection(p, new, t)
    OBVIOUS
<1>4. row \in Row /\ row # NoPage /\ row.created = s.created
      /\ row.place = s.place /\ row.title = s.title
    BY <1>1, <1>2, <1>3, ConstantsAssumption DEF Row, Times, AfterCorrection
<1>5. PICK e : e = [old |-> pages[p].occurred, new |-> new, at |-> t,
                 rev |-> pages[p].rev, audit |-> audit]
    OBVIOUS
<1>6. e.old = s.occurred /\ e.new = new /\ e.at = t /\ e.rev = s.rev
    BY <1>2, <1>5
<1>7. Save(p, row) /\ corrections' = [corrections EXCEPT ![p] = Append(@, e)]
    BY <1>3, <1>5 DEF RecordCorrection
<1>8. \A q \in Pages \ {p} : Undisturbed(q)
    BY <1>1, <1>7 DEF TypeOK, Undisturbed, Save
<1>9. PICK table \in Seq(CorrectionRow) : table = corrections[p]
    BY <1>1, TablesTyped
<1>10. corrections'[p] = Append(table, e) /\ pages'[p] = row
    BY <1>1, <1>7, <1>9 DEF TypeOK, Save
<1>11. PICK o : o = [at |-> e.at, kind |-> "correction", seq |-> Len(table) + 1, row |-> e]
    OBVIOUS
<1>12. /\ OperationsOf("correction", Append(table, e), 1)
             = OperationsOf("correction", table, 1) \cup {o}
       /\ \A a \in OperationsOf("correction", table, 1) :
             a.kind = "correction" /\ a.seq < Len(table) + 1
    <2>1. 1 \in Nat \ {0} /\ 1 <= Len(table) + 1
        OBVIOUS
    <2>2. QED
        BY <1>11, <2>1, TableGrows
<1>13. o.at = t /\ o.kind = "correction" /\ o.seq = Len(table) + 1 /\ o.row = e
    BY <1>6, <1>11
<1>14. Operations(p)' = Operations(p) \cup {o}
    BY <1>9, <1>10, <1>12 DEF Operations
<1>15. \A a \in Operations(p) : a.kind = o.kind => a.seq < o.seq
    BY <1>9, <1>12, <1>13 DEF Operations, OperationsOf
<1>16. row = OperationApplied(s, o)
    BY <1>1, <1>2, <1>3, <1>6, <1>13 DEF OperationApplied, AfterCorrection, Row
<1>17. OperationFits(p, s, o)'
    BY <1>2, <1>6, <1>13 DEF OperationFits
<1>18. InitialState(p)' = InitialState(p)
    <2>1. CASE table = <<>>
        <3>1. corrections'[p] = <<e>>
            BY <1>10, <2>1
        <3>2. QED
            BY <1>2, <1>4, <1>6, <1>9, <1>10, <2>1, <3>1 DEF InitialState
    <2>2. CASE table # <<>>
        <3>1. corrections'[p][1] = table[1] /\ corrections'[p] # <<>>
            BY <1>10, <2>2
        <3>2. QED
            BY <1>2, <1>4, <1>9, <1>10, <2>2, <3>1 DEF InitialState
    <2>3. QED
        BY <2>1, <2>2
<1>19. QED
    BY <1>2, <1>4, <1>7, <1>8, <1>14, <1>15, <1>16, <1>17, <1>18, PageContinued

LEMMA LifecycleChronicled ==
    ASSUME IInv, NEW p \in Pages, Exists(p), NEW t \in Times, t > pages[p].updated,
           NEW action \in {"delete", "restore"}, NEW actor, NEW audit,
           RecordLifecycle(p, action, actor, t, audit),
           UNCHANGED <<revisions, corrections, titles, moves>>
    PROVE  \A q \in Pages : Chronicled(q)
<1>1. TypeOK /\ pages[p] \in Row
    BY ExistingRow DEF IInv
<1>2. PICK s : s = pages[p]
    OBVIOUS
<1>3. PICK row : row = AfterLifecycle(p, action, t)
    OBVIOUS
<1>4. row \in Row /\ row # NoPage /\ row.created = s.created
      /\ row.place = s.place /\ row.title = s.title /\ row.occurred = s.occurred
    <2>1. (IF action = "delete" THEN t ELSE NoTime) \in 0 .. MaxTime
        BY ConstantsAssumption DEF Times, NoTime
    <2>2. row = [pages[p] EXCEPT !.deleted = IF action = "delete" THEN t ELSE NoTime,
                                 !.updated = t]
        BY <1>3 DEF AfterLifecycle
    <2>3. row \in Row
        BY <1>1, <2>1, <2>2 DEF Row
    <2>4. QED
        BY <1>1, <1>2, <2>2, <2>3, ConstantsAssumption DEF Row
<1>5. PICK e : e = [action |-> action, section |-> Section(pages[p].place),
                 oldDeleted |-> pages[p].deleted, oldUpdated |-> pages[p].updated,
                 at |-> t, rev |-> pages[p].rev, occurred |-> pages[p].occurred,
                 actor |-> actor, audit |-> audit]
    OBVIOUS
<1>6. /\ e.action = action /\ e.section = Section(s.place) /\ e.at = t
      /\ e.oldDeleted = s.deleted /\ e.oldUpdated = s.updated
      /\ e.rev = s.rev /\ e.occurred = s.occurred
    BY <1>2, <1>5
<1>7. Save(p, row) /\ lifecycle' = [lifecycle EXCEPT ![p] = Append(@, e)]
    BY <1>3, <1>5 DEF RecordLifecycle
<1>8. \A q \in Pages \ {p} : Undisturbed(q)
    BY <1>1, <1>7 DEF TypeOK, Undisturbed, Save
<1>9. PICK table \in Seq(LifecycleRow) : table = lifecycle[p]
    BY <1>1, TablesTyped
<1>10. lifecycle'[p] = Append(table, e) /\ pages'[p] = row
    BY <1>1, <1>7, <1>9 DEF TypeOK, Save
<1>11. PICK o : o = [at |-> e.at, kind |-> "lifecycle", seq |-> Len(table) + 1, row |-> e]
    OBVIOUS
<1>12. /\ OperationsOf("lifecycle", Append(table, e), 1)
             = OperationsOf("lifecycle", table, 1) \cup {o}
       /\ \A a \in OperationsOf("lifecycle", table, 1) :
             a.kind = "lifecycle" /\ a.seq < Len(table) + 1
    <2>1. 1 \in Nat \ {0} /\ 1 <= Len(table) + 1
        OBVIOUS
    <2>2. /\ OperationsOf("lifecycle", Append(table, e), 1)
               = OperationsOf("lifecycle", table, 1)
                   \cup {[at |-> e.at, kind |-> "lifecycle", seq |-> Len(table) + 1, row |-> e]}
          /\ \A a \in OperationsOf("lifecycle", table, 1) :
                a.kind = "lifecycle" /\ a.seq < Len(table) + 1
        BY <2>1, TableGrows
    <2>3. QED
        BY <1>11, <2>2
<1>13. o.at = t /\ o.kind = "lifecycle" /\ o.seq = Len(table) + 1 /\ o.row = e
    BY <1>6, <1>11
<1>14. Operations(p)' = Operations(p) \cup {o}
    BY <1>9, <1>10, <1>12 DEF Operations
<1>15. \A a \in Operations(p) : a.kind = o.kind => a.seq < o.seq
    BY <1>9, <1>12, <1>13 DEF Operations, OperationsOf
<1>16. row = OperationApplied(s, o)
    <2>1. row = [s EXCEPT !.deleted = IF o.row.action = "delete" THEN o.at ELSE NoTime,
                          !.updated = o.at]
        BY <1>2, <1>3, <1>6, <1>13 DEF AfterLifecycle
    <2>2. OperationApplied(s, o) =
            [[s EXCEPT !.updated = o.at] EXCEPT
                !.deleted = IF o.row.action = "delete" THEN o.at ELSE NoTime]
        BY <1>13 DEF OperationApplied
    <2>3. s \in Row
        BY <1>1, <1>2
    <2>4. QED
        BY <2>1, <2>2, <2>3 DEF Row
<1>17. OperationFits(p, s, o)'
    <2>1. (action = "delete") = (s.deleted = NoTime)
        BY <1>2 DEF RecordLifecycle
    <2>2. QED
        BY <1>2, <1>6, <1>13, <2>1 DEF OperationFits
<1>18. InitialState(p)' = InitialState(p)
    <2>1. CASE table = <<>>
        <3>1. lifecycle'[p] = <<e>>
            BY <1>10, <2>1
        <3>2. QED
            BY <1>2, <1>4, <1>6, <1>9, <1>10, <2>1, <3>1 DEF InitialState
    <2>2. CASE table # <<>>
        <3>1. lifecycle'[p][1] = table[1] /\ lifecycle'[p] # <<>>
            BY <1>10, <2>2
        <3>2. QED
            BY <1>2, <1>4, <1>9, <1>10, <2>2, <3>1 DEF InitialState
    <2>3. QED
        BY <2>1, <2>2
<1>19. QED
    BY <1>2, <1>4, <1>7, <1>8, <1>14, <1>15, <1>16, <1>17, <1>18, PageContinued

LEMMA TitleChronicled ==
    ASSUME IInv, NEW p \in Pages, Exists(p), NEW t \in Times, t > pages[p].updated,
           pages[p].deleted = NoTime, NEW title \in Titles, title # pages[p].title,
           Save(p, AfterTitle(p, title, t)),
           titles' = [titles EXCEPT ![p] = Append(@, TitleEvent(p, title, t))],
           UNCHANGED <<revisions, corrections, lifecycle, moves>>
    PROVE  \A q \in Pages : Chronicled(q)
<1>1. TypeOK /\ pages[p] \in Row
    BY ExistingRow DEF IInv
<1>2. PICK s : s = pages[p]
    OBVIOUS
<1>3. PICK row : row = AfterTitle(p, title, t)
    OBVIOUS
<1>4. row \in Row /\ row # NoPage /\ row.created = s.created
      /\ row.place = s.place /\ row.occurred = s.occurred
    BY <1>1, <1>2, <1>3, ConstantsAssumption DEF Row, Times, AfterTitle
<1>5. PICK e : e = TitleEvent(p, title, t)
    OBVIOUS
<1>6. /\ e.old = s.title /\ e.new = title /\ e.oldUpdated = s.updated
      /\ e.at = t /\ e.rev = s.rev
    BY <1>2, <1>5 DEF TitleEvent
<1>7. Save(p, row) /\ titles' = [titles EXCEPT ![p] = Append(@, e)]
    BY <1>3, <1>5 DEF Save
<1>8. \A q \in Pages \ {p} : Undisturbed(q)
    BY <1>1, <1>7 DEF TypeOK, Undisturbed, Save
<1>9. PICK table \in Seq(TitleRow) : table = titles[p]
    BY <1>1, TablesTyped
<1>10. titles'[p] = Append(table, e) /\ pages'[p] = row
    BY <1>1, <1>7, <1>9 DEF TypeOK, Save
<1>11. PICK o : o = [at |-> e.at, kind |-> "title", seq |-> Len(table) + 1, row |-> e]
    OBVIOUS
<1>12. /\ OperationsOf("title", Append(table, e), 1)
             = OperationsOf("title", table, 1) \cup {o}
       /\ \A a \in OperationsOf("title", table, 1) :
             a.kind = "title" /\ a.seq < Len(table) + 1
    <2>1. 1 \in Nat \ {0} /\ 1 <= Len(table) + 1
        OBVIOUS
    <2>2. QED
        BY <1>11, <2>1, TableGrows
<1>13. o.at = t /\ o.kind = "title" /\ o.seq = Len(table) + 1 /\ o.row = e
    BY <1>6, <1>11
<1>14. Operations(p)' = Operations(p) \cup {o}
    BY <1>9, <1>10, <1>12 DEF Operations
<1>15. \A a \in Operations(p) : a.kind = o.kind => a.seq < o.seq
    BY <1>9, <1>12, <1>13 DEF Operations, OperationsOf
<1>16. row = OperationApplied(s, o)
    BY <1>1, <1>2, <1>3, <1>6, <1>13 DEF OperationApplied, AfterTitle, Row
<1>17. OperationFits(p, s, o)'
    BY <1>2, <1>6, <1>13 DEF OperationFits
<1>18. InitialState(p)' = InitialState(p)
    <2>1. CASE table = <<>>
        <3>1. titles'[p] = <<e>>
            BY <1>10, <2>1
        <3>2. <<e>>[1] = e /\ <<e>> # <<>>
            OBVIOUS
        <3>3. titles'[p] # <<>> /\ titles'[p][1].old = pages[p].title /\ titles[p] = <<>>
            BY <1>2, <1>6, <1>9, <2>1, <3>1, <3>2
        <3>4. QED
            BY <1>2, <1>4, <1>10, <3>3 DEF InitialState
    <2>2. CASE table # <<>>
        <3>1. titles'[p][1] = table[1] /\ titles'[p] # <<>>
            BY <1>10, <2>2
        <3>2. QED
            BY <1>2, <1>4, <1>9, <1>10, <2>2, <3>1 DEF InitialState
    <2>3. QED
        BY <2>1, <2>2
<1>19. QED
    BY <1>2, <1>4, <1>7, <1>8, <1>14, <1>15, <1>16, <1>17, <1>18, PageContinued

LEMMA MoveChronicled ==
    ASSUME IInv, NEW p \in Pages, Exists(p), NEW t \in Times, t > pages[p].updated,
           pages[p].deleted = NoTime, NEW target \in Places, target # pages[p].place,
           Save(p, AfterMove(p, target, t)),
           moves' = [moves EXCEPT ![p] = Append(@, MoveEvent(p, target, t))],
           NEW actor \in Actors, Audit(actor, "content.page.move", p, t),
           UNCHANGED <<revisions, corrections, lifecycle, titles>>
    PROVE  \A q \in Pages : Chronicled(q)
<1>1. TypeOK /\ pages[p] \in Row
    BY ExistingRow DEF IInv
<1>2. PICK s : s = pages[p]
    OBVIOUS
<1>3. PICK row : row = AfterMove(p, target, t)
    OBVIOUS
<1>4. row \in Row /\ row # NoPage /\ row.created = s.created
      /\ row.title = s.title /\ row.occurred = s.occurred
    BY <1>1, <1>2, <1>3, ConstantsAssumption DEF Row, Times, AfterMove
<1>5. PICK e : e = MoveEvent(p, target, t)
    OBVIOUS
<1>6. /\ e.old = s.place /\ e.new = target /\ e.oldUpdated = s.updated /\ e.at = t
      /\ e.rev = s.rev /\ e.occurred = s.occurred /\ e.audit = NextAudit
    BY <1>2, <1>5 DEF MoveEvent
<1>7. Save(p, row) /\ moves' = [moves EXCEPT ![p] = Append(@, e)]
    BY <1>3, <1>5 DEF MoveEvent
<1>8. \A q \in Pages \ {p} : Undisturbed(q)
    BY <1>1, <1>7 DEF TypeOK, Undisturbed, Save
<1>9. PICK table \in Seq(MoveRow) : table = moves[p]
    BY <1>1, TablesTyped
<1>10. moves'[p] = Append(table, e) /\ pages'[p] = row
    BY <1>1, <1>7, <1>9 DEF TypeOK, Save
<1>11. PICK o : o = [at |-> e.at, kind |-> "move", seq |-> Len(table) + 1, row |-> e]
    OBVIOUS
<1>12. /\ OperationsOf("move", Append(table, e), 1)
             = OperationsOf("move", table, 1) \cup {o}
       /\ \A a \in OperationsOf("move", table, 1) :
             a.kind = "move" /\ a.seq < Len(table) + 1
    <2>1. 1 \in Nat \ {0} /\ 1 <= Len(table) + 1
        OBVIOUS
    <2>2. QED
        BY <1>11, <2>1, TableGrows
<1>13. o.at = t /\ o.kind = "move" /\ o.seq = Len(table) + 1 /\ o.row = e
    BY <1>6, <1>11
<1>14. Operations(p)' = Operations(p) \cup {o}
    BY <1>9, <1>10, <1>12 DEF Operations
<1>15. \A a \in Operations(p) : a.kind = o.kind => a.seq < o.seq
    BY <1>9, <1>12, <1>13 DEF Operations, OperationsOf
<1>16. row = OperationApplied(s, o)
    BY <1>1, <1>2, <1>3, <1>6, <1>13 DEF OperationApplied, AfterMove, Row
<1>17. AuditedAs(e.audit, "content.page.move", p, t)'
    <2> DEFINE a == [actor |-> actor, action |-> "content.page.move", page |-> p, at |-> t]
    <2>1. /\ a \in AuditRow /\ audits' = Append(audits, a)
          /\ a.page = p /\ a.at = t /\ a.action = "content.page.move"
        BY DEF AuditRow, AuditActions, Audit
    <2> HIDE DEF a
    <2>2. NextAudit \in DOMAIN audits' /\ audits'[NextAudit] = a
        BY <1>1, <2>1, AuditAdded
    <2>3. QED
        BY <1>6, <2>1, <2>2 DEF AuditedAs
<1>18. OperationFits(p, s, o)'
    BY <1>2, <1>6, <1>13, <1>17 DEF OperationFits, AuditedAs
<1>19. InitialState(p)' = InitialState(p)
    <2>1. CASE table = <<>>
        <3>1. moves'[p] = <<e>>
            BY <1>10, <2>1
        <3>2. <<e>>[1] = e /\ <<e>> # <<>>
            OBVIOUS
        <3>3. moves'[p] # <<>> /\ moves'[p][1].old = pages[p].place /\ moves[p] = <<>>
            BY <1>2, <1>6, <1>9, <2>1, <3>1, <3>2
        <3>4. QED
            BY <1>2, <1>4, <1>10, <3>3 DEF InitialState
    <2>2. CASE table # <<>>
        <3>1. moves'[p][1] = table[1] /\ moves'[p] # <<>>
            BY <1>10, <2>2
        <3>2. QED
            BY <1>2, <1>4, <1>9, <1>10, <2>2, <3>1 DEF InitialState
    <2>3. QED
        BY <2>1, <2>2
<1>20. QED
    BY <1>2, <1>4, <1>7, <1>8, <1>14, <1>15, <1>16, <1>18, <1>19, PageContinued

----------------------------------------------------------------------------
(* What a stored receipt can be checked against.                           *)

\* The row that r answered is in the history of its page, with its revision.
Describes(r, i) ==
    /\ r.page \in Pages
    /\ i \in DOMAIN rows[r.page] /\ rows[r.page][i] = r.row
    /\ r.etag = ETag(r.page, r.row)
    /\ r.row.rev \in DOMAIN revisions[r.page]
    /\ revisions[r.page][r.row.rev].content = r.content

\* The audit written with r.
Certified(r, action, at) ==
    /\ r.audit \in DOMAIN audits
    /\ audits[r.audit] =
          [actor |-> r.key[1], action |-> action, page |-> r.page, at |-> at]

\* The section route of r leads to the row.
InSection(r) == Section(r.row.place) = r.request.section

ArchiveGrounds(r) ==
    /\ r.key[2] \in {"archive_create", "archive_revise"}
    /\ InSection(r) /\ r.row.deleted = NoTime /\ r.stamp = r.row.updated
    /\ revisions[r.page][r.row.rev].at = r.row.updated

\* The change that r reports is the file-set revision that the row has.
FileSetRevision(r, action) ==
    LET revision == revisions[r.page][r.row.rev]
    IN  /\ revision.format = "file_set_v1" /\ revision.sourceAt = r.stamp
        /\ revision.at = r.row.updated /\ revision.at >= r.stamp
        /\ Certified(r, action, r.stamp)

FileSetCreateGrounds(r) ==
    /\ r.key[2] = "file_set_create"
    /\ InSection(r) /\ r.row.deleted = NoTime /\ r.stamp = r.row.updated
    /\ r.row.rev = 1 /\ r.row.place = r.request.arg[1]
    /\ r.row.title = r.request.arg[2] /\ r.content = r.request.arg[4]
    /\ FileSetRevision(r, "content.page.file_set.create")

FileSetAppendGrounds(r) ==
    /\ r.key[2] = "file_set_append"
    /\ InSection(r) /\ r.row.deleted = NoTime /\ r.content = r.request.arg
    /\ r.changed => FileSetRevision(r, "content.page.file_set.revise")

CorrectionGrounds(r) ==
    /\ r.key[2] = "correct_occurrence"
    /\ InSection(r) /\ r.row.deleted = NoTime /\ r.stamp = r.row.updated
    /\ r.row.occurred = r.request.arg
    /\ \E n \in DOMAIN corrections[r.page] :
          corrections[r.page][n] =
             [old |-> r.request.etag.occurred, new |-> r.row.occurred,
              at |-> r.stamp, rev |-> r.row.rev, audit |-> 0]
    /\ Certified(r, "content.archive.correct_occurrence", r.stamp)

LifecycleGrounds(r) ==
    LET action == r.request.arg
    IN  /\ r.key[2] \in {"delete", "restore"} /\ r.key[2] = action /\ r.changed
        /\ InSection(r) /\ r.stamp = r.row.updated
        /\ r.row.deleted = IF action = "delete" THEN r.stamp ELSE NoTime
        /\ \E n \in DOMAIN lifecycle[r.page] :
              LET e == lifecycle[r.page][n]
              IN  /\ e.at = r.stamp /\ e.action = action /\ e.actor = r.key[1]
                  /\ e.section = Section(r.row.place)
                  /\ e.rev = r.row.rev /\ e.occurred = r.row.occurred
        /\ Certified(r, ArchiveAudit[action], r.stamp)

\* The request of r was made on the row b of its page.
MadeOn(r, b) == b.updated = r.before /\ r.request.etag = ETag(r.page, b)

LibraryLifecycleGrounds(r, b) ==
    LET action == r.request.arg
    IN  /\ r.key[2] \in {"page_delete", "page_restore"} /\ r.changed
        /\ action \in {"delete", "restore"} /\ r.key[2] = LibraryRoute[action]
        /\ MadeOn(r, b) /\ b.updated < r.row.updated /\ r.stamp = r.row.updated
        /\ (b.deleted = NoTime) = (action = "delete")
        /\ r.row = [b EXCEPT !.updated = r.stamp,
                       !.deleted = IF action = "delete" THEN r.stamp ELSE NoTime]
        /\ \E n \in DOMAIN lifecycle[r.page] :
              lifecycle[r.page][n] =
                 [action |-> action, section |-> Section(r.row.place),
                  oldDeleted |-> b.deleted, oldUpdated |-> b.updated,
                  at |-> r.stamp, rev |-> r.row.rev, occurred |-> b.occurred,
                  actor |-> r.key[1], audit |-> 0]
        /\ Certified(r, PageAudit[action], r.stamp)

MoveGrounds(r, b) ==
    /\ r.key[2] \in {"page_move", "master_move"}
    /\ (r.key[2] = "master_move") = (r.key[1] = Master)
    /\ MadeOn(r, b) /\ b.deleted = NoTime
    /\ r.request.arg = <<b.place, r.row.place>>
    /\ IF r.changed
       THEN /\ b.updated < r.row.updated
            /\ r.row = [b EXCEPT !.place = r.row.place, !.updated = r.row.updated]
            /\ \E n \in DOMAIN moves[r.page] :
                  moves[r.page][n] =
                     [old |-> b.place, new |-> r.row.place,
                      oldUpdated |-> b.updated, at |-> r.row.updated,
                      rev |-> r.row.rev, occurred |-> b.occurred, audit |-> r.audit]
            /\ Certified(r, "content.page.move", r.row.updated)
       ELSE b = r.row /\ r.audit = 0

MasterFileSetGrounds(r) ==
    LET revision == revisions[r.page][r.row.rev]
    IN  /\ r.key[2] \in {"master_create", "master_revise"}
        /\ r.row.deleted = NoTime
        /\ r.key[2] = "master_create" =>
              r.changed /\ r.row.rev = 1 /\ revision.at = r.stamp
        /\ IF r.changed
           THEN /\ revision.format = "file_set_v1"
                /\ r.row.updated = revision.at /\ revision.at >= r.stamp
                /\ revision.sourceAt = r.stamp
                /\ r.audit \in DOMAIN audits
                /\ audits[r.audit] =
                      [actor |-> Master, page |-> r.page, at |-> r.stamp,
                       action |-> IF r.key[2] = "master_create"
                                  THEN "content.page.file_set.create"
                                  ELSE "content.page.file_set.revise"]
           ELSE r.audit = 0

\* What the route of r left in the tables for its validator.
Grounds(r) ==
    \/ ArchiveGrounds(r) \/ FileSetCreateGrounds(r) \/ FileSetAppendGrounds(r)
    \/ CorrectionGrounds(r) \/ LifecycleGrounds(r) \/ MasterFileSetGrounds(r)
    \/ \E i \in DOMAIN rows[r.page] :
          LibraryLifecycleGrounds(r, rows[r.page][i]) \/ MoveGrounds(r, rows[r.page][i])

Substantiated(r) == (\E i \in DOMAIN rows[r.page] : Describes(r, i)) /\ Grounds(r)

\* Audits that carry the clock of the page they changed.
DatedAudits ==
    {"content.archive.correct_occurrence", "content.archive.delete",
     "content.archive.restore", "content.page.occurrence.correct",
     "content.page.delete", "content.page.restore",
     "content.page.title.edit", "content.page.move"}

DatedAuditsPast ==
    \A i \in DOMAIN audits : audits[i].action \in DatedAudits =>
        Exists(audits[i].page) /\ audits[i].at <= pages[audits[i].page].updated

\* No two of them have the same page and the same clock.
DatedAuditsDiffer ==
    \A i, j \in DOMAIN audits :
        /\ audits[i].action \in DatedAudits /\ audits[j].action \in DatedAudits
        /\ audits[i].page = audits[j].page /\ audits[i].at = audits[j].at
        => i = j

----------------------------------------------------------------------------
(* What the events and the audits of a page account for.                   *)

\* A correction, a title edit, a lifecycle transition and a move name the audit
\* that was written with them, or the receipt that answers them.
CorrectionBooked(p, e) ==
    e.audit # 0 => AuditedAs(e.audit, "content.page.occurrence.correct", p, e.at)

TitleBooked(p, e) == AuditedAs(e.audit, "content.page.title.edit", p, e.at)

LifecycleBooked(p, e) ==
    IF e.actor = Master
    THEN e.audit # 0 /\ AuditedAs(e.audit, ArchiveAudit[e.action], p, e.at)
    ELSE /\ e.audit = 0
         /\ \E r \in LifecycleRecords(p, e) : Section(r.row.place) = e.section

MoveBooked(p, e) ==
    /\ AuditedAs(e.audit, "content.page.move", p, e.at)
    /\ \E r \in receipts :
          /\ r.changed /\ r.page = p /\ r.audit = e.audit /\ r.row.updated = e.at
          /\ r.key[2] = IF audits[e.audit].actor = Master
                        THEN "master_move" ELSE "page_move"

\* The audit a, which is audit number id, has the event or the receipt that was
\* written with it.
NamedBy(table, id) == \E n \in DOMAIN table : table[n].audit = id

AuditBooked(a, id) ==
    /\ a.action = "content.page.move" => NamedBy(moves[a.page], id)
    /\ a.action = "content.page.occurrence.correct" => NamedBy(corrections[a.page], id)
    /\ a.action = "content.page.title.edit" => NamedBy(titles[a.page], id)
    /\ a.action \in {"content.archive.delete", "content.archive.restore"}
          /\ a.actor = Master => NamedBy(lifecycle[a.page], id)
    /\ a.action \in {"content.page.delete", "content.page.restore"} =>
          \E r \in receipts : /\ r.key[2] \in {"page_delete", "page_restore"}
                              /\ r.key[1] = a.actor /\ r.page = a.page /\ r.stamp = a.at
    /\ a.action \in {"content.page.file_set.create", "content.page.file_set.revise"}
          /\ a.actor = Master =>
          \E r \in receipts : r.key[2] \in {"master_create", "master_revise"} /\ r.audit = id

EventsBooked(p) ==
    /\ \A e \in Range(corrections[p]) : CorrectionBooked(p, e)
    /\ \A e \in Range(lifecycle[p]) : LifecycleBooked(p, e)
    /\ \A e \in Range(titles[p]) : TitleBooked(p, e)
    /\ \A e \in Range(moves[p]) : MoveBooked(p, e)

Ledger ==
    /\ \A p \in Pages : EventsBooked(p)
    /\ \A id \in DOMAIN audits : AuditBooked(audits[id], id)
    /\ IsFiniteSet(receipts)

----------------------------------------------------------------------------
(* Such a receipt is replayed.                                             *)

\* The state with the clock of a row is that row.
LEMMA StateFound ==
    ASSUME IInv, Chronicle, NEW p \in Pages, NEW i \in DOMAIN rows[p],
           NEW s, s = rows[p][i], NEW at, at = s.updated
    PROVE  /\ TimelineLoads(p) /\ States(p) = rows[p]
           /\ Exists(p) /\ Recorded(p)
           /\ StateAt(p, at) = s /\ HasExactState(p, at)
<1>1. /\ rows[p] \in Seq(Row) /\ DOMAIN rows[p] = 1 .. Len(rows[p])
      /\ \A j \in DOMAIN rows[p] : rows[p][j].updated \in Nat
    <2>1. rows[p] \in Seq(Row)
        BY DEF IInv, TypeOK
    <2>2. \A j \in DOMAIN rows[p] : rows[p][j] \in Row
        BY <2>1
    <2>3. \A row \in Row : row.updated \in Nat
        BY DEF Row, Times
    <2>4. QED
        BY <2>1, <2>2, <2>3
<1>2. Exists(p)
    BY <1>1 DEF IInv, HistoryEndsAtPage
<1>3. TimelineLoads(p) /\ States(p) = rows[p] /\ Recorded(p)
    BY <1>2, TimelineFound DEF Chronicle
<1>4. {j \in DOMAIN rows[p] : rows[p][j].updated = at} = {i}
    <2>1. \A j \in DOMAIN rows[p] : rows[p][j].updated = at => j = i
        <3> SUFFICES ASSUME NEW j \in DOMAIN rows[p], rows[p][j].updated = at, j # i
                     PROVE  FALSE
            OBVIOUS
        <3>1. i < j \/ j < i
            BY <1>1
        <3>2. QED
            BY <1>1, <3>1 DEF IInv, ClockAdvances
    <2>2. QED
        BY <2>1
<1>5. (CHOOSE j \in DOMAIN rows[p] : rows[p][j].updated = at) = i
    BY <1>4
<1>6. StateAt(p, at) = s
    BY <1>3, <1>5 DEF StateAt
<1>7. Cardinality({j \in DOMAIN rows[p] : rows[p][j].updated = at}) = 1
    BY <1>4, FS_Singleton
<1>8. HasExactState(p, at)
    BY <1>3, <1>4, <1>6, <1>7 DEF HasExactState, ExactState
<1>9. QED
    BY <1>2, <1>3, <1>6, <1>8

\* Two operations of one page with the same clock are one.
LEMMA OperationsDiffer ==
    ASSUME IInv, NEW p \in Pages, Exists(p), Recorded(p),
           NEW a \in Operations(p), NEW b \in Operations(p), a.at = b.at
    PROVE  a = b
<1>1. TypeOK /\ ClockAdvances
    BY DEF IInv
<1>2. PICK n \in Nat : Len(rows[p]) = n + 1
    <2>1. Len(rows[p]) \in Nat /\ Len(rows[p]) > 0
        BY <1>1 DEF IInv, TypeOK, HistoryEndsAtPage
    <2>2. Len(rows[p]) - 1 \in Nat /\ Len(rows[p]) = (Len(rows[p]) - 1) + 1
        BY <2>1
    <2>3. QED
        BY <2>2
<1>3. PICK ops \in [1 .. n -> Operations(p)] : Enumerates(p, ops)
    BY <1>2 DEF Recorded
<1>4. PICK i \in 1 .. n, j \in 1 .. n : ops[i] = a /\ ops[j] = b
    BY <1>3 DEF Enumerates
<1>5. a.at \in Nat
    BY <1>1, OperationTyped
<1>6. \A k, m \in 1 .. n : k < m => ops[k].at < ops[m].at
    BY <1>1, <1>2, <1>3, OperationsAscend
<1>7. ~(i < j) /\ ~(j < i)
    BY <1>4, <1>5, <1>6
<1>8. QED
    BY <1>4, <1>7

\* A table has one event with the clock of that event.
LEMMA CorrectionFound ==
    ASSUME IInv, NEW p \in Pages, Exists(p), Recorded(p),
           NEW n \in DOMAIN corrections[p], NEW at, corrections[p][n].at = at
    PROVE  {i \in DOMAIN corrections[p] : corrections[p][i].at = at} = {n}
<1> DEFINE op(i) == [at |-> corrections[p][i].at, kind |-> "correction", seq |-> i,
                     row |-> corrections[p][i]]
<1>1. \A i \in DOMAIN corrections[p] : op(i) \in Operations(p)
    BY TablesTyped DEF IInv, Operations, OperationsOf
<1>2. \A i \in DOMAIN corrections[p] : op(i).at = corrections[p][i].at /\ op(i).seq = i
    OBVIOUS
<1> HIDE DEF op
<1>3. QED
    BY <1>1, <1>2, OperationsDiffer

LEMMA LifecycleFound ==
    ASSUME IInv, NEW p \in Pages, Exists(p), Recorded(p),
           NEW n \in DOMAIN lifecycle[p], NEW at, lifecycle[p][n].at = at
    PROVE  {i \in DOMAIN lifecycle[p] : lifecycle[p][i].at = at} = {n}
<1> DEFINE op(i) == [at |-> lifecycle[p][i].at, kind |-> "lifecycle", seq |-> i,
                     row |-> lifecycle[p][i]]
<1>1. \A i \in DOMAIN lifecycle[p] : op(i) \in Operations(p)
    BY TablesTyped DEF IInv, Operations, OperationsOf
<1>2. \A i \in DOMAIN lifecycle[p] : op(i).at = lifecycle[p][i].at /\ op(i).seq = i
    OBVIOUS
<1> HIDE DEF op
<1>3. QED
    BY <1>1, <1>2, OperationsDiffer

LEMMA MoveFound ==
    ASSUME IInv, NEW p \in Pages, Exists(p), Recorded(p),
           NEW n \in DOMAIN moves[p], NEW at, moves[p][n].at = at
    PROVE  {i \in DOMAIN moves[p] : moves[p][i].at = at} = {n}
<1> DEFINE op(i) == [at |-> moves[p][i].at, kind |-> "move", seq |-> i,
                     row |-> moves[p][i]]
<1>1. \A i \in DOMAIN moves[p] : op(i) \in Operations(p)
    BY TablesTyped DEF IInv, Operations, OperationsOf
<1>2. \A i \in DOMAIN moves[p] : op(i).at = moves[p][i].at /\ op(i).seq = i
    OBVIOUS
<1> HIDE DEF op
<1>3. QED
    BY <1>1, <1>2, OperationsDiffer

\* What every replay finds.
LEMMA Described ==
    ASSUME IInv, Chronicle, NEW r \in receipts, NEW i \in DOMAIN rows[r.page],
           Describes(r, i)
    PROVE  /\ r.page \in Pages /\ TimelineLoads(r.page)
           /\ States(r.page) = rows[r.page] /\ Exists(r.page) /\ Recorded(r.page)
           /\ StateAt(r.page, r.row.updated) = r.row
           /\ HasExactState(r.page, r.row.updated)
<1>1. r.page \in Pages /\ rows[r.page][i] = r.row
    BY DEF Describes
<1>2. PICK p \in Pages : p = r.page
    BY <1>1
<1>3. QED
    BY <1>1, <1>2, StateFound

\* Per route: what it left satisfies its validator.
LEMMA ArchiveReplays ==
    ASSUME IInv, Chronicle, NEW r \in receipts, NEW i \in DOMAIN rows[r.page],
           Describes(r, i), ArchiveGrounds(r)
    PROVE  Replayable(r)
<1>1. /\ r.page \in Pages /\ TimelineLoads(r.page)
      /\ StateAt(r.page, r.row.updated) = r.row /\ HasExactState(r.page, r.row.updated)
    BY Described
<1>2. ArchiveReplay(r)
    BY <1>1 DEF ArchiveReplay, ReplayState, ArchiveGrounds, InSection, Describes
<1>3. QED
    BY <1>2 DEF Replayable, ArchiveGrounds

LEMMA FileSetCreateReplays ==
    ASSUME IInv, Chronicle, NEW r \in receipts, NEW i \in DOMAIN rows[r.page],
           Describes(r, i), FileSetCreateGrounds(r)
    PROVE  Replayable(r)
<1>1. /\ r.page \in Pages /\ TimelineLoads(r.page)
      /\ StateAt(r.page, r.row.updated) = r.row /\ HasExactState(r.page, r.row.updated)
    BY Described
<1>2. FileSetCreateReplay(r)
    BY <1>1 DEF FileSetCreateReplay, ReplayState, FileSetCreateGrounds, InSection, Describes
<1>3. QED
    BY <1>2 DEF Replayable, FileSetCreateGrounds

LEMMA FileSetAppendReplays ==
    ASSUME IInv, Chronicle, NEW r \in receipts, NEW i \in DOMAIN rows[r.page],
           Describes(r, i), FileSetAppendGrounds(r)
    PROVE  Replayable(r)
<1>1. r.page \in Pages /\ TimelineLoads(r.page) /\ States(r.page) = rows[r.page]
    BY Described
<1> DEFINE matches == {j \in DOMAIN rows[r.page] :
                        /\ rows[r.page][j].deleted = NoTime
                        /\ rows[r.page][j].rev = r.row.rev
                        /\ Section(rows[r.page][j].place) = r.request.section
                        /\ ETag(r.page, rows[r.page][j]) = r.etag}
<1>2. matches = {i}
    <2>1. i \in matches
        BY DEF Describes, FileSetAppendGrounds, InSection
    <2>2. ASSUME NEW j \in matches
          PROVE  j = i
        <3>1. ETag(r.page, rows[r.page][j]) = ETag(r.page, rows[r.page][i])
            BY <2>2 DEF Describes
        <3>2. rows[r.page][j].updated = rows[r.page][i].updated
            BY <3>1 DEF ETag
        <3>3. rows[r.page] \in Seq(Row)
            BY <1>1 DEF IInv, TypeOK
        <3>4. i \in Nat /\ j \in Nat /\ rows[r.page][i] \in Row /\ rows[r.page][j] \in Row
            BY <2>2, <3>3
        <3>5. ~(i < j) /\ ~(j < i)
            BY <1>1, <2>2, <3>2, <3>4 DEF IInv, ClockAdvances, Row, Times
        <3>6. QED
            BY <3>4, <3>5
    <2>3. QED
        BY <2>1, <2>2
<1>3. Cardinality(matches) = 1
    BY <1>2, FS_Singleton
<1>4. FileSetAppendReplay(r)
    <2>1. \A j \in matches : rows[r.page][j] = r.row
        BY <1>2 DEF Describes
    <2>2. r.row.rev \in DOMAIN revisions[r.page] /\ r.content = r.request.arg
        BY DEF Describes, FileSetAppendGrounds
    <2>3. r.changed => \A j \in matches :
            rows[r.page][j].updated = revisions[r.page][r.row.rev].at
        BY <2>1 DEF FileSetAppendGrounds, FileSetRevision
    <2> HIDE DEF matches
    <2>4. QED
        BY <1>1, <1>3, <2>2, <2>3 DEF FileSetAppendReplay, matches
<1>5. QED
    BY <1>4 DEF Replayable, FileSetAppendGrounds

LEMMA CorrectionReplays ==
    ASSUME IInv, Chronicle, NEW r \in receipts, NEW i \in DOMAIN rows[r.page],
           Describes(r, i), CorrectionGrounds(r)
    PROVE  Replayable(r)
<1>1. /\ r.page \in Pages /\ TimelineLoads(r.page) /\ Exists(r.page) /\ Recorded(r.page)
      /\ StateAt(r.page, r.row.updated) = r.row /\ HasExactState(r.page, r.row.updated)
    BY Described
<1>2. PICK n \in DOMAIN corrections[r.page] :
          /\ corrections[r.page][n].at = r.stamp
          /\ corrections[r.page][n].new = r.request.arg
          /\ corrections[r.page][n].old = r.request.etag.occurred
    BY DEF CorrectionGrounds
<1>3. {j \in DOMAIN corrections[r.page] : corrections[r.page][j].at = r.stamp} = {n}
    BY <1>1, <1>2, CorrectionFound
<1>4. Cardinality({j \in DOMAIN corrections[r.page] : corrections[r.page][j].at = r.stamp}) = 1
    BY <1>3, FS_Singleton
<1>5. ReplayState(r, r.stamp, TRUE)
    BY <1>1 DEF ReplayState, CorrectionGrounds, InSection, Describes
<1>6. r.row.occurred = StateAt(r.page, r.stamp).occurred
    BY <1>1 DEF CorrectionGrounds
<1>7. CorrectionReplay(r)
    BY <1>2, <1>3, <1>4, <1>5, <1>6 DEF CorrectionReplay
<1>8. QED
    BY <1>7 DEF Replayable, CorrectionGrounds

LEMMA LifecycleReplays ==
    ASSUME IInv, Chronicle, NEW r \in receipts, NEW i \in DOMAIN rows[r.page],
           Describes(r, i), LifecycleGrounds(r)
    PROVE  Replayable(r)
<1>1. /\ r.page \in Pages /\ TimelineLoads(r.page) /\ Exists(r.page) /\ Recorded(r.page)
      /\ StateAt(r.page, r.row.updated) = r.row /\ HasExactState(r.page, r.row.updated)
    BY Described
<1>2. PICK n \in DOMAIN lifecycle[r.page] :
          lifecycle[r.page][n].at = r.stamp /\ lifecycle[r.page][n].action = r.request.arg
    BY DEF LifecycleGrounds
<1>3. {j \in DOMAIN lifecycle[r.page] : lifecycle[r.page][j].at = r.stamp} = {n}
    BY <1>1, <1>2, LifecycleFound
<1>4. Cardinality({j \in DOMAIN lifecycle[r.page] : lifecycle[r.page][j].at = r.stamp}) = 1
    BY <1>3, FS_Singleton
<1>5. ReplayState(r, r.stamp, r.request.arg = "restore")
    <2>1. r.row.updated # NoTime
        <3>1. r.row \in Row
            BY DEF IInv, TypeOK, ReceiptTyped
        <3>2. QED
            BY <3>1, ConstantsAssumption DEF Row, Times, NoTime
    <2>2. (r.row.deleted = NoTime) = (r.request.arg = "restore")
        BY <2>1 DEF LifecycleGrounds
    <2>3. QED
        BY <1>1, <2>2 DEF ReplayState, LifecycleGrounds, InSection, Describes
<1>6. r.stamp = r.row.updated
    BY DEF LifecycleGrounds
<1>7. LifecycleReplay(r)
    BY <1>1, <1>2, <1>3, <1>4, <1>5, <1>6 DEF LifecycleReplay
<1>8. QED
    BY <1>7 DEF Replayable, LifecycleGrounds

LEMMA LibraryLifecycleReplays ==
    ASSUME IInv, Chronicle, DatedAuditsDiffer, NEW r \in receipts,
           NEW i \in DOMAIN rows[r.page], Describes(r, i),
           NEW k \in DOMAIN rows[r.page], NEW b, b = rows[r.page][k],
           LibraryLifecycleGrounds(r, b)
    PROVE  Replayable(r)
<1>1. /\ r.page \in Pages /\ TimelineLoads(r.page) /\ Exists(r.page) /\ Recorded(r.page)
      /\ StateAt(r.page, r.row.updated) = r.row /\ HasExactState(r.page, r.row.updated)
    BY Described
<1>2. PICK p \in Pages : p = r.page
    BY <1>1
<1>3. PICK action \in {"delete", "restore"} : action = r.request.arg
    BY DEF LibraryLifecycleGrounds
<1>4. /\ b.updated = r.before /\ r.request.etag = ETag(p, b)
      /\ b.updated < r.row.updated /\ r.stamp = r.row.updated
      /\ (b.deleted = NoTime) = (action = "delete")
      /\ r.row = [b EXCEPT !.updated = r.row.updated,
                     !.deleted = IF action = "delete" THEN r.row.updated ELSE NoTime]
      /\ r.key[2] \in {"page_delete", "page_restore"}
    BY <1>2, <1>3 DEF LibraryLifecycleGrounds, MadeOn
<1>5. StateAt(p, r.before) = b /\ HasExactState(p, r.before)
    BY <1>2, <1>4, StateFound
<1>6. StateAt(p, r.row.updated) = r.row /\ HasExactState(p, r.row.updated) /\ TimelineLoads(p)
    BY <1>1, <1>2
<1>7. r.etag = ETag(p, r.row)
    BY <1>2 DEF Describes
<1> DEFINE event == [action |-> action, section |-> Section(r.row.place),
                     oldDeleted |-> b.deleted, oldUpdated |-> b.updated,
                     at |-> r.row.updated, rev |-> r.row.rev, occurred |-> b.occurred,
                     actor |-> r.key[1], audit |-> 0]
           audit == [actor |-> r.key[1], action |-> PageAudit[action],
                     page |-> p, at |-> r.row.updated]
<1>8. {e \in Range(lifecycle[p]) : e.at = r.row.updated} = {event}
    <2>1. PICK n \in DOMAIN lifecycle[p] : lifecycle[p][n] = event
        BY <1>2, <1>3, <1>4 DEF LibraryLifecycleGrounds
    <2>2. event.at = r.row.updated
        OBVIOUS
    <2> HIDE DEF event
    <2>3. {j \in DOMAIN lifecycle[p] : lifecycle[p][j].at = r.row.updated} = {n}
        BY <1>1, <1>2, <2>1, <2>2, LifecycleFound
    <2>4. QED
        BY <2>1, <2>2, <2>3 DEF Range
<1>9. PICK m \in DOMAIN audits : audits[m] = audit
    BY <1>2, <1>3, <1>4 DEF LibraryLifecycleGrounds, Certified
<1> DEFINE audited == {j \in DOMAIN audits :
                         AuditedAs(j, PageAudit[action], p, r.row.updated)}
<1>10. audited = {m} /\ audits[m].actor = r.key[1]
    <2>1. PageAudit[action] \in DatedAudits
        BY DEF PageAudit, DatedAudits
    <2>2. m \in audited
        BY <1>9 DEF AuditedAs
    <2>3. \A j \in audited : j = m
        BY <1>9, <2>1 DEF AuditedAs, DatedAuditsDiffer
    <2>4. audits[m].actor = r.key[1]
        BY <1>9
    <2> HIDE DEF audited
    <2>5. QED
        BY <2>2, <2>3, <2>4
<1>11. Cardinality(audited) = 1
    BY <1>10, FS_Singleton
<1> HIDE DEF audited, event, audit
<1>12. LibraryLifecycleReplay(r)
    BY <1>2, <1>3, <1>4, <1>5, <1>6, <1>7, <1>8, <1>10, <1>11
       DEF LibraryLifecycleReplay, event, audited
<1>13. QED
    BY <1>4, <1>12 DEF Replayable

LEMMA MoveReplays ==
    ASSUME IInv, Chronicle, NEW r \in receipts,
           NEW i \in DOMAIN rows[r.page], Describes(r, i),
           NEW k \in DOMAIN rows[r.page], NEW b, b = rows[r.page][k],
           MoveGrounds(r, b)
    PROVE  Replayable(r)
<1>1. /\ r.page \in Pages /\ TimelineLoads(r.page) /\ Exists(r.page) /\ Recorded(r.page)
      /\ StateAt(r.page, r.row.updated) = r.row /\ HasExactState(r.page, r.row.updated)
    BY Described
<1>2. PICK p \in Pages : p = r.page
    BY <1>1
<1>3. /\ b.updated = r.before /\ r.request.etag = ETag(p, b) /\ b.deleted = NoTime
      /\ r.request.arg = <<b.place, r.row.place>>
      /\ r.key[2] \in {"page_move", "master_move"}
    BY <1>2 DEF MoveGrounds, MadeOn
<1>4. StateAt(p, r.before) = b /\ HasExactState(p, r.before)
    BY <1>2, <1>3, StateFound
<1>5. StateAt(p, r.row.updated) = r.row /\ HasExactState(p, r.row.updated) /\ TimelineLoads(p)
    BY <1>1, <1>2
<1>6. r.etag = ETag(p, r.row)
    BY <1>2 DEF Describes
<1>7. b \in Row
    BY <1>1 DEF IInv, TypeOK
<1>8. CASE r.changed
    <2> DEFINE event == [old |-> b.place, new |-> r.row.place,
                         oldUpdated |-> b.updated, at |-> r.row.updated,
                         rev |-> r.row.rev, occurred |-> b.occurred, audit |-> r.audit]
               audit == [actor |-> r.key[1], action |-> "content.page.move",
                         page |-> p, at |-> r.row.updated]
    <2>1. /\ b.updated < r.row.updated
          /\ r.row = [b EXCEPT !.place = r.row.place, !.updated = r.row.updated]
          /\ r.audit \in DOMAIN audits /\ audits[r.audit] = audit
        BY <1>2, <1>8 DEF MoveGrounds, Certified
    <2>2. /\ r.row.deleted = NoTime /\ r.row.rev = b.rev
          /\ r.row.occurred = b.occurred /\ r.row.title = b.title
        BY <1>3, <1>7, <2>1 DEF Row
    <2>3. {e \in Range(moves[p]) : e.at = r.row.updated} = {event}
        <3>1. PICK n \in DOMAIN moves[p] : moves[p][n] = event
            BY <1>2, <1>8 DEF MoveGrounds
        <3>2. event.at = r.row.updated
            OBVIOUS
        <3> HIDE DEF event
        <3>3. {j \in DOMAIN moves[p] : moves[p][j].at = r.row.updated} = {n}
            BY <1>1, <1>2, <3>1, <3>2, MoveFound
        <3>4. QED
            BY <3>1, <3>2, <3>3 DEF Range
    <2>4. AuditedAs(r.audit, "content.page.move", p, r.row.updated)
        BY <2>1 DEF AuditedAs
    <2>5. audits[r.audit].actor = r.key[1] /\ b.updated < r.row.updated
        BY <2>1
    <2>6. MoveReplay(r)
        BY <1>2, <1>3, <1>4, <1>5, <1>6, <1>8, <2>2, <2>3, <2>4, <2>5 DEF MoveReplay
    <2>7. QED
        BY <1>3, <2>6 DEF Replayable
<1>9. CASE ~r.changed
    <2>1. b = r.row /\ r.audit = 0
        BY <1>9 DEF MoveGrounds
    <2>2. MoveReplay(r)
        BY <1>2, <1>3, <1>4, <1>5, <1>6, <1>9, <2>1 DEF MoveReplay
    <2>3. QED
        BY <1>3, <2>2 DEF Replayable
<1>10. QED
    BY <1>8, <1>9

LEMMA MasterFileSetReplays ==
    ASSUME IInv, Chronicle, NEW r \in receipts, NEW i \in DOMAIN rows[r.page],
           Describes(r, i), MasterFileSetGrounds(r)
    PROVE  Replayable(r)
<1>1. /\ r.page \in Pages /\ TimelineLoads(r.page) /\ Recorded(r.page)
      /\ StateAt(r.page, r.row.updated) = r.row /\ HasExactState(r.page, r.row.updated)
    BY Described
<1>2. revisions[r.page][r.row.rev].content = r.content /\ r.etag = ETag(r.page, r.row)
    BY DEF Describes
<1>3. r.key[2] = "master_create" =>
        /\ r.changed /\ r.row.rev = 1
        /\ pages[r.page].created = revisions[r.page][r.row.rev].at
        /\ revisions[r.page][r.row.rev].at = r.stamp
    BY <1>1 DEF MasterFileSetGrounds, Recorded
<1>4. /\ r.row.deleted = NoTime
      /\ r.key[2] \in {"master_create", "master_revise"}
      /\ ~r.changed => r.key[2] = "master_revise" /\ r.audit = 0
    BY DEF MasterFileSetGrounds
<1>5. r.changed =>
        /\ revisions[r.page][r.row.rev].format = "file_set_v1"
        /\ r.row.updated = revisions[r.page][r.row.rev].at
        /\ revisions[r.page][r.row.rev].at >= r.stamp
        /\ revisions[r.page][r.row.rev].sourceAt = r.stamp
        /\ r.audit \in DOMAIN audits
        /\ audits[r.audit] =
              [actor |-> Master, page |-> r.page, at |-> r.stamp,
               action |-> IF r.key[2] = "master_create"
                          THEN "content.page.file_set.create"
                          ELSE "content.page.file_set.revise"]
    BY DEF MasterFileSetGrounds
<1>6. MasterFileSetReplay(r)
    BY <1>1, <1>2, <1>3, <1>4, <1>5 DEF MasterFileSetReplay
<1>7. QED
    BY <1>4, <1>6 DEF Replayable

LEMMA SubstantiatedReplays ==
    ASSUME IInv, Chronicle, DatedAuditsDiffer, NEW r \in receipts, Substantiated(r)
    PROVE  Replayable(r)
<1>1. PICK i \in DOMAIN rows[r.page] : Describes(r, i)
    BY DEF Substantiated
<1>2. CASE \E k \in DOMAIN rows[r.page] :
              LibraryLifecycleGrounds(r, rows[r.page][k]) \/ MoveGrounds(r, rows[r.page][k])
    BY <1>1, <1>2, LibraryLifecycleReplays, MoveReplays
<1>3. CASE \/ ArchiveGrounds(r) \/ FileSetCreateGrounds(r) \/ FileSetAppendGrounds(r)
           \/ CorrectionGrounds(r) \/ LifecycleGrounds(r) \/ MasterFileSetGrounds(r)
    BY <1>1, <1>3, ArchiveReplays, FileSetCreateReplays, FileSetAppendReplays,
       CorrectionReplays, LifecycleReplays, MasterFileSetReplays
<1>4. QED
    BY <1>2, <1>3 DEF Substantiated, Grounds

----------------------------------------------------------------------------
(* The triggers accept every write.                                        *)

\* What the triggers require of the tables of one page.
PageAccepted(p) ==
    /\ HistoryImmutable(p) /\ RevisionInsertAllowed(p)
    /\ IF Exists(p) THEN PageUpdateAllowed(p, pages[p], pages'[p])
       ELSE pages'[p] # NoPage => PageInsertAllowed(pages'[p])

\* References to audits point to audits that were written.
ReferencesPast ==
    /\ \A p \in Pages : \A n \in DOMAIN titles[p] : titles[p][n].audit <= Len(audits)
    /\ \A p \in Pages : \A n \in DOMAIN moves[p] : moves[p][n].audit <= Len(audits)
    /\ \A r \in receipts : r.audit <= Len(audits)

\* The inductive invariant.
TriggerInv ==
    /\ IInv /\ ReferencesPast /\ DatedAuditsPast /\ DatedAuditsDiffer
    /\ Chronicle /\ Ledger /\ \A r \in receipts : Substantiated(r)

LEMMA UndisturbedKept ==
    ASSUME NEW S, NEW old \in Seq(S)
    PROVE  Kept(old, old) /\ Added(old, old) = {}
BY DEF Kept, Added

LEMMA AppendKept ==
    ASSUME NEW S, NEW old \in Seq(S), NEW x
    PROVE  /\ Kept(old, Append(old, x)) /\ Added(old, Append(old, x)) = {Len(old) + 1}
           /\ Append(old, x)[Len(old) + 1] = x /\ Len(Append(old, x)) = Len(old) + 1
<1> DEFINE new == Append(old, x)
<1>1. /\ Len(old) \in Nat /\ DOMAIN old = 1 .. Len(old)
      /\ Len(new) = Len(old) + 1 /\ DOMAIN new = 1 .. Len(old) + 1
      /\ new[Len(old) + 1] = x /\ \A i \in 1 .. Len(old) : new[i] = old[i]
    OBVIOUS
<1>2. QED
    BY <1>1 DEF Kept, Added

LEMMA UndisturbedAccepted ==
    ASSUME TypeOK, NEW p \in Pages, Undisturbed(p)
    PROVE  PageAccepted(p)
<1>1. HistoryImmutable(p)
    BY TablesTyped, UndisturbedKept DEF Undisturbed, HistoryImmutable
<1>2. RevisionInsertAllowed(p)
    BY TablesTyped, UndisturbedKept DEF Undisturbed, RevisionInsertAllowed
<1>3. ASSUME Exists(p)
      PROVE  PageUpdateAllowed(p, pages[p], pages'[p])
    <2>1. pages'[p] = pages[p] /\ pages[p].updated \in Nat
        BY <1>3, ExistingRow DEF Undisturbed, Row, Times
    <2>2. QED
        BY <2>1 DEF PageUpdateAllowed, IdentityStable, RevisionAdvanceAllowed,
            OccurrenceChangeAllowed, LifecycleChangeAllowed, DeletedContentFrozen,
            TitleChangeAllowed, MoveAllowed
<1>4. QED
    BY <1>1, <1>2, <1>3 DEF PageAccepted, Undisturbed, Exists

\* A page is created with its first revision.
LEMMA CreationAccepted ==
    ASSUME IInv, NEW p \in Pages, NEW row \in Row, ~Exists(p),
           row.rev = 1, row.deleted = NoTime, Save(p, row),
           NEW v, revisions' = [revisions EXCEPT ![p] = Append(@, v)],
           UNCHANGED events
    PROVE  \A q \in Pages : PageAccepted(q)
<1>1. TypeOK
    BY DEF IInv
<1>2. \A q \in Pages \ {p} : Undisturbed(q)
    BY <1>1 DEF TypeOK, Undisturbed, Save, events
<1>3. pages'[p] = row /\ revisions'[p] = Append(revisions[p], v)
    BY <1>1 DEF TypeOK, Save
<1>4. HistoryImmutable(p)
    BY <1>1, <1>3, TablesTyped, UndisturbedKept, AppendKept DEF HistoryImmutable, events
<1>5. Added(revisions[p], revisions'[p]) = {1}
    <2>1. revisions[p] \in Seq(RevisionRow) /\ Len(revisions[p]) = 0
        BY <1>1, TablesTyped DEF IInv, HistoryEndsAtPage
    <2>2. Added(revisions[p], revisions'[p]) = {Len(revisions[p]) + 1}
        BY <1>3, <2>1, AppendKept
    <2>3. QED
        BY <2>1, <2>2
<1>6. PageAccepted(p)
    BY <1>3, <1>4, <1>5 DEF PageAccepted, RevisionInsertAllowed, PageInsertAllowed
<1>7. QED
    BY <1>1, <1>2, <1>6, UndisturbedAccepted

\* A page that is not in the Trash gets one more revision.
LEMMA RevisionAccepted ==
    ASSUME IInv, NEW p \in Pages, Exists(p), pages[p].deleted = NoTime,
           NEW t \in Times, t > pages[p].updated,
           NEW row, row = [pages[p] EXCEPT !.rev = @ + 1, !.updated = t],
           Save(p, row),
           NEW v, revisions' = [revisions EXCEPT ![p] = Append(@, v)],
           UNCHANGED events
    PROVE  \A q \in Pages : PageAccepted(q)
<1>1. TypeOK
    BY DEF IInv
<1>2. \A q \in Pages \ {p} : Undisturbed(q)
    BY <1>1 DEF TypeOK, Undisturbed, Save, events
<1>3. /\ pages'[p] = row /\ revisions'[p] = Append(revisions[p], v)
      /\ Len(revisions[p]) = pages[p].rev
    BY <1>1 DEF TypeOK, Save, IInv, HistoryEndsAtPage
<1>4. HistoryImmutable(p)
    BY <1>1, <1>3, TablesTyped, UndisturbedKept, AppendKept DEF HistoryImmutable, events
<1>5. Added(revisions[p], revisions'[p]) = {pages[p].rev + 1}
    <2>1. revisions[p] \in Seq(RevisionRow)
        BY <1>1, TablesTyped
    <2>2. Added(revisions[p], revisions'[p]) = {Len(revisions[p]) + 1}
        BY <1>3, <2>1, AppendKept
    <2>3. QED
        BY <1>3, <2>2
<1>6. /\ row.rev = pages[p].rev + 1 /\ row.updated = t
      /\ row.place = pages[p].place /\ row.title = pages[p].title
      /\ row.occurred = pages[p].occurred /\ row.deleted = pages[p].deleted
      /\ row.created = pages[p].created /\ pages[p].updated \in Nat /\ t \in Nat
    BY <1>1, ExistingRow DEF Row, Times
<1>7. PageUpdateAllowed(p, pages[p], row)
    BY <1>3, <1>5, <1>6 DEF PageUpdateAllowed, IdentityStable, RevisionAdvanceAllowed,
            OccurrenceChangeAllowed, LifecycleChangeAllowed, DeletedContentFrozen,
            TitleChangeAllowed, MoveAllowed
<1>8. PageAccepted(p)
    BY <1>3, <1>4, <1>5, <1>6, <1>7 DEF PageAccepted, RevisionInsertAllowed
<1>9. QED
    BY <1>1, <1>2, <1>8, UndisturbedAccepted

\* The occurrence of a page that is not in the Trash is corrected.
LEMMA CorrectionAccepted ==
    ASSUME IInv, NEW p \in Pages, Exists(p), pages[p].deleted = NoTime,
           NEW t \in Times, t > pages[p].updated, NEW new, NEW audit,
           RecordCorrection(p, new, t, audit),
           audit # 0 => audits'[audit] =
               [actor |-> Master, page |-> p, at |-> t,
                action |-> "content.page.occurrence.correct"],
           UNCHANGED <<revisions, lifecycle, titles, moves>>
    PROVE  \A q \in Pages : PageAccepted(q)
<1> DEFINE row == AfterCorrection(p, new, t)
           e == [old |-> pages[p].occurred, new |-> new, at |-> t,
                 rev |-> pages[p].rev, audit |-> audit]
<1>1. TypeOK
    BY DEF IInv
<1>2. \A q \in Pages \ {p} : Undisturbed(q)
    BY <1>1 DEF TypeOK, Undisturbed, Save, RecordCorrection
<1>3. /\ pages'[p] = row /\ corrections'[p] = Append(corrections[p], e)
      /\ corrections[p] \in Seq(CorrectionRow)
    BY <1>1 DEF TypeOK, Save, RecordCorrection
<1>4. /\ row.rev = pages[p].rev /\ row.updated = t
      /\ row.place = pages[p].place /\ row.title = pages[p].title
      /\ row.occurred = new /\ row.deleted = pages[p].deleted
      /\ row.created = pages[p].created /\ pages[p].updated \in Nat /\ t \in Nat
      /\ row = [pages[p] EXCEPT !.occurred = row.occurred, !.updated = row.updated]
    BY <1>1, ExistingRow DEF Row, Times, AfterCorrection
<1> HIDE DEF row, e
<1>5. /\ Added(corrections[p], corrections'[p]) = {Len(corrections[p]) + 1}
      /\ corrections'[p][Len(corrections[p]) + 1] = e
    BY <1>3, AppendKept
<1>6. HistoryImmutable(p)
    BY <1>1, <1>3, TablesTyped, UndisturbedKept, AppendKept DEF HistoryImmutable
<1>7. OccurrenceChangeAllowed(p, pages[p], row)
    <2>1. /\ e.old = pages[p].occurred /\ e.new = new /\ e.at = t
          /\ e.rev = pages[p].rev /\ e.audit = audit
        BY DEF e
    <2>2. QED
        BY <1>4, <1>5, <2>1 DEF OccurrenceChangeAllowed
<1>8. RevisionInsertAllowed(p)
    BY <1>1, TablesTyped, UndisturbedKept DEF RevisionInsertAllowed
<1>9. PageUpdateAllowed(p, pages[p], row)
    BY <1>4, <1>7 DEF PageUpdateAllowed, IdentityStable, RevisionAdvanceAllowed,
            LifecycleChangeAllowed, DeletedContentFrozen, TitleChangeAllowed, MoveAllowed
<1>10. PageAccepted(p)
    BY <1>3, <1>6, <1>8, <1>9 DEF PageAccepted
<1>11. QED
    BY <1>1, <1>2, <1>10, UndisturbedAccepted

\* A page goes to the Trash or comes back.
LEMMA LifecycleAccepted ==
    ASSUME IInv, NEW p \in Pages, Exists(p), NEW t \in Times, t > pages[p].updated,
           NEW action \in {"delete", "restore"}, NEW actor, NEW audit,
           RecordLifecycle(p, action, actor, t, audit),
           audit # 0 => audits'[audit] =
               [actor |-> Master, page |-> p, at |-> t, action |-> ArchiveAudit[action]],
           UNCHANGED <<revisions, corrections, titles, moves>>
    PROVE  \A q \in Pages : PageAccepted(q)
<1> DEFINE row == AfterLifecycle(p, action, t)
           e == [action |-> action, section |-> Section(pages[p].place),
                 oldDeleted |-> pages[p].deleted, oldUpdated |-> pages[p].updated,
                 at |-> t, rev |-> pages[p].rev, occurred |-> pages[p].occurred,
                 actor |-> actor, audit |-> audit]
<1>1. TypeOK
    BY DEF IInv
<1>2. \A q \in Pages \ {p} : Undisturbed(q)
    BY <1>1 DEF TypeOK, Undisturbed, Save, RecordLifecycle
<1>3. /\ pages'[p] = row /\ lifecycle'[p] = Append(lifecycle[p], e)
      /\ lifecycle[p] \in Seq(LifecycleRow)
    BY <1>1 DEF TypeOK, Save, RecordLifecycle
<1>4. /\ row.rev = pages[p].rev /\ row.updated = t
      /\ row.place = pages[p].place /\ row.title = pages[p].title
      /\ row.occurred = pages[p].occurred
      /\ row.deleted = IF action = "delete" THEN t ELSE NoTime
      /\ row.created = pages[p].created /\ pages[p].updated \in Nat /\ t \in Nat
      /\ row = [pages[p] EXCEPT !.deleted = row.deleted, !.updated = row.updated]
    BY <1>1, ExistingRow DEF Row, Times, AfterLifecycle
<1> HIDE DEF row, e
<1>5. /\ Added(lifecycle[p], lifecycle'[p]) = {Len(lifecycle[p]) + 1}
      /\ lifecycle'[p][Len(lifecycle[p]) + 1] = e
    BY <1>3, AppendKept
<1>6. HistoryImmutable(p)
    BY <1>1, <1>3, TablesTyped, UndisturbedKept, AppendKept DEF HistoryImmutable
<1>7. LifecycleChangeAllowed(p, pages[p], row)
    <2>1. /\ e.action = action /\ e.section = Section(pages[p].place)
          /\ e.oldDeleted = pages[p].deleted /\ e.oldUpdated = pages[p].updated
          /\ e.at = t /\ e.rev = pages[p].rev /\ e.occurred = pages[p].occurred
          /\ e.audit = audit
        BY DEF e
    <2>2. QED
        BY <1>4, <1>5, <2>1 DEF LifecycleChangeAllowed
<1>8. RevisionInsertAllowed(p)
    BY <1>1, TablesTyped, UndisturbedKept DEF RevisionInsertAllowed
<1>9. PageUpdateAllowed(p, pages[p], row)
    BY <1>4, <1>7 DEF PageUpdateAllowed, IdentityStable, RevisionAdvanceAllowed,
            OccurrenceChangeAllowed, DeletedContentFrozen, TitleChangeAllowed, MoveAllowed
<1>10. PageAccepted(p)
    BY <1>3, <1>6, <1>8, <1>9 DEF PageAccepted
<1>11. QED
    BY <1>1, <1>2, <1>10, UndisturbedAccepted

\* The administrator changes a title.  The clock of the page is past every title
\* edit of it, so the new audit is the only one with its time.
LEMMA TitleAccepted ==
    ASSUME TriggerInv, NEW p \in Pages, Active(p), NEW t \in Times, t > pages[p].updated,
           NEW title, Save(p, AfterTitle(p, title, t)),
           Audit(Master, "content.page.title.edit", p, t),
           NEW e, titles' = [titles EXCEPT ![p] = Append(@, e)],
           UNCHANGED <<revisions, corrections, lifecycle, moves>>
    PROVE  \A q \in Pages : PageAccepted(q)
<1> DEFINE row == AfterTitle(p, title, t)
           a == [actor |-> Master, page |-> p, at |-> t,
                 action |-> "content.page.title.edit"]
<1>1. TypeOK /\ Exists(p) /\ pages[p].deleted = NoTime
    BY DEF TriggerInv, IInv, Active
<1>2. \A q \in Pages \ {p} : Undisturbed(q)
    BY <1>1 DEF TypeOK, Undisturbed, Save
<1>3. pages'[p] = row /\ titles'[p] = Append(titles[p], e) /\ titles[p] \in Seq(TitleRow)
    BY <1>1 DEF TypeOK, Save
<1>4. HistoryImmutable(p)
    BY <1>1, <1>3, TablesTyped, UndisturbedKept, AppendKept DEF HistoryImmutable
<1>5. /\ row.rev = pages[p].rev /\ row.updated = t
      /\ row.place = pages[p].place /\ row.title = title
      /\ row.occurred = pages[p].occurred /\ row.deleted = pages[p].deleted
      /\ row.created = pages[p].created
      /\ row = [pages[p] EXCEPT !.title = row.title, !.updated = row.updated]
      /\ pages[p].updated \in Nat /\ t \in Nat
    BY <1>1, ExistingRow DEF Row, Times, AfterTitle
<1>6. /\ a \in AuditRow /\ audits' = Append(audits, a)
      /\ a.page = p /\ a.at = t
    BY DEF AuditRow, AuditActions, Actors, Audit
<1> HIDE DEF row, a
<1>7. /\ DOMAIN audits' = DOMAIN audits \cup {NextAudit} /\ audits'[NextAudit] = a
      /\ \A i \in DOMAIN audits : audits'[i] = audits[i]
      /\ Len(audits) \in Nat /\ NextAudit = Len(audits) + 1
    BY <1>1, <1>6, AuditAdded DEF NextAudit
<1> DEFINE unused == {i \in DOMAIN audits' :
                        /\ audits'[i] = [actor |-> Master, page |-> p, at |-> row.updated,
                                         action |-> "content.page.title.edit"]
                        /\ \A n \in DOMAIN titles[p] : titles[p][n].audit # i}
<1>8. unused = {NextAudit}
    <2>1. a = [actor |-> Master, page |-> p, at |-> row.updated,
               action |-> "content.page.title.edit"]
        BY <1>5 DEF a
    <2>2. \A n \in DOMAIN titles[p] : titles[p][n].audit # NextAudit
        <3> SUFFICES ASSUME NEW n \in DOMAIN titles[p]
                     PROVE  titles[p][n].audit # NextAudit
            OBVIOUS
        <3>1. titles[p][n] \in TitleRow
            BY <1>3
        <3>2. titles[p][n].audit <= Len(audits) /\ titles[p][n].audit \in Nat
            BY <3>1 DEF TitleRow, TriggerInv, ReferencesPast
        <3>3. QED
            BY <1>7, <3>2
    <2>3. \A i \in DOMAIN audits : audits[i] # a
        <3> SUFFICES ASSUME NEW i \in DOMAIN audits, audits[i] = a
                     PROVE  FALSE
            OBVIOUS
        <3>1. a.action = "content.page.title.edit"
            BY DEF a
        <3>2. a.at <= pages[a.page].updated
            BY <3>1 DEF TriggerInv, DatedAuditsPast, DatedAudits
        <3>3. QED
            BY <1>5, <1>6, <3>2
    <2>4. QED
        BY <1>7, <2>1, <2>2, <2>3
<1>9. TitleChangeAllowed(p, pages[p], row)
    <2>1. Cardinality(unused) = 1
        BY <1>8, FS_Singleton
    <2>2. QED
        BY <1>1, <1>5, <2>1 DEF TitleChangeAllowed
<1>10. RevisionInsertAllowed(p)
    BY <1>1, TablesTyped, UndisturbedKept DEF RevisionInsertAllowed
<1>11. PageUpdateAllowed(p, pages[p], row)
    BY <1>5, <1>9 DEF PageUpdateAllowed, IdentityStable, RevisionAdvanceAllowed,
            OccurrenceChangeAllowed, LifecycleChangeAllowed, DeletedContentFrozen, MoveAllowed
<1>12. PageAccepted(p)
    BY <1>1, <1>3, <1>4, <1>10, <1>11 DEF PageAccepted
<1>13. QED
    BY <1>1, <1>2, <1>12, UndisturbedAccepted

\* A page moves to another Book.  No earlier event names the new audit.
LEMMA MoveAccepted ==
    ASSUME TriggerInv, NEW p \in Pages, Active(p), NEW t \in Times, t > pages[p].updated,
           NEW target, Save(p, AfterMove(p, target, t)),
           NEW actor \in Actors, Audit(actor, "content.page.move", p, t),
           moves' = [moves EXCEPT ![p] = Append(@, MoveEvent(p, target, t))],
           UNCHANGED <<revisions, corrections, lifecycle, titles>>
    PROVE  /\ \A q \in Pages : PageAccepted(q)
           /\ moves'[p][Len(moves'[p])] = MoveEvent(p, target, t)
<1> DEFINE row == AfterMove(p, target, t)
           e == MoveEvent(p, target, t)
           a == [actor |-> actor, action |-> "content.page.move", page |-> p, at |-> t]
<1>1. TypeOK /\ Exists(p) /\ pages[p].deleted = NoTime
    BY DEF TriggerInv, IInv, Active
<1>2. \A q \in Pages \ {p} : Undisturbed(q)
    BY <1>1 DEF TypeOK, Undisturbed, Save
<1>3. pages'[p] = row /\ moves'[p] = Append(moves[p], e) /\ moves[p] \in Seq(MoveRow)
    BY <1>1 DEF TypeOK, Save
<1>4. HistoryImmutable(p)
    BY <1>1, <1>3, TablesTyped, UndisturbedKept, AppendKept DEF HistoryImmutable
<1>5. /\ row.rev = pages[p].rev /\ row.updated = t
      /\ row.place = target /\ row.title = pages[p].title
      /\ row.occurred = pages[p].occurred /\ row.deleted = pages[p].deleted
      /\ row.created = pages[p].created
      /\ row = [pages[p] EXCEPT !.place = row.place, !.updated = row.updated]
      /\ pages[p].updated \in Nat /\ t \in Nat
    BY <1>1, ExistingRow DEF Row, Times, AfterMove
<1>6. /\ a \in AuditRow /\ audits' = Append(audits, a)
      /\ a.page = p /\ a.at = t /\ a.action = "content.page.move"
    BY DEF AuditRow, AuditActions, Audit
<1>7. /\ e.old = pages[p].place /\ e.new = target /\ e.oldUpdated = pages[p].updated
      /\ e.at = t /\ e.rev = pages[p].rev /\ e.occurred = pages[p].occurred
      /\ e.audit = NextAudit
    BY DEF MoveEvent
<1> HIDE DEF row, a, e
<1>8. /\ audits'[NextAudit] = a /\ Len(audits) \in Nat /\ NextAudit = Len(audits) + 1
    BY <1>1, <1>6, AuditAdded DEF NextAudit
<1>9. /\ Added(moves[p], moves'[p]) = {Len(moves[p]) + 1}
      /\ moves'[p][Len(moves[p]) + 1] = e /\ Len(moves'[p]) = Len(moves[p]) + 1
    BY <1>3, AppendKept
<1>10. \A q \in Pages : \A m \in DOMAIN moves[q] : moves[q][m].audit # NextAudit
    <2> SUFFICES ASSUME NEW q \in Pages, NEW m \in DOMAIN moves[q]
                 PROVE  moves[q][m].audit # NextAudit
        OBVIOUS
    <2>1. moves[q][m] \in MoveRow
        BY <1>1 DEF TypeOK
    <2>2. moves[q][m].audit <= Len(audits) /\ moves[q][m].audit \in Nat
        BY <2>1 DEF MoveRow, TriggerInv, ReferencesPast
    <2>3. QED
        BY <1>8, <2>2
<1>11. MoveAllowed(p, pages[p], row)
    <2> DEFINE n == Len(moves[p]) + 1
    <2>1. n \in Added(moves[p], moves'[p]) /\ moves'[p][n] = e
        BY <1>9
    <2>2. /\ e.old = pages[p].place /\ e.new = row.place
          /\ e.oldUpdated = pages[p].updated /\ e.at = row.updated
          /\ e.rev = pages[p].rev /\ e.occurred = pages[p].occurred
        BY <1>5, <1>7
    <2>3. /\ audits'[e.audit].action = "content.page.move"
          /\ audits'[e.audit].page = p /\ audits'[e.audit].at = e.at
        BY <1>6, <1>7, <1>8
    <2>4. \A q \in Pages : \A m \in DOMAIN moves[q] : moves[q][m].audit # e.audit
        BY <1>7, <1>10
    <2>5. QED
        BY <1>1, <1>5, <2>1, <2>2, <2>3, <2>4 DEF MoveAllowed
<1>12. RevisionInsertAllowed(p)
    BY <1>1, TablesTyped, UndisturbedKept DEF RevisionInsertAllowed
<1>13. PageUpdateAllowed(p, pages[p], row)
    BY <1>5, <1>11 DEF PageUpdateAllowed, IdentityStable, RevisionAdvanceAllowed,
            OccurrenceChangeAllowed, LifecycleChangeAllowed, DeletedContentFrozen,
            TitleChangeAllowed
<1>14. PageAccepted(p)
    BY <1>1, <1>3, <1>4, <1>12, <1>13 DEF PageAccepted
<1>15. QED
    BY <1>1, <1>2, <1>9, <1>14, UndisturbedAccepted DEF e

----------------------------------------------------------------------------
(* What every action adds to audits, receipts and events.                  *)

\* The clock of p advances to at, or beyond it.
Dates(p, at) ==
    /\ Exists(p) /\ pages[p].updated < at
    /\ pages'[p] # NoPage /\ at <= pages'[p].updated

AuditsAdded ==
    \/ UNCHANGED audits
    \/ \E a \in AuditRow :
          /\ audits' = Append(audits, a)
          /\ a.action \in DatedAudits => Dates(a.page, a.at)

ReceiptsAllowed ==
    /\ receipts \subseteq receipts' /\ (IsFiniteSet(receipts) => IsFiniteSet(receipts'))
    /\ \A r \in receipts' \ receipts :
          MoveReceiptAllowed(r) /\ r.audit <= Len(audits') /\ Substantiated(r)'

EventsReferenced ==
    \A q \in Pages :
        /\ \A n \in Added(titles[q], titles'[q]) : titles'[q][n].audit <= Len(audits')
        /\ \A n \in Added(moves[q], moves'[q]) : moves'[q][n].audit <= Len(audits')

\* The rows that a table gains.
NewRows(old, new) == {new[n] : n \in Added(old, new)}

EventsEntered ==
    \A q \in Pages :
        /\ \A e \in NewRows(corrections[q], corrections'[q]) : CorrectionBooked(q, e)'
        /\ \A e \in NewRows(lifecycle[q], lifecycle'[q]) : LifecycleBooked(q, e)'
        /\ \A e \in NewRows(titles[q], titles'[q]) : TitleBooked(q, e)'
        /\ \A e \in NewRows(moves[q], moves'[q]) : MoveBooked(q, e)'

AuditsEntered ==
    \A i \in DOMAIN audits' : i \notin DOMAIN audits =>
        \A a : a = audits'[i] => AuditBooked(a, i)'

\* What is shown of every action.
Allowed ==
    /\ \A q \in Pages : PageAccepted(q) /\ Chronicled(q)
    /\ ReceiptsAllowed /\ AuditsAdded /\ EventsReferenced
    /\ EventsEntered /\ AuditsEntered

\* The audit a handler writes is the next one.
LEMMA AuditWritten ==
    ASSUME TypeOK, NEW actor \in Actors, NEW action \in AuditActions, NEW p \in Pages,
           NEW at \in Times, action \in DatedAudits => Dates(p, at),
           Audit(actor, action, p, at)
    PROVE  /\ AuditsAdded /\ Len(audits') = NextAudit /\ NextAudit \in Nat
           /\ NextAudit <= Len(audits') /\ NextAudit \in DOMAIN audits'
           /\ audits'[NextAudit] = [actor |-> actor, action |-> action,
                                    page |-> p, at |-> at]
<1>1. PICK a : a = [actor |-> actor, action |-> action, page |-> p, at |-> at]
    OBVIOUS
<1>2. a \in AuditRow /\ a.action = action /\ a.page = p /\ a.at = at
    BY <1>1 DEF AuditRow
<1>3. audits' = Append(audits, a)
    BY <1>1 DEF Audit
<1>4. NextAudit \in DOMAIN audits' /\ audits'[NextAudit] = a
    BY <1>2, <1>3, AuditAdded
<1>5. Len(audits') = NextAudit /\ NextAudit \in Nat
    BY <1>2, <1>3 DEF TypeOK, NextAudit
<1>6. AuditsAdded
    BY <1>2, <1>3 DEF AuditsAdded
<1>7. QED
    BY <1>1, <1>4, <1>5, <1>6

LEMMA DatedNames ==
    /\ "content.archive.create" \notin DatedAudits
    /\ "content.page.file_set.create" \notin DatedAudits
    /\ "content.archive.revise" \notin DatedAudits
    /\ "content.page.file_set.revise" \notin DatedAudits
BY DEF DatedAudits

\* The row that a step writes dates its page.
LEMMA RowDates ==
    ASSUME TypeOK, NEW p \in Pages, Exists(p), NEW row \in Row, Save(p, row),
           NEW t \in Times, row.updated = t, t > pages[p].updated
    PROVE  Dates(p, t)
<1>1. pages[p] \in Row /\ pages'[p] = row /\ row # NoPage
    BY ExistingRow, ConstantsAssumption DEF TypeOK, Save
<1>2. QED
    BY <1>1, ConstantsAssumption DEF Dates, Row, Times

\* The audit that a step writes has its event or its receipt.
LEMMA AuditEntered ==
    ASSUME TypeOK, NEW actor, NEW action, NEW p, NEW at, Audit(actor, action, p, at),
           NEW id, id = NextAudit,
           NEW a, a = [actor |-> actor, action |-> action, page |-> p, at |-> at],
           AuditBooked(a, id)'
    PROVE  AuditsEntered
<1>1. audits' = Append(audits, a) /\ audits \in Seq(AuditRow) /\ id = Len(audits) + 1
    BY DEF Audit, TypeOK, NextAudit
<1>2. /\ audits'[id] = a
      /\ \A i \in DOMAIN audits' : i \in DOMAIN audits \/ i = id
    BY <1>1
<1>3. QED
    BY <1>2 DEF AuditsEntered

\* A table grows by the row that is appended to it.
LEMMA OnlyNewRow ==
    ASSUME NEW S, NEW old \in Seq(S), NEW e
    PROVE  NewRows(old, Append(old, e)) = {e}
<1>1. Added(old, Append(old, e)) = {Len(old) + 1} /\ Append(old, e)[Len(old) + 1] = e
    BY AppendKept
<1>2. QED
    BY <1>1 DEF NewRows

LEMMA NoNewRow == \A table : NewRows(table, table) = {}
BY DEF NewRows, Added

\* The events of a step that writes none, and of one that writes e.
LEMMA NothingEntered ==
    ASSUME UNCHANGED events
    PROVE  EventsEntered
BY NoNewRow DEF EventsEntered, events

LEMMA CorrectionEntered ==
    ASSUME TypeOK, NEW p \in Pages, NEW e, CorrectionBooked(p, e)',
           corrections' = [corrections EXCEPT ![p] = Append(@, e)],
           UNCHANGED <<lifecycle, titles, moves>>
    PROVE  EventsEntered
<1>1. /\ corrections[p] \in Seq(CorrectionRow) /\ corrections'[p] = Append(corrections[p], e)
      /\ \A q \in Pages \ {p} : corrections'[q] = corrections[q]
    BY DEF TypeOK
<1>2. /\ NewRows(corrections[p], corrections'[p]) = {e}
      /\ \A q \in Pages \ {p} : NewRows(corrections[q], corrections'[q]) = {}
    BY <1>1, OnlyNewRow, NoNewRow
<1>3. QED
    BY <1>2, NoNewRow DEF EventsEntered

LEMMA LifecycleEntered ==
    ASSUME TypeOK, NEW p \in Pages, NEW e, LifecycleBooked(p, e)',
           lifecycle' = [lifecycle EXCEPT ![p] = Append(@, e)],
           UNCHANGED <<corrections, titles, moves>>
    PROVE  EventsEntered
<1>1. /\ lifecycle[p] \in Seq(LifecycleRow) /\ lifecycle'[p] = Append(lifecycle[p], e)
      /\ \A q \in Pages \ {p} : lifecycle'[q] = lifecycle[q]
    BY DEF TypeOK
<1>2. /\ NewRows(lifecycle[p], lifecycle'[p]) = {e}
      /\ \A q \in Pages \ {p} : NewRows(lifecycle[q], lifecycle'[q]) = {}
    BY <1>1, OnlyNewRow, NoNewRow
<1>3. QED
    BY <1>2, NoNewRow DEF EventsEntered

LEMMA TitleEntered ==
    ASSUME TypeOK, NEW p \in Pages, NEW e, TitleBooked(p, e)',
           titles' = [titles EXCEPT ![p] = Append(@, e)],
           UNCHANGED <<corrections, lifecycle, moves>>
    PROVE  EventsEntered
<1>1. /\ titles[p] \in Seq(TitleRow) /\ titles'[p] = Append(titles[p], e)
      /\ \A q \in Pages \ {p} : titles'[q] = titles[q]
    BY DEF TypeOK
<1>2. /\ NewRows(titles[p], titles'[p]) = {e}
      /\ \A q \in Pages \ {p} : NewRows(titles[q], titles'[q]) = {}
    BY <1>1, OnlyNewRow, NoNewRow
<1>3. QED
    BY <1>2, NoNewRow DEF EventsEntered

LEMMA MoveEntered ==
    ASSUME TypeOK, NEW p \in Pages, NEW e, MoveBooked(p, e)',
           moves' = [moves EXCEPT ![p] = Append(@, e)],
           UNCHANGED <<corrections, lifecycle, titles>>
    PROVE  EventsEntered
<1>1. /\ moves[p] \in Seq(MoveRow) /\ moves'[p] = Append(moves[p], e)
      /\ \A q \in Pages \ {p} : moves'[q] = moves[q]
    BY DEF TypeOK
<1>2. /\ NewRows(moves[p], moves'[p]) = {e}
      /\ \A q \in Pages \ {p} : NewRows(moves[q], moves'[q]) = {}
    BY <1>1, OnlyNewRow, NoNewRow
<1>3. QED
    BY <1>2, NoNewRow DEF EventsEntered

\* The row that is appended to a table names its audit.
LEMMA NamedByLast ==
    ASSUME NEW S, NEW old \in Seq(S), NEW e
    PROVE  NamedBy(Append(old, e), e.audit)
<1>1. /\ Len(old) + 1 \in DOMAIN Append(old, e)
      /\ Append(old, e)[Len(old) + 1] = e
    OBVIOUS
<1>2. QED
    BY <1>1 DEF NamedBy

\* The receipt of any other route than the administrator's move.
LEMMA OrdinaryReceipt ==
    ASSUME NEW r, receipts' = receipts \cup {r}, r.key[2] # "master_move",
           r.audit <= Len(audits'), Substantiated(r)'
    PROVE  ReceiptsAllowed
BY FS_AddElement DEF ReceiptsAllowed, MoveReceiptAllowed

LEMMA SameReceipts == UNCHANGED receipts => ReceiptsAllowed
BY DEF ReceiptsAllowed

LEMMA SameEvents ==
    ASSUME UNCHANGED <<titles, moves>>
    PROVE  EventsReferenced
BY DEF EventsReferenced, Added

\* A step that adds no row to a page.
LEMMA NoRowAccepted ==
    ASSUME TypeOK, UNCHANGED <<pages, rows, revisions, events, audits>>
    PROVE  /\ \A q \in Pages : PageAccepted(q) /\ Chronicled(q)
           /\ AuditsAdded /\ EventsReferenced /\ EventsEntered /\ AuditsEntered
<1>1. \A q \in Pages : Undisturbed(q) /\ rows'[q] = rows[q]
    BY DEF Undisturbed, events
<1>2. EventsEntered /\ AuditsEntered
    BY NothingEntered DEF AuditsEntered
<1>3. QED
    BY <1>1, <1>2, UndisturbedAccepted, SameEvents DEF AuditsAdded, Chronicled, events

\* The row that a step writes, and the one it is written after, are rows of the
\* page from then on.
LEMMA RowWritten ==
    ASSUME IInv, NEW p \in Pages, NEW row \in Row, Save(p, row)
    PROVE  /\ \E i \in DOMAIN rows'[p] : rows'[p][i] = row
           /\ \A b : Exists(p) /\ b = pages[p] => \E i \in DOMAIN rows'[p] : rows'[p][i] = b
<1>1. TypeOK
    BY DEF IInv
<1>2. \E i \in DOMAIN rows'[p] : rows'[p][i] = row
    BY <1>1, SaveRows
<1>3. ASSUME Exists(p)
      PROVE  \E i \in DOMAIN rows'[p] : rows'[p][i] = pages[p]
    <2>1. Len(rows[p]) \in DOMAIN rows[p] /\ rows[p][Len(rows[p])] = pages[p]
        BY <1>1, <1>3 DEF IInv, TypeOK, HistoryEndsAtPage
    <2>2. QED
        BY <1>1, <2>1, SaveRows
<1>4. QED
    BY <1>2, <1>3

\* A receipt for the row that a step writes, of the revision it has then.
LEMMA RowDescribed ==
    ASSUME IInv, NEW p \in Pages, NEW row \in Row, Save(p, row),
           NEW r, r.page = p, r.row = row, r.etag = ETag(p, row),
           row.rev \in DOMAIN revisions'[p], revisions'[p][row.rev].content = r.content
    PROVE  \E i \in DOMAIN rows'[r.page] : Describes(r, i)'
BY RowWritten DEF Describes, ETag

\* A receipt for the row that the page has.
LEMMA CurrentDescribed ==
    ASSUME IInv, NEW p \in Pages, Exists(p), UNCHANGED <<pages, rows, revisions>>,
           NEW r, r.page = p, r.row = pages[p], r.etag = ETag(p, pages[p]),
           CurrentRevision(p).content = r.content
    PROVE  /\ \E i \in DOMAIN rows'[r.page] : Describes(r, i)'
           /\ \E i \in DOMAIN rows'[r.page] : rows'[r.page][i] = r.row
<1>1. TypeOK /\ pages[p] \in Row
    BY ExistingRow DEF IInv
<1>2. Len(rows[p]) \in DOMAIN rows[p] /\ rows[p][Len(rows[p])] = pages[p]
    BY <1>1 DEF IInv, TypeOK, HistoryEndsAtPage
<1>3. pages[p].rev \in DOMAIN revisions[p]
    BY <1>1, TablesTyped, ConstantsAssumption DEF IInv, HistoryEndsAtPage, Row
<1>4. QED
    BY <1>2, <1>3 DEF Describes, ETag, CurrentRevision

\* An event changes neither the revisions nor the revision of the page.
LEMMA EventDescribed ==
    ASSUME IInv, NEW p \in Pages, Exists(p), NEW row \in Row, Save(p, row),
           row.rev = pages[p].rev, UNCHANGED revisions,
           NEW r, r.page = p, r.row = row, r.etag = ETag(p, row),
           CurrentRevision(p).content = r.content
    PROVE  \E i \in DOMAIN rows'[r.page] : Describes(r, i)'
<1>1. TypeOK /\ pages[p] \in Row
    BY ExistingRow DEF IInv
<1>2. pages[p].rev \in DOMAIN revisions[p]
    BY <1>1, TablesTyped, ConstantsAssumption DEF IInv, HistoryEndsAtPage, Row
<1>3. QED
    BY <1>2, RowDescribed DEF CurrentRevision

Adds(p, v) == revisions' = [revisions EXCEPT ![p] = Append(@, v)]

\* The revision that a step adds is the last one.
LEMMA RevisionAdded ==
    ASSUME IInv, NEW p \in Pages, NEW v, Adds(p, v),
           NEW n, n = IF Exists(p) THEN pages[p].rev + 1 ELSE 1
    PROVE  n \in DOMAIN revisions'[p] /\ revisions'[p][n] = v
<1>1. /\ revisions[p] \in Seq(RevisionRow) /\ revisions'[p] = Append(revisions[p], v)
      /\ n = Len(revisions[p]) + 1
    BY TablesTyped DEF IInv, TypeOK, HistoryEndsAtPage, Adds
<1>2. QED
    BY <1>1

\* The routes that create a page.
Creates(actor, op, format, action) ==
    \/ op = "archive_create" /\ action = "content.archive.create"
    \/ /\ op = "file_set_create" /\ actor # Master /\ format = "file_set_v1"
       /\ action = "content.page.file_set.create"
    \/ /\ op = "master_create" /\ actor = Master /\ format = "file_set_v1"
       /\ action = "content.page.file_set.create"

LEMMA CreatePageAllowed ==
    ASSUME TriggerInv, NEW actor \in Actors, NEW op, NEW key,
           NEW format, NEW action \in AuditActions, Creates(actor, op, format, action),
           CreatePage(actor, op, key, format, action)
    PROVE  Allowed
<1>1. PICK p \in Pages, place \in Places, title \in Titles, content \in Contents,
           declared \in Occurrences \cup {NoTime}, now \in Clocks :
        CreatePage(actor, op, key, format, action)!(p, place, title, content,
                                                    declared, now)
    BY DEF CreatePage
<1> DEFINE written == [place |-> place, title |-> title,
                       occurred |-> IF declared = NoTime THEN now ELSE declared,
                       deleted |-> NoTime, created |-> now, updated |-> now,
                       rev |-> 1]
           request == [page |-> NoPage, section |-> Section(place),
                       etag |-> NoETag,
                       arg |-> <<place, title, declared, content>>]
<1>2. PICK row : row = written
    OBVIOUS
<1>3. PICK v : v = [at |-> now, format |-> format, content |-> content, sourceAt |-> now]
    OBVIOUS
<1>4. PICK r : r = [key |-> <<actor, op, key>>, request |-> request, page |-> p,
                    row |-> row, etag |-> ETag(p, row), before |-> now, stamp |-> now,
                    changed |-> TRUE, content |-> content, audit |-> NextAudit]
    OBVIOUS
<1>5. /\ row \in Row /\ now \in Times /\ row.rev = 1 /\ row.deleted = NoTime
      /\ row.created = now /\ row.updated = now /\ row.place = place /\ row.title = title
    BY <1>2, ConstantsAssumption DEF Row, Times, NoTime
<1>6. /\ ~Exists(p) /\ Save(p, row) /\ Audit(actor, action, p, now)
      /\ receipts' = receipts \cup {r}
      /\ revisions' = [revisions EXCEPT ![p] = Append(@, v)] /\ Adds(p, v)
      /\ UNCHANGED events
    BY <1>1, <1>2, <1>3, <1>4 DEF AddRevision, Respond, Adds
<1>7. /\ r.key = <<actor, op, key>> /\ r.key[1] = actor /\ r.key[2] = op /\ r.page = p /\ r.row = row /\ r.etag = ETag(p, row)
      /\ r.stamp = now /\ r.changed /\ r.content = content /\ r.audit = NextAudit
      /\ r.request.section = Section(place)
      /\ r.request.arg = <<place, title, declared, content>>
    BY <1>4
<1>8. /\ v.at = now /\ v.format = format /\ v.content = content /\ v.sourceAt = now
    BY <1>3
<1> HIDE DEF written, request
<1>9. IInv /\ TypeOK /\ Chronicle
    BY DEF TriggerInv, IInv
<1>10. \A q \in Pages : PageAccepted(q) /\ Chronicled(q)
    BY <1>5, <1>6, <1>8, <1>9, CreationAccepted, CreationChronicled
<1>11. action \notin DatedAudits
    BY DatedNames DEF Creates
<1>12. /\ AuditsAdded /\ NextAudit <= Len(audits') /\ NextAudit \in DOMAIN audits'
       /\ audits'[NextAudit] = [actor |-> actor, action |-> action, page |-> p, at |-> now]
    BY <1>5, <1>6, <1>9, <1>11, AuditWritten
<1>13. 1 \in DOMAIN revisions'[p] /\ revisions'[p][1] = v
    BY <1>6, <1>9, RevisionAdded
<1>14. \E i \in DOMAIN rows'[r.page] : Describes(r, i)'
    BY <1>5, <1>6, <1>7, <1>8, <1>9, <1>13, RowDescribed
<1>15. Grounds(r)'
    <2>1. CASE op = "archive_create"
        BY <1>5, <1>7, <1>8, <1>13, <2>1 DEF Grounds, ArchiveGrounds, InSection
    <2>2. CASE /\ op = "file_set_create" /\ actor # Master /\ format = "file_set_v1"
               /\ action = "content.page.file_set.create"
        <3>1. FileSetRevision(r, "content.page.file_set.create")'
            BY <1>5, <1>7, <1>8, <1>12, <1>13, <2>2 DEF FileSetRevision, Certified, Times
        <3>2. QED
            BY <1>5, <1>7, <2>2, <3>1 DEF Grounds, FileSetCreateGrounds, InSection
    <2>3. CASE /\ op = "master_create" /\ actor = Master /\ format = "file_set_v1"
               /\ action = "content.page.file_set.create"
        BY <1>5, <1>7, <1>8, <1>12, <1>13, <2>3 DEF Grounds, MasterFileSetGrounds, Times
    <2>4. QED
        BY <2>1, <2>2, <2>3 DEF Creates
<1>16. r.key[2] # "master_move"
    BY <1>7 DEF Creates
<1>17. ReceiptsAllowed
    BY <1>6, <1>7, <1>12, <1>14, <1>15, <1>16, OrdinaryReceipt DEF Substantiated
<1>18. EventsReferenced
    BY <1>6, SameEvents DEF events
<1>19. EventsEntered
    BY <1>6, NothingEntered
<1>20. AuditsEntered
    <2>1. PICK id, a : /\ id = NextAudit
                       /\ a = [actor |-> actor, action |-> action, page |-> p, at |-> now]
        OBVIOUS
    <2>2. AuditBooked(a, id)'
        BY <1>6, <1>7, <2>1 DEF AuditBooked, Creates
    <2>3. QED
        BY <1>6, <1>9, <2>1, <2>2, AuditEntered
<1>21. QED
    BY <1>10, <1>12, <1>17, <1>18, <1>19, <1>20 DEF Allowed

\* The row that an append writes.
AfterRevision(p, t) == [pages[p] EXCEPT !.rev = @ + 1, !.updated = t]

\* What an append leaves behind: the row, its revision v and its audit.
Appended(p, row, v, t, now, actor, action) ==
    /\ row \in Row /\ row.updated = t /\ row.rev \in DOMAIN revisions'[p]
    /\ row.deleted = NoTime /\ row.place = pages[p].place
    /\ revisions'[p][row.rev] = v /\ t >= now
    /\ NextAudit \in DOMAIN audits'
    /\ audits'[NextAudit] = [actor |-> actor, action |-> action, page |-> p, at |-> now]

\* The tables after an append, with the receipt r.
LEMMA AppendAllowed ==
    ASSUME TriggerInv, NEW p \in Pages, Exists(p), pages[p].deleted = NoTime,
           NEW now \in Clocks, NEW t, t = LogicalTime(pages[p], now), Representable(t),
           pages[p].rev < MaxRevision,
           NEW row, row = AfterRevision(p, t), Save(p, row),
           NEW v, v.at = t, Adds(p, v),
           UNCHANGED events,
           NEW actor \in Actors, NEW action \in AuditActions,
           action \in {"content.archive.revise", "content.page.file_set.revise"},
           Audit(actor, action, p, now),
           NEW r, receipts' = receipts \cup {r}, r.key[2] # "master_move",
           actor = Master => r.key[2] = "master_revise",
           r.page = p, r.row = row, r.etag = ETag(p, row), r.content = v.content,
           r.audit = NextAudit,
           Appended(p, row, v, t, now, actor, action) => Grounds(r)'
    PROVE  Allowed
<1>1. IInv /\ TypeOK /\ now \in Times
    BY ConstantsAssumption DEF TriggerInv, IInv
<1>2. t \in Times /\ t > pages[p].updated
    BY <1>1, EventRow
<1>3. /\ row \in Row /\ row.rev = pages[p].rev + 1 /\ row.updated = t
      /\ row.deleted = NoTime /\ row.place = pages[p].place
    <2>1. pages[p] \in Row
        BY <1>1, ExistingRow
    <2>2. pages[p].rev + 1 \in 1 .. MaxRevision
        BY <2>1, ConstantsAssumption DEF Row
    <2>3. QED
        BY <1>2, <2>1, <2>2 DEF Row, AfterRevision
<1>4. \A q \in Pages : PageAccepted(q) /\ Chronicled(q)
    BY <1>1, <1>2, <1>3, RevisionAccepted, RevisionChronicled DEF Adds, AfterRevision
<1>5. /\ AuditsAdded /\ NextAudit <= Len(audits') /\ NextAudit \in DOMAIN audits'
      /\ audits'[NextAudit] = [actor |-> actor, action |-> action, page |-> p, at |-> now]
    BY <1>1, DatedNames, AuditWritten
<1>6. row.rev \in DOMAIN revisions'[p] /\ revisions'[p][row.rev] = v
    <2>1. row.rev = IF Exists(p) THEN pages[p].rev + 1 ELSE 1
        BY <1>3
    <2>2. QED
        BY <1>1, <2>1, RevisionAdded
<1>7. t >= now
    BY <1>1, ExistingRow DEF LogicalTime, Row, Times
<1>8. Grounds(r)'
    BY <1>3, <1>5, <1>6, <1>7 DEF Appended
<1>9. \E i \in DOMAIN rows'[r.page] : Describes(r, i)'
    <2>1. revisions'[p][row.rev].content = r.content
        BY <1>6
    <2>2. QED
        BY <1>1, <1>3, <1>6, <2>1, RowDescribed
<1>10. ReceiptsAllowed
    BY <1>5, <1>8, <1>9, OrdinaryReceipt DEF Substantiated
<1>11. EventsReferenced
    BY SameEvents DEF events
<1>12. EventsEntered
    BY NothingEntered
<1>13. AuditsEntered
    <2>1. PICK id, a : /\ id = NextAudit
                       /\ a = [actor |-> actor, action |-> action, page |-> p, at |-> now]
        OBVIOUS
    <2>2. AuditBooked(a, id)'
        BY <2>1 DEF AuditBooked
    <2>3. QED
        BY <1>1, <2>1, <2>2, AuditEntered
<1>14. QED
    BY <1>4, <1>5, <1>10, <1>11, <1>12, <1>13 DEF Allowed

LEMMA AppendRevisionAllowed ==
    ASSUME TriggerInv, NEW c \in Callers, NEW key \in Keys, AppendRevision(c, key)
    PROVE  Allowed
<1>1. PICK p \in Pages, section \in Sections, content \in Contents, now \in Clocks :
        \E etag \in IssuedETags(p) :
            AppendRevision(c, key)!(p, section, content, now)!(etag)
    BY DEF AppendRevision
<1>2. PICK etag \in IssuedETags(p) :
        AppendRevision(c, key)!(p, section, content, now)!(etag)
    BY <1>1
<1>3. PICK t : t = LogicalTime(pages[p], now)
    OBVIOUS
<1>4. PICK row : row = AfterRevision(p, t)
    OBVIOUS
<1>5. PICK v : v = [at |-> t, format |-> "legacy_markdown", content |-> content,
                    sourceAt |-> now]
    OBVIOUS
<1>6. PICK r : r = [key |-> <<c, "archive_revise", key>>,
                    request |-> [page |-> p, section |-> section, etag |-> etag,
                                 arg |-> content],
                    page |-> p, row |-> row, etag |-> ETag(p, row),
                    before |-> pages[p].updated, stamp |-> t, changed |-> TRUE,
                    content |-> content, audit |-> NextAudit]
    OBVIOUS
<1>7. /\ Exists(p) /\ pages[p].deleted = NoTime /\ Representable(t) /\ Save(p, row)
      /\ pages[p].rev < MaxRevision /\ Section(pages[p].place) = section
      /\ Adds(p, v)
      /\ Audit(c, "content.archive.revise", p, now)
      /\ receipts' = receipts \cup {r}
      /\ UNCHANGED events
    BY <1>2, <1>3, <1>4, <1>5, <1>6 DEF AddRevision, Respond, Adds, AfterRevision
<1>8. /\ r.key[2] = "archive_revise" /\ r.page = p /\ r.row = row /\ r.stamp = t
      /\ r.etag = ETag(p, row) /\ r.content = content /\ r.audit = NextAudit
      /\ r.request.section = section /\ v.at = t /\ v.content = content
      /\ r.content = v.content /\ r.key[2] # "master_move"
    BY <1>5, <1>6
<1>9. /\ c \in Actors /\ c # Master /\ "content.archive.revise" \in AuditActions
    BY IdentityAssumption DEF Actors, AuditActions
<1>10. Appended(p, row, v, t, now, c, "content.archive.revise") => Grounds(r)'
    BY <1>7, <1>8 DEF Appended, Grounds, ArchiveGrounds, InSection
<1>11. QED
    BY <1>3, <1>4, <1>7, <1>8, <1>9, <1>10, AppendAllowed

\* The two routes that append a file set.
Appends(actor, op, request, p, content) ==
    \/ /\ op = "file_set_append" /\ actor # Master /\ request.arg = content
       /\ request.section = Section(pages[p].place)
    \/ op = "master_revise" /\ actor = Master

\* Both outcomes of a file-set append.
LEMMA SnapshotAllowed ==
    ASSUME TriggerInv, NEW actor \in Actors, NEW op, NEW key, NEW request,
           NEW p \in Pages, Active(p), NEW content, NEW now \in Clocks,
           Appends(actor, op, request, p, content),
           \/ NewSnapshot(actor, op, key, request, p, content, now)
           \/ SameSnapshot(actor, op, key, request, p, content, now)
    PROVE  Allowed
<1>1. Exists(p) /\ pages[p].deleted = NoTime /\ IInv /\ TypeOK /\ op # "master_move"
    BY DEF Active, TriggerInv, IInv, Appends
<1>2. CASE NewSnapshot(actor, op, key, request, p, content, now)
    <2>1. PICK t : t = LogicalTime(pages[p], now)
        OBVIOUS
    <2>2. PICK row : row = AfterRevision(p, t)
        OBVIOUS
    <2>3. PICK v : v = [at |-> t, format |-> "file_set_v1", content |-> content,
                        sourceAt |-> now]
        OBVIOUS
    <2>4. PICK r : r = [key |-> <<actor, op, key>>, request |-> request, page |-> p,
                        row |-> row, etag |-> ETag(p, row),
                        before |-> pages[p].updated, stamp |-> now, changed |-> TRUE,
                        content |-> content, audit |-> NextAudit]
        OBVIOUS
    <2>5. /\ Representable(t) /\ Save(p, row) /\ pages[p].rev < MaxRevision
          /\ Adds(p, v)
          /\ Audit(actor, "content.page.file_set.revise", p, now)
          /\ receipts' = receipts \cup {r}
          /\ UNCHANGED events
        BY <1>2, <2>1, <2>2, <2>3, <2>4 DEF NewSnapshot, AddRevision, Respond, Adds, AfterRevision
    <2>6. /\ r.key[1] = actor /\ r.key[2] = op /\ r.request = request /\ r.page = p /\ r.row = row
          /\ r.stamp = now /\ r.changed
          /\ r.etag = ETag(p, row) /\ r.content = content /\ r.audit = NextAudit
          /\ v.at = t /\ v.content = content /\ v.format = "file_set_v1"
          /\ v.sourceAt = now /\ r.content = v.content /\ r.key[2] # "master_move"
        BY <1>1, <2>3, <2>4
    <2>7. /\ "content.page.file_set.revise" \in AuditActions
          /\ actor = Master => op = "master_revise"
        BY DEF AuditActions, Appends
    <2>8. ASSUME Appended(p, row, v, t, now, actor, "content.page.file_set.revise")
          PROVE  Grounds(r)'
        <3>1. CASE /\ op = "file_set_append" /\ request.arg = content
                   /\ request.section = Section(pages[p].place)
            <4>1. FileSetRevision(r, "content.page.file_set.revise")'
                BY <2>6, <2>8 DEF Appended, FileSetRevision, Certified
            <4>2. QED
                BY <2>6, <2>8, <3>1, <4>1 DEF Appended, Grounds, FileSetAppendGrounds, InSection
        <3>2. CASE op = "master_revise" /\ actor = Master
            BY <2>6, <2>8, <3>2 DEF Appended, Grounds, MasterFileSetGrounds
        <3>3. QED
            BY <3>1, <3>2 DEF Appends
    <2>9. QED
        BY <1>1, <2>1, <2>2, <2>5, <2>6, <2>7, <2>8, AppendAllowed
<1>3. CASE SameSnapshot(actor, op, key, request, p, content, now)
    <2>1. PICK r : r = [key |-> <<actor, op, key>>, request |-> request, page |-> p,
                        row |-> pages[p], etag |-> ETag(p, pages[p]),
                        before |-> pages[p].updated, stamp |-> now, changed |-> FALSE,
                        content |-> content, audit |-> 0]
        OBVIOUS
    <2>2. /\ receipts' = receipts \cup {r} /\ CurrentRevision(p).content = content
          /\ UNCHANGED <<pages, rows, revisions, events, audits>>
        BY <1>3, <2>1 DEF SameSnapshot, Respond
    <2>3. /\ r.key[2] = op /\ r.request = request /\ r.page = p /\ r.row = pages[p]
          /\ ~r.changed /\ r.etag = ETag(p, pages[p])
          /\ r.content = content /\ r.audit = 0
        BY <2>1
    <2>4. 0 <= Len(audits')
        BY <1>1, <2>2 DEF TypeOK
    <2>5. \E i \in DOMAIN rows'[r.page] : Describes(r, i)'
        BY <1>1, <2>2, <2>3, CurrentDescribed
    <2>6. Grounds(r)'
        <3>1. CASE /\ op = "file_set_append" /\ request.arg = content
                   /\ request.section = Section(pages[p].place)
            BY <1>1, <2>3, <3>1 DEF Grounds, FileSetAppendGrounds, InSection
        <3>2. CASE op = "master_revise" /\ actor = Master
            BY <1>1, <2>3, <3>2 DEF Grounds, MasterFileSetGrounds
        <3>3. QED
            BY <3>1, <3>2 DEF Appends
    <2>7. ReceiptsAllowed
        BY <1>1, <2>2, <2>3, <2>4, <2>5, <2>6, OrdinaryReceipt DEF Substantiated
    <2>8. QED
        BY <1>1, <2>2, <2>7, NoRowAccepted DEF Allowed
<1>4. QED
    BY <1>2, <1>3

LEMMA AppendFileSetAllowed ==
    ASSUME TriggerInv, NEW c \in Callers, NEW key \in Keys, AppendFileSet(c, key)
    PROVE  Allowed
<1>1. PICK p \in Pages, section \in Sections, content \in Contents, now \in Clocks :
        \E etag \in IssuedETags(p) :
            AppendFileSet(c, key)!(p, section, content, now)!(etag)
    BY DEF AppendFileSet
<1>2. PICK etag \in IssuedETags(p) :
        AppendFileSet(c, key)!(p, section, content, now)!(etag)
    BY <1>1
<1>3. PICK request : request = [page |-> p, section |-> section, etag |-> etag,
                                arg |-> content]
    OBVIOUS
<1>4. /\ Active(p) /\ Section(pages[p].place) = section
      /\ \/ NewSnapshot(c, "file_set_append", key, request, p, content, now)
         \/ SameSnapshot(c, "file_set_append", key, request, p, content, now)
    BY <1>2, <1>3 DEF Active
<1>5. c \in Actors /\ Appends(c, "file_set_append", request, p, content)
    BY <1>3, <1>4, IdentityAssumption DEF Actors, Appends
<1>6. QED
    BY <1>4, <1>5, SnapshotAllowed

LEMMA MasterReviseAllowed ==
    ASSUME TriggerInv, NEW key, NEW p \in Pages, NEW place, NEW etag, NEW content,
           NEW source, NEW now \in Clocks,
           MasterRevise(key, p, place, etag, content, source, now)
    PROVE  Allowed
<1> DEFINE request == [page |-> p, section |-> Section(place), etag |-> etag,
                       arg |-> <<place, content, source>>]
<1>1. /\ Active(p)
      /\ \/ NewSnapshot(Master, "master_revise", key, request, p, content, now)
         \/ SameSnapshot(Master, "master_revise", key, request, p, content, now)
    BY DEF MasterRevise
<1> HIDE DEF request
<1>2. Master \in Actors /\ Appends(Master, "master_revise", request, p, content)
    BY DEF Actors, Appends
<1>3. QED
    BY <1>1, <1>2, SnapshotAllowed

LEMMA RestoreWriteAllowed ==
    ASSUME TriggerInv, RestoreWrite
    PROVE  Allowed
<1>1. PICK cmd \in restores, now \in Clocks :
        MasterRevise(cmd.key, cmd.page, cmd.place, cmd.etag, cmd.content, cmd.source, now)
    BY DEF RestoreWrite
<1>2. cmd.page \in Pages
    BY DEF TriggerInv, IInv, TypeOK, RestoreTyped
<1>3. QED
    BY <1>1, <1>2, MasterReviseAllowed

\* Reading for a restore, or giving it up.
LEMMA RestorePhaseAllowed ==
    ASSUME TriggerInv, UNCHANGED <<pages, rows, revisions, events, audits, receipts>>
    PROVE  Allowed
<1>1. TypeOK
    BY DEF TriggerInv, IInv
<1>2. QED
    BY <1>1, NoRowAccepted, SameReceipts DEF Allowed

LEMMA CorrectOccurrenceAllowed ==
    ASSUME TriggerInv, NEW c \in Callers, NEW key \in Keys, CorrectOccurrence(c, key)
    PROVE  Allowed
<1>1. PICK p \in Pages, section \in Sections, new \in Occurrences, now \in Clocks :
        \E etag \in IssuedETags(p) :
            CorrectOccurrence(c, key)!(p, section, new, now)!(etag)
    BY DEF CorrectOccurrence
<1>2. PICK etag \in IssuedETags(p) :
        CorrectOccurrence(c, key)!(p, section, new, now)!(etag)
    BY <1>1
<1>3. PICK t : t = LogicalTime(pages[p], now)
    OBVIOUS
<1>4. PICK row : row = AfterCorrection(p, new, t)
    OBVIOUS
<1>5. PICK r : r = [key |-> <<c, "correct_occurrence", key>>,
                    request |-> [page |-> p, section |-> section, etag |-> etag,
                                 arg |-> new],
                    page |-> p, row |-> row, etag |-> ETag(p, row),
                    before |-> pages[p].updated, stamp |-> t, changed |-> TRUE,
                    content |-> CurrentRevision(p).content, audit |-> NextAudit]
    OBVIOUS
<1>6. /\ Exists(p) /\ pages[p].deleted = NoTime /\ Representable(t)
      /\ Section(pages[p].place) = section /\ etag = ETag(p, pages[p])
      /\ RecordCorrection(p, new, t, 0) /\ new # pages[p].occurred
      /\ Audit(c, "content.archive.correct_occurrence", p, t)
      /\ receipts' = receipts \cup {r}
      /\ UNCHANGED <<revisions, lifecycle, titles, moves>>
    BY <1>2, <1>3, <1>4, <1>5 DEF Respond, IfMatch
<1>7. /\ r.key[1] = c /\ r.key[2] = "correct_occurrence" /\ r.page = p /\ r.row = row
      /\ r.stamp = t /\ r.etag = ETag(p, row) /\ r.content = CurrentRevision(p).content
      /\ r.audit = NextAudit /\ r.request.section = section /\ r.request.arg = new
      /\ r.request.etag = etag
    BY <1>5
<1>8. IInv /\ TypeOK
    BY DEF TriggerInv, IInv
<1>9. t \in Times /\ t > pages[p].updated
    BY <1>3, <1>6, <1>8, EventRow
<1>10. c \in Actors /\ "content.archive.correct_occurrence" \in AuditActions
    BY DEF Actors, AuditActions
<1>11. \A q \in Pages : PageAccepted(q) /\ Chronicled(q)
    BY <1>6, <1>8, <1>9, CorrectionAccepted, CorrectionChronicled
<1>12. /\ row \in Row /\ row.updated = t /\ row.rev = pages[p].rev
       /\ row.deleted = NoTime /\ row.place = pages[p].place /\ row.occurred = new
    BY <1>4, <1>6, <1>8, <1>9, ExistingRow, ConstantsAssumption
       DEF Row, AfterCorrection
<1>13. Dates(p, t)
    BY <1>4, <1>6, <1>8, <1>9, <1>12, RowDates DEF RecordCorrection
<1>14. /\ AuditsAdded /\ NextAudit <= Len(audits') /\ NextAudit \in DOMAIN audits'
       /\ audits'[NextAudit] = [actor |-> c, page |-> p, at |-> t,
                                action |-> "content.archive.correct_occurrence"]
    BY <1>6, <1>8, <1>9, <1>10, <1>13, AuditWritten
<1>15. \E i \in DOMAIN rows'[r.page] : Describes(r, i)'
    BY <1>4, <1>6, <1>7, <1>8, <1>12, EventDescribed DEF RecordCorrection
<1>16. PICK e : e = [old |-> pages[p].occurred, new |-> new, at |-> t,
                     rev |-> pages[p].rev, audit |-> 0]
    OBVIOUS
<1>17. corrections' = [corrections EXCEPT ![p] = Append(@, e)]
    BY <1>6, <1>16 DEF RecordCorrection
<1>18. \E n \in DOMAIN corrections'[p] : corrections'[p][n] = e
    <2>1. corrections[p] \in Seq(CorrectionRow) /\ corrections'[p] = Append(corrections[p], e)
        BY <1>8, <1>17 DEF TypeOK
    <2>2. Len(corrections[p]) + 1 \in DOMAIN Append(corrections[p], e)
        BY <2>1
    <2>3. QED
        BY <2>1, <2>2
<1>19. e = [old |-> r.request.etag.occurred, new |-> r.row.occurred, at |-> r.stamp,
            rev |-> r.row.rev, audit |-> 0]
    BY <1>6, <1>7, <1>12, <1>16 DEF ETag
<1>20. Grounds(r)'
    <2>1. Certified(r, "content.archive.correct_occurrence", r.stamp)'
        BY <1>7, <1>14 DEF Certified
    <2>2. \E n \in DOMAIN corrections'[r.page] : corrections'[r.page][n] =
             [old |-> r.request.etag.occurred, new |-> r.row.occurred, at |-> r.stamp,
              rev |-> r.row.rev, audit |-> 0]
        BY <1>7, <1>18, <1>19
    <2>3. CorrectionGrounds(r)'
        BY <1>6, <1>7, <1>12, <2>1, <2>2 DEF CorrectionGrounds, InSection
    <2>4. QED
        BY <2>3 DEF Grounds
<1>21. ReceiptsAllowed
    BY <1>6, <1>7, <1>14, <1>15, <1>20, OrdinaryReceipt DEF Substantiated
<1>22. EventsEntered
    <2>1. CorrectionBooked(p, e)'
        BY <1>16 DEF CorrectionBooked
    <2>2. QED
        BY <1>6, <1>8, <1>17, <2>1, CorrectionEntered
<1>23. AuditsEntered
    <2>1. PICK id, a : /\ id = NextAudit
                       /\ a = [actor |-> c, page |-> p, at |-> t,
                               action |-> "content.archive.correct_occurrence"]
        OBVIOUS
    <2>2. AuditBooked(a, id)'
        BY <2>1 DEF AuditBooked
    <2>3. QED
        BY <1>6, <1>8, <2>1, <2>2, AuditEntered
<1>24. QED
    BY <1>6, <1>11, <1>14, <1>21, <1>22, <1>23, SameEvents DEF Allowed

LEMMA MasterCorrectOccurrenceAllowed ==
    ASSUME TriggerInv, MasterCorrectOccurrence
    PROVE  Allowed
<1>1. PICK p \in Pages, place \in Places, new \in Occurrences, now \in Clocks :
        \E etag \in IssuedETags(p) :
            MasterCorrectOccurrence!(p, place, new, now)!(etag)
    BY DEF MasterCorrectOccurrence
<1>2. PICK t : t = LogicalTime(pages[p], now)
    OBVIOUS
<1>3. /\ Exists(p) /\ pages[p].deleted = NoTime /\ Representable(t)
      /\ Audit(Master, "content.page.occurrence.correct", p, t)
      /\ RecordCorrection(p, new, t, NextAudit) /\ new # pages[p].occurred
      /\ UNCHANGED <<revisions, lifecycle, titles, moves, receipts>>
    BY <1>1, <1>2 DEF Active
<1>4. IInv /\ TypeOK
    BY DEF TriggerInv, IInv
<1>5. t \in Times /\ t > pages[p].updated
    BY <1>2, <1>3, <1>4, EventRow
<1>6. Master \in Actors /\ "content.page.occurrence.correct" \in AuditActions
    BY DEF Actors, AuditActions
<1>7. Dates(p, t)
    <2>1. PICK row : row = AfterCorrection(p, new, t)
        OBVIOUS
    <2>2. row \in Row /\ row.updated = t
        BY <1>4, <1>3, <1>5, <2>1, ExistingRow, ConstantsAssumption DEF Row, AfterCorrection
    <2>3. QED
        BY <1>3, <1>4, <1>5, <2>1, <2>2, RowDates DEF RecordCorrection
<1>8. /\ AuditsAdded /\ NextAudit \in DOMAIN audits'
      /\ audits'[NextAudit] = [actor |-> Master, page |-> p, at |-> t,
                               action |-> "content.page.occurrence.correct"]
    BY <1>3, <1>4, <1>5, <1>6, <1>7, AuditWritten
<1>9. \A q \in Pages : PageAccepted(q) /\ Chronicled(q)
    BY <1>3, <1>4, <1>5, <1>8, CorrectionAccepted, CorrectionChronicled
<1>10. PICK e, a, id :
          /\ id = NextAudit
          /\ e = [old |-> pages[p].occurred, new |-> new, at |-> t,
                  rev |-> pages[p].rev, audit |-> id]
          /\ a = [actor |-> Master, page |-> p, at |-> t,
                  action |-> "content.page.occurrence.correct"]
    OBVIOUS
<1>11. /\ corrections' = [corrections EXCEPT ![p] = Append(@, e)]
       /\ corrections[p] \in Seq(CorrectionRow)
       /\ corrections'[p] = Append(corrections[p], e)
    BY <1>3, <1>4, <1>10 DEF RecordCorrection, TypeOK
<1>12. EventsEntered
    <2>1. CorrectionBooked(p, e)'
        BY <1>8, <1>10 DEF CorrectionBooked, AuditedAs
    <2>2. QED
        BY <1>3, <1>4, <1>11, <2>1, CorrectionEntered
<1>13. AuditsEntered
    <2>1. NamedBy(corrections'[p], id)
        <3>1. NamedBy(Append(corrections[p], e), e.audit)
            BY <1>11, NamedByLast
        <3>2. QED
            BY <1>10, <1>11, <3>1
    <2>2. AuditBooked(a, id)'
        BY <1>10, <2>1 DEF AuditBooked
    <2>3. QED
        BY <1>3, <1>4, <1>10, <2>2, AuditEntered
<1>14. QED
    BY <1>3, <1>8, <1>9, <1>12, <1>13, SameReceipts, SameEvents DEF Allowed

\* The row that a lifecycle transition writes.
LEMMA LifecycleWritten ==
    ASSUME IInv, NEW p \in Pages, Exists(p), NEW t \in Times, t > pages[p].updated,
           NEW action \in {"delete", "restore"}, NEW actor, NEW audit,
           RecordLifecycle(p, action, actor, t, audit),
           NEW row, row = AfterLifecycle(p, action, t)
    PROVE  /\ Save(p, row) /\ row \in Row
           /\ row.updated = t /\ row.rev = pages[p].rev /\ row.place = pages[p].place
           /\ (pages[p].deleted = NoTime) = (action = "delete")
           /\ (row.deleted = NoTime) = (action = "restore")
           /\ Dates(p, t)
<1>1. TypeOK /\ pages[p] \in Row
    BY ExistingRow DEF IInv
<1>2. PICK deleted \in 0 .. MaxTime : deleted = IF action = "delete" THEN t ELSE NoTime
    BY ConstantsAssumption DEF Times, NoTime
<1>3. row = [pages[p] EXCEPT !.deleted = deleted, !.updated = t]
    BY <1>2 DEF AfterLifecycle
<1>4. /\ row \in Row /\ row.updated = t /\ row.rev = pages[p].rev
      /\ row.place = pages[p].place /\ row.deleted = deleted
      /\ row = [pages[p] EXCEPT !.updated = t, !.deleted = deleted]
    BY <1>1, <1>3 DEF Row
<1>5. Save(p, row) /\ (pages[p].deleted = NoTime) = (action = "delete")
    BY DEF RecordLifecycle
<1>6. (row.deleted = NoTime) = (action = "restore")
    BY <1>2, <1>4 DEF Times, NoTime
<1>7. Dates(p, t)
    <2>1. pages'[p] = row
        BY <1>1, <1>5 DEF TypeOK, Save
    <2>2. row # NoPage
        BY <1>4, ConstantsAssumption
    <2>3. t <= row.updated
        BY <1>4 DEF Times
    <2>4. pages[p].updated \in Nat
        BY <1>1 DEF Row, Times
    <2>5. QED
        BY <2>1, <2>2, <2>3, <2>4 DEF Dates, Times
<1>8. QED
    BY <1>2, <1>4, <1>5, <1>6, <1>7

\* The event that it leaves.
LEMMA LifecycleRecorded ==
    ASSUME TypeOK, NEW p \in Pages, NEW t, NEW action, NEW actor, NEW audit,
           RecordLifecycle(p, action, actor, t, audit),
           NEW e, e = [action |-> action, section |-> Section(pages[p].place),
                       oldDeleted |-> pages[p].deleted, oldUpdated |-> pages[p].updated,
                       at |-> t, rev |-> pages[p].rev, occurred |-> pages[p].occurred,
                       actor |-> actor, audit |-> audit]
    PROVE  /\ \E n \in DOMAIN lifecycle'[p] : lifecycle'[p][n] = e
           /\ lifecycle' = [lifecycle EXCEPT ![p] = Append(@, e)]
           /\ lifecycle[p] \in Seq(LifecycleRow) /\ lifecycle'[p] = Append(lifecycle[p], e)
<1>1. /\ lifecycle' = [lifecycle EXCEPT ![p] = Append(@, e)]
      /\ lifecycle[p] \in Seq(LifecycleRow) /\ lifecycle'[p] = Append(lifecycle[p], e)
    BY DEF TypeOK, RecordLifecycle
<1>2. Len(lifecycle[p]) + 1 \in DOMAIN Append(lifecycle[p], e)
    BY <1>1
<1>3. QED
    BY <1>1, <1>2

LEMMA LifecycleNames ==
    ASSUME NEW action \in {"delete", "restore"}
    PROVE  /\ action # "master_move" /\ LibraryRoute[action] # "master_move"
           /\ LibraryRoute[action] \in {"page_delete", "page_restore"}
           /\ ArchiveAudit[action] \in AuditActions
           /\ PageAudit[action] \in AuditActions
           /\ ArchiveAudit[action] \in {"content.archive.delete", "content.archive.restore"}
           /\ PageAudit[action] \in {"content.page.delete", "content.page.restore"}
BY DEF LibraryRoute, ArchiveAudit, PageAudit, AuditActions

\* The audit of a lifecycle transition.
LEMMA LifecycleAudited ==
    ASSUME TriggerInv, NEW actor \in Actors, NEW p \in Pages, Exists(p),
           NEW t \in Times, t > pages[p].updated,
           NEW action \in {"delete", "restore"}, NEW audit,
           RecordLifecycle(p, action, actor, t, audit),
           NEW audited \in AuditActions, Audit(actor, audited, p, t)
    PROVE  /\ AuditsAdded /\ NextAudit <= Len(audits') /\ NextAudit \in DOMAIN audits'
           /\ audits'[NextAudit] = [actor |-> actor, action |-> audited,
                                    page |-> p, at |-> t]
<1>1. IInv /\ TypeOK
    BY DEF TriggerInv, IInv
<1>2. PICK row : row = AfterLifecycle(p, action, t)
    OBVIOUS
<1>3. Dates(p, t)
    BY <1>1, <1>2, LifecycleWritten
<1>4. QED
    BY <1>1, <1>3, AuditWritten

\* A lifecycle request of a caller, on either route, with the receipt r.
LEMMA CallerLifecycleAllowed ==
    ASSUME TriggerInv, NEW c \in Callers, NEW p \in Pages, Exists(p), NEW now \in Clocks,
           NEW action \in {"delete", "restore"},
           NEW t, t = LogicalTime(pages[p], now),
           RecordLifecycle(p, action, c, t, 0),
           NEW audited \in AuditActions, Audit(c, audited, p, t),
           NEW row, row = AfterLifecycle(p, action, t),
           NEW r, receipts' = receipts \cup {r},
           \/ r.key[2] = action /\ audited = ArchiveAudit[action]
           \/ r.key[2] = LibraryRoute[action] /\ audited = PageAudit[action],
           r.key[1] = c, r.page = p, r.row = row, r.etag = ETag(p, row), r.stamp = t,
           r.content = CurrentRevision(p).content, r.audit = NextAudit,
           t \in Times /\ t > pages[p].updated => Grounds(r)',
           UNCHANGED <<revisions, corrections, titles, moves>>
    PROVE  Allowed
<1>1. IInv /\ TypeOK /\ c \in Actors /\ c # Master /\ r.key[2] # "master_move"
    BY IdentityAssumption, LifecycleNames DEF TriggerInv, IInv, Actors
<1>2. t \in Times /\ t > pages[p].updated
    BY <1>1, EventRow DEF RecordLifecycle
<1>3. \A q \in Pages : PageAccepted(q) /\ Chronicled(q)
    BY <1>1, <1>2, LifecycleAccepted, LifecycleChronicled
<1>4. /\ Save(p, row) /\ row \in Row /\ row.rev = pages[p].rev
      /\ row.place = pages[p].place
    BY <1>1, <1>2, LifecycleWritten
<1>5. AuditsAdded /\ NextAudit <= Len(audits')
    BY <1>1, <1>2, LifecycleAudited
<1>6. \E i \in DOMAIN rows'[r.page] : Describes(r, i)'
    BY <1>1, <1>4, EventDescribed
<1>7. ReceiptsAllowed
    BY <1>1, <1>2, <1>5, <1>6, OrdinaryReceipt DEF Substantiated
<1>8. PICK e : e = [action |-> action, section |-> Section(pages[p].place),
                    oldDeleted |-> pages[p].deleted, oldUpdated |-> pages[p].updated,
                    at |-> t, rev |-> pages[p].rev, occurred |-> pages[p].occurred,
                    actor |-> c, audit |-> 0]
    OBVIOUS
<1>9. EventsEntered
    <2>1. lifecycle' = [lifecycle EXCEPT ![p] = Append(@, e)]
        BY <1>1, <1>8, LifecycleRecorded
    <2>2. /\ e.actor = c /\ e.audit = 0 /\ e.at = t /\ e.action = action
          /\ e.section = Section(r.row.place)
        BY <1>4, <1>8
    <2>3. r \in LifecycleRecords(p, e)'
        BY <2>2 DEF LifecycleRecords
    <2>4. LifecycleBooked(p, e)'
        BY <1>1, <2>2, <2>3 DEF LifecycleBooked
    <2>5. QED
        BY <1>1, <2>1, <2>4, LifecycleEntered
<1>10. AuditsEntered
    <2>1. PICK id, a : /\ id = NextAudit
                       /\ a = [actor |-> c, action |-> audited, page |-> p, at |-> t]
        OBVIOUS
    <2>2. /\ a.actor = c /\ a.action = audited /\ a.page = p /\ a.at = t
          /\ a.actor # Master
        BY <1>1, <2>1
    <2>3. CASE r.key[2] = action /\ audited = ArchiveAudit[action]
        <3>1. a.action \in {"content.archive.delete", "content.archive.restore"}
            BY <2>2, <2>3, LifecycleNames
        <3>2. AuditBooked(a, id)'
            BY <2>2, <3>1 DEF AuditBooked
        <3>3. QED
            BY <1>1, <2>1, <3>2, AuditEntered
    <2>4. CASE r.key[2] = LibraryRoute[action] /\ audited = PageAudit[action]
        <3>1. /\ a.action \in {"content.page.delete", "content.page.restore"}
              /\ r.key[2] \in {"page_delete", "page_restore"} /\ r \in receipts'
            BY <2>2, <2>4, LifecycleNames
        <3>2. AuditBooked(a, id)'
            BY <2>2, <3>1 DEF AuditBooked
        <3>3. QED
            BY <1>1, <2>1, <3>2, AuditEntered
    <2>5. QED
        BY <2>3, <2>4
<1>11. QED
    BY <1>3, <1>5, <1>7, <1>9, <1>10, SameEvents DEF Allowed

LEMMA TransitionPageLifecycleAllowed ==
    ASSUME TriggerInv, NEW c \in Callers, NEW key \in Keys,
           NEW action \in {"delete", "restore"}, TransitionPageLifecycle(c, key, action)
    PROVE  Allowed
<1>1. PICK p \in Pages, section \in Sections, now \in Clocks :
        \E etag \in IssuedETags(p) :
            TransitionPageLifecycle(c, key, action)!(p, section, now)!(etag)
    BY DEF TransitionPageLifecycle
<1>2. PICK etag \in IssuedETags(p) :
        TransitionPageLifecycle(c, key, action)!(p, section, now)!(etag)
    BY <1>1
<1>3. PICK t : t = LogicalTime(pages[p], now)
    OBVIOUS
<1>4. PICK row : row = AfterLifecycle(p, action, t)
    OBVIOUS
<1>5. PICK r : r = [key |-> <<c, action, key>>,
                    request |-> [page |-> p, section |-> section, etag |-> etag,
                                 arg |-> action],
                    page |-> p, row |-> row, etag |-> ETag(p, row),
                    before |-> pages[p].updated, stamp |-> t, changed |-> TRUE,
                    content |-> CurrentRevision(p).content, audit |-> NextAudit]
    OBVIOUS
<1>6. /\ Exists(p) /\ RecordLifecycle(p, action, c, t, 0)
      /\ Section(pages[p].place) = section
      /\ Audit(c, ArchiveAudit[action], p, t)
      /\ receipts' = receipts \cup {r}
      /\ UNCHANGED <<revisions, corrections, titles, moves>>
    BY <1>2, <1>3, <1>4, <1>5 DEF Respond
<1>7. /\ r.key[1] = c /\ r.key[2] = action /\ r.page = p /\ r.row = row /\ r.stamp = t
      /\ r.changed /\ r.etag = ETag(p, row) /\ r.content = CurrentRevision(p).content
      /\ r.audit = NextAudit /\ r.request.section = section /\ r.request.arg = action
    BY <1>5
<1>8. c \in Actors /\ ArchiveAudit[action] \in AuditActions
    BY LifecycleNames DEF Actors
<1>9. ASSUME t \in Times, t > pages[p].updated
      PROVE  Grounds(r)'
    <2>1. PICK e : e = [action |-> action, section |-> Section(pages[p].place),
                        oldDeleted |-> pages[p].deleted, oldUpdated |-> pages[p].updated,
                        at |-> t, rev |-> pages[p].rev, occurred |-> pages[p].occurred,
                        actor |-> c, audit |-> 0]
        OBVIOUS
    <2>2. IInv /\ TypeOK /\ pages[p] \in Row
        BY <1>6, ExistingRow DEF TriggerInv, IInv
    <2>3. /\ row.updated = t /\ row.rev = pages[p].rev /\ row.place = pages[p].place
          /\ row.occurred = pages[p].occurred
          /\ row.deleted = IF action = "delete" THEN t ELSE NoTime
        BY <1>4, <2>2 DEF AfterLifecycle, Row
    <2>4. \E n \in DOMAIN lifecycle'[p] : lifecycle'[p][n] = e
        BY <1>6, <2>1, <2>2, LifecycleRecorded
    <2>5. /\ e.at = t /\ e.action = action /\ e.actor = c /\ e.rev = row.rev
          /\ e.section = Section(row.place) /\ e.occurred = row.occurred
        BY <2>1, <2>3
    <2>6. Certified(r, ArchiveAudit[action], t)'
        <3>1. /\ NextAudit \in DOMAIN audits'
              /\ audits'[NextAudit] = [actor |-> c, action |-> ArchiveAudit[action],
                                       page |-> p, at |-> t]
            BY <1>6, <1>8, <1>9, LifecycleAudited
        <3>2. QED
            BY <1>7, <3>1 DEF Certified
    <2>7. LifecycleGrounds(r)'
        <3>1. \E n \in DOMAIN lifecycle'[r.page] :
                 LET f == lifecycle'[r.page][n]
                 IN  /\ f.at = r.stamp /\ f.action = action /\ f.actor = r.key[1]
                     /\ f.section = Section(r.row.place)
                     /\ f.rev = r.row.rev /\ f.occurred = r.row.occurred
            BY <1>7, <2>4, <2>5
        <3>2. /\ r.key[2] \in {"delete", "restore"} /\ r.key[2] = r.request.arg
              /\ r.stamp = r.row.updated
              /\ r.row.deleted = IF r.request.arg = "delete" THEN r.stamp ELSE NoTime
            BY <1>7, <2>3
        <3>3. InSection(r)
            BY <1>6, <1>7, <2>3 DEF InSection
        <3>4. Certified(r, ArchiveAudit[r.request.arg], r.stamp)'
            BY <1>7, <2>6
        <3>5. QED
            BY <1>7, <3>1, <3>2, <3>3, <3>4 DEF LifecycleGrounds, InSection
    <2>8. QED
        BY <2>7 DEF Grounds
<1>10. QED
    BY <1>3, <1>4, <1>6, <1>7, <1>8, <1>9, CallerLifecycleAllowed

LEMMA LibraryPageLifecycleAllowed ==
    ASSUME TriggerInv, NEW c \in Callers, NEW key \in Keys,
           NEW action \in {"delete", "restore"}, LibraryPageLifecycle(c, key, action)
    PROVE  Allowed
<1>1. PICK p \in Pages, now \in Clocks :
        \E etag \in IssuedETags(p) :
            LibraryPageLifecycle(c, key, action)!(p, now)!(etag)
    BY DEF LibraryPageLifecycle
<1>2. PICK etag \in IssuedETags(p) :
        LibraryPageLifecycle(c, key, action)!(p, now)!(etag)
    BY <1>1
<1>3. PICK t : t = LogicalTime(pages[p], now)
    OBVIOUS
<1>4. PICK row : row = AfterLifecycle(p, action, t)
    OBVIOUS
<1>5. PICK b : b = pages[p]
    OBVIOUS
<1>6. PICK r : r = [key |-> <<c, LibraryRoute[action], key>>,
                    request |-> [page |-> p, section |-> NoPage, etag |-> etag,
                                 arg |-> action],
                    page |-> p, row |-> row, etag |-> ETag(p, row),
                    before |-> b.updated, stamp |-> t, changed |-> TRUE,
                    content |-> CurrentRevision(p).content, audit |-> NextAudit]
    OBVIOUS
<1>7. /\ Exists(p) /\ RecordLifecycle(p, action, c, t, 0) /\ etag = ETag(p, b)
      /\ Audit(c, PageAudit[action], p, t)
      /\ receipts' = receipts \cup {r}
      /\ UNCHANGED <<revisions, corrections, titles, moves>>
    BY <1>2, <1>3, <1>4, <1>5, <1>6 DEF Respond, IfMatch
<1>8. /\ r.key[1] = c /\ r.key[2] = LibraryRoute[action] /\ r.page = p /\ r.row = row
      /\ r.changed /\ r.stamp = t /\ r.before = b.updated
      /\ r.etag = ETag(p, row) /\ r.content = CurrentRevision(p).content
      /\ r.audit = NextAudit /\ r.request.etag = etag /\ r.request.arg = action
    BY <1>6
<1>9. ASSUME t \in Times, t > b.updated
      PROVE  Grounds(r)'
    <2>1. IInv /\ TypeOK
        BY DEF TriggerInv, IInv
    <2>2. /\ Save(p, row) /\ row \in Row /\ row.updated = t /\ row.rev = b.rev
          /\ row.place = b.place
          /\ (b.deleted = NoTime) = (action = "delete") /\ Dates(p, t)
        BY <1>4, <1>5, <1>7, <1>9, <2>1, LifecycleWritten
    <2>3. row = [b EXCEPT !.updated = t,
                    !.deleted = IF action = "delete" THEN t ELSE NoTime]
        BY <1>4, <1>5 DEF AfterLifecycle
    <2>4. Certified(r, PageAudit[action], t)'
        <3>1. c \in Actors /\ PageAudit[action] \in AuditActions
            BY LifecycleNames DEF Actors
        <3>2. /\ NextAudit \in DOMAIN audits'
              /\ audits'[NextAudit] = [actor |-> c, action |-> PageAudit[action],
                                       page |-> p, at |-> t]
            BY <1>5, <1>7, <1>9, <3>1, LifecycleAudited
        <3>3. QED
            BY <1>8, <3>2 DEF Certified
    <2>5. PICK i \in DOMAIN rows'[p] : rows'[p][i] = b
        BY <1>5, <1>7, <2>1, <2>2, RowWritten
    <2> DEFINE e == [action |-> action, section |-> Section(row.place),
                     oldDeleted |-> b.deleted, oldUpdated |-> b.updated,
                     at |-> t, rev |-> row.rev, occurred |-> b.occurred,
                     actor |-> c, audit |-> 0]
    <2>6. \E n \in DOMAIN lifecycle'[p] : lifecycle'[p][n] = e
        <3>1. e = [action |-> action, section |-> Section(pages[p].place),
                   oldDeleted |-> pages[p].deleted, oldUpdated |-> pages[p].updated,
                   at |-> t, rev |-> pages[p].rev, occurred |-> pages[p].occurred,
                   actor |-> c, audit |-> 0]
            BY <1>5, <2>2
        <3> HIDE DEF e
        <3>2. QED
            BY <1>7, <2>1, <3>1, LifecycleRecorded
    <2> HIDE DEF e
    <2>7. MadeOn(r, b)'
        BY <1>7, <1>8 DEF MadeOn, ETag
    <2>8. b.updated < row.updated
        BY <1>5, <1>7, <1>9, <2>1, <2>2, ExistingRow DEF Row, Times
    <2>9. LibraryLifecycleGrounds(r, b)'
        BY <1>8, <2>2, <2>3, <2>4, <2>6, <2>7, <2>8, LifecycleNames DEF LibraryLifecycleGrounds, e
    <2>10. QED
        BY <1>8, <2>5, <2>9 DEF Grounds
<1>10. PageAudit[action] \in AuditActions
    BY LifecycleNames
<1>11. QED
    BY <1>3, <1>4, <1>5, <1>7, <1>8, <1>9, <1>10, CallerLifecycleAllowed

LEMMA MasterPageLifecycleAllowed ==
    ASSUME TriggerInv, NEW action \in {"delete", "restore"}, MasterPageLifecycle(action)
    PROVE  Allowed
<1>1. PICK p \in Pages, place \in Places, now \in Clocks :
        \E etag \in IssuedETags(p) : MasterPageLifecycle(action)!(p, place, now)!(etag)
    BY DEF MasterPageLifecycle
<1>2. PICK t : t = LogicalTime(pages[p], now)
    OBVIOUS
<1>3. /\ Exists(p) /\ Audit(Master, ArchiveAudit[action], p, t)
      /\ RecordLifecycle(p, action, Master, t, NextAudit)
      /\ UNCHANGED <<revisions, corrections, titles, moves, receipts>>
    BY <1>1, <1>2
<1>4. IInv /\ TypeOK
    BY DEF TriggerInv, IInv
<1>5. t \in Times /\ t > pages[p].updated
    BY <1>2, <1>3, <1>4, EventRow DEF RecordLifecycle
<1>6. /\ Master \in Actors /\ ArchiveAudit[action] \in AuditActions
      /\ ArchiveAudit[action] \in {"content.archive.delete", "content.archive.restore"}
    BY LifecycleNames DEF Actors
<1>7. /\ AuditsAdded /\ NextAudit \in DOMAIN audits'
      /\ audits'[NextAudit] = [actor |-> Master, page |-> p, at |-> t,
                               action |-> ArchiveAudit[action]]
    BY <1>3, <1>5, <1>6, LifecycleAudited
<1>8. \A q \in Pages : PageAccepted(q) /\ Chronicled(q)
    BY <1>3, <1>4, <1>5, <1>7, LifecycleAccepted, LifecycleChronicled
<1>9. PICK id, a, e :
         /\ id = NextAudit
         /\ a = [actor |-> Master, page |-> p, at |-> t, action |-> ArchiveAudit[action]]
         /\ e = [action |-> action, section |-> Section(pages[p].place),
                 oldDeleted |-> pages[p].deleted, oldUpdated |-> pages[p].updated,
                 at |-> t, rev |-> pages[p].rev, occurred |-> pages[p].occurred,
                 actor |-> Master, audit |-> id]
    OBVIOUS
<1>10. /\ lifecycle' = [lifecycle EXCEPT ![p] = Append(@, e)]
       /\ lifecycle[p] \in Seq(LifecycleRow) /\ lifecycle'[p] = Append(lifecycle[p], e)
    BY <1>3, <1>4, <1>9, LifecycleRecorded
<1>11. e.actor = Master /\ e.audit = id /\ e.at = t /\ e.action = action
    BY <1>9
<1>12. EventsEntered
    <2>1. id # 0
        BY <1>4, <1>9 DEF NextAudit, TypeOK
    <2>2. AuditedAs(e.audit, ArchiveAudit[e.action], p, e.at)'
        BY <1>7, <1>9, <1>11 DEF AuditedAs
    <2>3. LifecycleBooked(p, e)'
        BY <1>11, <2>1, <2>2 DEF LifecycleBooked
    <2>4. QED
        BY <1>3, <1>4, <1>10, <2>3, LifecycleEntered
<1>13. AuditsEntered
    <2>1. NamedBy(lifecycle'[p], id)
        <3>1. NamedBy(Append(lifecycle[p], e), e.audit)
            BY <1>10, NamedByLast
        <3>2. QED
            BY <1>10, <1>11, <3>1
    <2>2. /\ a.action \in {"content.archive.delete", "content.archive.restore"}
          /\ a.page = p
        BY <1>6, <1>9
    <2>3. AuditBooked(a, id)'
        BY <2>1, <2>2 DEF AuditBooked
    <2>4. QED
        BY <1>3, <1>4, <1>9, <2>3, AuditEntered
<1>14. QED
    BY <1>3, <1>7, <1>8, <1>12, <1>13, SameReceipts, SameEvents DEF Allowed

LEMMA MasterUpdateTitleAllowed ==
    ASSUME TriggerInv, MasterUpdateTitle
    PROVE  Allowed
<1>1. PICK p \in Pages, place \in Places, title \in Titles, now \in Clocks :
        \E expected \in {etag.updated : etag \in IssuedETags(p)} :
            MasterUpdateTitle!(p, place, title, now)!(expected)
    BY DEF MasterUpdateTitle
<1>2. PICK t : t = LogicalTime(pages[p], now)
    OBVIOUS
<1>3. PICK row : row = AfterTitle(p, title, t)
    OBVIOUS
<1>4. PICK e : e = TitleEvent(p, title, t)
    OBVIOUS
<1>5. /\ Active(p) /\ Representable(t) /\ Save(p, row) /\ title # pages[p].title
      /\ Audit(Master, "content.page.title.edit", p, t)
      /\ titles' = [titles EXCEPT ![p] = Append(@, e)]
      /\ UNCHANGED <<revisions, corrections, lifecycle, moves, receipts>>
    BY <1>1, <1>2, <1>3, <1>4 DEF TitleEvent
<1>6. TypeOK /\ IInv /\ Exists(p) /\ pages[p].deleted = NoTime
    BY <1>5 DEF TriggerInv, IInv, Active
<1>7. t \in Times /\ t > pages[p].updated
    BY <1>2, <1>5, <1>6, EventRow
<1>8. row \in Row /\ row.updated = t
    BY <1>3, <1>6, <1>7, ExistingRow DEF Row, AfterTitle
<1>9. \A q \in Pages : PageAccepted(q) /\ Chronicled(q)
    <2>1. \A q \in Pages : Chronicled(q)
        BY <1>3, <1>4, <1>5, <1>6, <1>7, TitleChronicled
    <2>2. \A q \in Pages : PageAccepted(q)
        BY <1>3, <1>5, <1>7, TitleAccepted
    <2>3. QED
        BY <2>1, <2>2
<1>10. pages'[p] = row /\ titles'[p] = Append(titles[p], e) /\ titles[p] \in Seq(TitleRow)
    BY <1>5, <1>6 DEF TypeOK, Save
<1>11. Dates(p, t)
    BY <1>5, <1>6, <1>7, <1>8, RowDates
<1>12. Master \in Actors /\ "content.page.title.edit" \in AuditActions
    BY DEF Actors, AuditActions
<1>13. /\ AuditsAdded /\ Len(audits') = NextAudit /\ NextAudit \in Nat
       /\ NextAudit \in DOMAIN audits'
       /\ audits'[NextAudit] = [actor |-> Master, action |-> "content.page.title.edit",
                                page |-> p, at |-> t]
    BY <1>5, <1>6, <1>7, <1>11, <1>12, AuditWritten
<1>14. EventsReferenced
    <2>1. Added(titles[p], titles'[p]) = {Len(titles[p]) + 1} /\ titles'[p][Len(titles[p]) + 1] = e
        BY <1>10, AppendKept
    <2>2. e.audit = NextAudit
        BY <1>4 DEF TitleEvent
    <2>3. \A n \in Added(titles[p], titles'[p]) : titles'[p][n].audit <= Len(audits')
        BY <1>13, <2>1, <2>2
    <2>4. \A q \in Pages \ {p} : titles'[q] = titles[q]
        BY <1>5, <1>6 DEF TypeOK
    <2>5. QED
        BY <1>5, <2>3, <2>4 DEF EventsReferenced, Added
<1>15. PICK id, a : /\ id = NextAudit
                    /\ a = [actor |-> Master, action |-> "content.page.title.edit",
                            page |-> p, at |-> t]
    OBVIOUS
<1>16. e.audit = id /\ e.at = t
    BY <1>4, <1>15 DEF TitleEvent
<1>17. EventsEntered
    <2>1. TitleBooked(p, e)'
        BY <1>13, <1>15, <1>16 DEF TitleBooked, AuditedAs
    <2>2. QED
        BY <1>5, <1>6, <2>1, TitleEntered
<1>18. AuditsEntered
    <2>1. NamedBy(titles'[p], id)
        <3>1. NamedBy(Append(titles[p], e), e.audit)
            BY <1>10, NamedByLast
        <3>2. QED
            BY <1>10, <1>16, <3>1
    <2>2. AuditBooked(a, id)'
        BY <1>15, <2>1 DEF AuditBooked
    <2>3. QED
        BY <1>5, <1>6, <1>15, <2>2, AuditEntered
<1>19. QED
    BY <1>5, <1>9, <1>13, <1>14, <1>17, <1>18, SameReceipts DEF Allowed

\* A move by a caller or by the administrator; only the latter leaves a receipt
\* that a trigger checks.
LEMMA ChangePlaceAllowed ==
    ASSUME TriggerInv, NEW actor \in Actors, NEW op \in {"page_move", "master_move"},
           NEW key, NEW request, NEW p \in Pages,
           NEW target \in Places, NEW now \in Clocks, Active(p),
           request.arg = <<pages[p].place, target>>,
           request.etag = ETag(p, pages[p]),
           (op = "master_move") = (actor = Master),
           ChangePlace(actor, op, key, request, p, target, now), UNCHANGED revisions
    PROVE  Allowed
<1>1. PICK t : t = LogicalTime(pages[p], now)
    OBVIOUS
<1>2. PICK row : row = AfterMove(p, target, t)
    OBVIOUS
<1>3. PICK e : e = MoveEvent(p, target, t)
    OBVIOUS
<1>4. PICK b : b = pages[p]
    OBVIOUS
<1>5. PICK r : r = [key |-> <<actor, op, key>>, request |-> request, page |-> p,
                    row |-> row, etag |-> ETag(p, row), before |-> b.updated,
                    stamp |-> now, changed |-> TRUE,
                    content |-> CurrentRevision(p).content, audit |-> NextAudit]
    OBVIOUS
<1>6. /\ Representable(t) /\ Audit(actor, "content.page.move", p, t) /\ Save(p, row)
      /\ target # b.place /\ moves' = [moves EXCEPT ![p] = Append(@, e)]
      /\ receipts' = receipts \cup {r}
      /\ UNCHANGED <<revisions, corrections, lifecycle, titles>>
    BY <1>1, <1>2, <1>3, <1>4, <1>5 DEF ChangePlace, Respond, MoveEvent
<1>7. TypeOK /\ IInv /\ Exists(p) /\ b \in Row /\ b.deleted = NoTime
    BY <1>4, ExistingRow DEF TriggerInv, IInv, Active
<1>8. t \in Times /\ t > b.updated
    BY <1>1, <1>4, <1>6, <1>7, EventRow
<1>9. /\ row.updated = t /\ row.rev = b.rev /\ row.occurred = b.occurred
      /\ row.deleted = b.deleted /\ row.place = target /\ row \in Row
      /\ row = [b EXCEPT !.place = row.place, !.updated = row.updated]
    BY <1>2, <1>4, <1>7, <1>8 DEF Row, AfterMove
<1>10. e = [old |-> b.place, new |-> target, oldUpdated |-> b.updated, at |-> t,
            rev |-> b.rev, occurred |-> b.occurred, audit |-> NextAudit]
    BY <1>3, <1>4 DEF MoveEvent
<1>11. /\ r.key[1] = actor /\ r.key[2] = op /\ r.request = request /\ r.page = p
       /\ r.row = row /\ r.etag = ETag(p, row) /\ r.before = b.updated /\ r.changed
       /\ r.content = CurrentRevision(p).content /\ r.audit = NextAudit
    BY <1>5
<1>12. "content.page.move" \in AuditActions /\ Dates(p, t)
    BY <1>4, <1>6, <1>7, <1>8, <1>9, RowDates DEF AuditActions
<1>13. (\A q \in Pages : PageAccepted(q)) /\ moves'[p][Len(moves'[p])] = e
    BY <1>2, <1>3, <1>4, <1>6, <1>8, MoveAccepted
<1>14. \A q \in Pages : Chronicled(q)
    BY <1>2, <1>3, <1>4, <1>6, <1>7, <1>8, MoveChronicled
<1>15. /\ AuditsAdded /\ Len(audits') = NextAudit /\ NextAudit \in Nat
       /\ NextAudit <= Len(audits') /\ NextAudit \in DOMAIN audits'
       /\ audits'[NextAudit] = [actor |-> actor, action |-> "content.page.move",
                                page |-> p, at |-> t]
    BY <1>6, <1>7, <1>8, <1>12, AuditWritten
<1>16. pages'[p] = row /\ moves'[p] = Append(moves[p], e) /\ moves[p] \in Seq(MoveRow)
    BY <1>6, <1>7 DEF TypeOK, Save
<1>17. /\ e.old = pages[p].place /\ e.new = target /\ e.oldUpdated = b.updated
       /\ e.at = t /\ e.rev = b.rev /\ e.occurred = b.occurred /\ e.audit = NextAudit
    BY <1>4, <1>10
<1>18. MoveReceiptAllowed(r)
    <2>1. \A s \in receipts : s.audit # NextAudit
        <3> SUFFICES ASSUME NEW s \in receipts
                     PROVE  s.audit # NextAudit
            OBVIOUS
        <3>1. s.audit \in Nat /\ s.audit <= Len(audits)
            BY <1>7 DEF TypeOK, ReceiptTyped, TriggerInv, ReferencesPast
        <3>2. NextAudit = Len(audits) + 1 /\ Len(audits) \in Nat
            BY <1>7 DEF TypeOK, NextAudit
        <3>3. QED
            BY <3>1, <3>2
    <2>2. op = "master_move" => audits'[e.audit].actor = Master
        BY <1>15, <1>17
    <2>3. QED
        BY <1>7, <1>9, <1>11, <1>13, <1>16, <1>17, <2>1, <2>2 DEF MoveReceiptAllowed
<1>19. Grounds(r)'
    <2>1. PICK i \in DOMAIN rows'[p] : rows'[p][i] = b
        BY <1>4, <1>6, <1>7, <1>9, RowWritten
    <2>2. MadeOn(r, b)'
        BY <1>4, <1>11 DEF MadeOn, ETag
    <2>3. b.updated < row.updated
        BY <1>7, <1>8, <1>9 DEF Row, Times
    <2>4. \E n \in DOMAIN moves'[p] : moves'[p][n] =
             [old |-> b.place, new |-> row.place, oldUpdated |-> b.updated,
              at |-> row.updated, rev |-> row.rev, occurred |-> b.occurred,
              audit |-> NextAudit]
        <3>1. Len(moves[p]) + 1 \in DOMAIN moves'[p] /\ moves'[p][Len(moves[p]) + 1] = e
            BY <1>16
        <3>2. e = [old |-> b.place, new |-> row.place, oldUpdated |-> b.updated,
                   at |-> row.updated, rev |-> row.rev, occurred |-> b.occurred,
                   audit |-> NextAudit]
            BY <1>9, <1>10
        <3>3. QED
            BY <3>1, <3>2
    <2>5. MoveGrounds(r, b)'
        <3>1. r.request.arg = <<b.place, r.row.place>>
            BY <1>4, <1>9, <1>11
        <3>2. /\ b.updated < r.row.updated /\ r.changed
              /\ r.row = [b EXCEPT !.place = r.row.place, !.updated = r.row.updated]
            BY <1>9, <1>11, <2>3
        <3>3. Certified(r, "content.page.move", r.row.updated)'
            BY <1>9, <1>11, <1>15 DEF Certified
        <3>4. \E n \in DOMAIN moves'[r.page] : moves'[r.page][n] =
                 [old |-> b.place, new |-> r.row.place, oldUpdated |-> b.updated,
                  at |-> r.row.updated, rev |-> r.row.rev, occurred |-> b.occurred,
                  audit |-> r.audit]
            BY <1>11, <2>4
        <3>5. /\ r.key[2] \in {"page_move", "master_move"} /\ b.deleted = NoTime
              /\ (r.key[2] = "master_move") = (r.key[1] = Master)
            BY <1>7, <1>11
        <3>6. QED
            BY <2>2, <3>1, <3>2, <3>3, <3>4, <3>5 DEF MoveGrounds
    <2>6. QED
        BY <1>11, <2>1, <2>5 DEF Grounds
<1>20. \E i \in DOMAIN rows'[r.page] : Describes(r, i)'
    <2>1. row.rev = pages[p].rev /\ CurrentRevision(p).content = r.content
        BY <1>4, <1>9, <1>11
    <2>2. row \in Row /\ r.page = p /\ r.row = row /\ r.etag = ETag(p, row)
        BY <1>9, <1>11
    <2>3. QED
        BY <1>6, <1>7, <2>1, <2>2, EventDescribed
<1>21. ReceiptsAllowed
    BY <1>6, <1>11, <1>15, <1>18, <1>19, <1>20, FS_AddElement
       DEF ReceiptsAllowed, Substantiated
<1>22. EventsReferenced
    <2>1. Added(moves[p], moves'[p]) = {Len(moves[p]) + 1} /\ moves'[p][Len(moves[p]) + 1] = e
        BY <1>16, AppendKept
    <2>2. \A n \in Added(moves[p], moves'[p]) : moves'[p][n].audit <= Len(audits')
        BY <1>15, <1>17, <2>1
    <2>3. \A q \in Pages \ {p} : moves'[q] = moves[q]
        BY <1>6, <1>7 DEF TypeOK
    <2>4. QED
        BY <1>6, <2>2, <2>3 DEF EventsReferenced, Added
<1>23. PICK id, a : /\ id = NextAudit
                    /\ a = [actor |-> actor, action |-> "content.page.move",
                            page |-> p, at |-> t]
    OBVIOUS
<1>24. id \in DOMAIN audits' /\ audits'[id] = a /\ e.audit = id /\ e.at = t
    BY <1>15, <1>17, <1>23
<1>25. EventsEntered
    <2>1. AuditedAs(e.audit, "content.page.move", p, e.at)'
        BY <1>23, <1>24 DEF AuditedAs
    <2>2. /\ r \in receipts' /\ r.changed /\ r.page = p /\ r.audit = e.audit
          /\ r.row.updated = e.at
          /\ r.key[2] = IF audits'[e.audit].actor = Master
                        THEN "master_move" ELSE "page_move"
        BY <1>6, <1>9, <1>11, <1>23, <1>24
    <2>3. MoveBooked(p, e)'
        BY <2>1, <2>2 DEF MoveBooked
    <2>4. QED
        BY <1>6, <1>7, <2>3, MoveEntered
<1>26. AuditsEntered
    <2>1. NamedBy(moves'[p], id)
        <3>1. NamedBy(Append(moves[p], e), e.audit)
            BY <1>16, NamedByLast
        <3>2. QED
            BY <1>16, <1>24, <3>1
    <2>2. AuditBooked(a, id)'
        BY <1>23, <2>1 DEF AuditBooked
    <2>3. QED
        BY <1>6, <1>7, <1>23, <2>2, AuditEntered
<1>27. QED
    BY <1>13, <1>14, <1>15, <1>21, <1>22, <1>25, <1>26 DEF Allowed

LEMMA SamePlaceAllowed ==
    ASSUME TriggerInv, NEW actor, NEW op \in {"page_move", "master_move"}, NEW key,
           NEW request, NEW p \in Pages, NEW target, NEW now, Active(p),
           request.arg = <<pages[p].place, target>>, request.etag = ETag(p, pages[p]),
           (op = "master_move") = (actor = Master),
           SamePlace(actor, op, key, request, p, target, now), UNCHANGED revisions
    PROVE  Allowed
<1>1. PICK r : r = [key |-> <<actor, op, key>>, request |-> request, page |-> p,
                    row |-> pages[p], etag |-> ETag(p, pages[p]),
                    before |-> pages[p].updated, stamp |-> now, changed |-> FALSE,
                    content |-> CurrentRevision(p).content, audit |-> 0]
    OBVIOUS
<1>2. /\ receipts' = receipts \cup {r} /\ pages[p].place = target
      /\ UNCHANGED <<pages, rows, revisions, events, audits>>
    BY <1>1 DEF SamePlace, Respond
<1>3. /\ r.changed = FALSE /\ r.page = p /\ r.row = pages[p] /\ r.audit = 0
      /\ r.key[1] = actor /\ r.key[2] = op /\ r.request = request /\ r.before = pages[p].updated
      /\ r.etag = ETag(p, pages[p]) /\ r.content = CurrentRevision(p).content
    BY <1>1
<1>4. TypeOK /\ IInv /\ 0 <= Len(audits') /\ Exists(p) /\ pages[p].deleted = NoTime
    BY <1>2 DEF TriggerInv, IInv, TypeOK, Active
<1>5. MoveReceiptAllowed(r)
    BY <1>2, <1>3, <1>4 DEF MoveReceiptAllowed
<1>6. /\ \E i \in DOMAIN rows'[r.page] : Describes(r, i)'
      /\ \E i \in DOMAIN rows'[r.page] : rows'[r.page][i] = r.row
    BY <1>2, <1>3, <1>4, CurrentDescribed
<1>7. MoveGrounds(r, r.row)'
    BY <1>2, <1>3, <1>4 DEF MoveGrounds, MadeOn, ETag
<1>8. Grounds(r)'
    BY <1>6, <1>7 DEF Grounds
<1>9. ReceiptsAllowed
    BY <1>2, <1>3, <1>4, <1>5, <1>6, <1>8, FS_AddElement DEF ReceiptsAllowed, Substantiated
<1>10. QED
    BY <1>2, <1>4, <1>9, NoRowAccepted DEF Allowed

LEMMA MovePageAllowed ==
    ASSUME TriggerInv, NEW actor \in Actors, NEW op \in {"page_move", "master_move"},
           NEW key, MovePage(actor, op, key), (op = "master_move") = (actor = Master)
    PROVE  Allowed
<1>1. PICK p \in Pages, source \in Places, target \in Places, now \in Clocks :
        \E etag \in IssuedETags(p) :
            MovePage(actor, op, key)!(p, source, target, now)!(etag)
    BY DEF MovePage
<1>2. PICK etag \in IssuedETags(p) :
        MovePage(actor, op, key)!(p, source, target, now)!(etag)
    BY <1>1
<1>3. PICK request : request = [page |-> p, section |-> NoPage, etag |-> etag,
                                arg |-> <<source, target>>]
    OBVIOUS
<1>4. /\ Active(p) /\ pages[p].place = source /\ etag = ETag(p, pages[p])
      /\ \/ ChangePlace(actor, op, key, request, p, target, now)
         \/ SamePlace(actor, op, key, request, p, target, now)
      /\ UNCHANGED revisions
    BY <1>2, <1>3 DEF IfMatch
<1>5. request.arg = <<pages[p].place, target>> /\ request.etag = ETag(p, pages[p])
    BY <1>3, <1>4
<1> DEFINE changes == ChangePlace(actor, op, key, request, p, target, now)
           stays == SamePlace(actor, op, key, request, p, target, now)
<1>6. /\ Active(p) /\ pages[p].place = source /\ UNCHANGED revisions
      /\ changes \/ stays
    BY <1>4
<1>7. changes => Allowed
    BY <1>5, <1>6, ChangePlaceAllowed
<1>8. stays => Allowed
    BY <1>5, <1>6, SamePlaceAllowed
<1> HIDE DEF changes, stays
<1>9. QED
    BY <1>6, <1>7, <1>8

LEMMA NextAllowed ==
    ASSUME TriggerInv, Next
    PROVE  Allowed
<1>1. ASSUME NEW c \in Callers, NEW key \in Keys, CallerNext(c, key)
      PROVE  Allowed
    <2>1. c \in Actors /\ c # Master
        BY IdentityAssumption DEF Actors
    <2>2. CASE CreateArchive(c, key)
        <3>1. /\ "content.archive.create" \in AuditActions
              /\ Creates(c, "archive_create", "legacy_markdown", "content.archive.create")
            BY DEF AuditActions, Creates
        <3>2. QED
            BY <2>1, <2>2, <3>1, CreatePageAllowed DEF CreateArchive
    <2>3. CASE CreateFileSet(c, key)
        <3>1. /\ "content.page.file_set.create" \in AuditActions
              /\ Creates(c, "file_set_create", "file_set_v1", "content.page.file_set.create")
            BY <2>1 DEF AuditActions, Creates
        <3>2. QED
            BY <2>1, <2>3, <3>1, CreatePageAllowed DEF CreateFileSet
    <2>4. CASE CallerMovePage(c, key)
        BY <2>1, <2>4, MovePageAllowed DEF CallerMovePage
    <2>5. CASE AppendRevision(c, key) \/ AppendFileSet(c, key) \/ CorrectOccurrence(c, key)
        BY <2>5, AppendRevisionAllowed, AppendFileSetAllowed, CorrectOccurrenceAllowed
    <2>6. ASSUME NEW action \in {"delete", "restore"},
                 TransitionPageLifecycle(c, key, action) \/ LibraryPageLifecycle(c, key, action)
          PROVE  Allowed
        BY <2>6, TransitionPageLifecycleAllowed, LibraryPageLifecycleAllowed
    <2>7. QED
        BY <1>1, <2>2, <2>3, <2>4, <2>5, <2>6 DEF CallerNext
<1>2. ASSUME MasterNext
      PROVE  Allowed
    <2>1. Master \in Actors
        BY DEF Actors
    <2>2. ASSUME NEW key \in Keys, MasterCreateFileSet(key)
          PROVE  Allowed
        <3>1. /\ "content.page.file_set.create" \in AuditActions
              /\ Creates(Master, "master_create", "file_set_v1", "content.page.file_set.create")
            BY DEF AuditActions, Creates
        <3>2. QED
            BY <2>1, <2>2, <3>1, CreatePageAllowed DEF MasterCreateFileSet
    <2>3. ASSUME NEW key \in Keys, MasterReviseFileSet(key)
          PROVE  Allowed
        BY <2>3, MasterReviseAllowed DEF MasterReviseFileSet
    <2>4. ASSUME NEW key \in Keys, RestoreRead(key)
          PROVE  Allowed
        BY <2>4, RestorePhaseAllowed DEF RestoreRead
    <2>5. ASSUME NEW key \in Keys, MasterMovePage(key)
          PROVE  Allowed
        BY <2>1, <2>5, MovePageAllowed DEF MasterMovePage
    <2>6. CASE RestoreEnd
        BY <2>6, RestorePhaseAllowed DEF RestoreEnd
    <2>7. CASE RestoreWrite \/ MasterCorrectOccurrence \/ MasterUpdateTitle
        BY <2>7, RestoreWriteAllowed, MasterCorrectOccurrenceAllowed,
           MasterUpdateTitleAllowed
    <2>8. ASSUME NEW action \in {"delete", "restore"}, MasterPageLifecycle(action)
          PROVE  Allowed
        BY <2>8, MasterPageLifecycleAllowed
    <2>9. QED
        BY <1>2, <2>2, <2>3, <2>4, <2>5, <2>6, <2>7, <2>8 DEF MasterNext
<1>3. QED
    BY <1>1, <1>2 DEF Next

----------------------------------------------------------------------------
(* The invariant is kept.                                                  *)

LEMMA ReferencesKept ==
    ASSUME TriggerInv, Allowed, TypeOK'
    PROVE  ReferencesPast'
<1>1. TypeOK
    BY DEF TriggerInv, IInv
<1>2. Len(audits) <= Len(audits') /\ Len(audits) \in Nat /\ Len(audits') \in Nat
    BY <1>1 DEF Allowed, AuditsAdded, TypeOK
<1>3. ASSUME NEW p \in Pages, NEW n \in DOMAIN titles'[p]
      PROVE  titles'[p][n].audit <= Len(audits')
    <2>1. CASE n \in DOMAIN titles[p]
        <3>1. titles[p][n] \in TitleRow
            BY <1>1, <2>1 DEF TypeOK
        <3>2. titles'[p][n] = titles[p][n]
            BY <2>1 DEF Allowed, PageAccepted, HistoryImmutable, Kept
        <3>3. titles[p][n].audit <= Len(audits) /\ titles[p][n].audit \in Nat
            BY <2>1, <3>1 DEF TriggerInv, ReferencesPast, TitleRow
        <3>4. QED
            BY <1>2, <3>2, <3>3
    <2>2. CASE n \notin DOMAIN titles[p]
        BY <2>2 DEF Allowed, EventsReferenced, Added
    <2>3. QED
        BY <2>1, <2>2
<1>4. ASSUME NEW p \in Pages, NEW n \in DOMAIN moves'[p]
      PROVE  moves'[p][n].audit <= Len(audits')
    <2>1. CASE n \in DOMAIN moves[p]
        <3>1. moves[p][n] \in MoveRow
            BY <1>1, <2>1 DEF TypeOK
        <3>2. moves'[p][n] = moves[p][n]
            BY <2>1 DEF Allowed, PageAccepted, HistoryImmutable, Kept
        <3>3. moves[p][n].audit <= Len(audits) /\ moves[p][n].audit \in Nat
            BY <2>1, <3>1 DEF TriggerInv, ReferencesPast, MoveRow
        <3>4. QED
            BY <1>2, <3>2, <3>3
    <2>2. CASE n \notin DOMAIN moves[p]
        BY <2>2 DEF Allowed, EventsReferenced, Added
    <2>3. QED
        BY <2>1, <2>2
<1>5. ASSUME NEW r \in receipts'
      PROVE  r.audit <= Len(audits')
    <2>1. CASE r \in receipts
        <3>1. r.audit <= Len(audits) /\ r.audit \in Nat
            BY <1>1, <2>1 DEF TriggerInv, ReferencesPast, TypeOK, ReceiptTyped
        <3>2. QED
            BY <1>2, <3>1
    <2>2. CASE r \notin receipts
        BY <2>2 DEF Allowed, ReceiptsAllowed
    <2>3. QED
        BY <2>1, <2>2
<1>6. QED
    BY <1>3, <1>4, <1>5 DEF ReferencesPast

\* The clock of a page that exists only advances.
LEMMA ClockStands ==
    ASSUME TypeOK, RowStep, NEW p \in Pages, Exists(p)
    PROVE  pages'[p] # NoPage /\ pages[p].updated <= pages'[p].updated
<1>1. pages[p].updated \in Nat
    BY ExistingRow DEF Row, Times
<1>2. CASE UNCHANGED <<pages, rows, revisions>>
    BY <1>1, <1>2 DEF Exists
<1>3. ASSUME NEW q \in Pages, NEW row \in Row, Writes(q, row)
      PROVE  pages'[p] # NoPage /\ pages[p].updated <= pages'[p].updated
    <2>1. pages' = [pages EXCEPT ![q] = row] /\ row.updated \in Nat
        BY <1>3 DEF Writes, Save, Row, Times
    <2>2. CASE p = q
        <3>1. pages'[p] = row /\ row.updated > pages[p].updated
            BY <1>3, <2>1, <2>2 DEF Writes, TypeOK
        <3>2. row # NoPage
            BY ConstantsAssumption
        <3>3. QED
            BY <1>1, <2>1, <3>1, <3>2
    <2>3. CASE p # q
        <3>1. pages'[p] = pages[p]
            BY <2>1, <2>3 DEF TypeOK
        <3>2. QED
            BY <1>1, <3>1 DEF Exists
    <2>4. QED
        BY <2>2, <2>3
<1>4. QED
    BY <1>2, <1>3 DEF RowStep

\* Every earlier dated audit is before the page, and a new one is not.
LEMMA DatedAuditsKept ==
    ASSUME TriggerInv, Allowed, GoodStep
    PROVE  DatedAuditsPast' /\ DatedAuditsDiffer'
<1>1. TypeOK /\ TypeOK' /\ RowStep
    BY DEF TriggerInv, IInv, GoodStep
<1>2. ASSUME NEW i \in DOMAIN audits, audits[i].action \in DatedAudits,
             NEW p, p = audits[i].page
      PROVE  /\ pages'[p] # NoPage /\ audits[i].at <= pages'[p].updated
             /\ Exists(p) /\ audits[i].at <= pages[p].updated
             /\ audits[i].at \in Nat /\ pages[p].updated \in Nat
    <2>1. audits[i] \in AuditRow
        BY <1>1 DEF TypeOK
    <2>2. p \in Pages /\ audits[i].at \in Nat
        BY <1>2, <2>1 DEF AuditRow, Times
    <2>3. Exists(p) /\ audits[i].at <= pages[p].updated
        BY <1>2 DEF TriggerInv, DatedAuditsPast
    <2>4. pages'[p] # NoPage /\ pages[p].updated <= pages'[p].updated
        BY <1>1, <2>2, <2>3, ClockStands
    <2>5. pages[p].updated \in Nat /\ pages'[p].updated \in Nat
        <3>1. pages[p] \in Row /\ pages'[p] \in Row
            BY <1>1, <2>2, <2>3, <2>4 DEF TypeOK, Exists
        <3>2. QED
            BY <3>1 DEF Row, Times
    <2>6. QED
        BY <2>2, <2>3, <2>4, <2>5 DEF Exists
<1>3. CASE UNCHANGED audits
    BY <1>2, <1>3 DEF DatedAuditsPast, DatedAuditsDiffer, Exists, TriggerInv
<1>4. ASSUME NEW a \in AuditRow, audits' = Append(audits, a),
             a.action \in DatedAudits => Dates(a.page, a.at)
      PROVE  DatedAuditsPast' /\ DatedAuditsDiffer'
    <2>1. /\ DOMAIN audits' = DOMAIN audits \cup {NextAudit} /\ audits'[NextAudit] = a
          /\ \A i \in DOMAIN audits : audits'[i] = audits[i]
        BY <1>1, <1>4, AuditAdded
    <2>2. DatedAuditsPast'
        BY <1>2, <1>4, <2>1 DEF DatedAuditsPast, Exists, Dates
    <2>3. a.at \in Nat
        BY DEF AuditRow, Times
    <2>4. ASSUME a.action \in DatedAudits, NEW i \in DOMAIN audits,
                 audits[i].action \in DatedAudits, audits[i].page = a.page
          PROVE  audits[i].at # a.at
        <3>1. PICK p : p = a.page
            OBVIOUS
        <3>2. pages[p].updated < a.at
            BY <1>4, <2>4, <3>1 DEF Dates
        <3>3. /\ audits[i].at <= pages[p].updated /\ audits[i].at \in Nat
              /\ pages[p].updated \in Nat
            BY <1>2, <2>4, <3>1
        <3>4. QED
            BY <2>3, <3>2, <3>3
    <2>5. DatedAuditsDiffer'
        BY <2>1, <2>4 DEF DatedAuditsDiffer, TriggerInv
    <2>6. QED
        BY <2>2, <2>5
<1>5. QED
    BY <1>3, <1>4 DEF Allowed, AuditsAdded

\* The rows of a page and of its tables stay.
LEMMA RowsStay ==
    ASSUME TypeOK, TypeOK', RowStep
    PROVE  RowsExtended
<1>1. ASSUME NEW p \in Pages, NEW row \in Row, Save(p, row)
      PROVE  RowsExtended
    BY <1>1, SaveRows DEF RowsExtended
<1>2. UNCHANGED rows => RowsExtended
    BY DEF RowsExtended
<1>3. QED
    BY <1>1, <1>2 DEF RowStep, Writes

LEMMA TableStays ==
    ASSUME NEW S, NEW old \in Seq(S), NEW new \in Seq(S), Kept(old, new)
    PROVE  \A i \in DOMAIN old : i \in DOMAIN new /\ new[i] = old[i]
BY DEF Kept

\* Nothing a stored receipt is checked against goes away.
LEMMA SubstantiatedStays ==
    ASSUME TypeOK, TypeOK', RowsExtended, AuditsStay,
           \A p \in Pages : HistoryImmutable(p),
           NEW r, Substantiated(r)
    PROVE  Substantiated(r)'
<1>1. PICK i \in DOMAIN rows[r.page] : Describes(r, i)
    BY DEF Substantiated
<1>2. PICK p \in Pages : p = r.page
    BY <1>1 DEF Describes
<1>3. \A k \in DOMAIN rows[p] : k \in DOMAIN rows'[p] /\ rows'[p][k] = rows[p][k]
    BY DEF RowsExtended
<1>4. \A n \in DOMAIN revisions[p] : n \in DOMAIN revisions'[p] /\ revisions'[p][n] = revisions[p][n]
    BY TableStays DEF TypeOK, HistoryImmutable
<1>5. \A n \in DOMAIN corrections[p] :
         n \in DOMAIN corrections'[p] /\ corrections'[p][n] = corrections[p][n]
    BY TableStays DEF TypeOK, HistoryImmutable
<1>6. \A n \in DOMAIN lifecycle[p] : n \in DOMAIN lifecycle'[p] /\ lifecycle'[p][n] = lifecycle[p][n]
    BY TableStays DEF TypeOK, HistoryImmutable
<1>7. \A n \in DOMAIN moves[p] : n \in DOMAIN moves'[p] /\ moves'[p][n] = moves[p][n]
    BY TableStays DEF TypeOK, HistoryImmutable
<1>8. \A n \in DOMAIN audits : n \in DOMAIN audits' /\ audits'[n] = audits[n]
    BY DEF AuditsStay
<1>9. Describes(r, i)' /\ i \in DOMAIN rows'[r.page]
    <2>1. /\ i \in DOMAIN rows[p] /\ rows[p][i] = r.row /\ r.etag = ETag(p, r.row)
          /\ r.row.rev \in DOMAIN revisions[p]
          /\ revisions[p][r.row.rev].content = r.content
        BY <1>1, <1>2 DEF Describes
    <2>2. /\ i \in DOMAIN rows'[p] /\ rows'[p][i] = r.row
          /\ r.row.rev \in DOMAIN revisions'[p]
          /\ revisions'[p][r.row.rev].content = r.content
        BY <1>3, <1>4, <2>1
    <2>3. QED
        BY <1>2, <2>1, <2>2 DEF Describes, ETag
<1>10. /\ r.row.rev \in DOMAIN revisions[p]
       /\ revisions'[p][r.row.rev] = revisions[p][r.row.rev]
    BY <1>1, <1>2, <1>4 DEF Describes
<1>11. ASSUME NEW action, NEW at, Certified(r, action, at)
       PROVE  Certified(r, action, at)'
    BY <1>8, <1>11 DEF Certified
<1>12. ASSUME NEW action, FileSetRevision(r, action)
       PROVE  FileSetRevision(r, action)'
    <2>1. PICK v : v = revisions[r.page][r.row.rev] /\ v = revisions'[r.page][r.row.rev]
        BY <1>2, <1>10
    <2>2. Certified(r, action, r.stamp)'
        BY <1>11, <1>12 DEF FileSetRevision
    <2>3. QED
        BY <1>12, <2>1, <2>2 DEF FileSetRevision
<1>13. ASSUME ArchiveGrounds(r)
       PROVE  Grounds(r)'
    <2>1. ArchiveGrounds(r)'
        BY <1>2, <1>10, <1>13 DEF ArchiveGrounds, InSection
    <2>2. QED
        BY <2>1 DEF Grounds
<1>14. ASSUME FileSetCreateGrounds(r) \/ FileSetAppendGrounds(r)
       PROVE  Grounds(r)'
    <2>1. CASE FileSetCreateGrounds(r)
        <3>1. FileSetRevision(r, "content.page.file_set.create")'
            BY <1>12, <2>1 DEF FileSetCreateGrounds
        <3>2. FileSetCreateGrounds(r)'
            BY <2>1, <3>1 DEF FileSetCreateGrounds, InSection
        <3>3. QED
            BY <3>2 DEF Grounds
    <2>2. CASE FileSetAppendGrounds(r)
        <3>1. r.changed => FileSetRevision(r, "content.page.file_set.revise")'
            BY <1>12, <2>2 DEF FileSetAppendGrounds
        <3>2. FileSetAppendGrounds(r)'
            BY <2>2, <3>1 DEF FileSetAppendGrounds, InSection
        <3>3. QED
            BY <3>2 DEF Grounds
    <2>3. QED
        BY <1>14, <2>1, <2>2
<1>15. ASSUME CorrectionGrounds(r)
       PROVE  Grounds(r)'
    <2>1. PICK n \in DOMAIN corrections[p] : corrections[p][n] =
             [old |-> r.request.etag.occurred, new |-> r.row.occurred,
              at |-> r.stamp, rev |-> r.row.rev, audit |-> 0]
        BY <1>2, <1>15 DEF CorrectionGrounds
    <2>2. n \in DOMAIN corrections'[p] /\ corrections'[p][n] = corrections[p][n]
        BY <1>5
    <2>3. Certified(r, "content.archive.correct_occurrence", r.stamp)'
        BY <1>11, <1>15 DEF CorrectionGrounds
    <2>4. CorrectionGrounds(r)'
        BY <1>2, <1>15, <2>1, <2>2, <2>3 DEF CorrectionGrounds, InSection
    <2>5. QED
        BY <2>4 DEF Grounds
<1>16. ASSUME LifecycleGrounds(r)
       PROVE  Grounds(r)'
    <2>1. PICK n \in DOMAIN lifecycle[p] :
             LET e == lifecycle[p][n]
             IN  /\ e.at = r.stamp /\ e.action = r.request.arg /\ e.actor = r.key[1]
                 /\ e.section = Section(r.row.place)
                 /\ e.rev = r.row.rev /\ e.occurred = r.row.occurred
        BY <1>2, <1>16 DEF LifecycleGrounds
    <2>2. n \in DOMAIN lifecycle'[p] /\ lifecycle'[p][n] = lifecycle[p][n]
        BY <1>6
    <2>3. \E k \in DOMAIN lifecycle'[r.page] :
             LET e == lifecycle'[r.page][k]
             IN  /\ e.at = r.stamp /\ e.action = r.request.arg /\ e.actor = r.key[1]
                 /\ e.section = Section(r.row.place)
                 /\ e.rev = r.row.rev /\ e.occurred = r.row.occurred
        BY <1>2, <2>1, <2>2
    <2>4. Certified(r, ArchiveAudit[r.request.arg], r.stamp)'
        BY <1>11, <1>16 DEF LifecycleGrounds
    <2>5. LifecycleGrounds(r)'
        BY <1>16, <2>3, <2>4 DEF LifecycleGrounds, InSection
    <2>6. QED
        BY <2>5 DEF Grounds
<1>17. ASSUME MasterFileSetGrounds(r)
       PROVE  Grounds(r)'
    <2>1. PICK v : v = revisions[p][r.row.rev] /\ v = revisions'[p][r.row.rev]
        BY <1>10
    <2>2. r.changed => r.audit \in DOMAIN audits' /\ audits'[r.audit] = audits[r.audit]
        BY <1>8, <1>17 DEF MasterFileSetGrounds
    <2>3. MasterFileSetGrounds(r)'
        BY <1>2, <1>17, <2>1, <2>2 DEF MasterFileSetGrounds
    <2>4. QED
        BY <2>3 DEF Grounds
<1>18. ASSUME NEW k \in DOMAIN rows[p], LibraryLifecycleGrounds(r, rows[p][k])
       PROVE  Grounds(r)'
    <2>1. PICK b : b = rows[p][k]
        OBVIOUS
    <2>2. MadeOn(r, b)'
        BY <1>18, <2>1 DEF LibraryLifecycleGrounds, MadeOn, ETag
    <2>3. LibraryLifecycleGrounds(r, b)'
        <3>1. Certified(r, PageAudit[r.request.arg], r.stamp)'
            BY <1>11, <1>18, <2>1 DEF LibraryLifecycleGrounds
        <3>2. QED
            BY <1>2, <1>6, <1>18, <2>1, <2>2, <3>1 DEF LibraryLifecycleGrounds
    <2>4. QED
        BY <1>2, <1>3, <2>1, <2>3 DEF Grounds
<1>19. ASSUME NEW k \in DOMAIN rows[p], MoveGrounds(r, rows[p][k])
       PROVE  Grounds(r)'
    <2>1. PICK b : b = rows[p][k]
        OBVIOUS
    <2>2. MadeOn(r, b)'
        BY <1>19, <2>1 DEF MoveGrounds, MadeOn, ETag
    <2>3. MoveGrounds(r, b)'
        <3>1. r.changed => Certified(r, "content.page.move", r.row.updated)'
            BY <1>11, <1>19, <2>1 DEF MoveGrounds
        <3>2. QED
            BY <1>2, <1>7, <1>19, <2>1, <2>2, <3>1 DEF MoveGrounds
    <2>4. QED
        BY <1>2, <1>3, <2>1, <2>3 DEF Grounds
<1>20. Grounds(r)'
    BY <1>2, <1>13, <1>14, <1>15, <1>16, <1>17, <1>18, <1>19 DEF Substantiated, Grounds
<1>21. QED
    BY <1>9, <1>20 DEF Substantiated

LEMMA AuditsKept ==
    ASSUME TypeOK, AuditsAdded
    PROVE  AuditsStay
BY AuditAdded DEF AuditsAdded, AuditsStay

\* What is booked stays booked.
LEMMA AuditedStays ==
    ASSUME AuditsStay, NEW id, NEW action, NEW p, NEW at, AuditedAs(id, action, p, at)
    PROVE  AuditedAs(id, action, p, at)' /\ audits'[id] = audits[id]
BY DEF AuditsStay, AuditedAs

LEMMA EventsStayBooked ==
    ASSUME AuditsStay, receipts \subseteq receipts', NEW p, NEW e
    PROVE  /\ CorrectionBooked(p, e) => CorrectionBooked(p, e)'
           /\ LifecycleBooked(p, e) => LifecycleBooked(p, e)'
           /\ TitleBooked(p, e) => TitleBooked(p, e)'
           /\ MoveBooked(p, e) => MoveBooked(p, e)'
<1>1. CorrectionBooked(p, e) => CorrectionBooked(p, e)'
    BY AuditedStays DEF CorrectionBooked
<1>2. ASSUME LifecycleBooked(p, e)
      PROVE  LifecycleBooked(p, e)'
    <2>1. CASE e.actor = Master
        BY <1>2, <2>1, AuditedStays DEF LifecycleBooked
    <2>2. CASE e.actor # Master
        <3>1. PICK r \in LifecycleRecords(p, e) : Section(r.row.place) = e.section
            BY <1>2, <2>2 DEF LifecycleBooked
        <3>2. r \in LifecycleRecords(p, e)'
            BY <3>1 DEF LifecycleRecords
        <3>3. QED
            BY <1>2, <2>2, <3>1, <3>2 DEF LifecycleBooked
    <2>3. QED
        BY <2>1, <2>2
<1>3. TitleBooked(p, e) => TitleBooked(p, e)'
    BY AuditedStays DEF TitleBooked
<1>4. ASSUME MoveBooked(p, e)
      PROVE  MoveBooked(p, e)'
    <2>1. /\ AuditedAs(e.audit, "content.page.move", p, e.at)'
          /\ audits'[e.audit] = audits[e.audit]
        BY <1>4, AuditedStays DEF MoveBooked
    <2>2. PICK r \in receipts :
             /\ r.changed /\ r.page = p /\ r.audit = e.audit /\ r.row.updated = e.at
             /\ r.key[2] = IF audits[e.audit].actor = Master
                           THEN "master_move" ELSE "page_move"
        BY <1>4 DEF MoveBooked
    <2>3. QED
        BY <2>1, <2>2 DEF MoveBooked
<1>5. QED
    BY <1>1, <1>2, <1>3, <1>4

LEMMA OldOrNew ==
    ASSUME NEW old, NEW new, Kept(old, new), NEW e \in Range(new)
    PROVE  e \in Range(old) \/ e \in NewRows(old, new)
<1>1. PICK n \in DOMAIN new : e = new[n]
    BY DEF Range
<1>2. CASE n \in DOMAIN old
    BY <1>1, <1>2 DEF Kept, Range
<1>3. CASE n \notin DOMAIN old
    BY <1>1, <1>3 DEF NewRows, Added
<1>4. QED
    BY <1>2, <1>3

LEMMA NamedByStays ==
    ASSUME NEW S, NEW old \in Seq(S), NEW new \in Seq(S), Kept(old, new), NEW id
    PROVE  NamedBy(old, id) => NamedBy(new, id)
BY TableStays DEF NamedBy

LEMMA AuditStaysBooked ==
    ASSUME TypeOK, TypeOK', \A p \in Pages : HistoryImmutable(p),
           receipts \subseteq receipts', NEW a \in AuditRow, NEW id, AuditBooked(a, id)
    PROVE  AuditBooked(a, id)'
<1>1. PICK p \in Pages : p = a.page
    BY DEF AuditRow
<1>2. /\ moves[p] \in Seq(MoveRow) /\ moves'[p] \in Seq(MoveRow)
      /\ corrections[p] \in Seq(CorrectionRow) /\ corrections'[p] \in Seq(CorrectionRow)
      /\ titles[p] \in Seq(TitleRow) /\ titles'[p] \in Seq(TitleRow)
      /\ lifecycle[p] \in Seq(LifecycleRow) /\ lifecycle'[p] \in Seq(LifecycleRow)
    BY DEF TypeOK
<1>3. /\ Kept(moves[p], moves'[p]) /\ Kept(corrections[p], corrections'[p])
      /\ Kept(titles[p], titles'[p]) /\ Kept(lifecycle[p], lifecycle'[p])
    BY DEF HistoryImmutable
<1>4. /\ NamedBy(moves[p], id) => NamedBy(moves'[p], id)
      /\ NamedBy(corrections[p], id) => NamedBy(corrections'[p], id)
      /\ NamedBy(titles[p], id) => NamedBy(titles'[p], id)
      /\ NamedBy(lifecycle[p], id) => NamedBy(lifecycle'[p], id)
    BY <1>2, <1>3, NamedByStays
<1>5. QED
    BY <1>1, <1>4 DEF AuditBooked

LEMMA LedgerKept ==
    ASSUME TriggerInv, Allowed, TypeOK', AuditsStay
    PROVE  Ledger'
<1>1. /\ TypeOK /\ Ledger /\ receipts \subseteq receipts' /\ IsFiniteSet(receipts')
      /\ \A p \in Pages : HistoryImmutable(p)
    BY DEF TriggerInv, IInv, Ledger, Allowed, ReceiptsAllowed, PageAccepted
<1>2. ASSUME NEW p \in Pages
      PROVE  EventsBooked(p)'
    <2>1. EventsBooked(p) /\ HistoryImmutable(p)
        BY <1>1 DEF Ledger
    <2>2. ASSUME NEW e \in Range(corrections'[p])
          PROVE  CorrectionBooked(p, e)'
        <3>1. e \in Range(corrections[p]) \/ e \in NewRows(corrections[p], corrections'[p])
            BY <2>1, OldOrNew DEF HistoryImmutable
        <3>2. e \in Range(corrections[p]) => CorrectionBooked(p, e)'
            BY <1>1, <2>1, EventsStayBooked DEF EventsBooked
        <3>3. QED
            BY <3>1, <3>2 DEF Allowed, EventsEntered
    <2>3. ASSUME NEW e \in Range(lifecycle'[p])
          PROVE  LifecycleBooked(p, e)'
        <3>1. e \in Range(lifecycle[p]) \/ e \in NewRows(lifecycle[p], lifecycle'[p])
            BY <2>1, OldOrNew DEF HistoryImmutable
        <3>2. e \in Range(lifecycle[p]) => LifecycleBooked(p, e)'
            BY <1>1, <2>1, EventsStayBooked DEF EventsBooked
        <3>3. QED
            BY <3>1, <3>2 DEF Allowed, EventsEntered
    <2>4. ASSUME NEW e \in Range(titles'[p])
          PROVE  TitleBooked(p, e)'
        <3>1. e \in Range(titles[p]) \/ e \in NewRows(titles[p], titles'[p])
            BY <2>1, OldOrNew DEF HistoryImmutable
        <3>2. e \in Range(titles[p]) => TitleBooked(p, e)'
            BY <1>1, <2>1, EventsStayBooked DEF EventsBooked
        <3>3. QED
            BY <3>1, <3>2 DEF Allowed, EventsEntered
    <2>5. ASSUME NEW e \in Range(moves'[p])
          PROVE  MoveBooked(p, e)'
        <3>1. e \in Range(moves[p]) \/ e \in NewRows(moves[p], moves'[p])
            BY <2>1, OldOrNew DEF HistoryImmutable
        <3>2. e \in Range(moves[p]) => MoveBooked(p, e)'
            BY <1>1, <2>1, EventsStayBooked DEF EventsBooked
        <3>3. QED
            BY <3>1, <3>2 DEF Allowed, EventsEntered
    <2>6. QED
        BY <2>2, <2>3, <2>4, <2>5 DEF EventsBooked
<1>3. ASSUME NEW id \in DOMAIN audits', NEW a, a = audits'[id]
      PROVE  AuditBooked(a, id)'
    <2>1. CASE id \in DOMAIN audits
        <3>1. a = audits[id] /\ a \in AuditRow /\ AuditBooked(a, id)
            BY <1>1, <1>3, <2>1 DEF AuditsStay, Ledger, TypeOK
        <3>2. QED
            BY <1>1, <3>1, AuditStaysBooked
    <2>2. CASE id \notin DOMAIN audits
        BY <1>3, <2>2 DEF Allowed, AuditsEntered
    <2>3. QED
        BY <2>1, <2>2
<1>4. \A id \in DOMAIN audits' : AuditBooked(audits[id], id)'
    <2> SUFFICES ASSUME NEW id \in DOMAIN audits'
                 PROVE  AuditBooked(audits[id], id)'
        OBVIOUS
    <2>1. PICK a : a = audits'[id]
        OBVIOUS
    <2>2. AuditBooked(a, id)'
        BY <1>3, <2>1
    <2>3. QED
        BY <2>1, <2>2 DEF AuditBooked
<1>5. QED
    BY <1>1, <1>2, <1>4 DEF Ledger

LEMMA TriggerInvInitially == Init => TriggerInv
<1>1. Init => ReferencesPast /\ DatedAuditsPast /\ DatedAuditsDiffer
    BY DEF Init, ReferencesPast, DatedAuditsPast, DatedAuditsDiffer
<1>2. Init => IInv
    BY DEF Init, IInv, TypeOK, HistoryEndsAtPage, ClockAdvances, NoLostUpdate, Exists
<1>3. Init => Chronicle /\ receipts = {}
    BY DEF Init, Chronicle, Exists, Blank
<1>4. Init => Ledger
    BY FS_EmptySet DEF Init, Ledger, EventsBooked, Range
<1>5. QED
    BY <1>1, <1>2, <1>3, <1>4 DEF TriggerInv

LEMMA TriggerInvKept ==
    ASSUME TriggerInv, Next
    PROVE  TriggerInv' /\ Allowed
<1>1. GoodStep /\ Allowed
    BY NextGood, NextAllowed DEF TriggerInv
<1>2. IInv'
    BY <1>1, HistoryKept, ClockKept, NoLostUpdateKept DEF TriggerInv, IInv, GoodStep
<1>3. ReferencesPast' /\ DatedAuditsPast' /\ DatedAuditsDiffer'
    BY <1>1, ReferencesKept, DatedAuditsKept DEF GoodStep
<1>4. AuditsStay
    BY <1>1, AuditsKept DEF TriggerInv, IInv, Allowed
<1>5. Chronicle'
    BY <1>1, <1>4, ChronicleKept DEF TriggerInv, Allowed, GoodStep
<1>6. \A r \in receipts' : Substantiated(r)'
    <2>1. TypeOK /\ TypeOK' /\ RowsExtended /\ \A p \in Pages : HistoryImmutable(p)
        BY <1>1, RowsStay DEF TriggerInv, IInv, GoodStep, Allowed, PageAccepted
    <2>2. \A r \in receipts : Substantiated(r)'
        BY <1>4, <2>1, SubstantiatedStays DEF TriggerInv
    <2>3. QED
        BY <1>1, <2>2 DEF Allowed, ReceiptsAllowed
<1>7. Ledger'
    BY <1>1, <1>4, LedgerKept DEF GoodStep
<1>8. QED
    BY <1>1, <1>2, <1>3, <1>5, <1>6, <1>7 DEF TriggerInv

LEMMA TriggerInvStutters ==
    ASSUME TriggerInv, UNCHANGED vars
    PROVE  TriggerInv'
<1>1. IInv'
    BY DEF TriggerInv, vars, IInv, TypeOK, HistoryEndsAtPage, ClockAdvances,
           NoLostUpdate, Exists, ETag, ReceiptTyped, RestoreTyped
<1>2. ReferencesPast' /\ DatedAuditsPast' /\ DatedAuditsDiffer'
    BY DEF TriggerInv, vars, ReferencesPast, DatedAuditsPast, DatedAuditsDiffer, Exists
<1>3. AuditsStay /\ \A p \in Pages : Chronicled(p)
    BY DEF vars, events, AuditsStay, Chronicled, Undisturbed
<1>4. Chronicle'
    BY <1>1, <1>3, ChronicleKept DEF TriggerInv, IInv
<1>5. \A r \in receipts' : Substantiated(r)'
    <2>1. TypeOK /\ TypeOK' /\ RowsExtended
        BY <1>1 DEF TriggerInv, IInv, RowsExtended, vars
    <2>2. \A p \in Pages : HistoryImmutable(p)
        BY <2>1, TablesTyped, UndisturbedKept DEF vars, HistoryImmutable
    <2>3. QED
        BY <1>3, <2>1, <2>2, SubstantiatedStays DEF TriggerInv, vars
<1>6. Ledger'
    BY DEF TriggerInv, vars, Ledger, EventsBooked, CorrectionBooked, LifecycleBooked,
           TitleBooked, MoveBooked, AuditBooked, AuditedAs, LifecycleRecords
<1>7. QED
    BY <1>1, <1>2, <1>4, <1>5, <1>6 DEF TriggerInv

LEMMA TriggerInvHolds == Spec => []TriggerInv
<1>1. TriggerInv /\ [Next]_vars => TriggerInv'
    BY TriggerInvKept, TriggerInvStutters
<1>2. QED
    BY <1>1, TriggerInvInitially, PTL DEF Spec

\* No step of any handler writes what a trigger or deferred constraint of the
\* migrations refuses: every handler's rows follow on the last ones, with the
\* events, audits and receipts that the triggers demand.
THEOREM TriggersNeverAbort == Spec => TriggersAccept
<1> DEFINE Accepts ==
        /\ receipts \subseteq receipts'
        /\ \A r \in receipts' \ receipts : MoveReceiptAllowed(r)
        /\ \A p \in Pages :
              /\ HistoryImmutable(p)
              /\ RevisionInsertAllowed(p)
              /\ IF Exists(p) THEN PageUpdateAllowed(p, pages[p], pages'[p])
                 ELSE pages'[p] # NoPage => PageInsertAllowed(pages'[p])
<1>1. ASSUME TriggerInv, Next
      PROVE  Accepts
    BY <1>1, TriggerInvKept DEF Allowed, ReceiptsAllowed, PageAccepted
<1>2. TriggerInv /\ [Next]_vars => [Accepts]_vars
    BY <1>1
<1>3. QED
    BY <1>2, TriggerInvHolds, PTL DEF Spec, TriggersAccept

\* The readers' timeline (load_page_state_timeline) accepts the event tables of
\* every page, whatever the handlers did to it and however the wall clock ran,
\* and rebuilds exactly the rows that the page had, in their order.
THEOREM TimelineIsExact == Spec => []TimelineReconstructs
<1>1. TriggerInv => TimelineReconstructs
    BY TimelineFound DEF TriggerInv, Chronicle, TimelineReconstructs
<1>2. QED
    BY <1>1, TriggerInvHolds, PTL

\* A stored success can be replayed for ever: the validators of its route find
\* the state, the event, the revision and the audit it was answered with, and
\* find each only once, whatever happened to the page since.
THEOREM ReceiptsReplayForEver == Spec => []ReceiptsReplay
<1>1. TriggerInv => ReceiptsReplay
    BY SubstantiatedReplays DEF TriggerInv, ReceiptsReplay
<1>2. QED
    BY <1>1, TriggerInvHolds, PTL

----------------------------------------------------------------------------
(* Sequences of values.                                                    *)

\* A set of naturals that is not empty has a least element.
LEMMA Least ==
    ASSUME NEW S, S \subseteq Nat, S # {}
    PROVE  \E n \in S : \A m \in S : ~(m < n)
<1>1. PICK n \in S : \A m \in S : ~(<<m, n>> \in OpToRel(<, Nat))
    BY NatLessThanWellFounded, WFMin
<1>2. QED
    BY <1>1 DEF OpToRel

\* A value that no step changes is the same at both ends.
LEMMA Steady ==
    ASSUME NEW i \in Nat, NEW j \in Nat, i <= j, NEW f,
           \A k \in Nat : i <= k /\ k < j => f[k + 1] = f[k]
    PROVE  f[j] = f[i]
<1> DEFINE Differ == {k \in Nat : i <= k /\ k <= j /\ f[k] # f[i]}
<1>1. Differ = {}
    <2> SUFFICES ASSUME Differ # {}
                 PROVE  FALSE
        OBVIOUS
    <2>1. Differ \subseteq Nat
        OBVIOUS
    <2>2. PICK k \in Differ : \A m \in Differ : ~(m < k)
        BY <2>1, Least
    <2>3. k # i
        BY <2>2
    <2>4. k - 1 \in Nat /\ i <= k - 1 /\ k - 1 < j /\ k - 1 < k /\ (k - 1) + 1 = k
        BY <2>2, <2>3
    <2>5. f[k - 1] = f[i]
        BY <2>2, <2>4
    <2>6. f[k] = f[k - 1]
        BY <2>4
    <2>7. QED
        BY <2>2, <2>5, <2>6
<1>2. QED
    BY <1>1

\* A number that no step lowers is no lower at the end.
LEMMA Rising ==
    ASSUME NEW i \in Nat, NEW j \in Nat, i <= j, NEW f,
           \A k \in Nat : i <= k /\ k <= j => f[k] \in Nat,
           \A k \in Nat : i <= k /\ k < j => f[k] <= f[k + 1]
    PROVE  f[i] <= f[j]
<1> DEFINE Lower == {k \in Nat : i <= k /\ k <= j /\ f[k] < f[i]}
<1>1. Lower = {}
    <2> SUFFICES ASSUME Lower # {}
                 PROVE  FALSE
        OBVIOUS
    <2>1. Lower \subseteq Nat
        OBVIOUS
    <2>2. PICK k \in Lower : \A m \in Lower : ~(m < k)
        BY <2>1, Least
    <2>3. f[i] \in Nat /\ f[k] \in Nat /\ k # i
        BY <2>2
    <2>4. k - 1 \in Nat /\ i <= k - 1 /\ k - 1 < j /\ k - 1 < k /\ (k - 1) + 1 = k
        BY <2>2, <2>3
    <2>5. f[k - 1] \in Nat /\ ~(f[k - 1] < f[i])
        BY <2>2, <2>4
    <2>6. f[k - 1] <= f[k]
        BY <2>4
    <2>7. f[k] < f[i]
        BY <2>2
    <2> HIDE DEF Lower
    <2>8. QED
        BY <2>3, <2>5, <2>6, <2>7
<1>2. f[i] \in Nat /\ f[j] \in Nat
    OBVIOUS
<1>3. QED
    BY <1>1, <1>2

\* Numbers up to m that are closed downwards are those up to their count.
LEMMA InitialSegment ==
    ASSUME NEW m \in Nat, NEW S, S \subseteq 1 .. m,
           \A a \in S, b \in 1 .. m : b < a => b \in S
    PROVE  Cardinality(S) \in 0 .. m /\ S = 1 .. Cardinality(S)
<1>1. PICK c \in 0 .. m : S = 1 .. c
    <2>1. CASE S = 1 .. m
        BY <2>1
    <2>2. CASE S # 1 .. m
        <3> DEFINE Missing == (1 .. m) \ S
        <3>1. Missing \subseteq Nat
            OBVIOUS
        <3>2. Missing # {}
            <4>1. PICK x : ~(x \in S <=> x \in 1 .. m)
                BY <2>2, Zenon
            <4>2. x \in Missing
                BY <4>1
            <4>3. QED
                BY <4>2
        <3>3. PICK n \in Missing : \A k \in Missing : ~(k < n)
            BY <3>1, <3>2, Least
        <3>4. n - 1 \in 0 .. m /\ n \in 1 .. m
            BY <3>3
        <3>5. \A k \in 1 .. m : k \in S <=> k < n
            BY <3>3
        <3>6. \A k : k \in S <=> k \in 1 .. (n - 1)
            <4>1. ASSUME NEW k \in S
                  PROVE  k \in 1 .. (n - 1)
                <5>1. k \in 1 .. m /\ k < n
                    BY <3>5, <4>1
                <5>2. QED
                    BY <3>4, <5>1
            <4>2. ASSUME NEW k \in 1 .. (n - 1)
                  PROVE  k \in S
                <5>1. k \in 1 .. m /\ k < n
                    BY <3>4, <4>2
                <5>2. QED
                    BY <3>5, <5>1
            <4>3. QED
                BY <4>1, <4>2
        <3>7. S = 1 .. (n - 1)
            BY <3>6, Zenon
        <3>8. QED
            BY <3>4, <3>7
    <2>3. QED
        BY <2>1, <2>2
<1>2. Cardinality(1 .. c) = c
    BY <1>1, FS_Interval
<1>3. QED
    BY <1>1, <1>2

----------------------------------------------------------------------------
(* The history of a page, step by step.                                    *)

\* The operation o took page p from its i-th row to the next.
Step(p, i, o) ==
    /\ i \in DOMAIN rows[p] /\ i + 1 \in DOMAIN rows[p]
    /\ OperationFits(p, rows[p][i], o)
    /\ rows[p][i + 1] = OperationApplied(rows[p][i], o)
    /\ rows[p][i + 1].updated = o.at

\* What is used of the rows of a page that exists.
RowsTyped(p) ==
    /\ Len(rows[p]) \in Nat /\ Len(rows[p]) >= 1 /\ DOMAIN rows[p] = 1 .. Len(rows[p])
    /\ rows[p][Len(rows[p])] = pages[p] /\ rows[p][1] = InitialState(p)
    /\ \A i \in DOMAIN rows[p] :
          /\ rows[p][i] \in Row /\ rows[p][i].updated \in Nat /\ rows[p][i].rev \in Nat

LEMMA RowsOfPage ==
    ASSUME IInv, NEW p \in Pages, Exists(p), Recorded(p)
    PROVE  RowsTyped(p)
<1>1. /\ rows[p] \in Seq(Row) /\ Len(rows[p]) > 0
      /\ rows[p][Len(rows[p])] = pages[p] /\ rows[p][1] = InitialState(p)
    BY DEF IInv, TypeOK, HistoryEndsAtPage, Recorded
<1>2. /\ Len(rows[p]) \in Nat /\ Len(rows[p]) >= 1 /\ DOMAIN rows[p] = 1 .. Len(rows[p])
      /\ \A i \in DOMAIN rows[p] : rows[p][i] \in Row
    BY <1>1
<1>3. \A row \in Row : row.updated \in Nat /\ row.rev \in Nat
    BY ConstantsAssumption DEF Row, Times
<1>4. QED
    BY <1>1, <1>2, <1>3 DEF RowsTyped

\* Every operation was a step, every step was an operation, and each table lists
\* its operations in the order of their clocks.
LEMMA HistorySteps ==
    ASSUME IInv, NEW p \in Pages, Exists(p), Recorded(p)
    PROVE  /\ \A o \in Operations(p) : \E i \in DOMAIN rows[p] : Step(p, i, o)
           /\ \A i \in 1 .. Len(rows[p]) - 1 : \E o \in Operations(p) : Step(p, i, o)
           /\ \A a, b \in Operations(p) : a.kind = b.kind /\ a.seq < b.seq => a.at < b.at
<1>1. TypeOK /\ ClockAdvances /\ RowsTyped(p)
    BY RowsOfPage DEF IInv
<1>2. PICK n \in Nat : Len(rows[p]) = n + 1 /\ n = Len(rows[p]) - 1
    <2>1. Len(rows[p]) - 1 \in Nat /\ Len(rows[p]) = (Len(rows[p]) - 1) + 1
        BY <1>1 DEF RowsTyped
    <2>2. QED
        BY <2>1
<1>3. PICK ops \in [1 .. n -> Operations(p)] : Enumerates(p, ops)
    BY <1>2 DEF Recorded
<1>4. \A k, m \in 1 .. n : k < m => ops[k].at < ops[m].at
    BY <1>1, <1>2, <1>3, OperationsAscend
<1>5. \A i \in 1 .. n : Step(p, i, ops[i])
    <2> SUFFICES ASSUME NEW i \in 1 .. n
                 PROVE  Step(p, i, ops[i])
        OBVIOUS
    <2>1. i \in DOMAIN rows[p] /\ i + 1 \in DOMAIN rows[p]
        <3>1. DOMAIN rows[p] = 1 .. n + 1
            BY <1>1, <1>2 DEF RowsTyped
        <3>2. i \in 1 .. n + 1 /\ i + 1 \in 1 .. n + 1
            OBVIOUS
        <3>3. QED
            BY <3>1, <3>2
    <2>2. /\ OperationFits(p, rows[p][i], ops[i])
          /\ rows[p][i + 1] = OperationApplied(rows[p][i], ops[i])
        BY <1>3 DEF Enumerates
    <2>3. ops[i].kind \in Kinds
        BY <1>1, <1>3, OperationTyped
    <2>4. rows[p][i] \in Row
        BY <1>1, <2>1 DEF RowsTyped
    <2>5. QED
        BY <2>1, <2>2, <2>3, <2>4, AppliedClock DEF Step
<1>6. \A o \in Operations(p) : \E i \in 1 .. n : ops[i] = o
    BY <1>3 DEF Enumerates
<1>7. ASSUME NEW a \in Operations(p), NEW b \in Operations(p),
             a.kind = b.kind, a.seq < b.seq
      PROVE  a.at < b.at
    <2>1. PICK i \in 1 .. n, j \in 1 .. n : ops[i] = a /\ ops[j] = b
        BY <1>6
    <2>2. a.seq \in Nat /\ b.seq \in Nat
        BY <1>1, OperationTyped
    <2>3. i # j
        BY <1>7, <2>1, <2>2
    <2>4. ~(j < i)
        <3>1. j < i => b.seq < a.seq
            BY <1>3, <1>7, <2>1 DEF Enumerates, InSequence
        <3>2. QED
            BY <1>7, <2>2, <3>1
    <2>5. i < j
        BY <2>3, <2>4
    <2>6. ops[i].at < ops[j].at
        BY <1>4, <2>5
    <2>7. QED
        BY <2>1, <2>6
<1>8. \A o \in Operations(p) : \E i \in DOMAIN rows[p] : Step(p, i, o)
    <2>1. \A i \in 1 .. n : i \in DOMAIN rows[p]
        BY <1>5 DEF Step
    <2>2. QED
        BY <1>5, <1>6, <2>1
<1>9. QED
    BY <1>2, <1>5, <1>7, <1>8

\* The rows of a page are ordered by their clocks.
LEMMA ClockOrder ==
    ASSUME IInv, NEW p \in Pages, RowsTyped(p), NEW i \in DOMAIN rows[p], NEW j \in DOMAIN rows[p]
    PROVE  /\ i \in Nat /\ j \in Nat /\ i >= 1 /\ j >= 1
           /\ rows[p][i].updated \in Nat /\ rows[p][j].updated \in Nat
           /\ rows[p][i].updated < rows[p][j].updated <=> i < j
           /\ rows[p][i].updated = rows[p][j].updated <=> i = j
<1>1. i \in Nat /\ j \in Nat /\ i >= 1 /\ j >= 1
    BY DEF RowsTyped
<1>2. rows[p][i].updated \in Nat /\ rows[p][j].updated \in Nat
    BY DEF RowsTyped
<1>3. /\ i < j => rows[p][i].updated < rows[p][j].updated
      /\ j < i => rows[p][j].updated < rows[p][i].updated
    BY DEF IInv, ClockAdvances
<1>4. QED
    BY <1>1, <1>2, <1>3

\* What a step changes.
LEMMA OperationEffect ==
    ASSUME NEW p, NEW s \in Row, NEW o, o.kind \in Kinds, OperationFits(p, s, o),
           NEW n, n = OperationApplied(s, o)
    PROVE  /\ IF o.kind = "revision" THEN n.rev = o.seq /\ o.seq = s.rev + 1
                                     ELSE n.rev = s.rev
           /\ IF o.kind = "correction"
              THEN /\ o.row.old = s.occurred /\ o.row.new = n.occurred
                   /\ o.row.new # o.row.old /\ o.row.rev = s.rev
              ELSE n.occurred = s.occurred
           /\ IF o.kind = "title"
              THEN o.row.old = s.title /\ o.row.new = n.title /\ o.row.new # o.row.old
              ELSE n.title = s.title
<1> DEFINE moved == [s EXCEPT !.updated = o.at]
<1>1. /\ moved.rev = s.rev /\ moved.occurred = s.occurred /\ moved.title = s.title
      /\ DOMAIN moved = DOMAIN s
      /\ {"rev", "occurred", "title", "deleted", "place"} \subseteq DOMAIN s
      /\ moved = [k \in DOMAIN s |-> moved[k]]
    BY DEF Row
<1> HIDE DEF moved
<1>2. CASE o.kind = "revision"
    <2>1. n = [moved EXCEPT !.rev = o.seq]
        BY <1>2 DEF OperationApplied, moved
    <2>2. n.rev = o.seq /\ n.occurred = s.occurred /\ n.title = s.title
        BY <1>1, <2>1
    <2>3. QED
        BY <1>2, <2>2 DEF OperationFits
<1>3. CASE o.kind = "correction"
    <2>1. n = [moved EXCEPT !.occurred = o.row.new]
        BY <1>3 DEF OperationApplied, moved
    <2>2. n.rev = s.rev /\ n.occurred = o.row.new /\ n.title = s.title
        BY <1>1, <2>1
    <2>3. QED
        BY <1>3, <2>2 DEF OperationFits
<1>4. CASE o.kind = "lifecycle"
    <2>1. \E d : n = [moved EXCEPT !.deleted = d]
        BY <1>4 DEF OperationApplied, moved
    <2>2. n.rev = s.rev /\ n.occurred = s.occurred /\ n.title = s.title
        BY <1>1, <2>1
    <2>3. QED
        BY <1>4, <2>2
<1>5. CASE o.kind = "title"
    <2>1. n = [moved EXCEPT !.title = o.row.new]
        BY <1>5 DEF OperationApplied, moved
    <2>2. n.rev = s.rev /\ n.occurred = s.occurred /\ n.title = o.row.new
        BY <1>1, <2>1
    <2>3. QED
        BY <1>5, <2>2 DEF OperationFits
<1>6. CASE o.kind = "move"
    <2>1. n = [moved EXCEPT !.place = o.row.new]
        BY <1>6 DEF OperationApplied, moved
    <2>2. n.rev = s.rev /\ n.occurred = s.occurred /\ n.title = s.title
        BY <1>1, <2>1
    <2>3. QED
        BY <1>6, <2>2
<1>7. QED
    BY <1>2, <1>3, <1>4, <1>5, <1>6 DEF Kinds

LEMMA StepEffect ==
    ASSUME IInv, NEW p \in Pages, RowsTyped(p), NEW o \in Operations(p), NEW i, Step(p, i, o),
           NEW s, s = rows[p][i], NEW n, n = rows[p][i + 1]
    PROVE  /\ IF o.kind = "revision" THEN n.rev = o.seq /\ o.seq = s.rev + 1
                                     ELSE n.rev = s.rev
           /\ IF o.kind = "correction"
              THEN /\ o.row.old = s.occurred /\ o.row.new = n.occurred
                   /\ o.row.new # o.row.old /\ o.row.rev = s.rev
              ELSE n.occurred = s.occurred
           /\ IF o.kind = "title"
              THEN o.row.old = s.title /\ o.row.new = n.title /\ o.row.new # o.row.old
              ELSE n.title = s.title
<1>1. s \in Row /\ OperationFits(p, s, o) /\ n = OperationApplied(s, o)
    BY DEF Step, RowsTyped
<1>2. o.kind \in Kinds
    BY OperationTyped DEF IInv
<1>3. QED
    BY <1>1, <1>2, OperationEffect

\* The rows of the tables are operations.
LEMMA TableRowsTyped ==
    ASSUME IInv, NEW p \in Pages
    PROVE  /\ Len(corrections[p]) \in Nat /\ DOMAIN corrections[p] = 1 .. Len(corrections[p])
           /\ Len(titles[p]) \in Nat /\ DOMAIN titles[p] = 1 .. Len(titles[p])
           /\ Len(revisions[p]) \in Nat /\ DOMAIN revisions[p] = 1 .. Len(revisions[p])
           /\ \A n \in DOMAIN corrections[p] :
                 n \in Nat /\ corrections[p][n].at \in Nat /\ corrections[p][n].rev \in Nat
           /\ \A n \in DOMAIN titles[p] : n \in Nat /\ titles[p][n].at \in Nat
           /\ \A n \in DOMAIN revisions[p] : n \in Nat /\ revisions[p][n].at \in Nat
<1>1. /\ corrections[p] \in Seq(CorrectionRow) /\ titles[p] \in Seq(TitleRow)
      /\ revisions[p] \in Seq(RevisionRow)
    BY TablesTyped DEF IInv
<1>2. /\ \A e \in CorrectionRow : e.at \in Nat /\ e.rev \in Nat
      /\ \A e \in TitleRow : e.at \in Nat
      /\ \A e \in RevisionRow : e.at \in Nat
    BY ConstantsAssumption DEF CorrectionRow, TitleRow, RevisionRow, Times
<1>3. /\ \A n \in DOMAIN corrections[p] : n \in Nat /\ corrections[p][n] \in CorrectionRow
      /\ \A n \in DOMAIN titles[p] : n \in Nat /\ titles[p][n] \in TitleRow
      /\ \A n \in DOMAIN revisions[p] : n \in Nat /\ revisions[p][n] \in RevisionRow
    BY <1>1
<1>4. QED
    BY <1>1, <1>2, <1>3

LEMMA CorrectionOperation ==
    ASSUME IInv, NEW p \in Pages, NEW n \in DOMAIN corrections[p]
    PROVE  [at |-> corrections[p][n].at, kind |-> "correction", seq |-> n,
            row |-> corrections[p][n]] \in Operations(p)
BY TableRowsTyped DEF Operations, OperationsOf

LEMMA TitleOperation ==
    ASSUME IInv, NEW p \in Pages, NEW n \in DOMAIN titles[p]
    PROVE  [at |-> titles[p][n].at, kind |-> "title", seq |-> n,
            row |-> titles[p][n]] \in Operations(p)
BY TableRowsTyped DEF Operations, OperationsOf

LEMMA RevisionOperation ==
    ASSUME IInv, NEW p \in Pages, NEW n \in DOMAIN revisions[p], n # 1
    PROVE  [at |-> revisions[p][n].at, kind |-> "revision", seq |-> n,
            row |-> revisions[p][n]] \in Operations(p)
<1>1. n \in 2 .. Len(revisions[p])
    BY TableRowsTyped
<1>2. QED
    BY <1>1 DEF Operations, OperationsOf

LEMMA OperationRows ==
    ASSUME IInv, NEW p \in Pages, NEW o \in Operations(p)
    PROVE  /\ o.kind = "correction" =>
                 o.seq \in DOMAIN corrections[p] /\ o.at = corrections[p][o.seq].at
           /\ o.kind = "title" => o.seq \in DOMAIN titles[p] /\ o.at = titles[p][o.seq].at
BY TableRowsTyped DEF Operations, OperationsOf

\* The correction n took its page from an occurrence to another one.
LEMMA CorrectionStep ==
    ASSUME IInv, NEW p \in Pages, Exists(p), Recorded(p), NEW n \in DOMAIN corrections[p],
           NEW c, c = corrections[p][n]
    PROVE  \E k \in DOMAIN rows[p] :
              /\ k + 1 \in DOMAIN rows[p] /\ rows[p][k + 1].updated = c.at
              /\ rows[p][k].occurred = c.old /\ rows[p][k + 1].occurred = c.new
              /\ rows[p][k].rev = c.rev /\ rows[p][k + 1].rev = c.rev /\ c.new # c.old
<1> DEFINE o == [at |-> c.at, kind |-> "correction", seq |-> n, row |-> c]
<1>1. o \in Operations(p)
    BY CorrectionOperation
<1>2. o.at = c.at /\ o.kind = "correction" /\ o.row = c
    OBVIOUS
<1> HIDE DEF o
<1>3. PICK k \in DOMAIN rows[p] : Step(p, k, o)
    BY <1>1, HistorySteps
<1>4. k + 1 \in DOMAIN rows[p] /\ rows[p][k + 1].updated = c.at
    BY <1>2, <1>3 DEF Step
<1>5. /\ c.old = rows[p][k].occurred /\ c.new = rows[p][k + 1].occurred /\ c.new # c.old
      /\ c.rev = rows[p][k].rev /\ rows[p][k + 1].rev = rows[p][k].rev
    BY <1>1, <1>2, <1>3, RowsOfPage, StepEffect
<1>6. QED
    BY <1>4, <1>5

LEMMA TitleStep ==
    ASSUME IInv, NEW p \in Pages, Exists(p), Recorded(p), NEW n \in DOMAIN titles[p],
           NEW e, e = titles[p][n]
    PROVE  \E k \in DOMAIN rows[p] :
              /\ k + 1 \in DOMAIN rows[p] /\ rows[p][k + 1].updated = e.at
              /\ rows[p][k].title = e.old /\ rows[p][k + 1].title = e.new /\ e.new # e.old
<1> DEFINE o == [at |-> e.at, kind |-> "title", seq |-> n, row |-> e]
<1>1. o \in Operations(p)
    BY TitleOperation
<1>2. o.at = e.at /\ o.kind = "title" /\ o.row = e
    OBVIOUS
<1> HIDE DEF o
<1>3. PICK k \in DOMAIN rows[p] : Step(p, k, o)
    BY <1>1, HistorySteps
<1>4. k + 1 \in DOMAIN rows[p] /\ rows[p][k + 1].updated = e.at
    BY <1>2, <1>3 DEF Step
<1>5. e.old = rows[p][k].title /\ e.new = rows[p][k + 1].title /\ e.new # e.old
    BY <1>1, <1>2, <1>3, RowsOfPage, StepEffect
<1>6. QED
    BY <1>4, <1>5

\* Each table is in the order of its clocks.
LEMMA CorrectionsAscend ==
    ASSUME IInv, NEW p \in Pages, Exists(p), Recorded(p),
           NEW m \in DOMAIN corrections[p], NEW n \in DOMAIN corrections[p], m < n
    PROVE  corrections[p][m].at < corrections[p][n].at
<1> DEFINE op(i) == [at |-> corrections[p][i].at, kind |-> "correction", seq |-> i,
                     row |-> corrections[p][i]]
<1>1. op(m) \in Operations(p) /\ op(n) \in Operations(p)
    BY CorrectionOperation
<1>2. op(m).kind = op(n).kind /\ op(m).seq < op(n).seq
    OBVIOUS
<1>3. op(m).at < op(n).at
    BY <1>1, <1>2, HistorySteps
<1>4. QED
    BY <1>3

LEMMA TitlesAscend ==
    ASSUME IInv, NEW p \in Pages, Exists(p), Recorded(p),
           NEW m \in DOMAIN titles[p], NEW n \in DOMAIN titles[p], m < n
    PROVE  titles[p][m].at < titles[p][n].at
<1> DEFINE op(i) == [at |-> titles[p][i].at, kind |-> "title", seq |-> i,
                     row |-> titles[p][i]]
<1>1. op(m) \in Operations(p) /\ op(n) \in Operations(p)
    BY TitleOperation
<1>2. op(m).kind = op(n).kind /\ op(m).seq < op(n).seq
    OBVIOUS
<1>3. op(m).at < op(n).at
    BY <1>1, <1>2, HistorySteps
<1>4. QED
    BY <1>3

\* Between two rows without a correction the occurrence stays, without a title
\* edit the title, and the revision number never goes back.
LEMMA OccurrenceSteady ==
    ASSUME IInv, NEW p \in Pages, Exists(p), Recorded(p),
           NEW i \in DOMAIN rows[p], NEW j \in DOMAIN rows[p], i <= j,
           \A n \in DOMAIN corrections[p] :
              ~(/\ rows[p][i].updated < corrections[p][n].at
                /\ corrections[p][n].at <= rows[p][j].updated)
    PROVE  rows[p][j].occurred = rows[p][i].occurred
<1> DEFINE f == [k \in Nat |-> rows[p][k].occurred]
<1>1. RowsTyped(p)
    BY RowsOfPage
<1>2. i \in Nat /\ j \in Nat
    BY <1>1, ClockOrder
<1>3. ASSUME NEW k \in Nat, i <= k, k < j
      PROVE  rows[p][k + 1].occurred = rows[p][k].occurred
    <2>1. /\ k \in 1 .. Len(rows[p]) - 1 /\ k \in DOMAIN rows[p] /\ k + 1 \in DOMAIN rows[p]
          /\ i < k + 1 /\ k + 1 <= j
        BY <1>1, <1>2, <1>3 DEF RowsTyped
    <2>2. PICK o \in Operations(p) : Step(p, k, o)
        BY <2>1, HistorySteps
    <2>3. o.kind # "correction"
        <3> SUFFICES ASSUME o.kind = "correction"
                     PROVE  FALSE
            OBVIOUS
        <3>1. o.seq \in DOMAIN corrections[p] /\ corrections[p][o.seq].at = rows[p][k + 1].updated
            BY <2>2, OperationRows DEF Step
        <3>2. rows[p][i].updated < rows[p][k + 1].updated
            BY <1>1, <2>1, ClockOrder
        <3>3. k + 1 = j \/ k + 1 < j
            BY <1>2, <2>1
        <3>4. /\ k + 1 < j => rows[p][k + 1].updated < rows[p][j].updated
              /\ rows[p][k + 1].updated \in Nat /\ rows[p][j].updated \in Nat
            BY <1>1, <2>1, ClockOrder
        <3>5. rows[p][k + 1].updated <= rows[p][j].updated
            BY <3>3, <3>4
        <3>6. QED
            BY <3>1, <3>2, <3>5
    <2>4. QED
        BY <1>1, <2>2, <2>3, StepEffect
<1>4. \A k \in Nat : i <= k /\ k < j => f[k + 1] = f[k]
    BY <1>3
<1> HIDE DEF f
<1>5. f[j] = f[i]
    BY <1>2, <1>4, Steady
<1>6. QED
    BY <1>2, <1>5 DEF f

LEMMA TitleSteady ==
    ASSUME IInv, NEW p \in Pages, Exists(p), Recorded(p),
           NEW i \in DOMAIN rows[p], NEW j \in DOMAIN rows[p], i <= j,
           \A n \in DOMAIN titles[p] :
              ~(/\ rows[p][i].updated < titles[p][n].at
                /\ titles[p][n].at <= rows[p][j].updated)
    PROVE  rows[p][j].title = rows[p][i].title
<1> DEFINE f == [k \in Nat |-> rows[p][k].title]
<1>1. RowsTyped(p)
    BY RowsOfPage
<1>2. i \in Nat /\ j \in Nat
    BY <1>1, ClockOrder
<1>3. ASSUME NEW k \in Nat, i <= k, k < j
      PROVE  rows[p][k + 1].title = rows[p][k].title
    <2>1. /\ k \in 1 .. Len(rows[p]) - 1 /\ k \in DOMAIN rows[p] /\ k + 1 \in DOMAIN rows[p]
          /\ i < k + 1 /\ k + 1 <= j
        BY <1>1, <1>2, <1>3 DEF RowsTyped
    <2>2. PICK o \in Operations(p) : Step(p, k, o)
        BY <2>1, HistorySteps
    <2>3. o.kind # "title"
        <3> SUFFICES ASSUME o.kind = "title"
                     PROVE  FALSE
            OBVIOUS
        <3>1. o.seq \in DOMAIN titles[p] /\ titles[p][o.seq].at = rows[p][k + 1].updated
            BY <2>2, OperationRows DEF Step
        <3>2. rows[p][i].updated < rows[p][k + 1].updated
            BY <1>1, <2>1, ClockOrder
        <3>3. k + 1 = j \/ k + 1 < j
            BY <1>2, <2>1
        <3>4. /\ k + 1 < j => rows[p][k + 1].updated < rows[p][j].updated
              /\ rows[p][k + 1].updated \in Nat /\ rows[p][j].updated \in Nat
            BY <1>1, <2>1, ClockOrder
        <3>5. rows[p][k + 1].updated <= rows[p][j].updated
            BY <3>3, <3>4
        <3>6. QED
            BY <3>1, <3>2, <3>5
    <2>4. QED
        BY <1>1, <2>2, <2>3, StepEffect
<1>4. \A k \in Nat : i <= k /\ k < j => f[k + 1] = f[k]
    BY <1>3
<1> HIDE DEF f
<1>5. f[j] = f[i]
    BY <1>2, <1>4, Steady
<1>6. QED
    BY <1>2, <1>5 DEF f

LEMMA RevisionsRise ==
    ASSUME IInv, NEW p \in Pages, Exists(p), Recorded(p),
           NEW i \in DOMAIN rows[p], NEW j \in DOMAIN rows[p], i <= j
    PROVE  rows[p][i].rev <= rows[p][j].rev
<1> DEFINE f == [k \in Nat |-> rows[p][k].rev]
<1>1. RowsTyped(p)
    BY RowsOfPage
<1>2. i \in Nat /\ j \in Nat
    BY <1>1, ClockOrder
<1>3. \A k \in Nat : i <= k /\ k <= j => k \in DOMAIN rows[p] /\ rows[p][k].rev \in Nat
    BY <1>1, <1>2 DEF RowsTyped
<1>4. ASSUME NEW k \in Nat, i <= k, k < j
      PROVE  rows[p][k].rev <= rows[p][k + 1].rev
    <2>1. /\ k \in 1 .. Len(rows[p]) - 1 /\ k \in DOMAIN rows[p] /\ k + 1 \in DOMAIN rows[p]
        BY <1>1, <1>2, <1>4 DEF RowsTyped
    <2>2. PICK o \in Operations(p) : Step(p, k, o)
        BY <2>1, HistorySteps
    <2>3. rows[p][k].rev \in Nat
        BY <1>1, <2>1 DEF RowsTyped
    <2>4. rows[p][k + 1].rev = rows[p][k].rev \/ rows[p][k + 1].rev = rows[p][k].rev + 1
        BY <1>1, <2>2, StepEffect
    <2>5. QED
        BY <2>3, <2>4
<1>5. /\ \A k \in Nat : i <= k /\ k <= j => f[k] \in Nat
      /\ \A k \in Nat : i <= k /\ k < j => f[k] <= f[k + 1]
    BY <1>3, <1>4
<1> HIDE DEF f
<1>6. f[i] <= f[j]
    BY <1>2, <1>5, Rising
<1>7. QED
    BY <1>2, <1>6 DEF f

\* A revision begins at the row with its clock: earlier rows have lower revision
\* numbers, and no correction was made at that clock.
LEMMA RevisionBegins ==
    ASSUME IInv, NEW p \in Pages, Exists(p), Recorded(p), NEW m \in DOMAIN revisions[p]
    PROVE  /\ \E b \in DOMAIN rows[p] :
                 /\ rows[p][b].rev = m /\ rows[p][b].updated = revisions[p][m].at
                 /\ \A i \in DOMAIN rows[p] : i < b => rows[p][i].rev < m
           /\ \A n \in DOMAIN corrections[p] : corrections[p][n].at # revisions[p][m].at
<1>1. RowsTyped(p) /\ m \in Nat
    BY RowsOfPage, TableRowsTyped
<1>2. CASE m = 1
    <2>1. 1 \in DOMAIN rows[p] /\ rows[p][1] = InitialState(p)
        BY <1>1 DEF RowsTyped
    <2>2. rows[p][1].rev = 1 /\ rows[p][1].updated = revisions[p][1].at
        BY <2>1 DEF InitialState, Recorded
    <2>3. \A i \in DOMAIN rows[p] : ~(i < 1)
        BY <1>1 DEF RowsTyped
    <2>4. ASSUME NEW n \in DOMAIN corrections[p]
          PROVE  corrections[p][n].at # revisions[p][1].at
        <3>1. PICK k \in DOMAIN rows[p] : /\ k + 1 \in DOMAIN rows[p]
                                          /\ rows[p][k + 1].updated = corrections[p][n].at
            BY CorrectionStep
        <3>2. k + 1 # 1
            BY <1>1, <3>1, ClockOrder
        <3>3. rows[p][k + 1].updated # rows[p][1].updated
            BY <1>1, <2>1, <3>1, <3>2, ClockOrder
        <3>4. QED
            BY <2>2, <3>1, <3>3
    <2>5. QED
        BY <1>2, <2>1, <2>2, <2>3, <2>4
<1>3. CASE m # 1
    <2> DEFINE o == [at |-> revisions[p][m].at, kind |-> "revision", seq |-> m,
                     row |-> revisions[p][m]]
    <2>1. o \in Operations(p)
        BY <1>3, RevisionOperation
    <2>2. o.at = revisions[p][m].at /\ o.kind = "revision" /\ o.seq = m
        OBVIOUS
    <2> HIDE DEF o
    <2>3. PICK k \in DOMAIN rows[p] : Step(p, k, o)
        BY <2>1, HistorySteps
    <2>4. k + 1 \in DOMAIN rows[p] /\ rows[p][k + 1].updated = revisions[p][m].at
        BY <2>2, <2>3 DEF Step
    <2>5. rows[p][k + 1].rev = m /\ m = rows[p][k].rev + 1
        BY <1>1, <2>1, <2>2, <2>3, StepEffect
    <2>6. ASSUME NEW i \in DOMAIN rows[p], i < k + 1
          PROVE  rows[p][i].rev < m
        <3>1. i <= k
            BY <1>1, <2>6, ClockOrder
        <3>2. rows[p][i].rev <= rows[p][k].rev
            BY <3>1, RevisionsRise
        <3>3. rows[p][i].rev \in Nat /\ rows[p][k].rev \in Nat
            BY <1>1 DEF RowsTyped
        <3>4. QED
            BY <2>5, <3>2, <3>3
    <2>7. ASSUME NEW n \in DOMAIN corrections[p], corrections[p][n].at = revisions[p][m].at
          PROVE  FALSE
        <3> DEFINE c == [at |-> corrections[p][n].at, kind |-> "correction", seq |-> n,
                         row |-> corrections[p][n]]
        <3>1. c \in Operations(p)
            BY CorrectionOperation
        <3>2. c.at = o.at /\ c.kind = "correction"
            BY <2>2, <2>7
        <3> HIDE DEF c
        <3>3. c = o
            BY <2>1, <3>1, <3>2, OperationsDiffer
        <3>4. QED
            BY <2>2, <3>2, <3>3
    <2>8. QED
        BY <2>4, <2>5, <2>6, <2>7
<1>4. QED
    BY <1>2, <1>3

\* A correction is of an earlier revision if and only if it was made before.
LEMMA CorrectionInRevision ==
    ASSUME IInv, NEW p \in Pages, Exists(p), Recorded(p), NEW m \in DOMAIN revisions[p],
           NEW n \in DOMAIN corrections[p], NEW c, c = corrections[p][n]
    PROVE  c.rev < m <=> c.at < revisions[p][m].at
<1>1. RowsTyped(p) /\ m \in Nat /\ c.rev \in Nat
    BY RowsOfPage, TableRowsTyped
<1>2. PICK b \in DOMAIN rows[p] :
         /\ rows[p][b].rev = m /\ rows[p][b].updated = revisions[p][m].at
         /\ \A i \in DOMAIN rows[p] : i < b => rows[p][i].rev < m
    BY RevisionBegins
<1>3. PICK k \in DOMAIN rows[p] : /\ k + 1 \in DOMAIN rows[p]
                                  /\ rows[p][k + 1].updated = c.at /\ rows[p][k + 1].rev = c.rev
    BY CorrectionStep
<1>4. k + 1 < b <=> c.at < revisions[p][m].at
    BY <1>1, <1>2, <1>3, ClockOrder
<1>5. k + 1 < b => c.rev < m
    BY <1>2, <1>3
<1>6. ~(k + 1 < b) => ~(c.rev < m)
    <2>1. ~(k + 1 < b) => b <= k + 1
        BY <1>1, <1>2, <1>3, ClockOrder
    <2>2. b <= k + 1 => m <= c.rev
        BY <1>2, <1>3, RevisionsRise
    <2>3. QED
        BY <1>1, <2>1, <2>2
<1>7. QED
    BY <1>4, <1>5, <1>6

\* From a correction to the next one the page has the occurrence it set.
LEMMA OccurrenceSince ==
    ASSUME IInv, NEW p \in Pages, Exists(p), Recorded(p), NEW j \in DOMAIN rows[p],
           NEW n \in DOMAIN corrections[p], corrections[p][n].at <= rows[p][j].updated,
           \A m \in DOMAIN corrections[p] : n < m => rows[p][j].updated < corrections[p][m].at
    PROVE  rows[p][j].occurred = corrections[p][n].new
<1>1. RowsTyped(p)
    BY RowsOfPage
<1>2. PICK k \in DOMAIN rows[p] :
         /\ k + 1 \in DOMAIN rows[p] /\ rows[p][k + 1].updated = corrections[p][n].at
         /\ rows[p][k + 1].occurred = corrections[p][n].new
    BY CorrectionStep
<1>3. k + 1 <= j
    BY <1>1, <1>2, ClockOrder
<1>4. ASSUME NEW m \in DOMAIN corrections[p], rows[p][k + 1].updated < corrections[p][m].at,
             corrections[p][m].at <= rows[p][j].updated
      PROVE  FALSE
    <2>1. n \in Nat /\ m \in Nat /\ corrections[p][n].at \in Nat /\ corrections[p][m].at \in Nat
        BY TableRowsTyped
    <2>2. m < n => corrections[p][m].at < corrections[p][n].at
        BY CorrectionsAscend
    <2>3. rows[p][j].updated \in Nat
        BY <1>1, ClockOrder
    <2>4. m # n
        BY <1>2, <1>4, <2>1
    <2>5. n < m
        BY <1>2, <1>4, <2>1, <2>2, <2>4
    <2>6. QED
        BY <1>4, <2>1, <2>3, <2>5
<1>5. QED
    BY <1>2, <1>3, <1>4, OccurrenceSteady

\* Before the first correction it has the one that correction replaced.
LEMMA OccurrenceUntil ==
    ASSUME IInv, NEW p \in Pages, Exists(p), Recorded(p), NEW j \in DOMAIN rows[p],
           NEW n \in DOMAIN corrections[p], rows[p][j].updated < corrections[p][n].at,
           \A m \in DOMAIN corrections[p] : rows[p][j].updated < corrections[p][m].at => n <= m
    PROVE  rows[p][j].occurred = corrections[p][n].old
<1>1. RowsTyped(p)
    BY RowsOfPage
<1>2. PICK k \in DOMAIN rows[p] :
         /\ k + 1 \in DOMAIN rows[p] /\ rows[p][k + 1].updated = corrections[p][n].at
         /\ rows[p][k].occurred = corrections[p][n].old
    BY CorrectionStep
<1>3. j <= k
    <2>1. j < k + 1
        BY <1>1, <1>2, ClockOrder
    <2>2. j \in Nat /\ k \in Nat
        BY <1>1, ClockOrder
    <2>3. QED
        BY <2>1, <2>2
<1>4. ASSUME NEW m \in DOMAIN corrections[p], rows[p][j].updated < corrections[p][m].at,
             corrections[p][m].at <= rows[p][k].updated
      PROVE  FALSE
    <2>1. n \in Nat /\ m \in Nat /\ corrections[p][n].at \in Nat /\ corrections[p][m].at \in Nat
        BY TableRowsTyped
    <2>2. n < m => corrections[p][n].at < corrections[p][m].at
        BY CorrectionsAscend
    <2>3. n <= m
        BY <1>4
    <2>4. corrections[p][n].at <= corrections[p][m].at
        BY <2>1, <2>2, <2>3
    <2>5. k \in Nat
        BY <1>1, ClockOrder
    <2>6. k < k + 1
        BY <2>5
    <2>7. /\ rows[p][k].updated < rows[p][k + 1].updated
          /\ rows[p][k].updated \in Nat /\ rows[p][k + 1].updated \in Nat
        BY <1>1, <1>2, <2>6, ClockOrder
    <2>8. QED
        BY <1>2, <1>4, <2>1, <2>4, <2>7
<1>5. QED
    BY <1>2, <1>3, <1>4, OccurrenceSteady

\* The occurrence of a page that counts S of its corrections.
OccurrenceAfter(p, S) ==
    IF corrections[p] = <<>> THEN pages[p].occurred
    ELSE IF S = {} THEN corrections[p][1].old
    ELSE corrections[p][Cardinality(S)].new

\* Counting the corrections before a row that is none yields its occurrence.
LEMMA OccurrenceCounted ==
    ASSUME IInv, NEW p \in Pages, Exists(p), Recorded(p), NEW b \in DOMAIN rows[p],
           \A n \in DOMAIN corrections[p] : corrections[p][n].at # rows[p][b].updated,
           NEW S, S = {n \in DOMAIN corrections[p] : corrections[p][n].at < rows[p][b].updated}
    PROVE  OccurrenceAfter(p, S) = rows[p][b].occurred
<1>1. RowsTyped(p)
    BY RowsOfPage
<1>2. /\ Len(corrections[p]) \in Nat /\ DOMAIN corrections[p] = 1 .. Len(corrections[p])
      /\ \A n \in DOMAIN corrections[p] : n \in Nat /\ corrections[p][n].at \in Nat
      /\ corrections[p] \in Seq(CorrectionRow)
    BY TableRowsTyped, TablesTyped DEF IInv
<1>3. rows[p][b].updated \in Nat /\ b \in Nat /\ b <= Len(rows[p])
    BY <1>1, ClockOrder DEF RowsTyped
<1>4. CASE corrections[p] = <<>>
    <2>1. DOMAIN corrections[p] = {}
        BY <1>4
    <2>2. Len(rows[p]) \in DOMAIN rows[p] /\ rows[p][Len(rows[p])] = pages[p]
        BY <1>1 DEF RowsTyped
    <2>3. rows[p][Len(rows[p])].occurred = rows[p][b].occurred
        BY <1>3, <2>1, <2>2, OccurrenceSteady
    <2>4. QED
        BY <1>4, <2>2, <2>3 DEF OccurrenceAfter
<1>5. CASE corrections[p] # <<>> /\ S = {}
    <2>1. 1 \in DOMAIN corrections[p]
        BY <1>2, <1>5
    <2>2. \A n \in DOMAIN corrections[p] : rows[p][b].updated < corrections[p][n].at /\ 1 <= n
        BY <1>2, <1>3, <1>5
    <2>3. rows[p][b].occurred = corrections[p][1].old
        BY <2>1, <2>2, OccurrenceUntil
    <2>4. QED
        BY <1>5, <2>3 DEF OccurrenceAfter
<1>6. CASE corrections[p] # <<>> /\ S # {}
    <2>1. /\ S \subseteq 1 .. Len(corrections[p])
          /\ \A x \in S, y \in 1 .. Len(corrections[p]) : y < x => y \in S
        <3>1. S \subseteq 1 .. Len(corrections[p])
            BY <1>2
        <3>2. ASSUME NEW x \in S, NEW y \in 1 .. Len(corrections[p]), y < x
              PROVE  y \in S
            <4>1. corrections[p][y].at < corrections[p][x].at
                BY <1>2, <3>2, CorrectionsAscend
            <4>2. corrections[p][x].at < rows[p][b].updated /\ x \in DOMAIN corrections[p]
                OBVIOUS
            <4>3. corrections[p][x].at \in Nat /\ corrections[p][y].at \in Nat
                BY <1>2, <4>2
            <4>4. corrections[p][y].at < rows[p][b].updated
                BY <1>3, <4>1, <4>2, <4>3
            <4>5. QED
                BY <1>2, <4>4
        <3>3. QED
            BY <3>1, <3>2
    <2> DEFINE n == Cardinality(S)
    <2>2. n \in 0 .. Len(corrections[p]) /\ S = 1 .. n
        BY <1>2, <2>1, InitialSegment, Zenon
    <2> HIDE DEF n
    <2>3. n \in S
        BY <1>6, <2>2
    <2>4. n \in DOMAIN corrections[p] /\ corrections[p][n].at <= rows[p][b].updated
        BY <1>2, <1>3, <2>3
    <2>5. ASSUME NEW m \in DOMAIN corrections[p], n < m
          PROVE  rows[p][b].updated < corrections[p][m].at
        <3>1. m \notin S
            <4>1. m \in Nat /\ n \in Nat
                BY <1>2, <2>2
            <4>2. m \notin 1 .. n
                BY <2>5, <4>1
            <4>3. QED
                BY <2>2, <4>2, Zenon
        <3>2. ~(corrections[p][m].at < rows[p][b].updated)
            BY <3>1
        <3>3. QED
            BY <1>2, <1>3, <3>2
    <2>6. rows[p][b].occurred = corrections[p][n].new
        BY <2>4, <2>5, OccurrenceSince
    <2>7. QED
        BY <1>6, <2>6 DEF OccurrenceAfter, n
<1>7. QED
    BY <1>4, <1>5, <1>6

LEMMA OccurrenceAtRevision ==
    ASSUME IInv, NEW p \in Pages, Exists(p), Recorded(p), NEW m \in DOMAIN revisions[p],
           NEW b \in DOMAIN rows[p], rows[p][b].updated = revisions[p][m].at
    PROVE  OccurrenceAt(p, revisions[p][m].at) = rows[p][b].occurred
<1> DEFINE S == {n \in DOMAIN corrections[p] : corrections[p][n].at < revisions[p][m].at}
<1>1. \A n \in DOMAIN corrections[p] : corrections[p][n].at # revisions[p][m].at
    BY RevisionBegins
<1>2. OccurrenceAfter(p, S) = rows[p][b].occurred
    BY <1>1, OccurrenceCounted
<1>3. OccurrenceAt(p, revisions[p][m].at) = OccurrenceAfter(p, S)
    BY DEF OccurrenceAt, OccurrenceAfter
<1>4. QED
    BY <1>2, <1>3

\* The title at the clock of a row is the title of that row.
LEMMA TitleAtRow ==
    ASSUME IInv, NEW p \in Pages, Exists(p), Recorded(p), NEW b \in DOMAIN rows[p],
           NEW at, at = rows[p][b].updated
    PROVE  TitleAt(p, at) = rows[p][b].title
<1> DEFINE later == {n \in DOMAIN titles[p] : titles[p][n].at > at}
<1>1. RowsTyped(p)
    BY RowsOfPage
<1>2. \A n \in DOMAIN titles[p] : n \in Nat /\ titles[p][n].at \in Nat
    BY TableRowsTyped
<1>3. at \in Nat /\ b \in Nat /\ b <= Len(rows[p])
    BY <1>1, ClockOrder DEF RowsTyped
<1>4. CASE later = {}
    <2>1. \A n \in DOMAIN titles[p] : ~(at < titles[p][n].at)
        BY <1>2, <1>3, <1>4
    <2>2. Len(rows[p]) \in DOMAIN rows[p] /\ rows[p][Len(rows[p])] = pages[p]
        BY <1>1 DEF RowsTyped
    <2>3. rows[p][Len(rows[p])].title = rows[p][b].title
        BY <1>3, <2>1, <2>2, TitleSteady
    <2>4. QED
        BY <1>4, <2>2, <2>3 DEF TitleAt
<1>5. CASE later # {}
    <2> DEFINE n == CHOOSE i \in later : \A j \in later : i <= j
    <2>1. n \in later /\ \A j \in later : n <= j
        <3>1. later \subseteq Nat
            BY <1>2
        <3>2. PICK i \in later : \A j \in later : ~(j < i)
            BY <1>5, <3>1, Least
        <3>3. \A j \in later : i <= j
            BY <3>1, <3>2
        <3> HIDE DEF later
        <3>4. QED
            BY <3>2, <3>3
    <2>2. TitleAt(p, at) = titles[p][n].old
        BY <1>5 DEF TitleAt
    <2> HIDE DEF n
    <2>3. n \in DOMAIN titles[p] /\ at < titles[p][n].at
        BY <1>2, <1>3, <2>1
    <2>4. PICK k \in DOMAIN rows[p] :
             /\ k + 1 \in DOMAIN rows[p] /\ rows[p][k + 1].updated = titles[p][n].at
             /\ rows[p][k].title = titles[p][n].old
        BY <2>3, TitleStep
    <2>5. k \in Nat /\ k < k + 1
        BY <1>1, ClockOrder
    <2>6. b <= k
        <3>1. b < k + 1
            BY <1>1, <2>3, <2>4, ClockOrder
        <3>2. QED
            BY <1>3, <2>5, <3>1
    <2>7. ASSUME NEW j \in DOMAIN titles[p], rows[p][b].updated < titles[p][j].at,
                 titles[p][j].at <= rows[p][k].updated
          PROVE  FALSE
        <3>1. n <= j
            BY <1>2, <1>3, <2>1, <2>7
        <3>2. n < j => titles[p][n].at < titles[p][j].at
            BY <2>3, TitlesAscend
        <3>3. n \in Nat /\ j \in Nat /\ titles[p][n].at \in Nat /\ titles[p][j].at \in Nat
            BY <1>2, <2>3
        <3>4. titles[p][n].at <= titles[p][j].at
            BY <3>1, <3>2, <3>3
        <3>5. /\ rows[p][k].updated < rows[p][k + 1].updated
              /\ rows[p][k].updated \in Nat /\ rows[p][k + 1].updated \in Nat
            BY <1>1, <2>4, <2>5, ClockOrder
        <3>6. QED
            BY <2>4, <2>7, <3>3, <3>4, <3>5
    <2>8. rows[p][k].title = rows[p][b].title
        BY <2>6, <2>7, TitleSteady
    <2>9. QED
        BY <2>2, <2>4, <2>8
<1>6. QED
    BY <1>4, <1>5

----------------------------------------------------------------------------
(* A backup accepts the tables of a page.                                  *)

LEMMA PageGraphAccepted ==
    ASSUME IInv, NEW p \in Pages, Exists(p)
    PROVE  RequirePageGraph(p) /\ RequireRevisionFiles(p)
<1>1. revisions[p] \in Seq(RevisionRow) /\ pages[p] \in Row
    BY TablesTyped DEF IInv, Exists
<1>2. Len(revisions[p]) = pages[p].rev
    BY DEF IInv, HistoryEndsAtPage
<1>3. pages[p].rev \in Nat /\ pages[p].rev >= 1
    BY <1>1, ConstantsAssumption DEF Row
<1>4. /\ pages[p].rev \in DOMAIN revisions[p]
      /\ \A n \in DOMAIN revisions[p] : revisions[p][n] \in RevisionRow
    BY <1>1, <1>2, <1>3
<1>5. \A v \in RevisionRow : /\ v.sourceAt # NoTime /\ v.content \in Contents
                             /\ v.format \in {"legacy_markdown", "file_set_v1"}
    BY DEF RevisionRow, Times, NoTime
<1>6. QED
    BY <1>2, <1>4, <1>5 DEF RequirePageGraph, RequireRevisionFiles

LEMMA CorrectionGraph ==
    ASSUME IInv, NEW p \in Pages, Exists(p), Recorded(p), NEW n \in DOMAIN corrections[p],
           NEW c, c = corrections[p][n]
    PROVE  /\ c.new # c.old /\ c.at >= pages[p].created /\ c.at <= pages[p].updated
           /\ WithinRevision(p, c)
<1>1. RowsTyped(p) /\ c.at \in Nat /\ c.rev \in Nat
    BY RowsOfPage, TableRowsTyped
<1>2. PICK k \in DOMAIN rows[p] :
         /\ k + 1 \in DOMAIN rows[p] /\ rows[p][k + 1].updated = c.at
         /\ rows[p][k].rev = c.rev /\ c.new # c.old
    BY CorrectionStep
<1>3. /\ 1 \in DOMAIN rows[p] /\ Len(rows[p]) \in DOMAIN rows[p]
      /\ rows[p][1].updated = pages[p].created /\ rows[p][1].rev = 1
      /\ rows[p][Len(rows[p])] = pages[p]
    BY <1>1 DEF RowsTyped, InitialState
<1>4. c.at >= pages[p].created
    <2>1. 1 < k + 1
        BY <1>1, <1>2, ClockOrder
    <2>2. rows[p][1].updated < rows[p][k + 1].updated /\ rows[p][1].updated \in Nat
        BY <1>1, <1>2, <1>3, <2>1, ClockOrder
    <2>3. QED
        BY <1>1, <1>2, <1>3, <2>2
<1>5. c.at <= pages[p].updated
    <2>1. k + 1 <= Len(rows[p]) /\ Len(rows[p]) \in Nat /\ k \in Nat
        BY <1>1, <1>2 DEF RowsTyped
    <2>2. k + 1 = Len(rows[p]) \/ k + 1 < Len(rows[p])
        BY <2>1
    <2>3. /\ k + 1 < Len(rows[p]) => rows[p][k + 1].updated < rows[p][Len(rows[p])].updated
          /\ rows[p][Len(rows[p])].updated \in Nat
        BY <1>1, <1>2, <1>3, ClockOrder
    <2>4. CASE k + 1 = Len(rows[p])
        <3>1. c.at = pages[p].updated
            BY <1>2, <1>3, <2>4
        <3>2. QED
            BY <1>1, <3>1
    <2>5. CASE k + 1 < Len(rows[p])
        <3>1. c.at < pages[p].updated /\ pages[p].updated \in Nat
            BY <1>2, <1>3, <2>3, <2>5
        <3>2. QED
            BY <1>1, <3>1
    <2>6. QED
        BY <2>2, <2>4, <2>5
<1>6. WithinRevision(p, c)
    <2>1. /\ Len(revisions[p]) = pages[p].rev /\ DOMAIN revisions[p] = 1 .. Len(revisions[p])
          /\ Len(revisions[p]) \in Nat
          /\ \A m \in DOMAIN revisions[p] : revisions[p][m].at \in Nat
        BY TableRowsTyped DEF IInv, HistoryEndsAtPage
    <2>2. 1 <= k /\ k <= Len(rows[p])
        BY <1>1, <1>2 DEF RowsTyped
    <2>3. 1 <= c.rev /\ c.rev <= pages[p].rev
        BY <1>2, <1>3, <2>2, RevisionsRise
    <2>4. c.rev \in DOMAIN revisions[p]
        BY <1>1, <2>1, <2>3
    <2>5. c.at >= revisions[p][c.rev].at
        <3>1. ~(c.rev < c.rev)
            BY <1>1
        <3>2. ~(c.at < revisions[p][c.rev].at)
            BY <2>4, <3>1, CorrectionInRevision
        <3>3. QED
            BY <1>1, <2>1, <2>4, <3>2
    <2>6. c.rev < pages[p].rev => c.at < revisions[p][c.rev + 1].at
        <3> SUFFICES ASSUME c.rev < pages[p].rev
                     PROVE  c.at < revisions[p][c.rev + 1].at
            OBVIOUS
        <3>1. c.rev + 1 \in DOMAIN revisions[p] /\ c.rev < c.rev + 1
            BY <1>1, <2>1
        <3>2. QED
            BY <3>1, CorrectionInRevision
    <2>7. QED
        BY <2>4, <2>5, <2>6 DEF WithinRevision
<1>7. QED
    BY <1>2, <1>4, <1>5, <1>6

LEMMA OccurrenceGraphAccepted ==
    ASSUME IInv, NEW p \in Pages, Exists(p), Recorded(p), EventsBooked(p)
    PROVE  RequireOccurrenceGraph(p)
<1> DEFINE chain == corrections[p]
<1>1. RowsTyped(p)
    BY RowsOfPage
<1>2. /\ Len(chain) \in Nat /\ DOMAIN chain = 1 .. Len(chain)
      /\ \A n \in DOMAIN chain : n \in Nat /\ chain[n].at \in Nat /\ chain[n].rev \in Nat
    BY TableRowsTyped
<1>3. ASSUME NEW i \in DOMAIN chain
      PROVE  /\ chain[i].audit # 0 =>
                   AuditedAs(chain[i].audit, "content.page.occurrence.correct", p, chain[i].at)
             /\ chain[i].new # chain[i].old
             /\ chain[i].at >= pages[p].created /\ chain[i].at <= pages[p].updated
             /\ WithinRevision(p, chain[i])
    <2>1. chain[i] \in Range(chain)
        BY <1>3 DEF Range
    <2>2. CorrectionBooked(p, chain[i])
        BY <2>1 DEF EventsBooked
    <2>3. QED
        BY <1>3, <2>2, CorrectionGraph DEF CorrectionBooked
<1>4. ASSUME NEW i \in 1 .. Len(chain) - 1
      PROVE  /\ chain[i + 1].old = chain[i].new
             /\ chain[i + 1].at > chain[i].at
             /\ chain[i + 1].rev >= chain[i].rev
    <2>1. i \in DOMAIN chain /\ i + 1 \in DOMAIN chain /\ i < i + 1
        BY <1>2, <1>4
    <2>2. chain[i].at < chain[i + 1].at
        BY <2>1, CorrectionsAscend
    <2>3. PICK k \in DOMAIN rows[p] :
             /\ k + 1 \in DOMAIN rows[p] /\ rows[p][k + 1].updated = chain[i].at
             /\ rows[p][k + 1].rev = chain[i].rev
        BY <2>1, CorrectionStep
    <2>4. PICK m \in DOMAIN rows[p] :
             /\ m + 1 \in DOMAIN rows[p] /\ rows[p][m + 1].updated = chain[i + 1].at
             /\ rows[p][m].rev = chain[i + 1].rev /\ rows[p][m].occurred = chain[i + 1].old
        BY <2>1, CorrectionStep
    <2>5. k + 1 <= m
        <3>1. k + 1 < m + 1
            BY <1>1, <2>2, <2>3, <2>4, ClockOrder
        <3>2. k \in Nat /\ m \in Nat
            BY <1>1, ClockOrder
        <3>3. QED
            BY <3>1, <3>2
    <2>6. chain[i].rev <= chain[i + 1].rev
        BY <2>3, <2>4, <2>5, RevisionsRise
    <2>7. chain[i].at <= rows[p][m].updated
        <3>1. k + 1 = m \/ k + 1 < m
            BY <1>1, <2>3, <2>4, <2>5, ClockOrder
        <3>2. /\ k + 1 < m => rows[p][k + 1].updated < rows[p][m].updated
              /\ rows[p][k + 1].updated \in Nat /\ rows[p][m].updated \in Nat
            BY <1>1, <2>3, <2>4, ClockOrder
        <3>3. QED
            BY <2>3, <3>1, <3>2
    <2>8. ASSUME NEW j \in DOMAIN chain, i < j
          PROVE  rows[p][m].updated < chain[j].at
        <3>1. m < m + 1
            BY <1>1, ClockOrder
        <3>2. rows[p][m].updated < chain[i + 1].at /\ rows[p][m].updated \in Nat
            BY <1>1, <2>4, <3>1, ClockOrder
        <3>3. j = i + 1 \/ i + 1 < j
            BY <1>2, <2>1, <2>8
        <3>4. i + 1 < j => chain[i + 1].at < chain[j].at
            BY <2>1, CorrectionsAscend
        <3>5. chain[i + 1].at \in Nat /\ chain[j].at \in Nat
            BY <1>2, <2>1
        <3>6. QED
            BY <3>2, <3>3, <3>4, <3>5
    <2>9. rows[p][m].occurred = chain[i].new
        BY <2>1, <2>7, <2>8, OccurrenceSince
    <2>10. QED
        BY <1>2, <2>1, <2>2, <2>4, <2>6, <2>9
<1>5. ASSUME chain # <<>>
      PROVE  Last(chain).new = pages[p].occurred
    <2>1. chain \in Seq(CorrectionRow)
        BY TablesTyped DEF IInv
    <2>2. Len(chain) \in DOMAIN chain
        BY <1>5, <2>1
    <2>3. Len(rows[p]) \in DOMAIN rows[p] /\ rows[p][Len(rows[p])] = pages[p]
        BY <1>1 DEF RowsTyped
    <2>4. chain[Len(chain)].at <= pages[p].updated
        BY <2>2, CorrectionGraph
    <2>5. \A m \in DOMAIN chain : ~(Len(chain) < m)
        BY <1>2
    <2>6. pages[p].occurred = chain[Len(chain)].new
        BY <2>2, <2>3, <2>4, <2>5, OccurrenceSince
    <2>7. QED
        BY <2>6 DEF Last
<1>6. QED
    BY <1>3, <1>4, <1>5 DEF RequireOccurrenceGraph

LEMMA TitleEventsAccepted ==
    ASSUME IInv, NEW p \in Pages, Exists(p), Recorded(p), EventsBooked(p)
    PROVE  RequireTitleEvents(p)
<1>1. ASSUME NEW i \in DOMAIN titles[p]
      PROVE  /\ titles[p][i].old # titles[p][i].new
             /\ AuditedAs(titles[p][i].audit, "content.page.title.edit", p, titles[p][i].at)
    <2>1. titles[p][i] \in Range(titles[p])
        BY <1>1 DEF Range
    <2>2. TitleBooked(p, titles[p][i])
        BY <2>1 DEF EventsBooked
    <2>3. titles[p][i].new # titles[p][i].old
        BY <1>1, TitleStep
    <2>4. QED
        BY <2>2, <2>3 DEF TitleBooked
<1>2. QED
    BY <1>1 DEF RequireTitleEvents

----------------------------------------------------------------------------
(* One receipt for one change.                                             *)

\* The route of a receipt says what it left behind.
LEMMA RouteGrounds ==
    ASSUME NEW r, Grounds(r), NEW route, route = r.key[2]
    PROVE  /\ route \in {"archive_create", "archive_revise"} => ArchiveGrounds(r)
           /\ route = "file_set_create" => FileSetCreateGrounds(r)
           /\ route = "file_set_append" => FileSetAppendGrounds(r)
           /\ route = "correct_occurrence" => CorrectionGrounds(r)
           /\ route \in {"delete", "restore"} => LifecycleGrounds(r)
           /\ route \in {"page_delete", "page_restore"} =>
                 \E i \in DOMAIN rows[r.page] : LibraryLifecycleGrounds(r, rows[r.page][i])
           /\ route \in {"page_move", "master_move"} =>
                 \E i \in DOMAIN rows[r.page] : MoveGrounds(r, rows[r.page][i])
<1>1. ArchiveGrounds(r) => route \in {"archive_create", "archive_revise"}
    BY DEF ArchiveGrounds
<1>2. FileSetCreateGrounds(r) => route = "file_set_create"
    BY DEF FileSetCreateGrounds
<1>3. FileSetAppendGrounds(r) => route = "file_set_append"
    BY DEF FileSetAppendGrounds
<1>4. CorrectionGrounds(r) => route = "correct_occurrence"
    BY DEF CorrectionGrounds
<1>5. LifecycleGrounds(r) => route \in {"delete", "restore"}
    BY DEF LifecycleGrounds
<1>6. MasterFileSetGrounds(r) => route \in {"master_create", "master_revise"}
    BY DEF MasterFileSetGrounds
<1>7. \A b : LibraryLifecycleGrounds(r, b) => route \in {"page_delete", "page_restore"}
    BY DEF LibraryLifecycleGrounds
<1>8. \A b : MoveGrounds(r, b) => route \in {"page_move", "master_move"}
    BY DEF MoveGrounds
<1>9. QED
    BY <1>1, <1>2, <1>3, <1>4, <1>5, <1>6, <1>7, <1>8 DEF Grounds

\* The request that stored r wrote the audit of that page and clock.
Dated(r, at) == r.changed /\ \E action \in DatedAudits : Certified(r, action, at)

\* Two receipts of changes at one clock of one page are the same.
LEMMA SameChange ==
    ASSUME ExactlyOnce, Ledger, DatedAuditsDiffer, NEW r \in receipts, NEW s \in receipts,
           r.page = s.page, NEW at, Dated(r, at), Dated(s, at)
    PROVE  r = s
<1>1. PICK i : i = r.audit /\ i \in DOMAIN audits
    BY DEF Dated, Certified
<1>2. s.audit = i
    <2>1. PICK a \in DatedAudits : Certified(r, a, at)
        BY DEF Dated
    <2>2. PICK b \in DatedAudits : Certified(s, b, at)
        BY DEF Dated
    <2>3. /\ r.audit \in DOMAIN audits /\ audits[r.audit].action = a
          /\ audits[r.audit].page = r.page /\ audits[r.audit].at = at
        BY <2>1 DEF Certified
    <2>4. /\ s.audit \in DOMAIN audits /\ audits[s.audit].action = b
          /\ audits[s.audit].page = s.page /\ audits[s.audit].at = at
        BY <2>2 DEF Certified
    <2>5. QED
        BY <1>1, <2>3, <2>4 DEF DatedAuditsDiffer
<1>3. r \in ChangesOf(i) /\ s \in ChangesOf(i)
    BY <1>1, <1>2 DEF ChangesOf, Dated
<1>4. IsFiniteSet(ChangesOf(i))
    BY FS_Subset DEF ChangesOf, Ledger
<1>5. Cardinality(ChangesOf(i)) = 0 \/ Cardinality(ChangesOf(i)) = 1
    BY <1>1, ExactlyOnceParts
<1>6. ChangesOf(i) = {} \/ \E x : ChangesOf(i) = {x}
    BY <1>4, <1>5, FS_EmptySet, FS_Singleton
<1>7. QED
    BY <1>3, <1>6

\* A set of such receipts with a member counts one.
LEMMA OneReceipt ==
    ASSUME ExactlyOnce, Ledger, DatedAuditsDiffer, NEW S \in SUBSET receipts, NEW p, NEW at,
           \A r \in S : r.page = p /\ Dated(r, at), S # {}
    PROVE  Cardinality(S) = 1
<1>1. PICK r \in S : TRUE
    OBVIOUS
<1>2. \A s \in S : s = r
    BY <1>1, SameChange
<1>3. S = {r}
    BY <1>1, <1>2
<1>4. QED
    BY <1>3, FS_Singleton

\* Receipts of lifecycle transitions and of moves report dated changes.
LEMMA LifecycleDated ==
    ASSUME NEW r, Grounds(r), r.key[2] \in {"delete", "restore", "page_delete", "page_restore"}
    PROVE  Dated(r, r.stamp)
<1>1. CASE r.key[2] \in {"delete", "restore"}
    <2>1. LifecycleGrounds(r)
        BY <1>1, RouteGrounds
    <2>2. PICK action \in {"delete", "restore"} :
             r.changed /\ Certified(r, ArchiveAudit[action], r.stamp)
        BY <2>1 DEF LifecycleGrounds
    <2>3. ArchiveAudit[action] \in DatedAudits
        BY DEF ArchiveAudit, DatedAudits
    <2>4. QED
        BY <2>2, <2>3 DEF Dated
<1>2. CASE r.key[2] \in {"page_delete", "page_restore"}
    <2>1. PICK b : LibraryLifecycleGrounds(r, b)
        BY <1>2, RouteGrounds
    <2>2. PICK action \in {"delete", "restore"} :
             r.changed /\ Certified(r, PageAudit[action], r.stamp)
        BY <2>1 DEF LibraryLifecycleGrounds
    <2>3. PageAudit[action] \in DatedAudits
        BY DEF PageAudit, DatedAudits
    <2>4. QED
        BY <2>2, <2>3 DEF Dated
<1>3. QED
    BY <1>1, <1>2

LEMMA MoveDated ==
    ASSUME NEW r, Grounds(r), r.key[2] \in {"page_move", "master_move"}, r.changed
    PROVE  Dated(r, r.row.updated)
<1>1. PICK b : MoveGrounds(r, b)
    BY RouteGrounds
<1>2. Certified(r, "content.page.move", r.row.updated)
    BY <1>1 DEF MoveGrounds
<1>3. "content.page.move" \in DatedAudits
    BY DEF DatedAudits
<1>4. QED
    BY <1>2, <1>3 DEF Dated

----------------------------------------------------------------------------
(* A backup accepts the events of a page.                                  *)

\* What the checks read.
BackupInv == TriggerInv /\ ExactlyOnce

LEMMA BackupParts ==
    ASSUME BackupInv
    PROVE  /\ IInv /\ TypeOK /\ Chronicle /\ Ledger /\ DatedAuditsDiffer /\ ExactlyOnce
           /\ \A r \in receipts : Substantiated(r) /\ Grounds(r)
BY DEF BackupInv, TriggerInv, IInv, Substantiated

LEMMA LifecycleEventsAccepted ==
    ASSUME BackupInv, NEW p \in Pages
    PROVE  RequireLifecycleEvents(p) /\ RequireActorHomeGraph(p)
<1>1. ASSUME NEW i \in DOMAIN lifecycle[p], NEW e, e = lifecycle[p][i]
      PROVE  /\ IF e.audit # 0 THEN AuditedAs(e.audit, ArchiveAudit[e.action], p, e.at)
                ELSE /\ Cardinality(LifecycleRecords(p, e)) = 1
                     /\ \A r \in LifecycleRecords(p, e) : Section(r.row.place) = e.section
             /\ (e.audit # 0) = (e.actor = Master)
    <2>1. LifecycleBooked(p, e)
        <3>1. EventsBooked(p)
            BY BackupParts DEF Ledger
        <3>2. e \in Range(lifecycle[p])
            BY <1>1 DEF Range
        <3>3. QED
            BY <3>1, <3>2 DEF EventsBooked
    <2>2. (e.audit # 0) = (e.actor = Master)
        BY <2>1 DEF LifecycleBooked
    <2>3. CASE e.audit # 0
        BY <2>1, <2>2, <2>3 DEF LifecycleBooked
    <2>4. CASE e.audit = 0
        <3> DEFINE S == LifecycleRecords(p, e)
        <3>1. PICK s \in S : Section(s.row.place) = e.section
            BY <2>1, <2>2, <2>4 DEF LifecycleBooked
        <3>2. e.action \in {"delete", "restore"}
            <4>1. lifecycle[p] \in Seq(LifecycleRow)
                BY BackupParts, TablesTyped
            <4>2. e \in LifecycleRow
                BY <1>1, <4>1
            <4>3. QED
                BY <4>2 DEF LifecycleRow
        <3>3. ASSUME NEW r \in S
              PROVE  r.page = p /\ Dated(r, e.at)
            <4>1. r \in receipts /\ r.page = p /\ r.stamp = e.at
                BY <3>3 DEF LifecycleRecords
            <4>2. r.key[2] \in {"delete", "restore", "page_delete", "page_restore"}
                <5>1. r.key[2] \in {e.action, LibraryRoute[e.action]}
                    BY <3>3 DEF LifecycleRecords
                <5>2. LibraryRoute[e.action] \in {"page_delete", "page_restore"}
                    BY <3>2 DEF LibraryRoute
                <5>3. QED
                    BY <3>2, <5>1, <5>2
            <4>3. Grounds(r)
                BY <4>1, BackupParts
            <4>4. Dated(r, r.stamp)
                BY <4>2, <4>3, LifecycleDated
            <4>5. QED
                BY <4>1, <4>4
        <3>4. S \in SUBSET receipts
            BY DEF LifecycleRecords
        <3> HIDE DEF S
        <3>5. Cardinality(S) = 1
            BY <3>1, <3>3, <3>4, OneReceipt, BackupParts
        <3>6. \A r \in S : r = s
            BY <3>1, <3>3, <3>4, SameChange, BackupParts
        <3>7. QED
            BY <2>2, <2>4, <3>1, <3>5, <3>6 DEF S
    <2>5. QED
        BY <2>2, <2>3, <2>4
<1>2. QED
    BY <1>1 DEF RequireLifecycleEvents, RequireActorHomeGraph

LEMMA PageAcceptedByBackup ==
    ASSUME BackupInv, NEW p \in Pages, Exists(p)
    PROVE  /\ RequirePageGraph(p) /\ RequireRevisionFiles(p)
           /\ RequireOccurrenceGraph(p) /\ RequireLifecycleGraph(p)
           /\ RequireActorHomeGraph(p)
<1>1. IInv /\ Recorded(p) /\ EventsBooked(p)
    BY BackupParts DEF Chronicle, Ledger
<1>2. RequirePageGraph(p) /\ RequireRevisionFiles(p)
    BY <1>1, PageGraphAccepted
<1>3. RequireOccurrenceGraph(p)
    BY <1>1, OccurrenceGraphAccepted
<1>4. RequireTitleEvents(p) /\ TimelineLoads(p)
    BY <1>1, TitleEventsAccepted, TimelineFound
<1>5. RequireLifecycleEvents(p) /\ RequireActorHomeGraph(p)
    BY LifecycleEventsAccepted
<1>6. QED
    BY <1>2, <1>3, <1>4, <1>5 DEF RequireLifecycleGraph

----------------------------------------------------------------------------
(* A backup accepts the audits of the administrator.                       *)

LEMMA TitleFound ==
    ASSUME IInv, NEW p \in Pages, Exists(p), Recorded(p),
           NEW m \in DOMAIN titles[p], NEW n \in DOMAIN titles[p], titles[p][m].at = titles[p][n].at
    PROVE  m = n
<1>1. m \in Nat /\ n \in Nat /\ titles[p][m].at \in Nat
    BY TableRowsTyped
<1>2. ~(m < n) /\ ~(n < m)
    BY <1>1, TitlesAscend
<1>3. QED
    BY <1>1, <1>2

\* An audit that names an event of a table names that one only, if the events of
\* the table have the clocks of their audits and different ones.
LEMMA OneEvent ==
    ASSUME NEW table, NEW id, NEW at, NamedBy(table, id),
           \A n \in DOMAIN table : table[n].audit = id => table[n].at = at,
           \A m, n \in DOMAIN table : table[m].at = table[n].at => m = n
    PROVE  /\ Cardinality(EventsOf(table, id)) = 1
           /\ \A n \in EventsOf(table, id) : table[n].at = at
<1>1. PICK n \in DOMAIN table : table[n].audit = id
    BY DEF NamedBy
<1>2. EventsOf(table, id) = {n}
    BY <1>1 DEF EventsOf
<1>3. QED
    BY <1>1, <1>2, FS_Singleton

LEMMA MasterAuditAccepted ==
    ASSUME BackupInv, NEW id \in DOMAIN audits, audits[id].actor = Master
    PROVE  RequireMasterAudit(id)
<1> DEFINE a == audits[id]
<1>1. a \in AuditRow /\ id # 0
    BY BackupParts DEF TypeOK
<1>2. PICK p \in Pages : p = a.page
    BY <1>1 DEF AuditRow
<1>3. AuditBooked(a, id) /\ EventsBooked(p) /\ IInv
    BY BackupParts DEF Ledger
<1>4. ASSUME NEW table \in {corrections[p], lifecycle[p], titles[p], moves[p]}, NamedBy(table, id)
      PROVE  Exists(p) /\ Recorded(p)
    <2>1. Exists(p)
        <3> SUFFICES ASSUME ~Exists(p)
                     PROVE  FALSE
            OBVIOUS
        <3>1. table = <<>>
            BY BackupParts DEF Chronicle, Blank
        <3>2. QED
            BY <1>4, <3>1 DEF NamedBy
    <2>2. QED
        BY <2>1, BackupParts DEF Chronicle
<1>5. CASE a.action = "content.page.move"
    <2> DEFINE table == moves[p]
    <2>1. NamedBy(table, id)
        BY <1>2, <1>3, <1>5 DEF AuditBooked
    <2>2. Exists(p) /\ Recorded(p)
        BY <1>4, <2>1
    <2>3. ASSUME NEW n \in DOMAIN table, table[n].audit = id
          PROVE  table[n].at = a.at /\ \E r \in receipts : r.changed /\ r.audit = id
        <3>1. MoveBooked(p, table[n])
            BY <1>3 DEF EventsBooked, Range
        <3>2. QED
            BY <2>3, <3>1 DEF MoveBooked, AuditedAs
    <2>4. \A m, n \in DOMAIN table : table[m].at = table[n].at => m = n
        <3> SUFFICES ASSUME NEW m \in DOMAIN table, NEW n \in DOMAIN table,
                            table[m].at = table[n].at
                     PROVE  m = n
            OBVIOUS
        <3>1. {i \in DOMAIN moves[p] : moves[p][i].at = moves[p][n].at} = {n}
            BY <1>3, <2>2, MoveFound
        <3>2. QED
            BY <3>1
    <2>5. PICK n \in DOMAIN table : table[n].audit = id
        BY <2>1 DEF NamedBy
    <2>6. \E r \in receipts : r.changed /\ r.audit = id
        BY <2>3, <2>5
    <2>7. \A i \in DOMAIN table : table[i].audit = id => table[i].at = a.at
        BY <2>3
    <2>8. /\ Cardinality(EventsOf(table, id)) = 1
          /\ \A i \in EventsOf(table, id) : table[i].at = a.at
        BY <2>1, <2>4, <2>7, OneEvent
    <2>9. QED
        BY <1>2, <1>5, <2>6, <2>8 DEF RequireMasterAudit
<1>6. CASE a.action = "content.page.occurrence.correct"
    <2> DEFINE table == corrections[p]
    <2>1. NamedBy(table, id)
        BY <1>2, <1>3, <1>6 DEF AuditBooked
    <2>2. Exists(p) /\ Recorded(p)
        BY <1>4, <2>1
    <2>3. ASSUME NEW n \in DOMAIN table, table[n].audit = id
          PROVE  table[n].at = a.at
        <3>1. CorrectionBooked(p, table[n])
            BY <1>3 DEF EventsBooked, Range
        <3>2. QED
            BY <1>1, <2>3, <3>1 DEF CorrectionBooked, AuditedAs
    <2>4. \A m, n \in DOMAIN table : table[m].at = table[n].at => m = n
        <3> SUFFICES ASSUME NEW m \in DOMAIN table, NEW n \in DOMAIN table,
                            table[m].at = table[n].at
                     PROVE  m = n
            OBVIOUS
        <3>1. {i \in DOMAIN corrections[p] : corrections[p][i].at = corrections[p][n].at} = {n}
            BY <1>3, <2>2, CorrectionFound
        <3>2. QED
            BY <3>1
    <2>5. /\ Cardinality(EventsOf(table, id)) = 1
          /\ \A i \in EventsOf(table, id) : table[i].at = a.at
        BY <2>1, <2>3, <2>4, OneEvent
    <2>6. QED
        BY <1>2, <1>6, <2>5 DEF RequireMasterAudit
<1>7. CASE a.action \in {"content.archive.restore", "content.archive.delete"}
    <2> DEFINE table == lifecycle[p]
    <2>1. NamedBy(table, id)
        BY <1>2, <1>3, <1>7 DEF AuditBooked
    <2>2. Exists(p) /\ Recorded(p)
        BY <1>4, <2>1
    <2>3. ASSUME NEW n \in DOMAIN table, table[n].audit = id
          PROVE  table[n].at = a.at /\ a.action = ArchiveAudit[table[n].action]
        <3>1. LifecycleBooked(p, table[n])
            BY <1>3 DEF EventsBooked, Range
        <3>2. AuditedAs(id, ArchiveAudit[table[n].action], p, table[n].at)
            BY <1>1, <2>3, <3>1 DEF LifecycleBooked
        <3>3. QED
            BY <3>2 DEF AuditedAs
    <2>4. \A m, n \in DOMAIN table : table[m].at = table[n].at => m = n
        <3> SUFFICES ASSUME NEW m \in DOMAIN table, NEW n \in DOMAIN table,
                            table[m].at = table[n].at
                     PROVE  m = n
            OBVIOUS
        <3>1. {i \in DOMAIN lifecycle[p] : lifecycle[p][i].at = lifecycle[p][n].at} = {n}
            BY <1>3, <2>2, LifecycleFound
        <3>2. QED
            BY <3>1
    <2>5. /\ Cardinality(EventsOf(table, id)) = 1
          /\ \A i \in EventsOf(table, id) : table[i].at = a.at
        BY <2>1, <2>3, <2>4, OneEvent
    <2>6. \A i \in EventsOf(table, id) : a.action = ArchiveAudit[table[i].action]
        BY <2>3 DEF EventsOf
    <2>7. QED
        BY <1>2, <1>7, <2>5, <2>6 DEF RequireMasterAudit
<1>8. CASE a.action = "content.page.title.edit"
    <2> DEFINE table == titles[p]
    <2>1. NamedBy(table, id)
        BY <1>2, <1>3, <1>8 DEF AuditBooked
    <2>2. Exists(p) /\ Recorded(p)
        BY <1>4, <2>1
    <2>3. ASSUME NEW n \in DOMAIN table, table[n].audit = id
          PROVE  table[n].at = a.at
        <3>1. TitleBooked(p, table[n])
            BY <1>3 DEF EventsBooked, Range
        <3>2. QED
            BY <2>3, <3>1 DEF TitleBooked, AuditedAs
    <2>4. \A m, n \in DOMAIN table : table[m].at = table[n].at => m = n
        BY <1>3, <2>2, TitleFound
    <2>5. /\ Cardinality(EventsOf(table, id)) = 1
          /\ \A i \in EventsOf(table, id) : table[i].at = a.at
        BY <2>1, <2>3, <2>4, OneEvent
    <2>6. QED
        BY <1>2, <1>8, <2>5 DEF RequireMasterAudit
<1>9. CASE a.action \notin {"content.page.move", "content.page.occurrence.correct",
                            "content.archive.restore", "content.archive.delete",
                            "content.page.title.edit"}
    BY <1>9 DEF RequireMasterAudit
<1>10. QED
    BY <1>5, <1>6, <1>7, <1>8, <1>9

----------------------------------------------------------------------------
(* A backup accepts the idempotency records.                               *)

\* What every check of a record finds: its row in the history of its page.
LEMMA RecordFound ==
    ASSUME BackupInv, NEW r \in receipts, NEW p, p = r.page
    PROVE  /\ p \in Pages /\ Exists(p) /\ Recorded(p) /\ IInv /\ Grounds(r)
           /\ TimelineLoads(p) /\ States(p) = rows[p]
           /\ StateAt(p, r.row.updated) = r.row /\ HasExactState(p, r.row.updated)
           /\ r.etag = ETag(p, r.row) /\ r.row.rev \in DOMAIN revisions[p]
           /\ revisions[p][r.row.rev].content = r.content
           /\ \E i \in DOMAIN rows[p] : rows[p][i] = r.row
<1>1. PICK i \in DOMAIN rows[r.page] : Describes(r, i)
    BY BackupParts DEF Substantiated
<1>2. /\ r.page \in Pages /\ TimelineLoads(r.page) /\ States(r.page) = rows[r.page]
      /\ Exists(r.page) /\ Recorded(r.page)
      /\ StateAt(r.page, r.row.updated) = r.row /\ HasExactState(r.page, r.row.updated)
    BY <1>1, Described, BackupParts
<1>3. QED
    BY <1>1, <1>2, BackupParts DEF Describes

LEMMA OneAudit ==
    ASSUME NEW r, NEW action, NEW at, Certified(r, action, at)
    PROVE  Cardinality(RecordAudits(r, action, at)) = 1
<1>1. RecordAudits(r, action, at) = {r.audit}
    BY DEF Certified, RecordAudits, AuditedAs
<1>2. QED
    BY <1>1, FS_Singleton

LEMMA CorrectionRecordAccepted ==
    ASSUME BackupInv, NEW r \in receipts, r.key[2] = "correct_occurrence"
    PROVE  RequireCorrectionRecord(r)
<1>1. PICK p \in Pages : p = r.page
    BY RecordFound
<1>2. /\ Exists(p) /\ Recorded(p) /\ IInv /\ StateAt(p, r.row.updated) = r.row
      /\ HasExactState(p, r.row.updated) /\ r.etag = ETag(p, r.row)
    BY <1>1, RecordFound
<1>3. CorrectionGrounds(r)
    BY RecordFound, RouteGrounds
<1>4. r.row.deleted = NoTime /\ r.stamp = r.row.updated
    BY <1>3 DEF CorrectionGrounds
<1>5. PICK c : c = [old |-> r.request.etag.occurred, new |-> r.row.occurred,
                    at |-> r.stamp, rev |-> r.row.rev, audit |-> 0]
    OBVIOUS
<1>6. PICK n \in DOMAIN corrections[p] : corrections[p][n] = c
    BY <1>1, <1>3, <1>5 DEF CorrectionGrounds
<1>7. {x \in Range(corrections[p]) : x.at = r.stamp} = {c}
    <2>1. {i \in DOMAIN corrections[p] : corrections[p][i].at = r.stamp} = {n}
        BY <1>2, <1>5, <1>6, CorrectionFound
    <2>2. \A i \in DOMAIN corrections[p] : corrections[p][i].at = r.stamp <=> i = n
        BY <2>1
    <2>3. QED
        BY <1>6, <2>2 DEF Range
<1>8. /\ Cardinality({x \in Range(corrections[p]) : x.at = r.stamp}) = 1
      /\ \A x \in {x \in Range(corrections[p]) : x.at = r.stamp} : x = c
    BY <1>7, FS_Singleton
<1>9. /\ c.at = r.stamp /\ c.audit = 0 /\ r.request.etag.occurred = c.old
      /\ r.row.occurred = c.new /\ r.row.rev = c.rev
    BY <1>5
<1>10. r.etag = [page |-> p, rev |-> c.rev, occurred |-> c.new, updated |-> c.at]
    BY <1>2, <1>4, <1>9 DEF ETag
<1>11. Cardinality(RecordAudits(r, "content.archive.correct_occurrence", r.stamp)) = 1
    BY <1>3, OneAudit DEF CorrectionGrounds
<1>12. QED
    BY <1>1, <1>2, <1>4, <1>8, <1>9, <1>10, <1>11 DEF RequireCorrectionRecord

LEMMA LifecycleReplayAccepted ==
    ASSUME BackupInv, NEW r \in receipts, r.key[2] \in {"delete", "restore"}
    PROVE  RequireLifecycleReplay(r)
<1>1. PICK p \in Pages : p = r.page
    BY RecordFound
<1>2. /\ Exists(p) /\ Recorded(p) /\ IInv /\ StateAt(p, r.row.updated) = r.row
      /\ HasExactState(p, r.row.updated) /\ r.etag = ETag(p, r.row)
    BY <1>1, RecordFound
<1>3. LifecycleGrounds(r)
    BY RecordFound, RouteGrounds
<1>4. PICK action : action = r.request.arg
    OBVIOUS
<1>5. /\ r.stamp = r.row.updated
      /\ r.row.deleted = IF action = "delete" THEN r.stamp ELSE NoTime
      /\ Certified(r, ArchiveAudit[action], r.stamp)
    BY <1>3, <1>4 DEF LifecycleGrounds
<1>6. PICK n \in DOMAIN lifecycle[p] :
          /\ lifecycle[p][n].at = r.stamp /\ lifecycle[p][n].action = action
          /\ lifecycle[p][n].actor = r.key[1]
          /\ lifecycle[p][n].section = Section(r.row.place)
          /\ lifecycle[p][n].rev = r.row.rev /\ lifecycle[p][n].occurred = r.row.occurred
    BY <1>1, <1>3, <1>4 DEF LifecycleGrounds
<1> DEFINE e == lifecycle[p][n]
<1> DEFINE same == {x \in Range(lifecycle[p]) :
                      x.at = r.stamp /\ x.section = Section(r.row.place)}
<1>7. same = {e}
    <2>1. {i \in DOMAIN lifecycle[p] : lifecycle[p][i].at = r.stamp} = {n}
        BY <1>2, <1>6, LifecycleFound
    <2>2. \A i \in DOMAIN lifecycle[p] : lifecycle[p][i].at = r.stamp <=> i = n
        BY <2>1
    <2>3. QED
        BY <1>6, <2>2 DEF Range
<1>8. Cardinality(same) = 1 /\ \A x \in same : x = e
    BY <1>7, FS_Singleton
<1>9. r.etag = [page |-> p, rev |-> e.rev, occurred |-> e.occurred, updated |-> e.at]
    BY <1>2, <1>5, <1>6 DEF ETag
<1>10. Cardinality(RecordAudits(r, ArchiveAudit[action], e.at)) = 1
    BY <1>5, <1>6, OneAudit
<1>11. HasExactState(p, e.at) /\ StateAt(p, e.at) = r.row
    BY <1>2, <1>5, <1>6
<1> HIDE DEF same
<1>12. QED
    BY <1>1, <1>4, <1>5, <1>6, <1>8, <1>9, <1>10, <1>11 DEF RequireLifecycleReplay, same

LEMMA FileSetReplayAccepted ==
    ASSUME BackupInv, NEW r \in receipts, r.key[2] \in {"file_set_create", "file_set_append"}
    PROVE  RequireFileSetReplay(r)
<1>1. PICK p \in Pages : p = r.page
    BY RecordFound
<1>2. /\ Exists(p) /\ Recorded(p) /\ IInv /\ RowsTyped(p) /\ States(p) = rows[p]
      /\ r.etag = ETag(p, r.row) /\ r.row.rev \in DOMAIN revisions[p]
      /\ revisions[p][r.row.rev].content = r.content
    BY <1>1, RecordFound, RowsOfPage
<1>3. PICK i \in DOMAIN rows[p] : rows[p][i] = r.row
    BY <1>1, RecordFound
<1>4. /\ r.key[2] = "file_set_create" => FileSetCreateGrounds(r)
      /\ r.key[2] = "file_set_append" => FileSetAppendGrounds(r)
    BY RecordFound, RouteGrounds
<1>5. r.row.deleted = NoTime
    BY <1>4 DEF FileSetCreateGrounds, FileSetAppendGrounds
<1>6. ActiveMatches(r) = {i}
    <2>1. i \in ActiveMatches(r)
        BY <1>1, <1>2, <1>3, <1>5 DEF ActiveMatches
    <2>2. ASSUME NEW j \in ActiveMatches(r)
          PROVE  j = i
        <3>1. j \in DOMAIN rows[p] /\ ETag(p, rows[p][j]) = ETag(p, rows[p][i])
            BY <1>1, <1>2, <1>3, <2>2 DEF ActiveMatches
        <3>2. rows[p][j].updated = rows[p][i].updated
            BY <3>1 DEF ETag
        <3>3. QED
            BY <1>2, <3>1, <3>2, ClockOrder
    <2>3. QED
        BY <2>1, <2>2
<1>7. Cardinality(ActiveMatches(r)) = 1
    BY <1>6, FS_Singleton
<1> DEFINE revision == revisions[p][r.row.rev]
           create == r.key[2] = "file_set_create"
<1>8. ASSUME r.changed
      PROVE  /\ \A j \in ActiveMatches(r) : States(p)[j].updated = revision.at
             /\ revision.format = "file_set_v1"
             /\ r.etag = [page |-> p, rev |-> r.row.rev,
                          occurred |-> OccurrenceAt(p, revision.at), updated |-> revision.at]
             /\ revision.sourceAt = r.stamp
             /\ IF create
                THEN /\ r.row.rev = 1 /\ r.row.occurred = OccurrenceAt(p, revision.at)
                     /\ revision.at = pages[p].created /\ revision.at = r.stamp
                ELSE revision.at >= r.stamp
             /\ Cardinality(RecordAudits(r, IF create
                   THEN "content.page.file_set.create"
                   ELSE "content.page.file_set.revise", r.stamp)) = 1
    <2>1. PICK action : /\ FileSetRevision(r, action)
                        /\ action = IF create THEN "content.page.file_set.create"
                                              ELSE "content.page.file_set.revise"
        BY <1>4, <1>8 DEF FileSetCreateGrounds, FileSetAppendGrounds
    <2>2. /\ revision.format = "file_set_v1" /\ revision.sourceAt = r.stamp
          /\ revision.at = r.row.updated /\ revision.at >= r.stamp
          /\ Certified(r, action, r.stamp)
        BY <1>1, <2>1 DEF FileSetRevision
    <2>3. OccurrenceAt(p, revision.at) = r.row.occurred
        BY <1>2, <1>3, <2>2, OccurrenceAtRevision
    <2>4. r.etag = [page |-> p, rev |-> r.row.rev,
                    occurred |-> OccurrenceAt(p, revision.at), updated |-> revision.at]
        BY <1>2, <2>2, <2>3 DEF ETag
    <2>5. \A j \in ActiveMatches(r) : States(p)[j].updated = revision.at
        BY <1>2, <1>3, <1>6, <2>2
    <2>6. create => r.row.rev = 1 /\ r.stamp = r.row.updated /\ revision.at = pages[p].created
        <3> SUFFICES ASSUME create
                     PROVE  /\ r.row.rev = 1 /\ r.stamp = r.row.updated
                            /\ revision.at = pages[p].created
            OBVIOUS
        <3>1. r.row.rev = 1 /\ r.stamp = r.row.updated
            BY <1>4 DEF FileSetCreateGrounds
        <3>2. revisions[p][1].at = pages[p].created
            BY <1>2 DEF Recorded
        <3>3. QED
            BY <3>1, <3>2
    <2>7. Cardinality(RecordAudits(r, action, r.stamp)) = 1
        BY <2>2, OneAudit
    <2>8. QED
        BY <2>1, <2>2, <2>3, <2>4, <2>5, <2>6, <2>7
<1>9. QED
    BY <1>1, <1>2, <1>7, <1>8 DEF RequireFileSetReplay

LEMMA ArchiveRecordAccepted ==
    ASSUME BackupInv, NEW r \in receipts, r.key[2] \in {"archive_create", "archive_revise"}
    PROVE  RequireArchiveRecord(r)
<1>1. PICK p \in Pages : p = r.page
    BY RecordFound
<1>2. /\ Exists(p) /\ Recorded(p) /\ IInv /\ StateAt(p, r.row.updated) = r.row
      /\ HasExactState(p, r.row.updated) /\ r.etag = ETag(p, r.row)
      /\ r.row.rev \in DOMAIN revisions[p] /\ revisions[p][r.row.rev].content = r.content
    BY <1>1, RecordFound
<1>3. PICK i \in DOMAIN rows[p] : rows[p][i] = r.row
    BY <1>1, RecordFound
<1>4. ArchiveGrounds(r)
    BY RecordFound, RouteGrounds
<1> DEFINE revision == revisions[p][r.row.rev]
           earlier == {n \in DOMAIN corrections[p] : corrections[p][n].rev < r.row.rev}
           before == {n \in DOMAIN corrections[p] : corrections[p][n].at < r.row.updated}
           occurrence == IF corrections[p] = <<>> THEN r.row.occurred
                         ELSE IF earlier = {} THEN corrections[p][1].old
                         ELSE corrections[p][Cardinality(earlier)].new
<1>5. r.row.deleted = NoTime /\ revision.at = r.row.updated
    BY <1>1, <1>4 DEF ArchiveGrounds
<1>6. earlier = before
    <2>1. \A n \in DOMAIN corrections[p] :
             corrections[p][n].rev < r.row.rev <=> corrections[p][n].at < r.row.updated
        BY <1>2, <1>5, CorrectionInRevision
    <2>2. QED
        BY <2>1
<1>7. r.row.occurred = occurrence
    <2>1. \A n \in DOMAIN corrections[p] : corrections[p][n].at # r.row.updated
        BY <1>2, <1>5, RevisionBegins
    <2>2. OccurrenceAfter(p, before) = r.row.occurred
        BY <1>2, <1>3, <2>1, OccurrenceCounted
    <2> HIDE DEF earlier, before
    <2>3. QED
        BY <1>6, <2>2 DEF OccurrenceAfter
<1>8. r.row.title = TitleAt(p, r.row.updated)
    BY <1>2, <1>3, TitleAtRow
<1>9. r.etag = [page |-> p, rev |-> r.row.rev, occurred |-> r.row.occurred,
                updated |-> revision.at]
    BY <1>2, <1>5 DEF ETag
<1> HIDE DEF occurrence, revision
<1>10. QED
    BY <1>1, <1>2, <1>5, <1>7, <1>8, <1>9 DEF RequireArchiveRecord, occurrence, revision

LEMMA RecordAccepted ==
    ASSUME BackupInv, NEW r \in receipts
    PROVE  RequireIdempotencyGraph(r)
<1>1. PICK route : route = r.key[2]
    OBVIOUS
<1>2. CASE route = "correct_occurrence"
    BY <1>1, <1>2, CorrectionRecordAccepted DEF RequireIdempotencyGraph
<1>3. CASE route \in {"delete", "restore"}
    BY <1>1, <1>3, LifecycleReplayAccepted DEF RequireIdempotencyGraph
<1>4. CASE route \in {"file_set_create", "file_set_append"}
    BY <1>1, <1>4, FileSetReplayAccepted DEF RequireIdempotencyGraph
<1>5. CASE route \in {"archive_create", "archive_revise"}
    BY <1>1, <1>5, ArchiveRecordAccepted DEF RequireIdempotencyGraph
<1>6. CASE route \notin {"correct_occurrence", "delete", "restore", "file_set_create",
                         "file_set_append", "archive_create", "archive_revise"}
    BY <1>1, <1>6 DEF RequireIdempotencyGraph
<1>7. QED
    BY <1>2, <1>3, <1>4, <1>5, <1>6

----------------------------------------------------------------------------
(* A backup accepts the receipts of Library routes, moves and master writes. *)

\* The receipts of these routes pass the checks that their replays make.
LEMMA RecordReplays ==
    ASSUME BackupInv, NEW r \in receipts, NEW route, route = r.key[2]
    PROVE  /\ route \in {"page_delete", "page_restore"} => LibraryLifecycleReplay(r)
           /\ route \in {"page_move", "master_move"} => MoveReplay(r)
           /\ route \in {"master_create", "master_revise"} => MasterFileSetReplay(r)
<1>1. Replayable(r)
    BY BackupParts, SubstantiatedReplays
<1>2. QED
    BY <1>1 DEF Replayable

LEMMA LibraryLifecycleAccepted ==
    ASSUME BackupInv
    PROVE  RequireLibraryLifecycleGraph
<1> DEFINE records == {r \in receipts : r.key[2] \in {"page_delete", "page_restore"}}
<1>1. \A r \in records : LibraryLifecycleReplay(r)
    BY RecordReplays
<1>2. ASSUME NEW i \in DOMAIN audits,
             audits[i].action \in {"content.page.delete", "content.page.restore"}
      PROVE  Cardinality({r \in records : /\ r.page = audits[i].page /\ r.stamp = audits[i].at
                                          /\ r.key[1] = audits[i].actor}) = 1
    <2> DEFINE S == {r \in records : /\ r.page = audits[i].page /\ r.stamp = audits[i].at
                                     /\ r.key[1] = audits[i].actor}
    <2>1. S # {}
        <3>1. AuditBooked(audits[i], i)
            BY BackupParts DEF Ledger
        <3>2. PICK r \in receipts :
                 /\ r.key[2] \in {"page_delete", "page_restore"}
                 /\ r.key[1] = audits[i].actor /\ r.page = audits[i].page
                 /\ r.stamp = audits[i].at
            BY <1>2, <3>1 DEF AuditBooked
        <3>3. QED
            BY <3>2
    <2>2. ASSUME NEW r \in S
          PROVE  r.page = audits[i].page /\ Dated(r, audits[i].at)
        <3>1. /\ r \in receipts /\ r.key[2] \in {"page_delete", "page_restore"}
              /\ r.page = audits[i].page /\ r.stamp = audits[i].at
            BY <2>2
        <3>2. Dated(r, r.stamp)
            BY <3>1, BackupParts, LifecycleDated
        <3>3. QED
            BY <3>1, <3>2
    <2>3. S \in SUBSET receipts
        OBVIOUS
    <2> HIDE DEF S
    <2>4. Cardinality(S) = 1
        BY <2>1, <2>2, <2>3, OneReceipt, BackupParts
    <2>5. QED
        BY <2>4 DEF S
<1>3. QED
    BY <1>1, <1>2 DEF RequireLibraryLifecycleGraph

\* The events of moves have their receipts, and the receipts their events.
LEMMA MovesReceipted ==
    ASSUME BackupInv, NEW p \in Pages
    PROVE  /\ \A e \in MoveEvents(p, TRUE) : \E r \in receipts :
                 /\ r.key[2] = "master_move" /\ r.changed /\ r.page = p
                 /\ r.audit = e.audit
           /\ \A e \in MoveEvents(p, FALSE) : \E r \in receipts :
                 /\ r.key[2] = "page_move" /\ r.changed /\ r.page = p
                 /\ r.row.updated = e.at
<1>1. \A e \in Range(moves[p]) : MoveBooked(p, e)
    BY BackupParts DEF Ledger, EventsBooked
<1>2. ASSUME NEW e \in MoveEvents(p, TRUE)
      PROVE  \E r \in receipts : /\ r.key[2] = "master_move" /\ r.changed /\ r.page = p
                                 /\ r.audit = e.audit
    <2>1. e \in Range(moves[p]) /\ audits[e.audit].actor = Master
        BY <1>2 DEF MoveEvents
    <2>2. QED
        BY <1>1, <2>1 DEF MoveBooked
<1>3. ASSUME NEW e \in MoveEvents(p, FALSE)
      PROVE  \E r \in receipts : /\ r.key[2] = "page_move" /\ r.changed /\ r.page = p
                                 /\ r.row.updated = e.at
    <2>1. e \in Range(moves[p]) /\ audits[e.audit].actor # Master
        BY <1>3 DEF MoveEvents
    <2>2. QED
        BY <1>1, <2>1 DEF MoveBooked
<1>4. QED
    BY <1>2, <1>3

LEMMA MoveRecorded ==
    ASSUME BackupInv, NEW r \in receipts, r.key[2] = "page_move", r.changed, NEW p, p = r.page
    PROVE  \E e \in MoveEvents(p, FALSE) : e.at = r.row.updated
<1>1. PICK b : MoveGrounds(r, b)
    BY BackupParts, RouteGrounds
<1>2. PICK n \in DOMAIN moves[p] :
         moves[p][n].at = r.row.updated /\ moves[p][n].audit = r.audit
    BY <1>1 DEF MoveGrounds
<1>3. r.key[1] # Master /\ audits[r.audit].actor = r.key[1]
    BY <1>1 DEF MoveGrounds, Certified
<1>4. moves[p][n] \in MoveEvents(p, FALSE)
    BY <1>2, <1>3 DEF MoveEvents, Range
<1>5. QED
    BY <1>2, <1>4

LEMMA CallerMovesAccepted ==
    ASSUME BackupInv
    PROVE  RequireCallerMoveGraph
<1> DEFINE records == {r \in receipts : r.key[2] = "page_move"}
<1>1. \A r \in records : MoveReplay(r)
    BY RecordReplays
<1>2. ASSUME NEW p \in Pages, NEW e \in MoveEvents(p, FALSE)
      PROVE  Cardinality({r \in records : r.changed /\ r.page = p /\ r.row.updated = e.at}) = 1
    <2> DEFINE S == {r \in records : r.changed /\ r.page = p /\ r.row.updated = e.at}
    <2>1. S # {}
        <3>1. PICK r \in receipts : /\ r.key[2] = "page_move" /\ r.changed /\ r.page = p
                                    /\ r.row.updated = e.at
            BY MovesReceipted
        <3>2. QED
            BY <3>1
    <2>2. ASSUME NEW r \in S
          PROVE  r.page = p /\ Dated(r, e.at)
        <3>1. /\ r \in receipts /\ r.key[2] \in {"page_move", "master_move"} /\ r.changed
              /\ r.page = p /\ r.row.updated = e.at
            BY <2>2
        <3>2. Dated(r, r.row.updated)
            BY <3>1, BackupParts, MoveDated
        <3>3. QED
            BY <3>1, <3>2
    <2>3. S \in SUBSET receipts
        OBVIOUS
    <2> HIDE DEF S
    <2>4. Cardinality(S) = 1
        BY <2>1, <2>2, <2>3, OneReceipt, BackupParts
    <2>5. QED
        BY <2>4 DEF S
<1>3. \A p \in Pages : \A r \in records : r.changed /\ r.page = p =>
         \E e \in MoveEvents(p, FALSE) : e.at = r.row.updated
    BY MoveRecorded
<1>4. ASSUME NEW i \in DOMAIN audits, audits[i].action = "content.page.move"
      PROVE  EventsOf(moves[audits[i].page], i) # {}
    <2>1. AuditBooked(audits[i], i)
        BY BackupParts DEF Ledger
    <2>2. NamedBy(moves[audits[i].page], i)
        BY <1>4, <2>1 DEF AuditBooked
    <2>3. QED
        BY <2>2 DEF NamedBy, EventsOf
<1>5. QED
    BY <1>1, <1>2, <1>3, <1>4 DEF RequireCallerMoveGraph

LEMMA PageMovesAccepted ==
    ASSUME BackupInv
    PROVE  RequirePageMoves
<1> DEFINE records == {r \in receipts : r.key[2] = "master_move"}
<1>1. ASSUME NEW p \in Pages, NEW e \in MoveEvents(p, TRUE)
      PROVE  \E r \in records : r.changed /\ r.page = p /\ r.audit = e.audit
    <2>1. PICK r \in receipts : /\ r.key[2] = "master_move" /\ r.changed /\ r.page = p
                                /\ r.audit = e.audit
        BY MovesReceipted
    <2>2. QED
        BY <2>1
<1>2. \A r \in records : MoveReplay(r)
    BY RecordReplays
<1>3. QED
    BY <1>1, <1>2, CallerMovesAccepted DEF RequirePageMoves

LEMMA MasterFileSetsAccepted ==
    ASSUME BackupInv
    PROVE  RequireMasterFileSetReceipts
<1> DEFINE records == {r \in receipts : r.key[2] \in {"master_create", "master_revise"}}
<1>1. \A r \in records : MasterFileSetReplay(r)
    BY RecordReplays
<1>2. ASSUME NEW i \in DOMAIN audits, audits[i].actor = Master,
             audits[i].action \in {"content.page.file_set.create",
                                   "content.page.file_set.revise"}
      PROVE  \E r \in records : r.audit = i
    <2>1. AuditBooked(audits[i], i)
        BY BackupParts DEF Ledger
    <2>2. QED
        BY <1>2, <2>1 DEF AuditBooked
<1>3. QED
    BY <1>1, <1>2 DEF RequireMasterFileSetReceipts

\* Whatever the handlers have committed, a backup taken now validates: every
\* event still has its receipt and its audit, every audit and receipt its event,
\* and each page's tables tell one history, so validate_database never refuses
\* the copy that create_backup is about to publish.
THEOREM BackupsAlwaysAccept == Spec => []BackupAccepts
<1>1. ASSUME BackupInv
      PROVE  BackupAccepts
    <2>1. \A p \in Pages : Exists(p) =>
             /\ RequirePageGraph(p) /\ RequireRevisionFiles(p)
             /\ RequireOccurrenceGraph(p) /\ RequireLifecycleGraph(p)
             /\ RequireActorHomeGraph(p)
        BY <1>1, PageAcceptedByBackup
    <2>2. \A i \in DOMAIN audits : audits[i].actor = Master => RequireMasterAudit(i)
        BY <1>1, MasterAuditAccepted
    <2>3. RequireLibraryLifecycleGraph /\ RequirePageMoves /\ RequireMasterFileSetReceipts
        BY <1>1, LibraryLifecycleAccepted, PageMovesAccepted, MasterFileSetsAccepted
    <2>4. \A r \in receipts : RequireIdempotencyGraph(r)
        BY <1>1, RecordAccepted
    <2>5. QED
        BY <2>1, <2>2, <2>3, <2>4 DEF BackupAccepts
<1>2. TriggerInv /\ ExactlyOnce => BackupAccepts
    BY <1>1 DEF BackupInv
<1>3. QED
    BY <1>2, TriggerInvHolds, RequestsTakeEffectOnce, PTL

=============================================================================
