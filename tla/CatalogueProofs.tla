--------------------------- MODULE CatalogueProofs ---------------------------
(***************************************************************************)
(* The catalogue of a Library, for any Pages, titles, scopes, structure    *)
(* and bounds.  Identifiers resolve to one Page, and counters leave no     *)
(* ordinal unused.  A search that is answered is exact: every Page that is *)
(* not dirty is projected as it is.  A write to a Library, Section or Book *)
(* rests on the record its author read: updated_at ascends with every      *)
(* change of a record, so it identifies one.                               *)
(***************************************************************************)
EXTENDS PageIds, SearchIndex, LibraryStructure, TLAPS

-----------------------------------------------------------------------------
(* Page identifiers.                                                        *)

\* A page that does not exist is not a page with an identifier.
IdInv == IdTypeOK /\ IdentifiersResolve /\ CountersTight /\ CountersAhead

\* What one creation does, with the ordinal it settled on.
Issued(p, base, n) ==
    /\ n \in Tried(base)
    /\ ids[p] = NoId
    /\ ~IdentifierExists(PageIdText(base, n))
    /\ \A m \in Tried(base) : m < n => IdentifierExists(PageIdText(base, m))
    /\ counters' = [counters EXCEPT ![base] = NextOrdinal(n)]
    /\ registry' = registry \cup {[text |-> PageIdText(base, n), page |-> p]}
    /\ ids' = [ids EXCEPT ![p] = [base |-> base, ordinal |-> n]]

\* The ordinal lies between the counter and the limit.
LEMMA TriedRange ==
    ASSUME IdTypeOK, NEW base \in Bases, NEW n \in Tried(base)
    PROVE  /\ n \in 1 .. MaxOrdinal
           /\ counters[base] \in Nat /\ n >= counters[base]
           /\ \A m \in 1 .. n - 1 : m >= counters[base] => m \in Tried(base)
<1>1. counters[base] \in {0} \cup 2 .. MaxOrdinal + 1
    BY DEF IdTypeOK
<1>2. QED
    BY <1>1, IdConstants DEF Tried

LEMMA IssuedTypeOK ==
    ASSUME IdTypeOK, NEW p \in PageUids, NEW base \in Bases, NEW n, Issued(p, base, n)
    PROVE  IdTypeOK'
<1>1. n \in 1 .. MaxOrdinal
    BY TriedRange DEF Issued
<1>2. NextOrdinal(n) \in 2 .. MaxOrdinal + 1
    BY <1>1, IdConstants DEF NextOrdinal
<1>3. [base |-> base, ordinal |-> n] \in [base: Bases, ordinal: 1 .. MaxOrdinal]
    BY <1>1
<1>4. counters' \in [Bases -> {0} \cup 2 .. MaxOrdinal + 1]
    BY <1>2 DEF Issued, IdTypeOK
<1>5. ids' \in [PageUids -> [base: Bases, ordinal: 1 .. MaxOrdinal] \cup {NoId}]
    BY <1>3 DEF Issued, IdTypeOK
<1>6. \A r \in registry' : r.page \in PageUids
    BY DEF Issued, IdTypeOK
<1>7. QED
    BY <1>4, <1>5, <1>6 DEF IdTypeOK

LEMMA IssuedResolve ==
    ASSUME IdTypeOK, IdentifiersResolve,
           NEW p \in PageUids, NEW base \in Bases, NEW n, Issued(p, base, n)
    PROVE  IdentifiersResolve'
<1> DEFINE new == [text |-> PageIdText(base, n), page |-> p]
<1>1. new.text = PageIdText(base, n)
    OBVIOUS
<1>2. registry' = registry \cup {new}
    BY DEF Issued
<1>3. \A r \in registry : r.text # new.text
    BY <1>1 DEF Issued, IdentifierExists
<1>4. ASSUME NEW q \in Allocated'
      PROVE  [text |-> IdText(q)', page |-> q] \in registry'
    <2>1. CASE q = p
        <3>1. ids'[p] = [base |-> base, ordinal |-> n]
            BY DEF Issued, IdTypeOK
        <3>2. IdText(p)' = PageIdText(base, n)
            BY <3>1 DEF IdText, PageIdText
        <3>3. QED
            BY <1>2, <2>1, <3>2
    <2>2. CASE q # p
        <3>1. q \in Allocated /\ ids'[q] = ids[q]
            BY <2>2 DEF Allocated, Issued, IdTypeOK
        <3>2. [text |-> IdText(q), page |-> q] \in registry
            BY <3>1 DEF IdentifiersResolve
        <3>3. IdText(q)' = IdText(q)
            BY <3>1 DEF IdText, PageIdText
        <3>4. QED
            BY <1>2, <3>2, <3>3
    <2>3. QED
        BY <2>1, <2>2
<1> HIDE DEF new
<1>5. \A r, s \in registry' : r.text = s.text => r = s
    BY <1>2, <1>3 DEF IdentifiersResolve
<1>6. QED
    BY <1>4, <1>5 DEF IdentifiersResolve

LEMMA IssuedTight ==
    ASSUME IdTypeOK, CountersTight,
           NEW p \in PageUids, NEW base \in Bases, NEW n, Issued(p, base, n)
    PROVE  CountersTight'
<1>1. registry' = registry \cup {[text |-> PageIdText(base, n), page |-> p]}
    BY DEF Issued
<1>2. \A text : IdentifierExists(text) => IdentifierExists(text)'
    BY <1>1 DEF IdentifierExists
<1>3. IdentifierExists(PageIdText(base, n))'
    <2>1. [text |-> PageIdText(base, n), page |-> p] \in registry'
        BY <1>1
    <2>2. QED
        BY <2>1 DEF IdentifierExists, PageIdText
<1>4. /\ n \in 1 .. MaxOrdinal /\ counters[base] \in Nat /\ n >= counters[base]
      /\ \A m \in 1 .. n - 1 : m >= counters[base] => m \in Tried(base)
    BY TriedRange DEF Issued
<1>5. counters'[base] = n + 1
    BY DEF Issued, IdTypeOK, NextOrdinal
<1>6. ASSUME NEW m \in 1 .. n
      PROVE  IdentifierExists(PageIdText(base, m))'
    <2>1. CASE m = n
        BY <1>3, <2>1
    <2>2. CASE m < n /\ m >= counters[base]
        BY <1>2, <1>4, <2>2 DEF Issued
    <2>3. CASE m < counters[base]
        BY <1>2, <1>4, <2>3 DEF CountersTight
    <2>4. QED
        BY <1>4, <2>1, <2>2, <2>3
<1>7. ASSUME NEW b \in Bases, b # base, counters'[b] > 0,
             NEW m \in 1 .. counters'[b] - 1
      PROVE  IdentifierExists(PageIdText(b, m))'
    <2>1. counters'[b] = counters[b]
        BY <1>7 DEF Issued, IdTypeOK
    <2>2. QED
        BY <1>2, <1>7, <2>1 DEF CountersTight
<1>8. QED
    BY <1>4, <1>5, <1>6, <1>7 DEF CountersTight, PageIdText

LEMMA IssuedAhead ==
    ASSUME IdTypeOK, CountersAhead,
           NEW p \in PageUids, NEW base \in Bases, NEW n, Issued(p, base, n)
    PROVE  CountersAhead'
<1>1. n \in 1 .. MaxOrdinal /\ counters[base] \in Nat /\ n >= counters[base]
    BY TriedRange DEF Issued
<1>2. counters' = [counters EXCEPT ![base] = n + 1]
    BY DEF Issued, NextOrdinal
<1>3. ids' = [ids EXCEPT ![p] = [base |-> base, ordinal |-> n]]
    BY DEF Issued
<1> SUFFICES ASSUME NEW q \in Allocated'
             PROVE  ids'[q].ordinal < counters'[ids'[q].base]
    BY DEF CountersAhead
<1>4. CASE q = p
    BY <1>1, <1>2, <1>3, <1>4 DEF IdTypeOK
<1>5. CASE q # p
    <2>1. q \in Allocated /\ ids'[q] = ids[q]
        BY <1>3, <1>5 DEF Allocated, IdTypeOK
    <2>2. ids[q] \in [base: Bases, ordinal: 1 .. MaxOrdinal]
        BY <2>1 DEF IdTypeOK, Allocated
    <2>3. ids[q].ordinal < counters[ids[q].base]
        BY <2>1 DEF CountersAhead
    <2>4. CASE ids[q].base = base
        <3>1. counters'[base] = n + 1
            BY <1>2 DEF IdTypeOK
        <3>2. ids[q].ordinal \in Nat /\ ids[q].ordinal < counters[base]
            BY <2>2, <2>3, <2>4, IdConstants
        <3>3. ids[q].ordinal < n + 1
            BY <1>1, <3>2
        <3>4. QED
            BY <2>1, <2>4, <3>1, <3>3
    <2>5. CASE ids[q].base # base
        BY <1>2, <2>1, <2>2, <2>3, <2>5 DEF IdTypeOK
    <2>6. QED
        BY <2>4, <2>5
<1>6. QED
    BY <1>4, <1>5

LEMMA IdInvHolds == IdSpec => []IdInv
<1>1. IdInit => IdInv
    BY DEF IdInit, IdInv, IdTypeOK, IdentifiersResolve, CountersTight,
           CountersAhead, Allocated
<1>2. IdInv /\ [IdNext]_idVars => IdInv'
    <2> SUFFICES ASSUME IdInv, [IdNext]_idVars
                 PROVE  IdInv'
        OBVIOUS
    <2>1. CASE IdNext
        <3>1. PICK p \in PageUids, base \in Bases : CreateWithId(p, base)
            BY <2>1 DEF IdNext
        <3>2. PICK n \in Tried(base) : Issued(p, base, n)
            BY <3>1 DEF CreateWithId, Issued
        <3>3. QED
            BY <3>2, IssuedTypeOK, IssuedResolve, IssuedTight, IssuedAhead DEF IdInv
    <2>2. CASE UNCHANGED idVars
        BY <2>2 DEF idVars, IdInv, IdTypeOK, IdentifiersResolve, CountersTight,
                    CountersAhead, Allocated, IdText, IdentifierExists, PageIdText
    <2>3. QED
        BY <2>1, <2>2
<1>3. QED
    BY <1>1, <1>2, PTL DEF IdSpec

\* For any titles, limits and orders of creation, every identifier resolves to
\* exactly one page, and the counters of _allocate_page_id never pass over an
\* ordinal nobody holds.
THEOREM IdentifiersHold == IdSpec => []IdentifiersSound
<1>1. IdInv => IdentifiersSound
    BY DEF IdInv, IdentifiersSound
<1>2. QED
    BY <1>1, IdInvHolds, PTL

-----------------------------------------------------------------------------
(* The search index.                                                        *)

DirtyColumns == dirtySequence \in Nat /\ dirty \in [Pages -> Nat]

Shapes ==
    /\ pages = [p \in Pages |-> pages[p]]
    /\ index = [g \in Generations |-> index[g]]
    /\ \A g \in Generations : index[g] = [p \in Pages |-> index[g][p]]

Numbers ==
    /\ meta.generation \in Nat /\ lastGeneration \in Nat
    /\ meta.generation <= MaxGeneration

Columns == DirtyColumns /\ Shapes /\ Numbers

BackupColumns ==
    backup # NoBackup =>
        /\ backup.sequence \in Nat
        /\ backup.dirty \in [Pages -> Nat]
        /\ backup.pages = [p \in Pages |-> backup.pages[p]]
        /\ backup.last \in Nat

NotAhead == \A p \in Pages : dirty[p] <= dirtySequence

BackupNotAhead ==
    backup # NoBackup => \A p \in Pages : backup.dirty[p] <= backup.sequence

SearchIInv ==
    /\ Columns
    /\ BackupColumns
    /\ NotAhead
    /\ BackupNotAhead
    /\ CleanPagesProjected

\* The migration leaves no generation, and no row ahead of the sequence.
LEMMA SearchInitHolds == SearchInit => SearchIInv
<1> SUFFICES ASSUME SearchInit PROVE SearchIInv
  OBVIOUS
<1>1. Columns
  <2>1. DirtyColumns
    BY DEF SearchInit, DirtyColumns
  <2>2. Shapes
    BY DEF SearchInit, Shapes, Empty
  <2>3. Numbers
    BY SearchConstants DEF SearchInit, Numbers
  <2> QED
    BY <2>1, <2>2, <2>3 DEF Columns
<1>2. NotAhead
  BY DEF SearchInit, NotAhead
<1>3. CleanPagesProjected
  BY DEF SearchInit, CleanPagesProjected
<1>4. BackupColumns /\ BackupNotAhead
  BY DEF SearchInit, BackupColumns, BackupNotAhead
<1> QED
  BY <1>1, <1>2, <1>3, <1>4 DEF SearchIInv

\* A write inside immediate_transaction projects what it dirtied.
LEMMA CoordinatedWriteHolds ==
    ASSUME SearchIInv, NEW p \in Pages, CoordinatedWrite(p)
    PROVE  SearchIInv'
<1> PICK row \in Changes(p) :
        /\ row # pages[p]
        /\ dirtySequence < MaxSequence
        /\ pages' = [pages EXCEPT ![p] = row]
        /\ dirtySequence' = dirtySequence + 1
        /\ FlushDirtySince(Dirtied(p))
  BY DEF CoordinatedWrite, TriggersMark
<1> UNCHANGED <<meta, generations, lastGeneration, running, backup>>
  BY DEF CoordinatedWrite
<1>a. DirtyColumns /\ Shapes /\ Numbers /\ NotAhead /\ CleanPagesProjected
  BY DEF SearchIInv, Columns
<1>1. BackupColumns' /\ BackupNotAhead'
  BY DEF SearchIInv, BackupColumns, BackupNotAhead
<1>2. /\ Dirtied(p) \in [Pages -> Nat]
      /\ Dirtied(p)[p] = dirtySequence + 1
      /\ \A q \in Pages : q # p => Dirtied(p)[q] = dirty[q] /\ pages'[q] = pages[q]
  BY <1>a DEF DirtyColumns, Shapes, Dirtied
<1>3. \A q \in Pages : q # p => ~(Dirtied(p)[q] > dirtySequence)
  BY <1>a, <1>2 DEF NotAhead, DirtyColumns
<1>4. CASE Usable
  <2>1. meta.generation \in Generations
    BY <1>4, <1>a, SearchConstants DEF Usable, Numbers, Generations
  <2>2. /\ index' = [index EXCEPT ![meta.generation] =
               [q \in Pages |-> IF Dirtied(p)[q] > dirtySequence
                                THEN Project(pages'[q], running)
                                ELSE index[meta.generation][q]]]
        /\ dirty' = [q \in Pages |-> StillDirty(q, Dirtied(p))]
    BY <1>4 DEF FlushDirtySince
  <2>3. \A q \in Pages :
           dirty'[q] = IF Dirtied(p)[q] > dirtySequence THEN 0 ELSE Dirtied(p)[q]
    BY <2>2 DEF StillDirty
  <2>4. Columns'
    <3>1. dirty' \in [Pages -> Nat]
      BY <1>2, <2>2, <2>3
    <3>2. pages' = [q \in Pages |-> pages'[q]]
      BY <1>a DEF Shapes
    <3>3. index' = [g \in Generations |-> index'[g]]
      BY <2>2, <1>a DEF Shapes
    <3>4. \A g \in Generations : index'[g] = [q \in Pages |-> index'[g][q]]
      BY <2>1, <2>2, <1>a DEF Shapes
    <3>5. DirtyColumns'
      BY <3>1, <1>a DEF DirtyColumns
    <3>6. Shapes'
      BY <3>2, <3>3, <3>4 DEF Shapes
    <3>7. Numbers'
      BY <1>a DEF Numbers
    <3> QED
      BY <3>5, <3>6, <3>7 DEF Columns
  <2>5. NotAhead'
    BY <1>a, <1>2, <1>3, <2>3 DEF NotAhead, DirtyColumns
  <2>6. \A q \in Pages :
           index'[meta.generation][q] =
              IF q = p THEN Project(pages'[q], running)
              ELSE index[meta.generation][q]
    <3>1. \A q \in Pages : Dirtied(p)[q] > dirtySequence <=> q = p
      BY <1>a, <1>2, <1>3 DEF DirtyColumns
    <3>2. index'[meta.generation] =
            [q \in Pages |-> IF Dirtied(p)[q] > dirtySequence
                             THEN Project(pages'[q], running)
                             ELSE index[meta.generation][q]]
      BY <2>1, <2>2, <1>a DEF Shapes
    <3> QED
      BY <3>1, <3>2
  <2>7. CleanPagesProjected'
    <3> SUFFICES ASSUME NEW q \in Pages, dirty'[q] = 0
                 PROVE  index'[meta.generation][q] = Project(pages'[q], meta.version)
      BY DEF CleanPagesProjected, Indexed
    <3>1. CASE q = p
      BY <3>1, <2>6, <1>4 DEF Usable
    <3>2. CASE q # p
      <4>1. dirty[q] = 0 /\ pages'[q] = pages[q]
        BY <3>2, <1>2, <1>3, <2>3
      <4>2. index[meta.generation][q] = Project(pages[q], meta.version)
        BY <4>1, <1>4, <1>a DEF CleanPagesProjected, Indexed, Usable
      <4> QED
        BY <4>1, <4>2, <2>6, <3>2
    <3> QED
      BY <3>1, <3>2
  <2> QED
    BY <1>1, <2>4, <2>5, <2>7 DEF SearchIInv
<1>5. CASE ~Usable
  <2>1. index' = index /\ dirty' = Dirtied(p)
    BY <1>5 DEF FlushDirtySince
  <2>2. Columns'
    <3>1. DirtyColumns'
      BY <2>1, <1>2, <1>a DEF DirtyColumns
    <3>2. Shapes'
      BY <2>1, <1>a DEF Shapes
    <3>3. Numbers'
      BY <1>a DEF Numbers
    <3> QED
      BY <3>1, <3>2, <3>3 DEF Columns
  <2>3. NotAhead'
    BY <2>1, <1>2, <1>a DEF NotAhead, DirtyColumns
  <2>4. CleanPagesProjected'
    <3> SUFFICES ASSUME NEW q \in Pages, dirty'[q] = 0, meta.generation # 0
                 PROVE  index[meta.generation][q] = Project(pages'[q], meta.version)
      BY <2>1 DEF CleanPagesProjected, Indexed
    <3>1. q # p
      BY <2>1, <1>2, <1>a DEF DirtyColumns
    <3> QED
      BY <3>1, <2>1, <1>2, <1>a DEF CleanPagesProjected, Indexed
  <2> QED
    BY <1>1, <2>2, <2>3, <2>4 DEF SearchIInv
<1> QED
  BY <1>4, <1>5

\* A bypassed write leaves its Page dirty.
LEMMA BypassedWriteHolds ==
    ASSUME SearchIInv, NEW p \in Pages, BypassedWrite(p)
    PROVE  SearchIInv'
<1> PICK row \in Changes(p) :
        /\ pages' = [pages EXCEPT ![p] = row]
        /\ dirtySequence' = dirtySequence + 1
        /\ dirty' = Dirtied(p)
  BY DEF BypassedWrite, TriggersMark
<1> UNCHANGED <<index, meta, generations, lastGeneration, running, backup>>
  BY DEF BypassedWrite
<1>a. DirtyColumns /\ Shapes /\ Numbers /\ NotAhead /\ CleanPagesProjected
  BY DEF SearchIInv, Columns
<1>1. BackupColumns' /\ BackupNotAhead'
  BY DEF SearchIInv, BackupColumns, BackupNotAhead
<1>2. /\ dirty' \in [Pages -> Nat]
      /\ dirty'[p] = dirtySequence + 1
      /\ \A q \in Pages : q # p => dirty'[q] = dirty[q] /\ pages'[q] = pages[q]
  BY <1>a DEF DirtyColumns, Shapes, Dirtied
<1>3. Columns'
  <2>1. DirtyColumns'
    BY <1>2, <1>a DEF DirtyColumns
  <2>2. Shapes'
    BY <1>a DEF Shapes
  <2>3. Numbers'
    BY <1>a DEF Numbers
  <2> QED
    BY <2>1, <2>2, <2>3 DEF Columns
<1>4. NotAhead'
  BY <1>2, <1>a DEF NotAhead, DirtyColumns
<1>5. CleanPagesProjected'
  <2> SUFFICES ASSUME NEW q \in Pages, dirty'[q] = 0, meta.generation # 0
               PROVE  index[meta.generation][q] = Project(pages'[q], meta.version)
    BY DEF CleanPagesProjected, Indexed
  <2>1. q # p
    BY <1>2, <1>a DEF DirtyColumns
  <2> QED
    BY <2>1, <1>2, <1>a DEF CleanPagesProjected, Indexed
<1> QED
  BY <1>1, <1>3, <1>4, <1>5 DEF SearchIInv

\* A rebuild projects every Page and clears every dirty row.
LEMMA RebuildHolds ==
    ASSUME SearchIInv, RebuildSearchIndex
    PROVE  SearchIInv'
<1> DEFINE g == lastGeneration + 1
<1>a. DirtyColumns /\ Shapes /\ Numbers
  BY DEF SearchIInv, Columns
<1>1. BackupColumns' /\ BackupNotAhead'
  BY DEF SearchIInv, BackupColumns, BackupNotAhead, RebuildSearchIndex
<1>2. /\ g \in Generations /\ lastGeneration' = g
      /\ meta' = [ready |-> TRUE, generation |-> g, version |-> running]
      /\ dirty' = [p \in Pages |-> 0]
      /\ pages' = pages /\ dirtySequence' = dirtySequence
      /\ index' = [h \in Generations |->
            IF h = g THEN [p \in Pages |-> Project(pages[p], running)]
            ELSE IF h = meta.generation THEN Empty ELSE index[h]]
  BY DEF RebuildSearchIndex, Erased
<1>3. Columns'
  <2>1. \A h \in Generations : index'[h] = [p \in Pages |-> index'[h][p]]
    BY <1>2, <1>a DEF Shapes, Empty
  <2>2. Shapes'
    BY <2>1, <1>2, <1>a DEF Shapes
  <2>3. DirtyColumns'
    BY <1>2, <1>a DEF DirtyColumns
  <2>4. Numbers'
    BY <1>2, <1>a, SearchConstants DEF Numbers, Generations
  <2> QED
    BY <2>2, <2>3, <2>4 DEF Columns
<1>4. NotAhead'
  BY <1>2, <1>a DEF NotAhead, DirtyColumns
<1>5. CleanPagesProjected'
  BY <1>2 DEF CleanPagesProjected, Indexed
<1> QED
  BY <1>1, <1>3, <1>4, <1>5 DEF SearchIInv

\* A restored bundle has no generation.
LEMMA RestoreHolds ==
    ASSUME SearchIInv, RestoreBackup
    PROVE  SearchIInv'
<1>1. BackupColumns /\ BackupNotAhead
  BY DEF SearchIInv
<1>2. BackupColumns' /\ BackupNotAhead'
  BY <1>1 DEF BackupColumns, BackupNotAhead, RestoreBackup
<1>3. Columns'
  <2>1. DirtyColumns'
    BY <1>1 DEF BackupColumns, DirtyColumns, RestoreBackup
  <2>2. Shapes'
    BY <1>1 DEF BackupColumns, Shapes, RestoreBackup, Empty
  <2>3. Numbers'
    BY <1>1, SearchConstants DEF BackupColumns, Numbers, RestoreBackup
  <2> QED
    BY <2>1, <2>2, <2>3 DEF Columns
<1>4. NotAhead'
  BY <1>1 DEF BackupNotAhead, NotAhead, RestoreBackup
<1>5. CleanPagesProjected'
  BY DEF CleanPagesProjected, RestoreBackup
<1> QED
  BY <1>2, <1>3, <1>4, <1>5 DEF SearchIInv

LEMMA SearchStep == SearchIInv /\ [SearchNext]_searchVars => SearchIInv'
<1> SUFFICES ASSUME SearchIInv, [SearchNext]_searchVars PROVE SearchIInv'
  OBVIOUS
<1>1. CASE \E p \in Pages : CoordinatedWrite(p)
  BY <1>1, CoordinatedWriteHolds
<1>2. CASE \E p \in Pages : BypassedWrite(p)
  BY <1>2, BypassedWriteHolds
<1>3. CASE RebuildSearchIndex
  BY <1>3, RebuildHolds
<1>4. CASE \E version \in Versions : Deploy(version)
  BY <1>4 DEF Deploy, SearchIInv, Columns, DirtyColumns, Shapes,
     Numbers, BackupColumns, NotAhead,
     BackupNotAhead, CleanPagesProjected, Indexed
<1>5. CASE CreateBackup
  BY <1>5 DEF CreateBackup, SearchIInv, Columns, DirtyColumns, Shapes,
     Numbers, BackupColumns, NotAhead,
     BackupNotAhead, CleanPagesProjected, Indexed
<1>6. CASE RestoreBackup
  BY <1>6, RestoreHolds
<1>7. CASE UNCHANGED searchVars
  BY <1>7 DEF searchVars, SearchIInv, Columns, DirtyColumns, Shapes,
     Numbers, BackupColumns, NotAhead,
     BackupNotAhead, CleanPagesProjected, Indexed
<1> QED
  BY <1>1, <1>2, <1>3, <1>4, <1>5, <1>6, <1>7 DEF SearchNext

\* A served scope contains no dirty Page, so its projections are exact.
LEMMA ServedIsExact == SearchIInv => SearchNeverStale
<1> SUFFICES ASSUME SearchIInv, NEW scope \in Scopes, Served(scope)
             PROVE  /\ \A text \in Titles : Hits(scope, text) = Scan(scope, text)
                    /\ \A p \in Pages :
                          StateMatches(p) /\ PageIn(p, scope) => Indexed(p).by = running
  BY DEF SearchNeverStale
<1>1. \A p \in Pages : PageIn(p, scope) => Indexed(p) = Project(pages[p], running)
  <2> SUFFICES ASSUME NEW p \in Pages, PageIn(p, scope)
               PROVE  Indexed(p) = Project(pages[p], running)
    OBVIOUS
  <2>1. dirty[p] \in Nat /\ ~(dirty[p] > 0)
    BY DEF Served, NoDirtyPage, SearchIInv, Columns, DirtyColumns
  <2>2. dirty[p] = 0
    BY <2>1
  <2> QED
    BY <2>2 DEF Served, Usable, SearchIInv, CleanPagesProjected
<1>2. \A p \in Pages : Live(p) /\ PageIn(p, scope) =>
         Indexed(p).title = pages[p].title /\ Indexed(p).by = running
  BY <1>1 DEF Live, PageIn, Project
<1>3. ASSUME NEW text \in Titles PROVE Hits(scope, text) = Scan(scope, text)
  BY <1>2 DEF Hits, Scan, Served, ScopeComplete
<1>4. ASSUME NEW p \in Pages, StateMatches(p), PageIn(p, scope)
      PROVE  Indexed(p).by = running
  <2>1. Indexed(p) # NoState /\ pages[p] # NoPage
    BY <1>4 DEF StateMatches
  <2>2. Live(p)
    BY <2>1, <1>1, <1>4 DEF Live, Project
  <2> QED
    BY <2>2, <1>2, <1>4
<1> QED
  BY <1>3, <1>4

\* A search that is answered is exact, in every behaviour.
THEOREM SearchIsExact == SearchSpec => []SearchNeverStale
<1>1. SearchInit => SearchIInv
  BY SearchInitHolds
<1>2. SearchIInv /\ [SearchNext]_searchVars => SearchIInv'
  BY SearchStep
<1>3. SearchIInv => SearchNeverStale
  BY ServedIsExact
<1> QED
  BY <1>1, <1>2, <1>3, PTL DEF SearchSpec

-----------------------------------------------------------------------------
(* Libraries, Sections and Books.                                           *)

\* A Section lies in a Library, a Book in a Section.
ParentKind(i) ==
    IF i \in LibraryIds THEN {None} ELSE IF i \in SectionIds THEN LibraryIds ELSE SectionIds

\* What a record of an item, a pending request and an audit event look like.
ItemRecords == [parent: Items \cup {None}, name: Names, text: Texts, readme: Readmes, at: Nat]
CreateRequests == [op: {"create"}, item: SectionIds \cup BookIds, parent: Items,
                   name: Names, text: Texts, readme: Readmes]
ReadmeRequests == [op: {"readme"}, item: Items, seen: ItemRecords, readme: Readmes]
Writes == [actor: Agents \cup {"master"}, item: Items, seen: ItemRecords \cup {None}]

\* updated_at ascends from record to record.
Ascending(records) ==
    \A m, n \in DOMAIN records : m < n => records[m].at < records[n].at

Placed(i, records) == \A n \in DOMAIN records : records[n].parent \in ParentKind(i)

HistoryOK ==
    /\ history \in [Items -> Seq(ItemRecords)]
    /\ \A i \in Items : Ascending(history[i]) /\ Placed(i, history[i])

\* A request that passed its preflight speaks of what exists.
RequestOK(r) ==
    \/ r \in CreateRequests /\ r.parent \in ParentKind(r.item) /\ Exists(r.parent)
    \/ r \in ReadmeRequests /\ Exists(r.item)

Pending == {request[a] : a \in Agents} \ {None}

\* The inductive invariant.
StructureInv ==
    /\ HistoryOK
    /\ DOMAIN request = Agents /\ \A r \in Pending : RequestOK(r)
    /\ audits \in Seq(Writes)

\* What a step may do to the records of an item: nothing, or one more record,
\* in the same place and at a later time than the last one.
NextRecord(i, record) ==
    /\ record \in ItemRecords /\ record.parent \in ParentKind(i)
    /\ Exists(i) => record.parent = Current(i).parent /\ record.at > Current(i).at

Grows ==
    /\ history' = [i \in Items |-> history'[i]]
    /\ \A i \in Items :
          \/ history'[i] = history[i]
          \/ \E record : NextRecord(i, record) /\ history'[i] = Append(history[i], record)

\* The last record of a list, and of a list with one more.
LEMMA LastRecord ==
    ASSUME NEW S, NEW records \in Seq(S)
    PROVE  /\ records # <<>> => Last(records) \in S /\ Len(records) \in DOMAIN records
           /\ records # <<>> => Last(records) = records[Len(records)]
           /\ \A x \in S : /\ Append(records, x) \in Seq(S) /\ Append(records, x) # <<>>
                           /\ Last(Append(records, x)) = x
<1>1. ASSUME NEW x \in S
      PROVE  Append(records, x) \in Seq(S) /\ Append(records, x) # <<>>
    <2>1. Len(Append(records, x)) = Len(records) + 1 /\ Len(records) \in Nat
        OBVIOUS
    <2>2. Append(records, x) # <<>>
        BY <2>1
    <2>3. QED
        BY <2>2
<1>2. \A x \in S : Last(Append(records, x)) = x
    BY DEF Last
<1>3. records # <<>> => Len(records) \in DOMAIN records
    OBVIOUS
<1>4. QED
    BY <1>1, <1>2, <1>3 DEF Last

LEMMA GrowsKeepsHistory ==
    ASSUME HistoryOK, Grows
    PROVE  HistoryOK' /\ \A i \in Items : Exists(i) => Exists(i)'
<1>1. ASSUME NEW i \in Items
      PROVE  /\ history'[i] \in Seq(ItemRecords)
             /\ Ascending(history'[i]) /\ Placed(i, history'[i])
             /\ history[i] # <<>> => history'[i] # <<>>
    <2>1. history[i] \in Seq(ItemRecords) /\ Ascending(history[i]) /\ Placed(i, history[i])
        BY DEF HistoryOK
    <2>2. CASE history'[i] = history[i]
        BY <2>1, <2>2
    <2>3. ASSUME NEW record, NextRecord(i, record), history'[i] = Append(history[i], record)
          PROVE  /\ history'[i] \in Seq(ItemRecords)
                 /\ Ascending(history'[i]) /\ Placed(i, history'[i])
                 /\ history[i] # <<>> => history'[i] # <<>>
        <3> DEFINE old == history[i]
                   new == Append(old, record)
        <3>1. record \in ItemRecords /\ record.at \in Nat
            BY <2>3 DEF NextRecord, ItemRecords
        <3>2. /\ new \in Seq(ItemRecords) /\ new # <<>>
              /\ DOMAIN new = 1 .. Len(old) + 1 /\ DOMAIN old = 1 .. Len(old)
              /\ Len(old) \in Nat
              /\ new[Len(old) + 1] = record
              /\ \A n \in 1 .. Len(old) : new[n] = old[n]
            BY <2>1, <3>1
        <3>3. \A n \in DOMAIN old : old[n].at \in Nat
            <4>1. \A n \in DOMAIN old : old[n] \in ItemRecords
                BY <2>1
            <4>2. QED
                BY <4>1 DEF ItemRecords
        <3>4. \A n \in DOMAIN old : old[n].at < record.at
            <4>1. SUFFICES ASSUME NEW n \in DOMAIN old
                           PROVE  old[n].at < record.at
                OBVIOUS
            <4>2. old # <<>>
                BY <3>2, <4>1
            <4>3. Current(i) = old[Len(old)] /\ Len(old) \in DOMAIN old
                BY <2>1, <4>2, LastRecord DEF Current
            <4>4. old[Len(old)].at < record.at
                BY <2>3, <3>1, <3>3, <4>2, <4>3 DEF NextRecord, Exists
            <4>5. n = Len(old) \/ old[n].at < old[Len(old)].at
                BY <2>1, <3>2, <4>1, <4>3 DEF Ascending
            <4>6. QED
                BY <3>1, <3>3, <4>1, <4>3, <4>4, <4>5
        <3>5. Ascending(new)
            BY <2>1, <3>2, <3>4 DEF Ascending
        <3>6. Placed(i, new)
            BY <2>1, <2>3, <3>2 DEF Placed, NextRecord
        <3>7. QED
            BY <2>3, <3>2, <3>5, <3>6
    <2>4. QED
        BY <2>2, <2>3 DEF Grows
<1>2. HistoryOK'
    <2>1. history' \in [Items -> Seq(ItemRecords)]
        BY <1>1 DEF Grows
    <2>2. QED
        BY <1>1, <2>1 DEF HistoryOK, Ascending, Placed, ParentKind
<1>3. QED
    BY <1>1, <1>2 DEF Exists

\* Requests under way survive growth.
LEMMA GrowsKeepsRequests ==
    ASSUME HistoryOK, Grows, NEW r, RequestOK(r)
    PROVE  RequestOK(r)'
<1>1. CASE r \in CreateRequests /\ r.parent \in ParentKind(r.item) /\ Exists(r.parent)
    <2>1. r.parent \in Items
        BY <1>1 DEF CreateRequests
    <2>2. Exists(r.parent)'
        BY <1>1, <2>1, GrowsKeepsHistory
    <2>3. QED
        BY <1>1, <2>2 DEF RequestOK
<1>2. CASE r \in ReadmeRequests /\ Exists(r.item)
    <2>1. r.item \in Items
        BY <1>2 DEF ReadmeRequests
    <2>2. Exists(r.item)'
        BY <1>2, <2>1, GrowsKeepsHistory
    <2>3. QED
        BY <1>2, <2>2 DEF RequestOK
<1>3. QED
    BY <1>1, <1>2 DEF RequestOK

\* One more record of one item.
LEMMA StoreGrows ==
    ASSUME HistoryOK, NEW i \in Items, NEW record, NextRecord(i, record), Store(i, record)
    PROVE  Grows
<1>1. history' = [history EXCEPT ![i] = Append(history[i], record)]
    BY DEF Store
<1>2. \A j \in Items : history'[j] = IF j = i THEN Append(history[i], record) ELSE history[j]
    BY <1>1 DEF HistoryOK
<1>3. history' = [j \in Items |-> history'[j]]
    BY <1>1 DEF HistoryOK
<1>4. QED
    BY <1>2, <1>3 DEF Grows

LEMMA UnchangedGrows ==
    ASSUME HistoryOK, UNCHANGED history
    PROVE  Grows
BY DEF Grows, HistoryOK

\* The first record of an item.
LEMMA FirstRecord ==
    ASSUME NEW i \in Items, ~Exists(i), NEW parent \in ParentKind(i), NEW name \in Names,
           NEW text \in Texts, NEW readme \in Readmes, NEW now \in Clocks
    PROVE  NextRecord(i, NewRecord(parent, name, text, readme, now))
<1>1. parent \in Items \cup {None}
    BY DEF ParentKind, Items
<1>2. now \in Nat
    BY StructureAssumption
<1>3. QED
    BY <1>1, <1>2 DEF NextRecord, NewRecord, ItemRecords

\* An update leaves a record as it is or moves its time forward.
LEMMA UpdatesAdvance ==
    ASSUME NEW record \in ItemRecords, NEW name \in Names, NEW text \in Texts,
           NEW readme \in Readmes, NEW now \in Clocks
    PROVE  /\ UpdateMetadata(record, name, text, now) \in ItemRecords
           /\ UpdateMetadata(record, name, text, now).parent = record.parent
           /\ \/ UpdateMetadata(record, name, text, now) = record
              \/ UpdateMetadata(record, name, text, now).at > record.at
           /\ UpdateReadme(record, readme, now) \in ItemRecords
           /\ UpdateReadme(record, readme, now).parent = record.parent
           /\ \/ UpdateReadme(record, readme, now) = record
              \/ UpdateReadme(record, readme, now).at > record.at
           /\ UpdateReadme(record, readme, now).readme = readme
<1>1. now \in Nat /\ record.at \in Nat
    BY StructureAssumption DEF ItemRecords
<1>2. Later(now, record.at + 1) \in Nat /\ Later(now, record.at + 1) > record.at
    BY <1>1 DEF Later
<1> DEFINE t == Later(now, record.at + 1)
<1>3. t \in Nat /\ t > record.at
    BY <1>2
<1> HIDE DEF t
<1>4. /\ [record EXCEPT !.name = name, !.text = text, !.at = t] \in ItemRecords
      /\ [record EXCEPT !.name = name, !.text = text, !.at = t].parent = record.parent
      /\ [record EXCEPT !.name = name, !.text = text, !.at = t].at = t
    BY <1>3 DEF ItemRecords
<1>5. /\ [record EXCEPT !.readme = readme, !.at = t] \in ItemRecords
      /\ [record EXCEPT !.readme = readme, !.at = t].parent = record.parent
      /\ [record EXCEPT !.readme = readme, !.at = t].at = t
      /\ [record EXCEPT !.readme = readme, !.at = t].readme = readme
    BY <1>3 DEF ItemRecords
<1>6. UpdateMetadata(record, name, text, now) =
          IF record.name = name /\ record.text = text THEN record
          ELSE [record EXCEPT !.name = name, !.text = text, !.at = t]
    BY DEF UpdateMetadata, t
<1>7. UpdateReadme(record, readme, now) =
          IF record.readme = readme THEN record
          ELSE [record EXCEPT !.readme = readme, !.at = t]
    BY DEF UpdateReadme, t
<1>8. QED
    BY <1>3, <1>4, <1>5, <1>6, <1>7

LEMMA CurrentRecord ==
    ASSUME HistoryOK, NEW i \in Items, Exists(i)
    PROVE  Current(i) \in ItemRecords /\ Current(i).parent \in ParentKind(i)
<1>1. history[i] \in Seq(ItemRecords) /\ history[i] # <<>> /\ Placed(i, history[i])
    BY DEF HistoryOK, Exists
<1>2. Last(history[i]) \in ItemRecords /\ Len(history[i]) \in DOMAIN history[i]
      /\ Last(history[i]) = history[i][Len(history[i])]
    BY <1>1, LastRecord
<1>3. QED
    BY <1>1, <1>2 DEF Current, Placed

\* The form shows updated_at, and one updated_at belongs to one record.
LEMMA TimeIdentifies ==
    ASSUME HistoryOK, NEW i \in Items, NEW seen \in Opened(i), seen.at = Current(i).at
    PROVE  seen = Current(i) /\ seen \in ItemRecords
<1>1. history[i] \in Seq(ItemRecords) /\ Ascending(history[i])
    BY DEF HistoryOK
<1>2. PICK n \in DOMAIN history[i] : seen = history[i][n]
    BY DEF Opened, Range
<1>3. history[i] # <<>>
    BY <1>1, <1>2
<1>4. Len(history[i]) \in DOMAIN history[i] /\ Current(i) = history[i][Len(history[i])]
    BY <1>1, <1>3, LastRecord DEF Current
<1>5. n = Len(history[i]) \/ n < Len(history[i])
    BY <1>1, <1>2
<1>6. history[i][n] \in ItemRecords /\ history[i][n].at \in Nat
    <2>1. history[i][n] \in ItemRecords
        BY <1>1, <1>2
    <2>2. QED
        BY <2>1 DEF ItemRecords
<1>7. n = Len(history[i])
    BY <1>1, <1>2, <1>4, <1>5, <1>6 DEF Ascending
<1>8. QED
    BY <1>2, <1>4, <1>6, <1>7

\* What the property asks of one write.
WriteCurrent(write) ==
    /\ write.seen # None => write.seen = Current(write.item)
    /\ write.actor \in Agents => LibraryOf(write.item)' \in rights[write.actor]

LEMMA OneWrite ==
    ASSUME audits \in Seq(Writes), NEW write \in Writes, audits' = Append(audits, write)
    PROVE  audits' \in Seq(Writes) /\ NewWrites = {write}
<1>1. /\ audits' \in Seq(Writes)
      /\ DOMAIN audits = 1 .. Len(audits) /\ Len(audits) \in Nat
      /\ DOMAIN audits' = 1 .. Len(audits) + 1
      /\ audits'[Len(audits) + 1] = write
    OBVIOUS
<1>2. DOMAIN audits' \ DOMAIN audits = {Len(audits) + 1}
    BY <1>1
<1>3. QED
    BY <1>1, <1>2 DEF NewWrites

LEMMA NoWrite ==
    ASSUME UNCHANGED audits
    PROVE  NewWrites = {}
BY DEF NewWrites

\* What a step has to show: records grow, requests are sound, and so are writes.
LEMMA StructureStep ==
    ASSUME StructureInv, Grows, DOMAIN request' = Agents,
           \A r \in Pending' : r \in Pending \/ RequestOK(r), audits' \in Seq(Writes)
    PROVE  StructureInv'
<1>1. \A r \in Pending' : RequestOK(r)
    BY DEF StructureInv
<1>2. HistoryOK
    BY DEF StructureInv
<1>3. \A r \in Pending' : RequestOK(r)'
    BY <1>1, <1>2, GrowsKeepsRequests
<1>4. HistoryOK'
    BY <1>2, GrowsKeepsHistory
<1>5. QED
    BY <1>3, <1>4 DEF StructureInv

\* A new record of an item in its old place, or its first one.
LEMMA LibraryStays ==
    ASSUME HistoryOK, NEW i \in Items, Exists(i), NEW record, NextRecord(i, record),
           Store(i, record)
    PROVE  LibraryOf(i)' = LibraryOf(i)
<1>1. \A j \in Items : history'[j] = IF j = i THEN Append(history[i], record) ELSE history[j]
    BY DEF Store, HistoryOK
<1>2. record \in ItemRecords /\ record.parent = Current(i).parent
    BY DEF NextRecord
<1>3. Current(i)' = record
    BY <1>1, <1>2, LastRecord DEF Current, HistoryOK
<1>4. Current(i).parent \in ParentKind(i)
    BY CurrentRecord
<1>5. CASE i \in LibraryIds
    BY <1>5, StructureAssumption DEF LibraryOf
<1>6. CASE i \in SectionIds
    BY <1>2, <1>3, <1>6, StructureAssumption DEF LibraryOf
<1>7. CASE i \in BookIds
    <2> DEFINE s == record.parent
    <2>1. s \in SectionIds /\ s # i /\ s \in Items
        BY <1>2, <1>4, <1>7, StructureAssumption DEF ParentKind, Items
    <2>2. history'[s] = history[s]
        BY <1>1, <2>1
    <2>3. LibraryOf(i)' = Last(history'[s]).parent
        BY <1>3, <1>7, StructureAssumption DEF LibraryOf, Current
    <2>4. LibraryOf(i) = Last(history[s]).parent
        BY <1>2, <1>7, StructureAssumption DEF LibraryOf, Current
    <2>5. QED
        BY <2>2, <2>3, <2>4
<1>8. QED
    BY <1>5, <1>6, <1>7 DEF Items

LEMMA LibraryOfNew ==
    ASSUME HistoryOK, NEW i \in SectionIds \cup BookIds, ~Exists(i), NEW record,
           NextRecord(i, record), Store(i, record)
    PROVE  LibraryOf(i)' = LibraryOf(record.parent)
<1>1. i \in Items
    BY DEF Items
<1>2. \A j \in Items : history'[j] = IF j = i THEN Append(history[i], record) ELSE history[j]
    BY <1>1 DEF Store, HistoryOK
<1>3. record \in ItemRecords /\ record.parent \in ParentKind(i)
    BY DEF NextRecord
<1>4. Current(i)' = record
    BY <1>1, <1>2, <1>3, LastRecord DEF Current, HistoryOK
<1> DEFINE s == record.parent
<1>5. CASE i \in SectionIds
    <2>1. s \in LibraryIds
        BY <1>3, <1>5, StructureAssumption DEF ParentKind
    <2>2. LibraryOf(s) = s
        BY <2>1, StructureAssumption DEF LibraryOf
    <2>3. QED
        BY <1>4, <1>5, <2>2, StructureAssumption DEF LibraryOf
<1>6. CASE i \in BookIds
    <2>1. s \in SectionIds /\ s # i /\ s \in Items
        BY <1>3, <1>6, StructureAssumption DEF ParentKind, Items
    <2>2. history'[s] = history[s]
        BY <1>2, <2>1
    <2>3. LibraryOf(i)' = Last(history'[s]).parent
        BY <1>4, <1>6, StructureAssumption DEF LibraryOf, Current
    <2>4. LibraryOf(s) = Last(history[s]).parent
        BY <2>1, StructureAssumption DEF LibraryOf, Current
    <2>5. QED
        BY <2>2, <2>3, <2>4
<1>7. QED
    BY <1>5, <1>6

\* Where the administrator and the preflight may put an item.
LEMMA ParentsKind ==
    ASSUME NEW i \in Items, NEW parent \in Parents(i)
    PROVE  /\ parent \in ParentKind(i)
           /\ i \notin LibraryIds => parent \in Items /\ Exists(parent)
<1>1. CASE i \in LibraryIds
    BY <1>1, StructureAssumption DEF Parents, ParentKind
<1>2. CASE i \in SectionIds
    BY <1>2, StructureAssumption DEF Parents, ParentKind, Items
<1>3. CASE i \in BookIds
    BY <1>3, StructureAssumption DEF Parents, ParentKind, Items
<1>4. QED
    BY <1>1, <1>2, <1>3 DEF Items

\* Writes of the administrator: a new item, or a form on the record it showed.
LEMMA CreateAsMasterHolds ==
    ASSUME StructureInv, NEW i \in Items, NEW parent \in Parents(i), NEW name \in Names,
           NEW text \in Texts, NEW readme \in Readmes, NEW now \in Clocks,
           CreateAsMaster(i, parent, name, text, readme, now)
    PROVE  StructureInv' /\ \A write \in NewWrites : WriteCurrent(write)
<1> DEFINE write == [actor |-> "master", item |-> i, seen |-> None]
<1>1. NextRecord(i, NewRecord(parent, name, text, readme, now))
    BY FirstRecord, ParentsKind DEF CreateAsMaster
<1>2. Grows
    BY <1>1, StoreGrows DEF CreateAsMaster, StructureInv
<1>3. write \in Writes /\ audits' = Append(audits, write) /\ UNCHANGED request
    BY DEF Writes, CreateAsMaster, Audited
<1>4. audits' \in Seq(Writes) /\ NewWrites = {write}
    BY <1>3, OneWrite DEF StructureInv
<1>5. WriteCurrent(write)
    BY StructureAssumption DEF WriteCurrent
<1>6. StructureInv'
    BY <1>2, <1>3, <1>4, StructureStep DEF StructureInv, Pending
<1>7. QED
    BY <1>4, <1>5, <1>6

LEMMA EditStructureHolds ==
    ASSUME StructureInv, NEW i \in Items, NEW seen \in Opened(i), NEW name \in Names,
           NEW text \in Texts, NEW readme \in Readmes, NEW now \in Clocks,
           EditStructure(i, seen, name, text, readme, now)
    PROVE  StructureInv' /\ \A write \in NewWrites : WriteCurrent(write)
<1> DEFINE write == [actor |-> "master", item |-> i, seen |-> seen]
           half == UpdateMetadata(Current(i), name, text, now)
           edited == UpdateReadme(half, readme, now)
<1>1. HistoryOK /\ Exists(i) /\ seen.at = Current(i).at
    BY DEF StructureInv, EditStructure
<1>2. Current(i) \in ItemRecords /\ Current(i).parent \in ParentKind(i)
    BY <1>1, CurrentRecord
<1>3. seen = Current(i) /\ seen \in ItemRecords
    BY <1>1, TimeIdentifies
<1>4. /\ half \in ItemRecords /\ half.parent = Current(i).parent
      /\ half = Current(i) \/ half.at > Current(i).at
    BY <1>2, UpdatesAdvance
<1>5. /\ edited \in ItemRecords /\ edited.parent = half.parent
      /\ edited = half \/ edited.at > half.at
    BY <1>4, UpdatesAdvance
<1>6. edited # Current(i) /\ Store(i, edited)
    BY DEF EditStructure
<1>7. edited.at > Current(i).at
    <2>1. edited.at \in Nat /\ half.at \in Nat /\ Current(i).at \in Nat
        BY <1>2, <1>4, <1>5 DEF ItemRecords
    <2>2. QED
        BY <1>4, <1>5, <1>6, <2>1
<1>8. NextRecord(i, edited)
    BY <1>2, <1>4, <1>5, <1>7 DEF NextRecord
<1>9. Grows
    BY <1>1, <1>6, <1>8, StoreGrows
<1>10. write \in Writes /\ audits' = Append(audits, write) /\ UNCHANGED request
    BY <1>3 DEF Writes, EditStructure, Audited
<1>11. audits' \in Seq(Writes) /\ NewWrites = {write}
    BY <1>10, OneWrite DEF StructureInv
<1>12. WriteCurrent(write)
    BY <1>3, StructureAssumption DEF WriteCurrent
<1>13. StructureInv'
    BY <1>9, <1>10, <1>11, StructureStep DEF StructureInv, Pending
<1>14. QED
    BY <1>11, <1>12, <1>13

\* The operator's seed creates what is missing on a path.
LEMMA SeedHolds ==
    ASSUME StructureInv, NEW l \in LibraryIds, NEW s \in SectionIds, NEW b \in BookIds,
           NEW name \in Names, NEW text \in Texts, NEW now \in Clocks,
           Seed(l, s, b, name, text, now)
    PROVE  StructureInv' /\ \A write \in NewWrites : WriteCurrent(write)
<1> DEFINE place == [i \in {l, s, b} |-> IF i = l THEN None ELSE IF i = s THEN l ELSE s]
           first(i) == NewRecord(place[i], name, text, EmptyReadme, now)
<1>1. HistoryOK
    BY DEF StructureInv
<1>2. /\ history' = [i \in Items |->
                        IF i \in {l, s, b} /\ ~Exists(i) /\ Named(place[i], name, Kind(i)) = {}
                        THEN <<first(i)>> ELSE history[i]]
      /\ UNCHANGED <<request, audits>>
    BY DEF Seed
<1>3. ASSUME NEW i \in Items, history'[i] # history[i]
      PROVE  \E record : NextRecord(i, record) /\ history'[i] = Append(history[i], record)
    <2>1. i \in {l, s, b} /\ ~Exists(i) /\ history'[i] = <<first(i)>>
        BY <1>2, <1>3
    <2>2. place[i] \in ParentKind(i)
        BY <2>1, StructureAssumption DEF ParentKind
    <2>3. NextRecord(i, first(i))
        BY <2>1, <2>2, FirstRecord, StructureAssumption
    <2>4. history'[i] = Append(history[i], first(i))
        BY <2>1 DEF Exists
    <2>5. QED
        BY <2>3, <2>4
<1>4. Grows
    BY <1>2, <1>3 DEF Grows
<1>5. NewWrites = {}
    BY <1>2, NoWrite
<1>6. StructureInv'
    BY <1>2, <1>4, StructureStep DEF StructureInv, Pending
<1>7. QED
    BY <1>5, <1>6

\* A preflight admits a request that speaks of what exists.
LEMMA PreflightHolds ==
    ASSUME StructureInv, NEW a \in Agents, NEW r, RequestOK(r),
           request' = [request EXCEPT ![a] = r], UNCHANGED <<history, audits>>
    PROVE  StructureInv' /\ \A write \in NewWrites : WriteCurrent(write)
<1>1. Grows
    BY UnchangedGrows DEF StructureInv
<1>2. DOMAIN request' = Agents
    BY DEF StructureInv
<1>3. \A q \in Pending' : q \in Pending \/ q = r
    BY DEF Pending, StructureInv
<1>4. StructureInv'
    BY <1>1, <1>2, <1>3, StructureStep DEF StructureInv
<1>5. QED
    BY <1>4, NoWrite

\* A request that is answered is no longer pending.
LEMMA AnsweredPending ==
    ASSUME StructureInv, NEW a \in Agents, Answered(a)
    PROVE  DOMAIN request' = Agents /\ \A q \in Pending' : q \in Pending
BY DEF StructureInv, Answered, Pending

LEMMA RefusedHolds ==
    ASSUME StructureInv, NEW a \in Agents, Answered(a), UNCHANGED <<history, audits>>
    PROVE  StructureInv' /\ \A write \in NewWrites : WriteCurrent(write)
<1>1. Grows
    BY UnchangedGrows DEF StructureInv
<1>2. StructureInv'
    BY <1>1, AnsweredPending, StructureStep DEF StructureInv
<1>3. QED
    BY <1>2, NoWrite

\* The write transactions of Agents authorize again, where the item is or is put.
LEMMA CreateItemHolds ==
    ASSUME StructureInv, NEW a \in Agents, NEW now \in Clocks, CreateItem(a, now),
           NEW r, r = request[a]
    PROVE  StructureInv' /\ \A write \in NewWrites : WriteCurrent(write)
<1>1. r # None /\ r.op = "create" /\ Answered(a)
    BY DEF CreateItem
<1>2. CASE UNCHANGED <<history, audits>>
    BY <1>1, <1>2, RefusedHolds
<1>3. CASE ~UNCHANGED <<history, audits>>
    <2> DEFINE record == NewRecord(r.parent, r.name, r.text, r.readme, now)
    <2>1. /\ Authorized(a, LibraryOf(r.parent)) /\ ~Exists(r.item)
          /\ Store(r.item, record)
          /\ Audited(a, r.item, None)
        BY <1>3 DEF CreateItem
    <2>2. /\ r \in CreateRequests /\ r.parent \in ParentKind(r.item)
          /\ r.item \in SectionIds \cup BookIds /\ r.item \in Items
          /\ r.name \in Names /\ r.text \in Texts /\ r.readme \in Readmes
        <3>1. RequestOK(r)
            BY <1>1 DEF StructureInv, Pending
        <3>2. r \notin ReadmeRequests
            BY <1>1 DEF ReadmeRequests
        <3>3. r \in CreateRequests /\ r.parent \in ParentKind(r.item)
            BY <3>1, <3>2 DEF RequestOK
        <3>4. QED
            BY <3>3 DEF CreateRequests, Items
    <2>3. NextRecord(r.item, record) /\ record.parent = r.parent
        BY <2>1, <2>2, FirstRecord DEF NewRecord
    <2>4. Grows
        BY <2>1, <2>2, <2>3, StoreGrows DEF StructureInv
    <2>5. LibraryOf(r.item)' = LibraryOf(r.parent)
        BY <2>1, <2>2, <2>3, LibraryOfNew DEF StructureInv
    <2>6. LibraryOf(r.item)' \in rights[a]
        BY <2>1, <2>5 DEF Authorized
    <2>7. PICK write \in Writes : /\ write.item = r.item /\ write.seen = None
                                  /\ write.actor = a /\ audits' = Append(audits, write)
        <3> DEFINE w == [actor |-> a, item |-> r.item, seen |-> None]
        <3>1. w \in Writes /\ audits' = Append(audits, w)
            BY <2>1, <2>2 DEF Writes, Audited
        <3>2. QED
            BY <3>1
    <2>8. audits' \in Seq(Writes) /\ NewWrites = {write}
        BY <2>7, OneWrite DEF StructureInv
    <2>9. WriteCurrent(write)
        BY <2>6, <2>7 DEF WriteCurrent
    <2>10. StructureInv'
        BY <1>1, <2>4, <2>8, AnsweredPending, StructureStep DEF StructureInv
    <2>11. QED
        BY <2>8, <2>9, <2>10
<1>4. QED
    BY <1>2, <1>3

LEMMA PutReadmeHolds ==
    ASSUME StructureInv, NEW a \in Agents, NEW now \in Clocks, PutReadme(a, now),
           NEW r, r = request[a]
    PROVE  StructureInv' /\ \A write \in NewWrites : WriteCurrent(write)
<1>1. r # None /\ r.op = "readme" /\ Answered(a)
    BY DEF PutReadme
<1>2. CASE UNCHANGED <<history, audits>>
    BY <1>1, <1>2, RefusedHolds
<1>3. CASE ~UNCHANGED <<history, audits>>
    <2> DEFINE record == UpdateReadme(Current(r.item), r.readme, now)
    <2>1. /\ Authorized(a, LibraryOf(r.item)) /\ Current(r.item) = r.seen
          /\ r.readme # r.seen.readme
          /\ Store(r.item, record)
          /\ Audited(a, r.item, r.seen)
        BY <1>3 DEF PutReadme
    <2>2. r.item \in Items /\ Exists(r.item) /\ r.readme \in Readmes
        <3>1. RequestOK(r)
            BY <1>1 DEF StructureInv, Pending
        <3>2. r \notin CreateRequests
            BY <1>1 DEF CreateRequests
        <3>3. r \in ReadmeRequests /\ Exists(r.item)
            BY <3>1, <3>2 DEF RequestOK
        <3>4. QED
            BY <3>3 DEF ReadmeRequests
    <2>3. Current(r.item) \in ItemRecords /\ Current(r.item).parent \in ParentKind(r.item)
        BY <2>2, CurrentRecord DEF StructureInv
    <2>4. /\ record \in ItemRecords /\ record.parent = Current(r.item).parent
          /\ record.readme = r.readme
          /\ record = Current(r.item) \/ record.at > Current(r.item).at
        <3>1. Current(r.item).name \in Names /\ Current(r.item).text \in Texts
            BY <2>3 DEF ItemRecords
        <3>2. QED
            BY <2>2, <2>3, <3>1, UpdatesAdvance
    <2>5. NextRecord(r.item, record)
        BY <2>1, <2>3, <2>4 DEF NextRecord
    <2>6. Grows
        BY <2>1, <2>2, <2>5, StoreGrows DEF StructureInv
    <2>7. LibraryOf(r.item)' \in rights[a]
        BY <2>1, <2>2, <2>5, LibraryStays DEF StructureInv, Authorized
    <2>8. PICK write \in Writes : /\ write.item = r.item /\ write.seen = Current(r.item)
                                  /\ write.actor = a /\ audits' = Append(audits, write)
        <3> DEFINE w == [actor |-> a, item |-> r.item, seen |-> r.seen]
        <3>1. w \in Writes /\ audits' = Append(audits, w)
            BY <2>1, <2>2, <2>3 DEF Writes, Audited
        <3>2. QED
            BY <2>1, <3>1
    <2>9. audits' \in Seq(Writes) /\ NewWrites = {write}
        BY <2>8, OneWrite DEF StructureInv
    <2>10. WriteCurrent(write)
        BY <2>7, <2>8 DEF WriteCurrent
    <2>11. StructureInv'
        BY <1>1, <2>6, <2>9, AnsweredPending, StructureStep DEF StructureInv
    <2>12. QED
        BY <2>9, <2>10, <2>11
<1>4. QED
    BY <1>2, <1>3

LEMMA StructureActions ==
    ASSUME StructureInv, StructureNext
    PROVE  StructureInv' /\ \A write \in NewWrites : WriteCurrent(write)
<1>1. ASSUME NEW a \in Agents, NEW i \in SectionIds \cup BookIds, NEW parent \in Parents(i),
             NEW name \in Names, NEW text \in Texts, NEW readme \in Readmes,
             PreflightCreate(a, i, parent, name, text, readme)
      PROVE  StructureInv' /\ \A write \in NewWrites : WriteCurrent(write)
    <2> DEFINE r == [op |-> "create", item |-> i, parent |-> parent, name |-> name,
                     text |-> text, readme |-> readme]
    <2>1. i \in Items /\ i \notin LibraryIds
        BY StructureAssumption DEF Items
    <2>2. parent \in ParentKind(i) /\ parent \in Items /\ Exists(parent)
        BY <2>1, ParentsKind
    <2>3. r \in CreateRequests
        BY <2>2 DEF CreateRequests
    <2>4. RequestOK(r)
        BY <2>2, <2>3 DEF RequestOK
    <2>5. request' = [request EXCEPT ![a] = r] /\ UNCHANGED <<history, audits>>
        BY <1>1 DEF PreflightCreate
    <2>6. QED
        BY <2>4, <2>5, PreflightHolds
<1>2. ASSUME NEW a \in Agents, NEW i \in Items, NEW readme \in Readmes, NEW seen \in Opened(i),
             PreflightReadme(a, i, seen, readme)
      PROVE  StructureInv' /\ \A write \in NewWrites : WriteCurrent(write)
    <2> DEFINE r == [op |-> "readme", item |-> i, seen |-> seen, readme |-> readme]
    <2>1. seen \in ItemRecords
        BY DEF StructureInv, HistoryOK, Opened, Range
    <2>2. r \in ReadmeRequests
        BY <2>1 DEF ReadmeRequests
    <2>3. RequestOK(r)
        BY <1>2, <2>2 DEF RequestOK, PreflightReadme
    <2>4. request' = [request EXCEPT ![a] = r] /\ UNCHANGED <<history, audits>>
        BY <1>2 DEF PreflightReadme
    <2>5. QED
        BY <2>3, <2>4, PreflightHolds
<1>3. ASSUME NEW a \in Agents, NEW library \in LibraryIds, ChangeRights(a, library)
      PROVE  StructureInv' /\ \A write \in NewWrites : WriteCurrent(write)
    <2>1. UNCHANGED <<history, request, audits>>
        BY <1>3 DEF ChangeRights
    <2>2. Grows
        BY <2>1, UnchangedGrows DEF StructureInv
    <2>3. StructureInv'
        BY <2>1, <2>2, StructureStep DEF StructureInv, Pending
    <2>4. QED
        BY <2>1, <2>3, NoWrite
<1>4. QED
    BY <1>1, <1>2, <1>3, CreateAsMasterHolds, EditStructureHolds, SeedHolds,
       CreateItemHolds, PutReadmeHolds DEF StructureNext

\* Nothing is written to a Library, Section or Book on the strength of a record
\* that has changed since its author read it, although a form knows the record
\* by its updated_at alone, and no Agent writes where its rights ended meanwhile.
THEOREM StructureWritesAreCurrent == StructureSpec => WritesAreCurrent
<1>1. StructureInit => StructureInv
    <2> SUFFICES ASSUME StructureInit
                 PROVE  StructureInv
        OBVIOUS
    <2>1. HistoryOK
        BY DEF StructureInit, HistoryOK, Ascending, Placed
    <2>2. DOMAIN request = Agents /\ Pending = {} /\ audits \in Seq(Writes)
        BY DEF StructureInit, Pending
    <2>3. QED
        BY <2>1, <2>2 DEF StructureInv
<1>2. StructureInv /\ [StructureNext]_structureVars => StructureInv'
    <2> SUFFICES ASSUME StructureInv, [StructureNext]_structureVars
                 PROVE  StructureInv'
        OBVIOUS
    <2>1. CASE StructureNext
        BY <2>1, StructureActions
    <2>2. CASE UNCHANGED structureVars
        BY <2>2 DEF structureVars, StructureInv, HistoryOK, Pending, RequestOK, Exists
    <2>3. QED
        BY <2>1, <2>2
<1>3. StructureInv /\ [StructureNext]_structureVars =>
        [\A write \in NewWrites :
            /\ write.seen # None => write.seen = Current(write.item)
            /\ write.actor \in Agents =>
                  LibraryOf(write.item)' \in rights[write.actor]]_structureVars
    BY StructureActions DEF WriteCurrent
<1>4. QED
    BY <1>1, <1>2, <1>3, PTL DEF StructureSpec, WritesAreCurrent

=============================================================================
