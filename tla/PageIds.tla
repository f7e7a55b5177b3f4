------------------------------- MODULE PageIds -------------------------------
(***************************************************************************)
(* Allocation of page-v1 identifiers at page creation.  An identifier is   *)
(* the occurrence timestamp, the slug of the creation title and, from the  *)
(* second page of one timestamp and slug on, a collision ordinal.  The     *)
(* parts are joined by hyphens, and a slug may itself end in a number: the *)
(* second page called "note" and the first called "note 2" spell the same  *)
(* identifier.  So a base's counter alone does not make identifiers        *)
(* unique; the permanent registry of every identifier does.                *)
(*                                                                         *)
(* This is the part of the creation transaction of PageStore that writes   *)
(* page_id_collision_counters and page_identifier_registry.  A creation    *)
(* that finds no identifier rolls back with everything it wrote.           *)
(***************************************************************************)
EXTENDS Integers, Sequences, FiniteSets

CONSTANTS
    PageUids,        \* page_uid values that may be allocated
    Stamps,       \* timestamps floored to the millisecond
    Slugs,        \* base slugs: sequences of words and numbers
    Attempts,     \* DEFAULT_COLLISION_ATTEMPTS
    MaxOrdinal,   \* MAX_COLLISION_ORDINAL
    NoId          \* a page that does not exist

ASSUME IdConstants ==
    /\ Attempts \in Nat /\ Attempts > 0
    /\ MaxOrdinal \in Nat /\ MaxOrdinal > 0

VARIABLES
    counters,     \* <<timestamp, slug>> -> next_ordinal, 0 without a row
    registry,     \* page_identifier_registry: [text, page] reservations
    ids           \* pages: page_uid -> its canonical identifier's parts

idVars == <<counters, registry, ids>>

Bases == Stamps \X Slugs

\* generate_page_id: prefix-slug, or prefix-slug-ordinal from the second on.
PageIdText(base, n) ==
    <<base[1], IF n = 1 THEN base[2] ELSE Append(base[2], n)>>

\* Mutant: the first ordinal tried is taken without a registry lookup.
IdentifierNeverExists(text) == FALSE

IdentifierExists(text) == \E r \in registry : r.text = text

\* next_ordinal = ordinal + 1
NextOrdinal(n) == n + 1

\* The ordinals one creation tries: from the counter on, at most Attempts.
Tried(base) ==
    LET first == IF counters[base] = 0 THEN 1 ELSE counters[base]
    IN  {n \in first .. first + Attempts - 1 : n <= MaxOrdinal}

\* _allocate_page_id and the page and registry rows that follow it.
CreateWithId(p, base) ==
    \E n \in Tried(base) :
        /\ ids[p] = NoId
        /\ ~IdentifierExists(PageIdText(base, n))
        /\ \A m \in Tried(base) : m < n => IdentifierExists(PageIdText(base, m))
        /\ counters' = [counters EXCEPT ![base] = NextOrdinal(n)]
        /\ registry' = registry \cup {[text |-> PageIdText(base, n), page |-> p]}
        /\ ids' = [ids EXCEPT ![p] = [base |-> base, ordinal |-> n]]

IdInit ==
    /\ counters = [base \in Bases |-> 0]
    /\ registry = {}
    /\ ids = [p \in PageUids |-> NoId]

IdNext == \E p \in PageUids, base \in Bases : CreateWithId(p, base)

IdSpec == IdInit /\ [][IdNext]_idVars

----------------------------------------------------------------------------

Allocated == {p \in PageUids : ids[p] # NoId}

IdText(p) == PageIdText(ids[p].base, ids[p].ordinal)

\* Type invariant: counters stay within next_ordinal BETWEEN 2 AND
\* MAX_COLLISION_ORDINAL + 1 and issued ordinals within MAX_COLLISION_ORDINAL.
IdTypeOK ==
    /\ counters \in [Bases -> {0} \cup 2 .. MaxOrdinal + 1]
    /\ ids \in [PageUids -> [base: Bases, ordinal: 1 .. MaxOrdinal] \cup {NoId}]
    /\ \A r \in registry : r.page \in PageUids

\* get_page resolves an identifier to at most one page, ever: no two pages
\* spell the same identifier even when their titles and ordinals conspire,
\* and every page is found under its own identifier.
IdentifiersResolve ==
    /\ \A r, s \in registry : r.text = s.text => r = s
    /\ \A p \in Allocated : [text |-> IdText(p), page |-> p] \in registry

\* The counter of a base lies beyond every ordinal the base was given, and
\* every ordinal it passed over is an identifier some page of another base
\* holds, so no ordinal is lost.
CountersTight ==
    \A base \in Bases : counters[base] > 0 =>
        \A n \in 1 .. counters[base] - 1 : IdentifierExists(PageIdText(base, n))

\* Identifiers are unique and none is wasted: titles that imitate ordinals
\* neither share an identifier with another page nor make _allocate_page_id
\* skip an ordinal that is free.
IdentifiersSound == IdentifiersResolve /\ CountersTight

CountersAhead ==
    \A p \in Allocated : ids[p].ordinal < counters[ids[p].base]

==============================================================================
