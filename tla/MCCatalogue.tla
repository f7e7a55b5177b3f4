---------------------------- MODULE MCCatalogue ----------------------------
(* The catalogue of a Library: Page identifiers, the search index, and      *)
(* Libraries, Sections and Books.  The parts share no state and no property *)
(* spans two of them, so a behaviour follows one part (focus) while the     *)
(* others stay in an initial state.                                         *)
EXTENDS PageIds, SearchIndex, LibraryStructure, TLC

VARIABLE focus

\* "note", "note 2", "note 3" and "note 2 2": each spells identifiers that
\* an ordinal of another one spells too.
NoteSlugs == {<<"note">>, <<"note", 2>>, <<"note", 3>>, <<"note", 2, 2>>}

\* A reader of one Section and a reader of the whole Library.
NestedScopes == {{"s1"}, {"s1", "s2"}}
TwoSections == {"s1", "s2"}

EmptyIndex == /\ pages = [p \in Pages |-> NoPage]
              /\ running = CHOOSE v \in Versions : TRUE

MCInit ==
    /\ focus \in {"identifiers", "search", "structure"}
    /\ IdInit /\ SearchInit /\ StructureInit
    /\ focus # "search" => EmptyIndex

MCNext ==
    /\ UNCHANGED focus
    /\ \/ focus = "identifiers" /\ IdNext /\ UNCHANGED <<searchVars, structureVars>>
       \/ focus = "search" /\ SearchNext /\ UNCHANGED <<idVars, structureVars>>
       \/ focus = "structure" /\ StructureNext /\ UNCHANGED <<idVars, searchVars>>

MCSpec == MCInit /\ [][MCNext]_<<idVars, searchVars, structureVars, focus>>

Interchangeable == Permutations(Pages) \cup Permutations(Titles)
                   \cup Permutations(SectionIds) \cup Permutations(Names)
=============================================================================
