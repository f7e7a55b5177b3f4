-------------------------- MODULE LibraryStructure --------------------------
(***************************************************************************)
(* Libraries, Sections and Books: their metadata and READMEs.  The         *)
(* administrator edits the form he opened, identified by updated_at alone; *)
(* an Agent replaces a README under an ETag of the whole record, after a   *)
(* preflight of its rights and the upload of its body; the operator seeds  *)
(* a whole path at once.  Nothing is ever removed.                         *)
(***************************************************************************)
EXTENDS Naturals, Sequences, SequencesExt, FiniteSets

CONSTANTS
    LibraryIds, SectionIds, BookIds,  \* ids that may be allocated
    Names,       \* names of items
    Texts,       \* descriptions and summaries
    Readmes,     \* README texts
    EmptyReadme,       \* the empty README, the default
    Agents,      \* Agents with a Library policy
    Clocks,      \* instants the wall clock may read
    MaxWrites,   \* bound on the successful writes
    None         \* no item, no request, no base

ASSUME StructureAssumption ==
    /\ LibraryIds \cap SectionIds = {} /\ (LibraryIds \cup SectionIds) \cap BookIds = {}
    /\ None \notin LibraryIds \cup SectionIds \cup BookIds
    /\ EmptyReadme \in Readmes /\ Clocks \subseteq Nat /\ MaxWrites \in Nat
    /\ "master" \notin Agents

Items == LibraryIds \cup SectionIds \cup BookIds

VARIABLES
    history,    \* item -> its records in commit order; the last one is current
    rights,     \* Agent -> Libraries its policy lets it write
    request,    \* Agent -> its request after the preflight, or None
    audits      \* successful writes: actor, item, and the record it was based on

structureVars == <<history, rights, request, audits>>

StructureInit ==
    /\ history = [i \in Items |-> <<>>]
    /\ rights = [a \in Agents |-> LibraryIds]
    /\ request = [a \in Agents |-> None]
    /\ audits = <<>>

Exists(i) == history[i] # <<>>

Current(i) == Last(history[i])

Opened(i) == Range(history[i])

\* Where an item of this kind may be created.
Parents(i) ==
    CASE i \in LibraryIds -> {None}
      [] i \in SectionIds -> {l \in LibraryIds : Exists(l)}
      [] i \in BookIds -> {s \in SectionIds : Exists(s)}

LibraryOf(i) ==
    CASE i \in LibraryIds -> i
      [] i \in SectionIds -> Current(i).parent
      [] i \in BookIds -> Current(Current(i).parent).parent

\* find_*_by_name: the sibling with that name.
Named(parent, name, kind) ==
    {i \in kind : Exists(i) /\ Current(i).parent = parent /\ Current(i).name = name}

Kind(i) == CHOOSE kind \in {LibraryIds, SectionIds, BookIds} : i \in kind

NewRecord(parent, name, text, readme, now) ==
    [parent |-> parent, name |-> name, text |-> text, readme |-> readme, at |-> now]

Later(now, earlier) == IF now > earlier THEN now ELSE earlier

Store(i, record) == history' = [history EXCEPT ![i] = Append(@, record)]

Audited(actor, i, seen) ==
    /\ Len(audits) < MaxWrites
    /\ audits' = Append(audits, [actor |-> actor, item |-> i, seen |-> seen])

-----------------------------------------------------------------------------
(* Updates                                                                 *)

\* update_library, update_section, update_book
UpdateMetadata(record, name, text, now) ==
    IF record.name = name /\ record.text = text THEN record
    ELSE [record EXCEPT !.name = name, !.text = text, !.at = Later(now, @ + 1)]

\* Mutant: the README's time is the clock's.
UpdateReadmeAtNow(record, readme, now) ==
    IF record.readme = readme THEN record
    ELSE [record EXCEPT !.readme = readme, !.at = Later(now, @)]

\* update_readme
UpdateReadme(record, readme, now) ==
    IF record.readme = readme THEN record
    ELSE [record EXCEPT !.readme = readme, !.at = Later(now, @ + 1)]

-----------------------------------------------------------------------------
(* The administrator                                                       *)

CreateAsMaster(i, parent, name, text, readme, now) ==
    /\ ~Exists(i)
    /\ Named(parent, name, Kind(i)) = {}
    /\ Store(i, NewRecord(parent, name, text, readme, now))
    /\ Audited("master", i, None)
    /\ UNCHANGED <<rights, request>>

\* edit_structure: metadata, then the README in the same transaction; a form
\* that changes nothing leaves no trace.
EditStructure(i, seen, name, text, readme, now) ==
    /\ Exists(i)
    /\ seen.at = Current(i).at
    /\ (Current(i).name # name \/ Current(i).text # text) =>
          Named(Current(i).parent, name, Kind(i)) \subseteq {i}
    /\ LET edited == UpdateReadme(UpdateMetadata(Current(i), name, text, now), readme, now)
       IN edited # Current(i) /\ Store(i, edited)
    /\ Audited("master", i, seen)
    /\ UNCHANGED <<rights, request>>

\* LibrarySeedService.seed: the path l, s, b, each found by name or created.
Seed(l, s, b, name, text, now) ==
    LET place == [i \in {l, s, b} |-> IF i = l THEN None ELSE IF i = s THEN l ELSE s]
        found(i) == Exists(i) /\ Current(i).parent = place[i]
                       /\ Current(i).name = name /\ Current(i).text = text
        free(i)  == ~Exists(i) /\ Named(place[i], name, Kind(i)) = {}
    IN /\ \A i \in {l, s, b} : found(i) \/ free(i)
       /\ \E i \in {l, s, b} : free(i)
       /\ history' = [i \in Items |->
                        IF i \in {l, s, b} /\ free(i)
                        THEN <<NewRecord(place[i], name, text, EmptyReadme, now)>> ELSE history[i]]
       /\ UNCHANGED <<rights, request, audits>>

-----------------------------------------------------------------------------
(* Agents: api/library_structure_routes.py                                 *)

\* The preflight in a read transaction; the body arrives afterwards.
PreflightCreate(a, i, parent, name, text, readme) ==
    /\ request[a] = None /\ ~Exists(i)
    /\ LibraryOf(parent) \in rights[a]
    /\ request' = [request EXCEPT ![a] =
            [op |-> "create", item |-> i, parent |-> parent, name |-> name,
             text |-> text, readme |-> readme]]
    /\ UNCHANGED <<history, rights, audits>>

PreflightReadme(a, i, seen, readme) ==
    /\ request[a] = None /\ Exists(i)
    /\ LibraryOf(i) \in rights[a]
    /\ request' = [request EXCEPT ![a] = [op |-> "readme", item |-> i, seen |-> seen,
                                          readme |-> readme]]
    /\ UNCHANGED <<history, rights, audits>>

\* _authorize in the write transaction
Authorized(a, library) == library \in rights[a]

Answered(a) == request' = [request EXCEPT ![a] = None]

\* An existing name answers 200 or 409 and changes nothing.
CreateItem(a, now) ==
    LET r == request[a] IN
    /\ r # None /\ r.op = "create"
    /\ IF Authorized(a, LibraryOf(r.parent)) /\ ~Exists(r.item)
            /\ Named(r.parent, r.name, Kind(r.item)) = {}
       THEN /\ Store(r.item, NewRecord(r.parent, r.name, r.text, r.readme, now))
            /\ Audited(a, r.item, None)
       ELSE UNCHANGED <<history, audits>>
    /\ Answered(a)
    /\ UNCHANGED rights

\* guide_etag hashes the whole record.
PutReadme(a, now) ==
    LET r == request[a] IN
    /\ r # None /\ r.op = "readme"
    /\ IF Authorized(a, LibraryOf(r.item)) /\ Current(r.item) = r.seen
            /\ r.readme # r.seen.readme
       THEN /\ Store(r.item, UpdateReadme(Current(r.item), r.readme, now))
            /\ Audited(a, r.item, r.seen)
       ELSE UNCHANGED <<history, audits>>
    /\ Answered(a)
    /\ UNCHANGED rights

\* The administrator changes the Agent's policy, which LibraryScopes models.
ChangeRights(a, library) ==
    /\ rights' = [rights EXCEPT ![a] = IF library \in @ THEN @ \ {library} ELSE @ \cup {library}]
    /\ UNCHANGED <<history, request, audits>>

-----------------------------------------------------------------------------

StructureNext ==
    \/ \E now \in Clocks :
         \/ \E i \in Items : \E parent \in Parents(i) :
              \E name \in Names, text \in Texts, readme \in Readmes :
                 CreateAsMaster(i, parent, name, text, readme, now)
         \/ \E i \in Items : \E seen \in Opened(i) :
              \E name \in Names, text \in Texts, readme \in Readmes :
                 EditStructure(i, seen, name, text, readme, now)
         \/ \E l \in LibraryIds, s \in SectionIds, b \in BookIds, name \in Names, text \in Texts :
              Seed(l, s, b, name, text, now)
         \/ \E a \in Agents : CreateItem(a, now) \/ PutReadme(a, now)
    \/ \E a \in Agents, i \in SectionIds \cup BookIds : \E parent \in Parents(i) :
         \E name \in Names, text \in Texts, readme \in Readmes :
            PreflightCreate(a, i, parent, name, text, readme)
    \/ \E a \in Agents, i \in Items, readme \in Readmes : \E seen \in Opened(i) :
         PreflightReadme(a, i, seen, readme)
    \/ \E a \in Agents, library \in LibraryIds : ChangeRights(a, library)

StructureSpec == StructureInit /\ [][StructureNext]_structureVars

-----------------------------------------------------------------------------

NewWrites == {audits'[n] : n \in DOMAIN audits' \ DOMAIN audits}

\* No write rests on something that changed after its author read it: a form,
\* known by its updated_at, and an Agent's README, known by its ETag, are
\* accepted only if the whole record is still the one the editor read, and an
\* Agent whose rights were withdrawn while it uploaded its body writes nothing.
WritesAreCurrent ==
    [][\A write \in NewWrites :
          /\ write.seen # None => write.seen = Current(write.item)
          /\ write.actor \in Agents =>
                 LibraryOf(write.item)' \in rights[write.actor]]_structureVars

=============================================================================
