-------------------------------- MODULE Tags --------------------------------
(***************************************************************************)
(* Tags of a Library and their associations with Pages.  Agents, operators *)
(* and the administrator create Tags and attach or detach them; only the   *)
(* administrator renames and deletes, in batches that are validated as a   *)
(* whole and then written row by row inside one write transaction.  Three  *)
(* listings read the same associations: the Tag directory, the Pages of a  *)
(* Tag and the Tags of a Page.                                             *)
(***************************************************************************)
EXTENDS Naturals, Sequences, FiniteSets

CONSTANTS
    Libraries, Sections, PageUids, TagIds,
    LibraryOf,    \* Section -> its Library
    Names,        \* Tag names a request may carry
    KeyOf,        \* name -> its case-folded matching key, Null if invalid
    Callers,      \* Agents and operators
    Policy,       \* caller, Library -> [kind, actions]: what it may do there
    Grants,       \* caller, Section -> Section actions granted
    MaxBatch,     \* bound on the changes of a batch
    MaxWrites,    \* bound on the writes
    Null          \* no Tag, no key, no replacement name

ASSUME TagsAssumption ==
    /\ LibraryOf \in [Sections -> Libraries]
    /\ DOMAIN KeyOf = Names
    /\ Policy \in [Callers -> [Libraries ->
           [kind: {"operator", "legacy", "library", "none"},
            actions: SUBSET {"read", "write"}]]]
    /\ Grants \in [Callers -> [Sections ->
           SUBSET {"query", "page.read", "archive.write"}]]
    /\ MaxBatch \in Nat /\ MaxWrites \in Nat
    /\ Null \notin [library: Libraries, name: Names, key: {KeyOf[n] : n \in Names}]

VARIABLES
    tags,       \* Tag id -> [library, name, key], or Null
    links,      \* rows of page_tags
    pages,      \* Page -> [section, live]
    broken,     \* a batch ran into a constraint of the database
    writes      \* writes so far

tagVars == <<tags, links, pages, broken, writes>>

TagsInit ==
    /\ tags = [t \in TagIds |-> Null]
    /\ links = {}
    /\ pages \in [PageUids -> [section: Sections, live: {TRUE}]]
    /\ broken = FALSE
    /\ writes = 0

CountWrite == writes < MaxWrites /\ writes' = writes + 1

InLibrary(t, l) == IF tags[t] = Null THEN FALSE ELSE tags[t].library = l

\* normalize_tag_name: the key of a valid name.
Valid(n) == KeyOf[n] # Null

\* find_tag: the Tags of a Library with that key.
FindTag(ts, l, k) ==
    {t \in TagIds : ts[t] # Null /\ ts[t].library = l /\ ts[t].key = k}

PageLibrary(p) == LibraryOf[pages[p].section]

\* live_page: the Page, in that Section and not in the Trash.
LivePage(p, s) == pages[p].live /\ pages[p].section = s

----------------------------------------------------------------------------
(* Authority.                                                              *)

\* _caller: a Library the caller may address at all.
KnownLibrary(c, l) ==
    \/ Policy[c][l].kind \in {"operator", "legacy"}
    \/ Policy[c][l].kind = "library" /\ Policy[c][l].actions # {}

\* _library_grant_mode, which an operator skips: the whole Library.
WholeLibrary(c, l, action) ==
    \/ Policy[c][l].kind = "operator"
    \/ Policy[c][l].kind = "library" /\ action \in Policy[c][l].actions

\* _require_section_action: an Agent without a Library policy needs every one.
SectionGranted(c, s, actions) ==
    /\ Policy[c][LibraryOf[s]].kind = "legacy"
    /\ actions \subseteq Grants[c][s]

MayCreate(c, l) == KnownLibrary(c, l) /\ WholeLibrary(c, l, "write")

MaySetPageTag(c, s) ==
    /\ KnownLibrary(c, LibraryOf[s])
    /\ \/ WholeLibrary(c, LibraryOf[s], "write")
       \/ SectionGranted(c, s, {"page.read", "archive.write"})

----------------------------------------------------------------------------
(* Writes.                                                                 *)

\* add_tag: a name whose key is taken gets the existing Tag, unchanged.
AddTag(l, n) ==
    /\ Valid(n)
    /\ FindTag(tags, l, KeyOf[n]) = {}
    /\ \E t \in TagIds :
          /\ tags[t] = Null
          /\ tags' = [tags EXCEPT ![t] =
                         [library |-> l, name |-> n, key |-> KeyOf[n]]]
    /\ UNCHANGED <<links, pages, broken>>
    /\ CountWrite

CreateTag(c, l, n) == MayCreate(c, l) /\ AddTag(l, n)

CreateTagAsMaster(l, n) == AddTag(l, n)

\* attach_page and detach_page; setting what is set changes nothing.
Associate(p, t, attach) ==
    /\ InLibrary(t, PageLibrary(p))
    /\ (<<p, t>> \in links) # attach
    /\ links' = IF attach THEN links \cup {<<p, t>>} ELSE links \ {<<p, t>>}
    /\ UNCHANGED <<tags, pages, broken>>
    /\ CountWrite

SetPageTag(c, s, p, t, attach) ==
    MaySetPageTag(c, s) /\ LivePage(p, s) /\ Associate(p, t, attach)

SetPageTagAsMaster(s, p, t, attach) ==
    LivePage(p, s) /\ Associate(p, t, attach)

\* A Page goes to the Trash, comes back or moves to a Section of its Library;
\* its associations stay.
MoveOrTrash(p, row) ==
    /\ row # pages[p]
    /\ row.section = pages[p].section \/ (row.live /\ pages[p].live)
    /\ LibraryOf[row.section] = PageLibrary(p)
    /\ pages' = [pages EXCEPT ![p] = row]
    /\ UNCHANGED <<tags, links, broken>>
    /\ CountWrite

----------------------------------------------------------------------------
(* Batches of the administrator.                                           *)

\* MasterTagBatchInput: each Tag once; a new name for each, or for none.
Batches(operation) ==
    LET change == [library: Libraries, tag: TagIds, expected: Names,
                   new: IF operation = "rename" THEN Names ELSE {Null}]
        shown == {c \in change : InLibrary(c.tag, c.library)
                                 /\ tags[c.tag].name = c.expected}
    IN  {b \in UNION {[1 .. n -> shown] : n \in 1 .. MaxBatch} :
            \A i, j \in DOMAIN b : b[i].tag = b[j].tag => i = j}

\* Mutant: a name may be taken over from a Tag the same batch renames.
OwnerAllowsChains(b, i) ==
    FindTag(tags, b[i].library, KeyOf[b[i].new]) \subseteq {b[j].tag : j \in DOMAIN b}

\* The owner of the replacement key is the Tag itself: no swap, no merge.
OwnerAllows(b, i) ==
    FindTag(tags, b[i].library, KeyOf[b[i].new]) \subseteq {b[i].tag}

\* The first pass of apply_master_tag_batch over the changes, whose Tags still
\* have the names the form expected.
BatchAccepted(operation, b) ==
    operation = "rename" =>
        \A i \in DOMAIN b :
            /\ Valid(b[i].new)
            /\ \A j \in 1 .. i - 1 :
                  <<b[j].library, KeyOf[b[j].new]>> # <<b[i].library, KeyOf[b[i].new]>>
            /\ OwnerAllows(b, i)

\* UPDATE tags: the first n changes are written; a name that stays is skipped.
Renamed(b, n) ==
    LET written == {i \in 1 .. n : b[i].new # b[i].expected}
    IN  [t \in TagIds |->
            IF \E i \in written : b[i].tag = t
            THEN LET c == b[CHOOSE i \in written : b[i].tag = t]
                 IN  [tags[t] EXCEPT !.name = c.new, !.key = KeyOf[c.new]]
            ELSE tags[t]]

\* The unique constraint, each time a row is written.
KeysStayUnique(b) ==
    \A i \in DOMAIN b :
        b[i].new # b[i].expected =>
            FindTag(Renamed(b, i - 1), b[i].library, KeyOf[b[i].new]) \subseteq {b[i].tag}

\* The second pass over a batch of renames; an error of the database rolls
\* everything back.
RenameRows(b) ==
    IF KeysStayUnique(b)
    THEN tags' = Renamed(b, Len(b)) /\ UNCHANGED <<links, broken>>
    ELSE broken' = TRUE /\ UNCHANGED <<tags, links>>

\* DELETE FROM page_tags, those of Pages in the Trash too, then from tags.
DeleteRows(b) ==
    LET gone == {b[i].tag : i \in DOMAIN b}
    IN  /\ links' = {l \in links : l[2] \notin gone}
        /\ tags' = [t \in TagIds |-> IF t \in gone THEN Null ELSE tags[t]]
        /\ UNCHANGED broken

ManageTagsAsMaster(operation, b) ==
    /\ BatchAccepted(operation, b)
    /\ IF operation = "rename" THEN RenameRows(b) ELSE DeleteRows(b)
    /\ UNCHANGED pages
    /\ CountWrite

TagsNext ==
    \/ \E c \in Callers, l \in Libraries, n \in Names : CreateTag(c, l, n)
    \/ \E l \in Libraries, n \in Names : CreateTagAsMaster(l, n)
    \/ \E c \in Callers, s \in Sections, p \in PageUids, t \in TagIds, a \in BOOLEAN :
          SetPageTag(c, s, p, t, a)
    \/ \E s \in Sections, p \in PageUids, t \in TagIds, a \in BOOLEAN :
          SetPageTagAsMaster(s, p, t, a)
    \/ \E p \in PageUids, row \in [section: Sections, live: BOOLEAN] : MoveOrTrash(p, row)
    \/ \E operation \in {"rename", "delete"} : \E b \in Batches(operation) :
          ManageTagsAsMaster(operation, b)

TagsSpec == TagsInit /\ [][TagsNext]_tagVars

----------------------------------------------------------------------------
(* Reads, each in one snapshot.                                            *)

\* The two Section grants a legacy Agent's directory joins on.
InScope(c, p) ==
    Policy[c][PageLibrary(p)].kind = "legacy" =>
        {"query", "page.read"} \subseteq Grants[c][pages[p].section]

MayRead(c, l) ==
    KnownLibrary(c, l) /\ (Policy[c][l].kind = "legacy" \/ WholeLibrary(c, l, "read"))

\* Mutant: the count takes in Pages in the Trash.
CountedWithTrash(c, t) == {p \in PageUids : <<p, t>> \in links /\ InScope(c, p)}

\* The rows visible_tags counts for a Tag.
CountedPages(c, t) ==
    {p \in PageUids : <<p, t>> \in links /\ pages[p].live /\ InScope(c, p)}

\* list_tags: all definitions, but for a legacy Agent only Tags with a Page.
ListTags(c, l) ==
    {t \in TagIds : /\ InLibrary(t, l)
                    /\ Policy[c][l].kind = "legacy" => CountedPages(c, t) # {}}

\* visible_tag_pages.
VisibleTagPages(c, l, t) ==
    {p \in PageUids : PageLibrary(p) = l /\ <<p, t>> \in links
                   /\ pages[p].live /\ InScope(c, p)}

\* list_tag_pages: not found unless the directory shows the Tag.
ListTagPages(c, l, t) ==
    IF t \in ListTags(c, l) THEN VisibleTagPages(c, l, t) ELSE {}

MayListPageTags(c, l, s) ==
    /\ KnownLibrary(c, l)
    /\ WholeLibrary(c, l, "read") \/ SectionGranted(c, s, {"page.read"})

ListPageTags(p) == {t \in TagIds : <<p, t>> \in links /\ tags[t] # Null}

\* The administrator's summary of a Tag and its view.
TagSummary(t) == Cardinality({p \in PageUids : <<p, t>> \in links /\ pages[p].live})

GetLibraryTag(l, t) ==
    {p \in PageUids : PageLibrary(p) = l /\ <<p, t>> \in links /\ pages[p].live}

----------------------------------------------------------------------------
(* Properties.                                                             *)

\* A batch that passed validation never meets the unique key of another Tag
\* half-way, whatever the order of its changes: apply_master_tag_batch promises
\* a clean conflict instead of a database error.
BatchesComplete == ~broken

\* For every caller the directory's count is the number of Pages the Tag lists,
\* and each of those Pages, asked for its Tags by the same caller, names the
\* Tag; the administrator's summary agrees with his view and with whoever reads
\* the whole Library.
DirectoryAgrees ==
    \A l \in Libraries : \A t \in {u \in TagIds : InLibrary(u, l)} :
        /\ TagSummary(t) = Cardinality(GetLibraryTag(l, t))
        /\ \A c \in {d \in Callers : MayRead(d, l)} :
              /\ CountedPages(c, t) = ListTagPages(c, l, t)
              /\ WholeLibrary(c, l, "read") => t \in ListTags(c, l)
              /\ WholeLibrary(c, l, "read") =>
                     Cardinality(CountedPages(c, t)) = TagSummary(t)
              /\ \A p \in ListTagPages(c, l, t) :
                     /\ MayListPageTags(c, l, pages[p].section)
                     /\ t \in ListPageTags(p)

=============================================================================
