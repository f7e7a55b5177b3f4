--------------------------- MODULE PageRefinement ---------------------------
(***************************************************************************)
(* The page store implements the page register.  A version of the register *)
(* is what clients use as one: the state an ETag names.                    *)
(***************************************************************************)
EXTENDS PageStore

\* The version a client takes an ETag of p for: the state of p that has it.
VersionOf(p, etag) ==
    CHOOSE i \in DOMAIN rows[p] : ETag(p, rows[p][i]) = etag

\* A receipt as its client reads it: the version it sent in If-Match (none for
\* a creation) and the version whose ETag it got back.
AsAnswer(r) ==
    [name |-> r.key, page |-> r.page,
     read |-> IF r.request.page = NoPage THEN 0
              ELSE VersionOf(r.page, r.request.etag),
     wrote |-> VersionOf(r.page, r.etag)]

\* Routes under which a receipt can be stored, by kind of actor.
MasterRoutes == Routes \cap {"master_create", "master_revise", "master_move"}

CallerRoutes ==
    Routes \cap {"archive_create", "file_set_create", "archive_revise",
                 "file_set_append", "correct_occurrence", "delete", "restore",
                 "page_delete", "page_restore", "page_move"}

RequestNames ==
    (Callers \X CallerRoutes \X Keys) \cup ({Master} \X MasterRoutes \X Keys)

Register == INSTANCE PageRegister WITH
    Requests <- RequestNames,
    version  <- [p \in Pages |-> Len(rows[p])],
    answered <- {AsAnswer(r) : r \in receipts}

\* The store implements the register: under stale If-Match values, clocks that
\* run backwards and revision restores in two transactions, every request is
\* an atomic compare-and-set of the version its client saw, answered once,
\* and an answer never changes its meaning afterwards.
ImplementsRegister == Register!Spec
=============================================================================
