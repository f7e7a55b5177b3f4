---------------------------- MODULE MCPageStore ----------------------------
EXTENDS PageBackup, PageTriggers, PageRefinement

\* One Book in each of two Sections.
TwoPlaces == {<<"s1", "b1">>, <<"s2", "b2">>}

\* Routes of the content life of a page.
ContentRoutes ==
    {"archive_create", "archive_revise", "file_set_append",
     "correct_occurrence", "delete", "restore", "master_revise", "page_move"}

\* Two pages: creations under one key, and revision restores racing with
\* edits, a move and a deletion.
RestoreRoutes ==
    {"archive_create", "master_create", "archive_revise", "master_revise",
     "master_restore", "page_move", "page_delete", "page_restore"}

\* Routes that change where a page is, what it is called and whether it is
\* in the Trash.
MembershipRoutes ==
    {"file_set_create", "file_set_append", "page_move", "master_move",
     "page_delete", "page_restore", "master_lifecycle", "master_title",
     "master_correct"}

\* Interchangeable values.
Interchangeable ==
    Permutations(Keys) \cup Permutations(Contents) \cup Permutations(Titles)
        \cup Permutations(Pages) \cup Permutations(Callers)
=============================================================================
