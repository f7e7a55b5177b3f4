----------------------------- MODULE MCConsole -----------------------------
(* What several people and Agents edit at once: workspace documents, Tags,  *)
(* installed Skills and the Library policies of credentials.  The models    *)
(* share no state, so a behaviour follows one of them (focus) while the     *)
(* others stay in an initial state.  Policies have two corners: forms that  *)
(* go stale over one credential and several edits, and rotations, with two  *)
(* credentials, one live at a time, but only one open form and one edit.    *)
EXTENDS Workspace, SkillInstall, Tags, LibraryScopes

CONSTANTS
    Other, x, y,                        \* a second file name, two contents
    md, a, b,                           \* names in a Skill package
    l1, l2, s1, s2, s3,                 \* Libraries and Sections
    op, legacy, scoped                  \* an operator and two Agents

VARIABLE focus

\* The Entry is always there; the second file is renamed over and removed.
MCSnapshots == {(Entry :> y) @@ (Other :> x)}
MCChanges ==
    {[remove |-> {}, renames |-> <<>>, put |-> (Entry :> x)],
     [remove |-> {}, renames |-> (Entry :> Other), put |-> (Entry :> y)],
     [remove |-> {Other}, renames |-> <<>>, put |-> <<>>]}

\* A file becomes a directory, a directory a file, and depth changes.
MCPackages ==
    {(<<md>> :> x) @@ (<<a, b>> :> x), (<<md>> :> y) @@ (<<a>> :> x),
     (<<md>> :> y), (<<md>> :> x) @@ (<<a, b, b>> :> y)}
MCUserPaths == {<<md>>, <<a>>, <<a, b>>, <<a, a>>}

MCLibraryOf == (s1 :> l1) @@ (s2 :> l1) @@ (s3 :> l2)
MCKeyOf == ("Go" :> "go") @@ ("go" :> "go") @@ ("art" :> "art")
           @@ ("zen" :> "zen") @@ (" x" :> Null)

Whole(kind, actions) == [kind |-> kind, actions |-> actions]

\* An operator of one Library; an Agent with Section grants from before there
\* were Library policies; an Agent that reads one Library and writes the other.
MCPolicy ==
    (op :> ((l1 :> Whole("operator", {})) @@ (l2 :> Whole("none", {}))))
    @@ (legacy :> ((l1 :> Whole("legacy", {})) @@ (l2 :> Whole("none", {}))))
    @@ (scoped :> ((l1 :> Whole("library", {"read"})) @@ (l2 :> Whole("library", {"write"}))))
MCGrants ==
    (op :> [s \in Sections |-> {}])
    @@ (legacy :> ((s1 :> {"query", "page.read", "archive.write"})
                   @@ (s2 :> {"query"}) @@ (s3 :> {})))
    @@ (scoped :> [s \in Sections |-> {}])

OneSection ==
    pages = [p \in PageUids |-> [section |-> CHOOSE s \in Sections : TRUE, live |-> TRUE]]

Editing == focus \in {"forms", "rotation"}

FormBound == Cardinality({k \in Creds : policy'[k] # Unused}) <= 1

RotationBound ==
    /\ Cardinality({f \in Forms : form'[f] # NoForm}) <= 1
    /\ \A e \in DOMAIN edits' : edits'[e] <= 1
    /\ Cardinality({k \in Creds : \E l \in LibraryUids : edits'[k, l] > 0}) <= 1
    /\ Cardinality(live') <= 1

MCInit ==
    /\ focus \in {"workspace", "install", "tags", "forms", "rotation"}
    /\ WorkspaceInit /\ InstallInit /\ TagsInit /\ ScopesInit
    /\ focus # "tags" => OneSection
    /\ ~Editing => libs = LibraryUids

MCNext ==
    /\ UNCHANGED focus
    /\ \/ focus = "workspace" /\ WorkspaceNext /\ UNCHANGED <<installVars, tagVars, vars>>
       \/ focus = "install" /\ InstallNext /\ UNCHANGED <<workspaceVars, tagVars, vars>>
       \/ focus = "tags" /\ TagsNext /\ UNCHANGED <<workspaceVars, installVars, vars>>
       \/ /\ Editing /\ ScopesNext /\ UNCHANGED <<workspaceVars, installVars, tagVars>>
          /\ focus = "forms" => FormBound
          /\ focus = "rotation" => RotationBound

MCSpec == MCInit /\ [][MCNext]_<<workspaceVars, installVars, tagVars, vars, focus>>

\* The configuration names the interchangeable values of all models alike:
\* Skills, Pages of Tags and credentials; labels, Tags and forms; keys and
\* Libraries with policies.  A permutation then serves whichever model moves,
\* and leaves the initial state of the others as it is.
Interchangeable ==
    Permutations(Keys) \cup Permutations(Skills) \cup Permutations(Labels)
=============================================================================
