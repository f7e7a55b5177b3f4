---------------------------- MODULE LibraryScopes ----------------------------
(***************************************************************************)
(* What an Agent credential may do in which Library.  A credential has     *)
(* either the legacy Section policy or a Library policy: per action a mode *)
(* and a set of selected Libraries.  The master edits policies through two *)
(* kinds of browser form, the whole scope and the older one for a single   *)
(* Library, which detect stale submissions by different tokens.            *)
(* Credentials is the life of the credential itself; here it is only live  *)
(* or retired.                                                             *)
(***************************************************************************)
EXTENDS Naturals, FiniteSets

CONSTANTS
    LibraryUids, Creds,
    Forms,          \* browser forms open at a time
    MaxEdits,       \* bound on edits of one credential
    Unused, Legacy, NoForm

Actions == {"read", "write"}
Modes == {"include", "exclude"}

\* Stored selection: CredentialLibraryPolicy and CredentialLibraryGrant.
Scopes == [mode: [Actions -> Modes], chosen: [Actions -> SUBSET LibraryUids]]
Policies == [scope: Scopes, revision: Nat]

ASSUME ScopeConstants ==
    /\ MaxEdits \in Nat
    /\ Unused \notin Policies /\ Legacy \notin Policies /\ Unused # Legacy

VARIABLES
    libs,       \* existing Libraries
    live,       \* credentials that are neither revoked, rotated nor expired
    policy,     \* credential -> Unused, Legacy or its Library policy
    audited,    \* <<credential, library>> -> grants_update events
    widened,    \* credentials with a scope_update event
    form,       \* browser form -> NoForm or what it shows
    edits       \* <<credential, library>> -> changes of rights so far (history)

vars == <<libs, live, policy, audited, widened, form, edits>>

ScopesInit ==
    /\ libs \in {S \in SUBSET LibraryUids : S # {}}
    /\ live = {}
    /\ policy = [k \in Creds |-> Unused]
    /\ audited = [x \in Creds \X LibraryUids |-> 0]
    /\ widened = {}
    /\ form = [f \in Forms |-> NoForm]
    /\ edits = [x \in Creds \X LibraryUids |-> 0]

HasPolicy(k) == policy[k] \notin {Unused, Legacy}

\* library_scope_allows
Allows(s, l, a) == IF s.mode[a] = "include" THEN l \in s.chosen[a]
                   ELSE l \notin s.chosen[a]

\* list_credential_library_grants for one Library: the effective rights.
Rights(s, l) == {a \in Actions : l \in libs /\ Allows(s, l, a)}

-----------------------------------------------------------------------------

CreateLibrary(l) ==
    /\ l \notin libs
    /\ libs' = libs \cup {l}
    /\ UNCHANGED <<live, policy, audited, widened, form, edits>>

\* library_exists of every selected Library.
Selectable(s) == \A a \in Actions : s.chosen[a] \subseteq libs

\* provision_agent_in_transaction
ProvisionAsMaster(k, s) ==
    /\ policy[k] = Unused /\ Selectable(s)
    /\ policy' = [policy EXCEPT ![k] = [scope |-> s, revision |-> 0]]
    /\ live' = live \cup {k}
    /\ UNCHANGED <<libs, audited, widened, form, edits>>

\* provision_agent by an operator: Section grants, no Library policy.
ProvisionLegacy(k) ==
    /\ policy[k] = Unused
    /\ policy' = [policy EXCEPT ![k] = Legacy]
    /\ live' = live \cup {k}
    /\ UNCHANGED <<libs, audited, widened, form, edits>>

\* Mutant: the effective rights are copied as an inclusion.
CopiedRights(s) == [mode |-> [a \in Actions |-> "include"],
                    chosen |-> [a \in Actions |-> {l \in libs : Allows(s, l, a)}]]

\* Modes and selections are copied as they are stored.
Copied(s) == s

\* rotate_agent_credential_as_master
RotateAsMaster(k, new) ==
    /\ k \in live /\ HasPolicy(k) /\ policy[new] = Unused
    /\ policy' = [policy EXCEPT ![new] = [scope |-> Copied(policy[k].scope),
                                          revision |-> 0]]
    /\ live' = (live \ {k}) \cup {new}
    /\ UNCHANGED <<libs, audited, widened, form, edits>>

\* Revocation, expiry, or the Agent is disabled.
Retire(k) ==
    /\ k \in live
    /\ live' = live \ {k}
    /\ UNCHANGED <<libs, policy, audited, widened, form, edits>>

-----------------------------------------------------------------------------
(* Forms.  seen is the history at the moment of display. *)

\* The console shows a credential with its scope_revision.
ShowScope(f, k) ==
    /\ k \in live /\ HasPolicy(k)
    /\ form' = [form EXCEPT ![f] =
         [kind |-> "scope", cred |-> k, expected |-> policy[k].revision,
          seen |-> [l \in LibraryUids |-> edits[<<k, l>>]]]]
    /\ UNCHANGED <<libs, live, policy, audited, widened, edits>>

\* target_library_grants_digest: one Library's rights and their revision.
Digest(k, l) == <<l, Rights(policy[k].scope, l), audited[<<k, l>>]>>

ShowGrants(f, k, l) ==
    /\ k \in live /\ HasPolicy(k) /\ l \in libs
    /\ form' = [form EXCEPT ![f] =
         [kind |-> "grants", cred |-> k, expected |-> Digest(k, l),
          seen |-> [m \in {l} |-> edits[<<k, m>>]]]]
    /\ UNCHANGED <<libs, live, policy, audited, widened, edits>>

Counted(k, changed) == [x \in DOMAIN edits |->
    IF x[1] = k /\ x[2] \in changed THEN edits[x] + 1 ELSE edits[x]]

\* set_agent_scope_as_master: replaces modes and both selections.
SetScope(f, s) ==
    /\ form[f] # NoForm /\ form[f].kind = "scope"
    /\ LET k == form[f].cred IN
         /\ k \in live
         /\ policy[k].revision = form[f].expected
         /\ Selectable(s)
         /\ s # policy[k].scope
         /\ policy[k].revision < MaxEdits
         /\ policy' = [policy EXCEPT ![k] = [scope |-> s, revision |-> @.revision + 1]]
         /\ widened' = widened \cup {k}
         /\ edits' = Counted(k, LibraryUids)
    /\ form' = [form EXCEPT ![f] = NoForm]
    /\ UNCHANGED <<libs, live, audited>>

RevisionAfterGrants(k) == policy[k].revision + 1

\* Mutant: the single-Library editor is not closed by a scope update.
GrantsEditableInclude(k) == \A a \in Actions : policy[k].scope.mode[a] = "include"

\* The older editor serves inclusions that the new one never touched.
GrantsEditable(k) ==
    /\ \A a \in Actions : policy[k].scope.mode[a] = "include"
    /\ k \notin widened

\* set_credential_library_grants: the selections with one Library's rights.
WithRights(s, l, wanted) ==
    [s EXCEPT !.chosen = [a \in Actions |->
        IF a \in wanted THEN s.chosen[a] \cup {l} ELSE s.chosen[a] \ {l}]]

\* set_agent_grants_as_master: replaces the rights of one Library.
SetGrants(f, wanted) ==
    /\ form[f] # NoForm /\ form[f].kind = "grants"
    /\ LET k == form[f].cred
           l == form[f].expected[1] IN
         /\ k \in live
         /\ GrantsEditable(k)
         /\ Digest(k, l) = form[f].expected
         /\ wanted # Rights(policy[k].scope, l)
         /\ policy[k].revision < MaxEdits
         /\ policy' = [policy EXCEPT ![k] =
              [scope |-> WithRights(policy[k].scope, l, wanted),
               revision |-> RevisionAfterGrants(k)]]
         /\ audited' = [audited EXCEPT ![<<k, l>>] = @ + 1]
         /\ edits' = Counted(k, {l})
    /\ form' = [form EXCEPT ![f] = NoForm]
    /\ UNCHANGED <<libs, live, widened>>

ScopesNext ==
    \/ \E l \in LibraryUids : CreateLibrary(l)
    \/ \E k \in Creds : ProvisionLegacy(k) \/ Retire(k)
    \/ \E k \in Creds, s \in Scopes : ProvisionAsMaster(k, s)
    \/ \E k, new \in Creds : RotateAsMaster(k, new)
    \/ \E f \in Forms, k \in Creds :
         ShowScope(f, k) \/ \E l \in LibraryUids : ShowGrants(f, k, l)
    \/ \E f \in Forms :
         \/ \E s \in Scopes : SetScope(f, s)
         \/ \E wanted \in SUBSET Actions : SetGrants(f, wanted)

ScopesSpec == ScopesInit /\ [][ScopesNext]_vars

-----------------------------------------------------------------------------
(* Properties. *)

\* A submission that is accepted was made on a form that still shows the
\* truth: no right it displayed was changed in between, not even back and
\* forth, by either editor.
NoStaleSubmission ==
    [][\A f \in Forms : form[f] # NoForm /\ edits' # edits /\ form'[f] = NoForm =>
         \A l \in DOMAIN form[f].seen :
             edits[<<form[f].cred, l>>] = form[f].seen[l]]_vars

\* Rotation neither widens nor narrows what the Agent may do, also in
\* Libraries that are created later.
RotationKeepsRights ==
    [][\A k \in live \ live' : \A new \in live' \ live :
         \A l \in LibraryUids, a \in Actions :
             Allows(policy'[new].scope, l, a) <=> Allows(policy[k].scope, l, a)]_vars

=============================================================================
