---------------------------- MODULE ConsoleProofs ----------------------------
(***************************************************************************)
(* What the administrator's console edits.  For any number of Libraries,   *)
(* credentials, open forms and edits, a policy form is accepted only while *)
(* it shows the truth, and a rotation changes no right.  For any packages  *)
(* and any files of the user, an installation touches only files it knows  *)
(* to be its own, and a folder nobody else touched can always be updated.  *)
(* For any number of Tags and any size of batch, a validated batch is      *)
(* applied completely.  For any number of editors and documents, nobody    *)
(* overwrites what he has not seen without being told, and every answer    *)
(* stays provable in a backup.                                             *)
(***************************************************************************)
EXTENDS LibraryScopes, SkillInstall, Workspace, Tags, FiniteSetTheorems, TLAPS

-----------------------------------------------------------------------------
(* Library policies of credentials.                                        *)

Cells == Creds \X LibraryUids

ScopeTypes ==
    /\ policy \in [Creds -> Policies \cup {Unused, Legacy}]
    /\ audited \in [Cells -> Nat] /\ edits \in [Cells -> Nat]
    /\ DOMAIN form = Forms

\* A whole-scope form: the revision counts every edit by either editor.
ScopeFormOK(k, shown) ==
    /\ shown.expected \in Nat /\ shown.expected <= policy[k].revision
    /\ DOMAIN shown.seen = LibraryUids
    /\ shown.expected = policy[k].revision =>
          \A l \in LibraryUids : shown.seen[l] = edits[<<k, l>>]

\* A single-Library form: its audit count misses the edits by whole scope, but
\* after one of those the older editor is closed.
GrantsFormOK(k, l, shown) ==
    /\ l \in LibraryUids /\ shown.expected[3] \in Nat
    /\ shown.expected[3] <= audited[<<k, l>>]
    /\ DOMAIN shown.seen = {l}
    /\ shown.expected[3] = audited[<<k, l>>] /\ k \notin widened =>
          shown.seen[l] = edits[<<k, l>>]

FormOK(shown) ==
    /\ shown.cred \in Creds /\ HasPolicy(shown.cred)
    /\ shown.kind = "scope" => ScopeFormOK(shown.cred, shown)
    /\ shown.kind = "grants" => GrantsFormOK(shown.cred, shown.expected[1], shown)

\* What the open forms show.
Shown == {form[f] : f \in Forms} \ {NoForm}

\* The inductive invariant.
ScopesInv == ScopeTypes /\ \A shown \in Shown : FormOK(shown)

\* A form stays sound while the history of its credential stands still.
LEMMA StandingFormKept ==
    ASSUME NEW shown, FormOK(shown), policy'[shown.cred] = policy[shown.cred],
           shown.cred \in widened => shown.cred \in widened',
           \A l \in LibraryUids : /\ audited'[<<shown.cred, l>>] = audited[<<shown.cred, l>>]
                                 /\ edits'[<<shown.cred, l>>] = edits[<<shown.cred, l>>]
    PROVE  FormOK(shown)'
<1>1. (shown.cred \in Creds /\ HasPolicy(shown.cred))'
    <2>1. shown.cred \in Creds /\ policy[shown.cred] \notin {Unused, Legacy}
        BY DEF FormOK, HasPolicy
    <2>2. policy'[shown.cred] \notin {Unused, Legacy}
        BY <2>1
    <2>3. QED
        BY <2>1, <2>2 DEF HasPolicy
<1>2. shown.kind = "scope" => ScopeFormOK(shown.cred, shown)'
    BY DEF FormOK, ScopeFormOK
<1>3. shown.kind = "grants" => GrantsFormOK(shown.cred, shown.expected[1], shown)'
    BY DEF FormOK, GrantsFormOK
<1>4. QED
    BY <1>1, <1>2, <1>3 DEF FormOK

\* Steps that give a credential its policy, end its life or open a Library.
LEMMA PoliciesKept ==
    ASSUME ScopesInv,
           \/ \E l \in LibraryUids : CreateLibrary(l)
           \/ \E k \in Creds : ProvisionLegacy(k) \/ Retire(k)
           \/ \E k \in Creds, s \in Scopes : ProvisionAsMaster(k, s)
           \/ \E k, new \in Creds : RotateAsMaster(k, new)
           \/ UNCHANGED vars
    PROVE  ScopesInv'
<1>1. UNCHANGED <<audited, widened, form, edits>>
    BY DEF CreateLibrary, ProvisionLegacy, Retire, ProvisionAsMaster, RotateAsMaster, vars
<1>2. \/ policy' = policy
      \/ \E k \in Creds, new \in Policies \cup {Unused, Legacy} :
            policy[k] = Unused /\ policy' = [policy EXCEPT ![k] = new]
    <2>1. ASSUME NEW k \in Creds, NEW s \in Scopes, ProvisionAsMaster(k, s)
          PROVE  [scope |-> s, revision |-> 0] \in Policies
        BY DEF Policies
    <2>2. ASSUME NEW k \in Creds, NEW new \in Creds, RotateAsMaster(k, new)
          PROVE  [scope |-> Copied(policy[k].scope), revision |-> 0] \in Policies
        <3>1. policy[k] \in Policies
            BY <2>2 DEF ScopesInv, ScopeTypes, RotateAsMaster, HasPolicy
        <3>2. QED
            BY <3>1 DEF Policies, Copied
    <2>3. QED
        BY <2>1, <2>2 DEF CreateLibrary, ProvisionLegacy, Retire, ProvisionAsMaster,
           RotateAsMaster, vars
<1>3. ScopeTypes'
    BY <1>1, <1>2 DEF ScopesInv, ScopeTypes
<1>4. ASSUME NEW shown \in Shown
      PROVE  FormOK(shown)'
    <2>1. FormOK(shown)
        BY DEF ScopesInv
    <2>2. policy'[shown.cred] = policy[shown.cred]
        BY <1>2, <2>1 DEF ScopesInv, ScopeTypes, FormOK, HasPolicy
    <2>3. QED
        BY <1>1, <2>1, <2>2, StandingFormKept
<1>5. QED
    BY <1>1, <1>3, <1>4 DEF ScopesInv, Shown

\* A form that is opened shows the truth.
LEMMA ShowKept ==
    ASSUME ScopesInv, NEW f \in Forms, NEW k \in Creds,
           ShowScope(f, k) \/ \E l \in LibraryUids : ShowGrants(f, k, l)
    PROVE  ScopesInv'
<1>1. PICK new : form' = [form EXCEPT ![f] = new] /\ FormOK(new)
    <2>1. CASE ShowScope(f, k)
        <3> DEFINE new == [kind |-> "scope", cred |-> k, expected |-> policy[k].revision,
                           seen |-> [l \in LibraryUids |-> edits[<<k, l>>]]]
        <3>1. policy[k] \in Policies /\ HasPolicy(k)
            BY <2>1 DEF ShowScope, HasPolicy, ScopesInv, ScopeTypes
        <3>2. policy[k].revision \in Nat
            BY <3>1 DEF Policies
        <3>3. FormOK(new)
            BY <3>1, <3>2 DEF FormOK, ScopeFormOK
        <3>4. QED
            BY <2>1, <3>3 DEF ShowScope
    <2>2. ASSUME NEW l \in LibraryUids, ShowGrants(f, k, l)
          PROVE  \E new : form' = [form EXCEPT ![f] = new] /\ FormOK(new)
        <3> DEFINE new == [kind |-> "grants", cred |-> k, expected |-> Digest(k, l),
                           seen |-> [m \in {l} |-> edits[<<k, m>>]]]
        <3>1. HasPolicy(k)
            BY <2>2 DEF ShowGrants
        <3>2. audited[<<k, l>>] \in Nat
            BY DEF ScopesInv, ScopeTypes, Cells
        <3>3. new.expected[1] = l /\ new.expected[3] = audited[<<k, l>>]
            BY DEF Digest
        <3>4. FormOK(new)
            BY <3>1, <3>2, <3>3 DEF FormOK, GrantsFormOK
        <3>5. QED
            BY <2>2, <3>4 DEF ShowGrants
    <2>3. QED
        BY <2>1, <2>2
<1>2. UNCHANGED <<policy, audited, widened, edits>>
    BY DEF ShowScope, ShowGrants
<1>3. \A shown : FormOK(shown) => FormOK(shown)'
    BY <1>2 DEF FormOK, ScopeFormOK, GrantsFormOK, HasPolicy
<1>4. Shown' \subseteq Shown \cup {new}
    BY <1>1 DEF Shown
<1>5. ScopeTypes'
    BY <1>1, <1>2 DEF ScopesInv, ScopeTypes
<1>6. QED
    BY <1>1, <1>3, <1>4, <1>5 DEF ScopesInv

\* The history after an edit.
LEMMA CountedCells ==
    ASSUME edits \in [Cells -> Nat], NEW k \in Creds, NEW changed
    PROVE  /\ Counted(k, changed) \in [Cells -> Nat]
           /\ \A j \in Creds, l \in LibraryUids :
                 Counted(k, changed)[<<j, l>>] =
                     IF j = k /\ l \in changed THEN edits[<<j, l>>] + 1 ELSE edits[<<j, l>>]
<1>1. \A j \in Creds, l \in LibraryUids :
          /\ <<j, l>> \in DOMAIN edits
          /\ <<j, l>>[1] = j /\ <<j, l>>[2] = l
    BY DEF Cells
<1>2. \A x \in DOMAIN edits : edits[x] \in Nat
    OBVIOUS
<1>3. QED
    BY <1>1, <1>2 DEF Counted, Cells

\* The selections of a policy with other rights in one Library.
LEMMA WithRightsScope ==
    ASSUME NEW s \in Scopes, NEW l \in LibraryUids, NEW wanted
    PROVE  WithRights(s, l, wanted) \in Scopes
<1>1. [a \in Actions |-> IF a \in wanted THEN s.chosen[a] \cup {l} ELSE s.chosen[a] \ {l}]
          \in [Actions -> SUBSET LibraryUids]
    BY DEF Scopes
<1>2. QED
    BY <1>1 DEF Scopes, WithRights

\* A submitted form of the whole scope ages every other form of its credential:
\* those of the same kind by the revision, those of the other by the closure.
LEMMA SetScopeKept ==
    ASSUME ScopesInv, NEW f \in Forms, NEW s \in Scopes, SetScope(f, s),
           NEW k \in Creds, form[f].cred = k
    PROVE  ScopesInv'
<1> DEFINE old == policy[k]
           new == [scope |-> s, revision |-> policy[k].revision + 1]
<1>1. FormOK(form[f]) /\ HasPolicy(k)
    BY DEF ScopesInv, Shown, SetScope, FormOK
<1>2. old \in Policies /\ old.revision \in Nat
    BY <1>1 DEF ScopesInv, ScopeTypes, HasPolicy, Policies
<1>3. new \in Policies
    BY <1>2 DEF Policies
<1>4. /\ policy' = [policy EXCEPT ![k] = new] /\ UNCHANGED audited
      /\ widened' = widened \cup {k}
      /\ edits' = Counted(k, LibraryUids)
      /\ form' = [form EXCEPT ![f] = NoForm]
    <2>1. policy' = [policy EXCEPT ![k] = [scope |-> s, revision |-> @.revision + 1]]
        BY DEF SetScope
    <2>2. policy' = [policy EXCEPT ![k] = new]
        BY <2>1, <1>1 DEF ScopesInv, ScopeTypes
    <2>3. QED
        BY <2>2 DEF SetScope
<1>5. ScopeTypes'
    BY <1>1, <1>3, <1>4, CountedCells DEF ScopesInv, ScopeTypes
<1>6. Shown' \subseteq Shown
    BY <1>4 DEF Shown
<1>7. ASSUME NEW shown \in Shown
      PROVE  FormOK(shown)'
    <2>1. FormOK(shown)
        BY DEF ScopesInv
    <2>2. CASE shown.cred = k
        <3>1. policy'[k] = new /\ HasPolicy(k)'
            BY <1>1, <1>3, <1>4, ScopeConstants DEF ScopesInv, ScopeTypes, HasPolicy
        <3>2. shown.kind = "scope" => ScopeFormOK(k, shown)'
            <4>1. shown.kind = "scope" =>
                    /\ shown.expected \in Nat /\ shown.expected <= old.revision
                    /\ DOMAIN shown.seen = LibraryUids
                BY <2>1, <2>2 DEF FormOK, ScopeFormOK
            <4>2. policy'[k].revision = old.revision + 1
                BY <3>1
            <4>3. QED
                BY <1>2, <4>1, <4>2 DEF ScopeFormOK
        <3>3. shown.kind = "grants" => GrantsFormOK(k, shown.expected[1], shown)'
            <4>1. k \in widened'
                BY <1>4
            <4>2. QED
                BY <1>4, <2>1, <2>2, <4>1 DEF FormOK, GrantsFormOK
        <3>4. QED
            BY <1>1, <2>2, <3>1, <3>2, <3>3 DEF FormOK
    <2>3. CASE shown.cred # k
        <3>1. policy'[shown.cred] = policy[shown.cred]
            BY <1>4, <2>1, <2>3 DEF ScopesInv, ScopeTypes, FormOK
        <3>2. \A l \in LibraryUids : /\ audited'[<<shown.cred, l>>] = audited[<<shown.cred, l>>]
                                     /\ edits'[<<shown.cred, l>>] = edits[<<shown.cred, l>>]
            BY <1>1, <1>4, <2>1, <2>3, CountedCells DEF ScopesInv, ScopeTypes, FormOK
        <3>3. QED
            BY <1>4, <2>1, <3>1, <3>2, StandingFormKept
    <2>4. QED
        BY <2>2, <2>3
<1>8. QED
    BY <1>5, <1>6, <1>7 DEF ScopesInv

\* A submitted form of one Library ages the forms of its credential that show
\* this Library, and no other.
LEMMA SetGrantsKept ==
    ASSUME ScopesInv, NEW f \in Forms, NEW wanted \in SUBSET Actions, SetGrants(f, wanted),
           NEW k \in Creds, form[f].cred = k,
           NEW l \in LibraryUids, form[f].expected[1] = l
    PROVE  ScopesInv'
<1> DEFINE old == policy[k]
           new == [scope |-> WithRights(policy[k].scope, l, wanted),
                   revision |-> policy[k].revision + 1]
<1>1. FormOK(form[f]) /\ HasPolicy(k)
    BY DEF ScopesInv, Shown, SetGrants, FormOK
<1>2. old \in Policies /\ old.revision \in Nat /\ old.scope \in Scopes
    BY <1>1 DEF ScopesInv, ScopeTypes, HasPolicy, Policies
<1>3. new \in Policies
    <2>1. new.scope \in Scopes
        BY <1>1, <1>2, WithRightsScope
    <2>2. QED
        BY <1>2, <2>1 DEF Policies
<1>4. /\ policy' = [policy EXCEPT ![k] = new] /\ UNCHANGED widened
      /\ audited' = [audited EXCEPT ![<<k, l>>] = audited[<<k, l>>] + 1]
      /\ edits' = Counted(k, {l})
      /\ form' = [form EXCEPT ![f] = NoForm]
    BY DEF SetGrants, RevisionAfterGrants
<1>5. <<k, l>> \in Cells /\ audited[<<k, l>>] \in Nat
    BY <1>1 DEF Cells, ScopesInv, ScopeTypes
<1>6. ScopeTypes'
    BY <1>1, <1>3, <1>4, <1>5, CountedCells DEF ScopesInv, ScopeTypes
<1>7. Shown' \subseteq Shown
    BY <1>4 DEF Shown
<1>8. ASSUME NEW shown \in Shown
      PROVE  FormOK(shown)'
    <2>1. FormOK(shown) /\ shown.cred \in Creds
        BY DEF ScopesInv, FormOK
    <2>2. \A j \in Creds, m \in LibraryUids :
              /\ audited'[<<j, m>>] = IF j = k /\ m = l THEN audited[<<j, m>>] + 1
                                                      ELSE audited[<<j, m>>]
              /\ edits'[<<j, m>>] = IF j = k /\ m = l THEN edits[<<j, m>>] + 1
                                                      ELSE edits[<<j, m>>]
        <3>1. \A j \in Creds, m \in LibraryUids :
                  <<j, m>> \in Cells /\ (<<j, m>> = <<k, l>> <=> j = k /\ m = l)
            BY DEF Cells
        <3>2. \A j \in Creds, m \in LibraryUids :
                  audited'[<<j, m>>] = IF j = k /\ m = l THEN audited[<<j, m>>] + 1
                                                        ELSE audited[<<j, m>>]
            BY <1>4, <3>1 DEF ScopesInv, ScopeTypes
        <3>3. edits \in [Cells -> Nat]
            BY DEF ScopesInv, ScopeTypes
        <3>4. \A j \in Creds, m \in LibraryUids :
                  Counted(k, {l})[<<j, m>>] = IF j = k /\ m \in {l} THEN edits[<<j, m>>] + 1
                                                                 ELSE edits[<<j, m>>]
            <4>1. \A j \in Creds, m \in LibraryUids :
                      /\ <<j, m>> \in DOMAIN edits
                      /\ <<j, m>>[1] = j /\ <<j, m>>[2] = m
                BY <3>3 DEF Cells
            <4>2. QED
                BY <4>1 DEF Counted
        <3>5. QED
            BY <1>4, <3>2, <3>4
    <2>3. CASE shown.cred = k
        <3>1. policy'[k] = new /\ HasPolicy(k)'
            BY <1>1, <1>3, <1>4, ScopeConstants DEF ScopesInv, ScopeTypes, HasPolicy
        <3>2. shown.kind = "scope" => ScopeFormOK(k, shown)'
            <4>1. shown.kind = "scope" =>
                    /\ shown.expected \in Nat /\ shown.expected <= old.revision
                    /\ DOMAIN shown.seen = LibraryUids
                BY <2>1, <2>3 DEF FormOK, ScopeFormOK
            <4>2. policy'[k].revision = old.revision + 1
                BY <3>1
            <4>3. QED
                BY <1>2, <4>1, <4>2 DEF ScopeFormOK
        <3>3. shown.kind = "grants" => GrantsFormOK(k, shown.expected[1], shown)'
            <4> DEFINE m == shown.expected[1]
            <4> SUFFICES ASSUME shown.kind = "grants"
                         PROVE  GrantsFormOK(k, m, shown)'
                OBVIOUS
            <4>1. GrantsFormOK(k, m, shown)
                BY <2>1, <2>3 DEF FormOK
            <4>2. m \in LibraryUids /\ audited[<<k, m>>] \in Nat
                BY <1>1, <4>1 DEF GrantsFormOK, ScopesInv, ScopeTypes, Cells
            <4>3. /\ audited'[<<k, m>>] = IF m = l THEN audited[<<k, m>>] + 1
                                                   ELSE audited[<<k, m>>]
                  /\ edits'[<<k, m>>] = IF m = l THEN edits[<<k, m>>] + 1
                                                 ELSE edits[<<k, m>>]
                BY <2>2, <4>2
            <4>4. CASE m = l
                BY <4>1, <4>2, <4>3, <4>4 DEF GrantsFormOK
            <4>5. CASE m # l
                BY <1>4, <4>1, <4>3, <4>5 DEF GrantsFormOK
            <4>6. QED
                BY <4>4, <4>5
        <3>4. QED
            BY <1>1, <2>3, <3>1, <3>2, <3>3 DEF FormOK
    <2>4. CASE shown.cred # k
        <3>1. policy'[shown.cred] = policy[shown.cred]
            BY <1>4, <2>1, <2>4 DEF ScopesInv, ScopeTypes
        <3>2. \A m \in LibraryUids : /\ audited'[<<shown.cred, m>>] = audited[<<shown.cred, m>>]
                                     /\ edits'[<<shown.cred, m>>] = edits[<<shown.cred, m>>]
            BY <2>1, <2>2, <2>4
        <3>3. QED
            BY <1>4, <2>1, <3>1, <3>2, StandingFormKept
    <2>5. QED
        BY <2>3, <2>4
<1>9. QED
    BY <1>6, <1>7, <1>8 DEF ScopesInv

\* Only the two submissions change rights, and only a rotation replaces a live
\* credential by another.
LEMMA EditsAreSubmissions ==
    ASSUME ScopesNext
    PROVE  \/ UNCHANGED edits
           \/ \E f \in Forms : \/ \E s \in Scopes : SetScope(f, s)
                               \/ \E wanted \in SUBSET Actions : SetGrants(f, wanted)
BY DEF ScopesNext, CreateLibrary, ProvisionLegacy, Retire, ProvisionAsMaster,
   RotateAsMaster, ShowScope, ShowGrants

LEMMA RotationReplaces ==
    ASSUME ScopesNext
    PROVE  \/ live \subseteq live'
           \/ live' \subseteq live
           \/ \E k, new \in Creds : RotateAsMaster(k, new)
BY DEF ScopesNext, CreateLibrary, ProvisionLegacy, Retire, ProvisionAsMaster,
   ShowScope, ShowGrants, SetScope, SetGrants

LEMMA ScopesInvHolds == ScopesSpec => []ScopesInv
<1>1. ScopesInit => ScopesInv
    BY DEF ScopesInit, ScopesInv, ScopeTypes, Cells, Shown
<1>2. ScopesInv /\ [ScopesNext]_vars => ScopesInv'
    <2> SUFFICES ASSUME ScopesInv, [ScopesNext]_vars
                 PROVE  ScopesInv'
        OBVIOUS
    <2>1. ASSUME NEW f \in Forms, NEW s \in Scopes, SetScope(f, s)
          PROVE  ScopesInv'
        <3>1. form[f].cred \in Creds
            BY <2>1 DEF SetScope, ScopesInv, Shown, FormOK
        <3>2. QED
            BY <2>1, <3>1, SetScopeKept
    <2>2. ASSUME NEW f \in Forms, NEW wanted \in SUBSET Actions, SetGrants(f, wanted)
          PROVE  ScopesInv'
        <3>1. form[f].cred \in Creds /\ form[f].expected[1] \in LibraryUids
            BY <2>2 DEF SetGrants, ScopesInv, Shown, FormOK, GrantsFormOK
        <3>2. QED
            BY <2>2, <3>1, SetGrantsKept
    <2>3. QED
        BY <2>1, <2>2, PoliciesKept, ShowKept DEF ScopesNext
<1>3. QED
    BY <1>1, <1>2, PTL DEF ScopesSpec

\* A submission that is accepted was made on a form that still showed the
\* truth: its token (the revision of the whole scope, or the audit count of one
\* Library) missed no edit by either editor.
THEOREM AcceptedFormsShowTheTruth == ScopesSpec => NoStaleSubmission
<1>1. ASSUME ScopesInv, ScopesNext, NEW f \in Forms, form[f] # NoForm,
             edits' # edits, form'[f] = NoForm,
             NEW l \in DOMAIN form[f].seen
      PROVE  edits[<<form[f].cred, l>>] = form[f].seen[l]
    <2>1. FormOK(form[f])
        BY <1>1 DEF ScopesInv, Shown
    <2>2. PICK g \in Forms :
              \/ \E s \in Scopes : SetScope(g, s)
              \/ \E wanted \in SUBSET Actions : SetGrants(g, wanted)
        BY <1>1, EditsAreSubmissions
    <2>3. g = f
        <3>1. form' = [form EXCEPT ![g] = NoForm]
            BY <2>2 DEF SetScope, SetGrants
        <3>2. QED
            BY <1>1, <3>1 DEF ScopesInv, ScopeTypes
    <2>4. CASE \E s \in Scopes : SetScope(f, s)
        <3>1. form[f].kind = "scope" /\ policy[form[f].cred].revision = form[f].expected
            BY <2>4 DEF SetScope
        <3>2. QED
            BY <1>1, <2>1, <3>1 DEF FormOK, ScopeFormOK
    <2>5. CASE \E wanted \in SUBSET Actions : SetGrants(f, wanted)
        <3> DEFINE k == form[f].cred
                   m == form[f].expected[1]
        <3>1. form[f].kind = "grants" /\ Digest(k, m) = form[f].expected /\ k \notin widened
            BY <2>5 DEF SetGrants, GrantsEditable
        <3>2. GrantsFormOK(k, m, form[f])
            BY <2>1, <3>1 DEF FormOK
        <3>3. form[f].expected[3] = audited[<<k, m>>]
            BY <3>1 DEF Digest
        <3>4. QED
            BY <1>1, <3>1, <3>2, <3>3 DEF GrantsFormOK
    <2>6. QED
        BY <2>2, <2>3, <2>4, <2>5
<1>2. ScopesInv /\ [ScopesNext]_vars =>
        [\A f \in Forms : form[f] # NoForm /\ edits' # edits /\ form'[f] = NoForm =>
            \A l \in DOMAIN form[f].seen :
                edits[<<form[f].cred, l>>] = form[f].seen[l]]_vars
    BY <1>1
<1>3. QED
    BY <1>2, ScopesInvHolds, PTL DEF ScopesSpec, NoStaleSubmission

\* Rotation changes no right, in any Library that exists or will: the stored
\* modes and selections move to the new credential as they are.
THEOREM RotationChangesNoRight == ScopesSpec => RotationKeepsRights
<1>1. ASSUME ScopesInv, ScopesNext, NEW k \in live \ live', NEW new \in live' \ live,
             NEW l \in LibraryUids, NEW a \in Actions
      PROVE  Allows(policy'[new].scope, l, a) <=> Allows(policy[k].scope, l, a)
    <2>1. PICK x, y \in Creds : RotateAsMaster(x, y)
        BY <1>1, RotationReplaces
    <2>2. k = x /\ new = y
        BY <1>1, <2>1 DEF RotateAsMaster
    <2>3. policy'[new] = [scope |-> policy[k].scope, revision |-> 0]
        BY <1>1, <2>1, <2>2 DEF RotateAsMaster, Copied, ScopesInv, ScopeTypes
    <2>4. QED
        BY <2>3
<1>2. ScopesInv /\ [ScopesNext]_vars =>
        [\A k \in live \ live' : \A new \in live' \ live :
            \A l \in LibraryUids, a \in Actions :
                Allows(policy'[new].scope, l, a) <=> Allows(policy[k].scope, l, a)]_vars
    BY <1>1
<1>3. QED
    BY <1>2, ScopesInvHolds, PTL DEF ScopesSpec, RotationKeepsRights

-----------------------------------------------------------------------------
(* Installed Skills: paths.                                                *)

LEMMA WholeSubSeq ==
    ASSUME NEW S, NEW s \in Seq(S)
    PROVE  SubSeq(s, 1, Len(s)) = s
OBVIOUS

\* A prefix of a path.
LEMMA PrefixOf ==
    ASSUME NEW S, NEW path \in Seq(S), NEW n \in 1 .. Len(path)
    PROVE  /\ SubSeq(path, 1, n) \in Seq(S) /\ Len(SubSeq(path, 1, n)) = n
           /\ SubSeq(path, 1, n) # <<>>
           /\ \A i \in 1 .. n : SubSeq(path, 1, n)[i] = path[i]
OBVIOUS

LEMMA SubSubSeq ==
    ASSUME NEW S, NEW path \in Seq(S), NEW n \in 1 .. Len(path), NEW m \in 1 .. n
    PROVE  SubSeq(SubSeq(path, 1, n), 1, m) = SubSeq(path, 1, m)
OBVIOUS

\* Parents are the proper, nonempty prefixes.
LEMMA ParentIsPrefix ==
    ASSUME NEW path \in Paths, NEW parent \in Parents(path)
    PROVE  /\ parent \in Paths /\ Len(parent) < Len(path) /\ parent # path
           /\ IsPrefix(parent, path)
<1> DEFINE S == PathNames \cup {Temporary}
<1>1. path \in Seq(S) /\ Len(path) \in Nat
    BY DEF Paths
<1>2. PICK n \in 1 .. Len(path) - 1 : parent = SubSeq(path, 1, n)
    BY DEF Parents
<1>3. n \in 1 .. Len(path) /\ n < Len(path)
    BY <1>1, <1>2
<1> HIDE DEF S
<1>4. parent \in Seq(S) /\ Len(parent) = n /\ parent # <<>>
    BY <1>1, <1>2, <1>3, PrefixOf
<1>5. SubSeq(parent, 1, Len(parent)) = SubSeq(path, 1, Len(parent))
    BY <1>2, <1>4, WholeSubSeq
<1>6. QED
    BY <1>1, <1>3, <1>4, <1>5 DEF Paths, IsPrefix, S

LEMMA PrefixIsParent ==
    ASSUME NEW path \in Paths, NEW q \in Paths, IsPrefix(path, q), path # q
    PROVE  path \in Parents(q) /\ Len(path) < Len(q)
<1> DEFINE S == PathNames \cup {Temporary}
<1>1. path \in Seq(S) /\ q \in Seq(S) /\ path # <<>> /\ Len(path) \in Nat /\ Len(q) \in Nat
    BY DEF Paths
<1> HIDE DEF S
<1>2. path = SubSeq(q, 1, Len(path)) /\ Len(path) <= Len(q)
    BY <1>1, WholeSubSeq DEF IsPrefix
<1>3. Len(path) # Len(q)
    BY <1>1, <1>2, WholeSubSeq
<1>4. Len(path) # 0
    BY <1>1
<1>5. Len(path) \in 1 .. Len(q) - 1
    BY <1>1, <1>2, <1>3, <1>4
<1>6. PICK n \in 1 .. Len(q) - 1 : n = Len(path)
    BY <1>5
<1>7. path = SubSeq(q, 1, n)
    BY <1>2, <1>6
<1>8. QED
    BY <1>1, <1>5, <1>7 DEF Parents

\* What lies above a parent of a path is a parent of it too.
LEMMA PrefixOfParent ==
    ASSUME NEW path \in Paths, NEW q \in Paths, IsPrefix(path, q), NEW r \in Paths,
           q \in Parents(r)
    PROVE  path \in Parents(r)
<1> DEFINE S == PathNames \cup {Temporary}
<1>1. /\ path \in Seq(S) /\ r \in Seq(S) /\ path # <<>>
      /\ Len(path) \in Nat /\ Len(r) \in Nat
    BY DEF Paths
<1> HIDE DEF S
<1>2. PICK n \in 1 .. Len(r) - 1 : q = SubSeq(r, 1, n)
    BY DEF Parents
<1>3. n \in 1 .. Len(r) /\ Len(q) = n
    BY <1>1, <1>2, PrefixOf
<1>4. path = SubSeq(q, 1, Len(path)) /\ Len(path) <= n
    BY <1>1, <1>3, WholeSubSeq DEF IsPrefix
<1>5. Len(path) \in 1 .. n
    BY <1>1, <1>3, <1>4
<1>6. path = SubSeq(r, 1, Len(path))
    BY <1>1, <1>2, <1>3, <1>4, <1>5, SubSubSeq
<1>7. PICK m \in 1 .. Len(r) - 1 : m = Len(path)
    BY <1>1, <1>2, <1>5
<1>8. path = SubSeq(r, 1, m)
    BY <1>6, <1>7
<1>9. QED
    BY <1>8 DEF Parents

\* A temporary file lies beside its target.
LEMMA Beside ==
    ASSUME NEW path \in Paths
    PROVE  /\ Append(Front(path), Temporary) \in Paths
           /\ Last(Append(Front(path), Temporary)) = Temporary
           /\ Parents(Append(Front(path), Temporary)) = Parents(path)
<1> DEFINE S == PathNames \cup {Temporary}
           t == Append(Front(path), Temporary)
<1>1. path \in Seq(S) /\ path # <<>> /\ Len(path) \in Nat /\ Temporary \in S
    BY DEF Paths
<1>2. Len(path) > 0
    BY <1>1
<1> HIDE DEF S
<1>3. Front(path) \in Seq(S) /\ Len(Front(path)) = Len(path) - 1
      /\ \A i \in 1 .. Len(path) - 1 : Front(path)[i] = path[i]
    <2>1. CASE Len(path) = 1
        BY <1>1, <2>1 DEF Front
    <2>2. CASE Len(path) > 1
        <3>1. Len(path) - 1 \in 1 .. Len(path)
            BY <1>1, <2>2
        <3>2. QED
            BY <1>1, <3>1, PrefixOf DEF Front
    <2>3. Len(path) = 1 \/ Len(path) > 1
        <3>1. \A n \in Nat : n > 0 => n = 1 \/ n > 1
            OBVIOUS
        <3>2. QED
            BY <1>1, <1>2, <3>1
    <2>4. QED
        BY <2>1, <2>2, <2>3
<1>4. t \in Seq(S) /\ Len(t) = Len(path) /\ t[Len(t)] = Temporary
      /\ \A i \in 1 .. Len(path) - 1 : t[i] = path[i]
    BY <1>1, <1>2, <1>3
<1>5. t # <<>>
    BY <1>2, <1>4
<1> HIDE DEF t
<1>6. ASSUME NEW n \in 1 .. Len(path) - 1
      PROVE  SubSeq(t, 1, n) = SubSeq(path, 1, n)
    BY <1>1, <1>4
<1>7. Parents(t) = Parents(path)
    BY <1>4, <1>6 DEF Parents
<1>8. QED
    BY <1>4, <1>5, <1>7 DEF Paths, Last, S, t

-----------------------------------------------------------------------------
(* Installed Skills: the invariant.                                        *)

InstallTypes ==
    /\ disk = [q \in DOMAIN disk |-> disk[q]] /\ DOMAIN disk \subseteq Paths
    /\ receipt \in Packages \cup {NoFile}
    /\ install \in Installs \cup {NoFile}

\* Only a temporary file has a temporary name.
TemporariesKnown ==
    \A q \in DOMAIN disk : disk[q] # Directory /\ Last(q) = Temporary => disk[q] = UserWork

Ours(q) ==
    \/ q \in Tracked /\ disk[q] = receipt[q]
    \/ q \in install.written

\* What the steps left will touch is the installation's: files to unlink are as
\* the receipt recorded them, paths to remove are directories, and where a file
\* is to be written, neither it nor a directory above it is somebody's file.
PlanOwned ==
    install # NoFile =>
        /\ \A q \in install.unlink : q \in Tracked /\ IsFile(q) /\ disk[q] = receipt[q]
        /\ \A q \in install.rmdir : IsDirectory(q)
        /\ install.write \subseteq DOMAIN install.package
        /\ \A q \in install.write :
              /\ IsFile(q) => Ours(q)
              /\ \A parent \in Parents(q) :
                    IsFile(parent) => parent \in install.unlink \cup install.written

DirectoriesOf(package) == UNION {Parents(path) : path \in DOMAIN package}

\* Left alone, the folder between installations is what the receipt says ...
PristineIdle ==
    pristine /\ install = NoFile =>
        /\ \A q \in DOMAIN disk : disk[q] # Directory => q \in Tracked
        /\ \A q \in Tracked : q \in DOMAIN disk /\ disk[q] = receipt[q]
        /\ \A q \in DOMAIN disk : disk[q] = Directory => q \in PackageDirectories

\* ... and during one, what is not the new package's is still to be removed.
PristineBusy ==
    pristine /\ install # NoFile =>
        /\ install.unlink \cap DOMAIN install.package = {}
        /\ install.written \cup install.write = DOMAIN install.package
        /\ \A q \in DOMAIN disk :
              disk[q] # Directory => q \in install.unlink \cup DOMAIN install.package
        /\ \A q \in DOMAIN disk :
              disk[q] = Directory => q \in install.prune \cup DirectoriesOf(install.package)
        /\ \A q \in install.written : q \in DOMAIN disk /\ disk[q] = install.package[q]

\* The inductive invariant.
InstallInv ==
    InstallTypes /\ TemporariesKnown /\ PlanOwned /\ PristineIdle /\ PristineBusy

LEMMA PackagePaths ==
    ASSUME NEW package \in Packages
    PROVE  /\ package # NoFile
           /\ DOMAIN package \subseteq Paths /\ DirectoriesOf(package) \subseteq Paths
           /\ \A path \in DOMAIN package :
                 /\ package[path] # Directory /\ Last(path) # Temporary
                 /\ \A q \in DOMAIN package : q \notin Parents(path)
<1>1. /\ DOMAIN package \subseteq Seq(PathNames) \ {<<>>} /\ package # NoFile
      /\ \A path \in DOMAIN package :
            package[path] # Directory /\ Parents(path) \cap DOMAIN package = {}
    BY PackageAssumption
<1>2. ASSUME NEW path \in DOMAIN package
      PROVE  path \in Paths /\ Last(path) # Temporary
    <2>1. path \in Seq(PathNames) /\ path # <<>>
        BY <1>1
    <2>2. Len(path) \in DOMAIN path
        BY <2>1
    <2>3. path[Len(path)] \in PathNames
        BY <2>1, <2>2
    <2>4. path \in Seq(PathNames \cup {Temporary})
        BY <2>1
    <2>5. QED
        BY <2>1, <2>3, <2>4, PackageAssumption DEF Paths, Last
<1>3. DirectoriesOf(package) \subseteq Paths
    BY <1>2, ParentIsPrefix DEF DirectoriesOf
<1>4. QED
    BY <1>1, <1>2, <1>3

\* What a path is after a removal and after a file was put.
LEMMA RemovedFromDisk ==
    ASSUME InstallTypes, NEW path, disk' = Without({path})
    PROVE  /\ disk' = [q \in DOMAIN disk' |-> disk'[q]] /\ DOMAIN disk' \subseteq Paths
           /\ DOMAIN disk' = DOMAIN disk \ {path}
           /\ \A q \in DOMAIN disk' : disk'[q] = disk[q]
BY DEF InstallTypes, Without, Restrict

LEMMA PutOnDisk ==
    ASSUME InstallTypes, NEW path \in Paths, NEW content, disk' = With(path, content)
    PROVE  /\ disk' = [q \in DOMAIN disk' |-> disk'[q]] /\ DOMAIN disk' \subseteq Paths
           /\ path \in DOMAIN disk' /\ disk'[path] = content
           /\ DOMAIN disk' = DOMAIN disk \cup Parents(path) \cup {path}
           /\ \A q \in DOMAIN disk' :
                 \/ q = path
                 \/ q \in Parents(path) /\ disk'[q] = Directory
                 \/ q \in DOMAIN disk /\ q \notin Parents(path) /\ disk'[q] = disk[q]
<1>1. Parents(path) \subseteq Paths
    BY ParentIsPrefix
<1>2. QED
    BY <1>1 DEF InstallTypes, With

\* The progress of an installation.
LEMMA Progress ==
    ASSUME install \in Installs, NEW path, path \in Paths
    PROVE  /\ [install EXCEPT !.unlink = @ \ {path}] \in Installs
           /\ [install EXCEPT !.rmdir = @ \ {path}] \in Installs
           /\ [install EXCEPT !.prune = @ \ {path}] \in Installs
           /\ [install EXCEPT !.write = @ \ {path}, !.written = @ \cup {path}] \in Installs
BY DEF Installs

\* A plan that is accepted touches only what the receipt recorded.
LEMMA BeginHolds ==
    ASSUME InstallInv, NEW package \in Packages, Begin(package)
    PROVE  InstallInv'
<1> DEFINE plan == [package |-> package, unlink |-> Obsolete(package),
                    rmdir |-> RemovedDirectories(package), write |-> DOMAIN package,
                    prune |-> PackageDirectories, written |-> {}]
<1>1. /\ install = NoFile /\ Accepts(package) /\ install' = plan
      /\ UNCHANGED <<disk, receipt, pristine>>
    BY DEF Begin
<1>2. Tracked \subseteq Paths /\ PackageDirectories \subseteq Paths
    <2>1. CASE receipt = NoFile
        BY <2>1 DEF Tracked, PackageDirectories
    <2>2. CASE receipt \in Packages
        BY <2>2, PackagePaths DEF Tracked, PackageDirectories, DirectoriesOf
    <2>3. QED
        BY <2>1, <2>2 DEF InstallInv, InstallTypes
<1>3. plan \in Installs
    <2>1. Obsolete(package) \subseteq Paths
        BY <1>2 DEF Obsolete
    <2>2. RemovedDirectories(package) \subseteq Paths
        BY DEF RemovedDirectories, InstallInv, InstallTypes
    <2>3. DOMAIN package \subseteq Paths
        BY PackagePaths
    <2>4. QED
        BY <1>2, <2>1, <2>2, <2>3 DEF Installs
<1>4. InstallTypes' /\ TemporariesKnown'
    BY <1>1, <1>3 DEF InstallInv, InstallTypes, TemporariesKnown
<1>5. /\ install'.package = package /\ install'.unlink = Obsolete(package)
      /\ install'.rmdir = RemovedDirectories(package) /\ install'.write = DOMAIN package
      /\ install'.prune = PackageDirectories /\ install'.written = {}
    BY <1>1
<1>6. Tracked' = Tracked /\ \A q : (IsFile(q)' <=> IsFile(q)) /\ (IsDirectory(q)' <=> IsDirectory(q))
    BY <1>1 DEF Tracked, IsFile, IsDirectory
<1>7. PlanOwned'
    <2>1. \A q \in Obsolete(package) : q \in Tracked /\ IsFile(q) /\ disk[q] = receipt[q]
        BY <1>1 DEF Accepts, LocallyUnchanged, Obsolete
    <2>2. \A q \in RemovedDirectories(package) : IsDirectory(q)
        BY DEF RemovedDirectories
    <2>3. \A q \in DOMAIN package :
             /\ IsFile(q) => q \in Tracked /\ disk[q] = receipt[q]
             /\ \A parent \in Parents(q) : IsFile(parent) => parent \in Obsolete(package)
        BY <1>1 DEF Accepts, LocallyUnchanged, Reachable
    <2>4. QED
        BY <1>1, <1>5, <1>6, <2>1, <2>2, <2>3 DEF PlanOwned, Ours
<1>8. PristineIdle'
    <2>1. install' # NoFile
        BY <1>1, <1>3, PackageAssumption
    <2>2. QED
        BY <2>1 DEF PristineIdle
<1>9. PristineBusy'
    BY <1>1, <1>5 DEF InstallInv, PristineIdle, PristineBusy, Obsolete
<1>10. QED
    BY <1>4, <1>7, <1>8, <1>9 DEF InstallInv

\* An installation goes on: the fields it leaves alone.
LEMMA UnlinkHolds ==
    ASSUME InstallInv, NEW path, Unlink(path)
    PROVE  InstallInv'
<1>1. /\ install # NoFile /\ path \in install.unlink /\ disk' = Without({path})
      /\ install' = [install EXCEPT !.unlink = @ \ {path}]
      /\ UNCHANGED <<receipt, pristine>>
    BY DEF Unlink
<1>2. install \in Installs /\ path \in Paths
    BY <1>1 DEF InstallInv, InstallTypes, Installs
<1>3. /\ install'.unlink = install.unlink \ {path} /\ install'.rmdir = install.rmdir
      /\ install'.write = install.write /\ install'.prune = install.prune
      /\ install'.written = install.written /\ install'.package = install.package
    BY <1>1, <1>2 DEF Installs
<1>4. install' \in Installs /\ install' # NoFile /\ Tracked' = Tracked
    <2>1. install' \in Installs
        BY <1>1, <1>2, Progress
    <2>2. Tracked' = Tracked
        BY <1>1 DEF Tracked
    <2>3. QED
        BY <2>1, <2>2, PackageAssumption
<1>5. /\ disk' = [q \in DOMAIN disk' |-> disk'[q]] /\ DOMAIN disk' \subseteq Paths
      /\ DOMAIN disk' = DOMAIN disk \ {path}
      /\ \A q \in DOMAIN disk' : disk'[q] = disk[q]
    BY <1>1, RemovedFromDisk DEF InstallInv
<1>6. /\ IsFile(path)
      /\ \A q : IsFile(q)' <=> IsFile(q) /\ q # path
      /\ \A q : IsDirectory(q)' <=> IsDirectory(q)
    <2>1. IsFile(path)
        BY <1>1 DEF InstallInv, PlanOwned
    <2>2. QED
        BY <1>5, <2>1 DEF IsFile, IsDirectory
<1>7. InstallTypes' /\ TemporariesKnown'
    BY <1>1, <1>4, <1>5 DEF InstallInv, InstallTypes, TemporariesKnown
<1>8. PlanOwned'
    BY <1>1, <1>3, <1>4, <1>5, <1>6 DEF InstallInv, PlanOwned, Ours, IsFile
<1>9. PristineIdle'
    BY <1>4 DEF PristineIdle
<1>10. PristineBusy'
    <2> SUFFICES ASSUME pristine
                 PROVE  PristineBusy'
        BY <1>1 DEF PristineBusy
    <2>1. /\ install.unlink \cap DOMAIN install.package = {}
          /\ install.written \subseteq DOMAIN install.package
        BY <1>1 DEF InstallInv, PristineBusy
    <2>2. \A q \in install.written : q \in DOMAIN disk' /\ disk'[q] = install.package[q]
        BY <1>1, <1>5, <2>1 DEF InstallInv, PristineBusy
    <2>3. QED
        BY <1>1, <1>3, <1>5, <2>2 DEF InstallInv, PristineBusy
<1>11. QED
    BY <1>7, <1>8, <1>9, <1>10 DEF InstallInv

LEMMA RemovePlannedHolds ==
    ASSUME InstallInv, NEW path, RemovePlanned(path)
    PROVE  InstallInv'
<1>1. /\ install # NoFile /\ install.unlink = {} /\ path \in install.rmdir
      /\ disk' = Without({path})
      /\ install' = [install EXCEPT !.rmdir = @ \ {path}]
      /\ UNCHANGED <<receipt, pristine>>
    BY DEF RemovePlanned, Deepest
<1>2. install \in Installs /\ path \in Paths
    BY <1>1 DEF InstallInv, InstallTypes, Installs
<1>3. /\ install'.unlink = install.unlink /\ install'.rmdir = install.rmdir \ {path}
      /\ install'.write = install.write /\ install'.prune = install.prune
      /\ install'.written = install.written /\ install'.package = install.package
    BY <1>1, <1>2 DEF Installs
<1>4. install' \in Installs /\ install' # NoFile /\ Tracked' = Tracked
    <2>1. install' \in Installs
        BY <1>1, <1>2, Progress
    <2>2. Tracked' = Tracked
        BY <1>1 DEF Tracked
    <2>3. QED
        BY <2>1, <2>2, PackageAssumption
<1>5. /\ disk' = [q \in DOMAIN disk' |-> disk'[q]] /\ DOMAIN disk' \subseteq Paths
      /\ DOMAIN disk' = DOMAIN disk \ {path}
      /\ \A q \in DOMAIN disk' : disk'[q] = disk[q]
    BY <1>1, RemovedFromDisk DEF InstallInv
<1>6. /\ IsDirectory(path)
      /\ \A q : IsFile(q)' <=> IsFile(q)
      /\ \A q : IsDirectory(q)' <=> IsDirectory(q) /\ q # path
    <2>1. IsDirectory(path)
        BY <1>1 DEF InstallInv, PlanOwned
    <2>2. QED
        BY <1>5, <2>1 DEF IsFile, IsDirectory
<1>7. InstallTypes' /\ TemporariesKnown'
    BY <1>1, <1>4, <1>5 DEF InstallInv, InstallTypes, TemporariesKnown
<1>8. PlanOwned'
    BY <1>1, <1>3, <1>4, <1>5, <1>6 DEF InstallInv, PlanOwned, Ours, IsFile
<1>9. PristineIdle'
    BY <1>4 DEF PristineIdle
<1>10. PristineBusy'
    <2> SUFFICES ASSUME pristine
                 PROVE  PristineBusy'
        BY <1>1 DEF PristineBusy
    <2>1. path \notin install.written
        <3>1. install.package \in Packages /\ install.written \subseteq DOMAIN install.package
            BY <1>1, <1>2 DEF Installs, InstallInv, PristineBusy
        <3>2. \A q \in install.written : disk[q] # Directory
            BY <1>1, <3>1, PackagePaths DEF InstallInv, PristineBusy
        <3>3. QED
            BY <1>6, <3>2 DEF IsDirectory
    <2>2. \A q \in install.written : q \in DOMAIN disk' /\ disk'[q] = install.package[q]
        BY <1>1, <1>5, <2>1 DEF InstallInv, PristineBusy
    <2>3. QED
        BY <1>1, <1>3, <1>5, <2>2 DEF InstallInv, PristineBusy
<1>11. QED
    BY <1>7, <1>8, <1>9, <1>10 DEF InstallInv

\* A file is written over nothing but the installation's own.
LEMMA WriteFileHolds ==
    ASSUME InstallInv, NEW path, WriteFile(path)
    PROVE  InstallInv'
<1>1. /\ install # NoFile /\ install.unlink = {} /\ install.rmdir = {}
      /\ path \in install.write
      /\ disk' = With(path, install.package[path])
      /\ install' = [install EXCEPT !.write = @ \ {path}, !.written = @ \cup {path}]
      /\ UNCHANGED <<receipt, pristine>>
    BY DEF WriteFile, Writing
<1>2. /\ install \in Installs /\ path \in Paths /\ install.package \in Packages
      /\ path \in DOMAIN install.package
    BY <1>1 DEF InstallInv, InstallTypes, Installs, PlanOwned
<1>3. /\ install'.unlink = install.unlink /\ install'.rmdir = install.rmdir
      /\ install'.write = install.write \ {path} /\ install'.prune = install.prune
      /\ install'.written = install.written \cup {path}
      /\ install'.package = install.package
    BY <1>1, <1>2 DEF Installs
<1>4. install' \in Installs /\ install' # NoFile /\ Tracked' = Tracked
    <2>1. install' \in Installs
        BY <1>1, <1>2, Progress
    <2>2. Tracked' = Tracked
        BY <1>1 DEF Tracked
    <2>3. QED
        BY <2>1, <2>2, PackageAssumption
<1>5. /\ disk' = [q \in DOMAIN disk' |-> disk'[q]] /\ DOMAIN disk' \subseteq Paths
      /\ path \in DOMAIN disk' /\ disk'[path] = install.package[path]
      /\ DOMAIN disk' = DOMAIN disk \cup Parents(path) \cup {path}
      /\ \A q \in DOMAIN disk' :
            \/ q = path
            \/ q \in Parents(path) /\ disk'[q] = Directory
            \/ q \in DOMAIN disk /\ q \notin Parents(path) /\ disk'[q] = disk[q]
    BY <1>1, <1>2, PutOnDisk DEF InstallInv
<1>6. \A q : IsFile(q)' => q = path \/ (IsFile(q) /\ disk'[q] = disk[q])
    BY <1>5 DEF IsFile
<1>7. Last(path) # Temporary /\ install.package[path] # Directory
      /\ \A q \in DOMAIN install.package : q \notin Parents(path)
    BY <1>2, PackagePaths
<1>8. InstallTypes' /\ TemporariesKnown'
    <2>1. InstallTypes'
        BY <1>1, <1>4, <1>5 DEF InstallInv, InstallTypes
    <2>2. TemporariesKnown'
        BY <1>5, <1>7 DEF InstallInv, TemporariesKnown
    <2>3. QED
        BY <2>1, <2>2
<1>9. PlanOwned'
    <2>1. \A q \in install.write : IsFile(q)' => Ours(q)'
        BY <1>1, <1>3, <1>4, <1>6 DEF InstallInv, PlanOwned, Ours
    <2>2. \A q \in install.write : \A parent \in Parents(q) :
              IsFile(parent)' => parent \in install'.unlink \cup install'.written
        BY <1>1, <1>3, <1>6 DEF InstallInv, PlanOwned
    <2>3. QED
        BY <1>1, <1>3, <2>1, <2>2 DEF InstallInv, PlanOwned
<1>10. PristineIdle'
    BY <1>4 DEF PristineIdle
<1>11. PristineBusy'
    <2> SUFFICES ASSUME pristine
                 PROVE  PristineBusy'
        BY <1>1 DEF PristineBusy
    <2>1. install.written \cup install.write = DOMAIN install.package
        BY <1>1 DEF InstallInv, PristineBusy
    <2>2. Parents(path) \subseteq DirectoriesOf(install.package)
        BY <1>2 DEF DirectoriesOf
    <2>3. ASSUME NEW q \in install'.written
          PROVE  q \in DOMAIN disk' /\ disk'[q] = install.package[q]
        <3>1. CASE q = path
            BY <1>5, <3>1
        <3>2. CASE q # path
            <4>1. /\ q \in install.written /\ q \notin Parents(path)
                  /\ q \in DOMAIN disk /\ disk[q] = install.package[q]
                BY <1>1, <1>3, <1>7, <2>1, <3>2 DEF InstallInv, PristineBusy
            <4>2. QED
                BY <1>5, <3>2, <4>1
        <3>3. QED
            BY <3>1, <3>2
    <2>4. ASSUME NEW q \in DOMAIN disk'
          PROVE  /\ disk'[q] # Directory => q \in install.unlink \cup DOMAIN install.package
                 /\ disk'[q] = Directory =>
                        q \in install.prune \cup DirectoriesOf(install.package)
        BY <1>1, <1>2, <1>5, <1>7, <2>2 DEF InstallInv, PristineBusy
    <2>5. install'.written \cup install'.write = DOMAIN install.package
        BY <1>2, <1>3, <2>1
    <2>6. QED
        BY <1>1, <1>3, <2>3, <2>4, <2>5 DEF PristineBusy
<1>12. QED
    BY <1>8, <1>9, <1>10, <1>11 DEF InstallInv

\* A directory that is not pruned still holds something, which is the package's:
\* what lay below it was pruned before.
LEMMA PrunedUnlessNeeded ==
    ASSUME InstallInv, pristine, NEW path, Prune(path), IsDirectory(path), ~IsEmpty(path)
    PROVE  path \in DirectoriesOf(install.package)
<1>1. /\ install # NoFile /\ install.unlink = {} /\ path \in install.prune
      /\ \A q \in install.prune : Len(q) <= Len(path)
    BY DEF Prune, Writing, Deepest
<1>2. path \in Paths /\ path \in DOMAIN disk /\ Len(path) \in Nat
    BY DEF IsDirectory, InstallInv, InstallTypes, Paths
<1>3. IsPrefix(path, path)
    BY <1>2 DEF IsPrefix
<1>4. PICK q \in DOMAIN disk : IsPrefix(path, q) /\ q # path
    BY <1>2, <1>3 DEF IsEmpty, Below
<1>5. q \in Paths /\ Len(q) \in Nat /\ path \in Parents(q) /\ Len(path) < Len(q)
    <2>1. q \in Paths
        BY DEF InstallInv, InstallTypes
    <2>2. QED
        BY <1>2, <1>4, <2>1, PrefixIsParent DEF Paths
<1>6. install.package \in Packages
    BY <1>1 DEF InstallInv, InstallTypes, Installs
<1>7. CASE disk[q] # Directory
    <2>1. q \in DOMAIN install.package
        BY <1>1, <1>4, <1>7 DEF InstallInv, PristineBusy
    <2>2. QED
        BY <1>5, <2>1 DEF DirectoriesOf
<1>8. CASE disk[q] = Directory
    <2>1. q \notin install.prune
        BY <1>1, <1>2, <1>5
    <2>2. q \in DirectoriesOf(install.package)
        BY <1>1, <1>4, <1>8, <2>1 DEF InstallInv, PristineBusy
    <2>3. PICK r \in DOMAIN install.package : q \in Parents(r)
        BY <2>2 DEF DirectoriesOf
    <2>4. r \in Paths
        BY <1>6, <2>3, PackagePaths
    <2>5. path \in Parents(r)
        BY <1>2, <1>4, <1>5, <2>3, <2>4, PrefixOfParent
    <2>6. QED
        BY <2>3, <2>5 DEF DirectoriesOf
<1>9. QED
    BY <1>7, <1>8

LEMMA PruneHolds ==
    ASSUME InstallInv, NEW path, Prune(path)
    PROVE  InstallInv'
<1> DEFINE gone == IsDirectory(path) /\ IsEmpty(path)
<1>1. /\ install # NoFile /\ install.unlink = {} /\ install.rmdir = {} /\ install.write = {}
      /\ path \in install.prune
      /\ disk' = IF gone THEN Without({path}) ELSE disk
      /\ install' = [install EXCEPT !.prune = @ \ {path}]
      /\ UNCHANGED <<receipt, pristine>>
    BY DEF Prune, Writing, Deepest
<1>2. install \in Installs /\ path \in Paths /\ install.package \in Packages
    BY <1>1 DEF InstallInv, InstallTypes, Installs
<1>3. /\ install'.unlink = install.unlink /\ install'.rmdir = install.rmdir
      /\ install'.write = install.write /\ install'.prune = install.prune \ {path}
      /\ install'.written = install.written /\ install'.package = install.package
    BY <1>1, <1>2 DEF Installs
<1>4. install' \in Installs /\ install' # NoFile /\ Tracked' = Tracked
    <2>1. install' \in Installs
        BY <1>1, <1>2, Progress
    <2>2. Tracked' = Tracked
        BY <1>1 DEF Tracked
    <2>3. QED
        BY <2>1, <2>2, PackageAssumption
<1>5. /\ disk' = [q \in DOMAIN disk' |-> disk'[q]] /\ DOMAIN disk' \subseteq Paths
      /\ DOMAIN disk' = IF gone THEN DOMAIN disk \ {path} ELSE DOMAIN disk
      /\ \A q \in DOMAIN disk' : q \in DOMAIN disk /\ disk'[q] = disk[q]
    <2>1. CASE gone
        BY <1>1, <2>1, RemovedFromDisk DEF InstallInv
    <2>2. CASE ~gone
        BY <1>1, <2>2 DEF InstallInv, InstallTypes
    <2>3. QED
        BY <2>1, <2>2
<1>6. InstallTypes' /\ TemporariesKnown'
    BY <1>1, <1>4, <1>5 DEF InstallInv, InstallTypes, TemporariesKnown
<1>7. PlanOwned'
    BY <1>1, <1>3 DEF InstallInv, PlanOwned
<1>8. PristineIdle'
    BY <1>4 DEF PristineIdle
<1>9. PristineBusy'
    <2> SUFFICES ASSUME pristine
                 PROVE  PristineBusy'
        BY <1>1 DEF PristineBusy
    <2>1. \A q \in install.written : /\ q \in DOMAIN disk /\ disk[q] = install.package[q]
                                     /\ disk[q] # Directory
        BY <1>1, <1>2, PackagePaths DEF InstallInv, PristineBusy
    <2>2. \A q \in install.written : q \in DOMAIN disk' /\ disk'[q] = install.package[q]
        BY <1>5, <2>1 DEF IsDirectory
    <2>3. ASSUME NEW q \in DOMAIN disk', disk'[q] = Directory
          PROVE  q \in (install.prune \ {path}) \cup DirectoriesOf(install.package)
        <3>1. q \in DOMAIN disk /\ disk[q] = Directory
            BY <1>5, <2>3
        <3>2. q \in install.prune \cup DirectoriesOf(install.package)
            BY <1>1, <3>1 DEF InstallInv, PristineBusy
        <3>3. CASE q = path
            <4>1. IsDirectory(path) /\ ~IsEmpty(path)
                BY <1>5, <2>3, <3>1, <3>3 DEF IsDirectory
            <4>2. QED
                BY <3>3, <4>1, PrunedUnlessNeeded
        <3>4. QED
            BY <3>2, <3>3
    <2>4. QED
        BY <1>1, <1>3, <1>5, <2>2, <2>3 DEF InstallInv, PristineBusy
<1>10. QED
    BY <1>6, <1>7, <1>8, <1>9 DEF InstallInv

\* The receipt closes an installation: the folder is the package.
LEMMA WriteReceiptHolds ==
    ASSUME InstallInv, WriteReceipt
    PROVE  InstallInv'
<1>1. /\ install # NoFile /\ install.unlink = {} /\ install.write = {} /\ install.prune = {}
      /\ receipt' = install.package /\ install' = NoFile
      /\ UNCHANGED <<disk, pristine>>
    BY DEF WriteReceipt, Writing
<1>2. install.package \in Packages
    BY <1>1 DEF InstallInv, InstallTypes, Installs
<1>3. /\ receipt' # NoFile /\ Tracked' = DOMAIN install.package
      /\ PackageDirectories' = DirectoriesOf(install.package)
    <2>1. install.package # NoFile
        BY <1>2, PackagePaths
    <2>2. QED
        BY <1>1, <2>1 DEF Tracked, PackageDirectories, DirectoriesOf
<1>4. InstallTypes' /\ TemporariesKnown' /\ PlanOwned' /\ PristineBusy'
    BY <1>1, <1>2 DEF InstallInv, InstallTypes, TemporariesKnown, PlanOwned, PristineBusy
<1>5. PristineIdle'
    BY <1>1, <1>3 DEF InstallInv, PristineBusy, PristineIdle
<1>6. QED
    BY <1>4, <1>5 DEF InstallInv

\* Somebody else changed the folder, or the process died: what remains to be
\* known is the types and the temporary files.
LEMMA SpoiledHolds ==
    ASSUME InstallTypes', TemporariesKnown', install' = NoFile, ~pristine'
    PROVE  InstallInv'
BY DEF InstallInv, PlanOwned, PristineIdle, PristineBusy

LEMMA KilledHolds ==
    ASSUME InstallInv, Killed
    PROVE  InstallInv'
<1>1. install # NoFile /\ install' = NoFile /\ ~pristine' /\ UNCHANGED receipt
    BY DEF Killed
<1>2. CASE UNCHANGED disk
    BY <1>1, <1>2, SpoiledHolds DEF InstallInv, InstallTypes, TemporariesKnown
<1>3. ASSUME NEW path \in install.write,
             disk' = With(Append(Front(path), Temporary), UserWork)
      PROVE  InstallInv'
    <2> DEFINE t == Append(Front(path), Temporary)
    <2>1. t \in Paths
        <3>1. path \in Paths
            BY <1>1, <1>3 DEF InstallInv, InstallTypes, Installs
        <3>2. QED
            BY <3>1, Beside
    <2> HIDE DEF t
    <2>2. disk' = With(t, UserWork)
        BY <1>3 DEF t
    <2>3. /\ disk' = [q \in DOMAIN disk' |-> disk'[q]] /\ DOMAIN disk' \subseteq Paths
          /\ disk'[t] = UserWork
          /\ \A q \in DOMAIN disk' :
                \/ q = t
                \/ q \in Parents(t) /\ disk'[q] = Directory
                \/ q \in DOMAIN disk /\ q \notin Parents(t) /\ disk'[q] = disk[q]
        BY <2>1, <2>2, PutOnDisk DEF InstallInv
    <2>4. InstallTypes' /\ TemporariesKnown'
        BY <1>1, <2>3 DEF InstallInv, InstallTypes, TemporariesKnown
    <2>5. QED
        BY <1>1, <2>4, SpoiledHolds
<1>4. QED
    BY <1>2, <1>3 DEF Killed

LEMMA UserHolds ==
    ASSUME InstallInv, NEW path,
           \/ path \in UserPaths /\ UserWrites(path)
           \/ UserDeletes(path)
    PROVE  InstallInv'
<1>1. install' = NoFile /\ ~pristine' /\ UNCHANGED receipt
    BY DEF UserWrites, UserDeletes
<1>2. CASE path \in UserPaths /\ UserWrites(path)
    <2>1. path \in Paths
        <3>1. path \in Seq(PathNames) /\ path # <<>>
            BY <1>2, PackageAssumption
        <3>2. path \in Seq(PathNames \cup {Temporary})
            BY <3>1
        <3>3. QED
            BY <3>1, <3>2 DEF Paths
    <2>2. disk' = With(path, UserWork)
        BY <1>2 DEF UserWrites
    <2>3. /\ disk' = [q \in DOMAIN disk' |-> disk'[q]] /\ DOMAIN disk' \subseteq Paths
          /\ disk'[path] = UserWork
          /\ \A q \in DOMAIN disk' :
                \/ q = path
                \/ q \in Parents(path) /\ disk'[q] = Directory
                \/ q \in DOMAIN disk /\ q \notin Parents(path) /\ disk'[q] = disk[q]
        BY <2>1, <2>2, PutOnDisk DEF InstallInv
    <2>4. InstallTypes' /\ TemporariesKnown'
        BY <1>1, <2>3 DEF InstallInv, InstallTypes, TemporariesKnown
    <2>5. QED
        BY <1>1, <2>4, SpoiledHolds
<1>3. CASE UserDeletes(path)
    <2>1. /\ disk' = [q \in DOMAIN disk' |-> disk'[q]] /\ DOMAIN disk' \subseteq Paths
          /\ DOMAIN disk' = DOMAIN disk \ {path}
          /\ \A q \in DOMAIN disk' : disk'[q] = disk[q]
        BY <1>3, RemovedFromDisk DEF InstallInv, UserDeletes
    <2>2. InstallTypes' /\ TemporariesKnown'
        BY <1>1, <2>1 DEF InstallInv, InstallTypes, TemporariesKnown
    <2>3. QED
        BY <1>1, <2>2, SpoiledHolds
<1>4. QED
    BY <1>2, <1>3

LEMMA InstallInvHolds == InstallSpec => []InstallInv
<1>1. InstallInit => InstallInv
    <2> SUFFICES ASSUME InstallInit
                 PROVE  InstallInv
        OBVIOUS
    <2>1. DOMAIN disk = {} /\ disk = [q \in DOMAIN disk |-> disk[q]]
        BY DEF InstallInit
    <2>2. QED
        BY <2>1 DEF InstallInit, InstallInv, InstallTypes, TemporariesKnown, PlanOwned,
           PristineIdle, PristineBusy, Tracked
<1>2. InstallInv /\ [InstallNext]_installVars => InstallInv'
    <2> SUFFICES ASSUME InstallInv, [InstallNext]_installVars
                 PROVE  InstallInv'
        OBVIOUS
    <2>1. CASE InstallNext
        BY <2>1, BeginHolds, UnlinkHolds, RemovePlannedHolds, WriteFileHolds, PruneHolds,
           WriteReceiptHolds, KilledHolds, UserHolds DEF InstallNext
    <2>2. CASE UNCHANGED installVars
        BY <2>2 DEF installVars, InstallInv, InstallTypes, TemporariesKnown, PlanOwned, Ours,
           PristineIdle, PristineBusy, Tracked, PackageDirectories, IsFile, IsDirectory
    <2>3. QED
        BY <2>1, <2>2
<1>3. QED
    BY <1>1, <1>2, PTL DEF InstallSpec

\* What a step of an installation does to one file.
LEMMA StepTouchesOwn ==
    ASSUME InstallInv, InstallNext, install # NoFile, NEW q \in DOMAIN disk, IsFile(q),
           q \notin DOMAIN disk' \/ disk'[q] # disk[q]
    PROVE  Ours(q)
<1>1. ASSUME NEW path, Unlink(path)
      PROVE  Ours(q)
    <2>1. path \in install.unlink /\ disk' = Without({path})
        BY <1>1 DEF Unlink
    <2>2. q = path
        BY <2>1, RemovedFromDisk DEF InstallInv
    <2>3. QED
        BY <2>1, <2>2 DEF InstallInv, PlanOwned, Ours
<1>2. ASSUME NEW path, RemovePlanned(path)
      PROVE  Ours(q)
    <2>1. path \in install.rmdir /\ disk' = Without({path})
        BY <1>2 DEF RemovePlanned, Deepest
    <2>2. q = path
        BY <2>1, RemovedFromDisk DEF InstallInv
    <2>3. QED
        BY <2>1, <2>2 DEF InstallInv, PlanOwned, IsFile, IsDirectory
<1>3. ASSUME NEW path, WriteFile(path)
      PROVE  Ours(q)
    <2>1. path \in install.write /\ disk' = With(path, install.package[path])
          /\ install.unlink = {} /\ path \in Paths
        BY <1>3 DEF WriteFile, Writing, InstallInv, InstallTypes, Installs
    <2>2. q = path \/ q \in Parents(path)
        BY <2>1, PutOnDisk DEF InstallInv
    <2>3. QED
        BY <2>1, <2>2 DEF InstallInv, PlanOwned, Ours
<1>4. ASSUME NEW path, Prune(path)
      PROVE  Ours(q)
    <2>1. IsDirectory(path) /\ disk' = Without({path})
        BY <1>4 DEF Prune
    <2>2. q = path
        BY <2>1, RemovedFromDisk DEF InstallInv
    <2>3. QED
        BY <2>1, <2>2 DEF IsFile, IsDirectory
<1>5. CASE Killed
    <2>1. PICK path \in install.write :
              Writing /\ disk' = With(Append(Front(path), Temporary), UserWork)
        BY <1>5 DEF Killed
    <2> DEFINE t == Append(Front(path), Temporary)
    <2>2. path \in Paths /\ install.unlink = {}
        BY <2>1 DEF Writing, InstallInv, InstallTypes, Installs
    <2>3. t \in Paths /\ Last(t) = Temporary /\ Parents(t) = Parents(path)
        BY <2>2, Beside
    <2> HIDE DEF t
    <2>4. disk' = With(t, UserWork)
        BY <2>1 DEF t
    <2>5. \/ q = t /\ disk'[q] = UserWork /\ q \in DOMAIN disk'
          \/ q \in Parents(path)
        BY <2>3, <2>4, PutOnDisk DEF InstallInv
    <2>6. q \in Parents(path)
        BY <2>3, <2>5 DEF InstallInv, TemporariesKnown, IsFile
    <2>7. QED
        BY <2>1, <2>2, <2>5, <2>6 DEF InstallInv, PlanOwned, Ours
<1>6. QED
    BY <1>1, <1>2, <1>3, <1>4, <1>5 DEF InstallNext, Begin, WriteReceipt, UserWrites,
       UserDeletes

\* The user's own work survives every installation: a step removes or replaces a
\* file only if it is what the receipt recorded or the installation wrote it.
THEOREM UserWorkSurvives == InstallSpec => TouchesOnlyItsOwn
<1>1. InstallInv /\ [InstallNext]_installVars =>
        [(install # NoFile) =>
            \A path \in DOMAIN disk :
               IsFile(path) /\ (path \notin DOMAIN disk' \/ disk'[path] # disk[path])
                 => \/ path \in Tracked /\ disk[path] = receipt[path]
                    \/ path \in install.written]_installVars
    BY StepTouchesOwn DEF Ours
<1>2. QED
    BY <1>1, InstallInvHolds, PTL DEF InstallSpec, TouchesOnlyItsOwn

\* A folder nobody else touched holds exactly the package its receipt names and
\* accepts every version: retired files and directories leave no collision.
THEOREM PristineFoldersUpdate == InstallSpec => []PristineInstallsUpdate
<1>1. InstallInv => PristineInstallsUpdate
    <2> SUFFICES ASSUME InstallInv, pristine, install = NoFile
                 PROVE  /\ receipt # NoFile =>
                             Restrict(disk, {path \in DOMAIN disk : IsFile(path)}) = receipt
                        /\ \A path \in DOMAIN disk :
                             IsDirectory(path) => path \in PackageDirectories
                        /\ \A package \in Packages : Accepts(package)
        BY DEF PristineInstallsUpdate
    <2>1. /\ \A q \in DOMAIN disk : disk[q] # Directory => q \in Tracked
          /\ \A q \in Tracked : q \in DOMAIN disk /\ disk[q] = receipt[q]
          /\ \A q \in DOMAIN disk : disk[q] = Directory => q \in PackageDirectories
        BY DEF InstallInv, PristineIdle
    <2>2. \A q \in Tracked : IsFile(q) /\ disk[q] = receipt[q]
        <3>1. \A q \in Tracked : receipt[q] # Directory
            BY PackagePaths DEF Tracked, InstallInv, InstallTypes
        <3>2. QED
            BY <2>1, <3>1 DEF IsFile
    <2>3. ASSUME receipt # NoFile
          PROVE  Restrict(disk, {path \in DOMAIN disk : IsFile(path)}) = receipt
        <3>1. {path \in DOMAIN disk : IsFile(path)} = DOMAIN receipt
            BY <2>1, <2>2, <2>3 DEF Tracked, IsFile
        <3>2. receipt \in Packages
            BY <2>3 DEF InstallInv, InstallTypes
        <3>3. receipt = [q \in DOMAIN receipt |-> receipt[q]]
            BY <3>2, PackageAssumption
        <3>4. \A q \in DOMAIN receipt : disk[q] = receipt[q]
            BY <2>2, <2>3 DEF Tracked
        <3>5. QED
            BY <3>1, <3>3, <3>4 DEF Restrict
    <2>4. ASSUME NEW package \in Packages
          PROVE  Accepts(package)
        <3>1. LocallyUnchanged
            BY <2>2 DEF LocallyUnchanged
        <3>2. ASSUME NEW path \in DOMAIN package
              PROVE  /\ Reachable(path, package)
                     /\ IsDirectory(path) => Replaceable(path, package)
                     /\ IsFile(path) => path \in Tracked
            <4>1. path \in Paths /\ \A q \in DOMAIN package : q \notin Parents(path)
                BY PackagePaths
            <4>2. Reachable(path, package)
                BY <2>1, <4>1 DEF Reachable, IsFile, Obsolete
            <4>3. ASSUME IsDirectory(path), NEW q \in Below(path), ~IsDirectory(q)
                  PROVE  q \in Obsolete(package)
                <5>1. q \in DOMAIN disk /\ IsPrefix(path, q) /\ q # path /\ disk[q] # Directory
                    BY <4>3 DEF Below, IsDirectory
                <5>2. q \in Paths /\ q \in Tracked
                    BY <2>1, <5>1 DEF InstallInv, InstallTypes
                <5>3. path \in Parents(q)
                    BY <4>1, <5>1, <5>2, PrefixIsParent
                <5>4. q \notin DOMAIN package
                    BY <5>3, PackagePaths
                <5>5. QED
                    BY <5>2, <5>4 DEF Obsolete
            <4>4. IsDirectory(path) => Replaceable(path, package)
                BY <2>1, <4>3 DEF Replaceable, IsDirectory
            <4>5. IsFile(path) => path \in Tracked
                BY <2>1 DEF IsFile
            <4>6. QED
                BY <4>2, <4>4, <4>5
        <3>3. QED
            BY <3>1, <3>2 DEF Accepts
    <2>5. QED
        BY <2>1, <2>3, <2>4 DEF IsDirectory
<1>2. QED
    BY <1>1, InstallInvHolds, PTL

-----------------------------------------------------------------------------
(* Tags.                                                                   *)

TagRows == [library: Libraries, name: Names, key: {KeyOf[n] : n \in Names}]

TagTypes ==
    /\ tags \in [TagIds -> TagRows \cup {Null}]
    /\ links \subseteq PageUids \X TagIds
    /\ pages \in [PageUids -> [section: Sections, live: BOOLEAN]]

\* The inductive invariant: an association joins a Page and a Tag of one
\* Library.
TagsInv ==
    /\ TagTypes
    /\ \A p \in PageUids, t \in TagIds : <<p, t>> \in links => InLibrary(t, PageLibrary(p))
    /\ ~broken

\* A validated batch of renames meets no other Tag's key.
LEMMA RenamesMeetNobody ==
    ASSUME TagsInv, NEW b \in Batches("rename"), BatchAccepted("rename", b)
    PROVE  KeysStayUnique(b)
<1>1. /\ b \in UNION {[1 .. n ->
              [library: Libraries, tag: TagIds, expected: Names, new: Names]] : n \in 1 .. MaxBatch}
      /\ \A i \in DOMAIN b : InLibrary(b[i].tag, b[i].library)
      /\ \A i, j \in DOMAIN b : b[i].tag = b[j].tag => i = j
    BY DEF Batches
<1>2. PICK m \in 1 .. MaxBatch : b \in [1 .. m ->
              [library: Libraries, tag: TagIds, expected: Names, new: Names]]
    BY <1>1
<1>3. DOMAIN b = 1 .. m /\ m \in Nat
    BY <1>2, TagsAssumption
<1>4. ASSUME NEW i \in DOMAIN b, NEW t \in TagIds,
             t \in FindTag(Renamed(b, i - 1), b[i].library, KeyOf[b[i].new])
      PROVE  t = b[i].tag
    <2> DEFINE written == {j \in 1 .. i - 1 : b[j].new # b[j].expected}
               row == Renamed(b, i - 1)[t]
    <2>1. row # Null /\ row.library = b[i].library /\ row.key = KeyOf[b[i].new]
        BY <1>4 DEF FindTag
    <2>2. OwnerAllows(b, i)
          /\ \A j \in 1 .. i - 1 :
                <<b[j].library, KeyOf[b[j].new]>> # <<b[i].library, KeyOf[b[i].new]>>
        BY DEF BatchAccepted
    <2>3. CASE \E j \in written : b[j].tag = t
        <3> DEFINE j == CHOOSE k \in written : b[k].tag = t
        <3>1. j \in written /\ b[j].tag = t
            BY <2>3
        <3>2. row = [tags[t] EXCEPT !.name = b[j].new, !.key = KeyOf[b[j].new]]
            BY <2>3 DEF Renamed
        <3> HIDE DEF j, row
        <3>3. j \in 1 .. i - 1 /\ j \in DOMAIN b
            BY <1>3, <3>1
        <3>4. tags[t] \in TagRows /\ tags[t].library = b[j].library
            BY <1>1, <3>1, <3>3 DEF TagsInv, TagTypes, InLibrary
        <3>5. row.library = b[j].library /\ row.key = KeyOf[b[j].new]
            BY <3>2, <3>4 DEF TagRows
        <3>6. QED
            BY <2>1, <2>2, <3>3, <3>5
    <2>4. CASE ~ \E j \in written : b[j].tag = t
        <3>1. row = tags[t]
            BY <2>4 DEF Renamed
        <3>2. t \in FindTag(tags, b[i].library, KeyOf[b[i].new])
            BY <2>1, <3>1 DEF FindTag
        <3>3. QED
            BY <2>2, <3>2 DEF OwnerAllows
    <2>5. QED
        BY <2>3, <2>4
<1>5. \A i \in DOMAIN b : \A t :
        t \in FindTag(Renamed(b, i - 1), b[i].library, KeyOf[b[i].new]) => t \in TagIds
    BY DEF FindTag
<1>6. QED
    BY <1>4, <1>5 DEF KeysStayUnique

\* A rename leaves a Tag in its Library.
LEMMA RenamedTags ==
    ASSUME TagsInv, NEW b \in Batches("rename"), NEW t \in TagIds
    PROVE  /\ Renamed(b, Len(b)) \in [TagIds -> TagRows \cup {Null}]
           /\ tags[t] # Null =>
                /\ Renamed(b, Len(b))[t] # Null
                /\ Renamed(b, Len(b))[t].library = tags[t].library
<1>1. b \in UNION {[1 .. n ->
              [library: Libraries, tag: TagIds, expected: Names, new: Names]] : n \in 1 .. MaxBatch}
      /\ \A i \in DOMAIN b : InLibrary(b[i].tag, b[i].library)
    BY DEF Batches
<1>2. PICK m \in 1 .. MaxBatch : b \in [1 .. m ->
              [library: Libraries, tag: TagIds, expected: Names, new: Names]]
    BY <1>1
<1>3. DOMAIN b = 1 .. m /\ Len(b) = m
    BY <1>2, TagsAssumption
<1>4. Null \notin TagRows
    BY TagsAssumption DEF TagRows
<1> DEFINE written == {i \in 1 .. Len(b) : b[i].new # b[i].expected}
           after == Renamed(b, Len(b))
<1>5. ASSUME NEW u \in TagIds
      PROVE  \/ after[u] = tags[u]
             \/ tags[u] \in TagRows /\ after[u] \in TagRows /\ after[u].library = tags[u].library
    <2>1. CASE \E i \in written : b[i].tag = u
        <3> DEFINE i == CHOOSE k \in written : b[k].tag = u
        <3>1. i \in written /\ b[i].tag = u
            BY <2>1
        <3>2. after[u] = [tags[u] EXCEPT !.name = b[i].new, !.key = KeyOf[b[i].new]]
            BY <2>1 DEF Renamed
        <3> HIDE DEF i, after
        <3>3. i \in DOMAIN b
            BY <1>3, <3>1
        <3>4. b[i].new \in Names
            BY <1>2, <1>3, <3>3
        <3>5. tags[u] \in TagRows
            BY <1>1, <3>1, <3>3 DEF TagsInv, TagTypes, InLibrary
        <3>6. after[u] \in TagRows /\ after[u].library = tags[u].library
            BY <3>2, <3>4, <3>5 DEF TagRows
        <3>7. QED
            BY <3>5, <3>6
    <2>2. CASE ~ \E i \in written : b[i].tag = u
        BY <2>2 DEF Renamed
    <2>3. QED
        BY <2>1, <2>2
<1>6. after = [u \in TagIds |-> after[u]]
    BY DEF Renamed
<1> HIDE DEF after
<1>7. \A u \in TagIds : after[u] \in TagRows \cup {Null}
    BY <1>5 DEF TagsInv, TagTypes
<1>8. after \in [TagIds -> TagRows \cup {Null}]
    BY <1>6, <1>7
<1>9. QED
    BY <1>4, <1>5, <1>8 DEF after

LEMMA TagsStep == TagsInv /\ [TagsNext]_tagVars => TagsInv'
<1> SUFFICES ASSUME TagsInv, [TagsNext]_tagVars
             PROVE  TagsInv'
    OBVIOUS
<1>1. /\ tags \in [TagIds -> TagRows \cup {Null}] /\ links \subseteq PageUids \X TagIds
      /\ pages \in [PageUids -> [section: Sections, live: BOOLEAN]] /\ ~broken
      /\ \A p \in PageUids, t \in TagIds :
            <<p, t>> \in links => tags[t] # Null /\ tags[t].library = LibraryOf[pages[p].section]
    BY DEF TagsInv, TagTypes, InLibrary, PageLibrary
<1>2. ASSUME NEW l \in Libraries, NEW n \in Names, AddTag(l, n)
      PROVE  TagsInv'
    <2>1. PICK t \in TagIds : /\ tags[t] = Null
                              /\ tags' = [tags EXCEPT ![t] =
                                            [library |-> l, name |-> n, key |-> KeyOf[n]]]
        BY <1>2 DEF AddTag
    <2>2. [library |-> l, name |-> n, key |-> KeyOf[n]] \in TagRows
        BY DEF TagRows
    <2>3. tags' \in [TagIds -> TagRows \cup {Null}]
        BY <1>1, <2>1, <2>2
    <2>4. \A u \in TagIds : tags[u] # Null => tags'[u] = tags[u]
        BY <1>1, <2>1
    <2>5. UNCHANGED <<links, pages, broken>>
        BY <1>2 DEF AddTag
    <2>6. QED
        BY <1>1, <2>3, <2>4, <2>5 DEF TagsInv, TagTypes, InLibrary, PageLibrary
<1>3. ASSUME NEW s \in Sections, NEW p \in PageUids, NEW t \in TagIds, NEW attach \in BOOLEAN,
             Associate(p, t, attach)
      PROVE  TagsInv'
    <2>1. tags[t] # Null /\ tags[t].library = LibraryOf[pages[p].section]
        BY <1>3 DEF Associate, InLibrary, PageLibrary
    <2>2. links' \subseteq links \cup {<<p, t>>} /\ UNCHANGED <<tags, pages, broken>>
        BY <1>3 DEF Associate
    <2>3. links' \subseteq PageUids \X TagIds
        BY <1>1, <2>2
    <2>4. \A q \in PageUids, u \in TagIds : <<q, u>> \in links' =>
            tags[u] # Null /\ tags[u].library = LibraryOf[pages[q].section]
        BY <1>1, <2>1, <2>2
    <2>5. QED
        BY <1>1, <2>2, <2>3, <2>4 DEF TagsInv, TagTypes, InLibrary, PageLibrary
<1>4. ASSUME NEW p \in PageUids, NEW row \in [section: Sections, live: BOOLEAN],
             MoveOrTrash(p, row)
      PROVE  TagsInv'
    <2>1. /\ LibraryOf[row.section] = LibraryOf[pages[p].section]
          /\ pages' = [pages EXCEPT ![p] = row] /\ UNCHANGED <<tags, links, broken>>
        BY <1>4 DEF MoveOrTrash, PageLibrary
    <2>2. pages' \in [PageUids -> [section: Sections, live: BOOLEAN]]
          /\ \A q \in PageUids : LibraryOf[pages'[q].section] = LibraryOf[pages[q].section]
        BY <1>1, <2>1
    <2>3. QED
        BY <1>1, <2>1, <2>2 DEF TagsInv, TagTypes, InLibrary, PageLibrary
<1>5. ASSUME NEW b \in Batches("rename"), ManageTagsAsMaster("rename", b)
      PROVE  TagsInv'
    <2>1. BatchAccepted("rename", b) /\ RenameRows(b) /\ UNCHANGED pages
        BY <1>5 DEF ManageTagsAsMaster
    <2>2. tags' = Renamed(b, Len(b)) /\ UNCHANGED <<links, broken>>
        BY <2>1, RenamesMeetNobody DEF RenameRows
    <2>3. /\ tags' \in [TagIds -> TagRows \cup {Null}]
          /\ \A t \in TagIds : tags[t] # Null => tags'[t] # Null /\ tags'[t].library = tags[t].library
        <3>1. ASSUME NEW t \in TagIds
              PROVE  /\ tags' \in [TagIds -> TagRows \cup {Null}]
                     /\ tags[t] # Null => tags'[t] # Null /\ tags'[t].library = tags[t].library
            BY <2>2, RenamedTags
        <3>2. CASE TagIds = {}
            BY <2>2, <3>2 DEF Renamed
        <3>3. QED
            BY <3>1, <3>2
    <2>4. QED
        BY <1>1, <2>1, <2>2, <2>3 DEF TagsInv, TagTypes, InLibrary, PageLibrary
<1>6. ASSUME NEW b \in Batches("delete"), ManageTagsAsMaster("delete", b)
      PROVE  TagsInv'
    <2> DEFINE gone == {b[i].tag : i \in DOMAIN b}
    <2>1. /\ links' = {l \in links : l[2] \notin gone}
          /\ tags' = [t \in TagIds |-> IF t \in gone THEN Null ELSE tags[t]]
          /\ UNCHANGED <<pages, broken>>
        BY <1>6 DEF ManageTagsAsMaster, DeleteRows
    <2> HIDE DEF gone
    <2>2. tags' \in [TagIds -> TagRows \cup {Null}] /\ links' \subseteq PageUids \X TagIds
        BY <1>1, <2>1
    <2>3. \A p \in PageUids, t \in TagIds : <<p, t>> \in links' =>
            <<p, t>> \in links /\ tags'[t] = tags[t]
        BY <2>1
    <2>4. QED
        BY <1>1, <2>1, <2>2, <2>3 DEF TagsInv, TagTypes, InLibrary, PageLibrary
<1>7. CASE UNCHANGED tagVars
    BY <1>7 DEF tagVars, TagsInv, TagTypes, InLibrary, PageLibrary
<1>8. QED
    BY <1>2, <1>3, <1>4, <1>5, <1>6, <1>7
    DEF TagsNext, CreateTag, CreateTagAsMaster, SetPageTag, SetPageTagAsMaster

LEMMA TagsInvHolds == TagsSpec => []TagsInv
<1>1. TagsInit => TagsInv
    <2> SUFFICES ASSUME TagsInit
                 PROVE  TagsInv
        OBVIOUS
    <2>1. pages \in [PageUids -> [section: Sections, live: BOOLEAN]]
        BY DEF TagsInit
    <2>2. tags \in [TagIds -> TagRows \cup {Null}]
        BY DEF TagsInit
    <2>3. QED
        BY <2>1, <2>2 DEF TagsInit, TagsInv, TagTypes
<1>2. QED
    BY <1>1, TagsStep, PTL DEF TagsSpec

\* A batch of renames or deletions that apply_master_tag_batch validated never
\* runs into the unique key of another Tag half-way.
THEOREM ValidatedBatchesComplete == TagsSpec => []BatchesComplete
<1>1. TagsInv => BatchesComplete
    BY DEF TagsInv, BatchesComplete
<1>2. QED
    BY <1>1, TagsInvHolds, PTL

\* The Tag directory (list_tags), the Pages of a Tag (list_tag_pages), the Tags
\* of a Page and the administrator's summary agree for every caller.
THEOREM ListingsAgree == TagsSpec => []DirectoryAgrees
<1>1. TagsInv => DirectoryAgrees
    <2> SUFFICES ASSUME TagsInv, NEW l \in Libraries, NEW t \in TagIds, InLibrary(t, l)
                 PROVE  /\ TagSummary(t) = Cardinality(GetLibraryTag(l, t))
                        /\ \A c \in {d \in Callers : MayRead(d, l)} :
                              /\ CountedPages(c, t) = ListTagPages(c, l, t)
                              /\ WholeLibrary(c, l, "read") => t \in ListTags(c, l)
                              /\ WholeLibrary(c, l, "read") =>
                                     Cardinality(CountedPages(c, t)) = TagSummary(t)
                              /\ \A p \in ListTagPages(c, l, t) :
                                     /\ MayListPageTags(c, l, pages[p].section)
                                     /\ t \in ListPageTags(p)
        BY DEF DirectoryAgrees
    <2>1. \A p \in PageUids : <<p, t>> \in links => PageLibrary(p) = l
        BY DEF TagsInv, InLibrary
    <2>2. GetLibraryTag(l, t) = {p \in PageUids : <<p, t>> \in links /\ pages[p].live}
        BY <2>1 DEF GetLibraryTag
    <2>3. ASSUME NEW c \in Callers, MayRead(c, l)
          PROVE  /\ CountedPages(c, t) = ListTagPages(c, l, t)
                 /\ WholeLibrary(c, l, "read") => t \in ListTags(c, l)
                 /\ WholeLibrary(c, l, "read") => Cardinality(CountedPages(c, t)) = TagSummary(t)
                 /\ \A p \in ListTagPages(c, l, t) :
                        /\ MayListPageTags(c, l, pages[p].section)
                        /\ t \in ListPageTags(p)
        <3>1. VisibleTagPages(c, l, t) = CountedPages(c, t)
            BY <2>1 DEF VisibleTagPages, CountedPages
        <3>2. CountedPages(c, t) = ListTagPages(c, l, t)
            <4>1. CASE t \in ListTags(c, l)
                BY <3>1, <4>1 DEF ListTagPages
            <4>2. CASE t \notin ListTags(c, l)
                BY <4>2 DEF ListTagPages, ListTags
            <4>3. QED
                BY <4>1, <4>2
        <3>3. WholeLibrary(c, l, "read") => Policy[c][l].kind # "legacy"
            BY DEF WholeLibrary
        <3>4. WholeLibrary(c, l, "read") => t \in ListTags(c, l)
            BY <3>3 DEF ListTags
        <3>5. WholeLibrary(c, l, "read") =>
                CountedPages(c, t) = {p \in PageUids : <<p, t>> \in links /\ pages[p].live}
            BY <2>1, <3>3 DEF CountedPages, InScope
        <3>6. ASSUME NEW p \in ListTagPages(c, l, t)
              PROVE  /\ MayListPageTags(c, l, pages[p].section)
                     /\ t \in ListPageTags(p)
            <4>1. /\ p \in PageUids /\ <<p, t>> \in links /\ InScope(c, p)
                  /\ LibraryOf[pages[p].section] = l
                BY <2>1, <3>2, <3>6 DEF CountedPages, PageLibrary
            <4>2. t \in ListPageTags(p)
                BY <4>1 DEF ListPageTags, InLibrary
            <4>3. WholeLibrary(c, l, "read") \/ SectionGranted(c, pages[p].section, {"page.read"})
                BY <2>3, <4>1 DEF MayRead, SectionGranted, InScope, PageLibrary
            <4>4. QED
                BY <2>3, <4>2, <4>3 DEF MayListPageTags, MayRead
        <3>7. QED
            BY <3>2, <3>4, <3>5, <3>6 DEF TagSummary
    <2>4. QED
        BY <2>2, <2>3 DEF TagSummary
<1>2. QED
    BY <1>1, TagsInvHolds, PTL

-----------------------------------------------------------------------------
(* The shared workspace.                                                   *)

IsRow(row) ==
    /\ row = [label |-> row.label, files |-> row.files, number |-> row.number,
              occurred |-> row.occurred, at |-> row.at, live |-> row.live]
    /\ row.number \in Nat /\ row.at \in Nat

\* A document's clock ascends strictly; the versions of a Skill are numbered.
DocumentOK(d) ==
    /\ states[d] \in Seq(Range(states[d]))
    /\ \A i \in DOMAIN states[d] :
          /\ IsRow(states[d][i])
          /\ Complete(d, states[d][i].label, states[d][i].files)
          /\ d \in Skills => states[d][i].number = i
    /\ \A i, j \in DOMAIN states[d] : i < j => states[d][i].at < states[d][j].at

StatesOK ==
    /\ states = [d \in Documents |-> states[d]]
    /\ \A d \in Documents : DocumentOK(d)

\* An answer describes a version of its document.
Anchored(answer, versions) ==
    /\ answer.doc \in Documents
    /\ \E i \in DOMAIN versions[answer.doc] :
          LET row == versions[answer.doc][i]
          IN  /\ answer.number = row.number /\ answer.at = row.at
              /\ answer.label = row.label /\ answer.files = row.files
              /\ answer.etag = ETag(answer.doc, row)
              /\ answer.doc \in Pages => row.live

ReceiptOK(saved) ==
    /\ Anchored(saved.answer, states)
    /\ saved.answer.at <= saved.at
    /\ saved.answer.doc \in Skills =>
          /\ saved.answer.created \in BOOLEAN
          /\ saved.answer.created <=> saved.answer.changed /\ saved.answer.number = 1
          /\ ~(saved.answer.created /\ saved.answer.overwritten)

\* The audits of a recorded answer.
AuditsOf(r) ==
    {i \in DOMAIN audits : /\ audits[i].action = r[1]
                           /\ audits[i].doc = replays[r].answer.doc
                           /\ audits[i].at = replays[r].answer.at
                           /\ audits[i].request = r}

\* What the validator wants of an answer and its status.
AnswerTyped(r, replay) ==
    /\ r = <<r[1], r[2]>> /\ r[1] \in {"create", "revise"}
    /\ replay.answer.doc \in Skills
    /\ r[1] = "create" =>
          /\ replay.answer.changed => replay.status = 201 /\ replay.answer.number = 1
          /\ ~replay.answer.changed => replay.status = 200
    /\ r[1] = "revise" => replay.status = 200

ReplayOK(r) ==
    /\ AnswerTyped(r, replays[r])
    /\ Anchored(replays[r].answer, states)
    /\ replays[r].answer.changed => \E i : AuditsOf(r) = {i}
    /\ ~replays[r].answer.changed => AuditsOf(r) = {}

\* An Agent's audit names the request whose answer was recorded with it.
AuditsOK ==
    /\ audits \in Seq(Range(audits))
    /\ \A i \in DOMAIN audits :
          audits[i].action \in {"create", "revise"} => audits[i].request \in DOMAIN replays

\* The inductive invariant.
WorkspaceInv ==
    /\ StatesOK
    /\ \A key \in DOMAIN receipts : ReceiptOK(receipts[key])
    /\ \A r \in DOMAIN replays : ReplayOK(r)
    /\ AuditsOK

LEMMA Appending ==
    ASSUME NEW s, s \in Seq(Range(s)), NEW e
    PROVE  /\ Len(s) \in Nat /\ DOMAIN s = 1 .. Len(s)
           /\ Append(s, e) \in Seq(Range(Append(s, e)))
           /\ Len(Append(s, e)) = Len(s) + 1 /\ DOMAIN Append(s, e) = 1 .. Len(s) + 1
           /\ Append(s, e)[Len(s) + 1] = e
           /\ \A i \in 1 .. Len(s) : Append(s, e)[i] = s[i]
           /\ Append(s, e) # s /\ Append(s, e) # <<>>
<1> DEFINE T == Range(s) \cup {e}
           u == Append(s, e)
<1>1. s \in Seq(T) /\ e \in T
    <2>1. Range(s) \subseteq T
        OBVIOUS
    <2>2. Seq(Range(s)) \subseteq Seq(T)
        BY <2>1
    <2>3. QED
        BY <2>2
<1> HIDE DEF T
<1>2. /\ Len(s) \in Nat /\ DOMAIN s = 1 .. Len(s) /\ u \in Seq(T)
      /\ Len(u) = Len(s) + 1 /\ DOMAIN u = 1 .. Len(s) + 1
      /\ u[Len(s) + 1] = e /\ \A i \in 1 .. Len(s) : u[i] = s[i]
    BY <1>1
<1> HIDE DEF u
<1>3. u # s /\ u # <<>>
    <2>1. \A n \in Nat : n + 1 # n /\ n + 1 \in 1 .. n + 1
        OBVIOUS
    <2>2. Len(s) + 1 # Len(s) /\ Len(s) + 1 \in DOMAIN u
        BY <1>2, <2>1
    <2>3. DOMAIN <<>> = {}
        OBVIOUS
    <2>4. QED
        BY <1>2, <2>2, <2>3
<1>4. u = [i \in 1 .. Len(u) |-> u[i]] /\ \A i \in 1 .. Len(u) : u[i] \in Range(u)
    BY <1>2 DEF Range
<1>5. u \in Seq(Range(u))
    BY <1>2, <1>4
<1>6. QED
    BY <1>2, <1>3, <1>5 DEF u

LEMMA CurrentRow ==
    ASSUME StatesOK, NEW d \in Documents, Exists(d)
    PROVE  /\ Len(states[d]) \in DOMAIN states[d]
           /\ Current(d) = states[d][Len(states[d])]
           /\ IsRow(Current(d)) /\ Complete(d, Current(d).label, Current(d).files)
           /\ d \in Skills => Current(d).number = Len(states[d])
           /\ \A i \in DOMAIN states[d] : states[d][i].at < Current(d).at \/ i = Len(states[d])
<1> DEFINE s == states[d]
<1>1. s \in Seq(Range(s)) /\ s # <<>>
    BY DEF StatesOK, DocumentOK, Exists
<1>2. Len(s) \in DOMAIN s /\ DOMAIN s = 1 .. Len(s) /\ Len(s) \in Nat
    BY <1>1
<1>3. Current(d) = s[Len(s)]
    BY DEF Current, Last
<1>4. QED
    BY <1>2, <1>3 DEF StatesOK, DocumentOK

\* The ETag tells the versions of a document apart.
LEMMA ETagsTellApart ==
    ASSUME StatesOK, NEW d \in Documents,
           NEW i \in DOMAIN states[d], NEW j \in DOMAIN states[d],
           ETag(d, states[d][i]) = ETag(d, states[d][j])
    PROVE  i = j
<1>1. states[d] \in Seq(Range(states[d]))
    BY DEF StatesOK, DocumentOK
<1>2. i \in Nat /\ j \in Nat
    BY <1>1
<1>3. CASE d \in Skills
    BY <1>2, <1>3 DEF ETag, StatesOK, DocumentOK
<1>4. CASE d \notin Skills
    <2>1. states[d][i].at = states[d][j].at
        BY <1>4 DEF ETag
    <2>2. states[d][i].at \in Nat
        BY DEF StatesOK, DocumentOK, IsRow
    <2>3. ~ i < j /\ ~ j < i
        BY <2>1, <2>2 DEF StatesOK, DocumentOK
    <2>4. QED
        BY <1>2, <2>3
<1>5. QED
    BY <1>3, <1>4

LEMMA SeenIsCurrent ==
    ASSUME StatesOK, NEW d \in Documents, Exists(d), NEW seen \in Range(states[d])
    PROVE  ETag(d, seen) = ETag(d, Current(d)) <=> seen = Current(d)
<1>1. PICK i \in DOMAIN states[d] : seen = states[d][i]
    BY DEF Range
<1>2. QED
    BY <1>1, CurrentRow, ETagsTellApart

-----------------------------------------------------------------------------

GoodRow(d, row) ==
    /\ IsRow(row) /\ Complete(d, row.label, row.files)
    /\ d \in Skills => row.number = Len(states[d]) + 1
    /\ \A i \in DOMAIN states[d] : states[d][i].at < row.at

\* A step on document d: no new version, or one that continues the others.
Grows(d) ==
    \/ UNCHANGED states
    \/ \E row : GoodRow(d, row) /\ states' = [states EXCEPT ![d] = Append(states[d], row)]

LEMMA GrowsKeeps ==
    ASSUME StatesOK, NEW d \in Documents, Grows(d)
    PROVE  /\ StatesOK'
           /\ \A e \in Documents : \A i \in DOMAIN states[e] :
                i \in DOMAIN states'[e] /\ states'[e][i] = states[e][i]
<1>1. CASE UNCHANGED states
    BY <1>1 DEF StatesOK, DocumentOK
<1>2. CASE ~ UNCHANGED states
    <2>1. PICK row : GoodRow(d, row) /\ states' = [states EXCEPT ![d] = Append(states[d], row)]
        BY <1>2 DEF Grows
    <2> DEFINE s == states[d]
               u == Append(s, row)
    <2>2. states = [e \in Documents |-> states[e]] /\ s \in Seq(Range(s))
        BY DEF StatesOK, DocumentOK
    <2>3. /\ states' = [e \in Documents |-> states'[e]] /\ states'[d] = u
          /\ \A e \in Documents : e # d => states'[e] = states[e]
        BY <2>1, <2>2
    <2>4. /\ Len(s) \in Nat /\ DOMAIN s = 1 .. Len(s)
          /\ u \in Seq(Range(u)) /\ DOMAIN u = 1 .. Len(s) + 1
          /\ u[Len(s) + 1] = row
          /\ \A i \in 1 .. Len(s) : u[i] = s[i]
        BY <2>2, Appending
    <2> HIDE DEF u
    <2>5. ASSUME NEW i \in DOMAIN u
          PROVE  /\ IsRow(u[i]) /\ Complete(d, u[i].label, u[i].files)
                 /\ d \in Skills => u[i].number = i
        <3>1. CASE i = Len(s) + 1
            BY <2>1, <2>4, <3>1 DEF GoodRow
        <3>2. CASE i # Len(s) + 1
            <4>1. i \in DOMAIN s /\ u[i] = s[i]
                BY <2>4, <3>2
            <4>2. QED
                BY <4>1 DEF StatesOK, DocumentOK
        <3>3. QED
            BY <3>1, <3>2
    <2>6. ASSUME NEW i \in DOMAIN u, NEW j \in DOMAIN u, i < j
          PROVE  u[i].at < u[j].at
        <3>1. i \in DOMAIN s /\ u[i] = s[i]
            BY <2>4, <2>6
        <3>2. CASE j = Len(s) + 1
            BY <2>1, <2>4, <3>1, <3>2 DEF GoodRow
        <3>3. CASE j # Len(s) + 1
            <4>1. j \in DOMAIN s /\ u[j] = s[j]
                BY <2>4, <3>3
            <4>2. QED
                BY <2>6, <3>1, <4>1 DEF StatesOK, DocumentOK
        <3>4. QED
            BY <3>2, <3>3
    <2>7. DocumentOK(d)'
        BY <2>3, <2>4, <2>5, <2>6 DEF DocumentOK, Complete
    <2>8. \A e \in Documents : e # d => DocumentOK(e)'
        BY <2>3 DEF StatesOK, DocumentOK, Complete
    <2>9. StatesOK'
        BY <2>3, <2>7, <2>8 DEF StatesOK
    <2>10. QED
        BY <2>3, <2>4, <2>9
<1>3. QED
    BY <1>1, <1>2

\* What the last version is after a step.
LEMMA LastVersion ==
    ASSUME StatesOK, NEW d \in Documents, Grows(d), states'[d] # <<>>
    PROVE  /\ Len(states'[d]) \in DOMAIN states'[d]
           /\ Last(states'[d]) = states'[d][Len(states'[d])]
           /\ IsRow(Last(states'[d]))
           /\ d \in Skills => Last(states'[d]).number = Len(states'[d])
<1>1. StatesOK'
    BY GrowsKeeps
<1>2. states'[d] \in Seq(Range(states'[d]))
    BY <1>1 DEF StatesOK, DocumentOK
<1>3. Len(states'[d]) \in DOMAIN states'[d]
    BY <1>2
<1>4. Last(states'[d]) = states'[d][Len(states'[d])]
    BY DEF Last
<1>5. QED
    BY <1>1, <1>3, <1>4 DEF StatesOK, DocumentOK

LEMMA LaterIsLater ==
    ASSUME NEW m \in Nat, NEW n \in Nat
    PROVE  Later(m, n) \in Nat /\ Later(m, n) >= n
BY DEF Later

LEMMA RevisedGrows ==
    ASSUME StatesOK, NEW d \in Documents, NEW label, NEW files, NEW now \in Clocks,
           Revisable(d, label, files), Revised(d, label, files, now)
    PROVE  /\ Grows(d) /\ states'[d] # <<>> /\ Last(states'[d]).live
           /\ states'[d] # states[d] /\ d \in Skills => Last(states'[d]).number # 1
<1> DEFINE row == Current(d)
           next == NextRow(d, label, files, now)
<1> HIDE DEF row, next
<1>1. Exists(d) /\ row.live /\ Complete(d, label, files)
    BY DEF Revisable, row
<1>2. /\ Len(states[d]) \in DOMAIN states[d] /\ row = states[d][Len(states[d])]
      /\ IsRow(row)
      /\ d \in Skills => row.number = Len(states[d])
      /\ \A i \in DOMAIN states[d] : states[d][i].at < row.at \/ i = Len(states[d])
    BY <1>1, CurrentRow DEF row
<1>3. now \in Nat
    BY WorkspaceAssumption
<1>4. CASE UNCHANGED states
    BY <1>1, <1>2, <1>4 DEF Grows, Exists, Current, row
<1>5. CASE ~ UNCHANGED states
    <2>1. states' = [states EXCEPT ![d] = Append(@, next)]
        BY <1>5 DEF Revised, Commit, next
    <2>2. states = [e \in Documents |-> states[e]] /\ states[d] \in Seq(Range(states[d]))
        BY DEF StatesOK, DocumentOK
    <2>3. states' = [states EXCEPT ![d] = Append(states[d], next)]
          /\ states'[d] = Append(states[d], next)
        BY <2>1, <2>2
    <2>4. /\ row.number + 1 \in Nat /\ row.at + 1 \in Nat
          /\ Later(now, row.at + 1) \in Nat /\ Later(now, row.at + 1) > row.at
        <3>1. row.number \in Nat /\ row.at \in Nat
            BY <1>2 DEF IsRow
        <3>2. row.at + 1 \in Nat
            BY <3>1
        <3>3. Later(now, row.at + 1) \in Nat /\ Later(now, row.at + 1) >= row.at + 1
            BY <1>3, <3>2, LaterIsLater
        <3> HIDE DEF row
        <3>4. QED
            BY <3>1, <3>2, <3>3
    <2>5. /\ next = [label |-> label, files |-> files, number |-> row.number + 1,
                     occurred |-> row.occurred, at |-> Later(now, row.at + 1),
                     live |-> row.live]
        <3>1. row = [label |-> row.label, files |-> row.files, number |-> row.number,
              occurred |-> row.occurred, at |-> row.at, live |-> row.live]
            BY <1>2 DEF IsRow
        <3>2. next = [row EXCEPT !.label = label, !.files = files, !.number = row.number + 1,
                       !.at = Later(now, row.at + 1)]
            BY DEF NextRow, next, row
        <3>3. QED
            BY <3>1, <3>2
    <2>6. IsRow(next) /\ next.label = label /\ next.files = files /\ next.live
          /\ next.number = row.number + 1 /\ next.at > row.at
        <3>1. QED
            BY <1>1, <2>4, <2>5 DEF IsRow
    <2>7. \A i \in DOMAIN states[d] : states[d][i].at < next.at
        <3>1. \A i \in DOMAIN states[d] : states[d][i].at \in Nat
            BY DEF StatesOK, DocumentOK, IsRow
        <3>2. row.at \in Nat /\ next.at \in Nat
            BY <1>2, <2>6 DEF IsRow
        <3>3. QED
            BY <1>2, <2>6, <3>1, <3>2
    <2>8. GoodRow(d, next)
        BY <1>1, <1>2, <2>6, <2>7 DEF GoodRow
    <2>9. Grows(d)
        BY <2>3, <2>8 DEF Grows
    <2>10. /\ states'[d] # <<>>
           /\ Last(states'[d]) = next
        <3>1. /\ Len(Append(states[d], next)) = Len(states[d]) + 1
              /\ Append(states[d], next)[Len(states[d]) + 1] = next
              /\ Append(states[d], next) # <<>>
            BY <2>2, Appending
        <3>2. QED
            BY <2>3, <3>1 DEF Last
    <2>11. next.number # 1 \/ d \notin Skills
        <3>1. d \in Skills => row.number \in Nat \ {0}
            BY <1>2, <2>2
        <3>2. QED
            BY <2>6, <3>1
    <2>12. QED
        BY <2>6, <2>9, <2>10, <2>11
<1>6. QED
    BY <1>4, <1>5

\* The first version of a document.
LEMMA FirstVersion ==
    ASSUME StatesOK, NEW d \in Documents, ~Exists(d), NEW label, NEW files,
           NEW occurred, NEW now \in Clocks, Complete(d, label, files),
           Commit(d, Row(label, files, 1, occurred, now))
    PROVE  /\ Grows(d) /\ states'[d] # <<>> /\ Last(states'[d]).live
           /\ states'[d] # states[d] /\ Last(states'[d]).number = 1
<1> DEFINE row == Row(label, files, 1, occurred, now)
<1>1. states[d] = <<>> /\ states = [e \in Documents |-> states[e]]
    BY DEF Exists, StatesOK
<1>2. states' = [states EXCEPT ![d] = Append(states[d], row)] /\ states'[d] = Append(<<>>, row)
    BY <1>1 DEF Commit
<1>3. now \in Nat
    BY WorkspaceAssumption
<1>4. /\ IsRow(row) /\ row.label = label /\ row.files = files /\ row.number = 1 /\ row.live
    BY <1>3 DEF Row, IsRow
<1> HIDE DEF row
<1>5. GoodRow(d, row)
    BY <1>1, <1>4 DEF GoodRow
<1>6. Append(<<>>, row) = <<row>>
    OBVIOUS
<1>7. Last(states'[d]) = row /\ states'[d] # <<>>
    BY <1>2, <1>6 DEF Last
<1>8. QED
    BY <1>1, <1>2, <1>4, <1>5, <1>7 DEF Grows

LEMMA CreatedSkillGrows ==
    ASSUME StatesOK, NEW s \in Skills, NEW label, NEW files, NEW now \in Clocks,
           Complete(s, label, files), CreatedSkill(s, label, files, now)
    PROVE  /\ Grows(s) /\ states'[s] # <<>>
           /\ states'[s] # states[s] => Last(states'[s]).number = 1
<1>1. s \in Documents
    BY DEF Documents
<1>2. CASE NameOwner(label) = {}
    BY <1>1, <1>2, FirstVersion DEF CreatedSkill
<1>3. CASE NameOwner(label) # {}
    BY <1>3 DEF CreatedSkill, NameOwner, Exists, Grows
<1>4. QED
    BY <1>2, <1>3

-----------------------------------------------------------------------------

LEMMA AnchoredStays ==
    ASSUME StatesOK, NEW d \in Documents, Grows(d), NEW answer, Anchored(answer, states)
    PROVE  Anchored(answer, states')
<1>1. PICK i \in DOMAIN states[answer.doc] :
          LET row == states[answer.doc][i]
          IN  /\ answer.number = row.number /\ answer.at = row.at
              /\ answer.label = row.label /\ answer.files = row.files
              /\ answer.etag = ETag(answer.doc, row)
              /\ answer.doc \in Pages => row.live
    BY DEF Anchored
<1>2. answer.doc \in Documents
    BY DEF Anchored
<1>3. i \in DOMAIN states'[answer.doc] /\ states'[answer.doc][i] = states[answer.doc][i]
    BY <1>2, GrowsKeeps
<1>4. QED
    BY <1>1, <1>2, <1>3 DEF Anchored

LEMMA NewAnswer ==
    ASSUME StatesOK, NEW d \in Documents, Grows(d), states'[d] # <<>>,
           d \in Pages => Last(states'[d]).live,
           NEW created \in BOOLEAN, NEW overwritten
    PROVE  LET answer == Answer(d, created, overwritten)
           IN  /\ Anchored(answer, states') /\ answer.doc = d
               /\ answer.number = Last(states'[d]).number /\ answer.at \in Nat
               /\ answer.changed \in BOOLEAN /\ answer.created \in BOOLEAN
               /\ answer.changed <=> states'[d] # states[d]
               /\ answer.created <=> created /\ states'[d] # states[d]
               /\ answer.overwritten = overwritten
<1> DEFINE answer == Answer(d, created, overwritten)
           row == Last(states'[d])
<1>1. Len(states'[d]) \in DOMAIN states'[d] /\ row = states'[d][Len(states'[d])] /\ IsRow(row)
    BY LastVersion
<1>2. /\ answer.doc = d /\ answer.number = row.number /\ answer.at = row.at
      /\ answer.label = row.label /\ answer.files = row.files
      /\ answer.etag = ETag(d, row) /\ answer.overwritten = overwritten
    BY DEF Answer
<1>3. /\ answer.changed \in BOOLEAN /\ answer.created \in BOOLEAN
      /\ answer.changed <=> states'[d] # states[d]
      /\ answer.created <=> created /\ states'[d] # states[d]
    BY DEF Answer
<1> HIDE DEF answer, row
<1>4. Anchored(answer, states')
    BY <1>1, <1>2 DEF Anchored, row
<1>5. QED
    BY <1>1, <1>2, <1>3, <1>4 DEF answer, row, IsRow

\* Receipts that stay are still about a version of their document.
LEMMA ReceiptsStay ==
    ASSUME WorkspaceInv, NEW d \in Documents, Grows(d), NEW key \in DOMAIN receipts,
           key \in DOMAIN receipts', receipts'[key] = receipts[key]
    PROVE  ReceiptOK(receipts[key])'
<1>1. ReceiptOK(receipts[key]) /\ StatesOK
    BY DEF WorkspaceInv
<1>2. Anchored(receipts[key].answer, states')
    BY <1>1, AnchoredStays DEF ReceiptOK
<1>3. QED
    BY <1>1, <1>2 DEF ReceiptOK

\* A recorded answer keeps its audits when what is added is not about it.
LEMMA ReplaysStay ==
    ASSUME WorkspaceInv, NEW d \in Documents, Grows(d), NEW r \in DOMAIN replays,
           r \in DOMAIN replays', replays'[r] = replays[r],
           \/ audits' = audits
           \/ \E audit : /\ audits' = Append(audits, audit)
                         /\ audit.action # r[1] \/ audit.request # r
    PROVE  ReplayOK(r)'
<1>1. ReplayOK(r) /\ StatesOK /\ audits \in Seq(Range(audits))
    BY DEF WorkspaceInv, AuditsOK
<1>2. Anchored(replays[r].answer, states')
    BY <1>1, AnchoredStays DEF ReplayOK
<1>3. AuditsOf(r)' = AuditsOf(r)
    <2>1. CASE audits' = audits
        BY <2>1 DEF AuditsOf
    <2>2. CASE audits' # audits
        <3>1. PICK audit : /\ audits' = Append(audits, audit)
                           /\ audit.action # r[1] \/ audit.request # r
            BY <2>2
        <3>2. /\ Len(audits) \in Nat /\ DOMAIN audits = 1 .. Len(audits)
              /\ DOMAIN audits' = 1 .. Len(audits) + 1
              /\ audits'[Len(audits) + 1] = audit
              /\ \A i \in 1 .. Len(audits) : audits'[i] = audits[i]
            BY <1>1, <3>1, Appending
        <3>3. DOMAIN audits' = DOMAIN audits \cup {Len(audits) + 1}
            BY <3>2
        <3>4. QED
            BY <3>1, <3>2, <3>3 DEF AuditsOf
    <2>3. QED
        BY <2>1, <2>2
<1>4. Anchored(replays[r].answer, states)'
    BY <1>2
<1>5. replays'[r] = replays[r]
    OBVIOUS
<1>6. /\ replays[r].answer.changed => \E i : AuditsOf(r)' = {i}
      /\ ~replays[r].answer.changed => AuditsOf(r)' = {}
    <2>1. /\ replays[r].answer.changed => \E i : AuditsOf(r) = {i}
          /\ ~replays[r].answer.changed => AuditsOf(r) = {}
        BY <1>1, Zenon DEF ReplayOK
    <2> DEFINE old == AuditsOf(r)
               new == AuditsOf(r)'
    <2>2. new = old
        BY <1>3
    <2> HIDE DEF old, new
    <2>3. QED
        BY <2>1, <2>2, Zenon DEF old, new
<1>7. AnswerTyped(r, replays[r])'
    BY <1>1 DEF ReplayOK
<1>8. QED
    BY <1>4, <1>5, <1>6, <1>7, Zenon DEF ReplayOK

\* An Agent's answer is the only new record, and reports no overwrite.
OneReplay(request, s, seen) ==
    /\ UNCHANGED receipts
    /\ DOMAIN replays' \ DOMAIN replays = {request}
    /\ replays'[request].seen = seen
    /\ replays'[request].answer.doc = s
    /\ replays'[request].answer.overwritten = FALSE

LEMMA AgentKeeps ==
    ASSUME WorkspaceInv, NEW s \in Skills, NEW route \in {"create", "revise"}, NEW key,
           <<route, key>> \notin DOMAIN replays, NEW seen,
           Grows(s), states'[s] # <<>>,
           route = "create" /\ states'[s] # states[s] => Last(states'[s]).number = 1,
           Record(route, key, s, seen)
    PROVE  WorkspaceInv' /\ OneReplay(<<route, key>>, s, seen)
<1> DEFINE request == <<route, key>>
           answer == Answer(s, route = "create", FALSE)
           status == IF answer.created THEN 201 ELSE 200
           audit == [action |-> route, doc |-> s, at |-> answer.at, request |-> request]
           record == [answer |-> answer, seen |-> seen, status |-> status]
           creating == route = "create"
<1>1. /\ replays' = Stored(replays, request, record)
      /\ audits' = IF answer.changed THEN Append(audits, audit) ELSE audits
      /\ UNCHANGED receipts
    BY DEF Record
<1>2. s \in Documents /\ s \notin Pages
    BY WorkspaceAssumption DEF Documents
<1>3. StatesOK /\ AuditsOK /\ audits \in Seq(Range(audits))
    BY DEF WorkspaceInv, AuditsOK
<1>4. /\ Anchored(answer, states') /\ answer.doc = s
      /\ answer.number = Last(states'[s]).number
      /\ answer.changed \in BOOLEAN /\ answer.created \in BOOLEAN
      /\ answer.changed <=> states'[s] # states[s]
      /\ answer.created <=> route = "create" /\ states'[s] # states[s]
      /\ answer.overwritten = FALSE
    <2>1. creating \in BOOLEAN /\ (creating <=> route = "create")
        OBVIOUS
    <2> DEFINE silent == FALSE
    <2>2. answer = Answer(s, creating, silent) /\ silent = FALSE
        OBVIOUS
    <2> HIDE DEF creating, answer, silent
    <2>3. /\ Anchored(answer, states') /\ answer.doc = s
          /\ answer.number = Last(states'[s]).number
          /\ answer.changed \in BOOLEAN /\ answer.created \in BOOLEAN
          /\ answer.changed <=> states'[s] # states[s]
          /\ answer.created <=> creating /\ states'[s] # states[s]
          /\ answer.overwritten = silent
        BY <1>2, <1>3, <2>1, <2>2, NewAnswer
    <2>4. QED
        BY <2>1, <2>2, <2>3
<1>5. /\ request[1] = route /\ request = <<request[1], request[2]>>
      /\ status = IF answer.created THEN 201 ELSE 200
      /\ audit.action = route /\ audit.doc = s /\ audit.at = answer.at
      /\ audit.request = request
      /\ record.answer = answer /\ record.seen = seen /\ record.status = status
      /\ request \notin DOMAIN replays
    OBVIOUS
<1> HIDE DEF request, answer, status, audit, record
<1>6. /\ DOMAIN replays' = DOMAIN replays \cup {request}
      /\ replays'[request] = record
      /\ \A r \in DOMAIN replays : replays'[r] = replays[r]
      /\ request \notin DOMAIN replays
    BY <1>1, <1>5 DEF Stored
<1>7. /\ replays'[request].answer = answer /\ replays'[request].seen = seen
      /\ replays'[request].status = status
    BY <1>5, <1>6
<1>8. /\ Len(audits) \in Nat /\ DOMAIN audits = 1 .. Len(audits)
      /\ answer.changed =>
            /\ audits' = Append(audits, audit) /\ audits' \in Seq(Range(audits'))
            /\ DOMAIN audits' = 1 .. Len(audits) + 1
            /\ audits'[Len(audits) + 1] = audit
            /\ \A i \in 1 .. Len(audits) : audits'[i] = audits[i]
      /\ ~answer.changed => audits' = audits
    <2>1. Len(audits) \in Nat /\ DOMAIN audits = 1 .. Len(audits)
        BY <1>3
    <2>2. CASE answer.changed
        <3>1. audits' = Append(audits, audit)
            BY <1>1, <2>2
        <3>2. QED
            BY <1>3, <2>1, <2>2, <3>1, Appending
    <2>3. CASE ~answer.changed
        BY <1>1, <2>1, <2>3
    <2>4. QED
        BY <2>2, <2>3
<1>9. StatesOK'
    BY <1>2, <1>3, GrowsKeeps
<1>10. \A k \in DOMAIN receipts' : ReceiptOK(receipts[k])'
    BY <1>1, <1>2, ReceiptsStay
<1>11. ASSUME NEW r \in DOMAIN replays
       PROVE  ReplayOK(r)'
    <2>1. r # request
        BY <1>6
    <2>2. \/ audits' = audits
          \/ \E a : audits' = Append(audits, a) /\ (a.action # r[1] \/ a.request # r)
        BY <1>5, <1>8, <2>1
    <2>3. QED
        BY <1>2, <1>6, <2>2, ReplaysStay
\* No earlier audit is about this request.
<1>12. \A i \in DOMAIN audits : ~ (audits[i].action = route /\ audits[i].request = request)
    BY <1>3, <1>6 DEF AuditsOK
<1>13. /\ answer.changed => \E i : AuditsOf(request)' = {i}
       /\ ~answer.changed => AuditsOf(request)' = {}
    <2>1. AuditsOf(request)' = {i \in DOMAIN audits' : /\ audits'[i].action = route
                                                       /\ audits'[i].doc = s
                                                       /\ audits'[i].at = answer.at
                                                       /\ audits'[i].request = request}
        BY <1>4, <1>5, <1>7 DEF AuditsOf, request
    <2>2. CASE answer.changed
        <3>1. DOMAIN audits' = DOMAIN audits \cup {Len(audits) + 1}
            BY <1>8, <2>2
        <3>2. AuditsOf(request)' = {Len(audits) + 1}
            BY <1>5, <1>8, <1>12, <2>1, <2>2, <3>1
        <3>3. QED
            BY <2>2, <3>2
    <2>3. CASE ~answer.changed
        BY <1>8, <1>12, <2>1, <2>3
    <2>4. QED
        BY <2>2, <2>3
<1>14. ReplayOK(request)'
    <2>1. /\ request = <<request[1], request[2]>> /\ request[1] \in {"create", "revise"}
          /\ answer.doc \in Skills /\ Anchored(answer, states')
        BY <1>4, <1>5
    <2>2. request[1] = "create" =>
            /\ answer.changed => status = 201 /\ answer.number = 1
            /\ ~answer.changed => status = 200
        BY <1>4, <1>5
    <2>3. request[1] = "revise" => status = 200
        BY <1>4, <1>5
    <2>4. AnswerTyped(request, replays'[request])
        BY <1>7, <2>1, <2>2, <2>3 DEF AnswerTyped
    <2>5. AnswerTyped(request, replays[request])'
        BY <2>4 DEF request
    <2>6. QED
        BY <1>7, <1>13, <2>1, <2>5 DEF ReplayOK, request
<1>15. AuditsOK'
    <2>1. CASE answer.changed
        <3>1. ASSUME NEW i \in DOMAIN audits', audits'[i].action \in {"create", "revise"}
              PROVE  audits'[i].request \in DOMAIN replays'
            <4>1. CASE i = Len(audits) + 1
                BY <1>5, <1>6, <1>8, <2>1, <4>1
            <4>2. CASE i # Len(audits) + 1
                <5>1. i \in DOMAIN audits /\ audits'[i] = audits[i]
                    BY <1>8, <2>1, <4>2
                <5>2. QED
                    BY <1>3, <1>6, <3>1, <5>1 DEF AuditsOK
            <4>3. QED
                BY <4>1, <4>2
        <3>2. QED
            BY <1>8, <2>1, <3>1 DEF AuditsOK
    <2>2. CASE ~answer.changed
        BY <1>3, <1>6, <1>8, <2>2 DEF AuditsOK
    <2>3. QED
        BY <2>1, <2>2
<1>16. WorkspaceInv'
    <2>1. \A r \in DOMAIN replays' : ReplayOK(r)'
        BY <1>6, <1>11, <1>14
    <2>2. QED
        BY <1>9, <1>10, <1>15, <2>1 DEF WorkspaceInv
<1>17. OneReplay(request, s, seen)
    <2>1. DOMAIN replays' \ DOMAIN replays = {request}
        BY <1>6
    <2>2. QED
        BY <1>1, <1>4, <1>7, <2>1 DEF OneReplay
<1>18. QED
    BY <1>16, <1>17 DEF request

LEMMA BrowserKeeps ==
    ASSUME WorkspaceInv, NEW d \in Documents, NEW key, NewOperation(key),
           NEW created \in BOOLEAN, NEW overwritten, NEW seen, NEW later \in Clocks,
           Grows(d), states'[d] # <<>>, d \in Pages => Last(states'[d]).live,
           d \in Skills /\ states'[d] # states[d] => (created <=> Last(states'[d]).number = 1),
           created => ~overwritten,
           Settle(key, d, created, overwritten, seen, later)
    PROVE  /\ WorkspaceInv' /\ UNCHANGED replays
           /\ DOMAIN receipts' \ DOMAIN receipts = {key}
           /\ receipts'[key].seen = seen
           /\ receipts'[key].answer.doc = d
           /\ receipts'[key].answer.overwritten = overwritten
<1> DEFINE answer == Answer(d, created, overwritten)
           at == Later(later, answer.at)
           audit == [action |-> "workspace", doc |-> answer.doc, at |-> at, request |-> key]
           record == [answer |-> answer, seen |-> seen, at |-> at]
<1>1. /\ receipts' = Stored(receipts, key, record)
      /\ audits' = IF answer.changed THEN Append(audits, audit) ELSE audits
      /\ UNCHANGED replays
    BY DEF Settle, Audit, Remember
<1>2. StatesOK /\ AuditsOK /\ audits \in Seq(Range(audits))
    BY DEF WorkspaceInv, AuditsOK
<1>3. /\ Anchored(answer, states') /\ answer.doc = d
      /\ answer.number = Last(states'[d]).number /\ answer.at \in Nat
      /\ answer.changed \in BOOLEAN /\ answer.created \in BOOLEAN
      /\ answer.changed <=> states'[d] # states[d]
      /\ answer.created <=> created /\ states'[d] # states[d]
      /\ answer.overwritten = overwritten
    BY <1>2, NewAnswer
<1>4. later \in Nat
    BY WorkspaceAssumption
<1>5. at >= answer.at
    <2> HIDE DEF answer
    <2>1. QED
        BY <1>3, <1>4, LaterIsLater
<1>6. /\ audit.action = "workspace"
      /\ record.answer = answer /\ record.seen = seen /\ record.at = at
    OBVIOUS
<1> HIDE DEF answer, at, audit, record
<1>7. /\ DOMAIN receipts' = DOMAIN receipts \cup {key} /\ key \notin DOMAIN receipts
      /\ receipts'[key] = record
      /\ \A k \in DOMAIN receipts : receipts'[k] = receipts[k]
    BY <1>1 DEF NewOperation, Stored
<1>8. receipts'[key].answer = answer /\ receipts'[key].seen = seen /\ receipts'[key].at = at
    BY <1>6, <1>7
<1>9. /\ Len(audits) \in Nat /\ DOMAIN audits = 1 .. Len(audits)
      /\ answer.changed =>
            /\ audits' = Append(audits, audit) /\ audits' \in Seq(Range(audits'))
            /\ DOMAIN audits' = 1 .. Len(audits) + 1
            /\ audits'[Len(audits) + 1] = audit
            /\ \A i \in 1 .. Len(audits) : audits'[i] = audits[i]
      /\ ~answer.changed => audits' = audits
    <2>1. Len(audits) \in Nat /\ DOMAIN audits = 1 .. Len(audits)
        BY <1>2
    <2>2. CASE answer.changed
        <3>1. audits' = Append(audits, audit)
            BY <1>1, <2>2
        <3>2. QED
            BY <1>2, <2>1, <2>2, <3>1, Appending
    <2>3. CASE ~answer.changed
        BY <1>1, <2>1, <2>3
    <2>4. QED
        BY <2>2, <2>3
<1>10. StatesOK'
    BY <1>2, GrowsKeeps
<1>11. ReceiptOK(receipts[key])'
    <2>1. answer.doc \in Skills =>
            /\ answer.created <=> answer.changed /\ answer.number = 1
            /\ ~(answer.created /\ answer.overwritten)
        BY <1>3
    <2>2. answer.at <= at
        BY <1>5
    <2>3. QED
        BY <1>3, <1>8, <2>1, <2>2 DEF ReceiptOK
<1>12. \A k \in DOMAIN receipts' : ReceiptOK(receipts[k])'
    <2>1. \A k \in DOMAIN receipts : ReceiptOK(receipts[k])'
        BY <1>7, ReceiptsStay
    <2>2. QED
        BY <1>7, <1>11, <2>1
<1>13. \A r \in DOMAIN replays' : ReplayOK(r)'
    <2>1. SUFFICES ASSUME NEW r \in DOMAIN replays
                   PROVE  ReplayOK(r)'
        BY <1>1
    <2>2. audit.action # r[1]
        BY <1>6 DEF WorkspaceInv, ReplayOK, AnswerTyped
    <2>3. QED
        BY <1>1, <1>9, <2>2, ReplaysStay
<1>14. AuditsOK'
    <2>1. CASE answer.changed
        <3>1. ASSUME NEW i \in DOMAIN audits', audits'[i].action \in {"create", "revise"}
              PROVE  audits'[i].request \in DOMAIN replays'
            <4>1. i # Len(audits) + 1
                BY <1>6, <1>9, <2>1, <3>1
            <4>2. i \in DOMAIN audits /\ audits'[i] = audits[i]
                BY <1>9, <2>1, <4>1
            <4>3. QED
                BY <1>1, <1>2, <3>1, <4>2 DEF AuditsOK
        <3>2. QED
            BY <1>9, <2>1, <3>1 DEF AuditsOK
    <2>2. CASE ~answer.changed
        BY <1>1, <1>2, <1>9, <2>2 DEF AuditsOK
    <2>3. QED
        BY <2>1, <2>2
<1>15. WorkspaceInv'
    BY <1>10, <1>12, <1>13, <1>14 DEF WorkspaceInv
<1>16. QED
    BY <1>1, <1>3, <1>7, <1>8, <1>15

-----------------------------------------------------------------------------

\* What EditsSeenOrFlagged asks of a step.
RecordsTell ==
    LET new == {receipts'[key] : key \in DOMAIN receipts' \ DOMAIN receipts}
                  \cup {replays'[r] : r \in DOMAIN replays' \ DOMAIN replays}
    IN \A record \in new :
          record.seen # None =>
             record.answer.overwritten = (record.seen # Current(record.answer.doc))

LEMMA NothingRecorded ==
    ASSUME UNCHANGED <<replays, receipts>>
    PROVE  RecordsTell
BY DEF RecordsTell

LEMMA AgentStep ==
    ASSUME WorkspaceInv, NEW s \in Skills, NEW route \in {"create", "revise"}, NEW key,
           <<route, key>> \notin DOMAIN replays, NEW seen,
           Grows(s), states'[s] # <<>>,
           route = "create" /\ states'[s] # states[s] => Last(states'[s]).number = 1,
           Record(route, key, s, seen), seen = None \/ seen = Current(s)
    PROVE  WorkspaceInv' /\ RecordsTell
<1>1. /\ WorkspaceInv' /\ UNCHANGED receipts
      /\ DOMAIN replays' \ DOMAIN replays = {<<route, key>>}
      /\ replays'[<<route, key>>].seen = seen
      /\ replays'[<<route, key>>].answer.doc = s
      /\ replays'[<<route, key>>].answer.overwritten = FALSE
    <2>1. WorkspaceInv' /\ OneReplay(<<route, key>>, s, seen)
        BY AgentKeeps, ZenonT(60)
    <2>2. QED
        BY <2>1 DEF OneReplay
<1> DEFINE record == replays'[<<route, key>>]
           new == {receipts'[k] : k \in DOMAIN receipts' \ DOMAIN receipts}
                     \cup {replays'[r] : r \in DOMAIN replays' \ DOMAIN replays}
<1>2. new = {record}
    BY <1>1
<1>3. record.seen # None => record.answer.overwritten = (record.seen # Current(record.answer.doc))
    <2>1. record.seen = seen /\ record.answer.doc = s /\ record.answer.overwritten = FALSE
        BY <1>1
    <2> HIDE DEF record
    <2>2. record.seen # None => ~ (record.seen # Current(record.answer.doc))
        BY <2>1
    <2>3. QED
        BY <2>1, <2>2
<1> HIDE DEF record, new
<1>4. \A r \in new :
        r.seen # None => r.answer.overwritten = (r.seen # Current(r.answer.doc))
    BY <1>2, <1>3
<1>5. QED
    BY <1>1, <1>4 DEF RecordsTell, new

LEMMA BrowserStep ==
    ASSUME WorkspaceInv, NEW d \in Documents, NEW key, NewOperation(key),
           NEW created \in BOOLEAN, NEW overwritten \in BOOLEAN, NEW seen, NEW later \in Clocks,
           Grows(d), states'[d] # <<>>, d \in Pages => Last(states'[d]).live,
           d \in Skills /\ states'[d] # states[d] => (created <=> Last(states'[d]).number = 1),
           created => ~overwritten,
           Settle(key, d, created, overwritten, seen, later),
           seen # None => (overwritten <=> seen # Current(d))
    PROVE  WorkspaceInv' /\ RecordsTell
<1>1. /\ WorkspaceInv' /\ UNCHANGED replays
      /\ DOMAIN receipts' \ DOMAIN receipts = {key}
      /\ receipts'[key].seen = seen
      /\ receipts'[key].answer.doc = d
      /\ receipts'[key].answer.overwritten = overwritten
    BY BrowserKeeps
<1> DEFINE record == receipts'[key]
           new == {receipts'[k] : k \in DOMAIN receipts' \ DOMAIN receipts}
                     \cup {replays'[r] : r \in DOMAIN replays' \ DOMAIN replays}
<1>2. new = {record}
    BY <1>1
<1>3. record.seen # None => record.answer.overwritten = (record.seen # Current(record.answer.doc))
    <2>1. record.seen = seen /\ record.answer.doc = d /\ record.answer.overwritten = overwritten
        BY <1>1
    <2> HIDE DEF record
    <2>2. record.seen # None => (overwritten <=> record.seen # Current(record.answer.doc))
        BY <2>1
    <2>3. QED
        BY <2>1, <2>2
<1> HIDE DEF record, new
<1>4. \A r \in new :
        r.seen # None => r.answer.overwritten = (r.seen # Current(r.answer.doc))
    BY <1>2, <1>3
<1>5. QED
    BY <1>1, <1>4 DEF RecordsTell, new

\* A writer of Pages that leaves no answer here.
LEMMA OtherStep ==
    ASSUME WorkspaceInv, NEW p \in Pages, NEW row, Exists(p),
           row.label = Current(p).label, row.files = Current(p).files,
           IsRow(row), row.at > Current(p).at, Commit(p, row),
           UNCHANGED <<replays, receipts, audits>>
    PROVE  WorkspaceInv' /\ RecordsTell
<1>1. p \in Documents /\ p \notin Skills /\ StatesOK
    BY WorkspaceAssumption DEF Documents, WorkspaceInv
<1>2. /\ Complete(p, Current(p).label, Current(p).files) /\ IsRow(Current(p))
      /\ Current(p) = states[p][Len(states[p])]
      /\ \A i \in DOMAIN states[p] : states[p][i].at < Current(p).at \/ i = Len(states[p])
    BY <1>1, CurrentRow
<1>3. \A i \in DOMAIN states[p] : states[p][i].at < row.at
    <2>1. \A i \in DOMAIN states[p] : states[p][i].at \in Nat
        BY <1>1 DEF StatesOK, DocumentOK, IsRow
    <2>2. Current(p).at \in Nat /\ row.at \in Nat
        BY <1>2 DEF IsRow
    <2>3. QED
        BY <1>2, <2>1, <2>2
<1>4. GoodRow(p, row)
    BY <1>1, <1>2, <1>3 DEF GoodRow
<1>5. states' = [states EXCEPT ![p] = Append(states[p], row)]
    BY <1>1 DEF Commit
<1>6. Grows(p)
    BY <1>4, <1>5 DEF Grows
<1>7. \A key \in DOMAIN receipts : ReceiptOK(receipts[key])'
    BY <1>1, <1>6, ReceiptsStay
<1>8. \A r \in DOMAIN replays : ReplayOK(r)'
    BY <1>1, <1>6, ReplaysStay
<1>9. AuditsOK'
    BY DEF WorkspaceInv, AuditsOK
<1>10. StatesOK'
    BY <1>1, <1>6, GrowsKeeps
<1>11. WorkspaceInv'
    BY <1>7, <1>8, <1>9, <1>10 DEF WorkspaceInv
<1>12. QED
    BY <1>11, NothingRecorded

LEMMA SaveLatestKeeps ==
    ASSUME WorkspaceInv, NEW d \in Documents, NEW key, NEW label, NEW change,
           NEW seen \in Opened(d) \cup {None}, NEW now \in Clocks, NEW later \in Clocks,
           SaveLatest(d, key, label, change, seen, now, later)
    PROVE  WorkspaceInv' /\ RecordsTell
<1> DEFINE files == MergeFiles(Current(d).files, change)
           overwritten == Overwrites(d, seen)
<1>1. /\ NewOperation(key) /\ Exists(d) /\ Revisable(d, label, files)
      /\ Revised(d, label, files, now) /\ StatesOK
      /\ Settle(key, d, FALSE, overwritten, seen, later)
    BY DEF SaveLatest, WorkspaceInv
<1>2. overwritten \in BOOLEAN /\ (seen # None => (overwritten <=> seen # Current(d)))
    <2>1. overwritten \in BOOLEAN
        BY DEF Overwrites
    <2>2. seen # None => seen \in Range(states[d])
        BY DEF Opened
    <2>3. seen # None => (overwritten <=> seen # Current(d))
        BY <1>1, <2>2, SeenIsCurrent DEF Overwrites
    <2>4. QED
        BY <2>1, <2>3
<1> HIDE DEF files, overwritten
<1>3. /\ Grows(d) /\ states'[d] # <<>> /\ Last(states'[d]).live
      /\ states'[d] # states[d] /\ d \in Skills => Last(states'[d]).number # 1
    BY <1>1, RevisedGrows
<1> DEFINE created == FALSE
<1>4. created \in BOOLEAN /\ ~created /\ Settle(key, d, created, overwritten, seen, later)
    BY <1>1
<1> HIDE DEF created
<1>5. QED
    BY <1>1, <1>2, <1>3, <1>4, BrowserStep

LEMMA CreatePageKeeps ==
    ASSUME WorkspaceInv, NEW p \in Pages, NEW key, NEW label, NEW change, NEW occurred,
           NEW now \in Clocks, NEW later \in Clocks,
           CreatePage(p, key, label, change, occurred, now, later)
    PROVE  WorkspaceInv' /\ RecordsTell
<1> DEFINE files == MergeFiles(<<>>, change)
           at == IF occurred = None THEN now ELSE occurred
           created == TRUE
           overwritten == FALSE
<1>1. /\ NewOperation(key) /\ ~Exists(p) /\ Complete(p, label, files)
      /\ Commit(p, Row(label, files, 1, at, now)) /\ StatesOK
      /\ Settle(key, p, created, overwritten, None, later)
      /\ created \in BOOLEAN /\ overwritten \in BOOLEAN /\ ~overwritten
    BY DEF CreatePage, WorkspaceInv
<1> HIDE DEF files, at, created, overwritten
<1>2. p \in Documents /\ p \notin Skills
    BY WorkspaceAssumption DEF Documents
<1>3. Grows(p) /\ states'[p] # <<>> /\ Last(states'[p]).live
    BY <1>1, <1>2, FirstVersion
<1>4. QED
    BY <1>1, <1>2, <1>3, BrowserStep

LEMMA CreateSkillKeeps ==
    ASSUME WorkspaceInv, NEW s \in Skills, NEW key, NEW label, NEW change,
           NEW now \in Clocks, NEW later \in Clocks,
           CreateSkill(s, key, label, change, now, later)
    PROVE  WorkspaceInv' /\ RecordsTell
<1> DEFINE files == MergeFiles(<<>>, change)
           created == TRUE
           overwritten == FALSE
<1>1. /\ NewOperation(key) /\ Complete(s, label, files)
      /\ CreatedSkill(s, label, files, now) /\ StatesOK
      /\ Settle(key, s, created, overwritten, None, later)
      /\ created \in BOOLEAN /\ overwritten \in BOOLEAN /\ created /\ ~overwritten
    BY DEF CreateSkill, WorkspaceInv
<1> HIDE DEF files, created, overwritten
<1>2. s \in Documents /\ s \notin Pages
    BY WorkspaceAssumption DEF Documents
<1>3. /\ Grows(s) /\ states'[s] # <<>>
      /\ states'[s] # states[s] => Last(states'[s]).number = 1
    BY <1>1, CreatedSkillGrows
<1>4. QED
    BY <1>1, <1>2, <1>3, BrowserStep

LEMMA RestoreKeepsWorkspace ==
    ASSUME WorkspaceInv, NEW d \in Documents, NEW key, NEW number, NEW seen \in Opened(d),
           NEW now \in Clocks, NEW later \in Clocks,
           RestoreRevision(d, key, number, seen, now, later)
    PROVE  WorkspaceInv' /\ RecordsTell
<1> DEFINE created == FALSE
           overwritten == FALSE
<1>1. PICK old \in Range(states[d]) :
         /\ Revisable(d, old.label, old.files)
         /\ ETag(d, seen) = ETag(d, Current(d))
         /\ Revised(d, old.label, old.files, now)
    BY DEF RestoreRevision
<1>2. /\ NewOperation(key) /\ StatesOK
      /\ Settle(key, d, created, overwritten, seen, later)
      /\ created \in BOOLEAN /\ overwritten \in BOOLEAN /\ ~created /\ ~overwritten
    BY DEF RestoreRevision, WorkspaceInv
<1> HIDE DEF created, overwritten
<1>3. seen = Current(d)
    <2>1. seen \in Range(states[d]) /\ Exists(d)
        BY <1>1 DEF Opened, Revisable
    <2>2. QED
        BY <1>1, <1>2, <2>1, SeenIsCurrent
<1>4. /\ Grows(d) /\ states'[d] # <<>> /\ Last(states'[d]).live
      /\ states'[d] # states[d] /\ d \in Skills => Last(states'[d]).number # 1
    BY <1>1, <1>2, RevisedGrows
<1>5. QED
    BY <1>2, <1>3, <1>4, BrowserStep

LEMMA WorkspaceStep ==
    WorkspaceInv /\ [WorkspaceNext]_workspaceVars
        => WorkspaceInv' /\ [RecordsTell]_workspaceVars
<1> SUFFICES ASSUME WorkspaceInv, [WorkspaceNext]_workspaceVars
             PROVE  WorkspaceInv' /\ [RecordsTell]_workspaceVars
    OBVIOUS
<1>1. Pages \subseteq Documents /\ Skills \subseteq Documents /\ StatesOK
    BY DEF Documents, WorkspaceInv
<1>2. ASSUME NEW now \in Clocks, NEW s \in Skills, NEW key \in Keys, NEW label \in Labels,
             NEW files \in Snapshots, AgentCreateSkill(s, key, label, files, now)
      PROVE  WorkspaceInv' /\ RecordsTell
    <2>1. /\ <<"create", key>> \notin DOMAIN replays /\ Complete(s, label, files)
          /\ CreatedSkill(s, label, files, now) /\ Record("create", key, s, None)
        BY <1>2 DEF AgentCreateSkill
    <2>2. /\ Grows(s) /\ states'[s] # <<>>
          /\ states'[s] # states[s] => Last(states'[s]).number = 1
        BY <1>1, <2>1, CreatedSkillGrows
    <2>3. QED
        BY <2>1, <2>2, AgentStep
<1>3. ASSUME NEW now \in Clocks, NEW s \in Skills, NEW key \in Keys, NEW label \in Labels,
             NEW files \in Snapshots, NEW seen \in Opened(s),
             AgentReviseSkill(s, key, label, files, seen, now)
      PROVE  WorkspaceInv' /\ RecordsTell
    <2>1. /\ <<"revise", key>> \notin DOMAIN replays /\ Revisable(s, label, files)
          /\ ETag(s, seen) = ETag(s, Current(s))
          /\ Revised(s, label, files, now) /\ Record("revise", key, s, seen)
        BY <1>3 DEF AgentReviseSkill
    <2>2. Grows(s) /\ states'[s] # <<>>
        BY <1>1, <2>1, RevisedGrows
    <2>3. seen = Current(s)
        <3>1. seen \in Range(states[s]) /\ Exists(s)
            BY <2>1 DEF Opened, Revisable
        <3>2. QED
            BY <1>1, <2>1, <3>1, SeenIsCurrent
    <2>4. QED
        BY <2>1, <2>2, <2>3, AgentStep
<1>4. ASSUME NEW now \in Clocks, NEW p \in Pages, Exists(p),
             NEW row, row.label = Current(p).label, row.files = Current(p).files,
             row.number = Current(p).number,
             row = [label |-> row.label, files |-> row.files, number |-> row.number,
                    occurred |-> row.occurred, at |-> row.at, live |-> row.live],
             row.at = Later(now, Current(p).at + 1), Commit(p, row),
             UNCHANGED <<replays, receipts, audits>>
      PROVE  WorkspaceInv' /\ RecordsTell
    <2>1. Current(p).number \in Nat /\ Current(p).at \in Nat /\ now \in Nat
        BY <1>1, <1>4, CurrentRow, WorkspaceAssumption DEF IsRow
    <2>2. Later(now, Current(p).at + 1) \in Nat /\ Later(now, Current(p).at + 1) > Current(p).at
        <3>1. Current(p).at + 1 \in Nat
            BY <2>1
        <3>2. Later(now, Current(p).at + 1) \in Nat
              /\ Later(now, Current(p).at + 1) >= Current(p).at + 1
            BY <2>1, <3>1, LaterIsLater
        <3>3. QED
            BY <2>1, <3>2
    <2>3. IsRow(row) /\ row.at > Current(p).at
        BY <1>4, <2>1, <2>2 DEF IsRow
    <2>4. QED
        BY <1>4, <2>3, OtherStep
<1>5. ASSUME NEW now \in Clocks, NEW p \in Pages, NEW occurred \in Times,
             CorrectOccurrence(p, occurred, now)
      PROVE  WorkspaceInv' /\ RecordsTell
    <2> DEFINE old == Current(p)
               row == [old EXCEPT !.occurred = occurred, !.at = Later(now, old.at + 1)]
    <2>1. Exists(p) /\ Commit(p, row) /\ UNCHANGED <<replays, receipts, audits>>
        BY <1>5 DEF CorrectOccurrence
    <2>2. IsRow(old)
        BY <1>1, <2>1, CurrentRow
    <2> HIDE DEF old
    <2>3. /\ row.label = old.label /\ row.files = old.files /\ row.number = old.number
          /\ row.at = Later(now, old.at + 1)
          /\ row = [label |-> row.label, files |-> row.files, number |-> row.number,
                    occurred |-> row.occurred, at |-> row.at, live |-> row.live]
        <3>1. old = [label |-> old.label, files |-> old.files, number |-> old.number,
                     occurred |-> old.occurred, at |-> old.at, live |-> old.live]
            BY <2>2 DEF IsRow
        <3>2. row = [old EXCEPT !.occurred = occurred, !.at = Later(now, old.at + 1)]
            OBVIOUS
        <3> HIDE DEF row
        <3>3. row = [label |-> old.label, files |-> old.files, number |-> old.number,
                     occurred |-> occurred, at |-> Later(now, old.at + 1), live |-> old.live]
            BY <3>1, <3>2
        <3>4. QED
            BY <3>3
    <2> HIDE DEF row
    <2>4. QED
        BY <1>4, <2>1, <2>3 DEF old
<1>6. ASSUME NEW now \in Clocks, NEW p \in Pages, ChangeLifecycle(p, now)
      PROVE  WorkspaceInv' /\ RecordsTell
    <2> DEFINE old == Current(p)
               alive == ~ old.live
               row == [old EXCEPT !.live = alive, !.at = Later(now, old.at + 1)]
    <2>1. Exists(p) /\ Commit(p, row) /\ UNCHANGED <<replays, receipts, audits>>
        BY <1>6 DEF ChangeLifecycle
    <2>2. IsRow(old)
        BY <1>1, <2>1, CurrentRow
    <2> HIDE DEF old, alive
    <2>3. /\ row.label = old.label /\ row.files = old.files /\ row.number = old.number
          /\ row.at = Later(now, old.at + 1)
          /\ row = [label |-> row.label, files |-> row.files, number |-> row.number,
                    occurred |-> row.occurred, at |-> row.at, live |-> row.live]
        <3>1. old = [label |-> old.label, files |-> old.files, number |-> old.number,
                     occurred |-> old.occurred, at |-> old.at, live |-> old.live]
            BY <2>2 DEF IsRow
        <3>2. row = [old EXCEPT !.live = alive, !.at = Later(now, old.at + 1)]
            OBVIOUS
        <3> HIDE DEF row
        <3>3. row = [label |-> old.label, files |-> old.files, number |-> old.number,
                     occurred |-> old.occurred, at |-> Later(now, old.at + 1), live |-> alive]
            BY <3>1, <3>2
        <3>4. QED
            BY <3>3
    <2> HIDE DEF row
    <2>4. QED
        BY <1>4, <2>1, <2>3 DEF old
<1>7. ASSUME NEW now \in Clocks, NEW later \in Clocks, NEW key \in Keys, NEW change \in Changes,
             \/ \E p \in Pages, label \in {None, Entry} :
                   \/ \E occurred \in Times \cup {None} :
                        CreatePage(p, key, label, change, occurred, now, later)
                   \/ \E seen \in Opened(p) \cup {None} :
                        SavePage(p, key, label, change, seen, now, later)
             \/ \E s \in Skills, label \in Labels :
                   \/ CreateSkill(s, key, label, change, now, later)
                   \/ \E seen \in Opened(s) \cup {None} :
                        SaveSkill(s, key, label, change, seen, now, later)
      PROVE  WorkspaceInv' /\ RecordsTell
    <2>1. CASE \E p \in Pages, label \in {None, Entry} :
                  \E occurred \in Times \cup {None} :
                     CreatePage(p, key, label, change, occurred, now, later)
        BY <2>1, CreatePageKeeps
    <2>2. CASE \E d \in Documents, label \in Labels \cup {None, Entry} :
                  \E seen \in Opened(d) \cup {None} :
                     SaveLatest(d, key, label, change, seen, now, later)
        BY <2>2, SaveLatestKeeps
    <2>3. CASE \E s \in Skills, label \in Labels : CreateSkill(s, key, label, change, now, later)
        BY <2>3, CreateSkillKeeps
    <2>4. QED
        BY <1>1, <1>7, <2>1, <2>2, <2>3 DEF SavePage, SaveSkill
<1>8. ASSUME NEW now \in Clocks, NEW d \in Documents, NEW key \in Keys, NEW later \in Clocks,
             NEW number \in 1 .. MaxStates, NEW seen \in Opened(d),
             \/ RestorePageRevision(d, key, number, seen, now, later)
             \/ RestoreSkillRevision(d, key, number, seen, now, later)
      PROVE  WorkspaceInv' /\ RecordsTell
    <2>1. RestoreRevision(d, key, number, seen, now, later)
        BY <1>8 DEF RestorePageRevision, RestoreSkillRevision
    <2>2. QED
        BY <1>8, <2>1, RestoreKeepsWorkspace, Zenon
<1>9. CASE UNCHANGED workspaceVars
    <2>1. /\ UNCHANGED states /\ UNCHANGED replays
          /\ UNCHANGED receipts /\ UNCHANGED audits
        BY <1>9 DEF workspaceVars
    <2>2. StatesOK'
        BY <2>1 DEF WorkspaceInv, StatesOK, DocumentOK
    <2>3. \A key \in DOMAIN receipts' : ReceiptOK(receipts[key])'
        BY <2>1 DEF WorkspaceInv, ReceiptOK
    <2>4. ASSUME NEW r \in DOMAIN replays'
          PROVE  ReplayOK(r)'
        <3>1. ReplayOK(r)
            BY <2>1 DEF WorkspaceInv
        <3>2. AuditsOf(r)' = AuditsOf(r)
            BY <2>1 DEF AuditsOf
        <3>3. QED
            BY <2>1, <3>1, <3>2 DEF ReplayOK
    <2>5. AuditsOK'
        BY <2>1 DEF WorkspaceInv, AuditsOK
    <2>6. QED
        BY <1>9, <2>2, <2>3, <2>4, <2>5 DEF WorkspaceInv
<1>10. QED
    BY <1>2, <1>3, <1>5, <1>6, <1>7, <1>8, <1>9 DEF WorkspaceNext

LEMMA WorkspaceInvHolds == WorkspaceSpec => []WorkspaceInv
<1>1. WorkspaceInit => WorkspaceInv
    <2> SUFFICES ASSUME WorkspaceInit
                 PROVE  WorkspaceInv
        OBVIOUS
    <2>1. /\ states = [d \in Documents |-> <<>>] /\ replays = <<>> /\ receipts = <<>>
          /\ audits = <<>> /\ DOMAIN <<>> = {} /\ <<>> \in Seq({})
        BY DEF WorkspaceInit
    <2>2. Range(<<>>) = {}
        BY <2>1 DEF Range
    <2>3. StatesOK
        BY <2>1, <2>2 DEF StatesOK, DocumentOK
    <2>4. QED
        BY <2>1, <2>2, <2>3 DEF WorkspaceInv, AuditsOK
<1>2. QED
    BY <1>1, WorkspaceStep, PTL DEF WorkspaceSpec

\* A save of Agents or browser tabs that names the version it edited reports an
\* overwrite exactly when the document had moved on (admin/json_api/content.py,
\* skills.py, api/library_skill_routes.py).
THEOREM OverwritesAreReported == WorkspaceSpec => EditsSeenOrFlagged
<1>1. WorkspaceInv /\ [WorkspaceNext]_workspaceVars
        => [LET new == {receipts'[key] : key \in DOMAIN receipts' \ DOMAIN receipts}
                          \cup {replays'[r] : r \in DOMAIN replays' \ DOMAIN replays}
            IN \A record \in new :
                  record.seen # None =>
                     record.answer.overwritten = (record.seen # Current(record.answer.doc))
           ]_workspaceVars
    BY WorkspaceStep DEF RecordsTell
<1>2. QED
    BY <1>1, WorkspaceInvHolds, PTL DEF WorkspaceSpec, EditsSeenOrFlagged

LEMMA AnswerRepeats ==
    ASSUME StatesOK, NEW answer, Anchored(answer, states), answer.doc \in Skills
    PROVE  RepeatsVersion(answer)
<1> DEFINE s == answer.doc
<1>1. PICK i \in DOMAIN states[s] :
         /\ answer.number = states[s][i].number /\ answer.at = states[s][i].at
         /\ answer.label = states[s][i].label /\ answer.files = states[s][i].files
         /\ answer.etag = ETag(s, states[s][i])
    BY DEF Anchored
<1>2. answer.number = i
    BY <1>1 DEF StatesOK, DocumentOK, Documents
<1>3. QED
    BY <1>1, <1>2 DEF RepeatsVersion, SameContent

\* A Page's answer keeps exactly one version of the timeline that explains it.
LEMMA PageAnswerFound ==
    ASSUME StatesOK, NEW saved, Anchored(saved.answer, states),
           saved.answer.doc \in Pages, saved.answer.at <= saved.at
    PROVE  PageResponseAccepted(saved)
<1> DEFINE p == saved.answer.doc
           rows == {i \in DOMAIN states[p] :
                      /\ states[p][i].live
                      /\ states[p][i].number = saved.answer.number
                      /\ states[p][i].at <= saved.at
                      /\ ETag(p, states[p][i]) = saved.answer.etag}
<1>1. PICK i \in DOMAIN states[p] :
         /\ saved.answer.number = states[p][i].number
         /\ saved.answer.at = states[p][i].at
         /\ saved.answer.etag = ETag(p, states[p][i]) /\ states[p][i].live
    BY DEF Anchored
<1>2. \A j \in rows : j = i
    BY <1>1, ETagsTellApart DEF Documents
<1>3. i \in rows
    BY <1>1
<1> HIDE DEF rows
<1>4. rows = {i}
    BY <1>2, <1>3
<1>5. Cardinality(rows) = 1
    BY <1>4, FS_Singleton
<1>6. QED
    BY <1>5 DEF PageResponseAccepted, rows

LEMMA ReplayFound ==
    ASSUME StatesOK, NEW r \in DOMAIN replays, ReplayOK(r)
    PROVE  SkillReplayAccepted(r[1], r[2])
<1> DEFINE answer == replays[r].answer
<1>1. r = <<r[1], r[2]>> /\ RepeatsVersion(answer)
    BY AnswerRepeats DEF ReplayOK, AnswerTyped
<1>2. Cardinality(AuditsOf(r)) = IF answer.changed THEN 1 ELSE 0
    <2>1. CASE answer.changed
        <3>1. PICK i : AuditsOf(r) = {i}
            BY <2>1 DEF ReplayOK
        <3>2. QED
            BY <2>1, <3>1, FS_Singleton
    <2>2. CASE ~answer.changed
        BY <2>2, FS_EmptySet DEF ReplayOK
    <2>3. QED
        BY <2>1, <2>2
<1>3. IF r[1] = "create"
      THEN /\ replays[r].status = IF answer.changed THEN 201 ELSE 200
           /\ replays[r].status = 201 => answer.number = 1
      ELSE replays[r].status = 200
    BY DEF ReplayOK, AnswerTyped
<1>4. AuditsOf(r) = {i \in DOMAIN audits : audits[i].action = r[1]
                        /\ audits[i].doc = replays[r].answer.doc
                        /\ audits[i].at = replays[r].answer.at
                        /\ audits[i].request = r}
    BY DEF AuditsOf
<1> DEFINE route == r[1]
           key == r[2]
<1> HIDE DEF route, key
<1>5. r = <<route, key>>
    BY <1>1 DEF route, key
<1>6. SkillReplayAccepted(route, key)
    <2> DEFINE found == {i \in DOMAIN audits : audits[i].action = route
                             /\ audits[i].doc = replays[r].answer.doc
                             /\ audits[i].at = replays[r].answer.at
                             /\ audits[i].request = r}
    <2>1. Cardinality(found) = IF answer.changed THEN 1 ELSE 0
        BY <1>2, <1>4 DEF route
    <2> HIDE DEF found
    <2>2. /\ RepeatsVersion(answer)
          /\ IF route = "create"
             THEN /\ replays[r].status = IF answer.changed THEN 201 ELSE 200
                  /\ replays[r].status = 201 => answer.number = 1
             ELSE replays[r].status = 200
        BY <1>1, <1>3 DEF route
    <2>3. QED
        BY <1>5, <2>1, <2>2 DEF SkillReplayAccepted, found
<1>7. QED
    BY <1>6 DEF route, key

\* Whatever editors do, a backup of the workspace passes its own validators
\* (backup/workspace.py, library_skills/backup.py).
THEOREM WorkspaceAlwaysBacksUp == WorkspaceSpec => []WorkspaceBackupAccepts
<1>1. WorkspaceInv => WorkspaceBackupAccepts
    <2> SUFFICES ASSUME WorkspaceInv
                 PROVE  WorkspaceBackupAccepts
        OBVIOUS
    <2>1. StatesOK
        BY DEF WorkspaceInv
    <2>2. \A d \in Documents : GraphAccepted(d)
        BY <2>1 DEF StatesOK, DocumentOK, GraphAccepted
    <2>3. ASSUME NEW key \in DOMAIN receipts
          PROVE  IF receipts[key].answer.doc \in Pages THEN PageResponseAccepted(receipts[key])
                 ELSE SkillResponseAccepted(receipts[key])
        <3> DEFINE saved == receipts[key]
        <3>1. ReceiptOK(saved)
            BY DEF WorkspaceInv
        <3> HIDE DEF saved
        <3>2. Anchored(saved.answer, states) /\ saved.answer.at <= saved.at
            BY <3>1 DEF ReceiptOK
        <3>3. CASE saved.answer.doc \in Pages
            BY <2>1, <3>2, <3>3, PageAnswerFound DEF saved
        <3>4. CASE saved.answer.doc \notin Pages
            <4>1. saved.answer.doc \in Skills
                BY <3>2, <3>4 DEF Anchored, Documents
            <4>2. RepeatsVersion(saved.answer)
                BY <2>1, <3>2, <4>1, AnswerRepeats
            <4>3. /\ saved.answer.created = (saved.answer.changed /\ saved.answer.number = 1)
                  /\ ~(saved.answer.created /\ saved.answer.overwritten)
                BY <3>1, <4>1 DEF ReceiptOK
            <4>4. SkillResponseAccepted(saved)
                BY <3>2, <4>2, <4>3 DEF SkillResponseAccepted
            <4>5. QED
                BY <3>4, <4>4 DEF saved
        <3>5. QED
            BY <3>3, <3>4
    <2>4. \A r \in DOMAIN replays : SkillReplayAccepted(r[1], r[2])
        BY <2>1, ReplayFound DEF WorkspaceInv
    <2>5. QED
        BY <2>2, <2>3, <2>4 DEF WorkspaceBackupAccepts
<1>2. QED
    BY <1>1, WorkspaceInvHolds, PTL

=============================================================================
