--------------------------- MODULE MCInstallation ---------------------------
(* What whoever runs the installation does: the administrator's identity    *)
(* with the onboarding tickets, and backups.  The two share no state and no *)
(* property spans them, so a behaviour follows one of them (focus).         *)
EXTENDS MasterIdentity, BackupBundle, TLC

CONSTANTS p1, p2, r1, r2,
          MaxStarted   \* bound on the backup commands that run

VARIABLE focus

\* Two backups of two versions, two restores of one of them.
MCVersionOf == (p1 :> 1) @@ (p2 :> 2) @@ (r1 :> 1) @@ (r2 :> 1)

Started == {w \in Work : step[w] # "start"}

MCInit == IdentityInit /\ BundleInit /\ focus \in {"identity", "backup"}

MCNext ==
    /\ UNCHANGED focus
    /\ \/ focus = "identity" /\ IdentityNext /\ UNCHANGED bundleVars
       \/ /\ focus = "backup" /\ BundleNext /\ UNCHANGED identityVars
          /\ Cardinality(Started') <= MaxStarted

MCSpec == MCInit /\ [][MCNext]_<<identityVars, bundleVars, focus>>
=============================================================================
