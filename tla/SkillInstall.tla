---------------------------- MODULE SkillInstall ----------------------------
(***************************************************************************)
(* install_skill_package: a Skill package is installed into a local folder *)
(* its user also edits.  A plan is made from the folder, the receipt of    *)
(* the last installation and the new package; then files are unlinked,     *)
(* directories removed, files written, empty directories pruned and, last, *)
(* the receipt replaced.  The process may die between any two steps.  The  *)
(* user works in the folder between installations.                         *)
(***************************************************************************)
EXTENDS Naturals, Sequences, SequencesExt, Functions, TLC

CONSTANTS
    Packages,   \* complete versions of one Skill: path -> content
    UserPaths,  \* paths the user may write to
    UserWork,   \* content of the user's own
    Directory,  \* a directory on the disk
    Temporary,  \* name of an unfinished temporary file
    NoFile        \* no receipt, no installation under way

Parents(path) == {SubSeq(path, 1, n) : n \in 1..(Len(path) - 1)}

\* Names of files and directories in packages and of the user's.
PathNames == UNION {Range(path) : path \in UserPaths \cup UNION {DOMAIN p : p \in Packages}}

Paths == Seq(PathNames \cup {Temporary}) \ {<<>>}

\* An installation under way: its package, and the paths each step has left.
Installs == [package: Packages, unlink: SUBSET Paths, rmdir: SUBSET Paths,
             write: SUBSET Paths, prune: SUBSET Paths, written: SUBSET Paths]

\* What build_skill_snapshot accepts: no file is a directory of another one.  A
\* temporary file has a name of its own.
ASSUME PackageAssumption ==
    /\ UserPaths \subseteq Seq(PathNames) \ {<<>>}
    /\ Temporary \notin PathNames
    /\ \A package \in Packages :
          /\ DOMAIN package \subseteq Seq(PathNames) \ {<<>>}
          /\ package = [path \in DOMAIN package |-> package[path]]
          /\ \A path \in DOMAIN package :
                package[path] # Directory /\ Parents(path) \cap DOMAIN package = {}
    /\ UserWork # Directory /\ NoFile \notin Packages /\ NoFile \notin Installs

VARIABLES
    disk,       \* the folder: path -> content or Directory
    receipt,    \* files of the last completed installation, or NoFile
    install,    \* the installation under way, or NoFile
    pristine    \* history: no user has touched the folder and no process died

installVars == <<disk, receipt, install, pristine>>

InstallInit ==
    /\ disk = <<>>
    /\ receipt = NoFile
    /\ install = NoFile
    /\ pristine = TRUE

IsFile(path) == path \in DOMAIN disk /\ disk[path] # Directory

IsDirectory(path) == path \in DOMAIN disk /\ disk[path] = Directory

Below(path) == {q \in DOMAIN disk : IsPrefix(path, q)}

IsEmpty(path) == Below(path) = {path}

Without(paths) == Restrict(disk, DOMAIN disk \ paths)

With(path, content) ==
    [q \in DOMAIN disk \cup Parents(path) \cup {path} |->
        IF q = path THEN content ELSE IF q \in Parents(path) THEN Directory ELSE disk[q]]

-----------------------------------------------------------------------------
(* The plan                                                                *)

Tracked == IF receipt = NoFile THEN {} ELSE DOMAIN receipt

PackageDirectories == UNION {Parents(path) : path \in Tracked}

Obsolete(package) == Tracked \ DOMAIN package

\* Every file of the last installation is still what was installed.
LocallyUnchanged == \A path \in Tracked : IsFile(path) /\ disk[path] = receipt[path]

\* _directory_plan: everything at and below it came with the last package and leaves.
Replaceable(path, package) ==
    \A q \in Below(path) : IF IsDirectory(q) THEN q \in PackageDirectories
                           ELSE q \in Obsolete(package)

\* _target: no file that stays is in the way of a directory.
Reachable(path, package) ==
    \A parent \in Parents(path) : IsFile(parent) => parent \in Obsolete(package)

\* Mutant: a file that is not the package's is not protected.
AcceptsForeignFiles(package) ==
    /\ LocallyUnchanged
    /\ \A path \in DOMAIN package :
         Reachable(path, package) /\ (IsDirectory(path) => Replaceable(path, package))

Accepts(package) ==
    /\ LocallyUnchanged
    /\ \A path \in DOMAIN package :
         /\ Reachable(path, package)
         /\ IsDirectory(path) => Replaceable(path, package)
         /\ IsFile(path) => path \in Tracked

RemovedDirectories(package) ==
    {q \in DOMAIN disk : IsDirectory(q) /\ \E path \in DOMAIN package : IsPrefix(path, q)}

-----------------------------------------------------------------------------
(* The steps of an installation                                            *)

\* A refused plan, and a package that is installed already, change nothing.
Begin(package) ==
    /\ install = NoFile /\ Accepts(package) /\ receipt # package
    /\ install' = [package |-> package, unlink |-> Obsolete(package),
                   rmdir |-> RemovedDirectories(package), write |-> DOMAIN package,
                   prune |-> PackageDirectories, written |-> {}]
    /\ UNCHANGED <<disk, receipt, pristine>>

Unlink(path) ==
    /\ install # NoFile /\ path \in install.unlink
    /\ disk' = Without({path})
    /\ install' = [install EXCEPT !.unlink = @ \ {path}]
    /\ UNCHANGED <<receipt, pristine>>

Deepest(path, paths) == path \in paths /\ \A q \in paths : Len(q) <= Len(path)

RemovePlanned(path) ==
    /\ install # NoFile /\ install.unlink = {} /\ Deepest(path, install.rmdir)
    /\ IsEmpty(path)
    /\ disk' = Without({path})
    /\ install' = [install EXCEPT !.rmdir = @ \ {path}]
    /\ UNCHANGED <<receipt, pristine>>

Writing == install # NoFile /\ install.unlink = {} /\ install.rmdir = {}

\* _write: parents, a temporary file beside the target, os.replace.
WriteFile(path) ==
    /\ Writing /\ path \in install.write
    /\ ~IsDirectory(path)
    /\ disk' = With(path, install.package[path])
    /\ install' = [install EXCEPT !.write = @ \ {path}, !.written = @ \cup {path}]
    /\ UNCHANGED <<receipt, pristine>>

\* Mutant: retired directories are left behind.
PruneNothing(path) ==
    /\ Writing /\ install.write = {} /\ Deepest(path, install.prune)
    /\ install' = [install EXCEPT !.prune = @ \ {path}]
    /\ UNCHANGED <<disk, receipt, pristine>>

Prune(path) ==
    /\ Writing /\ install.write = {} /\ Deepest(path, install.prune)
    /\ disk' = IF IsDirectory(path) /\ IsEmpty(path) THEN Without({path}) ELSE disk
    /\ install' = [install EXCEPT !.prune = @ \ {path}]
    /\ UNCHANGED <<receipt, pristine>>

WriteReceipt ==
    /\ Writing /\ install.write = {} /\ install.prune = {}
    /\ receipt' = install.package
    /\ install' = NoFile
    /\ UNCHANGED <<disk, pristine>>

\* The process dies, possibly with a temporary file not yet in place.
Killed ==
    /\ install # NoFile
    /\ \/ UNCHANGED disk
       \/ \E path \in install.write :
            Writing /\ disk' = With(Append(Front(path), Temporary), UserWork)
    /\ install' = NoFile
    /\ pristine' = FALSE
    /\ UNCHANGED receipt

-----------------------------------------------------------------------------
(* The user                                                                *)

UserWrites(path) ==
    /\ install = NoFile
    /\ ~IsDirectory(path) /\ \A parent \in Parents(path) : ~IsFile(parent)
    /\ disk' = With(path, UserWork)
    /\ pristine' = FALSE
    /\ UNCHANGED <<receipt, install>>

UserDeletes(path) ==
    /\ install = NoFile /\ IsFile(path)
    /\ disk' = Without({path})
    /\ pristine' = FALSE
    /\ UNCHANGED <<receipt, install>>

InstallNext ==
    \/ \E package \in Packages : Begin(package)
    \/ \E path \in DOMAIN disk \cup UNION {DOMAIN package : package \in Packages} :
         \/ Unlink(path) \/ RemovePlanned(path) \/ WriteFile(path) \/ Prune(path)
         \/ UserDeletes(path)
    \/ WriteReceipt
    \/ Killed
    \/ \E path \in UserPaths : UserWrites(path)

InstallSpec == InstallInit /\ [][InstallNext]_installVars

-----------------------------------------------------------------------------

\* An installation removes or replaces a file only if it is, byte for byte, the
\* one the receipt recorded, or one it wrote itself: the user's own work and his
\* changes survive every installation, also one after a process died half way.
TouchesOnlyItsOwn ==
    [][(install # NoFile) =>
         \A path \in DOMAIN disk :
            IsFile(path) /\ (path \notin DOMAIN disk' \/ disk'[path] # disk[path])
              => \/ path \in Tracked /\ disk[path] = receipt[path]
                 \/ path \in install.written
      ]_installVars

\* As long as nobody else touched the folder, it holds exactly the package the
\* receipt names, with no directory left over, and no version is ever refused.
PristineInstallsUpdate ==
    (pristine /\ install = NoFile) =>
       /\ receipt # NoFile => Restrict(disk, {path \in DOMAIN disk : IsFile(path)}) = receipt
       /\ \A path \in DOMAIN disk : IsDirectory(path) => path \in PackageDirectories
       /\ \A package \in Packages : Accepts(package)

=============================================================================
