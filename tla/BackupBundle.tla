---------------------------- MODULE BackupBundle ----------------------------
(***************************************************************************)
(* patchouli-backup: creating a bundle from the live database and restoring *)
(* one into a new destination.  Creators race for one bundle path and      *)
(* restorers for one destination; every file operation may fail, an        *)
(* operation may be interrupted or die between any two of them, and        *)
(* somebody else may put files into the bundle directory, under any name   *)
(* that is free, or at the destination.                                    *)
(*                                                                         *)
(* Files are hard links: what a creator wrote into its staging directory   *)
(* appears in the bundle by a second link, so the bundle's files have one  *)
(* link only after the staging directory was cleared.                      *)
(***************************************************************************)
EXTENDS Naturals, FiniteSets

CONSTANTS
    Creators,   \* runs of "patchouli-backup create" for the bundle path
    Restorers,  \* runs of "patchouli-backup restore" for the destination
    VersionOf,  \* application version of each of them
    Absent,     \* a path that does not exist
    Somebody    \* whoever else writes into the directories

ASSUME BackupAssumption ==
    /\ Creators \cap Restorers = {}
    /\ DOMAIN VersionOf = Creators \cup Restorers
    /\ Somebody \notin Creators \cup Restorers

Names == {"database", "manifest"}       \* _BUNDLE_NAMES
Work == Creators \cup Restorers

\* What somebody else may put into the directory: a regular file under one of
\* the two names, or "other": a third name, or no regular file.
ForeignNames == Names \cup {"other"}

\* The bundle directory, with the names its owner linked and those somebody
\* else took, and the destination, when they exist.
Bundles == [owner: Creators, entries: SUBSET Names, foreign: SUBSET ForeignNames]
Targets == [owner: Restorers \cup {Somebody}, of: Creators \cup {Somebody}]
ASSUME AbsentAssumption == Absent \notin Bundles \cup Targets

VARIABLES
    step,       \* operation -> the next thing it does
    temp,       \* operation -> entries of its mkdtemp directory, or Absent
    data,       \* operation -> state of the database file it writes
    bundle,     \* the bundle directory: owner, own entries, foreign entries
    source,     \* restore -> the creator whose manifest it read
    target,     \* the destination file: owner, and whose database it holds
    scanned     \* operation -> leaves the running _cleanup still removes

bundleVars == <<step, temp, data, bundle, source, target, scanned>>

BundleInit ==
    /\ step = [w \in Work |-> "start"]
    /\ temp = [w \in Work |-> Absent]
    /\ data = [w \in Work |-> "none"]
    /\ bundle = Absent
    /\ source = [r \in Restorers |-> Absent]
    /\ target = Absent
    /\ scanned = [w \in Work |-> {}]

Goto(w, s) == step' = [step EXCEPT ![w] = s]

-----------------------------------------------------------------------------
(* What a reader accepts.                                                  *)

InBundle(p) == IF bundle # Absent /\ bundle.owner = p THEN bundle.entries ELSE {}
InTemp(w) == IF temp[w] # Absent THEN temp[w] ELSE {}

\* _bounded_directory_names: a name does not tell who put the file there.
Listing == bundle.entries \cup bundle.foreign

\* st_nlink of the files creator p wrote
SingleLink(p, name) == ~ (name \in InBundle(p) /\ name \in InTemp(p))

\* parse_manifest: the whole canonical document, as WriteManifest left it; no
\* file of somebody else's parses and binds the bytes of this database.
ParsesManifest == "manifest" \in bundle.entries

\* _load_bundle: exactly the two files, each with one link, and a manifest
\* that parses and binds the bytes of the database.
Loads ==
    /\ bundle # Absent
    /\ bundle.entries = Names /\ Listing = Names
    /\ \A name \in Names : SingleLink(bundle.owner, name)
    /\ ParsesManifest

\* require_compatible_manifest: application version and schema are exact.
Compatible(r) == VersionOf[bundle.owner] = VersionOf[r]

\* verify_backup_bundle; validate_database changes nothing.
Verified(r) == Loads /\ Compatible(r) /\ data[bundle.owner] = "valid"

-----------------------------------------------------------------------------
(* create_backup                                                           *)

\* _reject_existing_destination, mkdtemp
StartCreate(p) ==
    /\ step[p] = "start" /\ p \in Creators
    /\ bundle = Absent
    /\ temp' = [temp EXCEPT ![p] = {}]
    /\ Goto(p, "copy")
    /\ UNCHANGED <<data, bundle, source, target, scanned>>

\* sqlite3.connect creates the file, _sqlite_backup fills it.
OpenCopy(p) ==
    /\ step[p] = "copy" /\ data[p] = "none"
    /\ temp' = [temp EXCEPT ![p] = @ \cup {"database"}]
    /\ data' = [data EXCEPT ![p] = "partial"]
    /\ UNCHANGED <<step, bundle, source, target, scanned>>

SqliteBackup(p) ==
    /\ step[p] = "copy" /\ data[p] = "partial"
    /\ data' = [data EXCEPT ![p] = "copied"]
    /\ Goto(p, "reset")
    /\ UNCHANGED <<temp, bundle, source, target, scanned>>

\* The search projection is emptied and the journal mode set to DELETE.
ResetSearch(p) ==
    /\ step[p] = "reset"
    /\ data' = [data EXCEPT ![p] = "portable"]
    /\ Goto(p, "validate")
    /\ UNCHANGED <<temp, bundle, source, target, scanned>>

\* _require_search_projection_reset
Portable(p) == data[p] = "portable"

\* validate_database accepts a portable copy of a sound database.
Validate(p) ==
    /\ step[p] = "validate" /\ Portable(p)
    /\ data' = [data EXCEPT ![p] = "valid"]
    /\ Goto(p, "seal")
    /\ UNCHANGED <<temp, bundle, source, target, scanned>>

\* _write_new_file, _flush_file of the manifest
WriteManifest(p) ==
    /\ step[p] = "seal"
    /\ temp' = [temp EXCEPT ![p] = @ \cup {"manifest"}]
    /\ Goto(p, "mkdir")
    /\ UNCHANGED <<data, bundle, source, target, scanned>>

\* destination.mkdir fails when the path exists.
NewDirectory(p) ==
    /\ bundle = Absent
    /\ bundle' = [owner |-> p, entries |-> {}, foreign |-> {}]

MakeBundle(p) ==
    /\ step[p] = "mkdir"
    /\ NewDirectory(p)
    /\ Goto(p, "link database")
    /\ UNCHANGED <<temp, data, source, target, scanned>>

\* os.link raises FileExistsError where a name is taken (Fail).
Link(name) ==
    /\ name \notin Listing
    /\ bundle' = [bundle EXCEPT !.entries = @ \cup {name}]

LinkDatabase(p) ==
    /\ step[p] = "link database"
    /\ Link("database")
    /\ Goto(p, "link manifest")
    /\ UNCHANGED <<temp, data, source, target, scanned>>

LinkManifest(p) ==
    /\ step[p] = "link manifest"
    /\ Link("manifest")
    /\ Goto(p, "list")
    /\ UNCHANGED <<temp, data, source, target, scanned>>

\* _bounded_directory_names(destination, 3) = _BUNDLE_NAMES
CheckPublished(p) ==
    /\ step[p] = "list"
    /\ Goto(p, IF Listing = Names THEN "clear" ELSE "remove bundle")
    /\ UNCHANGED <<temp, data, bundle, source, target, scanned>>

-----------------------------------------------------------------------------
(* restore_backup                                                          *)

\* _load_bundle, the checks of the bundle and of the destination, mkdtemp
StartRestore(r) ==
    /\ step[r] = "start" /\ r \in Restorers
    /\ Verified(r)
    /\ target = Absent
    /\ temp' = [temp EXCEPT ![r] = {}]
    /\ source' = [source EXCEPT ![r] = bundle.owner]
    /\ Goto(r, "copy bundle")
    /\ UNCHANGED <<data, bundle, target, scanned>>

\* _open_verified_read of the bundle's database
Readable == /\ bundle # Absent /\ "database" \in Listing
            /\ SingleLink(bundle.owner, "database")

\* Whose database stands in the bundle directory.
Contained == IF "database" \in bundle.entries THEN bundle.owner ELSE Somebody

CopyPart(r) ==
    /\ step[r] = "copy bundle" /\ data[r] = "none" /\ Readable
    /\ temp' = [temp EXCEPT ![r] = {"database"}]
    /\ data' = [data EXCEPT ![r] = Contained]
    /\ UNCHANGED <<step, bundle, source, target, scanned>>

\* Mutant: the bytes are not compared with the manifest again.
UnchangedUnchecked(r) == Readable

\* The source and the copy have the size and the hash of the manifest.
Unchanged(r) == Readable /\ Contained = source[r] /\ data[r] = source[r]

CopyVerified(r) ==
    /\ step[r] = "copy bundle" /\ data[r] # "none"
    /\ Unchanged(r)
    /\ Goto(r, "link target")
    /\ UNCHANGED <<temp, data, bundle, source, target, scanned>>

\* os.link fails when the destination exists.
Placed(r) ==
    /\ target = Absent
    /\ target' = [owner |-> r, of |-> data[r]]

LinkTarget(r) ==
    /\ step[r] = "link target"
    /\ Placed(r)
    /\ Goto(r, "identify")
    /\ UNCHANGED <<temp, data, bundle, source, scanned>>

\* published_identity is known from here on.
IdentifyTarget(r) ==
    /\ step[r] = "identify" /\ target # Absent
    /\ Goto(r, "clear")
    /\ UNCHANGED <<temp, data, bundle, source, target, scanned>>

-----------------------------------------------------------------------------
(* Failures, and _cleanup of a directory: look, unlink what was seen, rmdir.*)

Publishing == {"link database", "link manifest", "list"}
Preparing == {"copy", "reset", "validate", "seal", "mkdir",
              "copy bundle", "link target", "identify"}

\* A command whose first checks fail changes nothing.
Refuse(w) ==
    /\ step[w] = "start"
    /\ Goto(w, "failed")
    /\ UNCHANGED <<temp, data, bundle, source, target, scanned>>

\* An operating system error, a cancellation, a timeout, a corrupt database:
\* the staging directory is cleared, and the bundle that was begun first.
Fail(w) ==
    /\ step[w] \in Preparing \cup Publishing
    /\ Goto(w, IF step[w] \in Publishing THEN "remove bundle" ELSE "clear failed")
    /\ UNCHANGED <<temp, data, bundle, source, target, scanned>>

\* KeyboardInterrupt is not caught by _publish_bundle.
Interrupt(w) ==
    /\ step[w] \in Publishing
    /\ Goto(w, "clear failed")
    /\ UNCHANGED <<temp, data, bundle, source, target, scanned>>

Clearing == {"clear", "clear failed"}

\* Mutant: the directory is removed with everything in it.
KnownAnything(names) == TRUE

\* names.issubset(expected_names), and each is a regular file.
Known(names) == names \subseteq Names

AfterClear(w) == IF step[w] = "clear" THEN "done" ELSE "failed"

\* A directory that is gone already was cleaned.
ClearTemp(w) ==
    /\ step[w] \in Clearing
    /\ IF temp[w] = {} THEN temp' = [temp EXCEPT ![w] = Absent] /\ Goto(w, AfterClear(w))
       ELSE /\ \E name \in temp[w] : temp' = [temp EXCEPT ![w] = @ \ {name}]
            /\ UNCHANGED step
    /\ UNCHANGED <<data, bundle, source, target, scanned>>

\* The fourth attempt failed: what was published is withdrawn.
ClearFails(w) ==
    /\ step[w] \in Clearing
    /\ Goto(w, IF step[w] = "clear failed" THEN "failed"
               ELSE IF w \in Creators THEN "remove bundle" ELSE "remove target")
    /\ UNCHANGED <<temp, data, bundle, source, target, scanned>>

\* _cleanup(bundle) looks at all names before it removes the first.  A file of
\* somebody else's under an expected name is taken for one of its own.
ScanBundle(p) ==
    /\ step[p] = "remove bundle"
    /\ IF bundle # Absent /\ bundle.owner = p /\ Known(Listing)
       THEN /\ scanned' = [scanned EXCEPT ![p] = Listing]
            /\ Goto(p, "unlink")
       ELSE Goto(p, "clear failed") /\ UNCHANGED scanned
    /\ UNCHANGED <<temp, data, bundle, source, target>>

\* child.unlink(), if the file is still the one that was seen
UnlinkEntry(p) ==
    /\ step[p] = "unlink" /\ bundle # Absent
    /\ \E name \in scanned[p] :
         /\ bundle' = [bundle EXCEPT !.entries = @ \ {name}, !.foreign = @ \ {name}]
         /\ scanned' = [scanned EXCEPT ![p] = @ \ {name}]
    /\ UNCHANGED <<step, temp, data, source, target>>

\* rmdir fails when an entry appeared meanwhile, and the next attempt looks
\* again.
RemoveDirectory(p) ==
    /\ step[p] = "unlink" /\ scanned[p] = {} /\ bundle # Absent
    /\ IF Listing = {} THEN bundle' = Absent /\ Goto(p, "clear failed")
       ELSE UNCHANGED bundle /\ Goto(p, "remove bundle")
    /\ UNCHANGED <<temp, data, source, target, scanned>>

\* An operating system error starts another attempt or, on the fourth one, ends
\* the cleanup; the attempts are not counted.
UnlinkFails(p) ==
    /\ step[p] \in {"remove bundle", "unlink"}
    /\ Goto(p, "clear failed") \/ Goto(p, "remove bundle")
    /\ UNCHANGED <<temp, data, bundle, source, target, scanned>>

\* _unlink_owned_leaf compares the identity of the file.
RemoveTarget(r) ==
    /\ step[r] = "remove target"
    /\ target' = IF target # Absent /\ target.owner = r THEN Absent ELSE target
    /\ Goto(r, "failed")
    /\ UNCHANGED <<temp, data, bundle, source, scanned>>

\* main: the outcome is written to standard output, which may fail too.
Deliver(w) ==
    /\ step[w] = "done"
    /\ Goto(w, "reported") \/ Goto(w, "unreported")
    /\ UNCHANGED <<temp, data, bundle, source, target, scanned>>

Completed(w) == step[w] \in {"done", "reported", "unreported"}

\* The process is killed; what it wrote stays.
Die(w) ==
    /\ ~ Completed(w) /\ step[w] \notin {"start", "failed", "dead"}
    /\ Goto(w, "dead")
    /\ UNCHANGED <<temp, data, bundle, source, target, scanned>>

\* Somebody writes into the bundle directory under a free name, one of the two
\* that the command uses included, or creates the destination.
ForeignEntry ==
    /\ bundle # Absent
    /\ \E name \in ForeignNames \ Listing :
         bundle' = [bundle EXCEPT !.foreign = @ \cup {name}]
    /\ UNCHANGED <<step, temp, data, source, target, scanned>>

ForeignTarget ==
    /\ target = Absent
    /\ target' = [owner |-> Somebody, of |-> Somebody]
    /\ UNCHANGED <<step, temp, data, bundle, source, scanned>>

-----------------------------------------------------------------------------

BundleNext ==
    \/ \E w \in Work : Refuse(w) \/ Fail(w) \/ Interrupt(w) \/ Die(w) \/ Deliver(w)
                       \/ ClearTemp(w) \/ ClearFails(w)
    \/ \E p \in Creators :
         \/ StartCreate(p) \/ OpenCopy(p) \/ SqliteBackup(p) \/ ResetSearch(p)
         \/ Validate(p) \/ WriteManifest(p) \/ MakeBundle(p) \/ LinkDatabase(p)
         \/ LinkManifest(p) \/ CheckPublished(p) \/ ScanBundle(p)
         \/ UnlinkEntry(p) \/ RemoveDirectory(p) \/ UnlinkFails(p)
    \/ \E r \in Restorers :
         \/ StartRestore(r) \/ CopyPart(r) \/ CopyVerified(r) \/ LinkTarget(r)
         \/ IdentifyTarget(r) \/ RemoveTarget(r)
    \/ ForeignEntry \/ ForeignTarget

BundleSpec == BundleInit /\ [][BundleNext]_bundleVars

-----------------------------------------------------------------------------
(* Properties.                                                             *)

\* Whatever fails, dies or races: a bundle that a reader accepts holds a
\* validated database; the bundle a successful create reported stays loadable
\* unless somebody else adds to it; the destination that a restore placed is
\* a copy of one validated database of its own version.
WholeOrNothing ==
    /\ Loads => data[bundle.owner] = "valid"
    /\ \A p \in Creators : Completed(p) =>
          /\ bundle # Absent
          /\ bundle.owner = p /\ bundle.entries = Names
          /\ bundle.foreign = {} => Loads
    /\ target # Absent /\ target.owner # Somebody =>
          /\ target.of \in Creators /\ data[target.of] = "valid"
          /\ VersionOf[target.of] = VersionOf[target.owner]
    /\ \A r \in Restorers : Completed(r) => target # Absent /\ target.owner = r

\* A creator that failed is removing the directory he made.
Withdrawing(p) == p \in Creators /\ step[p] = "unlink"

\* Nobody's file is removed from the destination.  Of what somebody else put
\* into a bundle directory, only a file that bears one of the two names of a
\* bundle's files can go, and only while the creator of that directory
\* withdraws it after his own command failed: the loser of a race, a restore, a
\* command that was killed or has completed never takes any.
NothingForeignRemoved ==
    [][/\ bundle # Absent =>
            \A name \in bundle.foreign :
                (bundle' # Absent /\ name \in bundle'.foreign)
                    \/ (name \in Names /\ Withdrawing(bundle.owner))
       /\ target # Absent /\ target.owner = Somebody => target' = target]_bundleVars

=============================================================================
