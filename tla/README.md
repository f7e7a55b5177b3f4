# Patchouli Library: TLA+ models, checks and proofs

Patchouli Library is a FastAPI service over one SQLite database. It keeps
*Pages* (with immutable *Revisions*) in *Books* inside *Sections* of a
*Library*; agents write through credentials, a master administrator through a
web console. This directory models the parts whose correctness depends on
sequences and interleavings of requests, on clocks, retries and crashes, checks
the models with TLC and proves the most important results with TLAPS.

Paths below are relative to `src/src/patchouli_lib/` unless they start
otherwise; migrations are in `src/migrations/versions/`.

## Inventory of the system

| Part | State | Operations | What is hard | What makes it correct |
|---|---|---|---|---|
| Page writes (`content/`) | `pages`, `revisions`, occurrence, lifecycle, title and move events | create, append (Markdown, file set), correct occurrence, delete, restore, move, retitle | stale `If-Match`, wall clock running backwards, the page clock reaching its last instant, five event tables | ETags never repeat, no lost update, the events rebuild the past |
| Idempotency (`idempotency/`, `admin/*receipts*`) | receipts per actor, route and key | lookup, record, replay with validation | retry after any later edit | exactly once, a stored success replays for ever |
| Revision restore (`admin/revision_restore_service.py`) | none between requests | read snapshot, then write | page changes between the two transactions | as for page writes |
| SQL triggers (migrations 0004–0029) | guard tables | abort a write | second implementation of the page rules | never refuse what a handler approved |
| Page identifiers (`identifiers/`, `_allocate_page_id`) | collision counters, identifier registry | allocate | titles that imitate ordinals, attempt and ordinal limits | an identifier names one page for ever |
| Search index (`search/`, `database.py`) | dirty pages, generations, projections | flush in every transaction, rebuild, search | bypassed writers, software of another index version, restored backups | an answered search is exact |
| Credentials (`auth/`, `operator/`, `operator_cli.py`) | callers, credentials, revealable values | bootstrap, recover, provision, rotate, revoke, disable, authenticate | clocks set back or read before the write lock is obtained, use racing revocation, failed delivery of a secret | one live credential per Agent, retirement is final, values of live credentials only |
| Library policies (`auth/library_policy.py`, `admin/service.py`) | mode and selection per action, scope revision, grant events | provision, edit by either editor, copy on rotation | stale forms of two editors with different tokens | no submission overwrites what it did not show |
| Master identity (`admin/master_*`, `admin/session.py`) | master identity, session generation, sessions | set up, rotate, log in, log out | sessions of an earlier generation | one identity, old sessions are refused |
| Backup (`backup/`) | staging directory, bundle, restored file | create, verify, restore | crash between publication steps, foreign files in the directory | a visible bundle is complete |
| Request log (`request_log/`) | one writer, rows with retention | write after each request, prune, stop | busy database, shutdown while writing | an accepted write is decided before the engine goes, shutdown ends |
| CLI client (`src/clients/python/`) | operation journal on disk | prepare, send, retry, forget | crash between sending and recording the answer | a retry reuses the key of the first attempt |
| Onboarding tickets (`auth/onboarding.py`) | tickets of a generation | create, admit, redeem | two redemptions at once, rotation in between | one ticket, one Agent |
| Retrieval and search paging (`retrieval/`, `search/`, `api/retrieval_routes.py`) | none; the client holds a cursor | list, read, follow a cursor | writes, grants and revocations between and inside requests | nothing skipped or shown twice, nobody answered after losing the right |
| Console feeds (`admin/read_model.py`) | none | page through activity and request log | equal timestamps in two merged tables | as above |
| Shared workspace (`admin/json_api/content.py`, `skills.py`, `library_skills/`) | Pages, Skills, save receipts | Agent snapshot, browser save, delete, restore | two kinds of concurrency control on the same data | an unseen version is never overwritten silently |
| Skill installation (`library_skills/install.py`) | local folder and receipt | plan, unlink, write, prune, record | crash in the middle, the user's own files | a rerun completes, the user's files stay |
| Libraries, Sections, Books (`library/`, `api/library_structure_routes.py`) | records with READMEs | create, edit form, Agent's README, seed | `updated_at` as a token, rights changing during upload | no edit based on an old record |
| Tags (`tags/`, `admin/tag_management.py`) | Tags and associations | create, attach, detach, batch | order of renames inside a batch, three listings | validated batches complete, listings agree |
| Archive routes (`api/archive_routes.py`) | none between requests | preflight, body, transaction, retry | Page moves or rights change in between | a retry is judged where the Page is now |
| Upload (`api/file_set_multipart.py`) | parser and collector | feed chunks, finish | chunk boundaries, limits | the verdict ignores the chunks |
| Console, migrations, scripts | | see `PROJECT.json` | | |

Every write handler runs in `database.immediate_transaction` (`BEGIN IMMEDIATE`,
commit or roll back), so writers are serial; interleaving happens *between*
transactions: between a client's read and its write, between the two phases of
a revision restore, between a request and its retry.

## Modules

| Module | Models | Notes |
|---|---|---|
| `PageStore` | page tables, audits, receipts and every handler that changes a page | one action per handler, which is one transaction; `rows` is a history variable holding every row a page had |
| `PageTimeline` | `load_page_state_timeline` and the replay validators of all receipt families | functions of `PageStore`'s state |
| `PageTriggers` | the triggers and deferred keys of migrations 0004–0029 | conditions on one step |
| `PageBackup` | what `backup/validation.py` requires of the page tables | functions of `PageStore`'s state, over `PageTimeline` |
| `PageRegister` | the promise of the page store: numbered versions, compare-and-set, one answer per request | abstract specification |
| `PageRefinement` | the mapping under which `PageStore` implements `PageRegister` | `INSTANCE ... WITH` |
| `PageIds` | `_allocate_page_id`, counters and registry | the part of page creation `PageStore` leaves out |
| `SearchIndex` | dirty triggers, `flush_dirty_since`, `rebuild_search_index`, backup reset, readers | pages reduced to projected columns |
| `Credentials` | callers, `auth_credentials`, stored token values and the handlers that change them | one action per transaction; `latest` is a history variable |
| `LibraryScopes` | Library policies of credentials and the two editors | browser forms are state; `edits` and a form's `seen` are history |
| `ClientJournal` | the command-line client's journal, retries and replays, against the idempotency records of the service | steps are file system calls, request attempts and their answers |
| `MasterIdentity` | setup, sign-in, rotation, recovery, session cookies, onboarding tickets | cookies and audits are state |
| `BackupBundle` | creation, publication, restore and cleanup of bundles | steps are file operations, each may fail |
| `RequestLog` | writer, retention loop, middleware, shutdown | |
| `Retrieval` | twelve listings and exact reads, with their cursors | a request is two transactions; `pass` is one client's walk |
| `AdminFeeds` | content activity and request-log feeds of the console | |
| `Workspace` | Pages and Skills as Agents and browser tabs edit them, with the backup rules of their receipts | |
| `SkillInstall` | `install_skill_package` | one action per file operation |
| `LibraryStructure` | Libraries, Sections, Books and their READMEs | audits are the history of writes |
| `Tags` | Tag operations, batches and listings | |
| `ArchiveRoutes` | authorization and retries around the page handlers | a request is preflight, body, transaction |
| `FileSetUpload` | the multipart collector and the manifest | chunks of any size |
| `PageStoreProofs` | theorems about `PageStore` and `PageRefinement` | |
| `PageHistoryProofs` | theorems about `PageTriggers`, `PageTimeline` and `PageBackup` | |
| `CatalogueProofs` | theorems about `PageIds`, `SearchIndex` and `LibraryStructure` | |
| `CredentialsProofs` | theorems about `Credentials` | |
| `RequestProofs` | theorems about `ClientJournal` and `FileSetUpload` | |
| `InstallationProofs` | theorems about `RequestLog`, `MasterIdentity`, `BackupBundle` and `ArchiveRoutes` | |
| `ConsoleProofs` | theorems about `LibraryScopes`, `SkillInstall`, `Tags` and `Workspace` | |
| `ReadingProofs` | theorems about `Retrieval` and `AdminFeeds` | |
| `MC*` | constants and symmetry of the runs; the parts of a run side by side | |

**PageStore.** A page row is the record `Row`; `place` is the pair of Section
and Book. Times are small naturals; `LogicalTime` is
`max(operation_at, updated_at + 1)` and `Representable` is the check of
`canonical_utc_wire`. An ETag is the tuple of the values the code hashes. A
request carries any ETag its page ever had (`IssuedETags`), which is what a
client that read at any earlier moment can hold. A handler that raises is a
stuttering step; a request whose key already has a receipt changes nothing
(`Unused` guards every keyed action), and whether that replay succeeds is the
invariant `ReceiptsReplay`. `CreatePage` covers the three creation routes,
`NewSnapshot` and `SameSnapshot` the two outcomes of
`FileSetRevisionService.append_existing_page`, `ChangePlace` and `SamePlace`
those of a move. `RestoreRead`, `RestoreWrite` and `RestoreEnd` are the two
phases of `restore_revision`. Authorization is not decided here: any caller may
send any request.

**PageTimeline.** `States(p)` applies the operations of all event tables, sorted by
clock (`SortedOperations`), one by one to the oldest recorded values, and
`TimelineLoads` is the conjunction of every `_require` on the way. `Replayable(r)` dispatches on the receipt's
route to the translation of its validator.

**PageBackup.** `BackupAccepts` is `validate_database` restricted to the page
tables: every event needs its receipt and audit and the other way round.
Storage classes, digests and wire formats are left out.

**PageRegister and PageRefinement.** The register knows neither tables nor
clocks. A version of a page is the position of a row in its history, and the
version a client means is found through the ETag it holds (`VersionOf`), so
the mapping is only as good as ETags are unique. Keyed requests are `Write` or
`Confirm`, the administrator's forms are `Edit`, and both phases of a revision
restore but its commit are stuttering steps.

**PageIds.** A slug is a sequence of words; an identifier's text is the
timestamp with the slug, extended by the ordinal from the second page on. So
the second page of *note* and the first of *note 2* have the same text, as in
the code.

**SearchIndex.** A write transaction is `CoordinatedWrite` (with the flush) or
`BypassedWrite` (triggers only). `Project` is `_project_page`, `Served` the
conjunction of `require_ready_index` and `_check_scope_integrity`, `Hits` the
join of `_rows_for_scope`, `Scan` the reference definition.

**Credentials.** Every handler reads the clock once and acts with that time `t`.
There is no variable for the clock: `utc_microseconds` (`auth/service.py:39`) is
the wall clock, which may stand still or be set back, and `_bootstrap`, `_recover`,
`_provision_agent` and the revocations read it before `immediate_transaction`
waits for the lock. So `t` is any of `Times`, also an earlier one than the handlers
that committed before had read, and time passes by reading a later `t`.
The compensation of a failed delivery is `RevokeAgentCredential`
with the time of provisioning. An update that would violate
`ck_auth_credentials_timestamps` is refused. A credential is `scoped` when the
master or a ticket provisioned it; the others cannot be rotated. The methods of
`OperatorService` that no command or route calls (`rotate_credential`,
`disable_caller`) are left out.

**LibraryScopes.** A credential is live or retired here; how it gets there is
`Credentials`. `SetScope` is `set_agent_scope_as_master`, guarded by the scope
revision its form shows; `SetGrants` is `set_agent_grants_as_master`, guarded by
the digest of one Library's rights. The latter is a service method that
currently has no route.

**ClientJournal.** One operation of `archive create` or `archive revise` with its
journal record (`file` is what processes read, `disk` what a power failure may
leave), the processes that
run or replay it, the requests in flight and the idempotency records of the
service. A request outlives the client that gave up on it. An operation's
identifier comes from the command's output (`src/clients/python/README.md:105`),
so a record that a killed process left unsynced and unreported is never
replayed. One operation is enough: operations share nothing but the ETag of
their Page, which `OtherWrite` changes.

**MasterIdentity.** A cookie carries a generation and an expiry. Sign-in and setup
hand out their cookie in a step after their transaction, so a rotation may come
between. Every handler reads the clock anew. The login that only works
before setup, origin and CSRF checks and the attempt limiter are left out.

**BackupBundle.** Creators and restorers take one file operation per step; an
operation may fail, be interrupted or die at every step. Files are hard links,
so the publication of a bundle is visible as a link count, as in the code.
`Somebody` may create the destination of a restore, and may put files into a bundle
directory as soon as it exists, under any name that is free: under the names of the
database and the manifest, or under another (`"other"`, which also stands for what is
no regular file). A taken name makes `os.link` fail, and the creator withdraws
the directory. `_cleanup` goes by names: it gives up when it finds an unexpected
one, and otherwise removes every file it saw, somebody else's `backup.sqlite`
included. `NothingForeignRemoved` says that this is all that can go, that only the
directory's own creator does it, and only after his command failed; whether that
much should go is a choice of the code, which the property records. `Somebody` adds
files and takes none away, and does not reach into the directories made by `mkdtemp`,
which are private to the command's user; no file of his parses as a manifest that
binds the bytes of this database. The four attempts of `_cleanup` are not counted. What
is *in* the database is checked by `PageBackup`, `MasterIdentity` and `Workspace`,
each next to its tables.

**RequestLog.** `TakeGate` is the lock of the writer, `Busy` and `RetryWrite`
the bounded retries, `Start`, `Stop`, `Close` and `Dispose` the application's
lifespan.

**Retrieval.** The first transaction of a request authenticates and keeps the
caller, the second reads the rest in one snapshot. The bindings (caller, policy
version, request, ranking) are compared as values instead of digests. The Book
listing of a Section is the Section listing over another table and is not
repeated.

**AdminFeeds.** Event identifiers are random, hence an entry may sort anywhere
among those of its instant; only entries present during the whole walk are owed.

**Workspace.** Agents replace a whole snapshot under `If-Match`; a browser tab
merges explicit changes into whatever is current and reports an overwrite.
Both leave receipts that `backup/validation.py` and `library_skills/backup.py`
check later.

**SkillInstall.** The plan is made once, then executed step by step; a death of
the process leaves the folder as it is and the old receipt. The user writes and
deletes files between installations, not during one.

**LibraryStructure.** The administrator's forms are guarded by `updated_at`, an
Agent's README by a hash of the whole record. The run uses one clock value, the
worst case for the first guard.

**Tags.** Names are strings with a normal form (`KeyOf`). Batches are validated as
a whole and written row by row; `broken` records a row that met a unique key.
Tags are matched live by search and are not part of its projection.

**ArchiveRoutes.** Refusals with 403 and 404 are one outcome. Page contents are
reduced to a version. The rights of an Agent are one of three functions from
Sections to actions; how they come about is in `LibraryScopes`.

**FileSetUpload.** An upload is a sequence of parts with sizes; it arrives byte
group by byte group. The ceiling on the whole stream leaves room for the headers
of any well-formed upload and is left out.

## Runs

| Run | Part | Bounds | Shows |
|---|---|---|---|
| `pages_content` | `PageStore` | one page, two keys, clocks {1,3}, last instant 4, 3 revisions, 4 receipts | columns in range, ETags unique, no lost update, stored answers replay |
| `pages_membership` | `PageStore` | one page, two titles and places, caller and master, 3 receipts | the events rebuild the rows, a backup of any state validates, the triggers agree |
| `pages_restore` | `PageStore` | two pages, one key value, caller and master, one two-phase restore racing with edits, a move and a deletion, 3 receipts | exactly once across pages; `PageStore` implements `PageRegister` |
| `catalogue` | `PageIds` | five pages, slugs *note*, *note 2*, *note 3*, *note 2 2*, 2 attempts, ordinals to 4 | identifiers resolve, no ordinal lost |
| | `SearchIndex` | two pages, two Sections, scopes of one and both, two versions, 3 dirty sequences, 2 generations, one backup | exact or refused |
| | `LibraryStructure` | one Library, two Sections, one Book, one Agent, three writes, one clock value | no write rests on an outdated record or right |
| `client_journal` | `ClientJournal` | one operation, two callers, two processes, two attempts, one power failure, two states of the Page | applied at most once; journal and reports agree with the service after a power failure; every command ends |
| `credentials` | `Credentials` | operator and two Agents, of which at most one is disabled, four credentials, clock readings 1 to 3 in any order, one finite lifetime | one live credential per Agent, retirement final, values of live credentials only, retiring refused exactly to a clock behind the last use, what survives a recovery |
| `operator_recovery` | `Credentials` | three credentials, clock readings 1 to 3 | expected violation, see *Finding* |
| `installation` | `MasterIdentity` | two tokens, one ticket, clock {1,2,3} in any order, two generations, two cookies, three audits | nothing of an earlier generation acts after a later one; one Agent per ticket; the backup rules of both tables |
| | `BackupBundle` | any three of two creators of two versions and two restorers; foreign files under either expected name and a third | a visible bundle or restored file is whole; of foreign files only one with a bundle file's name can go, with the directory its creator withdraws |
| `request_log` | `RequestLog` | two requests, three old rows pruned two at a time, three attempts | accepted writes are decided before the engine is disposed; shutdown ends |
| `reading` | `Retrieval` | three Pages, two Sections, page sizes 1 and 2, two writes or changes of rights | walks list exactly once, search walks one ranking, no answer after losing the right |
| | `AdminFeeds` | four entries, two instants, two ids, page size 1, two logins | feeds list exactly once |
| `console` | `Workspace` | one Page, two Skills, two file names and contents, two keys, three states | receipts stay acceptable to backups, overwrites are refused or reported |
| | `SkillInstall` | four packages in which a path is file, directory and absent; four user paths | a folder the user left alone can always be updated; only own paths are touched |
| | `Tags` | two Libraries, three Sections, two Pages, two Tags, five names (one invalid, two with one key), batches of two, five writes | batches complete; directory, Pages and Tags agree for every caller |
| | `LibraryScopes` | forms: one credential, two forms, two Libraries, three edits; rotation: two credentials of which one is live, one form, one edit | stale submissions of either editor are refused; rotation keeps rights, also in Libraries created later |
| `requests` | `ArchiveRoutes` | one Page, two Books in two Sections, one Agent on two connections, two keys, three versions, three sets of rights | retries follow the Page, the Trash can be restored |
| | `FileSetUpload` | up to four parts at and beyond each limit, every chunking | accepted exactly when well-formed |

A run over several parts sets them side by side: its MC module has a variable
`focus`, chosen initially, that names the part whose actions a behaviour takes,
while the other parts stay in one fixed initial state. The parts of such a run
share no variable and no property speaks of two of them, so this explores what
separate runs would, and nothing about their interaction is claimed. Parts that
do interact are composed where they are checked: timeline, triggers, backup
rules and register over the state of `PageStore`.

Why the bounds are enough: the wall clock's two values let it stand still and
step back, and the last instant lies one tick beyond, so the page clock hits
it; a page needs at most one operation of each table before and after another
one for any two to conflict, which 3 or 4 receipts plus unkeyed master edits
give; a search projection goes wrong with one page and two writes, the second
page is there to be the older dirty row. Symmetry is over values the models
only compare for equality. Deadlock checking is off because the bounds on
receipts, time and sequence numbers end behaviours that the real system
continues, and because a client, a user or a server may stop.

In `credentials`, three instants let a lock holder be overtaken, the clock be set
back behind a use, and a lifetime end; four credentials give a chain of rotations and an operator recovered
twice. Of two scope forms one is stale and one submitted before it, and three
edits change a right back and forth in between. Two requests in the log are one
in the transaction and one waiting for the gate when the writer closes.

Elsewhere each bound is the smallest at which the case exists: a walk of
three Pages with page size 1 has a Page before, at and after the cursor, and two
writes can remove the cursor's own row or reorder around it; two generations of
the master token make an older and a newer cookie; two renames in a batch can
swap names; three versions of a Page are one to retry against, one after it and
one more by the administrator; four parts are the metadata and one file more
than the limit; three backup commands are a race for a path and a reader of what
it leaves. `SkillInstall` needs no bound: its folder is finite.

Fairness is assumed in two places. `CommandsEnd` of `ClientJournal` assumes weak
fairness of the steps of a running client process. The operating system
schedules the process. The transport's timeouts (`transport.py:85`) limit the wait for
a connection and for each read, so an attempt that meets silence fails, and a
failing attempt is always possible. They do not limit an attempt as a whole: that
no service keeps one attempt alive for ever by sending a byte before each read
times out is assumed; otherwise nothing is assumed of the network or of the service. `ShutdownEnds` of `RequestLog` assumes weak fairness of
the event loop's steps and of a running transaction (SQLite answers or reports
busy within its timeout), and strong fairness of taking the gate, because
`asyncio` hands a free lock to its waiters in order (`request_log/writer.py`).

## Finding

`operator_recovery`: local recovery says that it "retires every prior active
operator credential" (`operator/service.py:152`). `_recover` (`operator_cli.py:376`)
reads the clock before it waits for the write lock and then retires the
credentials with `created_at <= now`. If a second recovery starts later and gets
the lock first, the first one does not see its credential, and two remain
active until one expires. (A clock set back between two recoveries does the same.) `SurvivorsOfRecovery` in `credentials` states what does
hold: whatever survives a recovery had expired, or is dated later than it.

## Proofs

Every theorem below holds for all values of the constants that satisfy the
assumptions of its module, so for any number of pages, callers, keys, sessions,
files or edits, and for clocks that may stand still or be set back: the wall clock of
a handler is read as any value, at each reading anew. Where a property is not
inductive by itself the strengthening is given, with what it is needed for. Each
strengthening was checked by TLC on the module's run before it was proved.

| Module | Theorem | Property |
|---|---|---|
| `PageStoreProofs` | `TypesHold` | `TypeOK` |
| | `ETagsIdentifyStates` | `ETagsNeverRepeat` |
| | `UpdatesAreNotLost` | `NoLostUpdate` |
| | `RequestsTakeEffectOnce` | `ExactlyOnce` |
| | `StoreImplementsRegister` | `ImplementsRegister` |
| `PageHistoryProofs` | `TriggersNeverAbort` | `TriggersAccept` |
| | `TimelineIsExact` | `TimelineReconstructs` |
| | `ReceiptsReplayForEver` | `ReceiptsReplay` |
| | `BackupsAlwaysAccept` | `BackupAccepts` |
| `CatalogueProofs` | `IdentifiersHold` | `IdentifiersSound` |
| | `SearchIsExact` | `SearchNeverStale` |
| | `StructureWritesAreCurrent` | `WritesAreCurrent` |
| `CredentialsProofs` | `CredentialTypesHold` | `CredentialTypeOK` |
| | `AgentsHoldOneCredential` | `OneLivePerAgent` |
| | `RetirementStays` | `RetirementIsFinal` |
| | `CredentialsInForceManageable` | `LiveAreManageable` |
| | `SurvivorsAreExpiredOrLater` | `SurvivorsOfRecovery` |
| `RequestProofs` | `OperationsAppliedOnce` | `AppliedOnce` |
| | `JournalTellsTheTruth` | `JournalAgrees` |
| | `ChunksDoNotMatter` | `VerdictIgnoresChunks` |
| `InstallationProofs` | `RequestWritesDecided` | `AcceptedWritesDecided` |
| | `GenerationsOnlyAscend` | `GenerationsAscend` |
| | `TicketBuysOneAgent` | `TicketsBuyOneAgent` |
| | `BundleWholeOrNothing` | `WholeOrNothing` |
| | `ForeignFilesSurvive` | `NothingForeignRemoved` |
| | `RetriesFollowThePage` | `RetryFollowsThePage` |
| | `TrashedPagesRestorable` | `TrashIsRestorable` |
| `ConsoleProofs` | `AcceptedFormsShowTheTruth` | `NoStaleSubmission` |
| | `RotationChangesNoRight` | `RotationKeepsRights` |
| | `UserWorkSurvives` | `TouchesOnlyItsOwn` |
| | `PristineFoldersUpdate` | `PristineInstallsUpdate` |
| | `ValidatedBatchesComplete` | `BatchesComplete` |
| | `ListingsAgree` | `DirectoryAgrees` |
| | `OverwritesAreReported` | `EditsSeenOrFlagged` |
| | `WorkspaceAlwaysBacksUp` | `WorkspaceBackupAccepts` |
| `ReadingProofs` | `ListingsNeitherSkipNorRepeat` | `ListedExactlyOnce` |
| | `SearchesWalkOneRanking` | `SearchWalksOneRanking` |
| | `AnswersReachOnlyTheAdmitted` | `AnswersOnlyTheAdmitted` |
| | `FeedsNeitherSkipNorRepeat` | `FeedListedExactlyOnce` |

**Page store.** The inductive invariant of `PageStoreProofs` is `TypeOK /\
HistoryEndsAtPage /\ ClockAdvances /\ NoLostUpdate`. `ETagsNeverRepeat` is not
inductive by itself: that the new row's ETag is new needs the new clock to exceed
all earlier ones (`ClockAdvances`) and the current row to be the last of them
(`HistoryEndsAtPage`). `NoLostUpdate` needs the same two facts to find the
position of the row a request was made against. The argument is factored: each
action is shown to be a `GoodStep`, which writes at most one row with a later
clock and adds at most one receipt that matches it, and a `GoodStep` preserves the
invariant.

**Exactly once and the register.** The second part of `PageStoreProofs` classifies
every action by its `Effect`: it answers one new request (`KeyedEffect`, with a row and an audit
or with neither), it is a form edit (`FormEffect`), or it touches neither rows
nor audits nor receipts. `ExactlyOnce` is then a count: a new audit has the next
identifier, so the sets whose cardinalities it compares grow together.
It needs in addition that receipts name rows and audits that exist
(`ReceiptsAnchored`) and that pending restores carry keys (`RestoresKeyed`).
For the refinement, `VersionOf` (the version an ETag stands for) is shown not to
change while rows are only appended, which is where `ETagsNeverRepeat` is used;
each effect then maps to `Write`, `Confirm`, `Edit` or a stutter of the
register. The assumption `IdentityAssumption` says that the administrator is no
caller.

**Triggers, timeline, replays and backups.** The invariant of `PageHistoryProofs`,
`TriggerInv`, adds to the one of the page store what the tables say about the
past of a page. Every action is shown to be `Allowed`: what it writes satisfies
the triggers (`PageAccepted`), continues the history (`Chronicled`), leaves what a
receipt it stores will be checked against (`Substantiated`), and comes with what
its events and its audit will be checked against (`EventsEntered`, `AuditsEntered`).

* *Triggers.* Two triggers look beyond the row they guard: a title edit must find
  exactly one unused audit with its time, and a move event or receipt must name an
  audit that nothing else names. So every reference points to an audit already
  written (`ReferencesPast`), no audit that carries a page's clock is later than
  its page (`DatedAuditsPast`), and two of them never carry the same clock
  (`DatedAuditsDiffer`); with an advancing page clock the new audit is the only
  candidate.
* *Timeline.* `Chronicle`: there is an enumeration of all operations of a page in
  which the i-th fits row i and turns it into row i + 1 (`Enumerates`), and the
  oldest "old" values still give the first row (`InitialState`). As clocks ascend
  along the rows, sorting by clock can only yield that enumeration (`SortedFound`);
  and `States` satisfies a recurrence that the rows satisfy as well and that only
  one sequence satisfies, since two would differ at a first place (`StatesFound`).
* *Replays.* A receipt's row is in the history of its page with the revision it
  names (`Describes`), and its route left the event, the audit or the base row that
  its validator looks for (`Grounds`). All of it stays because tables only grow
  (`SubstantiatedStays`). Each is found only once because two operations of a page
  with one clock are the same (`OperationsDiffer`), and so are two audits that carry
  a page's clock (`DatedAuditsDiffer`).
* *Backups.* `validate_database` also asks the opposite: does every event and
  every audit have its receipt? `Ledger` is that converse of `Grounds`: an event
  names an audit of its own action, page and clock or has a receipt that answers
  it (`EventsBooked`), and an audit of a form, of a move, of a Library route or of
  a master's file set is named by an event or a receipt (`AuditBooked`). It is
  inductive because tables, audits and receipts only grow. Where the validator
  counts, the count is one by `ExactlyOnce`: receipts of changes at one clock of one
  page have the same audit (`SameChange`, `OneReceipt`), and events with one audit
  have one clock (`OneEvent`). Where it rebuilds a response from events committed
  later, the value is read off the history: every event was a step from one row to
  the next and every step has its event (`HistorySteps`), so a column stays what it
  is between two of its events (`OccurrenceSteady`, `TitleSteady`), counting the
  corrections before the row of a revision yields its occurrence
  (`OccurrenceCounted`), counting by revision number is the same as counting by clock
  (`CorrectionInRevision`), and the oldest title replaced after a row is its title
  (`TitleAtRow`).

**Catalogue.** `IdentifiersHold` rests on two conjuncts: no identifier names
two pages (`IdentifiersResolve`), and every ordinal below a counter is spelled
by a registered identifier (`CountersTight`); both are inductive with the type
invariant and with counters that stay beyond every ordinal given
(`CountersAhead`). For `SearchIsExact` the invariant is that a page without a
dirty row is projected as it is, by the version recorded in `search_meta`
(`CleanPagesProjected`), and that no dirty row is ahead of the sequence; the
latter makes the flush touch only the rows of its own transaction. For
`StructureWritesAreCurrent` it is that `updated_at` strictly ascends from record
to record (`HistoryOK`): equal timestamps mean the same record, which is
what a form relies on, also when the clock stands still.

**Credentials.** The types and `OneLivePerAgent` are inductive together. Each
handler is a `GoodStep`: a row is left alone, inserted, or updated while unretired
with its caller kept, and a row inserted for an Agent is its only unretired one
afterwards. `ManageInv` adds that a value is stored exactly for the credentials in
force, and that an unretired row is dated by its last use or, unused, by its issue
(`LiveDatedByUse`). From the latter it follows which times
`ck_auth_credentials_timestamps` accepts for retiring it: those from that date
on. Nothing is said of a clock that stays behind that date: until it catches up,
the credential cannot be revoked. Its Agent can be disabled, which no clock prevents
(`disable_agent_as_master` takes the later of the clock and the caller's `updated_at`).
Assumptions: the operator is no Agent, lifetimes are positive.

**Client journal.** `JournalInv` says of each process, by where it is, what it
holds (`ProcessOK`); of each message that its operation had become durable
before and that it carries the record's request (`Genuine`); and of each
operation how its record, the disk, the service and the reports agree
(`OperationOK`). That a report of "not applied" stays true needs `Outdated`: the
ETag the operation was prepared against lies behind the page for good.

**Upload.** `UploadInv` says that what the collector holds are the parts before
the current one, all of them acceptable (`HeldOK`), that the part under way was
within the limits as far as it arrived (`PartOK`), and that a problem was reported
only about an upload that is not well formed (`VerdictOK`). The last one needs
`WellFormedPasses`: whatever has been received of a well-formed upload, its next
part meets no limit, because the files held and the current one are a first part of
the files of the manifest (`SizeOfFirst`). `SizeOf` is a recursive function; its
lemmas take the least index at which the running totals could differ and need no
induction theorem. `UploadAssumption` is that an upload is a sequence of parts.

**Installation.** `LogInv`: only the holder of the gate is at work, and whatever
`close()` did not find pending is not pending later. `IdentityInv`: every audit
is of a generation that existed (`AuditsCurrent`), and the row of a ticket agrees
with the audits and the Agent it bought (`TicketOK`). `BundleInv`: a bundle
directory belongs to the creator that made it until he removes it and holds his
validated database (`CreatorOK`), and what a restorer links was copied from the
bundle whose manifest it read (`RestorerOK`). `ForeignFilesSurvive` is an action
property from the same invariant: only the creator in `"unlink"` removes entries, the
directory is his (`CreatorOK`), and what he scanned bears expected names only. `EmptyTablesAssumption` and
`AbsentAssumption` tell the values for "no row" and "no file" from rows and files.

**Console.** `ScopesInv` says what each kind of form token stands for: the scope
revision counts every edit (`ScopeFormOK`); the digest of one Library misses
edits by whole scope, but after one of those the older editor is closed
(`GrantsFormOK`). `InstallInv` says of an installation under way that every step
left touches only what the receipt recorded or the installation wrote
(`PlanOwned`), and of a folder left alone what it holds between
(`PristineIdle`) and during installations (`PristineBusy`). `PackageAssumption`
is what `build_skill_snapshot` guarantees: in a package no file is a directory of
another one; and temporary names are fresh.
`TagsInv`: an association joins a Page and a Tag of one Library, which is all
the three listings need to agree. For `BatchesComplete` there is no induction
over the batch: each row sees the table as the rows before it left it
(`Renamed`), and a key it meets there belongs either to one of those rows,
whose keys the validation found distinct, or to a Tag the batch has not
touched, whose owner the validation looked up.
`WorkspaceInv`: a document's clock strictly ascends over its versions, so ETags
tell them apart (`DocumentOK`); every recorded answer describes one of the
versions (`Anchored`), and stays so because versions are only appended; an
Agent's answer that changed something has exactly one audit, because an audit
names the request it was recorded with (`ReplayOK`, `AuditsOK`). The first gives
`EditsSeenOrFlagged`, all of them together `WorkspaceBackupAccepts`.

**Routes.** `RoutesInv`: the answer of a receipt describes a state its Page really
had, under the path the request was sent to (`ReceiptOK`), and a key has one
receipt per Agent and route (`OneReceipt`).

**Reading.** A listing is a finite set of items in the order of their keys
(`InOrder`, `NewestFirst`); the lemmas say that the first n items of what lies
beyond a position are an interval of the order, so a strict keyset condition cuts
the listing in two without a gap. `RetrievalInv` then says that the items shown
so far are those up to the cursor: everything present since the beginning of
the walk on this side was shown, nothing on the other side was.
A search cursor is bound to the ranking, so all answered parts are cut from one
(`SearchWalksOneRanking`). For `AnswersOnlyTheAdmitted` the invariant is about
the request between its two transactions: what the first one found may no longer
hold, and every read decides again. `FeedInv` is the same argument for the two
feeds, whose merge cuts each table before the union. `NoCursorAssumption` and
`NoPositionAssumption` tell "no cursor" from cursors.

Only model-checked are the two liveness properties, `CommandsEnd` and
`ShutdownEnds`: the prover has no fairness and no ENABLED. Every other property of a
passing run is proved.

## Not modelled

Text matching, ranking and snippets of search; Unicode normalisation of titles,
Tag names and file names; file bytes, digests, multipart boundaries and wire
formats; HTTP formatting, headers, error mapping and rate limits; the browser
side of the console; one-time data migrations (their triggers are in
`PageTriggers`); evaluation, benchmark and smoke scripts. Of the client, commands
that only read. `PROJECT.json` lists each part with its reason.

The interaction of parts that run in different transactions of one request
(authentication, then the handler) is modelled where a property needs it
(`Retrieval`, `ArchiveRoutes`, `LibraryStructure`), with rights as a variable that
may change at any time, and not by composing those modules with `Credentials`.

## Plan

Every invariant and action property of the passing runs is a theorem; the liveness
properties stay with TLC. What a change of the code asks of the project: a new write
handler of the page tables is an action of `PageStore` and needs one lemma each for
its types (`...Good`), its effect (`...Effect`) and what it writes (`...Allowed`); a
new check of `validate_database` is a conjunct of `BackupAccepts`, and the fact it
rests on belongs in `Ledger` or `Grounds`; a new kind of event is an operation of
the timeline (`OperationFits`, `OperationApplied`) and a case of `OperationEffect`.
The parts under "Not modelled" remain candidates for modules of their own.
