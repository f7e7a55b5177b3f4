------------------------------ MODULE Workspace ------------------------------
(***************************************************************************)
(* The shared workspace: Pages and Library Skills edited by Agents, who    *)
(* send a complete snapshot with If-Match, and by the administrator's      *)
(* browser tabs, whose saves merge explicit file changes into the latest   *)
(* snapshot and only report that they overwrote a newer one.  Successful   *)
(* writes leave an immutable answer: idempotency_records for Agents,       *)
(* admin_workspace_save_receipts for the browser.                          *)
(***************************************************************************)
EXTENDS Naturals, Sequences, FiniteSets, SequencesExt, Functions, TLC

CONSTANTS
    Pages,      \* page_uid values
    Skills,     \* skill ids that may be allocated
    Labels,     \* Skill names; a Page's label is its primary file
    Snapshots,  \* complete file sets: file name -> content
    Changes,    \* file changes of a browser save: [remove, renames, put]
    Entry,      \* SKILL.md
    Times,      \* declared occurrence times
    Clocks,     \* instants the wall clock may read
    Keys,       \* Idempotency-Key digests
    MaxStates,  \* bound on the committed states of all documents
    None        \* no document, no primary file, no base

ASSUME WorkspaceAssumption ==
    /\ Pages \cap Skills = {} /\ None \notin Pages \cup Skills \cup Labels
    /\ Clocks \subseteq Nat /\ MaxStates \in Nat

Documents == Pages \cup Skills

VARIABLES
    states,     \* document -> its rows in commit order; the last one is current
    replays,    \* <<route, key>> -> the Agent's recorded answer
    receipts,   \* key -> the administrator's recorded answer
    audits      \* auth_audit_events and admin_master_audit_events of these writes

workspaceVars == <<states, replays, receipts, audits>>

WorkspaceInit ==
    /\ states = [d \in Documents |-> <<>>]
    /\ replays = <<>>
    /\ receipts = <<>>
    /\ audits = <<>>

Exists(d) == states[d] # <<>>

Current(d) == Last(states[d])

\* page_current_etag, LibrarySkillService._etag
ETag(d, row) ==
    IF d \in Skills THEN <<d, row.number>> ELSE <<d, row.number, row.occurred, row.at>>

-----------------------------------------------------------------------------
(* File sets                                                               *)

\* merge_files: every change names a file of the latest snapshot.
Mergeable(files, change) ==
    LET left == DOMAIN files \ change.remove
    IN /\ change.remove \subseteq DOMAIN files
       /\ DOMAIN change.renames \subseteq left
       /\ IsInjective(change.renames)
       /\ Range(change.renames) \cap left \subseteq DOMAIN change.renames

\* merge_files: removals, simultaneous renames, then replacements.
MergeFiles(files, change) ==
    LET kept  == DOMAIN files \ (change.remove \cup DOMAIN change.renames)
        moved == [new \in Range(change.renames) |->
                    files[CHOOSE old \in DOMAIN change.renames : change.renames[old] = new]]
    IN change.put @@ moved @@ Restrict(files, kept)

\* build_skill_snapshot; build_file_manifest and presentation_for
Complete(d, label, files) ==
    IF d \in Skills THEN Entry \in DOMAIN files /\ label \in Labels
    ELSE DOMAIN files # {} /\ label \in DOMAIN files \cup {None}

\* INSERT of an immutable answer.
Stored(table, key, record) ==
    [k \in DOMAIN table \cup {key} |-> IF k = key THEN record ELSE table[k]]

SameContent(row, label, files) == row.label = label /\ row.files = files

-----------------------------------------------------------------------------
(* Writes shared by both kinds of editor                                   *)

\* Skill names are unique within the Library.
NameOwner(label) == {s \in Skills : Exists(s) /\ Current(s).label = label}

Row(label, files, number, occurred, at) ==
    [label |-> label, files |-> files, number |-> number, occurred |-> occurred,
     at |-> at, live |-> TRUE]

Later(now, earlier) == IF now > earlier THEN now ELSE earlier

\* The next Revision: the document's clock advances strictly.
NextRow(d, label, files, now) ==
    [Current(d) EXCEPT !.label = label, !.files = files, !.number = @ + 1,
                       !.at = Later(now, @ + 1)]

\* A row is committed, within the bound MaxStates.
Commit(d, row) ==
    /\ Cardinality(UNION {{e} \X DOMAIN states[e] : e \in Documents}) < MaxStates
    /\ states' = [states EXCEPT ![d] = Append(@, row)]

\* LibrarySkillService.revise, FileSetRevisionService.append_existing_page after
\* their checks: an exact no-op, or the next Revision.
Revised(d, label, files, now) ==
    IF SameContent(Current(d), label, files) THEN UNCHANGED states
    ELSE Commit(d, NextRow(d, label, files, now))

Revisable(d, label, files) ==
    /\ Exists(d) /\ Current(d).live
    /\ Complete(d, label, files)
    /\ d \in Skills => NameOwner(label) \subseteq {d}

\* LibrarySkillService.create: a free name, or an exact repetition.
CreatedSkill(s, label, files, now) ==
    IF NameOwner(label) = {} THEN ~Exists(s) /\ Commit(s, Row(label, files, 1, None, now))
    ELSE s \in NameOwner(label) /\ SameContent(Current(s), label, files) /\ UNCHANGED states

\* What the answer says of the document: its row after the write.
Answer(d, created, overwritten) ==
    LET row == Last(states'[d]) IN
    [doc |-> d, number |-> row.number, etag |-> ETag(d, row), label |-> row.label,
     files |-> row.files, at |-> row.at, changed |-> states'[d] # states[d],
     created |-> created /\ states'[d] # states[d], overwritten |-> overwritten]

-----------------------------------------------------------------------------
(* Agents: api/library_skill_routes.py save                                *)

\* The recorded answer; seen is the row behind the request's If-Match.
Record(route, key, d, seen) ==
    LET answer == Answer(d, route = "create", FALSE)
    IN /\ replays' = Stored(replays, <<route, key>>,
              [answer |-> answer, seen |-> seen,
               status |-> IF answer.created THEN 201 ELSE 200])
       /\ audits' = IF answer.changed
                    THEN Append(audits, [action |-> route, doc |-> d, at |-> answer.at,
                                         request |-> <<route, key>>])
                    ELSE audits
       /\ UNCHANGED receipts

AgentCreateSkill(s, key, label, files, now) ==
    /\ <<"create", key>> \notin DOMAIN replays
    /\ Complete(s, label, files)
    /\ CreatedSkill(s, label, files, now)
    /\ Record("create", key, s, None)

AgentReviseSkill(s, key, label, files, seen, now) ==
    /\ <<"revise", key>> \notin DOMAIN replays
    /\ Revisable(s, label, files)
    /\ ETag(s, seen) = ETag(s, Current(s))
    /\ Revised(s, label, files, now)
    /\ Record("revise", key, s, seen)

-----------------------------------------------------------------------------
(* The administrator's browser: admin/json_api/content.py and skills.py    *)

\* audit: only a write that changed something.
Audit(key, answer, later) ==
    audits' = IF answer.changed
              THEN Append(audits, [action |-> "workspace", doc |-> answer.doc,
                                   at |-> Later(later, answer.at), request |-> key])
              ELSE audits

\* Mutant: the receipt's time is the clock's, not clamped to the operation.
RememberNow(key, answer, seen, later) ==
    receipts' = Stored(receipts, key, [answer |-> answer, seen |-> seen, at |-> later])

\* remember: the clock is read again, and may be behind the document's.
Remember(key, answer, seen, later) ==
    receipts' = Stored(receipts, key, [answer |-> answer, seen |-> seen,
                                       at |-> Later(later, answer.at)])

\* The end of every save: the administrator's audit event and the receipt.
Settle(key, d, created, overwritten, seen, later) ==
    LET answer == Answer(d, created, overwritten)
    IN /\ Audit(key, answer, later)
       /\ Remember(key, answer, seen, later)
       /\ UNCHANGED replays

NewOperation(key) == key \notin DOMAIN receipts

\* Mutant: only a newer Revision counts as overwritten.
OverwritesRevision(d, seen) == seen # None /\ seen.number # Current(d).number

\* The row whose ETag the tab sends as base_etag; None when it sends none.
Overwrites(d, seen) == seen # None /\ ETag(d, seen) # ETag(d, Current(d))

CreatePage(p, key, label, change, occurred, now, later) ==
    /\ NewOperation(key) /\ ~Exists(p)
    /\ Mergeable(<<>>, change) /\ Complete(p, label, MergeFiles(<<>>, change))
    /\ Commit(p, Row(label, MergeFiles(<<>>, change), 1,
                      IF occurred = None THEN now ELSE occurred, now))
    /\ Settle(key, p, TRUE, FALSE, None, later)

\* Both kinds of save merge into the latest snapshot, whatever the base was.
SaveLatest(d, key, label, change, seen, now, later) ==
    /\ NewOperation(key) /\ Exists(d)
    /\ Mergeable(Current(d).files, change)
    /\ LET files == MergeFiles(Current(d).files, change)
       IN Revisable(d, label, files) /\ Revised(d, label, files, now)
    /\ Settle(key, d, FALSE, Overwrites(d, seen), seen, later)

SavePage(p, key, label, change, seen, now, later) ==
    p \in Pages /\ SaveLatest(p, key, label, change, seen, now, later)

SaveSkill(s, key, label, change, seen, now, later) ==
    s \in Skills /\ SaveLatest(s, key, label, change, seen, now, later)

CreateSkill(s, key, label, change, now, later) ==
    /\ NewOperation(key)
    /\ Mergeable(<<>>, change) /\ Complete(s, label, MergeFiles(<<>>, change))
    /\ CreatedSkill(s, label, MergeFiles(<<>>, change), now)
    /\ Settle(key, s, TRUE, FALSE, None, later)

\* An earlier Revision becomes the next one, if the current one was seen.
RestoreRevision(d, key, number, seen, now, later) ==
    /\ NewOperation(key)
    /\ \E old \in Range(states[d]) :
         /\ old.number = number
         /\ Revisable(d, old.label, old.files)
         /\ ETag(d, seen) = ETag(d, Current(d))
         /\ Revised(d, old.label, old.files, now)
    /\ Settle(key, d, FALSE, FALSE, seen, later)

RestorePageRevision(p, key, number, seen, now, later) ==
    p \in Pages /\ RestoreRevision(p, key, number, seen, now, later)

RestoreSkillRevision(s, key, number, seen, now, later) ==
    s \in Skills /\ RestoreRevision(s, key, number, seen, now, later)

-----------------------------------------------------------------------------
(* The other writers of a Page, which PageStore models in full             *)

CorrectOccurrence(p, occurred, now) ==
    /\ Exists(p) /\ Current(p).live
    /\ Commit(p, [Current(p) EXCEPT !.occurred = occurred, !.at = Later(now, @ + 1)])
    /\ UNCHANGED <<replays, receipts, audits>>

ChangeLifecycle(p, now) ==
    /\ Exists(p)
    /\ Commit(p, [Current(p) EXCEPT !.live = ~@, !.at = Later(now, @ + 1)])
    /\ UNCHANGED <<replays, receipts, audits>>

-----------------------------------------------------------------------------

\* The rows of a document an editor may have open: any it ever had.
Opened(d) == {row \in Range(states[d]) : row.live}

WorkspaceNext ==
    \E now \in Clocks :
       \/ \E s \in Skills, key \in Keys, label \in Labels, files \in Snapshots :
            \/ AgentCreateSkill(s, key, label, files, now)
            \/ \E seen \in Opened(s) : AgentReviseSkill(s, key, label, files, seen, now)
       \/ \E p \in Pages :
            \/ \E occurred \in Times : CorrectOccurrence(p, occurred, now)
            \/ ChangeLifecycle(p, now)
       \/ \E key \in Keys, change \in Changes, later \in Clocks :
            \/ \E p \in Pages, label \in {None, Entry} :
                 \/ \E occurred \in Times \cup {None} :
                      CreatePage(p, key, label, change, occurred, now, later)
                 \/ \E seen \in Opened(p) \cup {None} :
                      SavePage(p, key, label, change, seen, now, later)
            \/ \E s \in Skills, label \in Labels :
                 \/ CreateSkill(s, key, label, change, now, later)
                 \/ \E seen \in Opened(s) \cup {None} :
                      SaveSkill(s, key, label, change, seen, now, later)
       \/ \E d \in Documents, key \in Keys, later \in Clocks, number \in 1..MaxStates :
            \E seen \in Opened(d) :
               \/ RestorePageRevision(d, key, number, seen, now, later)
               \/ RestoreSkillRevision(d, key, number, seen, now, later)

WorkspaceSpec == WorkspaceInit /\ [][WorkspaceNext]_workspaceVars

-----------------------------------------------------------------------------
(* backup/workspace.py, library_skills/backup.py                           *)

\* validate_workspace_graph: every version is complete with its label, and those
\* of a Skill are numbered 1..n.
GraphAccepted(d) ==
    \A i \in DOMAIN states[d] :
       /\ Complete(d, states[d][i].label, states[d][i].files)
       /\ d \in Skills => states[d][i].number = i

\* _page_response: exactly one live state of the timeline has the answer's ETag.
PageResponseAccepted(receipt) ==
    LET p == receipt.answer.doc IN
    Cardinality({i \in DOMAIN states[p] :
        /\ states[p][i].live
        /\ states[p][i].number = receipt.answer.number
        /\ states[p][i].at <= receipt.at
        /\ ETag(p, states[p][i]) = receipt.answer.etag}) = 1

\* The stored version an answer about a Skill must repeat.
RepeatsVersion(answer) ==
    /\ answer.number \in DOMAIN states[answer.doc]
    /\ LET version == states[answer.doc][answer.number]
       IN /\ SameContent(version, answer.label, answer.files)
          /\ version.at = answer.at
          /\ answer.etag = ETag(answer.doc, version)

\* _skill_response
SkillResponseAccepted(receipt) ==
    /\ RepeatsVersion(receipt.answer)
    /\ receipt.answer.at <= receipt.at
    /\ receipt.answer.created = (receipt.answer.changed /\ receipt.answer.number = 1)
    /\ ~(receipt.answer.created /\ receipt.answer.overwritten)

\* validate_skill_replay
SkillReplayAccepted(route, key) ==
    LET replay == replays[<<route, key>>]
        audited == {i \in DOMAIN audits : audits[i].action = route
                        /\ audits[i].doc = replay.answer.doc
                        /\ audits[i].at = replay.answer.at
                        /\ audits[i].request = <<route, key>>}
    IN /\ RepeatsVersion(replay.answer)
       /\ IF route = "create"
          THEN /\ replay.status = IF replay.answer.changed THEN 201 ELSE 200
               /\ replay.status = 201 => replay.answer.number = 1
          ELSE replay.status = 200
       /\ Cardinality(audited) = IF replay.answer.changed THEN 1 ELSE 0

\* A backup of any reachable workspace passes the validators that run on it:
\* immutable answers stay provable however the documents move on.
WorkspaceBackupAccepts ==
    /\ \A d \in Documents : GraphAccepted(d)
    /\ \A key \in DOMAIN receipts :
         IF receipts[key].answer.doc \in Pages THEN PageResponseAccepted(receipts[key])
         ELSE SkillResponseAccepted(receipts[key])
    /\ \A r \in DOMAIN replays : SkillReplayAccepted(r[1], r[2])

\* Nobody overwrites what he has not seen without being told: an answer to an
\* editor who named the version he edited reports an overwrite exactly when the
\* document was no longer, in any field, the one he had open.
EditsSeenOrFlagged ==
    [][LET new == {receipts'[key] : key \in DOMAIN receipts' \ DOMAIN receipts}
                    \cup {replays'[r] : r \in DOMAIN replays' \ DOMAIN replays}
       IN \A record \in new :
            record.seen # None =>
               record.answer.overwritten = (record.seen # Current(record.answer.doc))
      ]_workspaceVars

=============================================================================
