--------------------------- MODULE EventMigration ---------------------------
(***************************************************************************)
(* The owner's work in a data directory: what the daemon reads before it   *)
(* listens, and axl session migrate-events, which copies a session with    *)
(* oversized events into a new session. A migration writes, in this order: *)
(* a backup of the source, the externalised blobs, a pending marker, the   *)
(* new log (by a rename), the manifest; then it removes the marker. It can *)
(* be killed, or a write can fail, between and inside these writes, and    *)
(* the next run starts over from what it finds.                            *)
(*                                                                         *)
(* A file is absent, torn (made, not completely written) or whole. The     *)
(* new log is absent, migrated, or continued by a daemon that served it.   *)
(* The source log is quarantined and only read; its target is fixed by its *)
(* bytes, so a source stands for its target too. Staging is private to a   *)
(* run. Left out: exportSessionRaw, which takes the lock and only reads,   *)
(* the deletion of a session, and a power loss that undoes an unsynced     *)
(* directory entry.                                                        *)
(***************************************************************************)
EXTENDS DataDirectory

CONSTANTS Sources,     \* sessions that need a migration
          Blocked,     \* those with an event that has no lossless form
          Confirmed,   \* migrations run with --confirm-prefix
          MaxFaults    \* bound on kills and failed writes

ASSUME SourcesAssumption == /\ Blocked \subseteq Sources
                            /\ Confirmed \subseteq Migrations
                            /\ MaxFaults \in Nat

VARIABLES job,        \* the session a migration was started for
          backup, blob, pending, manifest,   \* the files of each session
          log,        \* the new session's log
          hidden,     \* incompleteMigrations of each daemon
          unreadable, \* the journal, or a session with an open entry in it, cannot be read
          faults,     \* environment history: kills and failed writes,
          failed      \* and the processes a write of which failed

fileVars == <<backup, blob, pending, manifest, log>>
past == <<faults, failed, unreadable>>
vars == <<dirVars, fileVars, job, hidden, past>>

FileState == {"absent", "torn", "whole"}

\* What stays as it is while an owner works.
dirRest == <<lock, socket, unchecked>>

Torn == \E s \in Sources : "torn" \in {backup[s], blob[s], pending[s], manifest[s]}

-----------------------------------------------------------------------------
(* The daemon's part *)

\* Mutant: the markers are read for their syntax only.
ScanIgnoringMarkers(d) ==
  /\ pc[d] = "owner" /\ d \in Daemons
  /\ GoTo(d, IF \E s \in Sources : pending[s] = "torn" THEN "release" ELSE "journal")
  /\ UNCHANGED <<dirRest, fileVars, job, hidden, past>>

\* scanLegacyEvents: the markers name the sessions that are not published yet;
\* one that does not parse fails the start.
Scan(d) ==
  /\ pc[d] = "owner" /\ d \in Daemons
  /\ \/ /\ \E s \in Sources : pending[s] = "torn"
        /\ GoTo(d, "release") /\ UNCHANGED hidden
     \/ /\ \A s \in Sources : pending[s] # "torn"
        /\ GoTo(d, "journal")
        /\ hidden' = [hidden EXCEPT ![d] = {s \in Sources : pending[s] = "whole"}]
  /\ UNCHANGED <<dirRest, fileVars, job, past>>

\* CommandJournal.open and reconcile (CommandJournal models what they do): a journal
\* that does not parse fails the start, and so does a session that recovery has to
\* resume and cannot.
OpenJournal(d) ==
  /\ pc[d] = "journal" /\ d \in Daemons
  /\ GoTo(d, IF unreadable THEN "release" ELSE "listen")
  /\ UNCHANGED <<dirRest, fileVars, job, hidden, past>>

\* Serving clients can leave either of them so: a failed append that the next one joins,
\* a session log that its own open rejects (see CommandJournal and AgentTurn).
Spoil(d) ==
  /\ pc[d] = "running" /\ d \in Daemons
  /\ unreadable' = TRUE
  /\ UNCHANGED <<dirVars, fileVars, job, hidden, faults, failed>>

\* A client resumes a session that is not hidden and works in it.
Continue(d, s) ==
  /\ pc[d] = "running" /\ d \in Daemons
  /\ log[s] = "migrated" /\ s \notin hidden[d]
  /\ log' = [log EXCEPT ![s] = "continued"]
  /\ UNCHANGED <<dirVars, backup, blob, pending, manifest, job, hidden, past>>

-----------------------------------------------------------------------------
(* migrateSessionEvents *)

At(m, label) == pc[m] = label /\ m \in Migrations

\* The first pass over pending/: the log of an incomplete run is removed, then
\* its marker; the marker of a run that has its manifest is only removed.
SweepLog(m, s) ==
  /\ At(m, "owner")
  /\ pending[s] = "whole" /\ manifest[s] = "absent" /\ log[s] # "absent"
  /\ log' = [log EXCEPT ![s] = "absent"]
  /\ UNCHANGED <<dirVars, backup, blob, pending, manifest, job, hidden, past>>

SweepMark(m, s) ==
  /\ At(m, "owner") /\ pending[s] = "whole"
  /\ manifest[s] # "absent" \/ log[s] = "absent"
  /\ pending' = [pending EXCEPT ![s] = "absent"]
  /\ UNCHANGED <<dirVars, backup, blob, manifest, log, job, hidden, past>>

\* The pass ends at a marker that does not parse, which fails the run, or when
\* none is left.
Swept(m) ==
  /\ At(m, "owner")
  /\ \/ (\E s \in Sources : pending[s] = "torn") /\ GoTo(m, "release")
     \/ (\A s \in Sources : pending[s] = "absent") /\ GoTo(m, "backup")
  /\ UNCHANGED <<dirRest, fileVars, job, hidden, past>>

\* An exclusive create of the session's file f, and the end of the write.
Create(m, f, label) ==
  /\ GoTo(m, label)
  /\ f' = [f EXCEPT ![job[m]] = "torn"]

Filled(m, f, label) ==
  /\ GoTo(m, label)
  /\ f' = [f EXCEPT ![job[m]] = "whole"]

\* wx, and on EEXIST the digest of what is there must match.
BackupStarts(m) ==
  /\ At(m, "backup")
  /\ \/ backup[job[m]] = "absent" /\ Create(m, backup, "backupWrite")
     \/ backup[job[m]] = "torn" /\ GoTo(m, "release") /\ UNCHANGED backup
     \/ backup[job[m]] = "whole" /\ GoTo(m, "plan") /\ UNCHANGED backup
  /\ UNCHANGED <<dirRest, blob, pending, manifest, log, job, hidden, past>>

BackupEnds(m) ==
  /\ At(m, "backupWrite") /\ Filled(m, backup, "plan")
  /\ UNCHANGED <<dirRest, blob, pending, manifest, log, job, hidden, past>>

\* buildMigratedEvents, then the manifest of an earlier run: a whole one is the
\* answer, a torn one does not parse; without one the target's log is removed.
Plan(m) ==
  /\ At(m, "plan")
  /\ IF (job[m] \in Blocked /\ m \notin Confirmed) \/ manifest[job[m]] # "absent"
     THEN GoTo(m, "release") /\ UNCHANGED log
     ELSE GoTo(m, "blob") /\ log' = [log EXCEPT ![job[m]] = "absent"]
  /\ UNCHANGED <<dirRest, backup, blob, pending, manifest, job, hidden, past>>

\* COPYFILE_EXCL into blobs/, and on EEXIST the digest must match.
BlobStarts(m) ==
  /\ At(m, "blob")
  /\ \/ blob[job[m]] = "absent" /\ Create(m, blob, "blobWrite")
     \/ blob[job[m]] = "torn" /\ GoTo(m, "release") /\ UNCHANGED blob
     \/ blob[job[m]] = "whole" /\ GoTo(m, "mark") /\ UNCHANGED blob
  /\ UNCHANGED <<dirRest, backup, pending, manifest, log, job, hidden, past>>

BlobEnds(m) ==
  /\ At(m, "blobWrite") /\ Filled(m, blob, "mark")
  /\ UNCHANGED <<dirRest, backup, pending, manifest, log, job, hidden, past>>

\* wx without a second chance: a marker that is there fails the run.
MarkStarts(m) ==
  /\ At(m, "mark")
  /\ IF pending[job[m]] = "absent" THEN Create(m, pending, "markWrite")
                                   ELSE GoTo(m, "release") /\ UNCHANGED pending
  /\ UNCHANGED <<dirRest, backup, blob, manifest, log, job, hidden, past>>

MarkEnds(m) ==
  /\ At(m, "markWrite") /\ Filled(m, pending, "publish")
  /\ UNCHANGED <<dirRest, backup, blob, manifest, log, job, hidden, past>>

\* rename of the staged, synced and verified log.
Publish(m) ==
  /\ At(m, "publish")
  /\ log' = [log EXCEPT ![job[m]] = "migrated"]
  /\ GoTo(m, "manifest")
  /\ UNCHANGED <<dirRest, backup, blob, pending, manifest, job, hidden, past>>

ManifestStarts(m) ==
  /\ At(m, "manifest")
  /\ IF manifest[job[m]] = "absent" THEN Create(m, manifest, "manifestWrite")
                                    ELSE GoTo(m, "release") /\ UNCHANGED manifest
  /\ UNCHANGED <<dirRest, backup, blob, pending, log, job, hidden, past>>

ManifestEnds(m) ==
  /\ At(m, "manifestWrite") /\ Filled(m, manifest, "unmark")
  /\ UNCHANGED <<dirRest, backup, blob, pending, log, job, hidden, past>>

Unmark(m) ==
  /\ At(m, "unmark")
  /\ pending' = [pending EXCEPT ![job[m]] = "absent"]
  /\ GoTo(m, "release")
  /\ UNCHANGED <<dirRest, backup, blob, manifest, log, job, hidden, past>>

Migrate(m) ==
  \/ \E s \in Sources : SweepLog(m, s) \/ SweepMark(m, s)
  \/ Swept(m)
  \/ BackupStarts(m) \/ BackupEnds(m)
  \/ Plan(m)
  \/ BlobStarts(m) \/ BlobEnds(m)
  \/ MarkStarts(m) \/ MarkEnds(m)
  \/ Publish(m)
  \/ ManifestStarts(m) \/ ManifestEnds(m)
  \/ Unmark(m)

-----------------------------------------------------------------------------
(* Faults *)

\* A write that fails (a full disk) leaves the file as far as it got: a migration's, or
\* what reconcile appends, which the next open repairs.
WriteFails(p) ==
  /\ pc[p] \in {"backupWrite", "blobWrite", "markWrite", "manifestWrite", "journal"}
  /\ GoTo(p, "release")
  /\ faults < MaxFaults /\ faults' = faults + 1
  /\ failed' = failed \cup {p}
  /\ UNCHANGED <<dirRest, fileVars, job, hidden, unreadable>>

Killed(p) ==
  /\ faults < MaxFaults /\ faults' = faults + 1
  /\ Kill(p)
  /\ hidden' = [d \in Daemons |-> IF d = p THEN {} ELSE hidden[d]]
  /\ UNCHANGED <<fileVars, job, failed, unreadable>>

\* What others decide: to start a process, to stop a daemon.
Host(p) ==
  /\ Start(p) \/ Stop(p)
  /\ UNCHANGED <<fileVars, job, hidden, past>>

\* What a process does by itself once it is started.
Step(p) ==
  \/ /\ Acquire(p) \/ Bind(p) \/ Leave(p)
     /\ UNCHANGED <<fileVars, job, hidden, past>>
  \/ Scan(p) \/ OpenJournal(p)
  \/ Migrate(p)

Init ==
  /\ DirInit
  /\ job \in [Migrations -> Sources]
  /\ backup = [s \in Sources |-> "absent"]
  /\ blob = [s \in Sources |-> "absent"]
  /\ pending = [s \in Sources |-> "absent"]
  /\ manifest = [s \in Sources |-> "absent"]
  /\ log = [s \in Sources |-> "absent"]
  /\ hidden = [d \in Daemons |-> {}]
  /\ unreadable = FALSE
  /\ faults = 0
  /\ failed = {}

Next ==
  \/ \E p \in Procs : Step(p) \/ Host(p) \/ Killed(p) \/ WriteFails(p)
  \/ \E d \in Daemons : Spoil(d) \/ \E s \in Sources : Continue(d, s)

Progress == \E p \in Procs : Step(p)

Spec == Init /\ [][Next]_vars /\ WF_vars(Progress)

\* The behaviours in which every removal took the file its process had looked at:
\* after a removal that did not, two processes may own the directory.
CheckedSpec == Init /\ [][Next /\ ~unchecked']_vars /\ WF_vars(Progress)

-----------------------------------------------------------------------------
TypeOK ==
  /\ DirTypeOK
  /\ job \in [Migrations -> Sources]
  /\ backup \in [Sources -> FileState]
  /\ blob \in [Sources -> FileState]
  /\ pending \in [Sources -> FileState]
  /\ manifest \in [Sources -> FileState]
  /\ log \in [Sources -> {"absent", "migrated", "continued"}]
  /\ hidden \in [Daemons -> SUBSET Sources]
  /\ unreadable \in BOOLEAN
  /\ faults \in 0..MaxFaults
  /\ failed \subseteq Procs

(* "The manifest is published last as the completion marker"
   (docs/architecture/web-delivery.md): whatever was killed and run again, a
   session with a manifest has its log, its blobs and the backup of its source,
   and no client works in a session that a later run may still remove. *)
ManifestIsLast ==
  ~unchecked =>
    \A s \in Sources :
      /\ manifest[s] # "absent" => /\ log[s] # "absent"
                                   /\ backup[s] = "whole" /\ blob[s] = "whole"
      /\ log[s] = "continued" => manifest[s] # "absent"

\* What a process is started for.
Succeeded(p) ==
  IF p \in Daemons THEN pc[p] = "running"
  ELSE /\ pc[p] = "ended"
       /\ \/ manifest[job[p]] = "whole"
          \/ job[p] \in Blocked /\ p \notin Confirmed

\* A process that starts on a directory nobody else is using.
Alone(p) ==
  /\ \A q \in Procs \ {p} : Ended(q)
  /\ \/ pc[p] = "probe" /\ socket = seen[p]
     \/ pc[p] = "link" /\ attempt[p] = 0 /\ (p \in Daemons => socket = None)

\* What the process reads can be read: no file of an earlier run is torn and, for a
\* daemon, the command journal and the sessions it recovers open.
Sound(p) == ~Torn /\ (p \in Daemons => ~unreadable)

(* After any kill between two steps the next process alone on a sound directory
   does its work: it takes over the dead owner's lock and socket, a daemon gets
   through its scan, its journal and its recovery and ends up listening, and a
   migration ends with a manifest, unless it is killed or a write of its own
   fails. What is not sound stops every later start (see the README): files left
   torn by a kill inside a write, a corrupt journal, and a session that recovery
   cannot resume. *)
LoneProcessSucceeds ==
  \A p \in Procs :
    (Alone(p) /\ Sound(p)) ~> (Succeeded(p) \/ pc[p] = "killed" \/ (pc[p] = "ended" /\ p \in failed))

(* Not so (see the README): a torn file of an earlier run stops the later ones,
   and a torn marker, a corrupt journal or a session that recovery cannot resume
   stops every later daemon. *)
LoneProcessRecovers ==
  \A p \in Procs : (Alone(p) /\ faults = MaxFaults) ~> Succeeded(p)
=============================================================================
