------------------------ MODULE EventMigrationProofs ------------------------
(***************************************************************************)
(* The ownership of a data directory and the order of a migration's files, *)
(* for any number of processes, sessions and faults.                       *)
(*                                                                         *)
(* Three invariants build on each other: the types (with which kind of     *)
(* process may be where), the directory's (what a process that looked at a *)
(* record or a socket file still knows of it, and, while every removal     *)
(* took the file that was looked at, that owners hold the lock and         *)
(* listeners the path), and the files' (what each step of a migration may  *)
(* count on). The last one uses the second: only the one owner writes.     *)
(***************************************************************************)
EXTENDS EventMigration, TLAPS

\* Labels of a daemon before it binds the path, and while its file is there.
BeforeBind == {"idle", "owner", "journal", "listen"} \cup Starting
Live == {"identify", "running", "stop", "unbind"}

\* Only daemons look at the socket path or listen, only migrations work.
Kinds ==
  \A p \in Procs :
    /\ pc[p] \in {"probe", "recheck", "clearPath", "journal", "listen", "identify", "running",
                  "stop", "unbind", "close", "closeFailed", "stuck"} => p \in Daemons
    /\ pc[p] \in Working => p \in Migrations

TypeInv == TypeOK /\ Kinds

\* What was seen stays true of the process that was seen.
Looked ==
  /\ lock # None => pc[lock] # "idle"
  /\ socket # None => pc[socket] \notin BeforeBind
  /\ \A p \in Procs :
       /\ pc[p] \in {"reread", "clearLock"} => seen[p] \in Procs /\ Ended(seen[p])
       /\ pc[p] \in {"probe", "recheck", "clearPath"} =>
            seen[p] \in Procs /\ pc[seen[p]] \notin BeforeBind
       /\ pc[p] = "recheck" /\ socket = seen[p] => pc[seen[p]] \notin Live
       /\ pc[p] = "clearPath" => pc[seen[p]] \notin Live

\* Owners hold the lock, listeners the path.
Held ==
  /\ \A p \in Procs : Owns(p) => lock = p
  /\ \A p \in Procs : pc[p] \in Live => socket = p
  /\ \A p \in Procs : pc[p] \in {"running", "stop", "unbind"} => seen[p] = p

DirInv == Looked /\ (~unchecked => Held)

\* The files of one session.
SessionFiles(s) ==
  /\ manifest[s] # "absent" => log[s] # "absent" /\ backup[s] = "whole" /\ blob[s] = "whole"
  /\ log[s] = "continued" => manifest[s] # "absent"
  /\ log[s] # "absent" /\ manifest[s] = "absent" => pending[s] = "whole"

\* What migration m knows of its session's files.
Known(m) ==
  /\ pc[m] \in {"plan", "blob", "blobWrite", "mark", "markWrite", "publish", "manifest"} =>
       backup[job[m]] = "whole"
  /\ pc[m] \in {"mark", "markWrite", "publish", "manifest"} => blob[job[m]] = "whole"
  /\ pc[m] \in {"backupWrite", "blob", "blobWrite", "mark", "markWrite", "publish", "manifest"} =>
       manifest[job[m]] = "absent"
  /\ pc[m] \in {"blob", "blobWrite", "mark", "markWrite", "publish"} => log[job[m]] = "absent"
  /\ pc[m] \in {"publish", "manifest"} => pending[job[m]] = "whole"
  /\ pc[m] = "manifest" => log[job[m]] # "absent"
  /\ pc[m] \in {"manifestWrite", "unmark"} => manifest[job[m]] # "absent"

\* A daemon that has scanned the directory hides every marked session.
Serving == {"journal", "listen", "identify", "running"}
Hides(d) == pc[d] \in Serving => \A s \in Sources : pending[s] = "whole" => s \in hidden[d]

Files ==
  /\ \A s \in Sources : SessionFiles(s)
  /\ \A m \in Migrations : Known(m)
  /\ \A d \in Daemons : Hides(d)

FileInv == ~unchecked => Files

-----------------------------------------------------------------------------
(* What an owner's steps in the directory do to the lock, the path and pc. *)
DirUntouched == UNCHANGED <<lock, socket, unchecked, seen, attempt>>

OwnerMoves(p) ==
  \/ pc' = pc /\ p \in Migrations
  \/ \E label \in {"journal", "listen", "release"} \cup Working :
       /\ pc' = [pc EXCEPT ![p] = label]
       /\ pc[p] \in {"owner", "journal"} \cup Working
       /\ label \in {"journal", "listen"} => p \in Daemons
       /\ label \in Working => p \in Migrations

\* The steps of an owner before it serves and while it migrates.
OwnerActs(p) == Scan(p) \/ OpenJournal(p) \/ Migrate(p) \/ WriteFails(p)

\* An owner's step touches neither the lock nor the path.
LEMMA OwnerSteps ==
  ASSUME TypeOK, NEW p \in Procs, OwnerActs(p)
  PROVE  DirUntouched /\ OwnerMoves(p)
<1> USE DEF dirRest, dirVars, GoTo, Set, DirUntouched, At, OwnerMoves, Working, TypeOK, DirTypeOK
<1>1. CASE Scan(p) \/ OpenJournal(p)
  BY <1>1 DEF Scan, OpenJournal
<1>2. CASE WriteFails(p)
  <2>1. pc[p] \in {"owner", "journal"} \cup Working
    BY <1>2 DEF WriteFails
  <2>2. pc' = [pc EXCEPT ![p] = "release"] /\ DirUntouched
    BY <1>2 DEF WriteFails
  <2> QED
    BY <2>1, <2>2
<1>3. CASE Migrate(p)
  <2>1. CASE \E s \in Sources : SweepLog(p, s) \/ SweepMark(p, s)
    BY <2>1 DEF SweepLog, SweepMark
  <2>2. CASE Swept(p) \/ Plan(p) \/ Publish(p) \/ Unmark(p)
    BY <2>2 DEF Swept, Plan, Publish, Unmark
  <2>3. CASE BackupStarts(p) \/ BackupEnds(p)
    BY <2>3 DEF BackupStarts, BackupEnds, Create, Filled
  <2>4. CASE BlobStarts(p) \/ BlobEnds(p)
    BY <2>4 DEF BlobStarts, BlobEnds, Create, Filled
  <2>5. CASE MarkStarts(p) \/ MarkEnds(p)
    BY <2>5 DEF MarkStarts, MarkEnds, Create, Filled
  <2>6. CASE ManifestStarts(p) \/ ManifestEnds(p)
    BY <2>6 DEF ManifestStarts, ManifestEnds, Create, Filled
  <2> QED
    BY <1>3, <2>1, <2>2, <2>3, <2>4, <2>5, <2>6 DEF Migrate
<1> QED
  BY <1>1, <1>2, <1>3 DEF OwnerActs

-----------------------------------------------------------------------------
(* Types *)

DirMoves(p) == Acquire(p) \/ Bind(p) \/ Leave(p) \/ Start(p) \/ Stop(p) \/ Kill(p)

\* A step over the lock and the path keeps their types and everybody's place.
LEMMA DirTypes ==
  ASSUME DirTypeOK, Kinds, NEW p \in Procs, DirMoves(p)
  PROVE  DirTypeOK' /\ Kinds'
<1> USE ProcsAssumption DEF DirTypeOK, Kinds, GoTo, Set, Procs, Labels, Starting, Opening,
        Working, Leaving
<1>1. CASE Acquire(p)
  <2>1. CASE Link(p)  BY <2>1 DEF Link
  <2>2. CASE Read(p)  BY <2>2 DEF Read, NextAttempt
  <2>3. CASE Reread(p)  BY <2>3 DEF Reread
  <2>4. CASE ClearLock(p)  BY <2>4 DEF ClearLock, NextAttempt
  <2> QED  BY <1>1, <2>1, <2>2, <2>3, <2>4 DEF Acquire
<1>2. CASE Bind(p)
  <2>1. CASE Probe(p)  BY <2>1 DEF Probe
  <2>2. CASE Recheck(p)  BY <2>2 DEF Recheck
  <2>3. CASE ClearPath(p)  BY <2>3 DEF ClearPath
  <2>4. CASE Listen(p)  BY <2>4 DEF Listen
  <2>5. CASE Identify(p)  BY <2>5 DEF Identify
  <2> QED  BY <1>2, <2>1, <2>2, <2>3, <2>4, <2>5 DEF Bind
<1>3. CASE Leave(p)
  <2>1. CASE Release(p)  BY <2>1 DEF Release
  <2>2. CASE Unbind(p)  BY <2>2 DEF Unbind
  <2>3. CASE Close(p)  BY <2>3 DEF Close
  <2> QED  BY <1>3, <2>1, <2>2, <2>3 DEF Leave
<1>4. CASE Start(p)
  <2>1. CASE StartDaemon(p)  BY <2>1 DEF StartDaemon
  <2>2. CASE StartMigration(p)  BY <2>2 DEF StartMigration
  <2> QED  BY <1>4, <2>1, <2>2 DEF Start
<1>5. CASE Stop(p)
  BY <1>5 DEF Stop
<1>6. CASE Kill(p)
  BY <1>6 DEF Kill
<1> QED
  BY <1>1, <1>2, <1>3, <1>4, <1>5, <1>6 DEF DirMoves

\* An owner's step as well.
LEMMA OwnerTypes ==
  ASSUME DirTypeOK, Kinds, NEW p \in Procs, DirUntouched, OwnerMoves(p)
  PROVE  DirTypeOK' /\ Kinds'
BY DEF DirTypeOK, Kinds, DirUntouched, OwnerMoves, Procs, Labels, Opening, Working, Leaving

FileTypes ==
  /\ job \in [Migrations -> Sources]
  /\ backup \in [Sources -> FileState]
  /\ blob \in [Sources -> FileState]
  /\ pending \in [Sources -> FileState]
  /\ manifest \in [Sources -> FileState]
  /\ log \in [Sources -> {"absent", "migrated", "continued"}]
  /\ hidden \in [Daemons -> SUBSET Sources]
  /\ unreadable \in BOOLEAN
  /\ faults \in 0..MaxFaults
  /\ failed \subseteq Procs

\* The files' types, in a step of an owner.
LEMMA OwnerFileTypes ==
  ASSUME FileTypes, NEW p \in Procs, OwnerActs(p)
  PROVE  FileTypes'
<1> USE SourcesAssumption DEF FileTypes, FileState, fileVars, past
<1>1. CASE Scan(p) \/ OpenJournal(p)
  BY <1>1 DEF Scan, OpenJournal
<1>2. CASE WriteFails(p)
  BY <1>2 DEF WriteFails
<1>3. CASE Migrate(p)
  <2> USE DEF At, Create, Filled
  <2>1. CASE \E s \in Sources : SweepLog(p, s) \/ SweepMark(p, s)
    BY <2>1 DEF SweepLog, SweepMark
  <2>2. CASE Swept(p) \/ Plan(p) \/ Publish(p) \/ Unmark(p)
    BY <2>2 DEF Swept, Plan, Publish, Unmark
  <2>3. CASE BackupStarts(p) \/ BackupEnds(p)
    BY <2>3 DEF BackupStarts, BackupEnds
  <2>4. CASE BlobStarts(p) \/ BlobEnds(p)
    BY <2>4 DEF BlobStarts, BlobEnds
  <2>5. CASE MarkStarts(p) \/ MarkEnds(p)
    BY <2>5 DEF MarkStarts, MarkEnds
  <2>6. CASE ManifestStarts(p) \/ ManifestEnds(p)
    BY <2>6 DEF ManifestStarts, ManifestEnds
  <2> QED
    BY <1>3, <2>1, <2>2, <2>3, <2>4, <2>5, <2>6 DEF Migrate
<1> QED
  BY <1>1, <1>2, <1>3 DEF OwnerActs

\* The steps of the specification: over the lock and the path, an owner's, or a
\* client's in a session.
LEMMA NextCases ==
  ASSUME Next
  PROVE  \/ \E p \in Procs : DirMoves(p) /\ UNCHANGED <<fileVars, job>>
                /\ (UNCHANGED <<hidden, past>> \/ Killed(p))
         \/ \E p \in Procs : OwnerActs(p)
         \/ \E d \in Daemons : Spoil(d) \/ \E s \in Sources : Continue(d, s)
<1>1. CASE \E p \in Procs : Step(p)
  BY <1>1 DEF Step, DirMoves, OwnerActs
<1>2. CASE \E p \in Procs : Host(p) \/ Killed(p)
  BY <1>2 DEF Host, Killed, DirMoves
<1>3. CASE \E p \in Procs : WriteFails(p)
  BY <1>3 DEF OwnerActs
<1>4. CASE \E d \in Daemons : Spoil(d) \/ \E s \in Sources : Continue(d, s)
  BY <1>4
<1> QED
  BY <1>1, <1>2, <1>3, <1>4 DEF Next

(* Types: every variable keeps its type, and only a daemon probes, binds or runs,
   only an offline command writes migration files. *)
THEOREM TypeCorrect == Spec => []TypeInv
<1>1. Init => TypeInv
  <2> SUFFICES ASSUME Init  PROVE TypeInv
    OBVIOUS
  <2>1. DirTypeOK
    <3>1. pc \in [Procs -> Labels]
      BY DEF Init, DirInit, Labels
    <3>2. seen \in [Procs -> Procs \cup {None}] /\ attempt \in [Procs -> 0..1]
      BY DEF Init, DirInit
    <3> QED
      BY <3>1, <3>2 DEF Init, DirInit, DirTypeOK
  <2>2. Kinds
    BY DEF Init, DirInit, Kinds, Working
  <2>3. FileTypes
    <3>1. unreadable \in BOOLEAN /\ failed \subseteq Procs
      BY DEF Init
    <3> QED
      BY <3>1, SourcesAssumption DEF Init, FileTypes, FileState
  <2> QED
    BY <2>1, <2>2, <2>3 DEF TypeInv, TypeOK, FileTypes
<1>2. TypeInv /\ [Next]_vars => TypeInv'
  <2> SUFFICES ASSUME TypeInv, [Next]_vars  PROVE TypeInv'
    OBVIOUS
  <2> USE DEF TypeInv, TypeOK, FileTypes
  <2>1. ASSUME NEW p \in Procs, DirMoves(p), UNCHANGED <<fileVars, job>>,
               UNCHANGED <<hidden, past>> \/ Killed(p)
        PROVE  TypeInv'
    <3>1. DirTypeOK' /\ Kinds'
      BY <2>1, DirTypes
    <3>2. FileTypes'
      BY <2>1, SourcesAssumption DEF fileVars, past, Killed
    <3> QED
      BY <3>1, <3>2
  <2>2. ASSUME NEW p \in Procs, OwnerActs(p)
        PROVE  TypeInv'
    <3>1. DirTypeOK' /\ Kinds'
      BY <2>2, OwnerSteps, OwnerTypes
    <3>2. FileTypes'
      BY <2>2, OwnerFileTypes
    <3> QED
      BY <3>1, <3>2
  <2>3. ASSUME NEW d \in Daemons, NEW s \in Sources, Continue(d, s)
        PROVE  TypeInv'
    BY <2>3 DEF Continue, dirVars, past, DirTypeOK, Kinds
  <2>4. ASSUME NEW d \in Daemons, Spoil(d)
        PROVE  TypeInv'
    BY <2>4 DEF Spoil, dirVars, fileVars, DirTypeOK, Kinds
  <2>5. CASE UNCHANGED vars
    BY <2>5 DEF vars, dirVars, fileVars, past, DirTypeOK, Kinds
  <2> QED
    BY <2>1, <2>2, <2>3, <2>4, <2>5, NextCases
<1> QED
  BY <1>1, <1>2, PTL DEF Spec

-----------------------------------------------------------------------------
(* Ownership *)

\* acquire(): a record is removed only when its process has ended.
LEMMA AcquireKeepsDirInv ==
  ASSUME TypeInv, DirInv, NEW p \in Procs, Acquire(p)
  PROVE  DirInv'
<1> USE ProcsAssumption DEF TypeInv, TypeOK, DirTypeOK, GoTo, Set, Procs
<1>1. CASE Link(p)
  <2>1. Looked'
    BY <1>1 DEF Link, DirInv, Looked, BeforeBind, Starting, Live, Ended
  <2>2. ~unchecked' => Held'
    BY <1>1 DEF Link, DirInv, Held, Owns, Opening, Working, Live
  <2> QED
    BY <2>1, <2>2 DEF DirInv
<1>2. CASE Read(p)
  <2>1. Looked'
    BY <1>2 DEF Read, NextAttempt, DirInv, Looked, BeforeBind, Starting, Live, Ended, Alive
  <2>2. ~unchecked' => Held'
    BY <1>2 DEF Read, NextAttempt, DirInv, Held, Owns, Opening, Working, Live
  <2> QED
    BY <2>1, <2>2 DEF DirInv
<1>3. CASE Reread(p)
  <2>1. Looked'
    BY <1>3 DEF Reread, DirInv, Looked, BeforeBind, Starting, Live, Ended
  <2>2. ~unchecked' => Held'
    BY <1>3 DEF Reread, DirInv, Held, Owns, Opening, Working, Live
  <2> QED
    BY <2>1, <2>2 DEF DirInv
<1>4. CASE ClearLock(p)
  <2>1. Looked'
    BY <1>4 DEF ClearLock, NextAttempt, DirInv, Looked, BeforeBind, Starting, Live, Ended
  <2>2. ~unchecked' => Held'
    <3>1. ~unchecked' => ~unchecked /\ lock \in {None, seen[p]}
      BY <1>4 DEF ClearLock
    <3> QED
      BY <1>4, <3>1 DEF ClearLock, NextAttempt, DirInv, Looked, Ended, Held, Owns, Opening, Working, Live
  <2> QED
    BY <2>1, <2>2 DEF DirInv
<1> QED
  BY <1>1, <1>2, <1>3, <1>4 DEF Acquire

\* start(): a socket file is removed only when nobody listens behind it.
LEMMA BindKeepsDirInv ==
  ASSUME TypeInv, DirInv, NEW p \in Procs, Bind(p)
  PROVE  DirInv'
<1> USE ProcsAssumption DEF TypeInv, TypeOK, DirTypeOK, GoTo, Set, Procs
<1>1. CASE Probe(p)
  <2>1. Looked'
    BY <1>1 DEF Probe, Listens, DirInv, Looked, BeforeBind, Starting, Live, Ended
  <2>2. ~unchecked' => Held'
    BY <1>1 DEF Probe, DirInv, Held, Owns, Opening, Working, Live
  <2> QED
    BY <2>1, <2>2 DEF DirInv
<1>2. CASE Recheck(p)
  <2>1. Looked'
    BY <1>2 DEF Recheck, DirInv, Looked, BeforeBind, Starting, Live, Ended
  <2>2. ~unchecked' => Held'
    BY <1>2 DEF Recheck, DirInv, Held, Owns, Opening, Working, Live
  <2> QED
    BY <2>1, <2>2 DEF DirInv
<1>3. CASE ClearPath(p)
  <2>1. Looked'
    BY <1>3 DEF ClearPath, DirInv, Looked, BeforeBind, Starting, Live, Ended
  <2>2. ~unchecked' => Held'
    <3>1. ~unchecked' => ~unchecked /\ socket \in {None, seen[p]}
      BY <1>3 DEF ClearPath
    <3> QED
      BY <1>3, <3>1 DEF ClearPath, DirInv, Looked, Held, Owns, Opening, Working, Live
  <2> QED
    BY <2>1, <2>2 DEF DirInv
<1>4. CASE Listen(p)
  <2>1. Looked'
    BY <1>4 DEF Listen, DirInv, Looked, BeforeBind, Starting, Live, Ended
  <2>2. ~unchecked' => Held'
    BY <1>4 DEF Listen, DirInv, Held, Owns, Opening, Working, Live
  <2> QED
    BY <2>1, <2>2 DEF DirInv
<1>5. CASE Identify(p)
  <2>1. Looked'
    BY <1>5 DEF Identify, DirInv, Looked, BeforeBind, Starting, Live, Ended
  <2>2. ~unchecked' => Held'
    BY <1>5 DEF Identify, DirInv, Held, Owns, Opening, Working, Live
  <2> QED
    BY <2>1, <2>2 DEF DirInv
<1> QED
  BY <1>1, <1>2, <1>3, <1>4, <1>5 DEF Bind

\* stop(), a failed start, an offline command's end: each takes back its own.
LEMMA LeaveKeepsDirInv ==
  ASSUME TypeInv, DirInv, NEW p \in Procs, Leave(p)
  PROVE  DirInv'
<1> USE ProcsAssumption DEF TypeInv, TypeOK, DirTypeOK, GoTo, Set, Procs
<1>1. CASE Release(p)
  <2>1. Looked'
    BY <1>1 DEF Release, DirInv, Looked, BeforeBind, Starting, Live, Ended
  <2>2. ~unchecked' => Held'
    BY <1>1 DEF Release, DirInv, Held, Owns, Opening, Working, Live
  <2> QED
    BY <2>1, <2>2 DEF DirInv
<1>2. CASE Unbind(p)
  <2>1. Looked'
    BY <1>2 DEF Unbind, DirInv, Looked, BeforeBind, Starting, Live, Ended
  <2>2. ~unchecked' => Held'
    BY <1>2 DEF Unbind, DirInv, Held, Owns, Opening, Working, Live
  <2> QED
    BY <2>1, <2>2 DEF DirInv
<1>3. CASE Close(p)
  <2>1. Looked'
    BY <1>3 DEF Close, DirInv, Looked, BeforeBind, Starting, Live, Ended
  <2>2. ~unchecked' => Held'
    <3>1. ~unchecked' => ~unchecked /\ socket \in {None, p}
      BY <1>3 DEF Close
    <3> QED
      BY <1>3, <3>1 DEF Close, DirInv, Held, Owns, Opening, Working, Live
  <2> QED
    BY <2>1, <2>2 DEF DirInv
<1> QED
  BY <1>1, <1>2, <1>3 DEF Leave

\* What others decide, and kills: a process only moves, the files stay.
LEMMA HostKeepsDirInv ==
  ASSUME TypeInv, DirInv, NEW p \in Procs, Start(p) \/ Stop(p) \/ Kill(p)
  PROVE  DirInv'
<1> USE ProcsAssumption DEF TypeInv, TypeOK, DirTypeOK, GoTo, Set, Procs
<1>1. CASE Start(p)
  <2>1. Looked'
    BY <1>1 DEF Start, StartDaemon, StartMigration, DirInv, Looked, BeforeBind, Starting, Live, Ended
  <2>2. ~unchecked' => Held'
    BY <1>1 DEF Start, StartDaemon, StartMigration, DirInv, Held, Owns, Opening, Working, Live
  <2> QED
    BY <2>1, <2>2 DEF DirInv
<1>2. CASE Stop(p)
  <2>1. Looked'
    BY <1>2 DEF Stop, DirInv, Looked, BeforeBind, Starting, Live, Ended
  <2>2. ~unchecked' => Held'
    BY <1>2 DEF Stop, DirInv, Held, Owns, Opening, Working, Live
  <2> QED
    BY <2>1, <2>2 DEF DirInv
<1>3. CASE Kill(p)
  <2>1. Looked'
    BY <1>3 DEF Kill, DirInv, Looked, BeforeBind, Starting, Live, Ended
  <2>2. ~unchecked' => Held'
    BY <1>3 DEF Kill, DirInv, Held, Owns, Opening, Working, Live
  <2> QED
    BY <2>1, <2>2 DEF DirInv
<1> QED
  BY <1>1, <1>2, <1>3

\* An owner's step moves the owner among labels that hold the lock.
LEMMA OwnerKeepsDirInv ==
  ASSUME TypeInv, DirInv, NEW p \in Procs, DirUntouched, OwnerMoves(p)
  PROVE  DirInv'
<1> USE ProcsAssumption DEF TypeInv, TypeOK, DirTypeOK, Kinds, DirUntouched, OwnerMoves, Procs
<1>1. Looked'
  BY DEF DirInv, Looked, BeforeBind, Starting, Live, Ended, Working
<1>2. ~unchecked' => Held'
  BY DEF DirInv, Held, Owns, Opening, Working, Live
<1> QED
  BY <1>1, <1>2 DEF DirInv

(* Ownership: in every behaviour, what a starter saw stays true of the process
   it saw, and while no removal took an unseen file, owners hold the lock and
   listeners the path. *)
THEOREM OwnershipHeld == Spec => [](TypeInv /\ DirInv)
<1>1. Init => DirInv
  BY DEF Init, DirInit, DirInv, Looked, Held, Owns, Opening, Working, Live
<1>2. TypeInv /\ DirInv /\ [Next]_vars => DirInv'
  <2> SUFFICES ASSUME TypeInv, DirInv, [Next]_vars  PROVE DirInv'
    OBVIOUS
  <2>1. ASSUME NEW p \in Procs, DirMoves(p)  PROVE DirInv'
    BY <2>1, AcquireKeepsDirInv, BindKeepsDirInv, LeaveKeepsDirInv, HostKeepsDirInv DEF DirMoves
  <2>2. ASSUME NEW p \in Procs, OwnerActs(p)
        PROVE  DirInv'
    BY <2>2, OwnerSteps, OwnerKeepsDirInv DEF TypeInv
  <2>3. CASE UNCHANGED dirVars
    BY <2>3 DEF dirVars, DirInv, Looked, Held, Owns, Ended
  <2> QED
    BY <2>1, <2>2, <2>3, NextCases DEF vars, Continue, Spoil
<1> QED
  BY <1>1, <1>2, TypeCorrect, PTL DEF Spec

(* A single owner: for any number of daemons, offline commands and kills, two
   processes never own the directory and a running daemon is the one behind the
   path, unless a removal took a file that nobody had looked at. *)
THEOREM AuthorityHolds == Spec => []Authority
<1>1. DirInv => Authority
  BY DEF DirInv, Held, Authority, Live, Procs
<1> QED
  BY <1>1, OwnershipHeld, PTL

-----------------------------------------------------------------------------
(* The files *)

\* Over the lock and the path nobody gets into the work, and a daemon serves
\* only what it has scanned.
LEMMA DirPlaces ==
  ASSUME TypeInv, NEW p \in Procs, DirMoves(p)
  PROVE  /\ ~unchecked' => ~unchecked
         /\ \A q \in Procs : /\ pc'[q] \in Working => pc'[q] = pc[q]
                             /\ pc'[q] \in Serving => pc[q] \in Serving
<1> USE DEF TypeInv, TypeOK, DirTypeOK, GoTo, Set, Working, Serving
<1>1. CASE Acquire(p)
  BY <1>1 DEF Acquire, Link, Read, Reread, ClearLock, NextAttempt
<1>2. CASE Bind(p)
  BY <1>2 DEF Bind, Probe, Recheck, ClearPath, Listen, Identify
<1>3. CASE Leave(p)
  BY <1>3 DEF Leave, Release, Unbind, Close
<1>4. CASE Start(p) \/ Stop(p) \/ Kill(p)
  BY <1>4 DEF Start, StartDaemon, StartMigration, Stop, Kill
<1> QED
  BY <1>1, <1>2, <1>3, <1>4 DEF DirMoves

LEMMA DirKeepsFiles ==
  ASSUME TypeInv, FileInv, NEW p \in Procs, DirMoves(p), UNCHANGED <<fileVars, job>>,
         UNCHANGED <<hidden, past>> \/ Killed(p)
  PROVE  FileInv'
<1> SUFFICES ASSUME ~unchecked'  PROVE Files'
  BY DEF FileInv
<1>1. Files /\ \A q \in Procs : /\ pc'[q] \in Working => pc'[q] = pc[q]
                                /\ pc'[q] \in Serving => pc[q] \in Serving
  BY DirPlaces DEF FileInv
<1>2. \A s \in Sources : SessionFiles(s)'
  BY <1>1 DEF Files, SessionFiles, fileVars
<1>3. ASSUME NEW m \in Migrations  PROVE Known(m)'
  <2>1. CASE pc'[m] \in Working
    BY <1>1, <2>1 DEF Files, Known, fileVars, Procs
  <2>2. CASE pc'[m] \notin Working
    BY <2>2 DEF Known, Working
  <2> QED
    BY <2>1, <2>2
<1>4. ASSUME NEW d \in Daemons  PROVE Hides(d)'
  <2>1. CASE UNCHANGED hidden
    BY <1>1, <2>1 DEF Files, Hides, fileVars, Procs
  <2>2. CASE Killed(p)
    BY <1>1, <2>2 DEF Files, Hides, fileVars, Procs, Killed, Kill, GoTo, Set, Serving,
                      TypeInv, TypeOK, DirTypeOK
  <2> QED
    BY <2>1, <2>2
<1> QED
  BY <1>2, <1>3, <1>4 DEF Files

\* While one process owns the directory, nobody else works in it or serves it.
LEMMA SoleOwner ==
  ASSUME TypeInv, DirInv, ~unchecked, NEW p \in Procs, Owns(p),
         NEW q \in Procs, q # p
  PROVE  pc[q] \notin Working /\ pc[q] \notin Serving
BY DEF DirInv, Held, Owns, Opening, Serving

\* A migration's step, given what it knows of its session's files.
LEMMA MigrateKeepsKnown ==
  ASSUME TypeInv, NEW m \in Migrations, Migrate(m), Known(m), \A s \in Sources : SessionFiles(s)
  PROVE  Known(m)' /\ \A s \in Sources : SessionFiles(s)'
<1> job[m] \in Sources /\ m \in Procs
  BY DEF TypeInv, TypeOK, Procs
<1> USE DEF TypeInv, TypeOK, DirTypeOK, FileState, At, GoTo, Set, Create, Filled, Known, SessionFiles
<1>1. ASSUME NEW s \in Sources, SweepLog(m, s)  PROVE Known(m)' /\ \A x \in Sources : SessionFiles(x)'
  BY <1>1 DEF SweepLog, dirVars
<1>2. ASSUME NEW s \in Sources, SweepMark(m, s)  PROVE Known(m)' /\ \A x \in Sources : SessionFiles(x)'
  BY <1>2 DEF SweepMark, dirVars
<1>3. CASE Swept(m)
  BY <1>3 DEF Swept, fileVars
<1>4. CASE BackupStarts(m)
  BY <1>4 DEF BackupStarts
<1>5. CASE BackupEnds(m)
  BY <1>5 DEF BackupEnds
<1>6. CASE Plan(m)
  BY <1>6 DEF Plan
<1>7. CASE BlobStarts(m)
  BY <1>7 DEF BlobStarts
<1>8. CASE BlobEnds(m)
  BY <1>8 DEF BlobEnds
<1>9. CASE MarkStarts(m)
  BY <1>9 DEF MarkStarts
<1>10. CASE MarkEnds(m)
  BY <1>10 DEF MarkEnds
<1>11. CASE Publish(m)
  BY <1>11 DEF Publish
<1>12. CASE ManifestStarts(m)
  BY <1>12 DEF ManifestStarts
<1>13. CASE ManifestEnds(m)
  BY <1>13 DEF ManifestEnds
<1>14. CASE Unmark(m)
  BY <1>14 DEF Unmark
<1> QED
  BY <1>1, <1>2, <1>3, <1>4, <1>5, <1>6, <1>7, <1>8, <1>9, <1>10, <1>11, <1>12, <1>13, <1>14
  DEF Migrate

\* Whoever moves owns the directory.
LEMMA MoverOwns ==
  ASSUME NEW p \in Procs, OwnerActs(p)
  PROVE  Owns(p)
BY DEF OwnerActs, Scan, OpenJournal, Migrate, SweepLog, SweepMark, Swept, BackupStarts, BackupEnds, Plan, BlobStarts,
       BlobEnds, MarkStarts, MarkEnds, Publish, ManifestStarts, ManifestEnds, Unmark, WriteFails,
       At, Owns, Opening, Working

LEMMA OwnerKeepsFiles ==
  ASSUME TypeInv, TypeInv', DirInv, FileInv, NEW p \in Procs,
         OwnerActs(p)
  PROVE  FileInv'
<1>1. DirUntouched /\ OwnerMoves(p)
  BY OwnerSteps DEF TypeInv
<1> SUFFICES ASSUME ~unchecked'  PROVE Files'
  BY DEF FileInv
<1>2. ~unchecked /\ Files
  BY <1>1 DEF DirUntouched, FileInv
<1>3. \A q \in Procs \ {p} : /\ pc[q] \notin Working /\ pc[q] \notin Serving
                            /\ pc'[q] = pc[q]
  BY <1>1, <1>2, SoleOwner, MoverOwns DEF OwnerMoves, TypeInv, TypeOK, DirTypeOK
<1>4. \A m \in Migrations : m # p => Known(m)'
  BY <1>3 DEF Known, Working, Procs
<1>5. \A d \in Daemons : d # p => Hides(d)'
  BY <1>3 DEF Hides, Procs
<1>6. CASE Scan(p)
  <2>1. \A s \in Sources : SessionFiles(s)'
    BY <1>2, <1>6 DEF Scan, Files, SessionFiles, fileVars
  <2>2. Hides(p)'
    BY <1>6 DEF Scan, Hides, Serving, fileVars, GoTo, Set, TypeInv, TypeOK, DirTypeOK
  <2> QED
    BY <1>4, <1>5, <1>6, <2>1, <2>2, ProcsAssumption DEF Files, Scan
<1>7. CASE OpenJournal(p) \/ WriteFails(p)
  <2>1. \A s \in Sources : SessionFiles(s)'
    BY <1>2, <1>7 DEF OpenJournal, WriteFails, Files, SessionFiles, fileVars
  <2>2. p \in Migrations => Known(p)'
    BY <1>7, ProcsAssumption DEF OpenJournal, WriteFails, Known, GoTo, Set, TypeInv, TypeOK, DirTypeOK
  <2>3. p \in Daemons => Hides(p)'
    BY <1>2, <1>7 DEF OpenJournal, WriteFails, Files, Hides, Serving, fileVars, GoTo, Set, TypeInv,
                      TypeOK, DirTypeOK
  <2> QED
    BY <1>4, <1>5, <2>1, <2>2, <2>3 DEF Files
<1>8. CASE Migrate(p)
  <2>1. p \in Migrations
    BY <1>8 DEF Migrate, SweepLog, SweepMark, Swept, BackupStarts, BackupEnds, Plan, BlobStarts,
                BlobEnds, MarkStarts, MarkEnds, Publish, ManifestStarts, ManifestEnds, Unmark, At
  <2>2. Known(p)' /\ \A s \in Sources : SessionFiles(s)'
    BY <1>2, <1>8, <2>1, MigrateKeepsKnown DEF Files
  <2> QED
    BY <1>4, <1>5, <2>1, <2>2, ProcsAssumption DEF Files
<1> QED
  BY <1>6, <1>7, <1>8 DEF OwnerActs

\* Serving touches no file of a migration.
LEMMA SpoilKeepsFiles ==
  ASSUME FileInv, NEW d \in Daemons, Spoil(d)
  PROVE  FileInv'
BY DEF Spoil, dirVars, fileVars, FileInv, Files, SessionFiles, Known, Hides

\* A client works in a session that its daemon does not hide, so it has a manifest.
LEMMA ContinueKeepsFiles ==
  ASSUME TypeInv, DirInv, FileInv, NEW d \in Daemons, NEW s \in Sources, Continue(d, s)
  PROVE  FileInv'
<1> SUFFICES ASSUME ~unchecked'  PROVE Files'
  BY DEF FileInv
<1>1. ~unchecked /\ Files /\ d \in Procs /\ Owns(d)
  BY DEF Continue, dirVars, FileInv, Procs, Owns
<1>2. \A m \in Migrations : pc[m] \notin Working
  BY <1>1, SoleOwner, ProcsAssumption DEF Procs
<1>3. manifest[s] # "absent"
  BY <1>1 DEF Files, SessionFiles, Hides, Serving, Continue
<1>4. \A x \in Sources : SessionFiles(x)'
  BY <1>1, <1>3 DEF Continue, Files, SessionFiles, TypeInv, TypeOK
<1>5. \A m \in Migrations : Known(m)'
  BY <1>2 DEF Continue, dirVars, Known, Working
<1>6. \A x \in Daemons : Hides(x)'
  BY <1>1 DEF Continue, dirVars, Files, Hides
<1> QED
  BY <1>4, <1>5, <1>6 DEF Files

(* The manifest is last: for any number of sessions, processes, kills and failed
   writes, a session with a manifest is complete, and clients never work in a
   session whose log a later run removes. *)
THEOREM ManifestIsLastHolds == Spec => []ManifestIsLast
<1>1. Init => FileInv
  BY ProcsAssumption DEF Init, DirInit, FileInv, Files, SessionFiles, Known, Hides, Serving, Procs
<1>2. TypeInv /\ TypeInv' /\ DirInv /\ FileInv /\ [Next]_vars => FileInv'
  <2> SUFFICES ASSUME TypeInv, TypeInv', DirInv, FileInv, [Next]_vars  PROVE FileInv'
    OBVIOUS
  <2>1. CASE UNCHANGED vars
    BY <2>1 DEF vars, dirVars, fileVars, FileInv, Files, SessionFiles, Known, Hides
  <2> QED
    BY <2>1, DirKeepsFiles, OwnerKeepsFiles, ContinueKeepsFiles, SpoilKeepsFiles, NextCases
<1>3. FileInv => ManifestIsLast
  BY DEF FileInv, Files, SessionFiles, ManifestIsLast
<1> QED
  BY <1>1, <1>2, <1>3, OwnershipHeld, PTL DEF Spec
=============================================================================
