--------------------------- MODULE DataDirectory ---------------------------
(***************************************************************************)
(* Who owns an Axl data directory. Every daemon and every offline tool     *)
(* (axl session migrate-events, export --raw) is a process that must own   *)
(* .axl-data.lock before it touches the directory; a daemon also listens   *)
(* on one socket path. Processes start in any order, end by themselves or  *)
(* are killed at any step; a killed one leaves its lock record and its     *)
(* socket file behind, and the next one takes them over.                   *)
(*                                                                         *)
(* One action is what a process does up to its next await. A process is a  *)
(* process LIFE: its pid and the token of its lock record are its name, so *)
(* a pid that the system hands out again is not modelled. What an owner    *)
(* does between taking the lock and giving it back is EventMigration's.    *)
(*                                                                         *)
(* Reading a record or a socket and removing the file are two steps, and   *)
(* the removal takes whatever file is there by then. "unchecked" records   *)
(* that a removal took another file than the one that was looked at.       *)
(***************************************************************************)
EXTENDS Naturals, FiniteSets

CONSTANTS Daemons,      \* processes that run axl daemon
          Migrations,   \* processes that run an offline command
          None

Procs == Daemons \cup Migrations

ASSUME ProcsAssumption == /\ Daemons \cap Migrations = {}
                          /\ None \notin Procs

VARIABLES lock,       \* the process named in .axl-data.lock, or None
          socket,     \* the process whose listener made the socket file, or None
          pc,         \* where each process is
          seen,       \* the record or the socket file a process looked at last
          attempt,    \* acquire()'s loop counter
          unchecked   \* a removal took a file that nobody had looked at

dirVars == <<lock, socket, pc, seen, attempt, unchecked>>

\* The order of a start, of an offline command's work, and of a stop.
Starting == {"probe", "recheck", "clearPath", "link", "read", "reread", "clearLock"}
Opening  == {"owner", "journal", "listen", "identify"}
Working  == {"backup", "backupWrite", "plan", "blob", "blobWrite", "mark",
             "markWrite", "publish", "manifest", "manifestWrite", "unmark"}
Leaving  == {"stop", "release", "unbind", "closeFailed"}
Labels   == {"idle", "running", "close", "stuck", "ended", "killed"}
            \cup Starting \cup Opening \cup Working \cup Leaving

Ended(p) == pc[p] \in {"ended", "killed"}
Alive(p) == pc[p] \notin {"idle", "ended", "killed"}

\* A process between the link that made the record and the release of it.
Owns(p) == pc[p] \in Opening \cup Working \cup {"running", "stop", "release", "closeFailed"}

\* The listener of a process accepts connections until server.close.
Listens(p) == pc[p] \in {"identify", "running", "stop", "unbind", "close", "closeFailed", "stuck"}

\* What a process remembers is where it is, what it looked at and its attempt;
\* nothing of it matters once the process has ended.
Set(p, label, looked, n) ==
  /\ pc' = [pc EXCEPT ![p] = label]
  /\ seen' = [seen EXCEPT ![p] = looked]
  /\ attempt' = [attempt EXCEPT ![p] = n]

GoTo(p, label) ==
  IF label \in {"ended", "killed"} THEN Set(p, label, None, 0)
                                   ELSE Set(p, label, seen[p], attempt[p])

-----------------------------------------------------------------------------
(* DataDirectoryLock.acquire *)

\* Mutant: the loop runs once.
NextAttemptNever(p) == GoTo(p, "ended")

\* The end of one pass of the loop: two passes, then acquire gives up.
NextAttempt(p) ==
  IF attempt[p] = 0 THEN Set(p, "link", None, 1) ELSE GoTo(p, "ended")

\* link(candidate, path) makes the record only when there is none.
Link(p) ==
  /\ pc[p] = "link"
  /\ IF lock = None THEN lock' = p /\ Set(p, "owner", None, 0)
                    ELSE lock' = lock /\ GoTo(p, "read")
  /\ UNCHANGED <<socket, unchecked>>

\* Mutant: the owner's pid is not looked at.
ReadAnyOwner(p) ==
  /\ pc[p] = "read"
  /\ \/ lock = None /\ NextAttempt(p)
     \/ lock # None /\ Set(p, "reread", lock, attempt[p])
  /\ UNCHANGED <<lock, socket, unchecked>>

\* EEXIST: a record of a live process refuses the start, a vanished one is
\* tried again, a dead process's is read once more.
Read(p) ==
  /\ pc[p] = "read"
  /\ \/ lock = None /\ NextAttempt(p)
     \/ lock # None /\ Alive(lock) /\ GoTo(p, "ended")
     \/ lock # None /\ ~Alive(lock) /\ Set(p, "reread", lock, attempt[p])
  /\ UNCHANGED <<lock, socket, unchecked>>

Reread(p) ==
  /\ pc[p] = "reread"
  /\ GoTo(p, IF lock = seen[p] THEN "clearLock" ELSE "ended")
  /\ UNCHANGED <<lock, socket, unchecked>>

\* unlink(path) of the dead process's record; ENOENT fails the start.
ClearLock(p) ==
  /\ pc[p] = "clearLock"
  /\ IF lock = None THEN GoTo(p, "ended") ELSE NextAttempt(p)
  /\ lock' = None
  /\ unchecked' = (unchecked \/ lock \notin {None, seen[p]})
  /\ UNCHANGED socket

Acquire(p) == Link(p) \/ Read(p) \/ Reread(p) \/ ClearLock(p)

\* release(): the record must be there and be one's own. stop() lets a missing
\* record pass; a daemon whose stop fails stays, listening, in state "failed". The
\* read and the removal are one step: a live process's record only goes by itself
\* unless "unchecked" already holds.
Release(p) ==
  /\ pc[p] \in {"stop", "release"}
  /\ lock' = IF lock = p THEN None ELSE lock
  /\ GoTo(p, IF pc[p] = "release" THEN "ended"
             ELSE IF lock \in {p, None} THEN "unbind" ELSE "stuck")
  /\ UNCHANGED <<socket, unchecked>>

-----------------------------------------------------------------------------
(* Daemon.start and Daemon.stop *)

\* start(): removeStaleSocket looks at the path first.
StartDaemon(p) ==
  /\ pc[p] = "idle" /\ p \in Daemons
  /\ Set(p, IF socket = None THEN "link" ELSE "probe", socket, 0)
  /\ UNCHANGED <<lock, socket, unchecked>>

StartMigration(p) ==
  /\ pc[p] = "idle" /\ p \in Migrations
  /\ GoTo(p, "link")
  /\ UNCHANGED <<lock, socket, unchecked>>

\* socketIsLive: somebody accepts, or ECONNREFUSED and ENOENT say nobody does.
Probe(p) ==
  /\ pc[p] = "probe"
  /\ GoTo(p, IF socket # None /\ Listens(socket) THEN "ended" ELSE "recheck")
  /\ UNCHANGED <<lock, socket, unchecked>>

\* The path must still hold the file that was looked at.
Recheck(p) ==
  /\ pc[p] = "recheck"
  /\ GoTo(p, IF socket = seen[p] THEN "clearPath" ELSE "ended")
  /\ UNCHANGED <<lock, socket, unchecked>>

ClearPath(p) ==
  /\ pc[p] = "clearPath"
  /\ IF socket = None THEN GoTo(p, "ended") ELSE Set(p, "link", None, 0)
  /\ socket' = None
  /\ unchecked' = (unchecked \/ socket \notin {None, seen[p]})
  /\ UNCHANGED lock

\* listen(socketPath): EADDRINUSE when the path exists, and the start is undone.
Listen(p) ==
  /\ pc[p] = "listen"
  /\ IF socket = None THEN socket' = p /\ GoTo(p, "identify")
                      ELSE socket' = socket /\ GoTo(p, "release")
  /\ UNCHANGED <<lock, unchecked>>

\* lstat and chmod of the fresh socket file; the file found is "its own".
Identify(p) ==
  /\ pc[p] = "identify"
  /\ Set(p, IF socket = None THEN "closeFailed" ELSE "running", socket, 0)
  /\ UNCHANGED <<lock, socket, unchecked>>

\* stop(): the operations end and the sessions are disposed before the release.
Stop(p) ==
  /\ pc[p] = "running"
  /\ GoTo(p, "stop")
  /\ UNCHANGED <<lock, socket, unchecked>>

\* removeOwnedSocket: the file is removed when it is still the one identified (one
\* step, since nobody removes the file of a daemon that still accepts).
Unbind(p) ==
  /\ pc[p] = "unbind"
  /\ socket' = IF socket = seen[p] THEN None ELSE socket
  /\ GoTo(p, "close")
  /\ UNCHANGED <<lock, unchecked>>

\* server.close: the runtime removes the path it bound, whosever file is there.
Close(p) ==
  /\ pc[p] \in {"close", "closeFailed"}
  /\ socket' = None
  /\ unchecked' = (unchecked \/ socket \notin {None, p})
  /\ GoTo(p, IF pc[p] = "close" THEN "ended" ELSE "release")
  /\ UNCHANGED lock

Start(p) == StartDaemon(p) \/ StartMigration(p)
Bind(p) == Probe(p) \/ Recheck(p) \/ ClearPath(p) \/ Listen(p) \/ Identify(p)
Leave(p) == Release(p) \/ Unbind(p) \/ Close(p)

\* A kill, at any await: the record and the socket file stay.
Kill(p) ==
  /\ Alive(p)
  /\ GoTo(p, "killed")
  /\ UNCHANGED <<lock, socket, unchecked>>

DirInit ==
  /\ lock = None
  /\ socket = None
  /\ pc = [p \in Procs |-> "idle"]
  /\ seen = [p \in Procs |-> None]
  /\ attempt = [p \in Procs |-> 0]
  /\ unchecked = FALSE

DirTypeOK ==
  /\ lock \in Procs \cup {None}
  /\ socket \in Daemons \cup {None}
  /\ pc \in [Procs -> Labels]
  /\ seen \in [Procs -> Procs \cup {None}]
  /\ attempt \in [Procs -> 0..1]
  /\ unchecked \in BOOLEAN

-----------------------------------------------------------------------------
(* A single owner: "A single daemon owns the model loop, tools, policy, and
   canonical event history" (README.md). The lock record names the one live
   process that works on the directory, and a running daemon is the one that
   clients reach at the path, through kills, takeovers and stops, as long as
   every removal took the file that its process had looked at. *)
Authority ==
  ~unchecked =>
     /\ \A p \in Procs : Owns(p) => lock = p
     /\ \A p \in Daemons : pc[p] \in {"running", "stop"} => socket = p

(* Not so (see the README): two takeovers of one dead owner may both succeed. *)
SingleOwner == \A p, q \in Procs : Owns(p) /\ Owns(q) => p = q
=============================================================================
