------------------------------ MODULE EventLog ------------------------------
(***************************************************************************)
(* One session's canonical event log (packages/kernel/src/                 *)
(* jsonl-event-log.ts): the serialised appends with their partial writes,  *)
(* sync and rollback, the recovery an open performs, crashes, and the      *)
(* second JsonlEventLog that SessionManager.list opens on a session whose  *)
(* runtime is still being built.                                           *)
(*                                                                         *)
(* A line is two cells, its bytes and its newline, so that a write can     *)
(* stop between them.  Which bytes an event has is left out.               *)
(***************************************************************************)
EXTENDS Naturals, Sequences, FiniteSets

CONSTANTS
    Events,              \* canonical events, each appended at most once
    MaxCrashes,          \* bound: kills and power losses
    MaxRollbackFaults,   \* bound: appends whose rollback fails as well
    MaxListings          \* bound: concurrent list() reads

ASSUME LogAssumption ==
    /\ MaxCrashes \in Nat
    /\ MaxRollbackFaults \in Nat
    /\ MaxListings \in Nat

Hole == <<"hole">>               \* bytes a write past the end leaves behind
Body(e) == <<"body", e>>
Newline(e) == <<"newline", e>>
Line(e) == <<Body(e), Newline(e)>>
Cells == {Hole} \cup {Body(e) : e \in Events} \cup {Newline(e) : e \in Events}

VARIABLES
    file,      \* the cells of the log
    disk,      \* its cells at the last successful sync
    phase,     \* down, open or corrupt
    queue,     \* appends waiting in the promise chain, the head in progress
    before,    \* the size the head append found
    written,   \* how many of its cells it has written; 0 also before it starts
    started,   \* whether the head append has taken its size
    seen,      \* events the daemon holds: recovered or acknowledged, in order
    failed,    \* events whose append was rejected
    reading,   \* a listing has read the file and is about to cut its torn tail
    cut,       \* the clean length it found
    crashes, rollbackFaults, listings,
    retracted, \* a power loss took back an event recovery had shown
    intruded   \* a listing cut cells off the file

append  == <<queue, before, written, started>>
listing == <<reading, cut>>
bounds  == <<crashes, rollbackFaults, listings>>
history == <<retracted, intruded>>
vars    == <<file, disk, phase, append, seen, failed, listing, bounds, history>>

-----------------------------------------------------------------------------
(* decodeEventLogBytes *)

Newlines(f) == {i \in 1..Len(f) : f[i][1] = "newline"}

\* A committed line parses when it is exactly one event's bytes.
LineParses(f, i) ==
    /\ i >= 2
    /\ f[i - 1] = Body(f[i][2])
    /\ i = 2 \/ (i - 2) \in Newlines(f)

Decodable(f) == \A i \in Newlines(f) : LineParses(f, i)

CleanLength(f) ==
    IF Newlines(f) = {} THEN 0
    ELSE CHOOSE i \in Newlines(f) : \A j \in Newlines(f) : j <= i

\* Every line has two cells, so the lines of a decodable file end at its even places.
Decoded(f) == [n \in 1..(CleanLength(f) \div 2) |-> f[2 * n][2]]

Recorded(f) == {f[i][2] : i \in Newlines(f)}

-----------------------------------------------------------------------------

TypeOK ==
    /\ file \in Seq(Cells)
    /\ disk \in Seq(Cells)
    /\ phase \in {"down", "open", "corrupt"}
    /\ queue \in Seq(Events)
    /\ before \in Nat
    /\ written \in 0..2
    /\ started \in BOOLEAN
    /\ started \/ (before = 0 /\ written = 0)
    /\ seen \in Seq(Events)
    /\ failed \subseteq Events
    /\ reading \in BOOLEAN
    /\ cut \in Nat
    /\ crashes \in 0..MaxCrashes
    /\ rollbackFaults \in 0..MaxRollbackFaults
    /\ listings \in 0..MaxListings
    /\ retracted \in BOOLEAN
    /\ intruded \in BOOLEAN

Init ==
    /\ file = <<>>
    /\ disk = <<>>
    /\ phase = "down"
    /\ queue = <<>>
    /\ before = 0
    /\ written = 0
    /\ started = FALSE
    /\ seen = <<>>
    /\ failed = {}
    /\ reading = FALSE
    /\ cut = 0
    /\ crashes = 0
    /\ rollbackFaults = 0
    /\ listings = 0
    /\ retracted = FALSE
    /\ intruded = FALSE

\* pwrite: cells at a position, with a hole when the file ends before it.
WriteAt(f, position, cells) ==
    [i \in 1..(IF Len(f) > position + Len(cells) THEN Len(f) ELSE position + Len(cells)) |->
        IF i \in (position + 1)..(position + Len(cells)) THEN cells[i - position]
        ELSE IF i <= Len(f) THEN f[i]
        ELSE Hole]

\* ftruncate: shortens, or extends with a hole.
Truncate(f, size) == [i \in 1..size |-> IF i <= Len(f) THEN f[i] ELSE Hole]

\* Mutant: recovery decodes the committed lines and leaves the torn tail in place.
OpenKeepingTail ==
    /\ phase = "down"
    /\ phase' = IF Decodable(file) THEN "open" ELSE "corrupt"
    /\ seen' = IF Decodable(file) THEN Decoded(file) ELSE seen
    /\ UNCHANGED <<file, disk, append, failed, listing, bounds, history>>

\* open, readAndRecover: a bad committed line is corruption; the torn tail is cut durably.
\* Without one nothing is synced.
Open ==
    /\ phase = "down"
    /\ IF Decodable(file)
       THEN /\ phase' = "open"
            /\ seen' = Decoded(file)
            /\ IF CleanLength(file) < Len(file)
               THEN /\ file' = Truncate(file, CleanLength(file))
                    /\ disk' = file'
               ELSE UNCHANGED <<file, disk>>
       ELSE phase' = "corrupt" /\ UNCHANGED <<file, disk, seen>>
    /\ UNCHANGED <<append, failed, listing, bounds, history>>

\* append: redacts and checks the event, then takes its place in the chain.
Submit(e) ==
    /\ phase = "open"
    /\ e \notin failed \cup {queue[i] : i \in 1..Len(queue)} \cup Recorded(file)
    /\ queue' = Append(queue, e)
    /\ UNCHANGED <<file, disk, phase, before, written, started, seen, failed, listing, bounds, history>>

\* Mutant: the next append inherits the progress of this one.
SettleInheriting ==
    /\ queue' = Tail(queue)
    /\ before' = before
    /\ written' = written
    /\ started' = (Tail(queue) # <<>>)

\* The next append starts only when this one has settled.
Settle ==
    /\ queue' = Tail(queue)
    /\ before' = 0
    /\ written' = 0
    /\ started' = FALSE

\* prepareEvent or encodeCanonicalEvent rejects the event before the file is touched.
Refuse ==
    /\ phase = "open"
    /\ queue # <<>>
    /\ ~started
    /\ failed' = failed \cup {Head(queue)}
    /\ Settle
    /\ UNCHANGED <<file, disk, phase, seen, listing, bounds, history>>

\* Mutant: a failed append breaks the chain: nothing behind it starts any more.
BeginUnlessFailed ==
    /\ phase = "open"
    /\ queue # <<>>
    /\ ~started
    /\ failed = {}
    /\ started' = TRUE
    /\ before' = Len(file)
    /\ UNCHANGED <<file, disk, phase, queue, written, seen, failed, listing, bounds, history>>

Begin ==
    /\ phase = "open"
    /\ queue # <<>>
    /\ ~started
    /\ started' = TRUE
    /\ before' = Len(file)
    /\ UNCHANGED <<file, disk, phase, queue, written, seen, failed, listing, bounds, history>>

\* One handle.write of the loop: some of the remaining cells.
Write(n) ==
    /\ phase = "open"
    /\ started
    /\ n <= 2 - written
    /\ file' = WriteAt(file, before + written, SubSeq(Line(Head(queue)), written + 1, written + n))
    /\ written' = written + n
    /\ UNCHANGED <<disk, phase, queue, before, started, seen, failed, listing, bounds, history>>

Sync ==
    /\ phase = "open"
    /\ started
    /\ written = 2
    /\ disk' = file
    /\ seen' = Append(seen, Head(queue))
    /\ Settle
    /\ UNCHANGED <<file, phase, failed, listing, bounds, history>>

\* Mutant: a failed append is reported without restoring the previous length.
FailWithoutRollback ==
    /\ phase = "open"
    /\ started
    /\ failed' = failed \cup {Head(queue)}
    /\ Settle
    /\ UNCHANGED <<file, disk, phase, seen, listing, bounds, history>>

\* A write or the sync fails; the previous length is restored and synced.
FailRolledBack ==
    /\ phase = "open"
    /\ started
    /\ file' = Truncate(file, before)
    /\ disk' = file'
    /\ failed' = failed \cup {Head(queue)}
    /\ Settle
    /\ UNCHANGED <<phase, seen, listing, bounds, history>>

\* The rollback fails too, at its truncate or at its sync: an AggregateError, and the
\* chain goes on with the file as it is.
FailStuck ==
    /\ phase = "open"
    /\ started
    /\ rollbackFaults < MaxRollbackFaults
    /\ rollbackFaults' = rollbackFaults + 1
    /\ file' \in {file, Truncate(file, before)}
    /\ failed' = failed \cup {Head(queue)}
    /\ Settle
    /\ UNCHANGED <<disk, phase, seen, listing, crashes, listings, history>>

\* list(): a session that is not registered yet is read through its own JsonlEventLog.
ListRead ==
    /\ phase = "open"
    /\ listings < MaxListings
    /\ ~reading
    /\ listings' = listings + 1
    /\ Decodable(file)
    /\ CleanLength(file) < Len(file)
    /\ reading' = TRUE
    /\ cut' = CleanLength(file)
    /\ UNCHANGED <<file, disk, phase, append, seen, failed, crashes, rollbackFaults, history>>

ListTruncate ==
    /\ phase = "open"
    /\ reading
    /\ reading' = FALSE
    /\ cut' = 0
    /\ file' = Truncate(file, cut)
    /\ disk' = file'
    /\ intruded' = (intruded \/ file' # file)
    /\ UNCHANGED <<phase, append, seen, failed, bounds, retracted>>

-----------------------------------------------------------------------------

Exit ==
    /\ crashes < MaxCrashes
    /\ crashes' = crashes + 1
    /\ phase' = "down"
    /\ queue' = <<>>
    /\ before' = 0
    /\ written' = 0
    /\ started' = FALSE
    /\ reading' = FALSE
    /\ cut' = 0

\* The process ends; what it wrote stays in the page cache.
Kill ==
    /\ phase = "open"
    /\ Exit
    /\ UNCHANGED <<file, disk, seen, failed, rollbackFaults, listings, history>>

Extends(f, g) == Len(g) <= Len(f) /\ \A i \in 1..Len(g) : f[i] = g[i]

\* Cells written after the last sync may be lost from the end; an unsynced truncate may
\* or may not have reached the disk.
AfterPowerLoss ==
    IF Extends(file, disk) THEN {SubSeq(file, 1, n) : n \in Len(disk)..Len(file)}
    ELSE {file, disk}

PowerLoss ==
    /\ phase # "corrupt"
    /\ \E f \in AfterPowerLoss :
          /\ file' = f
          /\ disk' = f
          /\ retracted' = (retracted \/ Len(f) < 2 * Len(seen))
    /\ Exit
    /\ UNCHANGED <<seen, failed, rollbackFaults, listings, intruded>>

LogStep == Open \/ Begin \/ (\E n \in 1..2 : Write(n)) \/ Sync

Next ==
    \/ LogStep
    \/ \E e \in Events : Submit(e)
    \/ Refuse \/ FailRolledBack \/ FailStuck
    \/ ListRead \/ ListTruncate
    \/ Kill \/ PowerLoss

Spec == Init /\ [][Next]_vars

\* The event loop runs the chain and I/O completes, with success or failure.
FairSpec == Spec /\ WF_vars(LogStep)

-----------------------------------------------------------------------------
(* Properties *)

Undisturbed == rollbackFaults = 0 /\ ~retracted /\ ~intruded

\* An event the daemon holds stays in the file, in order, through partial writes, failed
\* appends, recoveries and crashes, and recovery never meets a line it cannot parse
\* (appendDurably, readAndRecover).
SeenSurvives ==
    Undisturbed =>
        /\ phase # "corrupt"
        /\ Decodable(file)
        /\ Len(seen) <= Len(Decoded(file))
        /\ \A i \in 1..Len(seen) : Decoded(file)[i] = seen[i]

\* An append that was rejected leaves no event behind: after any crash, no recovery
\* brings back an event whose producer was told it had failed (appendDurably's rollback).
FailedLeavesNoEvent ==
    Undisturbed => failed \cap (Recorded(file) \cup Recorded(disk)) = {}

\* Every append settles, after failures of its predecessors too: the chain stays usable.
AppendsSettle ==
    \A e \in Events :
        (\E i \in 1..Len(queue) : queue[i] = e) ~> (\A i \in 1..Len(queue) : queue[i] # e)

\* DEVELOPMENT_GUIDE.md: "The log is append-only during normal operation."
SeenStaysRecorded ==
    crashes = 0 /\ rollbackFaults = 0 =>
        \A i \in 1..Len(seen) : seen[i] \in Recorded(file)

=============================================================================
