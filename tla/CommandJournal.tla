--------------------------- MODULE CommandJournal ---------------------------
(***************************************************************************)
(* The durable command journal (packages/daemon/src/command-journal.ts),   *)
(* the daemon start and stop that drive it (daemon.ts) and the session     *)
(* effects it guards, reduced to the canonical evidence that restart       *)
(* reconciliation looks for (session-manager.ts).                          *)
(*                                                                         *)
(* Every step between two awaits is one action.  A kill ends the process   *)
(* and keeps the page cache; a power loss also drops any suffix of the     *)
(* journal that was never synced.  Session logs sync every event before    *)
(* they report it (JsonlEventLog), so evidence survives both.              *)
(***************************************************************************)
EXTENDS Naturals, Sequences, FiniteSets

CONSTANTS
    Keys,         \* idempotency keys
    Hashes,       \* canonical request hashes
    Calls,        \* execute() calls; a retry is another call with the same key
    Results,      \* validated results an effect may return
    Kind,         \* what recovery can conclude from the evidence, per key's method
    None,         \* undefined
    MaxBoots,     \* bound: daemon starts in one behaviour
    MaxIoFaults   \* bound: failing journal appends in one behaviour

Kinds == {"turn", "marker", "redo", "unproven"}
Outcomes == Results \cup {"aborted", "failed"}
Replies == Outcomes \cup {"idempotency_conflict", "internal_error"}
Stages == {"absent", "started"}
Evidence == Stages \cup Results \cup {"aborted"}

ASSUME JournalAssumption ==
    /\ Kind \in [Keys -> Kinds]
    /\ None \notin Keys \cup Hashes \cup Calls \cup Replies
    /\ Results \cap ({"aborted", "failed", "idempotency_conflict", "internal_error"} \cup Stages) = {}
    /\ MaxBoots \in Nat
    /\ MaxIoFaults \in Nat

VARIABLES
    lines,        \* commands.jsonl: its newline-terminated lines
    torn,         \* whether unterminated bytes follow the last line
    synced,       \* how many lines are known to be on disk
    phase,        \* daemon: down, reconciling, serving, stopping or corrupt
    bound,        \* entries: the request hash accepted under a key
    completion,   \* entries: the terminal outcome
    running,      \* entries: the call whose effect is in flight
    todo,         \* keys reconcile has not concluded
    recovering,   \* the key whose recovered outcome reconcile is appending
    tail,         \* the promise chain that serialises journal operations
    writing,      \* the operation at the head has written its line and not synced it
    pc,           \* where each execute() call is
    key,          \* the key of a call
    hash,         \* the request hash of a call
    reply,        \* what the call settles with
    evidence,     \* canonical events carrying the key as operation ID
    starts,       \* how often the effect of a key began to leave evidence
    boots,        \* environment history: daemon starts,
    ioFaults,     \* failed appends,
    relied,       \* how many lines the daemon has synced or replayed,
    retracted     \* and whether a power loss ever took such a line back

file    == <<lines, torn, synced>>
entries == <<bound, completion, running>>
startup == <<todo, recovering>>
chain   == <<tail, writing>>
calls   == <<pc, key, hash, reply>>
effects == <<evidence, starts>>
history == <<boots, ioFaults, relied, retracted>>
vars    == <<file, phase, entries, startup, chain, calls, effects, history>>

Pending == {"accepting", "joined", "effect", "marked", "completing"}

\* reconcileAcceptedMutation has no branch for session.compact and the extension methods:
\* it answers undefined whatever evidence they left.
Provable(k) == Kind[k] # "unproven"

\* Effects that leave a first event long before they are over.
Lasting(k) == Kind[k] \in {"turn", "unproven"}

-----------------------------------------------------------------------------
(* The file *)

Accepted(k, h) == [type |-> "accepted", key |-> k, hash |-> h, outcome |-> None]
Terminal(k, o) == [type |-> "terminal", key |-> k, hash |-> None, outcome |-> o]
Garbage        == [type |-> "garbage", key |-> None, hash |-> None, outcome |-> None]

Records == [type : {"accepted", "terminal", "garbage"}, key : Keys \cup {None},
            hash : Hashes \cup {None}, outcome : Outcomes \cup {None}]

\* appendSynced opens with O_APPEND: bytes left by an earlier failed write join the
\* new line, which no longer parses.
Written(r) == Append(lines, IF torn THEN Garbage ELSE r)

IsAcceptanceOf(r, k) == r.type = "accepted" /\ r.key = k
IsTerminalOf(r, k) == r.type = "terminal" /\ r.key = k

\* What open() insists on while it replays the lines.
Readable(file0) ==
    \A i \in 1..Len(file0) :
        /\ file0[i].type # "garbage"
        /\ file0[i].type = "accepted" =>
              \A j \in 1..(i - 1) : ~IsAcceptanceOf(file0[j], file0[i].key)
        /\ file0[i].type = "terminal" =>
              /\ \E j \in 1..(i - 1) : IsAcceptanceOf(file0[j], file0[i].key)
              /\ \A j \in 1..(i - 1) : ~IsTerminalOf(file0[j], file0[i].key)

AcceptanceIn(file0, k) == {i \in 1..Len(file0) : IsAcceptanceOf(file0[i], k)}
TerminalIn(file0, k)   == {i \in 1..Len(file0) : IsTerminalOf(file0[i], k)}

\* The entry open() rebuilds for a key.
ReplayedHash(file0, k) ==
    IF AcceptanceIn(file0, k) = {} THEN None
    ELSE file0[CHOOSE i \in AcceptanceIn(file0, k) : TRUE].hash
ReplayedOutcome(file0, k) ==
    IF TerminalIn(file0, k) = {} THEN None
    ELSE file0[CHOOSE i \in TerminalIn(file0, k) : TRUE].outcome

-----------------------------------------------------------------------------
(* Daemon start: open the journal, reconcile, listen *)

TypeOK ==
    /\ lines \in Seq(Records)
    /\ torn \in BOOLEAN
    /\ synced \in 0..Len(lines)
    /\ phase \in {"down", "reconciling", "serving", "stopping", "corrupt"}
    /\ bound \in [Keys -> Hashes \cup {None}]
    /\ completion \in [Keys -> Outcomes \cup {None}]
    /\ running \in [Keys -> Calls \cup {None}]
    /\ todo \subseteq Keys
    /\ recovering \in Keys \cup {None}
    /\ tail \in Seq([op : {"accept", "complete"}, call : Calls])
    /\ writing \in BOOLEAN
    /\ pc \in [Calls -> Pending \cup {"idle", "answered", "lost"}]
    /\ key \in [Calls -> Keys \cup {None}]
    /\ hash \in [Calls -> Hashes \cup {None}]
    /\ reply \in [Calls -> Replies \cup {None}]
    /\ evidence \in [Keys -> Evidence]
    /\ starts \in [Keys -> Nat]
    /\ boots \in 0..MaxBoots
    /\ ioFaults \in 0..MaxIoFaults
    /\ relied \in Nat
    /\ retracted \in BOOLEAN

Init ==
    /\ lines = <<>>
    /\ torn = FALSE
    /\ synced = 0
    /\ phase = "down"
    /\ bound = [k \in Keys |-> None]
    /\ completion = [k \in Keys |-> None]
    /\ running = [k \in Keys |-> None]
    /\ todo = {}
    /\ recovering = None
    /\ tail = <<>>
    /\ writing = FALSE
    /\ pc = [c \in Calls |-> "idle"]
    /\ key = [c \in Calls |-> None]
    /\ hash = [c \in Calls |-> None]
    /\ reply = [c \in Calls |-> None]
    /\ evidence = [k \in Keys |-> "absent"]
    /\ starts = [k \in Keys |-> 0]
    /\ boots = 0
    /\ ioFaults = 0
    /\ relied = 0
    /\ retracted = FALSE

\* Mutant: an unterminated tail stays in the file.
OpenWithoutRepair ==
    /\ phase = "down"
    /\ boots < MaxBoots
    /\ boots' = boots + 1
    /\ UNCHANGED file
    /\ phase' = IF Readable(lines) THEN "reconciling" ELSE "corrupt"
    /\ bound' = [k \in Keys |-> ReplayedHash(lines, k)]
    /\ completion' = [k \in Keys |-> ReplayedOutcome(lines, k)]
    /\ todo' = {k \in Keys : ReplayedHash(lines, k) # None /\ ReplayedOutcome(lines, k) = None}
    /\ relied' = Len(lines)
    /\ UNCHANGED <<running, recovering, chain, calls, effects, ioFaults, retracted>>

\* The torn tail is cut and the cut synced before the lines are parsed.
Open ==
    /\ phase = "down"
    /\ boots < MaxBoots
    /\ boots' = boots + 1
    /\ torn' = FALSE
    /\ synced' = IF torn THEN Len(lines) ELSE synced
    /\ phase' = IF Readable(lines) THEN "reconciling" ELSE "corrupt"
    /\ bound' = [k \in Keys |-> ReplayedHash(lines, k)]
    /\ completion' = [k \in Keys |-> ReplayedOutcome(lines, k)]
    /\ todo' = {k \in Keys : ReplayedHash(lines, k) # None /\ ReplayedOutcome(lines, k) = None}
    /\ relied' = Len(lines)
    /\ UNCHANGED <<lines, running, recovering, chain, calls, effects, ioFaults, retracted>>

\* reconcile: recover() answers undefined, because it finds no evidence or knows none for
\* the method, so the entry stays open and the key may still execute.
ReconcileOpen(k) ==
    /\ phase = "reconciling"
    /\ recovering = None
    /\ k \in todo
    /\ ~Provable(k) \/ (evidence[k] = "absent" /\ Kind[k] # "redo")
    /\ todo' = todo \ {k}
    /\ UNCHANGED <<file, phase, entries, recovering, chain, calls, effects, history>>

\* recover() acts before it answers: abortRecoveredTurn closes a started turn, and
\* session.delete and session.interrupt are carried out again.
ReconcileAct(k) ==
    /\ phase = "reconciling"
    /\ recovering = None
    /\ k \in todo
    /\ \/ /\ evidence[k] = "started"
          /\ Provable(k)
          /\ evidence' = [evidence EXCEPT ![k] = "aborted"]
       \/ /\ evidence[k] = "absent"
          /\ Kind[k] = "redo"
          /\ \E r \in Results : evidence' = [evidence EXCEPT ![k] = r]
    /\ UNCHANGED <<file, phase, entries, startup, chain, calls, starts, history>>

\* Mutant: a turn that only started is journaled as if it had ended.
ReconcileWriteStarted(k) ==
    /\ phase = "reconciling"
    /\ recovering = None
    /\ k \in todo
    /\ Provable(k)
    /\ evidence[k] # "absent"
    /\ lines' = Written(Terminal(k, evidence[k]))
    /\ torn' = FALSE
    /\ recovering' = k
    /\ UNCHANGED <<synced, phase, entries, todo, chain, calls, effects, history>>

ReconcileWrite(k) ==
    /\ phase = "reconciling"
    /\ recovering = None
    /\ k \in todo
    /\ Provable(k)
    /\ evidence[k] \notin Stages
    /\ lines' = Written(Terminal(k, evidence[k]))
    /\ torn' = FALSE
    /\ recovering' = k
    /\ UNCHANGED <<synced, phase, entries, todo, chain, calls, effects, history>>

ReconcileSync(k) ==
    /\ recovering = k
    /\ synced' = Len(lines)
    /\ relied' = Len(lines)
    /\ completion' = [completion EXCEPT ![k] = evidence[k]]
    /\ todo' = todo \ {k}
    /\ recovering' = None
    /\ UNCHANGED <<lines, torn, phase, bound, running, chain, calls, effects, boots, ioFaults, retracted>>

\* Mutant: the daemon listens while entries are still to be reconciled.
ServeEarly ==
    /\ phase = "reconciling"
    /\ recovering = None
    /\ phase' = "serving"
    /\ todo' = {}
    /\ UNCHANGED <<file, entries, recovering, chain, calls, effects, history>>

\* Requests are accepted only once every entry has been through recover().
Serve ==
    /\ phase = "reconciling"
    /\ todo = {}
    /\ phase' = "serving"
    /\ UNCHANGED <<file, entries, startup, chain, calls, effects, history>>

-----------------------------------------------------------------------------
(* execute() *)

AtHead(op, c) == tail # <<>> /\ Head(tail) = [op |-> op, call |-> c]

Submit(c, k, h) ==
    /\ phase = "serving"
    /\ pc[c] = "idle"
    /\ pc' = [pc EXCEPT ![c] = "accepting"]
    /\ key' = [key EXCEPT ![c] = k]
    /\ hash' = [hash EXCEPT ![c] = h]
    /\ tail' = Append(tail, [op |-> "accept", call |-> c])
    /\ UNCHANGED <<file, phase, entries, startup, writing, reply, effects, history>>

AcceptConflict(c) ==
    /\ AtHead("accept", c)
    /\ ~writing
    /\ bound[key[c]] \notin {None, hash[c]}
    /\ tail' = Tail(tail)
    /\ pc' = [pc EXCEPT ![c] = "answered"]
    /\ reply' = [reply EXCEPT ![c] = "idempotency_conflict"]
    /\ UNCHANGED <<file, phase, entries, startup, writing, key, hash, effects, history>>

\* Mutant: the request hash is not compared.
AcceptSettledAnyHash(c) ==
    /\ AtHead("accept", c)
    /\ ~writing
    /\ completion[key[c]] # None
    /\ pc' = [pc EXCEPT ![c] = "answered"]
    /\ reply' = [reply EXCEPT ![c] = completion[key[c]]]
    /\ tail' = Tail(tail)
    /\ UNCHANGED <<file, phase, entries, startup, writing, key, hash, effects, history>>

\* The entry exists with this request: replay its completion or join its effect.
AcceptSettled(c) ==
    /\ AtHead("accept", c)
    /\ ~writing
    /\ bound[key[c]] = hash[c]
    /\ \/ /\ completion[key[c]] # None
          /\ pc' = [pc EXCEPT ![c] = "answered"]
          /\ reply' = [reply EXCEPT ![c] = completion[key[c]]]
       \/ /\ completion[key[c]] = None
          /\ running[key[c]] # None
          /\ pc' = [pc EXCEPT ![c] = "joined"]
          /\ UNCHANGED reply
    /\ tail' = Tail(tail)
    /\ UNCHANGED <<file, phase, entries, startup, writing, key, hash, effects, history>>

\* The effect is dispatch(), which refuses to begin anything once stop() was called;
\* the refusal is journaled like any other failure.
StartEffect(c, rest) ==
    /\ running' = [running EXCEPT ![key[c]] = c]
    /\ IF phase = "serving"
       THEN /\ pc' = [pc EXCEPT ![c] = "effect"]
            /\ tail' = rest
            /\ UNCHANGED reply
       ELSE /\ pc' = [pc EXCEPT ![c] = "completing"]
            /\ reply' = [reply EXCEPT ![c] = "failed"]
            /\ tail' = Append(rest, [op |-> "complete", call |-> c])

\* Mutant: a concurrent retry does not look for the running effect.
AcceptOpenUnjoined(c) ==
    /\ AtHead("accept", c)
    /\ ~writing
    /\ bound[key[c]] = hash[c]
    /\ completion[key[c]] = None
    /\ StartEffect(c, Tail(tail))
    /\ UNCHANGED <<file, phase, bound, completion, startup, writing, key, hash, effects, history>>

\* The entry exists but nothing runs it: an acceptance that recovery left open, or one
\* whose terminal record could not be appended.
AcceptOpenEntry(c) ==
    /\ AtHead("accept", c)
    /\ ~writing
    /\ bound[key[c]] = hash[c]
    /\ completion[key[c]] = None
    /\ running[key[c]] = None
    /\ StartEffect(c, Tail(tail))
    /\ UNCHANGED <<file, phase, bound, completion, startup, writing, key, hash, effects, history>>

AcceptWrite(c) ==
    /\ AtHead("accept", c)
    /\ ~writing
    /\ bound[key[c]] = None
    /\ lines' = Written(Accepted(key[c], hash[c]))
    /\ torn' = FALSE
    /\ writing' = TRUE
    /\ UNCHANGED <<synced, phase, entries, startup, tail, calls, effects, history>>

AcceptSync(c) ==
    /\ AtHead("accept", c)
    /\ writing
    /\ synced' = Len(lines)
    /\ relied' = Len(lines)
    /\ bound' = [bound EXCEPT ![key[c]] = hash[c]]
    /\ writing' = FALSE
    /\ StartEffect(c, Tail(tail))
    /\ UNCHANGED <<lines, torn, phase, completion, startup, key, hash, effects, boots, ioFaults, retracted>>

\* The first canonical event carrying the operation ID.  For a turn it is the user
\* message; for the methods recovery knows a marker of, that event is the whole effect.
Mark(c) ==
    /\ pc[c] = "effect"
    /\ pc' = [pc EXCEPT ![c] = "marked"]
    /\ starts' = [starts EXCEPT ![key[c]] = @ + 1]
    /\ \E e \in IF Lasting(key[c]) THEN {"started"} ELSE Results :
          evidence' = [evidence EXCEPT ![key[c]] = e]
    /\ UNCHANGED <<file, phase, entries, startup, chain, key, hash, reply, history>>

\* The effect's promise settles and the terminal record joins the chain.
EffectReturn(c) ==
    /\ pc[c] = "marked"
    /\ pc' = [pc EXCEPT ![c] = "completing"]
    /\ tail' = Append(tail, [op |-> "complete", call |-> c])
    /\ \E r \in IF Lasting(key[c]) THEN Results ELSE {evidence[key[c]]} :
          /\ evidence' = [evidence EXCEPT ![key[c]] = r]
          /\ reply' = [reply EXCEPT ![c] = r]
    /\ UNCHANGED <<file, phase, entries, startup, writing, key, hash, starts, history>>

\* An effect that throws: refused before any event, or failed part way.
EffectFail(c) ==
    /\ \/ pc[c] = "effect"
       \/ pc[c] = "marked" /\ Lasting(key[c])
    /\ pc' = [pc EXCEPT ![c] = "completing"]
    /\ tail' = Append(tail, [op |-> "complete", call |-> c])
    /\ reply' = [reply EXCEPT ![c] = "failed"]
    /\ UNCHANGED <<file, phase, entries, startup, writing, key, hash, effects, history>>

CompleteWrite(c) ==
    /\ AtHead("complete", c)
    /\ ~writing
    /\ lines' = Written(Terminal(key[c], reply[c]))
    /\ torn' = FALSE
    /\ writing' = TRUE
    /\ UNCHANGED <<synced, phase, entries, startup, tail, calls, effects, history>>

\* The call whose effect settled, and the calls that joined it.
Settling(c) == {c} \cup {d \in Calls : pc[d] = "joined" /\ key[d] = key[c]}

\* Mutant: the outcome is published before its record is synced.
CompleteUnsynced(c) ==
    /\ AtHead("complete", c)
    /\ writing
    /\ completion' = [completion EXCEPT ![key[c]] = reply[c]]
    /\ running' = [running EXCEPT ![key[c]] = None]
    /\ pc' = [d \in Calls |-> IF d \in Settling(c) THEN "answered" ELSE pc[d]]
    /\ reply' = [d \in Calls |-> IF d \in Settling(c) THEN reply[c] ELSE reply[d]]
    /\ tail' = Tail(tail)
    /\ writing' = FALSE
    /\ UNCHANGED <<file, phase, bound, startup, key, hash, effects, history>>

\* Mutant: the calls that joined the effect are left waiting.
CompleteAlone(c) ==
    /\ AtHead("complete", c)
    /\ writing
    /\ synced' = Len(lines)
    /\ relied' = Len(lines)
    /\ completion' = [completion EXCEPT ![key[c]] = reply[c]]
    /\ running' = [running EXCEPT ![key[c]] = None]
    /\ pc' = [pc EXCEPT ![c] = "answered"]
    /\ tail' = Tail(tail)
    /\ writing' = FALSE
    /\ UNCHANGED <<lines, torn, phase, bound, startup, key, hash, reply, effects, boots, ioFaults, retracted>>

CompleteSync(c) ==
    /\ AtHead("complete", c)
    /\ writing
    /\ synced' = Len(lines)
    /\ relied' = Len(lines)
    /\ completion' = [completion EXCEPT ![key[c]] = reply[c]]
    /\ running' = [running EXCEPT ![key[c]] = None]
    /\ pc' = [d \in Calls |-> IF d \in Settling(c) THEN "answered" ELSE pc[d]]
    /\ reply' = [d \in Calls |-> IF d \in Settling(c) THEN reply[c] ELSE reply[d]]
    /\ tail' = Tail(tail)
    /\ writing' = FALSE
    /\ UNCHANGED <<lines, torn, phase, bound, startup, key, hash, effects, boots, ioFaults, retracted>>

-----------------------------------------------------------------------------
(* Failing appends, stop, kill, power loss *)

\* A failed appendSynced leaves what it wrote: nothing, part of a line, or (when only
\* the sync failed) a whole line.  The caller sees the error and nothing is undone.
Leftover == IF writing \/ recovering # None THEN UNCHANGED torn ELSE torn' \in {torn, TRUE}

AppendFaultAccept(c) ==
    /\ AtHead("accept", c)
    /\ bound[key[c]] = None
    /\ ioFaults < MaxIoFaults
    /\ ioFaults' = ioFaults + 1
    /\ Leftover
    /\ pc' = [pc EXCEPT ![c] = "answered"]
    /\ reply' = [reply EXCEPT ![c] = "internal_error"]
    /\ tail' = Tail(tail)
    /\ writing' = FALSE
    /\ UNCHANGED <<lines, synced, phase, entries, startup, key, hash, effects, boots, relied, retracted>>

\* The running promise rejects and is forgotten while the entry has no completion.
AppendFaultComplete(c) ==
    /\ AtHead("complete", c)
    /\ ioFaults < MaxIoFaults
    /\ ioFaults' = ioFaults + 1
    /\ Leftover
    /\ running' = [running EXCEPT ![key[c]] = None]
    /\ pc' = [d \in Calls |-> IF d \in Settling(c) THEN "answered" ELSE pc[d]]
    /\ reply' = [d \in Calls |-> IF d \in Settling(c) THEN "internal_error" ELSE reply[d]]
    /\ tail' = Tail(tail)
    /\ writing' = FALSE
    /\ UNCHANGED <<lines, synced, phase, bound, completion, startup, key, hash, effects, boots, relied, retracted>>

\* The process is gone: its memory with it, and its clients' calls are cut off.
Exit ==
    /\ phase' = "down"
    /\ bound' = [k \in Keys |-> None]
    /\ completion' = [k \in Keys |-> None]
    /\ running' = [k \in Keys |-> None]
    /\ todo' = {}
    /\ recovering' = None
    /\ tail' = <<>>
    /\ writing' = FALSE
    /\ pc' = [c \in Calls |-> IF pc[c] \in Pending THEN "lost" ELSE pc[c]]
    /\ UNCHANGED <<key, hash, reply, effects, boots>>

\* start() rejects when a recovered outcome cannot be appended.
AppendFaultReconcile ==
    /\ phase = "reconciling"
    /\ todo # {}
    /\ ioFaults < MaxIoFaults
    /\ ioFaults' = ioFaults + 1
    /\ Leftover
    /\ Exit
    /\ UNCHANGED <<lines, synced, relied, retracted>>

BeginStop ==
    /\ phase = "serving"
    /\ phase' = "stopping"
    /\ UNCHANGED <<file, entries, startup, chain, calls, effects, history>>

\* finishShutdown waits for every admitted request before the daemon ends.
FinishStop ==
    /\ phase = "stopping"
    /\ \A c \in Calls : pc[c] \notin Pending
    /\ Exit
    /\ UNCHANGED <<file, ioFaults, relied, retracted>>

AppendInFlight == (tail # <<>> \/ todo # {}) /\ ~writing /\ recovering = None

Kill ==
    /\ phase \in {"reconciling", "serving", "stopping"}
    /\ torn' \in IF AppendInFlight THEN {torn, TRUE} ELSE {torn}
    /\ Exit
    /\ UNCHANGED <<lines, synced, ioFaults, relied, retracted>>

PowerLoss ==
    /\ phase # "corrupt"
    /\ \E n \in synced..Len(lines) :
          /\ lines' = SubSeq(lines, 1, n)
          /\ synced' = n
          /\ relied' = n
          /\ retracted' = (retracted \/ n < relied)
          /\ torn' \in IF n < Len(lines) \/ AppendInFlight THEN BOOLEAN ELSE {FALSE, torn}
    /\ Exit
    /\ UNCHANGED ioFaults

-----------------------------------------------------------------------------

DaemonStep ==
    \/ Open \/ Serve
    \/ \E k \in Keys : ReconcileOpen(k) \/ ReconcileAct(k) \/ ReconcileWrite(k) \/ ReconcileSync(k)
    \/ \E c \in Calls :
          \/ AcceptConflict(c) \/ AcceptSettled(c) \/ AcceptOpenEntry(c)
          \/ AcceptWrite(c) \/ AcceptSync(c)
          \/ Mark(c) \/ EffectReturn(c) \/ EffectFail(c)
          \/ CompleteWrite(c) \/ CompleteSync(c)
    \/ FinishStop

Environment ==
    \/ \E c \in Calls, k \in Keys, h \in Hashes : Submit(c, k, h)
    \/ \E c \in Calls : AppendFaultAccept(c) \/ AppendFaultComplete(c)
    \/ AppendFaultReconcile \/ BeginStop \/ Kill \/ PowerLoss

Next == DaemonStep \/ Environment

Spec == Init /\ [][Next]_vars

\* The event loop keeps running the steps it can run; a started effect settles.
FairSpec == Spec /\ WF_vars(DaemonStep)

-----------------------------------------------------------------------------
(* Properties.  open() replays lines that a killed process wrote and never *)
(* synced, without syncing them; "retracted" marks the behaviours in which *)
(* a later power loss then took such a line back.                          *)

\* A completed retry returns the same result or error, and only the request the key is
\* bound to gets it (execute, accept): across retries, joins, restarts and reconciliation,
\* two calls that were given an outcome under one key sent the same request and got the
\* same outcome.
AnswersAgree ==
    ~retracted =>
    \A c, d \in Calls :
        (/\ pc[c] = "answered" /\ reply[c] \in Outcomes
         /\ pc[d] = "answered" /\ reply[d] \in Outcomes
         /\ key[c] = key[d])
        => hash[c] = hash[d] /\ reply[c] = reply[d]

\* A lost response and a retry never repeat an effect (execute, reconcile): as long as
\* every append succeeded, the effect of a key begins once, whatever is retried,
\* concurrently or after a restart at any point.  Recovery itself redoes session.delete
\* and session.interrupt; a compaction or extension change that a restart cut off is left
\* to a retry, which begins it again.
EffectAtMostOnce ==
    ioFaults = 0 /\ ~retracted =>
        \A k \in Keys : Kind[k] # "redo" /\ Provable(k) => starts[k] <= 1

\* The journal is crash-safe (open, appendSynced): without failing appends every restart
\* finds a file it can replay.
JournalReadable ==
    ioFaults = 0 => phase # "corrupt" /\ Readable(lines)

\* No indeterminate operation is served (reconcile), for the methods recovery has a branch
\* for: an entry of theirs that is open while the daemon serves and that nothing runs has
\* left no trace of its effect.  session.compact and the extension methods are the
\* exception: their entries stay open with whatever evidence they left.
OpenEntriesUnstarted ==
    ioFaults = 0 /\ phase = "serving" =>
        \A k \in Keys :
            (Provable(k) /\ bound[k] # None /\ completion[k] = None /\ running[k] = None)
            => evidence[k] = "absent" /\ Kind[k] # "redo"

\* Every request the daemon takes in is answered, or cut off by the end of the process
\* (execute, finishShutdown): nobody waits forever behind the chain or a joined effect.
CallsSettle ==
    \A c \in Calls : pc[c] = "accepting" ~> pc[c] \in {"answered", "lost"}

\* The journal's storage never fails an append and never retracts a line.
ReliableSpec == Init /\ [][Next /\ ioFaults' = 0 /\ ~retracted']_vars /\ WF_vars(DaemonStep)

\* The verdict of a key is what the lines the daemon relies on say of it.
Verdict(k) ==
    LET journal == SubSeq(lines, 1, relied) IN
    IF TerminalIn(journal, k) = {} THEN [hash |-> None, outcome |-> None]
    ELSE [hash |-> ReplayedHash(journal, k), outcome |-> ReplayedOutcome(journal, k)]

Told(c) ==
    IF pc[c] = "answered" /\ reply[c] \in Outcomes
    THEN [key |-> key[c], verdict |-> [hash |-> hash[c], outcome |-> reply[c]]]
    ELSE None

Promise == INSTANCE WriteOnceVerdict
    WITH verdict <- [k \in Keys |-> Verdict(k)], told <- [c \in Calls |-> Told(c)]

\* The journal implements a write-once verdict per key (accept, execute, reconcile): no
\* interleaving of retries, joins and crashes changes a verdict a client was told, or tells
\* two clients different ones.
WriteOnce == Promise!Spec

\* web-delivery.md: "The command journal is crash-safe append-only data".
NeverCorrupt == phase # "corrupt"

=============================================================================
