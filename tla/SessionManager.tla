--------------------------- MODULE SessionManager ---------------------------
(***************************************************************************)
(* One managed session of the daemon (packages/daemon/src/                 *)
(* session-manager.ts): which operation owns its branch, the canonical     *)
(* prompt queue and its drain, interrupts and interrupt-and-deliver,       *)
(* queued compactions and reloads, runtime rebuilds, disposal, daemon      *)
(* stop, crashes and the recovery of the queue.                            *)
(*                                                                         *)
(* The daemon is one event loop: an action is the code between two awaits. *)
(* Events become visible, and wake their producer, when the serialised     *)
(* append that holds them is durable (EventLog).  Request retries are the  *)
(* journal's business (CommandJournal), so each operation runs once here.  *)
(* Steering and follow-up input, which lives inside a turn, is left out.   *)
(***************************************************************************)
EXTENDS Naturals, Sequences, FiniteSets, SequencesExt

CONSTANTS
    Items,         \* session.queue.enqueue operations; also the queue items they make
    Prompts,       \* session.send
    Deliveries,    \* session.interruptAndDeliver
    Compactions,   \* session.compact
    Shells,        \* session.shell
    Reloads,       \* session.reload, session.configure and the reload tool
    Restores,      \* session.queue.restore
    Requeues,      \* session.queue.requeue
    Interrupts,    \* session.interrupt
    Fronts,        \* which values of "front" the requests use
    Blobs,         \* operations whose content has a blob to verify before the turn
    None,
    MaxCrashes,    \* bound: crashes of the daemon
    MaxFaults,     \* bound: appends that fail
    MayDispose     \* whether the session is disposed, or the daemon stopped, at some point

Turns == Prompts \cup Items \cup Deliveries
Ops == Turns \cup Compactions \cup Shells \cup Reloads \cup Restores \cup Requeues \cup Interrupts

ASSUME SessionAssumption ==
    /\ None \notin Ops \cup [op : Ops, kind : {"turn", "compaction", "shell"}]
    /\ {"drain", "resume"} \cap Ops = {}
    /\ Items \cap (Prompts \cup Deliveries \cup Compactions \cup Shells \cup Reloads
                  \cup Restores \cup Requeues \cup Interrupts) = {}
    /\ Prompts \cap (Deliveries \cup Compactions \cup Shells \cup Reloads
                    \cup Restores \cup Requeues \cup Interrupts) = {}
    /\ Deliveries \cap (Compactions \cup Shells \cup Reloads \cup Restores \cup Requeues \cup Interrupts) = {}
    /\ Compactions \cap (Shells \cup Reloads \cup Restores \cup Requeues \cup Interrupts) = {}
    /\ Shells \cap (Reloads \cup Restores \cup Requeues \cup Interrupts) = {}
    /\ Reloads \cap (Restores \cup Requeues \cup Interrupts) = {}
    /\ Restores \cap (Requeues \cup Interrupts) = {}
    /\ Requeues \cap Interrupts = {}
    /\ Blobs \subseteq Turns
    /\ Fronts \subseteq BOOLEAN
    /\ MaxCrashes \in Nat
    /\ MaxFaults \in Nat
    /\ MayDispose \in BOOLEAN

VARIABLES
    log,               \* events: the queue's lifecycle events, in order
    marks,             \* events: the other ones, which are only ever looked up
    repeated,          \* history: whether an event of marks was recorded twice
    appends,           \* appends in flight, in the order of the log's chain
    queue,             \* the prompts waiting to run
    compactions,       \* queuedCompactions
    reloads,           \* queuedReloads
    activeTurn,        \* the operation that owns the branch, and its kind
    aborted,           \* whether its controller is aborted
    rebuilding,        \* the operation whose rebuild is under way
    interruptDelivery, \* the delivery that has reserved the branch
    pendingInterrupts, \* interrupts accepted before their target started
    mutation,          \* queueMutationActive, and who set it
    drain,             \* where drainQueue is, and on which operation
    broken,            \* whether drainQueue has rejected
    disposing,
    stopping,
    phase,             \* down, open, gone, or how far dispose() is
    awaited,           \* the turn dispose() waits for
    pausing,           \* recovered items pauseRecoveredQueue has not paused yet
    pc,                \* where each operation is
    target,            \* the operation an interrupt or a delivery was accepted for
    interrupted,       \* history: operations an interrupt was accepted for,
    crashes, faults    \* crashes and failed appends

events   == <<log, marks, repeated>>
work     == <<queue, compactions, reloads>>
branch   == <<activeTurn, aborted, rebuilding, interruptDelivery, pendingInterrupts>>
draining == <<drain, broken>>
life     == <<disposing, stopping, phase, awaited, pausing>>
history  == <<interrupted, crashes, faults>>
vars     == <<events, appends, work, branch, mutation, draining, life, pc, target, history>>

-----------------------------------------------------------------------------
(* Canonical events and what is folded from them *)

Event(type, op) == [type |-> type, op |-> op, item |-> None, front |-> FALSE, items |-> {}]
QueueEvent(type, op, i, front) == [Event(type, op) EXCEPT !.item = i, !.front = front]
RestoredEvent(op, items) == [Event("restored", op) EXCEPT !.items = items]

QueueTypes == {"enqueued", "requeued", "started", "paused", "restored"}
MarkTypes == {"requested", "interrupting", "delivered", "undelivered",
              "message", "assistant", "error", "shell",
              "compaction.queued", "compacted", "compaction.failed"}
Events(types) == [type : types, op : Ops, item : Items \cup {None}, front : BOOLEAN,
                  items : SUBSET Items]

Has(op, types) == \E e \in marks : e.op = op /\ e.type \in types

Without(s, dropped) ==
    LET kept[n \in 0..Len(s)] ==
            IF n = 0 THEN <<>>
            ELSE IF s[n] \in dropped THEN kept[n - 1]
            ELSE Append(kept[n - 1], s[n])
    IN kept[Len(s)]

\* reinsertQueueItem: an item moves to the front or to the back.
Insert(s, i, front) ==
    IF front THEN <<i>> \o Without(s, {i}) ELSE Append(Without(s, {i}), i)

\* The queue that pauseRecoveredQueue derives from the events.
RecoverStep(pending, e) ==
    CASE e.type \in {"enqueued", "requeued"} -> Insert(pending, e.item, e.front)
      [] e.type \in {"started", "paused"}    -> Without(pending, {e.item})
      [] e.type = "restored"                 -> Without(pending, e.items)
      [] OTHER                               -> pending
PendingIn(events0) ==
    LET after[n \in 0..Len(events0)] ==
            IF n = 0 THEN <<>> ELSE RecoverStep(after[n - 1], events0[n])
    IN after[Len(events0)]
Pending == PendingIn(log)

\* The items restoreQueue hands back: paused ones too, and a requeued one only while it
\* is still pending.
Restorable ==
    {i \in Items :
        \E n \in 1..Len(log) :
            /\ log[n].type = "enqueued" /\ log[n].item = i
            /\ \A m \in (n + 1)..Len(log) :
                  /\ ~(log[m].type = "started" /\ log[m].item = i)
                  /\ ~(log[m].type = "restored" /\ i \in log[m].items)}

\* What requeue looks at: the latest of requeued, started and paused.
LatestIsPaused(i) ==
    \E n \in 1..Len(log) :
        /\ log[n].type = "paused" /\ log[n].item = i
        /\ \A m \in (n + 1)..Len(log) :
              ~(log[m].type \in {"requeued", "started"} /\ log[m].item = i)

\* One append of the session's log: issued, then landed when it heads the chain.
Entry(by, e) == [by |-> by, event |-> e]
Heads(by) == appends # <<>> /\ Head(appends).by = by
Land ==
    LET e == Head(appends).event IN
    IF e.type \in QueueTypes
    THEN log' = Append(log, e) /\ UNCHANGED <<marks, repeated>>
    ELSE /\ marks' = marks \cup {e}
         /\ repeated' = (repeated \/ e \in marks)
         /\ UNCHANGED log
Then(by, e) == Append(Tail(appends), Entry(by, e))

-----------------------------------------------------------------------------

Idle == [at |-> "idle", op |-> None]
Loop == [at |-> "loop", op |-> None]
At(stage, op) == [at |-> stage, op |-> op]

Stages == {"idle", "recording", "queued", "claiming", "intercepting", "messaging",
           "working", "ending", "deciding", "rebuilding", "reserved", "requesting",
           "interrupting", "closing", "waiting", "delivering", "failing",
           "targeted", "done", "failed", "lost"}
Settled == {"idle", "queued", "done", "failed", "lost"}
Kinds == {"turn", "compaction", "shell"}

TypeOK ==
    /\ log \in Seq(Events(QueueTypes))
    /\ marks \subseteq Events(MarkTypes)
    /\ repeated \in BOOLEAN
    /\ appends \in Seq([by : Ops \cup {"drain", "resume"}, event : Events(QueueTypes \cup MarkTypes)])
    /\ queue \in Seq(Items)
    /\ compactions \in Seq(Compactions)
    /\ reloads \in Seq(Reloads)
    /\ activeTurn \in [op : Ops, kind : Kinds] \cup {None}
    /\ aborted \in BOOLEAN
    /\ aborted => activeTurn # None
    /\ rebuilding \in Reloads \cup {None}
    /\ interruptDelivery \in Deliveries \cup {None}
    /\ pendingInterrupts \subseteq Ops
    /\ mutation \in Items \cup Restores \cup Requeues \cup {None}
    /\ drain \in [at : {"idle", "loop", "starting", "sending", "failing", "compacting", "reloading"},
                  op : Items \cup Compactions \cup Reloads \cup {None}]
    /\ drain.op = None <=> drain.at \in {"idle", "loop"}
    /\ broken \in BOOLEAN
    /\ disposing \in BOOLEAN
    /\ stopping \in BOOLEAN
    /\ phase \in {"down", "open", "closing", "aborting", "draining", "gone"}
    /\ awaited \in Ops \cup {None}
    /\ pausing \in Seq(Items)
    /\ pc \in [Ops -> Stages]
    /\ target \in [Ops -> Ops \cup {None}]
    /\ interrupted \subseteq Ops
    /\ crashes \in 0..MaxCrashes
    /\ faults \in 0..MaxFaults

Init ==
    /\ log = <<>>
    /\ marks = {}
    /\ repeated = FALSE
    /\ appends = <<>>
    /\ queue = <<>>
    /\ compactions = <<>>
    /\ reloads = <<>>
    /\ activeTurn = None
    /\ aborted = FALSE
    /\ rebuilding = None
    /\ interruptDelivery = None
    /\ pendingInterrupts = {}
    /\ mutation = None
    /\ drain = Idle
    /\ broken = FALSE
    /\ disposing = FALSE
    /\ stopping = FALSE
    /\ phase = "open"
    /\ awaited = None
    /\ pausing = <<>>
    /\ pc = [o \in Ops |-> "idle"]
    /\ target = [o \in Ops |-> None]
    /\ interrupted = {}
    /\ crashes = 0
    /\ faults = 0

\* A request reaches its handler: the session is known and dispatch lets it through.
Called(op) ==
    /\ pc[op] = "idle"
    /\ phase \notin {"down", "gone"}
    /\ ~stopping

Free == activeTurn = None /\ rebuilding = None /\ interruptDelivery = None

\* startQueueDrain with the guard of drainQueue, on the state the step ends in.
StartDrain ==
    /\ drain' = IF \/ drain.at # "idle" \/ stopping' \/ disposing' \/ mutation' # None
                   \/ interruptDelivery' # None \/ activeTurn' # None \/ rebuilding' # None
                THEN drain ELSE Loop
    /\ UNCHANGED broken

-----------------------------------------------------------------------------
(* enqueue, requeue, restoreQueue *)

\* queueMutationActive is taken and the lifecycle event handed to the log.
Mutate(op, e) ==
    /\ Called(op)
    /\ mutation = None
    /\ mutation' = op
    /\ pc' = [pc EXCEPT ![op] = "recording"]
    /\ appends' = Append(appends, Entry(op, e))
    /\ UNCHANGED <<events, work, branch, draining, life, history>>

Enqueue(i, front) ==
    /\ Mutate(i, QueueEvent("enqueued", i, i, front))
    /\ UNCHANGED target

\* Mutant: the item is re-queued whatever its lifecycle says.
RequeueAny(q, i, front) ==
    /\ \E n \in 1..Len(log) : log[n].type = "enqueued" /\ log[n].item = i
    /\ Mutate(q, QueueEvent("requeued", q, i, front))
    /\ UNCHANGED target

Requeue(q, i, front) ==
    /\ LatestIsPaused(i)
    /\ Mutate(q, QueueEvent("requeued", q, i, front))
    /\ UNCHANGED target

\* interruptTargetOperationId: the owner of the branch, the delivery that reserved it, or
\* a prompt or a command that is admitted and not started yet.
TargetNow ==
    LET admitted == {o \in Prompts \cup Shells : pc[o] = "claiming"} IN
    IF activeTurn # None THEN {activeTurn.op}
    ELSE IF interruptDelivery # None THEN {interruptDelivery}
    ELSE IF admitted # {} THEN admitted
    ELSE {None}

\* With "interrupt" the request also names the operation to interrupt.
Restore(x) ==
    /\ Mutate(x, RestoredEvent(x, Restorable))
    /\ \E t \in TargetNow \cup {None} : target' = [target EXCEPT ![x] = t]

MutationLanded(op) ==
    /\ mutation = op
    /\ Heads(op)
    /\ Land
    /\ appends' = Tail(appends)
    /\ mutation' = None

\* Mutant: a front item goes to the back.
EnqueuedLate(i) ==
    /\ MutationLanded(i)
    /\ queue' = Append(queue, i)
    /\ pc' = [pc EXCEPT ![i] = "queued"]
    /\ UNCHANGED <<compactions, reloads, branch, life, target, history>>
    /\ StartDrain

Enqueued(i) ==
    /\ MutationLanded(i)
    /\ queue' = IF Head(appends).event.front THEN <<i>> \o queue ELSE Append(queue, i)
    /\ pc' = [pc EXCEPT ![i] = "queued"]
    /\ UNCHANGED <<compactions, reloads, branch, life, target, history>>
    /\ StartDrain

Requeued(q) ==
    /\ MutationLanded(q)
    /\ LET e == Head(appends).event IN
          /\ queue' = IF e.front THEN <<e.item>> \o queue ELSE Append(queue, e.item)
          /\ pc' = [pc EXCEPT ![q] = "done", ![e.item] = "queued"]
    /\ UNCHANGED <<compactions, reloads, branch, life, target, history>>
    /\ StartDrain

\* interrupt(): nothing for an operation that has ended; abort the one that runs; remember
\* the one that has not started.
Interrupted(t) ==
    LET effective == t # None /\ ~Has(t, {"assistant", "error", "shell", "compacted"})
        active == activeTurn # None /\ activeTurn.op = t
    IN /\ aborted' = (aborted \/ (effective /\ active))
       /\ pendingInterrupts' = IF effective /\ ~active THEN pendingInterrupts \cup {t}
                               ELSE pendingInterrupts
       /\ interrupted' = IF effective THEN interrupted \cup {t} ELSE interrupted

Restored(x) ==
    /\ MutationLanded(x)
    /\ queue' = <<>>
    /\ Interrupted(target[x])
    /\ pc' = [pc EXCEPT ![x] = "done"]
    /\ UNCHANGED <<compactions, reloads, activeTurn, rebuilding, interruptDelivery, life, target,
                   crashes, faults>>
    /\ StartDrain

\* session.interrupt: the target is fixed when the request is accepted, and interrupted once
\* the journal has recorded the acceptance.
InterruptAccepted(x) ==
    /\ Called(x)
    /\ \E t \in TargetNow : target' = [target EXCEPT ![x] = t]
    /\ pc' = [pc EXCEPT ![x] = "targeted"]
    /\ UNCHANGED <<events, appends, work, branch, mutation, draining, life, history>>

Interrupt(x) ==
    /\ pc[x] = "targeted"
    /\ Interrupted(IF target[x] = None /\ activeTurn # None THEN activeTurn.op ELSE target[x])
    /\ pc' = [pc EXCEPT ![x] = "done"]
    /\ UNCHANGED <<events, appends, work, activeTurn, rebuilding, interruptDelivery, mutation, draining,
                   life, target, crashes, faults>>

-----------------------------------------------------------------------------
(* send: claiming the branch, the turn, giving the branch back *)

Send(p) ==
    /\ Called(p)
    /\ pc' = [pc EXCEPT ![p] = "claiming"]
    /\ UNCHANGED <<events, appends, work, branch, mutation, draining, life, target, history>>

\* The delivery that reserved the branch keeps everyone out but itself and its target.
ReservedFor(op) ==
    interruptDelivery # None => op \in {interruptDelivery, target[interruptDelivery]}

MayClaim(op) ==
    ~stopping /\ ~disposing /\ activeTurn = None /\ rebuilding = None /\ ReservedFor(op)

\* The operation owns the branch, already aborted when an interrupt came first.
Own(op, kind) ==
    /\ activeTurn' = [op |-> op, kind |-> kind]
    /\ aborted' = (op \in pendingInterrupts)
    /\ pendingInterrupts' = pendingInterrupts \ {op}
    /\ UNCHANGED <<rebuilding, interruptDelivery>>

\* Mutant: a prompt does not respect the reservation.
ClaimUnreserved(op) ==
    /\ pc[op] = "claiming"
    /\ ~stopping /\ ~disposing /\ activeTurn = None /\ rebuilding = None
    /\ Own(op, "turn")
    /\ pc' = [pc EXCEPT ![op] = "intercepting"]
    /\ UNCHANGED <<events, appends, work, mutation, draining, life, target, history>>

\* Mutant: an interrupt that came before the turn is forgotten.
ClaimUninterrupted(op) ==
    /\ pc[op] = "claiming"
    /\ MayClaim(op)
    /\ activeTurn' = [op |-> op, kind |-> "turn"]
    /\ pc' = [pc EXCEPT ![op] = "intercepting"]
    /\ UNCHANGED <<events, appends, work, aborted, rebuilding, interruptDelivery, pendingInterrupts,
                   mutation, draining, life, target, history>>

\* Mutant: send does not look for a turn that is already running.
ClaimBusy(op) ==
    /\ pc[op] = "claiming"
    /\ ~stopping /\ ~disposing /\ rebuilding = None /\ ReservedFor(op)
    /\ Own(op, "turn")
    /\ pc' = [pc EXCEPT ![op] = "intercepting"]
    /\ UNCHANGED <<events, appends, work, mutation, draining, life, target, history>>

Claim(op) ==
    /\ pc[op] = "claiming"
    /\ MayClaim(op)
    /\ Own(op, "turn")
    /\ pc' = [pc EXCEPT ![op] = "intercepting"]
    /\ UNCHANGED <<events, appends, work, mutation, draining, life, target, history>>

\* Mutant: active.finish() is forgotten: a delivery that waits for the turn sleeps on.
FollowAlone(op, ok, rest) ==
    /\ appends' = IF op \in Deliveries
                  THEN Append(rest, Entry(op, Event(IF ok THEN "delivered" ELSE "undelivered", op)))
                  ELSE IF drain.op = op /\ ~ok
                  THEN Append(rest, Entry("drain", Event(IF op \in Items THEN "error"
                                                         ELSE "compaction.failed", op)))
                  ELSE rest
    /\ pc' = [pc EXCEPT ![op] = IF op \in Deliveries THEN (IF ok THEN "delivering" ELSE "failing")
                                ELSE (IF ok THEN "done" ELSE "failed")]

\* How the caller of an operation goes on: a delivery records its outcome, the drain records
\* the failure of an item or a compaction, and a client gets its answer.
Follow(op, ok, rest) ==
    /\ appends' = IF op \in Deliveries
                  THEN Append(rest, Entry(op, Event(IF ok THEN "delivered" ELSE "undelivered", op)))
                  ELSE IF drain.op = op /\ ~ok
                  THEN Append(rest, Entry("drain", Event(IF op \in Items THEN "error"
                                                         ELSE "compaction.failed", op)))
                  ELSE rest
    /\ pc' = [o \in Ops |->
                IF o = op
                THEN IF op \in Deliveries THEN (IF ok THEN "delivering" ELSE "failing")
                     ELSE (IF ok THEN "done" ELSE "failed")
                ELSE IF pc[o] = "waiting" /\ target[o] = op THEN "claiming"
                ELSE pc[o]]

\* send throws before it owns anything.
ClaimRefused(op) ==
    /\ pc[op] = "claiming"
    /\ ~MayClaim(op)
    /\ UNCHANGED <<events, work, branch, mutation, broken, life, target, history>>
    /\ Follow(op, FALSE, appends)
    /\ drain' = IF drain.op = op THEN At("failing", op) ELSE drain

\* Mutant: the next turn inherits an aborted controller.
ReleaseAborted(op, ok, rest) ==
    /\ activeTurn' = None
    /\ UNCHANGED <<work, aborted, rebuilding, interruptDelivery, pendingInterrupts, mutation, life, target>>
    /\ Follow(op, ok, rest)
    /\ IF drain.op = op
       THEN drain' = (IF ok THEN Loop ELSE At("failing", op)) /\ UNCHANGED broken
       ELSE StartDrain

\* Mutant: the queue is not drained when a turn ends.
ReleaseQuietly(op, ok, rest) ==
    /\ activeTurn' = None
    /\ aborted' = FALSE
    /\ UNCHANGED <<work, rebuilding, interruptDelivery, pendingInterrupts, mutation, life, target>>
    /\ Follow(op, ok, rest)
    /\ drain' = IF drain.op # op THEN drain ELSE IF ok THEN Loop ELSE At("failing", op)
    /\ UNCHANGED broken

\* The finally of send, shell and compact: the branch is free, whoever waited for the turn
\* goes on, and the queue is drained unless the drain itself ran the operation.
Release(op, ok, rest) ==
    /\ activeTurn' = None
    /\ aborted' = FALSE
    /\ UNCHANGED <<work, rebuilding, interruptDelivery, pendingInterrupts, mutation, life, target>>
    /\ Follow(op, ok, rest)
    /\ IF drain.op = op
       THEN drain' = (IF ok THEN Loop ELSE At("failing", op)) /\ UNCHANGED broken
       ELSE StartDrain

\* interceptInput lets the input through.
Intercepted(op) ==
    /\ pc[op] = "intercepting"
    /\ appends' = Append(appends, Entry(op, Event("message", op)))
    /\ pc' = [pc EXCEPT ![op] = "messaging"]
    /\ UNCHANGED <<events, work, branch, mutation, draining, life, target, history>>

\* An extension handled the input, or failed.  A delivery whose message was not recorded is
\* an error either way.
InterceptedAway(op) ==
    /\ pc[op] = "intercepting"
    /\ UNCHANGED <<events, history>>
    /\ \E ok \in BOOLEAN : Release(op, ok /\ op \notin Deliveries, appends)

Messaged(op) ==
    /\ pc[op] = "messaging"
    /\ Heads(op)
    /\ Land
    /\ appends' = Tail(appends)
    /\ pc' = [pc EXCEPT ![op] = "working"]
    /\ UNCHANGED <<work, branch, mutation, draining, life, target, history>>

TerminalOf(op) ==
    CASE op \in Turns  -> {"assistant"}
      [] op \in Shells -> {"shell"}
      [] OTHER         -> {"compacted", "compaction.failed"}

\* The model, the command or the summary is done, by itself or because it was aborted.
Stop(op) ==
    /\ pc[op] = "working"
    /\ \E type \in TerminalOf(op) : appends' = Append(appends, Entry(op, Event(type, op)))
    /\ pc' = [pc EXCEPT ![op] = "ending"]
    /\ UNCHANGED <<events, work, branch, mutation, draining, life, target, history>>

\* A compaction that records its failure throws, and the drain finds the record.
End(op) ==
    /\ pc[op] = "ending"
    /\ Heads(op)
    /\ Land
    /\ UNCHANGED history
    /\ Release(op, TRUE, Tail(appends))

-----------------------------------------------------------------------------
(* compact, shell, reload, configure *)

\* runCompaction takes the branch without a look at pendingInterrupts.
OwnCompaction(c) ==
    /\ activeTurn' = [op |-> c, kind |-> "compaction"]
    /\ aborted' = FALSE
    /\ UNCHANGED <<rebuilding, interruptDelivery, pendingInterrupts>>

Compact(c) ==
    /\ Called(c)
    /\ Free
    /\ OwnCompaction(c)
    /\ pc' = [pc EXCEPT ![c] = "working"]
    /\ UNCHANGED <<events, appends, work, mutation, draining, life, target, history>>

InTurn == activeTurn # None /\ activeTurn.kind = "turn" /\ rebuilding = None

\* During a turn the compaction is recorded first and queued when the record is durable.
\* Nothing starts the drain then.
CompactLater(c) ==
    /\ Called(c)
    /\ InTurn
    /\ appends' = Append(appends, Entry(c, Event("compaction.queued", c)))
    /\ pc' = [pc EXCEPT ![c] = "recording"]
    /\ UNCHANGED <<events, work, branch, mutation, draining, life, target, history>>

CompactionQueued(c) ==
    /\ pc[c] = "recording"
    /\ Heads(c)
    /\ Land
    /\ appends' = Tail(appends)
    /\ compactions' = Append(compactions, c)
    /\ pc' = [pc EXCEPT ![c] = "queued"]
    /\ UNCHANGED <<queue, reloads, branch, mutation, draining, life, target, history>>

Shell(s) ==
    /\ Called(s)
    /\ pc' = [pc EXCEPT ![s] = "claiming"]
    /\ UNCHANGED <<events, appends, work, branch, mutation, draining, life, target, history>>

\* Its request is journaled; a delivery keeps it out even if the command is the target.
ShellRuns(s) ==
    /\ pc[s] = "claiming"
    /\ ~stopping
    /\ Free
    /\ Own(s, "shell")
    /\ pc' = [pc EXCEPT ![s] = "working"]
    /\ UNCHANGED <<events, appends, work, mutation, draining, life, target, history>>

ShellRefused(s) ==
    /\ pc[s] = "claiming"
    /\ stopping \/ ~Free
    /\ pc' = [pc EXCEPT ![s] = "failed"]
    /\ UNCHANGED <<events, appends, work, branch, mutation, draining, life, target, history>>

\* reload and configure look for an owner and then wait for the extensions' decision.
Reload(r) ==
    /\ Called(r)
    /\ Free
    /\ pc' = [pc EXCEPT ![r] = "deciding"]
    /\ UNCHANGED <<events, appends, work, branch, mutation, draining, life, target, history>>

\* They do not look again: the rebuild starts, unless an extension blocked it.
Rebuild(r) ==
    /\ pc[r] = "deciding"
    /\ \/ rebuilding' = r /\ pc' = [pc EXCEPT ![r] = "rebuilding"]
       \/ pc' = [pc EXCEPT ![r] = "failed"] /\ UNCHANGED rebuilding
    /\ UNCHANGED <<events, appends, work, activeTurn, aborted, interruptDelivery, pendingInterrupts,
                   mutation, draining, life, target, history>>

\* queueReload, from a tool call of the turn that runs.
ReloadLater(r) ==
    /\ pc[r] = "idle"
    /\ InTurn
    /\ pc[activeTurn.op] = "working"
    /\ reloads' = Append(reloads, r)
    /\ pc' = [pc EXCEPT ![r] = "queued"]
    /\ UNCHANGED <<events, appends, queue, compactions, branch, mutation, draining, life, target, history>>

\* The new runtime is in place and the old one disposed, or building it failed; a dispose
\* that waits for the rebuild fails with it.  The queue is not drained.
Rebuilt(r) ==
    /\ pc[r] = "rebuilding"
    /\ rebuilding' = IF rebuilding = r THEN None ELSE rebuilding
    /\ \E ok \in BOOLEAN :
          /\ pc' = [pc EXCEPT ![r] = IF ok THEN "done" ELSE "failed"]
          /\ phase' = IF phase = "closing" /\ rebuilding = r /\ ~ok THEN "open" ELSE phase
          /\ appends' = IF drain.op = r /\ ~ok
                        THEN Append(appends, Entry("drain", Event("error", r))) ELSE appends
          /\ drain' = IF drain.op # r THEN drain ELSE IF ok THEN Loop ELSE At("failing", r)
    /\ UNCHANGED <<events, work, activeTurn, aborted, interruptDelivery, pendingInterrupts, mutation,
                   broken, disposing, stopping, awaited, pausing, target, history>>

-----------------------------------------------------------------------------
(* drainQueue *)

DrainMayGoOn == ~stopping /\ ~disposing /\ activeTurn = None /\ rebuilding = None

DrainStops ==
    /\ drain.at = "loop"
    /\ ~DrainMayGoOn \/ (compactions = <<>> /\ reloads = <<>> /\ queue = <<>>)
    /\ drain' = Idle
    /\ UNCHANGED <<events, appends, work, branch, mutation, broken, life, pc, target, history>>

DrainCompacts ==
    /\ drain.at = "loop"
    /\ DrainMayGoOn
    /\ compactions # <<>>
    /\ compactions' = Tail(compactions)
    /\ OwnCompaction(Head(compactions))
    /\ pc' = [pc EXCEPT ![Head(compactions)] = "working"]
    /\ drain' = At("compacting", Head(compactions))
    /\ UNCHANGED <<events, appends, queue, reloads, mutation, broken, life, target, history>>

DrainReloads ==
    /\ drain.at = "loop"
    /\ DrainMayGoOn
    /\ compactions = <<>>
    /\ reloads # <<>>
    /\ reloads' = Tail(reloads)
    /\ rebuilding' = Head(reloads)
    /\ pc' = [pc EXCEPT ![Head(reloads)] = "rebuilding"]
    /\ drain' = At("reloading", Head(reloads))
    /\ UNCHANGED <<events, appends, queue, compactions, activeTurn, aborted, interruptDelivery,
                   pendingInterrupts, mutation, broken, life, target, history>>

\* The item leaves the queue before queue.started is durable.
DrainStarts ==
    /\ drain.at = "loop"
    /\ DrainMayGoOn
    /\ compactions = <<>> /\ reloads = <<>>
    /\ queue # <<>>
    /\ queue' = Tail(queue)
    /\ appends' = Append(appends, Entry("drain", QueueEvent("started", Head(queue), Head(queue), FALSE)))
    /\ drain' = At("starting", Head(queue))
    /\ UNCHANGED <<events, compactions, reloads, branch, mutation, broken, life, pc, target, history>>

DrainSends ==
    /\ drain.at = "starting"
    /\ Heads("drain")
    /\ Land
    /\ appends' = Tail(appends)
    /\ drain' = At("sending", drain.op)
    /\ pc' = [pc EXCEPT ![drain.op] = "claiming"]
    /\ UNCHANGED <<work, branch, mutation, broken, life, target, history>>

\* The failure of an item, a compaction or a reload is on record.
DrainRecorded ==
    /\ drain.at = "failing"
    /\ Heads("drain")
    /\ Land
    /\ appends' = Tail(appends)
    /\ drain' = Loop
    /\ UNCHANGED <<work, branch, mutation, broken, life, pc, target, history>>

-----------------------------------------------------------------------------
(* interruptAndDeliver *)

\* The branch is reserved before the request is journaled.
Reserve(d) ==
    /\ Called(d)
    /\ interruptDelivery = None
    /\ interruptDelivery' = d
    /\ \E t \in TargetNow : target' = [target EXCEPT ![d] = t]
    /\ pc' = [pc EXCEPT ![d] = "reserved"]
    /\ UNCHANGED <<events, appends, work, activeTurn, aborted, rebuilding, pendingInterrupts, mutation,
                   draining, life, history>>

\* releaseInterruptDelivery: the reservation ends and the queue goes on.
Unreserve(d, stage) ==
    /\ interruptDelivery' = None
    /\ pc' = [pc EXCEPT ![d] = stage]
    /\ UNCHANGED <<work, activeTurn, aborted, rebuilding, mutation, life, target>>
    /\ StartDrain

\* The finally of interruptAndDeliver.
EndDelivery(d, stage) ==
    /\ pendingInterrupts' = pendingInterrupts \ {d}
    /\ Unreserve(d, stage)

\* dispatch refuses it because the daemon stops, or a blob does not belong to the session.
DeliverRefused(d) ==
    /\ pc[d] = "reserved"
    /\ stopping \/ d \in Blobs
    /\ UNCHANGED <<events, appends, pendingInterrupts, history>>
    /\ Unreserve(d, "failed")

DeliverRequest(d) ==
    /\ pc[d] = "reserved"
    /\ ~stopping
    /\ appends' = Append(appends, Entry(d, Event("requested", d)))
    /\ pc' = [pc EXCEPT ![d] = "requesting"]
    /\ UNCHANGED <<events, work, branch, mutation, draining, life, target, history>>

DeliverRequested(d) ==
    /\ pc[d] = "requesting"
    /\ Heads(d)
    /\ Land
    /\ IF target[d] = None
       THEN /\ appends' = Tail(appends)
            /\ pc' = [pc EXCEPT ![d] = "claiming"]
       ELSE /\ appends' = Then(d, Event("interrupting", d))
            /\ pc' = [pc EXCEPT ![d] = "interrupting"]
    /\ UNCHANGED <<work, branch, mutation, draining, life, target, history>>

\* The target is aborted and waited for; one that is gone without an end is given one.
DeliverInterrupts(d) ==
    /\ pc[d] = "interrupting"
    /\ Heads(d)
    /\ Land
    /\ IF activeTurn # None /\ activeTurn.op = target[d]
       THEN /\ aborted' = TRUE
            /\ pc' = [pc EXCEPT ![d] = "waiting"]
            /\ appends' = Tail(appends)
       ELSE /\ UNCHANGED aborted
            /\ IF Has(target[d], {"message"}) /\ ~Has(target[d], {"assistant", "error"})
               THEN IF activeTurn = None
                    THEN /\ pc' = [pc EXCEPT ![d] = "closing"]
                         /\ appends' = Then(d, Event("assistant", target[d]))
                    ELSE /\ pc' = [pc EXCEPT ![d] = "failing"]
                         /\ appends' = Then(d, Event("undelivered", d))
               ELSE /\ pc' = [pc EXCEPT ![d] = "claiming"]
                    /\ appends' = Tail(appends)
    /\ UNCHANGED <<work, activeTurn, rebuilding, interruptDelivery, pendingInterrupts, mutation,
                   draining, life, target, history>>

DeliverClosed(d) ==
    /\ pc[d] = "closing"
    /\ Heads(d)
    /\ Land
    /\ appends' = Tail(appends)
    /\ pc' = [pc EXCEPT ![d] = "claiming"]
    /\ UNCHANGED <<work, branch, mutation, draining, life, target, history>>

\* Its outcome is on record.
Delivered(d) ==
    /\ pc[d] \in {"delivering", "failing"}
    /\ Heads(d)
    /\ Land
    /\ appends' = Tail(appends)
    /\ UNCHANGED history
    /\ EndDelivery(d, IF pc[d] = "delivering" THEN "done" ELSE "failed")

-----------------------------------------------------------------------------
(* Appends that fail *)

Fault ==
    /\ faults < MaxFaults
    /\ faults' = faults + 1
    /\ UNCHANGED <<events, interrupted, crashes>>

\* drainQueue rejects: the session counts as disposing from then on.
DrainBreaks ==
    /\ Heads("drain")
    /\ Fault
    /\ appends' = Tail(appends)
    /\ drain' = Idle
    /\ broken' = TRUE
    /\ disposing' = TRUE
    /\ pc' = [pc EXCEPT ![drain.op] = "failed"]
    /\ UNCHANGED <<work, branch, mutation, stopping, phase, awaited, pausing, target>>

\* The queue stays as it is.
MutationFails(op) ==
    /\ mutation = op
    /\ Heads(op)
    /\ Fault
    /\ appends' = Tail(appends)
    /\ mutation' = None
    /\ pc' = [pc EXCEPT ![op] = "failed"]
    /\ UNCHANGED <<work, branch, life, target>>
    /\ StartDrain

CompactionUnqueued(c) ==
    /\ pc[c] = "recording"
    /\ Heads(c)
    /\ Fault
    /\ appends' = Tail(appends)
    /\ pc' = [pc EXCEPT ![c] = "failed"]
    /\ UNCHANGED <<work, branch, mutation, draining, life, target>>

\* runTurn, runShell or compact throws.
OperationFails(op) ==
    /\ pc[op] \in {"messaging", "ending"}
    /\ Heads(op)
    /\ Fault
    /\ Release(op, FALSE, Tail(appends))

\* The failure is recorded unless the request itself, or that record, could not be.
DeliveryFails(d) ==
    /\ pc[d] \in {"requesting", "interrupting", "closing", "delivering", "failing"}
    /\ Heads(d)
    /\ Fault
    /\ IF pc[d] \in {"requesting", "failing"}
       THEN /\ appends' = Tail(appends)
            /\ EndDelivery(d, "failed")
       ELSE /\ appends' = Then(d, Event("undelivered", d))
            /\ pc' = [pc EXCEPT ![d] = "failing"]
            /\ UNCHANGED <<work, branch, mutation, draining, life, target>>

-----------------------------------------------------------------------------
(* dispose, stop, crash, resume *)

Requests == {o \in Ops : pc[o] \notin Settled /\ drain.op # o}

\* A client disposes the session, or finishShutdown once every request has its answer.
Dispose ==
    /\ MayDispose
    /\ phase = "open"
    /\ pausing = <<>>
    /\ stopping => Requests = {}
    /\ disposing' = TRUE
    /\ phase' = "closing"
    /\ UNCHANGED <<events, appends, work, branch, mutation, draining, stopping, awaited, pausing, pc,
                   target, history>>

\* Mutant: dispose waits for the turn without aborting it.
DisposeOnlyWaits ==
    /\ phase = "closing"
    /\ rebuilding = None
    /\ awaited' = IF activeTurn = None THEN None ELSE activeTurn.op
    /\ phase' = "aborting"
    /\ UNCHANGED <<events, appends, work, branch, mutation, draining, disposing, stopping, pausing, pc,
                   target, history>>

DisposeAborts ==
    /\ phase = "closing"
    /\ rebuilding = None
    /\ aborted' = (activeTurn # None)
    /\ awaited' = IF activeTurn = None THEN None ELSE activeTurn.op
    /\ phase' = "aborting"
    /\ UNCHANGED <<events, appends, work, activeTurn, rebuilding, interruptDelivery, pendingInterrupts,
                   mutation, draining, disposing, stopping, pausing, pc, target, history>>

DisposeWaited ==
    /\ phase = "aborting"
    /\ awaited # None /\ activeTurn # None => activeTurn.op # awaited
    /\ awaited' = None
    /\ phase' = "draining"
    /\ UNCHANGED <<events, appends, work, branch, mutation, draining, disposing, stopping, pausing, pc,
                   target, history>>

\* queueDrain has settled; if it was rejected, so is dispose, and the session stays known.
Disposed ==
    /\ phase = "draining"
    /\ drain.at = "idle"
    /\ phase' = IF broken THEN "open" ELSE "gone"
    /\ UNCHANGED <<events, appends, work, branch, mutation, draining, disposing, stopping, awaited,
                   pausing, pc, target, history>>

BeginShutdown ==
    /\ MayDispose
    /\ phase # "down"
    /\ ~stopping
    /\ stopping' = TRUE
    /\ aborted' = (activeTurn # None)
    /\ UNCHANGED <<events, appends, work, activeTurn, rebuilding, interruptDelivery, pendingInterrupts,
                   mutation, draining, disposing, phase, awaited, pausing, pc, target, history>>

\* The process ends; the append at the head of the chain may have reached the file.
Crash ==
    /\ crashes < MaxCrashes
    /\ phase # "down"
    /\ crashes' = crashes + 1
    /\ UNCHANGED events \/ (appends # <<>> /\ Land)
    /\ appends' = <<>>
    /\ queue' = <<>> /\ compactions' = <<>> /\ reloads' = <<>>
    /\ activeTurn' = None /\ aborted' = FALSE /\ rebuilding' = None
    /\ interruptDelivery' = None /\ pendingInterrupts' = {}
    /\ mutation' = None
    /\ drain' = Idle /\ broken' = FALSE
    /\ disposing' = FALSE /\ stopping' = FALSE
    /\ phase' = "down" /\ awaited' = None /\ pausing' = <<>>
    /\ pc' = [o \in Ops |-> IF pc[o] \in {"idle", "done", "failed"} THEN pc[o] ELSE "lost"]
    /\ interrupted' = {}
    /\ UNCHANGED <<target, faults>>

\* reconcileAcceptedMutation and AgentSession.open: the events that requests which lost their
\* daemon still owe.
Unended(op) == Has(op, {"message"}) /\ ~Has(op, {"assistant", "error"})
Lost(ops) == {o \in ops : pc[o] = "lost"}
Undelivered == {d \in Lost(Deliveries) : Has(d, {"requested"}) /\ ~Has(d, {"undelivered"})}
Owed ==
    {Event("assistant", p) : p \in {p \in Lost(Prompts) : Unended(p)}}
    \cup {Event("assistant", target[x]) : x \in {x \in Lost(Interrupts) : Unended(target[x])}}
    \cup {Event("assistant", target[x]) : x \in
              {x \in Lost(Restores) :
                  /\ target[x] # None
                  /\ \E n \in 1..Len(log) : log[n].type = "restored" /\ log[n].op = x
                  /\ ~Has(target[x], {"assistant", "error"})}}
    \cup {Event(type, d) : type \in {"message", "delivered"}, d \in Undelivered}
    \cup {Event("assistant", d) : d \in {d \in Undelivered : ~Has(d, {"assistant", "error"})}}
    \cup {Event("compaction.failed", c) : c \in
              {c \in Lost(Compactions) : /\ Has(c, {"compaction.queued"})
                                         /\ ~Has(c, {"compacted", "compaction.failed"})}}

\* Mutant: the items are paused on record and run all the same.
ResumeRunning ==
    /\ phase = "down"
    /\ marks' = marks \cup Owed
    /\ queue' = Pending
    /\ pausing' = Pending
    /\ appends' = IF Pending = <<>> THEN <<>>
                  ELSE <<Entry("resume", QueueEvent("paused", Head(Pending), Head(Pending), FALSE))>>
    /\ phase' = "open"
    /\ UNCHANGED <<log, repeated, compactions, reloads, branch, mutation, disposing, stopping, awaited,
                   pc, target, history>>
    /\ StartDrain

\* The session is opened again: the journal's requests are reconciled, and every item that
\* was waiting is to be paused.
Resume ==
    /\ phase = "down"
    /\ marks' = marks \cup Owed
    /\ pausing' = Pending
    /\ appends' = IF Pending = <<>> THEN <<>>
                  ELSE <<Entry("resume", QueueEvent("paused", Head(Pending), Head(Pending), FALSE))>>
    /\ phase' = "open"
    /\ UNCHANGED <<log, repeated, work, branch, mutation, draining, disposing, stopping, awaited, pc,
                   target, history>>

Paused ==
    /\ Heads("resume")
    /\ Land
    /\ pausing' = Tail(pausing)
    /\ appends' = IF Tail(pausing) = <<>> THEN Tail(appends)
                  ELSE Then("resume", QueueEvent("paused", pausing[2], pausing[2], FALSE))
    /\ UNCHANGED <<work, branch, mutation, draining, disposing, stopping, phase, awaited, pc, target,
                   history>>

-----------------------------------------------------------------------------

\* Continuations that run before the event loop takes anything else: send without a blob
\* goes from its call to the claim, and drainQueue through its loop, without an await.
Urgent == {o \in (Items \cup Deliveries) \ Blobs : pc[o] = "claiming"}
DrainLoop == DrainStops \/ DrainCompacts \/ DrainReloads \/ DrainStarts

Request ==
    \/ \E i \in Items, front \in Fronts :
          Enqueue(i, front) \/ \E q \in Requeues : Requeue(q, i, front)
    \/ \E x \in Restores : Restore(x)
    \/ \E x \in Interrupts : InterruptAccepted(x)
    \/ \E p \in Prompts : Send(p)
    \/ \E d \in Deliveries : Reserve(d)
    \/ \E c \in Compactions : Compact(c) \/ CompactLater(c)
    \/ \E s \in Shells : Shell(s)
    \/ \E r \in Reloads : Reload(r) \/ ReloadLater(r)

Continue ==
    \/ \E i \in Items : Enqueued(i)
    \/ \E q \in Requeues : Requeued(q)
    \/ \E x \in Restores : Restored(x)
    \/ \E x \in Interrupts : Interrupt(x)
    \/ \E o \in Turns : Claim(o) \/ ClaimRefused(o) \/ Intercepted(o) \/ InterceptedAway(o) \/ Messaged(o)
    \/ \E o \in Turns \cup Compactions \cup Shells : End(o)
    \/ \E s \in Shells : ShellRuns(s) \/ ShellRefused(s)
    \/ \E c \in Compactions : CompactionQueued(c)
    \/ \E r \in Reloads : Rebuild(r) \/ Rebuilt(r)
    \/ \E d \in Deliveries : \/ DeliverRefused(d) \/ DeliverRequest(d) \/ DeliverRequested(d)
                             \/ DeliverInterrupts(d) \/ DeliverClosed(d) \/ Delivered(d)
    \/ DrainSends \/ DrainRecorded
    \/ DisposeAborts \/ DisposeWaited \/ Disposed
    \/ Resume \/ Paused

Environment ==
    \/ \E o \in Turns \cup Compactions \cup Shells : OperationFails(o)
    \/ \E o \in Items \cup Requeues \cup Restores : MutationFails(o)
    \/ \E c \in Compactions : CompactionUnqueued(c)
    \/ \E d \in Deliveries : DeliveryFails(d)
    \/ DrainBreaks
    \/ Dispose \/ BeginShutdown \/ Crash

Works == \E o \in Turns \cup Compactions \cup Shells : Stop(o)

Next ==
    \/ \E o \in Urgent : Claim(o) \/ ClaimRefused(o)
    \/ Urgent = {} /\ DrainLoop
    \/ Urgent = {} /\ drain.at # "loop" /\ (Request \/ Continue \/ Works \/ Environment)

Spec == Init /\ [][Next]_vars

\* The event loop runs what is ready and I/O completes; an operation ends once aborted.
\* Nothing makes a client call, a fault happen, or a model answer.
FairSpec == Spec /\ WF_vars(Next /\ (DrainLoop \/ Continue)) /\ WF_vars(Works /\ aborted)

-----------------------------------------------------------------------------
(* Properties *)

\* One operation at a time owns the branch (send, shell, compact, drainQueue): whoever is
\* between taking and giving back the branch is the one activeTurn names.
OneOwner ==
    \A o \in Ops : pc[o] \in {"intercepting", "messaging", "working", "ending"} =>
        activeTurn # None /\ activeTurn.op = o

\* A prompt reaches the model once and ends once (drainQueue, requeue, interruptAndDeliver,
\* recovery): nothing is recorded twice for an operation, and a prompt that is about to
\* claim the branch has left no event before, through restarts too.
PromptOnce ==
    /\ ~repeated
    /\ \A o \in Ops : pc[o] = "claiming" => ~Has(o, {"message", "assistant", "error"})

\* Every attachment derives the daemon's queue from the events (enqueue, requeue,
\* restoreQueue, drainQueue): whatever is interleaved, the prompts in memory are those the
\* log says are waiting, in the same order, but for the one being started.  An item that
\* was handed back and then re-queued is the exception.
QueueMatchesLog ==
    (/\ phase = "open" /\ ~disposing /\ pausing = <<>>
     /\ \A m, n \in 1..Len(log) :
           ~(log[m].type = "restored" /\ log[n].type = "requeued" /\ log[n].item \in log[m].items))
    => queue = Without(Pending, IF drain.at = "starting" THEN {drain.op} ELSE {})

\* A restart never runs a waiting prompt by itself (pauseRecoveredQueue, requeue): an item
\* starts only if its last change before was being queued or re-queued.
PausedNeedsRequeue ==
    \A n \in 1..Len(log) : log[n].type = "started" =>
        \E m \in 1..(n - 1) :
            /\ log[m].type \in {"enqueued", "requeued"} /\ log[m].item = log[n].item
            /\ \A k \in (m + 1)..(n - 1) :
                  ~(log[k].type \in {"paused", "started"} /\ log[k].item = log[n].item)

\* An accepted interrupt is not missed (interrupt, send, shell): if its target ever owns
\* the branch, before or after, it owns it aborted.
InterruptHonoured ==
    activeTurn # None /\ activeTurn.op \in interrupted => aborted

\* No prompt slips in between an interrupt and its replacement (reserveInterruptDelivery,
\* send): while a delivery has the branch, a turn is its own or its target's.
DeliveryIsolated ==
    interruptDelivery # None /\ activeTurn # None /\ activeTurn.kind = "turn"
    => activeTurn.op \in {interruptDelivery, target[interruptDelivery]}

Waiting(i) == \E n \in 1..Len(queue) : queue[n] = i

\* The queue moves on (startQueueDrain): a waiting prompt leaves the queue, as long as
\* operations end and the session stays.
QueueMoves ==
    []<>(activeTurn = None) =>
        \A i \in Items : Waiting(i) ~> (~Waiting(i) \/ disposing \/ stopping)

\* An interrupt-and-deliver comes to an end (interruptAndDeliver): waiting for its target
\* and for the branch never blocks it for good.
DeliveriesSettle ==
    []<>(activeTurn = None) =>
        \A d \in Deliveries : pc[d] = "reserved" ~> pc[d] \in {"done", "failed", "lost"}

\* dispose() comes to an end (dispose, drainQueue): the rebuild, the turn and the drain it
\* waits for all let go.
DisposeEnds == phase = "closing" ~> phase \in {"gone", "down", "open"}

\* web-delivery.md: "The daemon executes queued items in priority order after the active
\* operation finishes": an item whose start is on record finds the branch free when
\* drainQueue sends it.
StartedItemsRun ==
    ~stopping /\ ~disposing => \A i \in Items : pc[i] = "claiming" => MayClaim(i)

\* web-protocol.md: "the daemon records the compaction as queued and runs it after that
\* response".
CompactionsMove ==
    []<>(activeTurn = None) =>
        \A c \in Compactions : pc[c] = "queued" ~> (pc[c] # "queued" \/ disposing \/ stopping)

\* daemon.test.ts: "queue restore atomically returns pending input".
RestoredNotRun ==
    \A n \in 1..Len(log) : log[n].type = "restored" =>
        \A i \in log[n].items : ~Has(i, {"message"})

=============================================================================
