---------------------------- MODULE SessionView ----------------------------
(***************************************************************************)
(* A client's live view of a session (ResumableSessionSubscription in      *)
(* packages/sdk/src/subscription.ts with the connection of AxlClient in    *)
(* client.ts) against the daemon of Subscriptions: loading a snapshot page *)
(* by page, applying and acknowledging events, recovering from a gap or a  *)
(* refused cursor, losing the connection at any await, and reconnecting    *)
(* the way the web client and the terminal client do.                      *)
(*                                                                         *)
(* The view is the sequence of positions the projector holds.  The check   *)
(* for a missing parent is left out: the model has no net under it.        *)
(***************************************************************************)
EXTENDS Subscriptions

CONSTANT Rebinds   \* TRUE: the terminal client, which rebinds the view to a new client
                   \* after a failed reconnect; FALSE: the web client, which does not

ASSUME RebindsIsBoolean == Rebinds \in BOOLEAN

VARIABLE this      \* the subscription object, its client and its pending promises

vars == <<daemonVars, this>>

-----------------------------------------------------------------------------
(* The fields: conn the connection in use (0: none), started whether the   *)
(* application holds the view, tried whether the reconnect of the existing *)
(* client failed, hook the listener of onReconnect, bound the event        *)
(* listener once loading is over; view, current, ack, seen the projector,  *)
(* currentSubscriptionId, acknowledgedCursor and daemonInstanceId; phase,  *)
(* caller, force, cursor and page where establish() is and for whom;       *)
(* pending its pendingEvents; seq, newest and chain the sequence, the      *)
(* newestQueued and the deliveries behind the one being acknowledged;      *)
(* waiting the requests without an answer, oldest first; missed that a     *)
(* delivery failed while a recovery was running; out requests to write.    *)

Blank == [conn |-> 0, started |-> FALSE, tried |-> FALSE, hook |-> FALSE, bound |-> FALSE,
          view |-> <<>>, current |-> 0, ack |-> None, seen |-> 0,
          phase |-> "idle", caller |-> "none", force |-> FALSE, cursor |-> None, page |-> None,
          pending |-> <<>>, seq |-> 0, newest |-> 0, chain |-> <<>>, waiting |-> <<>>,
          missed |-> FALSE, out |-> <<>>]

Commit(t) == /\ this' = [t EXCEPT !.out = <<>>]
             /\ up' = IF t.conn = 0 THEN up ELSE [up EXCEPT ![t.conn] = @ \o t.out]

Waiter(who, cursor, caller) == [who |-> who, cursor |-> cursor, caller |-> caller]

Ask(t, request, waiter) == [t EXCEPT !.out = Append(@, request),
                                     !.waiting = Append(@, waiter)]

AskAck(t, who, cursor) ==
    Ask(t, [method |-> "ack", sub |-> t.current, cursor |-> cursor],
        Waiter(who, cursor, t.caller))

AskUnsubscribe(t, who) ==
    Ask(t, [method |-> "unsubscribe", sub |-> t.current], Waiter(who, None, t.caller))

\* Mutant: the projector does not recognise an event it holds.
ReducedTwice(view, ps) == view \o ps

\* projector.applyEvent: an event it holds is ignored.
Reduced(view, ps) ==
    view \o Only(ps, ToSet(ps) \ ToSet(view))

Positions(deliveries) == [k \in 1..Len(deliveries) |-> deliveries[k].pos]

\* ++this.generation: the promises of the generation before go on without effect, except
\* a superseded establish(), which still answers to its caller.
Superseded(t) ==
    [t EXCEPT !.waiting = [k \in 1..Len(t.waiting) |->
        IF t.waiting[k].who = "chain" THEN [t.waiting[k] EXCEPT !.who = "stale"]
        ELSE IF t.waiting[k].who = "est" THEN [t.waiting[k] EXCEPT !.who = "old"]
        ELSE t.waiting[k]],
      !.pending = <<>>, !.chain = <<>>, !.newest = 0, !.bound = FALSE]

\* establish() up to the session.subscribe request.
Establish(t, caller, force) ==
    LET same == t.seen \in {0, instance}
        cursor == IF ~force /\ same /\ t.view # <<>> THEN t.ack ELSE None
        u == [Superseded(t) EXCEPT
                !.hook = FALSE, !.seq = 0, !.missed = FALSE, !.phase = "subscribe",
                !.caller = caller, !.force = force, !.cursor = cursor,
                !.view = IF same THEN @ ELSE <<>>, !.ack = IF same THEN @ ELSE None]
    IN Ask(u, [method |-> "subscribe", after |-> cursor], Waiter("est", None, caller))

\* establish() rejected: start() gives the view up, a failed recovery leaves it as it is,
\* and a failed reconnect is about to close its connection.
Rejected(t, caller) ==
    CASE caller = "start" -> [Blank EXCEPT !.conn = t.conn, !.waiting = t.waiting]
      [] caller = "recovery" -> [t EXCEPT !.phase = "idle", !.caller = "none", !.bound = FALSE,
                                            !.force = FALSE, !.current = 0]
      [] OTHER -> [t EXCEPT !.phase = "failed", !.bound = FALSE]

\* The last statement of establish(): the view is bound and will follow a reconnect.
Finished(t) == [t EXCEPT !.phase = "idle", !.caller = "none", !.hook = TRUE, !.tried = FALSE,
                         !.pending = <<>>, !.force = FALSE, !.cursor = None]

\* The catch of establish(): leave the subscription, then retry with a snapshot or reject.
LoadingFailed(t) ==
    [AskUnsubscribe([Superseded(t) EXCEPT !.phase = "cleanup"], "est") EXCEPT !.current = 0]

\* Mutant: the events collected while loading are forgotten.
DrainedEmpty(t) == Finished(t)

\* The drain of pendingEvents up to its next acknowledgement, or to its end.
Drained(t) ==
    LET mine == Only(t.pending, {d \in ToSet(t.pending) : d.sub = t.current})
        rest == Tail(mine)
        u == [t EXCEPT !.view = Reduced(@, <<Head(mine).pos>>), !.seq = Head(mine).seq,
                       !.pending = rest, !.phase = "drain"]
    IN IF mine = <<>> THEN Finished(t)
       ELSE IF t.newest > Head(mine).seq
       THEN Finished([t EXCEPT !.view = Reduced(@, Positions(mine)),
                               !.seq = mine[Len(mine)].seq])
       ELSE AskAck(u, "est", Head(mine).cursor)

Recovering(t) == t.caller = "recovery" /\ t.phase # "idle"

\* scheduleRecovery: only one at a time; it leaves the subscription and establishes anew.
Recovered(t, force) ==
    IF Recovering(t) THEN [t EXCEPT !.missed = TRUE]
    ELSE LET u == [Superseded(t) EXCEPT !.phase = "leaving", !.caller = "recovery",
                                        !.force = force]
         IN AskUnsubscribe(u, "est")

\* Mutant: of a burst only the newest event is applied as well as acknowledged.
AppliedNewest(t, queue) ==
    IF queue = <<>> THEN t
    ELSE AskAck([t EXCEPT !.view = Reduced(@, <<queue[Len(queue)].pos>>), !.chain = <<>>,
                          !.seq = queue[Len(queue)].seq],
                "chain", queue[Len(queue)].cursor)

\* The delivery chain applies what is queued: all of it up to the newest, which alone is
\* acknowledged, or nothing when it does not follow the sequence.
Applied(t, queue) ==
    IF queue = <<>> THEN t
    ELSE IF Head(queue).seq # t.seq + 1
    THEN Recovered([t EXCEPT !.chain = <<>>], FALSE)
    ELSE AskAck([t EXCEPT !.view = Reduced(@, Positions(queue)), !.chain = <<>>,
                          !.seq = queue[Len(queue)].seq],
                "chain", queue[Len(queue)].cursor)

ChainBusy(t) == \E k \in 1..Len(t.waiting) : t.waiting[k].who = "chain"
-----------------------------------------------------------------------------
(* Messages from the daemon.                                               *)

Message == Head(down[this.conn])

Incoming == this.conn # 0 /\ down[this.conn] # <<>> /\ this.phase # "failed"

Consumed == down' = [down EXCEPT ![this.conn] = Tail(@)]

Loading(t) == t.phase \in {"subscribe", "page", "history", "boundary", "ready"}

DaemonSame == UNCHANGED <<log, instance, subs, cursors>>

\* onEvent: collected while loading, then queued behind the delivery chain; an event for
\* another subscription, or without a listener, is dropped.
ReceiveEvent ==
    /\ Incoming /\ Message.kind = "event"
    /\ Consumed /\ DaemonSame /\ UNCHANGED sock
    /\ Commit(IF Loading(this) THEN [this EXCEPT !.pending = Append(@, Message)]
              ELSE IF ~this.bound \/ Message.sub # this.current THEN this
              ELSE LET t == [this EXCEPT !.newest = Message.seq]
                   IN IF ChainBusy(this) THEN [t EXCEPT !.chain = Append(@, Message)]
                      ELSE Applied(t, <<Message>>))

\* An answer for the oldest request, which `who` is waiting for.
Answer(who) ==
    /\ Incoming /\ Message.kind # "event"
    /\ Head(this.waiting).who = who
    /\ Consumed /\ DaemonSame /\ UNCHANGED sock

Answered == [this EXCEPT !.waiting = Tail(@)]

\* The answer to session.subscribe: a snapshot empties the projector; a cursor that cannot
\* be resumed is forgotten and a snapshot is asked for.
SubscribeAnswered ==
    /\ this.phase = "subscribe"
    /\ Answer("est")
    /\ LET t == [Answered EXCEPT !.current = Message.sub, !.seen = instance]
       IN \/ /\ Message.kind = "resumed"
             /\ Commit([t EXCEPT !.phase = "ready"])
          \/ /\ Message.kind = "page"
             /\ Commit([t EXCEPT !.phase = "page", !.page = Message, !.view = <<>>])
          \/ /\ Message.kind = "error" /\ this.cursor # None
             /\ Commit(Ask([Answered EXCEPT !.view = <<>>, !.ack = None, !.cursor = None],
                           [method |-> "subscribe", after |-> None],
                           Waiter("est", None, this.caller)))

\* The events of a page are reduced; the next page or the acknowledgement of the whole
\* snapshot is requested.
ReducePage ==
    /\ this.phase = "page"
    /\ LET page == this.page
           t == [this EXCEPT !.view = Reduced(@, Span(page.lo, page.hi)), !.page = None]
       IN Commit(IF page.complete
                 THEN AskAck([t EXCEPT !.phase = "boundary"], "est", page.boundary)
                 ELSE Ask([t EXCEPT !.phase = "history"],
                          [method |-> "history", sub |-> page.sub, offset |-> page.hi],
                          Waiter("est", None, this.caller)))
    /\ DaemonSame /\ UNCHANGED <<sock, down>>

\* The answer to session.history.
PageAnswered ==
    /\ this.phase = "history"
    /\ Answer("est")
    /\ \/ /\ Message.kind = "page"
          /\ Commit([Answered EXCEPT !.phase = "page", !.page = Message])
       \/ /\ Message.kind = "error"
          /\ Commit(LoadingFailed(Answered))

\* The answer to the acknowledgement of the snapshot.
BoundaryAnswered ==
    /\ this.phase = "boundary"
    /\ Answer("est")
    /\ \/ /\ Message.kind = "success"
          /\ Commit([Answered EXCEPT !.phase = "ready", !.ack = Head(this.waiting).cursor])
       \/ /\ Message.kind = "error"
          /\ Commit(LoadingFailed(Answered))

\* loading = false, and the drain begins.  Events that came in the same read as the
\* answer are in pendingEvents by then, later ones are queued on the chain.
FinishLoading ==
    /\ this.phase = "ready"
    /\ Commit(Drained([this EXCEPT !.bound = TRUE]))
    /\ DaemonSame /\ UNCHANGED <<sock, down>>

\* The answer to the acknowledgement of a drained event.
DrainAnswered ==
    /\ this.phase = "drain"
    /\ Answer("est")
    /\ \/ /\ Message.kind = "success"
          /\ Commit(Drained([Answered EXCEPT !.ack = Head(this.waiting).cursor]))
       \/ /\ Message.kind = "error"
          /\ Commit(LoadingFailed(Answered))

\* The answer to the acknowledgement of a live event: the chain goes on with what was
\* queued meanwhile, or a refused cursor starts a recovery with a snapshot.
ChainAnswered ==
    /\ Answer("chain")
    /\ \/ /\ Message.kind = "success"
          /\ Commit(Applied([Answered EXCEPT !.ack = Head(this.waiting).cursor], this.chain))
       \/ /\ Message.kind = "error"
          /\ Commit(IF Recovering(this) THEN Applied(Answered, this.chain)
                    ELSE Recovered(Answered, TRUE))

\* The subscription of a failed load is left: one more attempt, with a snapshot, unless
\* this was it.
CleanupAnswered ==
    /\ this.phase = "cleanup"
    /\ Answer("est")
    /\ \/ /\ ~this.force
          /\ Commit(Establish([Answered EXCEPT !.view = <<>>, !.ack = None], this.caller, TRUE))
       \/ /\ this.force
          /\ Commit(Rejected(Answered, this.caller))

\* A recovery has left the subscription, or found it gone, and establishes a new one.
LeaveAnswered ==
    /\ this.phase = "leaving"
    /\ Answer("est")
    /\ Commit(Establish(Answered, "recovery", this.force))

\* A drain that a recovery superseded: its acknowledgement changes nothing, a refusal makes
\* it clean up the subscription the recovery is leaving, and then its caller is rejected.
SupersededAnswered ==
    /\ Answer("old")
    /\ LET w == Head(this.waiting)
       IN \/ w.cursor # None /\ Message.kind = "success" /\ Commit(Answered)
          \/ /\ w.cursor # None /\ Message.kind = "error"
             /\ Commit([Ask(Answered, [method |-> "unsubscribe", sub |-> this.current],
                            Waiter("old", None, w.caller)) EXCEPT !.current = 0])
          \/ /\ w.cursor = None
             /\ Commit(IF w.caller = "start" THEN [Answered EXCEPT !.started = FALSE]
                       ELSE Rejected(Answered, w.caller))

\* The answer to a request of a generation that ended.
StaleAnswered == Answer("stale") /\ Commit(Answered)

-----------------------------------------------------------------------------
(* The application and the connection.                                     *)

NextConn(c) == sock[c] = "new" /\ \A d \in 1..(c - 1) : sock[d] # "new"

Open(c) == /\ this.conn = 0
           /\ NextConn(c)
           /\ sock' = [sock EXCEPT ![c] = "open"]
           /\ DaemonSame /\ UNCHANGED down

\* AxlClient.connect, and subscribeSession.
Connect(c) == Open(c) /\ ~this.started /\ Commit([Blank EXCEPT !.conn = c])

Start ==
    /\ this.conn # 0 /\ ~this.started /\ this.phase = "idle" /\ this.waiting = <<>>
    /\ Commit(Establish([Blank EXCEPT !.conn = this.conn, !.started = TRUE], "start", FALSE))
    /\ DaemonSame /\ UNCHANGED <<sock, down>>

\* client.reconnect(): a new connection, on which the registered listeners restore their
\* views before it resolves.
ReconnectClient(c) ==
    /\ Open(c) /\ this.started /\ ~(Rebinds /\ this.tried)
    /\ LET t == [this EXCEPT !.conn = c]
       IN \/ this.hook /\ Commit(Establish(t, "reconnect", FALSE))
          \/ ~this.hook /\ Commit([t EXCEPT !.tried = FALSE])

\* The terminal client, once that failed: a new client and subscription.reconnect().
RebindView(c) ==
    /\ Open(c) /\ this.started /\ Rebinds /\ this.tried
    /\ Commit(Establish([this EXCEPT !.conn = c], "candidate", FALSE))

\* The existing client finds no daemon to connect to.
OpenFails ==
    /\ this.conn = 0 /\ this.started /\ Rebinds /\ ~this.tried
    /\ this' = [this EXCEPT !.tried = TRUE]
    /\ UNCHANGED daemonVars

\* subscription.close().
CloseView ==
    /\ this.conn # 0 /\ this.started /\ this.bound
    /\ this.phase = "idle" /\ this.waiting = <<>>
    /\ Commit([AskUnsubscribe(this, "stale") EXCEPT
                 !.started = FALSE, !.hook = FALSE, !.bound = FALSE, !.view = <<>>, !.ack = None])
    /\ DaemonSame /\ UNCHANGED <<sock, down>>

\* Every pending request is rejected (client.fail): establish() fails wherever it is, a
\* recovery that was leaving enters establish() once more to fail there, and deliveries
\* queued behind an acknowledgement are still applied.
Lost(t) ==
    LET unstarted == \E k \in 1..Len(t.waiting) :
                        t.waiting[k].who = "old" /\ t.waiting[k].caller = "start"
        u == IF t.phase = "idle"
             THEN [t EXCEPT !.view = Reduced(@, Positions(t.chain)), !.tried = FALSE]
             ELSE IF t.caller = "start" THEN Blank
             ELSE [t EXCEPT !.hook = FALSE, !.tried = t.caller # "recovery"]
    IN [u EXCEPT !.conn = 0, !.bound = FALSE, !.phase = "idle", !.caller = "none",
                 !.force = FALSE, !.cursor = None, !.current = 0,
                 !.waiting = <<>>, !.chain = <<>>, !.pending = <<>>, !.seq = 0, !.newest = 0,
                 !.missed = FALSE, !.started = @ /\ ~unstarted]

\* Continuations of promises that are resolved run before the next socket event.
Settled == this.phase \notin {"page", "ready"}

\* The connection breaks, a presence or handshake timeout closes it, or the client does
\* because its reconnect failed.
LoseConnection ==
    /\ this.conn # 0 /\ Settled
    /\ this' = Lost(this)
    /\ sock' = [sock EXCEPT ![this.conn] = "closing"]
    /\ down' = [down EXCEPT ![this.conn] = <<>>]
    /\ DaemonSame /\ UNCHANGED up

RestartDaemon ==
    /\ Settled
    /\ Restart
    /\ this' = IF this.conn = 0 THEN this ELSE Lost(this)

-----------------------------------------------------------------------------
Init == DaemonInit /\ this = Blank

ClientStep ==
    \/ ReceiveEvent \/ SubscribeAnswered \/ ReducePage \/ PageAnswered \/ BoundaryAnswered
    \/ FinishLoading \/ DrainAnswered \/ ChainAnswered \/ CleanupAnswered \/ LeaveAnswered
    \/ SupersededAnswered \/ StaleAnswered

DaemonAppends == AppendEvent /\ UNCHANGED this
DaemonServes == (\E c \in Conns : Serve(c)) /\ UNCHANGED this
DaemonExpires == Expire /\ UNCHANGED this
DaemonCleansUp == (\E c \in Conns : Cleanup(c)) /\ UNCHANGED this

Next ==
    \/ DaemonAppends \/ DaemonServes \/ DaemonExpires \/ DaemonCleansUp
    \/ ClientStep
    \/ \E c \in Conns : Connect(c) \/ ReconnectClient(c) \/ RebindView(c)
    \/ Start \/ OpenFails \/ CloseView \/ LoseConnection \/ RestartDaemon

Spec == Init /\ [][Next]_vars

\* The daemon handles what it reads and the client what arrives; a client whose reconnect
\* failed hangs up.  Nothing is promised about new events, faults or the user.
FairSpec == /\ Spec
            /\ WF_vars(DaemonServes)
            /\ WF_vars(ClientStep)
            /\ WF_vars(this.phase = "failed" /\ LoseConnection)

-----------------------------------------------------------------------------
(* Properties.                                                             *)

Phases == {"idle", "subscribe", "page", "history", "boundary", "ready", "drain", "cleanup",
           "leaving", "failed"}

\* Every variable of the daemon and of the subscription object keeps its kind of value.
TypeOK ==
    /\ log \in 0..MaxEvents /\ instance \in 1..(MaxRestarts + 1)
    /\ sock \in [Conns -> {"new", "open", "closing", "closed"}]
    /\ \A i \in 1..Len(subs) :
          /\ subs[i].conn \in 0..MaxConns
          /\ subs[i].state \in {"loading", "active", "invalid", "gone"}
          /\ subs[i].base \in 0..MaxEvents /\ subs[i].seq \in 0..MaxEvents
          /\ {subs[i].ackCursor, subs[i].boundary} \subseteq CursorIds
    /\ Len(cursors) <= MaxCursors
    /\ \A k \in 1..Len(cursors) : cursors[k].id \in CursorIds /\ cursors[k].sub \in 1..Len(subs)
    /\ this.phase \in Phases /\ this.conn \in 0..MaxConns
    /\ this.ack \in CursorIds /\ this.current \in 0..MaxSubs
    /\ this.out = <<>>

\* A subscription owes its client exactly the events after its base: while it loads they
\* all wait in its tail, in order, and once it is active it has sent all of them.
\* (bufferSnapshotEvent, activateReadySubscriptions, deliverEvent)
TailComplete ==
    \A i \in 1..Len(subs) :
        /\ subs[i].state = "loading" => subs[i].tail = Span(subs[i].base + 1, log)
        /\ subs[i].state = "active" => subs[i].seq = log - subs[i].base
        /\ Listening(i) => subs[i].next = log + 1

\* The view of the client implements the abstract feed, across pages, tails, resumed
\* cursors, gaps, recoveries, reconnects and restarts.
Abstract == INSTANCE EventFeed WITH view <- this.view
ViewIsFeed == Abstract!Feed

Idle == this.phase = "idle" /\ this.waiting = <<>> /\ this.chain = <<>>

Quiet == Idle /\ this.conn # 0 /\ down[this.conn] = <<>> /\ up[this.conn] = <<>>

\* When the view is bound and nothing is on its way, it shows the whole log: no event was
\* dropped between the snapshot, the tail, the drain and the live chain.  The exception is a
\* gap found while a recovery was running, which scheduleRecovery ignores.
QuietViewComplete ==
    Quiet /\ this.bound /\ ~this.missed => this.view = Span(1, log)

\* The same without the exception: a view that is bound and quiet shows the whole log.
QuietViewCurrent == Quiet /\ this.bound => this.view = Span(1, log)

\* A reconnect that succeeds has restored the view the application holds.
\* (AxlClient.onReconnect)
ReconnectRestoresView ==
    [][this.started /\ this.conn = 0 /\ this'.conn # 0 => this'.phase = "subscribe"]_vars

\* A cursor the client would resume from, and the daemon would accept, never lies beyond
\* what the view shows: resuming cannot skip an event.  A recovery keeps acknowledgedCursor
\* while it loads a new snapshot into the emptied view; it is safe because the daemon no
\* longer knows that cursor. (persist, scheduleRecovery, releaseSubscriptionCursors)
ResumeSkipsNothing ==
    /\ this.view # <<>> /\ this.seen = instance
    /\ HasCursor(this.ack) /\ CursorOf(this.ack).acknowledged
    => CursorOf(this.ack).pos <= Len(this.view)

Live == this.bound /\ this.conn # 0 /\ ~this.missed

\* A live view catches up with every event of the log, unless it stops being live.
CatchUp ==
    \A n \in 1..MaxEvents : (Live /\ log >= n) ~> (Len(this.view) >= n \/ ~Live)

\* Loading a view, restoring it or recovering it comes to an end: no await of establish()
\* or of a recovery hangs on an answer that never comes (up to the bound MaxSubs).
EstablishEnds == this.phase # "idle" ~> (this.phase = "idle" \/ Len(subs) = MaxSubs)
=============================================================================
