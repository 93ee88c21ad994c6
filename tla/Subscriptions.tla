--------------------------- MODULE Subscriptions ---------------------------
(***************************************************************************)
(* The daemon's side of event delivery for one session (AxlDaemon in       *)
(* packages/daemon/src/daemon.ts): the subscriptions of every connection,  *)
(* the frozen snapshot each one pages through while the events appended    *)
(* meanwhile wait in its tail, the bounded table of resumable cursors, and *)
(* the cleanup of a connection that closed.                                *)
(*                                                                         *)
(* A canonical event is its position in the session's log, 1..log.  A      *)
(* request is handled in one step: from the dispatch of a subscription     *)
(* request to the activation after its response the daemon awaits nothing  *)
(* but resolved promises.  Byte limits are folded into the limits on       *)
(* counts; activity frames and views of one node are left out.             *)
(***************************************************************************)
EXTENDS Integers, Sequences, FiniteSets, SequencesExt, Filter

CONSTANTS MaxEvents,    \* bound: canonical events of the session
          MaxSubs,      \* bound: subscriptions ever created
          MaxConns,     \* bound: connections ever opened
          MaxRestarts,  \* bound: daemon restarts
          PageSize,     \* MAX_SNAPSHOT_PAGE_EVENTS
          MaxTail,      \* MAX_SNAPSHOT_TAIL_EVENTS
          MaxCursors    \* MAX_EVENT_CURSORS

ASSUME SubscriptionLimits ==
    /\ {MaxEvents, MaxSubs, MaxConns, MaxRestarts, MaxTail} \subseteq Nat
    /\ {PageSize, MaxCursors} \subseteq Nat \ {0}

VARIABLES log,       \* number of canonical events (managed.events)
          instance,  \* daemonInstanceId
          sock,      \* state of each connection
          up,        \* requests on their way to the daemon, per connection
          down,      \* responses and events on their way to the client
          subs,      \* every ConnectionSubscription, in order of creation
          cursors    \* this.cursors, in insertion order

daemonVars == <<log, instance, sock, up, down, subs, cursors>>

Conns == 1..MaxConns

None == <<>>                                  \* no cursor
\* A cursor is named by the subscription that created it and its position.
CursorIds == ((1..MaxSubs) \X (0..MaxEvents)) \cup {None}

Cursor(i, p) == [id |-> <<i, p>>, sub |-> i, pos |-> p, acknowledged |-> FALSE]

Span(lo, hi) == [k \in 1..(IF hi < lo THEN 0 ELSE hi - lo + 1) |-> lo + k - 1]

Least(a, b) == IF a < b THEN a ELSE b

-----------------------------------------------------------------------------
(* The cursor table.                                                       *)

HasCursor(id) == \E k \in 1..Len(cursors) : cursors[k].id = id

CursorOf(id) == cursors[CHOOSE k \in 1..Len(cursors) : cursors[k].id = id]

\* Mutant: the table of cursors grows without a limit.
InsertedUnbounded(table, new) == table \o new

\* createCursor, once per new cursor: the oldest ones make room.
Inserted(table, new) ==
    LET all == table \o new
        extra == Len(all) - MaxCursors
    IN IF extra > 0 THEN SubSeq(all, extra + 1, Len(all)) ELSE all

\* releaseSubscriptionCursors: all cursors of the subscriptions, but `kept`.
Released(table, owners, kept) ==
    Only(table, {r \in ToSet(table) : r.sub \notin owners \/ r.id \in kept})

-----------------------------------------------------------------------------
(* Messages to the client.                                                 *)

Send(c, messages) ==
    down' = IF sock[c] = "open" THEN [down EXCEPT ![c] = @ \o messages] ELSE down

Failure(code) == [kind |-> "error", code |-> code]
Success == [kind |-> "success"]

\* deliverEvent for positions ps: consecutive sequence numbers, one new cursor each.
Deliveries(i, from, ps) ==
    [k \in 1..Len(ps) |->
        [kind |-> "event", sub |-> i, seq |-> from + k, cursor |-> <<i, ps[k]>>, pos |-> ps[k]]]

NewCursors(i, ps) == [k \in 1..Len(ps) |-> Cursor(i, ps[k])]

-----------------------------------------------------------------------------
\* A subscription that left its connection's map.
Gone == [conn |-> 0, state |-> "gone", base |-> 0, tail |-> <<>>, next |-> 0, seq |-> 0,
         offset |-> 0, final |-> FALSE, ackPos |-> -1, ackCursor |-> None, boundary |-> None]

Listening(i) == subs[i].state \in {"loading", "active"}

Attached(c, i) == i \in 1..Len(subs) /\ subs[i].conn = c

Overflows(s) == s.state = "loading" /\ Len(s.tail) >= MaxTail

\* Mutant: an event past the limit of the tail is dropped and the snapshot goes on.
NotifiedDropping(s) ==
    CASE s.state = "active" -> [s EXCEPT !.next = @ + 1, !.seq = @ + 1]
      [] Overflows(s) -> s
      [] s.state = "loading" /\ ~Overflows(s) ->
            [s EXCEPT !.next = @ + 1, !.tail = Append(@, s.next)]
      [] OTHER -> s

\* The event listener of one subscription: an active one delivers, a loading one buffers
\* or, past its limit, is invalidated.
Notified(s) ==
    CASE s.state = "active" -> [s EXCEPT !.next = @ + 1, !.seq = @ + 1]
      [] Overflows(s) -> [s EXCEPT !.next = @ + 1, !.state = "invalid", !.tail = <<>>]
      [] s.state = "loading" /\ ~Overflows(s) ->
            [s EXCEPT !.next = @ + 1, !.tail = Append(@, s.next)]
      [] OTHER -> s

\* The session appends an event and SessionManager calls every listener.
AppendEvent ==
    /\ log < MaxEvents
    /\ log' = log + 1
    /\ subs' = [i \in 1..Len(subs) |-> Notified(subs[i])]
    /\ LET active == Only(Span(1, Len(subs)), {i \in 1..Len(subs) : subs[i].state = "active"})
           over == {i \in 1..Len(subs) : Overflows(subs[i])}
           Delivery(i) == Deliveries(i, subs[i].seq, <<subs[i].next>>)[1]
       IN /\ cursors' = Inserted(Released(cursors, over, {}),
                                 [k \in 1..Len(active) |->
                                    Cursor(active[k], subs[active[k]].next)])
          /\ down' = [c \in Conns |->
                        LET mine == Only(active, {i \in ToSet(active) :
                                                     subs[i].conn = c /\ sock[c] = "open"})
                        IN down[c] \o [k \in 1..Len(mine) |-> Delivery(mine[k])]]
    /\ UNCHANGED <<instance, sock, up>>

-----------------------------------------------------------------------------
(* Requests.                                                               *)

\* The daemon reads the next request of connection c; the requests it has read before
\* the connection closed are still handled until the cleanup.
Reads(c, method) ==
    /\ sock[c] \in {"open", "closing"}
    /\ up[c] # <<>>
    /\ Head(up[c]).method = method
    /\ up' = [up EXCEPT ![c] = Tail(@)]
    /\ UNCHANGED <<log, instance, sock>>

\* Mutant: a request that throws is not answered.
RefuseSilently(c, code) == UNCHANGED <<down, subs, cursors>>

Refuse(c, code) == Send(c, <<Failure(code)>>) /\ UNCHANGED <<subs, cursors>>

\* buildSnapshotPage from an offset.
Page(i, offset, base) ==
    LET hi == Least(offset + PageSize, base)
    IN [kind |-> "page", sub |-> i, lo |-> offset + 1, hi |-> hi, complete |-> hi >= base,
        boundary |-> <<i, base>>]

\* session.subscribe without a cursor: freeze a snapshot of the log, create its boundary
\* cursor, return the first page.
SubscribeSnapshot(c) ==
    /\ Reads(c, "subscribe")
    /\ Head(up[c]).after = None
    /\ Len(subs) < MaxSubs
    /\ LET i == Len(subs) + 1
           page == Page(i, 0, log)
       IN /\ subs' = Append(subs,
                [conn |-> c, state |-> "loading", base |-> log, tail |-> <<>>, next |-> log + 1,
                 seq |-> 0, offset |-> page.hi, final |-> page.complete,
                 ackPos |-> -1, ackCursor |-> None, boundary |-> <<i, log>>])
          /\ cursors' = Inserted(cursors, <<Cursor(i, log)>>)
          /\ Send(c, <<page>>)

\* session.subscribe after a cursor: an acknowledged cursor resumes behind it.  The record
\* moves to the new subscription, the events behind it become the tail and are delivered
\* right after the response.  A tail past its limit releases the cursor it took.
SubscribeAfter(c) ==
    /\ Reads(c, "subscribe")
    /\ Head(up[c]).after # None
    /\ Len(subs) < MaxSubs
    /\ LET id == Head(up[c]).after
           known == HasCursor(id) /\ CursorOf(id).acknowledged
           from == CursorOf(id).pos
           i == Len(subs) + 1
           missing == Span(from + 1, log)
           Moved(r) == IF r.id = id THEN [r EXCEPT !.sub = i] ELSE r
           moved == [k \in 1..Len(cursors) |-> Moved(cursors[k])]
       IN \/ ~known /\ Refuse(c, "snapshot_required")
          \/ /\ known /\ Len(missing) > MaxTail
             /\ cursors' = Released(moved, {i}, {})
             /\ Send(c, <<Failure("snapshot_required")>>)
             /\ UNCHANGED subs
          \/ /\ known /\ Len(missing) <= MaxTail
             /\ subs' = Append(subs,
                   [conn |-> c, state |-> "active", base |-> from, tail |-> <<>>,
                    next |-> log + 1, seq |-> Len(missing), offset |-> 0, final |-> FALSE,
                    ackPos |-> from, ackCursor |-> id, boundary |-> None])
             /\ cursors' = Inserted(moved, NewCursors(i, missing))
             /\ Send(c, <<[kind |-> "resumed", sub |-> i]>> \o Deliveries(i, 0, missing))

\* session.history: a page that was built is answered from pageResults even after the
\* snapshot ended; the next one is built while the snapshot is available.
History(c) ==
    /\ Reads(c, "history")
    /\ UNCHANGED cursors
    /\ LET i == Head(up[c]).sub
           offset == Head(up[c]).offset
           page == Page(i, offset, subs[i].base)
           served == /\ Attached(c, i)
                     /\ offset < subs[i].offset \/ subs[i].state # "invalid"
       IN \/ ~served /\ Refuse(c, "snapshot_required")
          \/ /\ served
             /\ Send(c, <<page>>)
             /\ subs' = IF offset < subs[i].offset THEN subs
                        ELSE [subs EXCEPT ![i].offset = page.hi, ![i].final = @ \/ page.complete]

\* session.ack: the cursor must belong to the subscription, the boundary only counts after
\* the last page; an accepted cursor drops the earlier ones, and the boundary activates the
\* subscription after the response: its tail follows at once.
Acknowledge(c) ==
    /\ Reads(c, "ack")
    /\ LET i == Head(up[c]).sub
           id == Head(up[c]).cursor
           owns == HasCursor(id) /\ CursorOf(id).sub = i
           refusal == CASE ~Attached(c, i) -> "unknown_subscription"
                        [] Attached(c, i) /\ subs[i].state = "invalid" -> "snapshot_required"
                        [] Attached(c, i) /\ Listening(i) /\ ~owns -> "unknown_cursor"
                        [] OTHER -> IF id = subs[i].boundary /\ ~subs[i].final
                                    THEN "snapshot_required" ELSE "none"
           p == CursorOf(id).pos
           older == p < subs[i].ackPos
           Marked(r) == IF r.id = id THEN [r EXCEPT !.acknowledged = TRUE] ELSE r
           marked == [k \in 1..Len(cursors) |-> Marked(cursors[k])]
           kept == IF older THEN marked
                   ELSE Only(marked, {r \in ToSet(marked) : r.id = id \/ r.sub # i \/ r.pos > p})
           starts == id = subs[i].boundary /\ subs[i].state = "loading"
           s == [subs[i] EXCEPT !.ackPos = IF older THEN @ ELSE p,
                                !.ackCursor = IF older THEN @ ELSE id]
       IN \/ refusal # "none" /\ Refuse(c, refusal)
          \/ /\ refusal = "none" /\ starts
             /\ subs' = [subs EXCEPT ![i] = [s EXCEPT !.state = "active", !.tail = <<>>,
                                                      !.seq = Len(s.tail)]]
             /\ cursors' = Inserted(kept, NewCursors(i, s.tail))
             /\ Send(c, <<Success>> \o Deliveries(i, 0, s.tail))
          \/ /\ refusal = "none" /\ ~starts
             /\ subs' = [subs EXCEPT ![i] = s]
             /\ cursors' = kept
             /\ Send(c, <<Success>>)

\* session.unsubscribe: every cursor goes, the acknowledged one too.
Unsubscribe(c) ==
    /\ Reads(c, "unsubscribe")
    /\ LET i == Head(up[c]).sub
       IN \/ ~Attached(c, i) /\ Refuse(c, "unknown_subscription")
          \/ /\ Attached(c, i)
             /\ subs' = [subs EXCEPT ![i] = Gone]
             /\ cursors' = Released(cursors, {i}, {})
             /\ Send(c, <<Success>>)

-----------------------------------------------------------------------------
(* Time, connections and restarts.                                         *)

\* The presence timer, or assertSnapshotAvailable, finds a loading snapshot too old.
SnapshotExpires ==
    /\ \E i \in 1..Len(subs) :
          /\ subs[i].state = "loading"
          /\ subs' = [subs EXCEPT ![i].state = "invalid", ![i].tail = <<>>]
          /\ cursors' = Released(cursors, {i}, {})
    /\ UNCHANGED <<log, instance, sock, up, down>>

\* pruneCursors: cursors are created in the order in which they expire.
CursorsExpire ==
    /\ cursors # <<>>
    /\ cursors' = Tail(cursors)
    /\ UNCHANGED <<log, instance, sock, up, down, subs>>

\* The daemon notices that a connection closed: its subscriptions end, and of their
\* cursors only the last acknowledged one stays.
Cleanup(c) ==
    /\ sock[c] = "closing"
    /\ LET ended == {i \in 1..Len(subs) : Attached(c, i)}
       IN /\ subs' = [i \in 1..Len(subs) |->
                        IF i \in ended THEN Gone ELSE subs[i]]
          /\ cursors' = Released(cursors, ended, {subs[i].ackCursor : i \in ended})
    /\ sock' = [sock EXCEPT ![c] = "closed"]
    /\ up' = [up EXCEPT ![c] = <<>>]
    /\ UNCHANGED <<log, instance, down>>

\* A new daemon process: the log survives, subscriptions and cursors do not.
Restart ==
    /\ instance <= MaxRestarts
    /\ instance' = instance + 1
    /\ subs' = [i \in 1..Len(subs) |-> Gone]
    /\ cursors' = <<>>
    /\ sock' = [c \in Conns |-> IF sock[c] = "new" THEN "new" ELSE "closed"]
    /\ up' = [c \in Conns |-> <<>>]
    /\ down' = [c \in Conns |-> <<>>]
    /\ UNCHANGED log

DaemonInit ==
    /\ log = 0
    /\ instance = 1
    /\ sock = [c \in Conns |-> "new"]
    /\ up = [c \in Conns |-> <<>>]
    /\ down = [c \in Conns |-> <<>>]
    /\ subs = <<>>
    /\ cursors = <<>>

\* The daemon answers a request of connection c.
Serve(c) == \/ SubscribeSnapshot(c) \/ SubscribeAfter(c) \/ History(c)
            \/ Acknowledge(c) \/ Unsubscribe(c)

\* Time passes for snapshots and cursors.
Expire == SnapshotExpires \/ CursorsExpire
=============================================================================
