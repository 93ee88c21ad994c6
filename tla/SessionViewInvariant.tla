------------------------ MODULE SessionViewInvariant ------------------------
(***************************************************************************)
(* The inductive invariant of a session view and its daemon, for any number of *)
(* events, subscriptions, connections and restarts and any sizes of pages, *)
(* tails and the cursor table.                                             *)
(*                                                                         *)
(* It has two parts.  IInv is about each side and the number of messages   *)
(* between them: SubsInv says of each subscription, at its state, which events *)
(* it has sent or keeps in its tail, TableInv that no cursor lies beyond the *)
(* log, and Balanced that requests and answers of the connection in use are in *)
(* step, so that an answer is always for the oldest waiting request.       *)
(*                                                                         *)
(* Stream is about what these messages carry: which cursors there are and in *)
(* which order they are evicted (Roster, Table), what each waiting promise of *)
(* the client has been or will be answered (Conversing), which events are on *)
(* their way to its view and where they are missing (Streaming), that its  *)
(* acknowledged cursor is shown or unknown (AckSafe), and that the view shows a *)
(* beginning of the log (Showing).                                         *)
(*                                                                         *)
(* This module has IInv with its proof, and of Stream what the daemon does by *)
(* itself: time, other connections, new events and the requests of others. *)
(* SessionViewProofs has the rest and the theorems.                        *)
(***************************************************************************)
EXTENDS SessionView, FilterLemmas, TLAPS

\* The bounds are numbers.
LEMMA Bounds ==
    /\ MaxEvents \in Nat /\ MaxSubs \in Nat /\ MaxConns \in Nat /\ MaxRestarts \in Nat
    /\ MaxTail \in Nat /\ PageSize \in Nat /\ PageSize > 0 /\ MaxCursors \in Nat /\ MaxCursors > 0
BY SubscriptionLimits DEF SubscriptionLimits

-----------------------------------------------------------------------------
(* Positions in a row.                                                     *)

\* The numbers from lo to hi.
LEMMA SpanIs ==
    ASSUME NEW lo \in Nat, NEW hi \in Nat
    PROVE  /\ Span(lo, hi) \in Seq(lo..hi) /\ Span(lo, hi) \in Seq(Nat)
           /\ lo <= hi + 1 => Len(Span(lo, hi)) = (hi - lo) + 1
           /\ \A k \in 1..Len(Span(lo, hi)) : Span(lo, hi)[k] = lo + k - 1
<1> DEFINE n == IF hi < lo THEN 0 ELSE hi - lo + 1
<1>1. n \in Nat /\ \A k \in 1..n : lo + k - 1 \in lo..hi /\ lo + k - 1 \in Nat
    OBVIOUS
<1>2. lo <= hi + 1 => n = (hi - lo) + 1
    OBVIOUS
<1>3. Span(lo, hi) = [k \in 1..n |-> lo + k - 1]
    BY DEF Span
<1> HIDE DEF n
<1> QED
    BY <1>1, <1>2, <1>3

\* One number more.
LEMMA SpanNext ==
    ASSUME NEW lo \in Nat, NEW hi \in Nat, lo <= hi + 1
    PROVE  Append(Span(lo, hi), hi + 1) = Span(lo, hi + 1)
<1> DEFINE s == Span(lo, hi)
           t == Span(lo, hi + 1)
           n == (hi - lo) + 1
<1>1. n \in Nat /\ lo + (n + 1) - 1 = hi + 1 /\ ((hi + 1) - lo) + 1 = n + 1
    OBVIOUS
<1>2. s \in Seq(Nat) /\ Len(s) = n /\ \A k \in 1..n : s[k] = lo + k - 1
  <2>1. s \in Seq(Nat) /\ Len(s) = (hi - lo) + 1 /\ \A k \in 1..Len(s) : s[k] = lo + k - 1
    BY SpanIs
  <2> QED
    BY <2>1
<1>3. t \in Seq(Nat) /\ Len(t) = n + 1 /\ \A k \in 1..(n + 1) : t[k] = lo + k - 1
  <2>1. hi + 1 \in Nat /\ lo <= (hi + 1) + 1
    OBVIOUS
  <2>2. t \in Seq(Nat) /\ Len(t) = ((hi + 1) - lo) + 1 /\ \A k \in 1..Len(t) : t[k] = lo + k - 1
    BY <2>1, SpanIs
  <2> QED
    BY <1>1, <2>2
<1> HIDE DEF s, t, n
<1>4. /\ Append(s, hi + 1) \in Seq(Nat) /\ Len(Append(s, hi + 1)) = n + 1
      /\ \A k \in 1..(n + 1) : Append(s, hi + 1)[k] = t[k]
    BY <1>1, <1>2, <1>3
<1>5. \A p, q \in Seq(Nat) : Len(p) = Len(q) /\ (\A j \in 1..Len(p) : p[j] = q[j]) => p = q
    OBVIOUS
<1>6. Append(s, hi + 1) = t
    BY <1>3, <1>4, <1>5
<1> QED
    BY <1>6 DEF s, t

\* No numbers.
LEMMA SpanNone ==
    ASSUME NEW n \in Nat
    PROVE  Span(n + 1, n) = <<>>
<1>1. n + 1 \in Nat /\ n + 1 <= n + 1 /\ (n - (n + 1)) + 1 = 0
    OBVIOUS
<1>2. Span(n + 1, n) \in Seq(Nat) /\ Len(Span(n + 1, n)) = (n - (n + 1)) + 1
    BY <1>1, SpanIs
<1> QED
    BY <1>1, <1>2

-----------------------------------------------------------------------------
(* The values of the daemon.                                               *)

Pages == [kind : {"page"}, sub : 1..MaxSubs, lo : Nat, hi : Nat, complete : BOOLEAN,
          boundary : CursorIds]
Errors == [kind : {"error"}, code : {"snapshot_required", "unknown_subscription", "unknown_cursor"}]
Replies == [kind : {"success"}] \cup Errors \cup [kind : {"resumed"}, sub : 1..MaxSubs] \cup Pages
Events == [kind : {"event"}, sub : 1..MaxSubs, seq : Nat, cursor : CursorIds, pos : Nat]
Messages == Replies \cup Events

Requests == [method : {"subscribe"}, after : CursorIds]
            \cup [method : {"history"}, sub : 0..MaxSubs, offset : Nat]
            \cup [method : {"ack"}, sub : 0..MaxSubs, cursor : CursorIds]
            \cup [method : {"unsubscribe"}, sub : 0..MaxSubs]

States == {"loading", "active", "invalid", "gone"}
SubRecords == [conn : 0..MaxConns, state : States, base : 0..MaxEvents, tail : Seq(Nat),
               next : Nat, seq : 0..MaxEvents, offset : Nat, final : BOOLEAN, ackPos : Int,
               ackCursor : CursorIds, boundary : CursorIds]
CursorRecords == [id : CursorIds, sub : 1..MaxSubs, pos : 0..MaxEvents, acknowledged : BOOLEAN]

\* What a subscription owes its client of a log of n events.
Owes(s, n) ==
    /\ s.base <= n
    /\ s.state = "loading" => s.tail = Span(s.base + 1, n)
    /\ s.state = "active" => s.seq = n - s.base
    /\ s.state \in {"loading", "active"} => s.next = n + 1
    /\ s.state = "gone" => s.conn = 0

Fit(n) == {s \in SubRecords : Owes(s, n)}

\* The cursors of a log of n events and m subscriptions.
Held(n, m) == {r \in CursorRecords : r.pos <= n /\ r.sub <= m}

Sizes == log \in 0..MaxEvents /\ instance \in 1..(MaxRestarts + 1)
SubsInv == subs \in Seq(Fit(log)) /\ Len(subs) <= MaxSubs
TableInv == cursors \in Seq(Held(log, Len(subs))) /\ Len(cursors) <= MaxCursors
Channels ==
    /\ sock \in [Conns -> {"new", "open", "closing", "closed"}]
    /\ up \in [Conns -> Seq(Requests)]
    /\ down \in [Conns -> Seq(Messages)]

DaemonInv == Sizes /\ SubsInv /\ TableInv /\ Channels

\* A sequence of a smaller set is one of a larger set.
LEMMA Wider ==
    ASSUME NEW A, NEW B, \A x \in A : x \in B, NEW s \in Seq(A)
    PROVE  s \in Seq(B)
OBVIOUS

\* New cursors make room for themselves.
LEMMA InsertedIs ==
    ASSUME NEW S, NEW table \in Seq(S), NEW new \in Seq(S)
    PROVE  Inserted(table, new) \in Seq(S) /\ Len(Inserted(table, new)) <= MaxCursors
<1> DEFINE all == table \o new
           extra == Len(all) - MaxCursors
<1>1. all \in Seq(S) /\ Len(all) \in Nat
    OBVIOUS
<1>2. Inserted(table, new) = IF extra > 0 THEN SubSeq(all, extra + 1, Len(all)) ELSE all
    BY DEF Inserted
<1> HIDE DEF all
<1>3. CASE extra > 0
  <2>1. /\ SubSeq(all, extra + 1, Len(all)) \in Seq(S)
        /\ Len(SubSeq(all, extra + 1, Len(all))) = MaxCursors
    BY <1>1, <1>3, Bounds
  <2> QED
    BY <1>2, <1>3, <2>1, Bounds
<1>4. CASE ~(extra > 0)
    BY <1>1, <1>2, <1>4, Bounds
<1> QED
    BY <1>3, <1>4

\* Releasing leaves some of the cursors.
LEMMA ReleasedIs ==
    ASSUME NEW S, NEW table \in Seq(S), NEW owners, NEW kept
    PROVE  Released(table, owners, kept) \in Seq(S) /\ Len(Released(table, owners, kept)) <= Len(table)
BY OnlyOf DEF Released

\* A cursor that the table has is one of its records.
LEMMA CursorIs ==
    ASSUME TableInv, NEW id, HasCursor(id)
    PROVE  CursorOf(id) \in Held(log, Len(subs)) /\ CursorOf(id).id = id
<1>1. \E k \in 1..Len(cursors) : cursors[k].id = id
    BY DEF HasCursor
<1> DEFINE j == CHOOSE k \in 1..Len(cursors) : cursors[k].id = id
<1>2. j \in 1..Len(cursors) /\ cursors[j].id = id
    BY <1>1
<1>3. CursorOf(id) = cursors[j]
    BY DEF CursorOf
<1> HIDE DEF j
<1> QED
    BY <1>2, <1>3 DEF TableInv

\* The cursors of new deliveries.
LEMMA NewCursorsAre ==
    ASSUME NEW n \in 0..MaxEvents, NEW m \in Nat, m <= MaxSubs, NEW i \in 1..m, NEW ps \in Seq(0..n)
    PROVE  NewCursors(i, ps) \in Seq(Held(n, m))
<1>1. \A p \in 0..n : Cursor(i, p) \in Held(n, m)
  <2> TAKE p \in 0..n
  <2>1. i \in 1..MaxSubs /\ p \in 0..MaxEvents /\ p <= n /\ i <= m
    BY Bounds
  <2>2. <<i, p>> \in CursorIds
    BY <2>1 DEF CursorIds
  <2> QED
    BY <2>1, <2>2 DEF Cursor, Held, CursorRecords
<1>2. \A k \in 1..Len(ps) : ps[k] \in 0..n
    OBVIOUS
<1> QED
    BY <1>1, <1>2 DEF NewCursors

\* Deliveries are events of their subscription.
LEMMA DeliveriesAre ==
    ASSUME NEW i \in 1..MaxSubs, NEW from \in Nat, NEW ps \in Seq(0..MaxEvents)
    PROVE  /\ Deliveries(i, from, ps) \in Seq(Events)
           /\ Len(Deliveries(i, from, ps)) = Len(ps)
<1> DEFINE D(k) == [kind |-> "event", sub |-> i, seq |-> from + k, cursor |-> <<i, ps[k]>>, pos |-> ps[k]]
<1>1. \A k \in 1..Len(ps) : D(k) \in Events
  <2> TAKE k \in 1..Len(ps)
  <2>1. ps[k] \in 0..MaxEvents /\ ps[k] \in Nat /\ from + k \in Nat
    BY Bounds
  <2>2. <<i, ps[k]>> \in CursorIds
    BY <2>1 DEF CursorIds
  <2> QED
    BY <2>1, <2>2 DEF Events
<1>2. Deliveries(i, from, ps) = [k \in 1..Len(ps) |-> D(k)]
    BY DEF Deliveries
<1> HIDE DEF D
<1> QED
    BY <1>1, <1>2

-----------------------------------------------------------------------------
(* A request of a connection.                                              *)

\* Each request that is read gets one answer, with events behind it.
Served(c) ==
    /\ up[c] # <<>> /\ sock[c] \in {"open", "closing"}
    /\ up' = [up EXCEPT ![c] = Tail(@)]
    /\ log' = log /\ instance' = instance /\ sock' = sock
    /\ \E m \in Replies, ev \in Seq(Events) : Send(c, <<m>> \o ev)

\* A page of a snapshot.
LEMMA PageIs ==
    ASSUME NEW i \in 1..MaxSubs, NEW offset \in Nat, NEW base \in 0..MaxEvents
    PROVE  Page(i, offset, base) \in Pages /\ Page(i, offset, base).hi \in Nat
<1>1. <<i, base>> \in CursorIds
    BY DEF CursorIds
<1>2. Least(offset + PageSize, base) \in Nat
    BY Bounds DEF Least
<1> DEFINE hi == Least(offset + PageSize, base)
           done == hi >= base
<1>3. done \in BOOLEAN /\ offset + 1 \in Nat
    OBVIOUS
<1>4. Page(i, offset, base) = [kind |-> "page", sub |-> i, lo |-> offset + 1, hi |-> hi, complete |-> done,
                               boundary |-> <<i, base>>]
    BY DEF Page
<1> HIDE DEF hi, done
<1>5. hi \in Nat
    BY <1>2 DEF hi
<1> QED
    BY <1>1, <1>3, <1>4, <1>5 DEF Pages

\* A request that was read.
LEMMA ReadIs ==
    ASSUME DaemonInv, NEW c \in Conns, NEW method, Reads(c, method)
    PROVE  /\ up[c] # <<>> /\ sock[c] \in {"open", "closing"} /\ up' = [up EXCEPT ![c] = Tail(@)]
           /\ log' = log /\ instance' = instance /\ sock' = sock
           /\ Head(up[c]) \in Requests /\ Head(up[c]).method = method
<1>1. up[c] \in Seq(Requests)
    BY DEF DaemonInv, Channels
<1>2. up[c] # <<>> /\ Head(up[c]).method = method
    BY DEF Reads
<1>3. Head(up[c]) \in Requests
    BY <1>1, <1>2
<1> QED
    BY <1>2, <1>3 DEF Reads

\* One answer with no events.
LEMMA AnsweredAlone ==
    ASSUME DaemonInv, NEW c \in Conns, NEW method, Reads(c, method), NEW m \in Replies, Send(c, <<m>>)
    PROVE  Served(c)
<1>1. <<m>> = <<m>> \o <<>> /\ <<>> \in Seq(Events)
    OBVIOUS
<1>2. Send(c, <<m>> \o <<>>)
    BY <1>1
<1>3. \E x \in Replies, ev \in Seq(Events) : Send(c, <<x>> \o ev)
    BY <1>1, <1>2
<1> QED
    BY <1>3, ReadIs DEF Served

\* A refused request.
LEMMA Refused ==
    ASSUME DaemonInv, NEW c \in Conns, NEW method, Reads(c, method), NEW code, Refuse(c, code),
           code \in {"snapshot_required", "unknown_subscription", "unknown_cursor"}
    PROVE  Served(c) /\ SubsInv' /\ TableInv'
<1>1. Failure(code) \in Replies
    BY DEF Failure, Replies, Errors
<1>2. Send(c, <<Failure(code)>>) /\ subs' = subs /\ cursors' = cursors
    BY DEF Refuse
<1>3. Served(c) /\ log' = log
    BY <1>1, <1>2, AnsweredAlone, ReadIs
<1>4. SubsInv /\ TableInv
    BY DEF DaemonInv
<1> QED
    BY <1>2, <1>3, <1>4 DEF SubsInv, TableInv

\* One subscription of a sequence is changed or is new.
LEMMA SubSet ==
    ASSUME NEW S, NEW s \in Seq(S), NEW i \in 1..Len(s), NEW x \in S
    PROVE  [s EXCEPT ![i] = x] \in Seq(S) /\ Len([s EXCEPT ![i] = x]) = Len(s)
OBVIOUS

LEMMA ServedSnapshot ==
    ASSUME DaemonInv, NEW c \in Conns, SubscribeSnapshot(c)
    PROVE  Served(c) /\ SubsInv' /\ TableInv'
<1> DEFINE i == Len(subs) + 1
           page == Page(i, 0, log)
           new == [conn |-> c, state |-> "loading", base |-> log, tail |-> <<>>, next |-> log + 1,
                   seq |-> 0, offset |-> page.hi, final |-> page.complete,
                   ackPos |-> -1, ackCursor |-> None, boundary |-> <<i, log>>]
<1>1. /\ Reads(c, "subscribe") /\ Len(subs) < MaxSubs /\ subs' = Append(subs, new)
      /\ cursors' = Inserted(cursors, <<Cursor(i, log)>>) /\ Send(c, <<page>>)
    BY DEF SubscribeSnapshot
<1>2. log \in 0..MaxEvents /\ log \in Nat /\ subs \in Seq(Fit(log)) /\ cursors \in Seq(Held(log, Len(subs)))
    BY Bounds DEF DaemonInv, Sizes, SubsInv, TableInv
<1>3. i \in 1..MaxSubs /\ Len(subs) \in Nat /\ i \in 1..i /\ i <= MaxSubs /\ i \in Nat
    BY <1>1, <1>2, Bounds
<1>4. page \in Pages /\ page.hi \in Nat /\ page.complete \in BOOLEAN
  <2>1. page \in Pages /\ page.hi \in Nat
    BY <1>2, <1>3, PageIs
  <2> HIDE DEF page
  <2> QED
    BY <2>1 DEF Pages
<1>5. Served(c) /\ log' = log
  <2>1. page \in Replies
    BY <1>4 DEF Replies
  <2> HIDE DEF page
  <2> QED
    BY <2>1, <1>1, AnsweredAlone, ReadIs
<1>6. new \in Fit(log)
  <2>1. None \in CursorIds /\ <<i, log>> \in CursorIds
    BY <1>2, <1>3 DEF CursorIds
  <2>2. <<>> = Span(log + 1, log)
    BY <1>2, SpanNone
  <2>3. /\ c \in 0..MaxConns /\ log + 1 \in Nat /\ 0 \in 0..MaxEvents /\ -1 \in Int /\ <<>> \in Seq(Nat)
        /\ log <= log
    BY <1>2, Bounds DEF Conns
  <2> HIDE DEF page, i
  <2>4. new \in SubRecords
    BY <1>2, <1>4, <2>1, <2>3 DEF SubRecords, States
  <2>5. Owes(new, log)
    BY <2>2, <2>3 DEF Owes
  <2> QED
    BY <2>4, <2>5 DEF Fit
<1>7. subs' \in Seq(Fit(log)) /\ Len(subs') = i
  <2> HIDE DEF new
  <2> QED
    BY <1>1, <1>2, <1>6
<1>8. cursors' \in Seq(Held(log, i)) /\ Len(cursors') <= MaxCursors
  <2>1. \A r \in Held(log, Len(subs)) : r \in Held(log, i)
    BY <1>3 DEF Held, CursorRecords
  <2>2. cursors \in Seq(Held(log, i))
    BY <1>2, <2>1, Wider
  <2>3. Cursor(i, log) \in Held(log, i)
    <3>1. <<i, log>> \in CursorIds
      BY <1>2, <1>3 DEF CursorIds
    <3> QED
      BY <1>2, <1>3, <3>1 DEF Cursor, Held, CursorRecords
  <2> HIDE DEF i
  <2>4. <<Cursor(i, log)>> \in Seq(Held(log, i))
    BY <2>3
  <2> QED
    BY <1>1, <2>2, <2>4, InsertedIs
<1> HIDE DEF i
<1>9. SubsInv'
    BY <1>3, <1>5, <1>7 DEF SubsInv
<1>10. TableInv'
    BY <1>5, <1>7, <1>8 DEF TableInv
<1> QED
    BY <1>5, <1>9, <1>10

LEMMA ServedAfter ==
    ASSUME DaemonInv, NEW c \in Conns, SubscribeAfter(c)
    PROVE  Served(c) /\ SubsInv' /\ TableInv'
<1> DEFINE id == Head(up[c]).after
           known == HasCursor(id) /\ CursorOf(id).acknowledged
           from == CursorOf(id).pos
           i == Len(subs) + 1
           missing == Span(from + 1, log)
           Moved(r) == IF r.id = id THEN [r EXCEPT !.sub = i] ELSE r
           moved == [k \in 1..Len(cursors) |-> Moved(cursors[k])]
           new == [conn |-> c, state |-> "active", base |-> from, tail |-> <<>>,
                   next |-> log + 1, seq |-> Len(missing), offset |-> 0, final |-> FALSE,
                   ackPos |-> from, ackCursor |-> id, boundary |-> None]
<1>1. Reads(c, "subscribe") /\ Len(subs) < MaxSubs
    BY DEF SubscribeAfter
<1>2. \/ Refuse(c, "snapshot_required")
      \/ /\ known /\ cursors' = Released(moved, {i}, {}) /\ Send(c, <<Failure("snapshot_required")>>)
         /\ subs' = subs
      \/ /\ known /\ subs' = Append(subs, new) /\ cursors' = Inserted(moved, NewCursors(i, missing))
         /\ Send(c, <<[kind |-> "resumed", sub |-> i]>> \o Deliveries(i, 0, missing))
    BY DEF SubscribeAfter
<1>3. /\ log \in 0..MaxEvents /\ log \in Nat /\ subs \in Seq(Fit(log))
      /\ cursors \in Seq(Held(log, Len(subs)))
      /\ TableInv /\ Len(cursors) <= MaxCursors /\ Len(subs) <= MaxSubs
    BY Bounds DEF DaemonInv, Sizes, SubsInv, TableInv
<1>4. i \in 1..MaxSubs /\ Len(subs) \in Nat /\ i \in 1..i /\ i <= MaxSubs /\ i \in Nat /\ i = Len(subs) + 1
    BY <1>1, <1>3, Bounds
<1>5. /\ log' = log /\ up[c] # <<>> /\ sock[c] \in {"open", "closing"} /\ up' = [up EXCEPT ![c] = Tail(@)]
      /\ instance' = instance /\ sock' = sock
    BY <1>1, ReadIs
<1>6. known => id \in CursorIds /\ from \in 0..MaxEvents /\ from <= log
  <2>1. known => CursorOf(id) \in Held(log, Len(subs)) /\ CursorOf(id).id = id
    BY <1>3, CursorIs
  <2> QED
    BY <2>1 DEF Held, CursorRecords
<1>7. moved \in Seq(Held(log, i)) /\ Len(moved) = Len(cursors)
  <2>1. \A r \in Held(log, Len(subs)) : Moved(r) \in Held(log, i)
    <3> HIDE DEF id
    <3> QED
      BY <1>4 DEF Held, CursorRecords
  <2>2. \A k \in 1..Len(cursors) : cursors[k] \in Held(log, Len(subs))
    BY <1>3
  <2>3. Len(cursors) \in Nat
    BY <1>3
  <2> HIDE DEF Moved, i
  <2> QED
    BY <2>1, <2>2, <2>3
<1> HIDE DEF id, i, moved, known, from
<1>8. CASE Refuse(c, "snapshot_required")
    BY <1>1, <1>8, Refused
<1>9. CASE /\ known /\ cursors' = Released(moved, {i}, {}) /\ Send(c, <<Failure("snapshot_required")>>)
           /\ subs' = subs
  <2>1. Failure("snapshot_required") \in Replies
    BY DEF Failure, Replies, Errors
  <2>2. Served(c)
    BY <1>1, <1>9, <2>1, AnsweredAlone
  <2> DEFINE K == {r \in ToSet(moved) : r.sub \notin {i} \/ r.id \in {}}
  <2>3. cursors' = Only(moved, K)
    BY <1>9 DEF Released
  <2>4. \A r \in K : r.sub # i
    OBVIOUS
  <2> HIDE DEF K
  <2>5. /\ cursors' \in Seq(Held(log, i)) /\ Len(cursors') <= Len(cursors)
        /\ \A j \in 1..Len(cursors') : cursors'[j] \in K
    BY <1>7, <2>3, OnlyOf
  <2>6. \A j \in 1..Len(cursors') : cursors'[j] \in Held(log, Len(subs))
    <3> SUFFICES ASSUME NEW j \in 1..Len(cursors')  PROVE cursors'[j] \in Held(log, Len(subs))
      OBVIOUS
    <3>1. cursors'[j] \in Held(log, i) /\ cursors'[j].sub # i
      BY <2>4, <2>5
    <3>2. /\ cursors'[j] \in CursorRecords /\ cursors'[j].pos <= log
          /\ cursors'[j].sub \in 1..MaxSubs /\ cursors'[j].sub <= i
      BY <3>1 DEF Held, CursorRecords
    <3>3. cursors'[j].sub <= Len(subs)
      BY <1>4, <3>1, <3>2
    <3> QED
      BY <3>2, <3>3 DEF Held
  <2>7. cursors' \in Seq(Held(log, Len(subs))) /\ Len(cursors') <= MaxCursors
    <3>1. cursors' \in Seq(Held(log, Len(subs)))
      BY <2>5, <2>6
    <3>2. Len(cursors') \in Nat /\ Len(cursors') <= Len(cursors)
      BY <2>5
    <3> QED
      BY <1>3, <3>1, <3>2, Bounds
  <2>8. SubsInv'
    BY <1>3, <1>5, <1>9 DEF SubsInv
  <2>9. TableInv'
    BY <1>5, <1>9, <2>7 DEF TableInv
  <2> QED
    BY <2>2, <2>8, <2>9
<1>10. CASE /\ known /\ subs' = Append(subs, new) /\ cursors' = Inserted(moved, NewCursors(i, missing))
            /\ Send(c, <<[kind |-> "resumed", sub |-> i]>> \o Deliveries(i, 0, missing))
  <2>0. id \in CursorIds /\ from \in 0..MaxEvents /\ from \in Nat /\ from <= log
    BY <1>6, <1>10
  <2>1. missing \in Seq(0..log) /\ missing \in Seq(0..MaxEvents) /\ Len(missing) = log - from
    <3>1. from + 1 \in Nat /\ from + 1 <= log + 1 /\ (log - (from + 1)) + 1 = log - from
      BY <1>3, <2>0
    <3>2. missing \in Seq((from + 1)..log) /\ Len(missing) = (log - (from + 1)) + 1
      BY <1>3, <3>1, SpanIs
    <3>3. \A p \in (from + 1)..log : p \in 0..log /\ p \in 0..MaxEvents
      BY <1>3, <2>0, Bounds
    <3> HIDE DEF missing
    <3>4. missing \in Seq(0..log)
      BY <3>2, <3>3, Wider
    <3>5. missing \in Seq(0..MaxEvents)
      BY <3>2, <3>3, Wider
    <3> QED
      BY <3>1, <3>2, <3>4, <3>5
  <2> HIDE DEF missing
  <2>2. new \in Fit(log)
    <3>1. None \in CursorIds /\ <<>> \in Seq(Nat) /\ FALSE \in BOOLEAN /\ 0 \in Nat /\ from \in Int
      BY <2>0 DEF CursorIds
    <3>2. c \in 0..MaxConns /\ log + 1 \in Nat /\ Len(missing) \in 0..MaxEvents
      BY <1>3, <2>0, <2>1, Bounds DEF Conns
    <3>3. new \in SubRecords
      BY <2>0, <3>1, <3>2 DEF SubRecords, States
    <3>4. Owes(new, log)
      BY <2>0, <2>1 DEF Owes
    <3> QED
      BY <3>3, <3>4 DEF Fit
  <2>3. subs' \in Seq(Fit(log)) /\ Len(subs') = i
    <3> HIDE DEF new
    <3> QED
      BY <1>3, <1>4, <1>10, <2>2
  <2>4. cursors' \in Seq(Held(log, i)) /\ Len(cursors') <= MaxCursors
    <3>1. NewCursors(i, missing) \in Seq(Held(log, i))
      BY <1>3, <1>4, <2>1, NewCursorsAre
    <3> QED
      BY <1>7, <1>10, <3>1, InsertedIs
  <2>5. Served(c)
    <3>1. [kind |-> "resumed", sub |-> i] \in Replies
      BY <1>4 DEF Replies
    <3>2. Deliveries(i, 0, missing) \in Seq(Events)
      BY <1>4, <2>1, DeliveriesAre
    <3>3. \E m \in Replies, ev \in Seq(Events) : Send(c, <<m>> \o ev)
      BY <1>10, <3>1, <3>2
    <3> QED
      BY <1>5, <3>3 DEF Served
  <2>6. SubsInv'
    BY <1>4, <1>5, <2>3 DEF SubsInv
  <2>7. TableInv'
    BY <1>5, <2>3, <2>4 DEF TableInv
  <2> QED
    BY <2>5, <2>6, <2>7
<1> QED
    BY <1>2, <1>8, <1>9, <1>10

LEMMA ServedHistory ==
    ASSUME DaemonInv, NEW c \in Conns, History(c)
    PROVE  Served(c) /\ SubsInv' /\ TableInv'
<1> DEFINE i == Head(up[c]).sub
           offset == Head(up[c]).offset
           page == Page(i, offset, subs[i].base)
           new == [subs[i] EXCEPT !.offset = page.hi, !.final = @ \/ page.complete]
<1>1. Reads(c, "history") /\ cursors' = cursors
    BY DEF History
<1>2. \/ Refuse(c, "snapshot_required")
      \/ /\ i \in 1..Len(subs) /\ Send(c, <<page>>)
         /\ subs' = IF offset < subs[i].offset THEN subs
                    ELSE [subs EXCEPT ![i].offset = page.hi, ![i].final = @ \/ page.complete]
    BY DEF History, Attached
<1>3. /\ log' = log /\ subs \in Seq(Fit(log)) /\ Len(subs) <= MaxSubs
      /\ cursors \in Seq(Held(log, Len(subs))) /\ Len(cursors) <= MaxCursors
    BY <1>1, ReadIs DEF DaemonInv, Sizes, SubsInv, TableInv
<1>4. offset \in Nat
  <2>1. Head(up[c]) \in Requests /\ Head(up[c]).method = "history"
    BY <1>1, ReadIs
  <2> QED
    BY <2>1 DEF Requests
<1>5. CASE Refuse(c, "snapshot_required")
    BY <1>1, <1>5, Refused
<1>6. CASE /\ i \in 1..Len(subs) /\ Send(c, <<page>>)
           /\ subs' = IF offset < subs[i].offset THEN subs
                      ELSE [subs EXCEPT ![i].offset = page.hi, ![i].final = @ \/ page.complete]
  <2>1. subs[i] \in Fit(log) /\ i \in 1..MaxSubs
    BY <1>3, <1>6, Bounds
  <2>2. subs[i].base \in 0..MaxEvents
    BY <2>1 DEF Fit, SubRecords
  <2>3. page \in Pages /\ page.hi \in Nat
    BY <1>4, <2>1, <2>2, PageIs
  <2>4. page.complete \in BOOLEAN
    <3> HIDE DEF page
    <3> QED
      BY <2>3 DEF Pages
  <2>5. Served(c)
    <3>1. page \in Replies
      BY <2>3 DEF Replies
    <3> HIDE DEF page
    <3> QED
      BY <1>1, <1>6, <3>1, AnsweredAlone
  <2> HIDE DEF page, i, offset
  <2>6. new \in Fit(log)
    <3>1. new \in SubRecords
      BY <2>1, <2>3, <2>4 DEF Fit, SubRecords
    <3>2. /\ new.base = subs[i].base /\ new.state = subs[i].state /\ new.tail = subs[i].tail
          /\ new.seq = subs[i].seq /\ new.next = subs[i].next /\ new.conn = subs[i].conn
      BY <2>1 DEF Fit, SubRecords
    <3>3. Owes(subs[i], log)
      BY <2>1 DEF Fit
    <3> HIDE DEF new
    <3>4. Owes(new, log)
      BY <3>2, <3>3 DEF Owes
    <3> QED
      BY <3>1, <3>4 DEF Fit
  <2>7. subs' = IF offset < subs[i].offset THEN subs ELSE [subs EXCEPT ![i] = new]
    BY <1>6
  <2> HIDE DEF new
  <2>8. subs' \in Seq(Fit(log)) /\ Len(subs') = Len(subs)
    <3>1. [subs EXCEPT ![i] = new] \in Seq(Fit(log)) /\ Len([subs EXCEPT ![i] = new]) = Len(subs)
      BY <1>3, <1>6, <2>6, SubSet
    <3> QED
      BY <1>3, <2>7, <3>1
  <2>9. SubsInv'
    BY <1>3, <2>8 DEF SubsInv
  <2>10. TableInv'
    BY <1>1, <1>3, <2>8 DEF TableInv
  <2> QED
    BY <2>5, <2>9, <2>10
<1> QED
    BY <1>2, <1>5, <1>6

LEMMA ServedAcknowledge ==
    ASSUME DaemonInv, NEW c \in Conns, Acknowledge(c)
    PROVE  Served(c) /\ SubsInv' /\ TableInv'
<1> DEFINE i == Head(up[c]).sub
           id == Head(up[c]).cursor
           owns == HasCursor(id) /\ CursorOf(id).sub = i
           refusal == CASE ~Attached(c, i) -> "unknown_subscription"
                        [] Attached(c, i) /\ subs[i].state = "invalid" -> "snapshot_required"
                        [] Attached(c, i) /\ Listening(i) /\ ~owns -> "unknown_cursor"
                        [] OTHER -> IF id = subs[i].boundary /\ ~subs[i].final
                                    THEN "snapshot_required" ELSE "none"
           p == CursorOf(id).pos
           older == p < subs[i].ackPos
           Marked(r) == IF r.id = id THEN [r EXCEPT !.acknowledged = TRUE] ELSE r
           marked == [k \in 1..Len(cursors) |-> Marked(cursors[k])]
           kept == IF older THEN marked
                   ELSE Only(marked, {r \in ToSet(marked) : r.id = id \/ r.sub # i \/ r.pos > p})
           starts == id = subs[i].boundary /\ subs[i].state = "loading"
           s == [subs[i] EXCEPT !.ackPos = IF older THEN @ ELSE p,
                                !.ackCursor = IF older THEN @ ELSE id]
           t == [s EXCEPT !.state = "active", !.tail = <<>>, !.seq = Len(s.tail)]
<1>1. Reads(c, "ack")
    BY DEF Acknowledge
<1>2. \/ refusal # "none" /\ Refuse(c, refusal)
      \/ /\ refusal = "none" /\ starts /\ subs' = [subs EXCEPT ![i] = t]
         /\ cursors' = Inserted(kept, NewCursors(i, s.tail))
         /\ Send(c, <<Success>> \o Deliveries(i, 0, s.tail))
      \/ /\ refusal = "none" /\ ~starts /\ subs' = [subs EXCEPT ![i] = s]
         /\ cursors' = kept /\ Send(c, <<Success>>)
    BY DEF Acknowledge
<1>3. /\ log' = log /\ subs \in Seq(Fit(log)) /\ Len(subs) <= MaxSubs /\ log \in 0..MaxEvents
      /\ cursors \in Seq(Held(log, Len(subs))) /\ Len(cursors) <= MaxCursors /\ TableInv
    BY <1>1, ReadIs DEF DaemonInv, Sizes, SubsInv, TableInv
<1>4. refusal # "none" => refusal \in {"snapshot_required", "unknown_subscription", "unknown_cursor"}
    OBVIOUS
<1>5. refusal = "none" => Attached(c, i) /\ subs[i].state # "invalid" /\ (Listening(i) => owns)
  <2>1. ~Attached(c, i) => refusal = "unknown_subscription"
    OBVIOUS
  <2>2. Attached(c, i) /\ subs[i].state = "invalid" => refusal = "snapshot_required"
    BY DEF Listening
  <2>3. Attached(c, i) /\ Listening(i) /\ ~owns => refusal = "unknown_cursor"
    BY DEF Listening
  <2> HIDE DEF refusal
  <2> QED
    BY <2>1, <2>2, <2>3
<1> HIDE DEF refusal
<1>6. CASE refusal # "none" /\ Refuse(c, refusal)
    BY <1>1, <1>4, <1>6, Refused
<1>7. ASSUME refusal = "none"
      PROVE  /\ i \in 1..Len(subs) /\ i \in 1..MaxSubs /\ subs[i] \in Fit(log)
             /\ s \in Fit(log) /\ kept \in Seq(Held(log, Len(subs))) /\ Len(kept) <= MaxCursors
             /\ s.tail = subs[i].tail /\ s.state = subs[i].state /\ s.base = subs[i].base
             /\ s.conn = subs[i].conn /\ s.next = subs[i].next /\ s.seq = subs[i].seq
  <2>1. i \in 1..Len(subs) /\ subs[i].conn = c /\ subs[i].state # "invalid" /\ (Listening(i) => owns)
    BY <1>5, <1>7 DEF Attached
  <2>2. i \in 1..MaxSubs /\ subs[i] \in Fit(log)
    BY <1>3, <2>1, Bounds
  <2>3. owns
    <3>1. subs[i].state # "gone"
      BY <2>1, <2>2 DEF Fit, Owes, Conns
    <3>2. subs[i].state \in {"loading", "active"}
      BY <2>1, <2>2, <3>1 DEF Fit, SubRecords, States
    <3> QED
      BY <2>1, <3>2 DEF Listening
  <2>4. id \in CursorIds /\ p \in 0..MaxEvents /\ p \in Int
    <3>1. CursorOf(id) \in Held(log, Len(subs)) /\ CursorOf(id).id = id
      BY <1>3, <2>3, CursorIs
    <3> QED
      BY <3>1 DEF Held, CursorRecords
  <2> HIDE DEF id, p, i, owns
  <2>5. marked \in Seq(Held(log, Len(subs))) /\ Len(marked) = Len(cursors)
    <3>1. \A r \in Held(log, Len(subs)) : Marked(r) \in Held(log, Len(subs))
      BY DEF Held, CursorRecords
    <3>2. \A k \in 1..Len(cursors) : cursors[k] \in Held(log, Len(subs))
      BY <1>3
    <3>3. Len(cursors) \in Nat
      BY <1>3
    <3> HIDE DEF Marked
    <3> QED
      BY <3>1, <3>2, <3>3
  <2> HIDE DEF marked
  <2>6. kept \in Seq(Held(log, Len(subs))) /\ Len(kept) <= MaxCursors
    <3> DEFINE K == {r \in ToSet(marked) : r.id = id \/ r.sub # i \/ r.pos > p}
    <3>1. kept = marked \/ kept = Only(marked, K)
      OBVIOUS
    <3> HIDE DEF K, kept
    <3>2. Only(marked, K) \in Seq(Held(log, Len(subs))) /\ Len(Only(marked, K)) <= Len(marked)
      BY <2>5, OnlyOf
    <3>3. Len(Only(marked, K)) \in Nat
      BY <3>2
    <3> QED
      BY <1>3, <2>5, <3>1, <3>2, <3>3, Bounds
  <2>7. \A a \in Int, b \in CursorIds :
           /\ [subs[i] EXCEPT !.ackPos = a, !.ackCursor = b] \in Fit(log)
           /\ \A f \in {[subs[i] EXCEPT !.ackPos = a, !.ackCursor = b]} :
                 /\ f.tail = subs[i].tail /\ f.state = subs[i].state /\ f.base = subs[i].base
                 /\ f.conn = subs[i].conn /\ f.next = subs[i].next /\ f.seq = subs[i].seq
    <3> SUFFICES ASSUME NEW a \in Int, NEW b \in CursorIds, NEW f,
                        f = [subs[i] EXCEPT !.ackPos = a, !.ackCursor = b]
                 PROVE  /\ f \in Fit(log)
                        /\ f.tail = subs[i].tail /\ f.state = subs[i].state /\ f.base = subs[i].base
                        /\ f.conn = subs[i].conn /\ f.next = subs[i].next /\ f.seq = subs[i].seq
      OBVIOUS
    <3>1. /\ f.tail = subs[i].tail /\ f.state = subs[i].state /\ f.base = subs[i].base
          /\ f.conn = subs[i].conn /\ f.next = subs[i].next /\ f.seq = subs[i].seq
      BY <2>2 DEF Fit, SubRecords
    <3>2. f \in SubRecords
      BY <2>2 DEF Fit, SubRecords
    <3>3. Owes(subs[i], log)
      BY <2>2 DEF Fit
    <3>4. Owes(f, log)
      BY <3>1, <3>3 DEF Owes
    <3> QED
      BY <3>1, <3>2, <3>4 DEF Fit
  <2>8. /\ s = [subs[i] EXCEPT !.ackPos = IF older THEN subs[i].ackPos ELSE p,
                               !.ackCursor = IF older THEN subs[i].ackCursor ELSE id]
        /\ (IF older THEN subs[i].ackPos ELSE p) \in Int
        /\ (IF older THEN subs[i].ackCursor ELSE id) \in CursorIds
    <3>1. subs[i].ackPos \in Int /\ subs[i].ackCursor \in CursorIds
      BY <2>2 DEF Fit, SubRecords
    <3> HIDE DEF older
    <3> QED
      BY <2>2, <2>4, <3>1 DEF Fit, SubRecords
  <2>9. /\ s \in Fit(log)
        /\ s.tail = subs[i].tail /\ s.state = subs[i].state /\ s.base = subs[i].base
        /\ s.conn = subs[i].conn /\ s.next = subs[i].next /\ s.seq = subs[i].seq
    <3> DEFINE a == IF older THEN subs[i].ackPos ELSE p
               b == IF older THEN subs[i].ackCursor ELSE id
    <3>1. s = [subs[i] EXCEPT !.ackPos = a, !.ackCursor = b] /\ a \in Int /\ b \in CursorIds
      BY <2>8
    <3> HIDE DEF a, b, s
    <3> QED
      BY <2>7, <3>1
  <2> HIDE DEF kept, s
  <2> QED
    BY <2>1, <2>2, <2>6, <2>9
<1>8. CASE /\ refusal = "none" /\ starts /\ subs' = [subs EXCEPT ![i] = t]
           /\ cursors' = Inserted(kept, NewCursors(i, s.tail))
           /\ Send(c, <<Success>> \o Deliveries(i, 0, s.tail))
  <2>1. /\ i \in 1..Len(subs) /\ i \in 1..MaxSubs /\ kept \in Seq(Held(log, Len(subs)))
        /\ s \in Fit(log) /\ s.state = "loading"
    BY <1>7, <1>8
  <2> HIDE DEF i, s, kept
  <2>2. /\ s.tail = Span(s.base + 1, log) /\ s.next = log + 1 /\ s.base \in Nat /\ s.base <= log
        /\ s \in SubRecords
    BY <2>1, Bounds DEF Fit, Owes, SubRecords
  <2>3. s.tail \in Seq(0..log) /\ s.tail \in Seq(0..MaxEvents) /\ Len(s.tail) = log - s.base
    <3>1. s.base + 1 \in Nat /\ s.base + 1 <= log + 1 /\ (log - (s.base + 1)) + 1 = log - s.base
      BY <1>3, <2>2
    <3>2. s.tail \in Seq((s.base + 1)..log) /\ Len(s.tail) = (log - (s.base + 1)) + 1
      <4> DEFINE lo == s.base + 1
      <4>1. lo \in Nat /\ log \in Nat /\ lo <= log + 1 /\ s.tail = Span(lo, log)
        BY <1>3, <2>2, <3>1, Bounds
      <4> HIDE DEF lo
      <4>2. Span(lo, log) \in Seq(lo..log) /\ Len(Span(lo, log)) = (log - lo) + 1
        BY <4>1, SpanIs
      <4>3. s.tail \in Seq(lo..log) /\ Len(s.tail) = (log - lo) + 1
        BY <4>1, <4>2
      <4> QED
        BY <4>3 DEF lo
    <3>3. \A k \in (s.base + 1)..log : k \in 0..log /\ k \in 0..MaxEvents
      BY <1>3, <2>2, Bounds
    <3> DEFINE q == s.tail
    <3>4. q \in Seq((s.base + 1)..log)
      BY <3>2
    <3> HIDE DEF q
    <3>5. q \in Seq(0..log)
      BY <3>3, <3>4, Wider
    <3>6. q \in Seq(0..MaxEvents)
      BY <3>3, <3>4, Wider
    <3> QED
      BY <3>1, <3>2, <3>5, <3>6 DEF q
  <2>4. t \in Fit(log)
    <3>1. Len(s.tail) \in 0..MaxEvents /\ <<>> \in Seq(Nat)
      BY <1>3, <2>2, <2>3, Bounds
    <3>2. /\ t \in SubRecords /\ t.base = s.base /\ t.state = "active" /\ t.seq = Len(s.tail)
          /\ t.next = s.next
      BY <2>2, <3>1 DEF SubRecords, States
    <3> HIDE DEF t
    <3>3. Owes(t, log)
      BY <2>2, <2>3, <3>2 DEF Owes
    <3> QED
      BY <3>2, <3>3 DEF Fit
  <2> HIDE DEF t
  <2>5. subs' \in Seq(Fit(log)) /\ Len(subs') = Len(subs)
    BY <1>3, <1>8, <2>1, <2>4, SubSet
  <2>6. cursors' \in Seq(Held(log, Len(subs))) /\ Len(cursors') <= MaxCursors
    <3>1. Len(subs) \in Nat
      BY <1>3
    <3>2. NewCursors(i, s.tail) \in Seq(Held(log, Len(subs)))
      BY <1>3, <2>1, <2>3, <3>1, NewCursorsAre
    <3> QED
      BY <1>8, <2>1, <3>2, InsertedIs
  <2>7. Served(c)
    <3>1. Success \in Replies
      BY DEF Success, Replies
    <3>2. Deliveries(i, 0, s.tail) \in Seq(Events)
      BY <2>1, <2>3, DeliveriesAre
    <3>3. \E m \in Replies, ev \in Seq(Events) : Send(c, <<m>> \o ev)
      BY <1>8, <3>1, <3>2
    <3> QED
      BY <1>1, <3>3, ReadIs DEF Served
  <2>8. SubsInv'
    BY <1>3, <2>5 DEF SubsInv
  <2>9. TableInv'
    BY <1>3, <2>5, <2>6 DEF TableInv
  <2> QED
    BY <2>7, <2>8, <2>9
<1>9. CASE /\ refusal = "none" /\ ~starts /\ subs' = [subs EXCEPT ![i] = s]
           /\ cursors' = kept /\ Send(c, <<Success>>)
  <2>1. /\ i \in 1..Len(subs) /\ s \in Fit(log) /\ kept \in Seq(Held(log, Len(subs)))
        /\ Len(kept) <= MaxCursors
    BY <1>7, <1>9
  <2> HIDE DEF i, s, kept
  <2>2. subs' \in Seq(Fit(log)) /\ Len(subs') = Len(subs)
    BY <1>3, <1>9, <2>1, SubSet
  <2>3. Served(c)
    <3>1. Success \in Replies
      BY DEF Success, Replies
    <3> QED
      BY <1>1, <1>9, <3>1, AnsweredAlone
  <2>4. SubsInv'
    BY <1>3, <2>2 DEF SubsInv
  <2>5. TableInv'
    BY <1>3, <1>9, <2>1, <2>2 DEF TableInv
  <2> QED
    BY <2>3, <2>4, <2>5
<1> QED
    BY <1>2, <1>6, <1>8, <1>9

\* A subscription that is gone owes nothing.
LEMMA GoneFits ==
    ASSUME NEW n \in Nat
    PROVE  Gone \in Fit(n)
<1>1. None \in CursorIds /\ <<>> \in Seq(Nat) /\ 0 \in 0..MaxConns /\ 0 \in 0..MaxEvents /\ 0 <= n
    BY Bounds DEF CursorIds
<1>2. Gone \in SubRecords
    BY <1>1 DEF Gone, SubRecords, States
<1>3. Owes(Gone, n)
    BY <1>1 DEF Gone, Owes
<1> QED
    BY <1>2, <1>3 DEF Fit

LEMMA ServedUnsubscribe ==
    ASSUME DaemonInv, NEW c \in Conns, Unsubscribe(c)
    PROVE  Served(c) /\ SubsInv' /\ TableInv'
<1> DEFINE i == Head(up[c]).sub
<1>1. Reads(c, "unsubscribe")
    BY DEF Unsubscribe
<1>2. \/ Refuse(c, "unknown_subscription")
      \/ /\ i \in 1..Len(subs) /\ subs' = [subs EXCEPT ![i] = Gone]
         /\ cursors' = Released(cursors, {i}, {}) /\ Send(c, <<Success>>)
    BY DEF Unsubscribe, Attached
<1>3. /\ log' = log /\ subs \in Seq(Fit(log)) /\ Len(subs) <= MaxSubs /\ log \in Nat
      /\ cursors \in Seq(Held(log, Len(subs))) /\ Len(cursors) <= MaxCursors
    BY <1>1, ReadIs, Bounds DEF DaemonInv, Sizes, SubsInv, TableInv
<1> HIDE DEF i
<1>4. CASE Refuse(c, "unknown_subscription")
    BY <1>1, <1>4, Refused
<1>5. CASE /\ i \in 1..Len(subs) /\ subs' = [subs EXCEPT ![i] = Gone]
           /\ cursors' = Released(cursors, {i}, {}) /\ Send(c, <<Success>>)
  <2>1. Gone \in Fit(log)
    BY <1>3, GoneFits
  <2>2. subs' \in Seq(Fit(log)) /\ Len(subs') = Len(subs)
    BY <1>3, <1>5, <2>1, SubSet
  <2>3. cursors' \in Seq(Held(log, Len(subs))) /\ Len(cursors') <= Len(cursors)
    BY <1>3, <1>5, ReleasedIs
  <2>4. Len(cursors') <= MaxCursors
    BY <1>3, <2>3, Bounds
  <2>5. Served(c)
    <3>1. Success \in Replies
      BY DEF Success, Replies
    <3> QED
      BY <1>1, <1>5, <3>1, AnsweredAlone
  <2>6. SubsInv'
    BY <1>3, <2>2 DEF SubsInv
  <2>7. TableInv'
    BY <1>3, <2>2, <2>3, <2>4 DEF TableInv
  <2> QED
    BY <2>5, <2>6, <2>7
<1> QED
    BY <1>2, <1>4, <1>5

\* Every request that is served keeps what the daemon owes.
LEMMA ServeKeeps ==
    ASSUME DaemonInv, NEW c \in Conns, Serve(c)
    PROVE  Served(c) /\ SubsInv' /\ TableInv'
BY ServedSnapshot, ServedAfter, ServedHistory, ServedAcknowledge, ServedUnsubscribe DEF Serve

-----------------------------------------------------------------------------
(* New events, time and faults.                                            *)

\* An event that the listener of a subscription hears.
LEMMA NotifiedFits ==
    ASSUME NEW n \in Nat, n < MaxEvents, NEW s \in Fit(n)
    PROVE  Notified(s) \in Fit(n + 1)
<1>1. s \in SubRecords /\ Owes(s, n)
    BY DEF Fit
<1>2. /\ s.state \in States /\ s.base \in 0..MaxEvents /\ s.base \in Nat /\ s.next \in Nat
      /\ s.seq \in 0..MaxEvents /\ s.tail \in Seq(Nat) /\ s.base <= n
    BY <1>1, Bounds DEF SubRecords, Owes
<1>3. CASE s.state = "active"
  <2> DEFINE t == [s EXCEPT !.next = @ + 1, !.seq = @ + 1]
  <2>1. Notified(s) = t
    BY <1>3 DEF Notified, Overflows
  <2>2. s.seq = n - s.base /\ s.next = n + 1
    BY <1>1, <1>3 DEF Owes
  <2>3. s.next + 1 \in Nat /\ s.seq + 1 \in 0..MaxEvents /\ s.seq + 1 = (n + 1) - s.base
    BY <1>2, <2>2, Bounds
  <2>4. t \in SubRecords
    BY <1>1, <2>3 DEF SubRecords
  <2>5. t.base = s.base /\ t.state = "active" /\ t.seq = s.seq + 1 /\ t.next = s.next + 1
    BY <1>1, <1>3 DEF SubRecords
  <2> HIDE DEF t
  <2>6. Owes(t, n + 1)
    BY <1>2, <2>2, <2>3, <2>5 DEF Owes
  <2> QED
    BY <2>1, <2>4, <2>6 DEF Fit
<1>4. CASE Overflows(s)
  <2> DEFINE t == [s EXCEPT !.next = @ + 1, !.state = "invalid", !.tail = <<>>]
  <2>1. Notified(s) = t
    BY <1>4 DEF Notified, Overflows
  <2>a. <<>> \in Seq(Nat) /\ s.next + 1 \in Nat
    BY <1>2
  <2>2. t \in SubRecords
    BY <1>1, <2>a DEF SubRecords, States
  <2>3. t.base = s.base /\ t.state = "invalid"
    BY <1>1 DEF SubRecords
  <2> HIDE DEF t
  <2>4. Owes(t, n + 1)
    BY <1>2, <2>3 DEF Owes
  <2> QED
    BY <2>1, <2>2, <2>4 DEF Fit
<1>5. CASE s.state = "loading" /\ ~Overflows(s)
  <2> DEFINE t == [s EXCEPT !.next = @ + 1, !.tail = Append(@, s.next)]
  <2>1. Notified(s) = t
    BY <1>5 DEF Notified
  <2>2. s.next = n + 1 /\ s.tail = Span(s.base + 1, n)
    BY <1>1, <1>5 DEF Owes
  <2>3. Append(s.tail, s.next) \in Seq(Nat) /\ s.next + 1 \in Nat
    BY <1>2
  <2>4. t \in SubRecords
    BY <1>1, <2>3 DEF SubRecords
  <2>5. t.base = s.base /\ t.state = "loading" /\ t.tail = Append(s.tail, s.next) /\ t.next = s.next + 1
    BY <1>1, <1>5 DEF SubRecords
  <2> DEFINE lo == s.base + 1
  <2>6. lo \in Nat /\ lo <= n + 1 /\ s.tail = Span(lo, n)
    BY <1>2, <2>2
  <2> HIDE DEF t, lo
  <2>7. Append(Span(lo, n), n + 1) = Span(lo, n + 1)
    BY <2>6, SpanNext
  <2>8. t.tail = Span(t.base + 1, n + 1)
    BY <2>2, <2>5, <2>6, <2>7 DEF lo
  <2>9. Owes(t, n + 1)
    BY <1>2, <2>2, <2>5, <2>8 DEF Owes
  <2> QED
    BY <2>1, <2>4, <2>9 DEF Fit
<1>6. CASE s.state \in {"invalid", "gone"}
  <2>1. Notified(s) = s
    BY <1>6 DEF Notified, Overflows
  <2>2. Owes(s, n + 1)
    BY <1>1, <1>2, <1>6 DEF Owes
  <2> QED
    BY <1>1, <2>1, <2>2 DEF Fit
<1> QED
    BY <1>2, <1>3, <1>4, <1>5, <1>6 DEF States

\* What a step adds to the connections beside the answers.
Pushed ==
    \E ev \in [Conns -> Seq(Events)] :
        /\ down' = [c \in Conns |-> down[c] \o ev[c]]
        /\ \A c \in Conns : sock[c] # "open" => ev[c] = <<>>

LEMMA AppendKeeps ==
    ASSUME DaemonInv, AppendEvent
    PROVE  /\ log' = log + 1 /\ log' \in 0..MaxEvents /\ instance' = instance /\ sock' = sock /\ up' = up
           /\ Pushed /\ SubsInv' /\ TableInv'
<1>1. log < MaxEvents /\ log' = log + 1 /\ instance' = instance /\ sock' = sock /\ up' = up
    BY DEF AppendEvent
<1>2. /\ log \in Nat /\ log' \in 0..MaxEvents /\ subs \in Seq(Fit(log)) /\ Len(subs) \in Nat
      /\ Len(subs) <= MaxSubs /\ cursors \in Seq(Held(log, Len(subs))) /\ Len(cursors) <= MaxCursors
    BY <1>1, Bounds DEF DaemonInv, Sizes, SubsInv, TableInv
<1> DEFINE all == Span(1, Len(subs))
           A == {i \in 1..Len(subs) : subs[i].state = "active"}
           active == Only(all, A)
           over == {i \in 1..Len(subs) : Overflows(subs[i])}
           Delivery(i) == Deliveries(i, subs[i].seq, <<subs[i].next>>)[1]
           Mine(c) == Only(active, {i \in ToSet(active) : subs[i].conn = c /\ sock[c] = "open"})
           ev == [c \in Conns |-> [k \in 1..Len(Mine(c)) |-> Delivery(Mine(c)[k])]]
           fresh == [k \in 1..Len(active) |-> Cursor(active[k], subs[active[k]].next)]
<1>3. /\ subs' = [i \in 1..Len(subs) |-> Notified(subs[i])]
      /\ cursors' = Inserted(Released(cursors, over, {}), fresh)
      /\ down' = [c \in Conns |-> down[c] \o [k \in 1..Len(Mine(c)) |-> Delivery(Mine(c)[k])]]
    BY DEF AppendEvent
<1>4. \A i \in 1..Len(subs) : subs[i] \in Fit(log)
    BY <1>2
<1>5. subs' \in Seq(Fit(log')) /\ Len(subs') = Len(subs)
  <2>1. \A i \in 1..Len(subs) : Notified(subs[i]) \in Fit(log + 1)
    BY <1>1, <1>2, <1>4, NotifiedFits
  <2> DEFINE F == Fit(log + 1)
  <2>2. \A i \in 1..Len(subs) : Notified(subs[i]) \in F
    BY <2>1
  <2>3. F = Fit(log')
    BY <1>1
  <2> HIDE DEF F
  <2>4. subs' \in Seq(F) /\ Len(subs') = Len(subs)
    <3> DEFINE n == Len(subs)
               new == subs'
    <3>1. \A i \in 1..n : new[i] \in F
      BY <1>3, <2>2
    <3>2. n \in Nat /\ new = [i \in 1..n |-> new[i]]
      BY <1>2, <1>3
    <3> HIDE DEF n, new
    <3>3. new \in Seq(F) /\ Len(new) = n
      BY <3>1, <3>2
    <3> QED
      BY <3>3 DEF n, new
  <2> QED
    BY <2>3, <2>4
<1>6. /\ active \in Seq(1..Len(subs)) /\ \A k \in 1..Len(active) : active[k] \in A
  <2>1. all \in Seq(1..Len(subs))
    BY <1>2, SpanIs
  <2> HIDE DEF all, A
  <2> QED
    BY <2>1, OnlyOf
<1> HIDE DEF active
<1>7. \A i \in A : subs[i].next = log + 1 /\ subs[i].seq \in Nat /\ i \in 1..MaxSubs
  <2> SUFFICES ASSUME NEW i \in A
               PROVE  subs[i].next = log + 1 /\ subs[i].seq \in Nat /\ i \in 1..MaxSubs
    OBVIOUS
  <2>1. i \in 1..Len(subs) /\ subs[i].state = "active"
    OBVIOUS
  <2>2. i \in 1..MaxSubs
    BY <1>2, <2>1, Bounds
  <2>3. subs[i] \in SubRecords /\ Owes(subs[i], log)
    BY <1>4, <2>1 DEF Fit
  <2>4. subs[i].seq \in 0..MaxEvents /\ subs[i].next = log + 1
    BY <2>1, <2>3 DEF SubRecords, Owes
  <2> QED
    BY <2>2, <2>4, Bounds
<1>8. fresh \in Seq(Held(log', Len(subs)))
  <2>1. \A i \in A : Cursor(i, subs[i].next) \in Held(log', Len(subs))
    <3> SUFFICES ASSUME NEW i \in A  PROVE Cursor(i, subs[i].next) \in Held(log', Len(subs))
      OBVIOUS
    <3>1. i \in 1..MaxSubs /\ i <= Len(subs) /\ subs[i].next = log'
      BY <1>1, <1>7
    <3>2. <<i, log'>> \in CursorIds
      BY <1>2, <3>1 DEF CursorIds
    <3>3. Cursor(i, log') \in Held(log', Len(subs))
      BY <1>2, <3>1, <3>2, Bounds DEF Cursor, Held, CursorRecords
    <3> QED
      BY <3>1, <3>3
  <2>2. Len(active) \in Nat
    BY <1>6
  <2> HIDE DEF A
  <2> QED
    BY <1>6, <2>1, <2>2
<1>9. cursors' \in Seq(Held(log', Len(subs))) /\ Len(cursors') <= MaxCursors
  <2>1. \A r \in Held(log, Len(subs)) : r \in Held(log', Len(subs))
    BY <1>1, <1>2 DEF Held, CursorRecords
  <2>2. cursors \in Seq(Held(log', Len(subs)))
    BY <1>2, <2>1, Wider
  <2>3. Released(cursors, over, {}) \in Seq(Held(log', Len(subs)))
    BY <2>2, ReleasedIs
  <2> HIDE DEF over, fresh
  <2> QED
    BY <1>3, <1>8, <2>3, InsertedIs
<1>10. Pushed
  <2>1. \A i \in A : Delivery(i) \in Events
    <3> SUFFICES ASSUME NEW i \in A  PROVE Delivery(i) \in Events
      OBVIOUS
    <3> DEFINE q == subs[i].seq
               d == Deliveries(i, q, <<log'>>)
    <3>1. q \in Nat /\ <<log'>> \in Seq(0..MaxEvents) /\ Len(<<log'>>) = 1 /\ i \in 1..MaxSubs
      BY <1>2, <1>7
    <3>2. Delivery(i) = d[1]
      BY <1>1, <1>7
    <3>3. d \in Seq(Events) /\ Len(d) = 1
      <4> HIDE DEF q
      <4> QED
        BY <3>1, DeliveriesAre
    <3> HIDE DEF d, Delivery
    <3> QED
      BY <3>2, <3>3
  <2>2. \A c \in Conns : ev[c] \in Seq(Events)
    <3> SUFFICES ASSUME NEW c \in Conns  PROVE ev[c] \in Seq(Events)
      OBVIOUS
    <3> DEFINE mine == Mine(c)
    <3>1. active \in Seq(A)
      <4> HIDE DEF A
      <4>1. Len(active) \in Nat
        BY <1>6
      <4> QED
        BY <1>6
    <3>2. mine \in Seq(A)
      <4> HIDE DEF A
      <4> QED
        BY <3>1, OnlyOf
    <3>3. ev[c] = [k \in 1..Len(mine) |-> Delivery(mine[k])]
      OBVIOUS
    <3> HIDE DEF mine, A, Delivery, ev
    <3> QED
      BY <2>1, <3>2, <3>3
  <2>3. down' = [c \in Conns |-> down[c] \o ev[c]]
    BY <1>3
  <2>4. ev \in [Conns -> Seq(Events)]
    <3>1. ev = [c \in Conns |-> ev[c]]
      OBVIOUS
    <3> HIDE DEF ev
    <3> QED
      BY <2>2, <3>1
  <2>5. \A c \in Conns : sock[c] # "open" => ev[c] = <<>>
    <3> SUFFICES ASSUME NEW c \in Conns, sock[c] # "open"  PROVE ev[c] = <<>>
      OBVIOUS
    <3> DEFINE K == {i \in ToSet(active) : subs[i].conn = c /\ sock[c] = "open"}
               mine == Mine(c)
    <3>1. mine = Only(active, K) /\ \A x \in 1..Len(subs) : x \notin K
      OBVIOUS
    <3>2. ev[c] = [k \in 1..Len(mine) |-> Delivery(mine[k])]
      OBVIOUS
    <3> HIDE DEF K, mine, ev, Delivery
    <3>3. mine = <<>>
      BY <1>6, <3>1, OnlyAll
    <3> QED
      BY <3>2, <3>3
  <2> HIDE DEF ev
  <2> QED
    BY <2>3, <2>4, <2>5 DEF Pushed
<1>11. SubsInv'
    BY <1>2, <1>5 DEF SubsInv
<1>12. TableInv'
    BY <1>5, <1>9 DEF TableInv
<1> QED
    BY <1>1, <1>2, <1>10, <1>11, <1>12

LEMMA ExpireKeeps ==
    ASSUME DaemonInv, Expire
    PROVE  /\ log' = log /\ instance' = instance /\ sock' = sock /\ up' = up /\ down' = down
           /\ SubsInv' /\ TableInv'
<1>1. /\ subs \in Seq(Fit(log)) /\ Len(subs) <= MaxSubs
      /\ cursors \in Seq(Held(log, Len(subs))) /\ Len(cursors) <= MaxCursors
    BY DEF DaemonInv, SubsInv, TableInv
<1>2. CASE SnapshotExpires
  <2>1. PICK i \in 1..Len(subs) : /\ subs[i].state = "loading"
                                  /\ subs' = [subs EXCEPT ![i].state = "invalid", ![i].tail = <<>>]
                                  /\ cursors' = Released(cursors, {i}, {})
    BY <1>2 DEF SnapshotExpires
  <2>2. log' = log /\ instance' = instance /\ sock' = sock /\ up' = up /\ down' = down
    BY <1>2 DEF SnapshotExpires
  <2> DEFINE t == [subs[i] EXCEPT !.state = "invalid", !.tail = <<>>]
  <2>3. t \in Fit(log)
    <3>1. subs[i] \in SubRecords /\ Owes(subs[i], log)
      BY <1>1 DEF Fit
    <3>a. <<>> \in Seq(Nat)
      OBVIOUS
    <3>2. t \in SubRecords /\ t.state = "invalid" /\ t.base = subs[i].base
      BY <3>1, <3>a DEF SubRecords, States
    <3> HIDE DEF t
    <3>3. Owes(t, log)
      BY <3>1, <3>2 DEF Owes
    <3> QED
      BY <3>2, <3>3 DEF Fit
  <2>4. subs' = [subs EXCEPT ![i] = t]
    BY <2>1
  <2> HIDE DEF t
  <2>5. subs' \in Seq(Fit(log)) /\ Len(subs') = Len(subs)
    BY <1>1, <2>3, <2>4, SubSet
  <2>6. cursors' \in Seq(Held(log, Len(subs))) /\ Len(cursors') <= Len(cursors)
    BY <1>1, <2>1, ReleasedIs
  <2>7. Len(cursors') <= MaxCursors
    BY <1>1, <2>6, Bounds
  <2>8. SubsInv'
    BY <1>1, <2>2, <2>5 DEF SubsInv
  <2>9. TableInv'
    BY <2>2, <2>5, <2>6, <2>7 DEF TableInv
  <2> QED
    BY <2>2, <2>8, <2>9
<1>3. CASE CursorsExpire
  <2>1. /\ log' = log /\ instance' = instance /\ sock' = sock /\ up' = up /\ down' = down
        /\ subs' = subs /\ cursors # <<>> /\ cursors' = Tail(cursors)
    BY <1>3 DEF CursorsExpire
  <2>2. cursors' \in Seq(Held(log, Len(subs))) /\ Len(cursors') <= MaxCursors
    BY <1>1, <2>1, Bounds
  <2>3. SubsInv'
    BY <1>1, <2>1 DEF SubsInv
  <2>4. TableInv'
    BY <2>1, <2>2 DEF TableInv
  <2> QED
    BY <2>1, <2>3, <2>4
<1> QED
    BY <1>2, <1>3 DEF Expire

LEMMA CleanupKeeps ==
    ASSUME DaemonInv, NEW c \in Conns, Cleanup(c)
    PROVE  /\ log' = log /\ instance' = instance /\ sock[c] = "closing"
           /\ sock' = [sock EXCEPT ![c] = "closed"] /\ up' = [up EXCEPT ![c] = <<>>] /\ down' = down
           /\ SubsInv' /\ TableInv'
<1> DEFINE ended == {i \in 1..Len(subs) : Attached(c, i)}
<1>1. /\ subs \in Seq(Fit(log)) /\ Len(subs) <= MaxSubs /\ log \in Nat
      /\ cursors \in Seq(Held(log, Len(subs))) /\ Len(cursors) <= MaxCursors
    BY Bounds DEF DaemonInv, Sizes, SubsInv, TableInv
<1>2. /\ log' = log /\ instance' = instance /\ sock[c] = "closing"
      /\ sock' = [sock EXCEPT ![c] = "closed"] /\ up' = [up EXCEPT ![c] = <<>>] /\ down' = down
      /\ subs' = [i \in 1..Len(subs) |-> IF i \in ended THEN Gone ELSE subs[i]]
      /\ cursors' = Released(cursors, ended, {subs[i].ackCursor : i \in ended})
    BY DEF Cleanup
<1> HIDE DEF ended
<1>3. Gone \in Fit(log)
    BY <1>1, GoneFits
<1>4. subs' \in Seq(Fit(log)) /\ Len(subs') = Len(subs)
  <2>1. \A i \in 1..Len(subs) : (IF i \in ended THEN Gone ELSE subs[i]) \in Fit(log)
    BY <1>1, <1>3
  <2> QED
    BY <1>1, <1>2, <2>1
<1>5. cursors' \in Seq(Held(log, Len(subs))) /\ Len(cursors') <= Len(cursors)
    BY <1>1, <1>2, ReleasedIs
<1>6. Len(cursors') <= MaxCursors
    BY <1>1, <1>5, Bounds
<1>7. SubsInv'
    BY <1>1, <1>2, <1>4 DEF SubsInv
<1>8. TableInv'
    BY <1>2, <1>4, <1>5, <1>6 DEF TableInv
<1> QED
    BY <1>2, <1>7, <1>8

LEMMA RestartKeeps ==
    ASSUME DaemonInv, Restart
    PROVE  /\ log' = log /\ instance' \in 1..(MaxRestarts + 1)
           /\ sock' = [c \in Conns |-> IF sock[c] = "new" THEN "new" ELSE "closed"]
           /\ up' = [c \in Conns |-> <<>>] /\ down' = [c \in Conns |-> <<>>]
           /\ SubsInv' /\ TableInv'
<1>1. /\ subs \in Seq(Fit(log)) /\ Len(subs) <= MaxSubs /\ log \in Nat
      /\ instance \in 1..(MaxRestarts + 1)
    BY Bounds DEF DaemonInv, Sizes, SubsInv
<1>2. /\ log' = log /\ instance <= MaxRestarts /\ instance' = instance + 1
      /\ sock' = [c \in Conns |-> IF sock[c] = "new" THEN "new" ELSE "closed"]
      /\ up' = [c \in Conns |-> <<>>] /\ down' = [c \in Conns |-> <<>>]
      /\ subs' = [i \in 1..Len(subs) |-> Gone] /\ cursors' = <<>>
    BY DEF Restart
<1>3. subs' \in Seq(Fit(log)) /\ Len(subs') = Len(subs)
  <2>1. Gone \in Fit(log)
    BY <1>1, GoneFits
  <2> QED
    BY <1>1, <1>2, <2>1
<1>4. cursors' \in Seq(Held(log, Len(subs))) /\ Len(cursors') <= MaxCursors
    BY <1>2, Bounds
<1>5. SubsInv'
    BY <1>1, <1>2, <1>3 DEF SubsInv
<1>6. TableInv'
    BY <1>2, <1>3, <1>4 DEF TableInv
<1> QED
    BY <1>1, <1>2, <1>5, <1>6, Bounds

-----------------------------------------------------------------------------
(* The values of the subscription object.                                  *)

Callers == {"none", "start", "recovery", "reconnect", "candidate"}
Whos == {"est", "chain", "old", "stale"}
Waiters == [who : Whos, cursor : CursorIds, caller : Callers]
Objects == [conn : 0..MaxConns, started : BOOLEAN, tried : BOOLEAN, hook : BOOLEAN, bound : BOOLEAN,
            view : Seq(Nat), current : 0..MaxSubs, ack : CursorIds, seen : Nat,
            phase : Phases, caller : Callers, force : BOOLEAN, cursor : CursorIds,
            page : Pages \cup {None}, pending : Seq(Events), seq : Nat, newest : Nat,
            chain : Seq(Events), waiting : Seq(Waiters), missed : BOOLEAN, out : Seq(Requests)]

\* An object that is about to reduce a page has one.
Sound(t) == t \in Objects /\ (t.phase = "page" => t.page \in Pages)

\* What a function of the object keeps: the connection, and the number of requests that were
\* written and wait for an answer.
Same(t, u) ==
    /\ Sound(u) /\ u.conn = t.conn
    /\ Len(u.waiting) - Len(u.out) = Len(t.waiting) - Len(t.out)

LEMMA Nothing == None \in CursorIds /\ None = <<>> /\ <<>> \in CursorIds
BY DEF CursorIds, None

LEMMA SameTrans ==
    ASSUME NEW t, NEW u, NEW v, Same(t, u), Same(u, v)
    PROVE  Same(t, v)
BY DEF Same

LEMMA SoundLengths ==
    ASSUME NEW t, Sound(t)
    PROVE  /\ t \in Objects /\ t.waiting \in Seq(Waiters) /\ t.out \in Seq(Requests)
           /\ Len(t.waiting) \in Nat /\ Len(t.out) \in Nat
<1>1. t.waiting \in Seq(Waiters) /\ t.out \in Seq(Requests)
    BY DEF Sound, Objects
<1> QED
    BY <1>1 DEF Sound

LEMMA BlankIs ==
    /\ Sound(Blank) /\ Blank.conn = 0 /\ Blank.waiting = <<>> /\ Blank.out = <<>>
<1>1. /\ 0 \in 0..MaxConns /\ 0 \in 0..MaxSubs /\ 0 \in Nat /\ FALSE \in BOOLEAN
      /\ <<>> \in Seq(Nat) /\ <<>> \in Seq(Events) /\ <<>> \in Seq(Waiters) /\ <<>> \in Seq(Requests)
      /\ "idle" \in Phases /\ "none" \in Callers /\ None \in Pages \cup {None}
    BY Bounds DEF Phases, Callers
<1>2. Blank \in Objects
    BY <1>1, Nothing DEF Blank, Objects
<1> QED
    BY <1>2 DEF Blank, Sound

LEMMA WaiterIs ==
    ASSUME NEW who \in Whos, NEW cursor \in CursorIds, NEW caller \in Callers
    PROVE  Waiter(who, cursor, caller) \in Waiters
BY DEF Waiter, Waiters

LEMMA AskIs ==
    ASSUME NEW t, Sound(t), NEW request \in Requests, NEW waiter \in Waiters
    PROVE  /\ Same(t, Ask(t, request, waiter))
           /\ Ask(t, request, waiter).phase = t.phase /\ Ask(t, request, waiter).page = t.page
<1> DEFINE o == Append(t.out, request)
           w == Append(t.waiting, waiter)
           u == [t EXCEPT !.out = o, !.waiting = w]
<1>1. /\ o \in Seq(Requests) /\ w \in Seq(Waiters) /\ Len(o) = Len(t.out) + 1
      /\ Len(w) = Len(t.waiting) + 1 /\ Len(t.out) \in Nat /\ Len(t.waiting) \in Nat /\ t \in Objects
    BY SoundLengths
<1> HIDE DEF o, w
<1>2. /\ u \in Objects /\ u.conn = t.conn /\ u.out = o /\ u.waiting = w /\ u.phase = t.phase
      /\ u.page = t.page
    BY <1>1 DEF Objects
<1>3. Ask(t, request, waiter) = u
    BY DEF Ask, o, w
<1> HIDE DEF u
<1>4. Sound(u)
    BY <1>2 DEF Sound
<1>5. Len(u.waiting) - Len(u.out) = Len(t.waiting) - Len(t.out)
    BY <1>1, <1>2
<1> QED
    BY <1>2, <1>3, <1>4, <1>5 DEF Same

LEMMA AskAckIs ==
    ASSUME NEW t, Sound(t), NEW who \in Whos, NEW cursor \in CursorIds
    PROVE  Same(t, AskAck(t, who, cursor))
<1> DEFINE r == [method |-> "ack", sub |-> t.current, cursor |-> cursor]
<1>1. t.current \in 0..MaxSubs /\ t.caller \in Callers
    BY DEF Sound, Objects
<1>2. r \in Requests
    BY <1>1 DEF Requests
<1> HIDE DEF r
<1>3. AskAck(t, who, cursor) = Ask(t, r, Waiter(who, cursor, t.caller))
    BY DEF AskAck, r
<1> QED
    BY <1>1, <1>2, <1>3, WaiterIs, AskIs

LEMMA AskUnsubscribeIs ==
    ASSUME NEW t, Sound(t), NEW who \in Whos
    PROVE  Same(t, AskUnsubscribe(t, who)) /\ AskUnsubscribe(t, who).phase = t.phase
<1> DEFINE r == [method |-> "unsubscribe", sub |-> t.current]
<1>1. t.current \in 0..MaxSubs /\ t.caller \in Callers /\ None \in CursorIds
    BY Nothing DEF Sound, Objects
<1>2. r \in Requests
    BY <1>1 DEF Requests
<1> HIDE DEF r
<1>3. AskUnsubscribe(t, who) = Ask(t, r, Waiter(who, None, t.caller))
    BY DEF AskUnsubscribe, r
<1>4. Waiter(who, None, t.caller) \in Waiters
    BY <1>1, WaiterIs
<1> QED
    BY <1>2, <1>3, <1>4, AskIs

LEMMA ReducedIs ==
    ASSUME NEW view \in Seq(Nat), NEW ps \in Seq(Nat)
    PROVE  Reduced(view, ps) \in Seq(Nat)
<1>1. \A K : Only(ps, K) \in Seq(Nat)
    BY OnlyOf
<1>2. \A s \in Seq(Nat) : view \o s \in Seq(Nat)
    OBVIOUS
<1> QED
    BY <1>1, <1>2 DEF Reduced

LEMMA PositionsAre ==
    ASSUME NEW d \in Seq(Events)
    PROVE  Positions(d) \in Seq(Nat)
<1>1. \A e \in Events : e.pos \in Nat
    BY DEF Events
<1>2. \A k \in 1..Len(d) : d[k].pos \in Nat
    BY <1>1
<1> QED
    BY <1>2 DEF Positions

LEMMA SupersededIs ==
    ASSUME NEW t, Sound(t)
    PROVE  /\ Same(t, Superseded(t)) /\ Superseded(t).out = t.out
           /\ Superseded(t).phase = t.phase /\ Superseded(t).page = t.page
           /\ Superseded(t).caller = t.caller
<1> DEFINE W(w) == IF w.who = "chain" THEN [w EXCEPT !.who = "stale"]
                   ELSE IF w.who = "est" THEN [w EXCEPT !.who = "old"] ELSE w
           ws == [k \in 1..Len(t.waiting) |-> W(t.waiting[k])]
           u == [t EXCEPT !.waiting = ws, !.pending = <<>>, !.chain = <<>>, !.newest = 0, !.bound = FALSE]
<1>1. t \in Objects /\ t.waiting \in Seq(Waiters) /\ Len(t.waiting) \in Nat
    BY SoundLengths
<1>2. ws \in Seq(Waiters) /\ Len(ws) = Len(t.waiting)
  <2>1. \A w \in Waiters : W(w) \in Waiters
    BY DEF Waiters, Whos
  <2>2. \A k \in 1..Len(t.waiting) : t.waiting[k] \in Waiters
    BY <1>1
  <2> HIDE DEF W
  <2> QED
    BY <1>1, <2>1, <2>2
<1>3. Superseded(t) = u
    BY DEF Superseded
<1> HIDE DEF ws
<1>4. <<>> \in Seq(Events) /\ FALSE \in BOOLEAN /\ 0 \in Nat
    OBVIOUS
<1>5. u \in Objects
    BY <1>1, <1>2, <1>4 DEF Objects
<1>6. /\ u.conn = t.conn /\ u.out = t.out /\ u.waiting = ws /\ u.phase = t.phase /\ u.page = t.page
      /\ u.caller = t.caller
    BY <1>1 DEF Objects
<1> HIDE DEF u
<1> QED
    BY <1>2, <1>3, <1>5, <1>6 DEF Same, Sound

LEMMA EstablishIs ==
    ASSUME NEW t, Sound(t), NEW caller \in Callers, NEW force \in BOOLEAN
    PROVE  Same(t, Establish(t, caller, force))
<1> DEFINE same == t.seen \in {0, instance}
           cursor == IF ~force /\ same /\ t.view # <<>> THEN t.ack ELSE None
           s == Superseded(t)
           view == IF same THEN s.view ELSE <<>>
           ack == IF same THEN s.ack ELSE None
           u == [s EXCEPT !.hook = FALSE, !.seq = 0, !.missed = FALSE, !.phase = "subscribe",
                          !.caller = caller, !.force = force, !.cursor = cursor,
                          !.view = view, !.ack = ack]
           r == [method |-> "subscribe", after |-> cursor]
<1>1. Same(t, s) /\ Sound(s) /\ s \in Objects
    BY SupersededIs DEF Same, Sound
<1>2. s.view \in Seq(Nat) /\ s.ack \in CursorIds /\ t.ack \in CursorIds
    BY <1>1 DEF Sound, Objects
<1>3. view \in Seq(Nat) /\ ack \in CursorIds
  <2> HIDE DEF same, s
  <2> QED
    BY <1>2, Nothing
<1>4. cursor \in CursorIds
    BY <1>2, Nothing
<1>5. r \in Requests
  <2> HIDE DEF cursor
  <2> QED
    BY <1>4 DEF Requests
<1>6. Establish(t, caller, force) = Ask(u, r, Waiter("est", None, caller))
    BY DEF Establish
<1> HIDE DEF cursor, view, ack, s, r
<1>7. FALSE \in BOOLEAN /\ 0 \in Nat /\ "subscribe" \in Phases
    BY DEF Phases
<1>8. u \in Objects
    BY <1>1, <1>3, <1>4, <1>7 DEF Objects
<1>9. u.conn = s.conn /\ u.out = s.out /\ u.waiting = s.waiting /\ u.phase = "subscribe"
    BY <1>1 DEF Objects
<1> HIDE DEF u
<1>10. Same(s, u) /\ Sound(u)
    BY <1>8, <1>9 DEF Same, Sound
<1>11. Waiter("est", None, caller) \in Waiters
  <2>1. "est" \in Whos
    BY DEF Whos
  <2> QED
    BY <2>1, Nothing, WaiterIs
<1>12. Same(u, Ask(u, r, Waiter("est", None, caller)))
    BY <1>5, <1>10, <1>11, AskIs
<1> QED
    BY <1>1, <1>6, <1>10, <1>12, SameTrans

LEMMA RejectedIs ==
    ASSUME NEW t, Sound(t), t.out = <<>>, NEW caller
    PROVE  Same(t, Rejected(t, caller))
<1>1. /\ t \in Objects /\ t.waiting \in Seq(Waiters) /\ t.conn \in 0..MaxConns
      /\ FALSE \in BOOLEAN /\ 0 \in 0..MaxSubs
      /\ "idle" \in Phases /\ "failed" \in Phases /\ "none" \in Callers
    BY SoundLengths, Bounds DEF Sound, Objects, Phases, Callers
<1>2. CASE caller = "start"
  <2> DEFINE u == [Blank EXCEPT !.conn = t.conn, !.waiting = t.waiting]
  <2>1. Rejected(t, caller) = u
    BY <1>2 DEF Rejected
  <2>2. Blank \in Objects /\ Blank.phase = "idle" /\ Blank.out = <<>>
    BY BlankIs DEF Sound, Blank
  <2>3. /\ u \in Objects /\ u.phase = "idle" /\ u.out = <<>> /\ u.waiting = t.waiting
        /\ u.conn = t.conn
    BY <1>1, <2>2 DEF Objects
  <2> HIDE DEF u
  <2> QED
    BY <2>1, <2>3 DEF Same, Sound
<1>3. CASE caller = "recovery"
  <2> DEFINE u == [t EXCEPT !.phase = "idle", !.caller = "none", !.bound = FALSE,
                            !.force = FALSE, !.current = 0]
  <2>1. Rejected(t, caller) = u
    BY <1>3 DEF Rejected
  <2>2. /\ u \in Objects /\ u.phase = "idle" /\ u.out = t.out /\ u.waiting = t.waiting
        /\ u.conn = t.conn
    BY <1>1 DEF Objects
  <2> HIDE DEF u
  <2> QED
    BY <2>1, <2>2 DEF Same, Sound
<1>4. CASE caller \notin {"start", "recovery"}
  <2> DEFINE u == [t EXCEPT !.phase = "failed", !.bound = FALSE]
  <2>1. Rejected(t, caller) = u
    BY <1>4 DEF Rejected
  <2>2. /\ u \in Objects /\ u.phase = "failed" /\ u.out = t.out /\ u.waiting = t.waiting
        /\ u.conn = t.conn
    BY <1>1 DEF Objects
  <2> HIDE DEF u
  <2> QED
    BY <2>1, <2>2 DEF Same, Sound
<1> QED
    BY <1>2, <1>3, <1>4

LEMMA FinishedIs ==
    ASSUME NEW t, Sound(t)
    PROVE  Same(t, Finished(t))
<1> DEFINE u == [t EXCEPT !.phase = "idle", !.caller = "none", !.hook = TRUE, !.tried = FALSE,
                          !.pending = <<>>, !.force = FALSE, !.cursor = None]
<1>1. /\ t \in Objects /\ "idle" \in Phases /\ "none" \in Callers /\ TRUE \in BOOLEAN
      /\ FALSE \in BOOLEAN /\ <<>> \in Seq(Events)
    BY DEF Sound, Phases, Callers
<1>2. u \in Objects /\ u.phase = "idle" /\ u.out = t.out /\ u.waiting = t.waiting /\ u.conn = t.conn
    BY <1>1, Nothing DEF Objects
<1>3. Finished(t) = u
    BY DEF Finished
<1> HIDE DEF u
<1> QED
    BY <1>2, <1>3 DEF Same, Sound

\* The object changes to a phase with no page and asks to leave its subscription.
LEMMA LeavingIs ==
    ASSUME NEW t, Sound(t), NEW u, u \in Objects, u.conn = t.conn, u.out = t.out, u.waiting = t.waiting,
           u.phase # "page"
    PROVE  Same(t, AskUnsubscribe(u, "est")) /\ Same(t, [AskUnsubscribe(u, "est") EXCEPT !.current = 0])
<1>1. Same(t, u) /\ Sound(u)
    BY DEF Same, Sound
<1> DEFINE v == AskUnsubscribe(u, "est")
           z == [v EXCEPT !.current = 0]
<1>2. Same(u, v) /\ v.phase = u.phase
  <2>1. "est" \in Whos
    BY DEF Whos
  <2> QED
    BY <1>1, <2>1, AskUnsubscribeIs
<1>3. Same(t, v)
    BY <1>1, <1>2, SameTrans
<1> HIDE DEF v
<1>4. v \in Objects /\ 0 \in 0..MaxSubs
    BY <1>3, Bounds DEF Same, Sound
<1>5. z \in Objects /\ z.conn = v.conn /\ z.out = v.out /\ z.waiting = v.waiting /\ z.phase = v.phase
    BY <1>4 DEF Objects
<1> HIDE DEF z
<1>6. Same(v, z)
    BY <1>2, <1>5 DEF Same, Sound
<1>7. Same(t, z)
    BY <1>3, <1>6, SameTrans
<1> QED
    BY <1>3, <1>7 DEF v, z

LEMMA LoadingFailedIs ==
    ASSUME NEW t, Sound(t)
    PROVE  Same(t, LoadingFailed(t))
<1> DEFINE s == Superseded(t)
           u == [s EXCEPT !.phase = "cleanup"]
<1>1. Same(t, s) /\ Sound(s) /\ s \in Objects /\ "cleanup" \in Phases
    BY SupersededIs DEF Same, Sound, Phases
<1>2. LoadingFailed(t) = [AskUnsubscribe(u, "est") EXCEPT !.current = 0]
    BY DEF LoadingFailed
<1> HIDE DEF s
<1>3. u \in Objects /\ u.conn = s.conn /\ u.out = s.out /\ u.waiting = s.waiting /\ u.phase = "cleanup"
    BY <1>1 DEF Objects
<1> HIDE DEF u
<1>4. Same(s, [AskUnsubscribe(u, "est") EXCEPT !.current = 0])
    BY <1>1, <1>3, LeavingIs
<1> QED
    BY <1>1, <1>2, <1>4, SameTrans

LEMMA RecoveredIs ==
    ASSUME NEW t, Sound(t), NEW force \in BOOLEAN
    PROVE  Same(t, Recovered(t, force))
<1>1. CASE Recovering(t)
  <2> DEFINE u == [t EXCEPT !.missed = TRUE]
  <2>1. Recovered(t, force) = u
    BY <1>1 DEF Recovered
  <2>2. t \in Objects /\ TRUE \in BOOLEAN
    BY DEF Sound
  <2>3. /\ u \in Objects /\ u.conn = t.conn /\ u.out = t.out /\ u.waiting = t.waiting
        /\ u.phase = t.phase /\ u.page = t.page
    BY <2>2 DEF Objects
  <2> HIDE DEF u
  <2> QED
    BY <2>1, <2>3 DEF Same, Sound
<1>2. CASE ~Recovering(t)
  <2> DEFINE s == Superseded(t)
             u == [s EXCEPT !.phase = "leaving", !.caller = "recovery", !.force = force]
  <2>1. Same(t, s) /\ Sound(s) /\ s \in Objects /\ "leaving" \in Phases /\ "recovery" \in Callers
    BY SupersededIs DEF Same, Sound, Phases, Callers
  <2>2. Recovered(t, force) = AskUnsubscribe(u, "est")
    BY <1>2 DEF Recovered
  <2> HIDE DEF s
  <2>3. u \in Objects /\ u.conn = s.conn /\ u.out = s.out /\ u.waiting = s.waiting /\ u.phase = "leaving"
    BY <2>1 DEF Objects
  <2> HIDE DEF u
  <2>4. Same(s, AskUnsubscribe(u, "est"))
    BY <2>1, <2>3, LeavingIs
  <2> QED
    BY <2>1, <2>2, <2>4, SameTrans
<1> QED
    BY <1>1, <1>2

\* A burst of events is applied.
LEMMA Follows ==
    ASSUME NEW t, Sound(t), NEW u, u \in Objects, u.conn = t.conn, u.out = t.out,
           u.waiting = t.waiting, u.phase = t.phase, u.page = t.page
    PROVE  Same(t, u) /\ Sound(u)
BY DEF Same, Sound

LEMMA AppliedIs ==
    ASSUME NEW t, Sound(t), NEW queue \in Seq(Events)
    PROVE  Same(t, Applied(t, queue))
<1>1. t \in Objects /\ <<>> \in Seq(Events) /\ FALSE \in BOOLEAN /\ "chain" \in Whos
    BY DEF Sound, Whos
<1>2. CASE queue = <<>>
  <2>1. Applied(t, queue) = t
    BY <1>2 DEF Applied
  <2> QED
    BY <2>1 DEF Same
<1>3. CASE queue # <<>> /\ Head(queue).seq # t.seq + 1
  <2> DEFINE u == [t EXCEPT !.chain = <<>>]
  <2>1. Applied(t, queue) = Recovered(u, FALSE)
    BY <1>3 DEF Applied
  <2>2. /\ u \in Objects /\ u.conn = t.conn /\ u.out = t.out /\ u.waiting = t.waiting
        /\ u.phase = t.phase /\ u.page = t.page
    BY <1>1 DEF Objects
  <2> HIDE DEF u
  <2>3. Same(t, u) /\ Sound(u)
    BY <2>2, Follows
  <2>4. Same(u, Recovered(u, FALSE))
    BY <1>1, <2>3, RecoveredIs
  <2> QED
    BY <2>1, <2>3, <2>4, SameTrans
<1>4. CASE queue # <<>> /\ ~(Head(queue).seq # t.seq + 1)
  <2> DEFINE last == queue[Len(queue)]
             n == last.seq
             v == Reduced(t.view, Positions(queue))
             u == [t EXCEPT !.view = v, !.chain = <<>>, !.seq = n]
  <2>1. last \in Events
    BY <1>4
  <2>2. n \in Nat /\ last.cursor \in CursorIds
    BY <2>1 DEF Events
  <2>3. v \in Seq(Nat)
    <3>1. t.view \in Seq(Nat)
      BY <1>1 DEF Objects
    <3> QED
      BY <3>1, PositionsAre, ReducedIs
  <2>4. Applied(t, queue) = AskAck(u, "chain", last.cursor)
    BY <1>4 DEF Applied
  <2> HIDE DEF v, n, last
  <2>5. /\ u \in Objects /\ u.conn = t.conn /\ u.out = t.out /\ u.waiting = t.waiting
        /\ u.phase = t.phase /\ u.page = t.page
    BY <1>1, <2>2, <2>3 DEF Objects
  <2> HIDE DEF u
  <2>6. Same(t, u) /\ Sound(u)
    BY <2>5, Follows
  <2>7. Same(u, AskAck(u, "chain", last.cursor))
    BY <1>1, <2>2, <2>6, AskAckIs
  <2> QED
    BY <2>4, <2>6, <2>7, SameTrans
<1> QED
    BY <1>2, <1>3, <1>4

LEMMA DrainedIs ==
    ASSUME NEW t, Sound(t)
    PROVE  Same(t, Drained(t))
<1> DEFINE mine == Only(t.pending, {d \in ToSet(t.pending) : d.sub = t.current})
<1>1. t \in Objects /\ t.pending \in Seq(Events) /\ t.view \in Seq(Nat)
    BY DEF Sound, Objects
<1>2. mine \in Seq(Events)
    BY <1>1, OnlyOf
<1> DEFINE first == Head(mine)
           last == mine[Len(mine)]
           rest == Tail(mine)
           v == Reduced(t.view, <<first.pos>>)
           w == Reduced(t.view, Positions(mine))
           n == first.seq
           m == last.seq
           u == [t EXCEPT !.view = v, !.seq = n, !.pending = rest, !.phase = "drain"]
           z == [t EXCEPT !.view = w, !.seq = m]
<1>3. \/ mine = <<>> /\ Drained(t) = Finished(t)
      \/ mine # <<>> /\ Drained(t) = Finished(z)
      \/ mine # <<>> /\ Drained(t) = AskAck(u, "est", first.cursor)
    BY DEF Drained
<1> HIDE DEF mine
<1>4. CASE mine = <<>> /\ Drained(t) = Finished(t)
    BY <1>4, FinishedIs
<1>5. ASSUME mine # <<>>  PROVE first \in Events /\ last \in Events /\ rest \in Seq(Events)
    BY <1>2, <1>5
<1>6. CASE mine # <<>> /\ Drained(t) = Finished(z)
  <2>1. m \in Nat
    <3>1. last \in Events
      BY <1>5, <1>6
    <3> QED
      BY <3>1 DEF Events
  <2>2. w \in Seq(Nat)
    BY <1>1, <1>2, PositionsAre, ReducedIs
  <2> HIDE DEF w, m
  <2>3. /\ z \in Objects /\ z.conn = t.conn /\ z.out = t.out /\ z.waiting = t.waiting
        /\ z.phase = t.phase /\ z.page = t.page
    BY <1>1, <2>1, <2>2 DEF Objects
  <2> HIDE DEF z
  <2>4. Same(t, z) /\ Sound(z)
    BY <2>3, Follows
  <2>5. Same(z, Finished(z))
    BY <2>4, FinishedIs
  <2> QED
    BY <1>6, <2>4, <2>5, SameTrans
<1>7. CASE mine # <<>> /\ Drained(t) = AskAck(u, "est", first.cursor)
  <2>1. n \in Nat /\ first.pos \in Nat /\ first.cursor \in CursorIds /\ rest \in Seq(Events)
    <3>1. first \in Events /\ rest \in Seq(Events)
      BY <1>5, <1>7
    <3> QED
      BY <3>1 DEF Events
  <2>2. v \in Seq(Nat)
    <3>1. <<first.pos>> \in Seq(Nat)
      BY <2>1
    <3> HIDE DEF first
    <3> QED
      BY <1>1, <3>1, ReducedIs
  <2>3. "drain" \in Phases /\ "est" \in Whos
    BY DEF Phases, Whos
  <2> HIDE DEF v, n, rest, first
  <2>4. u \in Objects /\ u.conn = t.conn /\ u.out = t.out /\ u.waiting = t.waiting /\ u.phase = "drain"
    BY <1>1, <2>1, <2>2, <2>3 DEF Objects
  <2> HIDE DEF u
  <2>5. Same(t, u) /\ Sound(u)
    BY <2>4 DEF Same, Sound
  <2>6. Same(u, AskAck(u, "est", first.cursor))
    BY <2>1, <2>3, <2>5, AskAckIs
  <2> QED
    BY <1>7, <2>5, <2>6, SameTrans
<1> QED
    BY <1>3, <1>4, <1>6, <1>7

\* What is forgotten with the connection.
LEMMA LeftOff ==
    ASSUME NEW u \in Objects, u.out = <<>>, NEW b \in BOOLEAN
    PROVE  \A z : z = [u EXCEPT !.conn = 0, !.bound = FALSE, !.phase = "idle", !.caller = "none",
                               !.force = FALSE, !.cursor = None, !.current = 0,
                               !.waiting = <<>>, !.chain = <<>>, !.pending = <<>>, !.seq = 0,
                               !.newest = 0, !.missed = FALSE, !.started = b]
             => z \in Objects /\ z.conn = 0 /\ z.waiting = <<>> /\ z.out = <<>> /\ z.phase = "idle"
<1>1. /\ 0 \in 0..MaxConns /\ 0 \in 0..MaxSubs /\ 0 \in Nat /\ FALSE \in BOOLEAN
      /\ <<>> \in Seq(Events) /\ <<>> \in Seq(Waiters) /\ "idle" \in Phases /\ "none" \in Callers
      /\ None \in CursorIds
    BY Bounds, Nothing DEF Phases, Callers
<1> SUFFICES ASSUME NEW z, z = [u EXCEPT !.conn = 0, !.bound = FALSE, !.phase = "idle", !.caller = "none",
                               !.force = FALSE, !.cursor = None, !.current = 0,
                               !.waiting = <<>>, !.chain = <<>>, !.pending = <<>>, !.seq = 0,
                               !.newest = 0, !.missed = FALSE, !.started = b]
             PROVE  z \in Objects /\ z.conn = 0 /\ z.waiting = <<>> /\ z.out = <<>> /\ z.phase = "idle"
    OBVIOUS
<1> QED
    BY <1>1 DEF Objects

\* A lost connection leaves no request behind.
LEMMA LostIs ==
    ASSUME NEW t, Sound(t), t.out = <<>>
    PROVE  /\ Sound(Lost(t)) /\ Lost(t).conn = 0 /\ Lost(t).waiting = <<>> /\ Lost(t).out = <<>>
           /\ Lost(t).phase = "idle"
<1> DEFINE unstarted == \E k \in 1..Len(t.waiting) :
                           t.waiting[k].who = "old" /\ t.waiting[k].caller = "start"
           v == Reduced(t.view, Positions(t.chain))
           i == [t EXCEPT !.view = v, !.tried = FALSE]
           r == [t EXCEPT !.hook = FALSE, !.tried = t.caller # "recovery"]
           Z(u, b) == [u EXCEPT !.conn = 0, !.bound = FALSE, !.phase = "idle", !.caller = "none",
                                !.force = FALSE, !.cursor = None, !.current = 0,
                                !.waiting = <<>>, !.chain = <<>>, !.pending = <<>>, !.seq = 0,
                                !.newest = 0, !.missed = FALSE, !.started = b]
<1>1. t \in Objects /\ t.view \in Seq(Nat) /\ t.chain \in Seq(Events)
    BY DEF Sound, Objects
<1>2. \E u \in {i, Blank, r} : Lost(t) = Z(u, u.started /\ ~unstarted)
  <2>1. CASE t.phase = "idle"
    <3>1. Lost(t) = Z(i, i.started /\ ~unstarted)
      BY <2>1 DEF Lost
    <3> HIDE DEF i, Z
    <3> QED
      BY <3>1
  <2>2. CASE t.phase # "idle" /\ t.caller = "start"
    BY <2>2 DEF Lost
  <2>3. CASE t.phase # "idle" /\ t.caller # "start"
    BY <2>3 DEF Lost
  <2> QED
    BY <2>1, <2>2, <2>3
<1> HIDE DEF unstarted
<1>3. v \in Seq(Nat)
    BY <1>1, PositionsAre, ReducedIs
<1> HIDE DEF v
<1>4. i \in Objects /\ i.out = <<>>
    BY <1>1, <1>3 DEF Objects
<1>5. r \in Objects /\ r.out = <<>>
  <2> DEFINE b == t.caller # "recovery"
  <2>1. b \in BOOLEAN /\ FALSE \in BOOLEAN
    OBVIOUS
  <2> HIDE DEF b
  <2>2. r = [t EXCEPT !.hook = FALSE, !.tried = b]
    BY DEF b
  <2> HIDE DEF r
  <2> QED
    BY <1>1, <2>1, <2>2 DEF Objects
<1>6. Blank \in Objects /\ Blank.out = <<>>
    BY BlankIs DEF Sound
<1>7. \A u \in Objects : \A b \in BOOLEAN : u.out = <<>> =>
         /\ Z(u, b) \in Objects /\ Z(u, b).conn = 0 /\ Z(u, b).waiting = <<>> /\ Z(u, b).out = <<>>
         /\ Z(u, b).phase = "idle"
  <2> SUFFICES ASSUME NEW u \in Objects, NEW b \in BOOLEAN, u.out = <<>>
               PROVE  /\ Z(u, b) \in Objects /\ Z(u, b).conn = 0 /\ Z(u, b).waiting = <<>>
                      /\ Z(u, b).out = <<>> /\ Z(u, b).phase = "idle"
    OBVIOUS
  <2> QED
    BY LeftOff
<1> HIDE DEF i, r, Z
<1>8. PICK u \in {i, Blank, r} : Lost(t) = Z(u, u.started /\ ~unstarted)
    BY <1>2
<1>9. u \in Objects /\ u.out = <<>>
    BY <1>4, <1>5, <1>6, <1>8
<1> DEFINE b == u.started /\ ~unstarted
<1>10. b \in BOOLEAN /\ Lost(t) = Z(u, b)
    BY <1>8
<1> HIDE DEF b
<1>11. /\ Z(u, b) \in Objects /\ Z(u, b).conn = 0 /\ Z(u, b).waiting = <<>> /\ Z(u, b).out = <<>>
       /\ Z(u, b).phase = "idle"
    BY <1>7, <1>9, <1>10
<1> QED
    BY <1>10, <1>11 DEF Sound

-----------------------------------------------------------------------------
(* The inductive invariant.                                                *)

\* Without a connection nothing is being loaded.
ClientInv == Sound(this) /\ this.out = <<>> /\ (this.conn = 0 => this.phase = "idle")

\* On the connection in use, which is open, every waiting request has its answer under way or
\* is itself under way; without a connection nothing waits; a connection that was never
\* opened carries nothing.
Balanced ==
    /\ this.conn = 0 => this.waiting = <<>>
    /\ this.conn # 0 =>
          /\ sock[this.conn] = "open"
          /\ Len(this.waiting) = Len(Only(down[this.conn], Replies)) + Len(up[this.conn])
    /\ \A d \in Conns : sock[d] = "new" => up[d] = <<>> /\ down[d] = <<>>

IInv == DaemonInv /\ ClientInv /\ Balanced

LEMMA InvFacts ==
    ASSUME IInv
    PROVE  /\ Sizes /\ SubsInv /\ TableInv
           /\ sock \in [Conns -> {"new", "open", "closing", "closed"}]
           /\ up \in [Conns -> Seq(Requests)] /\ down \in [Conns -> Seq(Messages)]
           /\ Sound(this) /\ this.out = <<>> /\ this \in Objects
           /\ this.waiting \in Seq(Waiters) /\ Len(this.waiting) \in Nat
           /\ this.conn \in 0..MaxConns /\ (this.conn # 0 => this.conn \in Conns)
<1>1. /\ Sizes /\ SubsInv /\ TableInv
      /\ sock \in [Conns -> {"new", "open", "closing", "closed"}]
      /\ up \in [Conns -> Seq(Requests)] /\ down \in [Conns -> Seq(Messages)]
      /\ Sound(this) /\ this.out = <<>> /\ this \in Objects
    BY DEF IInv, DaemonInv, Channels, ClientInv, Sound
<1>2. this.waiting \in Seq(Waiters) /\ Len(this.waiting) \in Nat
    BY <1>1, SoundLengths
<1>3. this.conn \in 0..MaxConns
    BY <1>1 DEF Objects
<1> QED
    BY <1>1, <1>2, <1>3, Bounds DEF Conns

LEMMA Kinds ==
    /\ \A m \in Replies : m.kind # "event"
    /\ \A m \in Events : m.kind = "event"
    /\ \A m \in Replies : /\ m.kind = "page" => m \in Pages
                          /\ m.kind \in {"page", "resumed"} => m.sub \in 1..MaxSubs
    /\ \A m \in Messages : (m \in Replies) = (m.kind # "event")
<1>1. \A m \in Replies : m.kind # "event"
    BY DEF Replies, Errors, Pages
<1>2. \A m \in Events : m.kind = "event"
    BY DEF Events
<1>3. \A m \in Replies : m.kind = "page" => m \in Pages
    BY DEF Replies, Errors, Pages
<1>4. \A m \in Pages : m.sub \in 1..MaxSubs
    BY DEF Pages
<1>5. \A m \in Replies : m.kind = "resumed" => m.sub \in 1..MaxSubs
    BY DEF Replies, Errors, Pages
<1>6. \A m \in Messages : m \in Replies \/ m \in Events
    BY DEF Messages
<1> QED
    BY <1>1, <1>2, <1>3, <1>4, <1>5, <1>6

\* The object writes its requests.
LEMMA Committed ==
    ASSUME IInv, NEW c \in Conns, NEW t, Sound(t), t.conn = c, Commit(t), DaemonSame,
           sock' \in [Conns -> {"new", "open", "closing", "closed"}], sock'[c] = "open",
           down' \in [Conns -> Seq(Messages)],
           \A d \in Conns : sock'[d] = "new" => up[d] = <<>> /\ down'[d] = <<>>,
           Len(t.waiting) - Len(t.out) = Len(Only(down'[c], Replies)) + Len(up[c])
    PROVE  IInv'
<1> DEFINE n == [t EXCEPT !.out = <<>>]
<1>1. t \in Objects /\ t.out \in Seq(Requests) /\ Len(t.out) \in Nat /\ Len(t.waiting) \in Nat
    BY SoundLengths
<1>2. <<>> \in Seq(Requests) /\ c # 0
    BY DEF Conns
<1>3. /\ n \in Objects /\ n.out = <<>> /\ n.conn = c /\ n.waiting = t.waiting /\ n.phase = t.phase
      /\ n.page = t.page
    BY <1>1, <1>2 DEF Objects
<1>4. this' = n /\ up' = [up EXCEPT ![c] = @ \o t.out]
    BY <1>2 DEF Commit
<1> HIDE DEF n
<1>5. Sizes' /\ SubsInv' /\ TableInv'
  <2>1. /\ Sizes /\ SubsInv /\ TableInv /\ log' = log /\ instance' = instance /\ subs' = subs
        /\ cursors' = cursors
    BY InvFacts DEF DaemonSame
  <2> QED
    BY <2>1 DEF Sizes, SubsInv, TableInv
<1>6. up \in [Conns -> Seq(Requests)] /\ up[c] \in Seq(Requests)
    BY InvFacts
<1>7. /\ up' \in [Conns -> Seq(Requests)] /\ Len(up'[c]) = Len(up[c]) + Len(t.out)
      /\ \A d \in Conns : d # c => up'[d] = up[d]
  <2>1. up[c] \o t.out \in Seq(Requests) /\ Len(up[c] \o t.out) = Len(up[c]) + Len(t.out)
    BY <1>1, <1>6
  <2> DEFINE q == up[c] \o t.out
  <2>2. up' = [up EXCEPT ![c] = q]
    BY <1>4
  <2> HIDE DEF q
  <2>3. up' \in [Conns -> Seq(Requests)] /\ up'[c] = q /\ \A d \in Conns : d # c => up'[d] = up[d]
    BY <1>6, <2>1, <2>2 DEF q
  <2> QED
    BY <2>1, <2>3 DEF q
<1>8. DaemonInv'
    BY <1>5, <1>7 DEF DaemonInv, Channels
<1>9. ClientInv'
    BY <1>2, <1>3, <1>4 DEF ClientInv, Sound
<1>10. Balanced'
  <2> DEFINE a == Len(Only(down'[c], Replies))
  <2>1. a \in Nat
    <3>1. down'[c] \in Seq(Messages)
      OBVIOUS
    <3>2. Only(down'[c], Replies) \in Seq(Messages)
      BY <3>1, OnlyOf
    <3> QED
      BY <3>2
  <2>2. this'.conn = c /\ this'.waiting = t.waiting
    BY <1>3, <1>4
  <2>3. Len(up[c]) \in Nat
    BY <1>6
  <2>4. Len(t.waiting) - Len(t.out) = a + Len(up[c])
    OBVIOUS
  <2> HIDE DEF a
  <2>5. Len(this'.waiting) = a + Len(up'[c])
    <3> DEFINE x == Len(t.waiting)
               y == Len(t.out)
               z == Len(up[c])
    <3>1. x \in Nat /\ y \in Nat /\ z \in Nat /\ x - y = a + z
      BY <1>1, <2>3, <2>4
    <3>2. Len(this'.waiting) = x /\ Len(up'[c]) = z + y
      BY <1>7, <2>2
    <3> HIDE DEF x, y, z
    <3>3. x = a + (z + y)
      BY <2>1, <3>1
    <3> QED
      BY <3>2, <3>3
  <2>6. Len(this'.waiting) = Len(Only(down'[this'.conn], Replies)) + Len(up'[this'.conn])
    BY <2>2, <2>5 DEF a
  <2>7. \A d \in Conns : sock'[d] = "new" => up'[d] = <<>> /\ down'[d] = <<>>
    BY <1>7
  <2>8. sock'[this'.conn] = "open" /\ this'.conn # 0
    BY <1>2, <2>2
  <2> QED
    BY <2>6, <2>7, <2>8 DEF Balanced
<1> QED
    BY <1>8, <1>9, <1>10 DEF IInv

\* The requests without an answer, once nothing is left to write.
LEMMA SameDebt ==
    ASSUME NEW t, NEW u, Same(t, u), Sound(t), t.out = <<>>
    PROVE  Sound(u) /\ u.conn = t.conn /\ Len(u.waiting) - Len(u.out) = Len(t.waiting)
<1>1. Len(t.waiting) \in Nat /\ Len(t.out) = 0
    BY SoundLengths
<1>2. Len(t.waiting) - 0 = Len(t.waiting)
    BY <1>1
<1> QED
    BY <1>1, <1>2 DEF Same

\* A step of the object alone.
LEMMA OwnStep ==
    ASSUME IInv, this.conn # 0, NEW t, Same(this, t), Commit(t), DaemonSame, sock' = sock, down' = down
    PROVE  IInv'
<1>1. /\ this.conn \in Conns /\ sock[this.conn] = "open" /\ this.out = <<>>
      /\ sock \in [Conns -> {"new", "open", "closing", "closed"}] /\ down \in [Conns -> Seq(Messages)]
      /\ Len(this.waiting) \in Nat
    BY InvFacts DEF IInv, Balanced
<1>2. \A d \in Conns : sock'[d] = "new" => up[d] = <<>> /\ down'[d] = <<>>
    BY DEF IInv, Balanced
<1>3. Len(this.waiting) = Len(Only(down[this.conn], Replies)) + Len(up[this.conn])
    BY DEF IInv, Balanced
<1>4. Len(t.waiting) - Len(t.out) = Len(this.waiting) /\ Sound(t) /\ t.conn = this.conn
    BY InvFacts, SameDebt
<1>5. Len(t.waiting) - Len(t.out) = Len(Only(down'[this.conn], Replies)) + Len(up[this.conn])
    BY <1>3, <1>4
<1> QED
    BY <1>1, <1>2, <1>4, <1>5, Committed

\* A message that is taken off the connection.
LEMMA Taken ==
    ASSUME IInv, Incoming, Consumed
    PROVE  /\ this.conn \in Conns /\ Message \in Messages
           /\ down' \in [Conns -> Seq(Messages)]
           /\ \A d \in Conns : sock[d] = "new" => up[d] = <<>> /\ down'[d] = <<>>
           /\ Message.kind = "event" =>
                 Message \in Events /\ Only(down'[this.conn], Replies) = Only(down[this.conn], Replies)
           /\ Message.kind # "event" =>
                 /\ Message \in Replies /\ Only(down[this.conn], Replies) # <<>>
                 /\ Only(down'[this.conn], Replies) = Tail(Only(down[this.conn], Replies))
<1>1. this.conn \in Conns /\ down \in [Conns -> Seq(Messages)] /\ down[this.conn] # <<>>
    BY InvFacts DEF Incoming
<1> DEFINE d == down[this.conn]
<1>2. /\ d \in Seq(Messages) /\ d # <<>> /\ Message = Head(d) /\ Head(d) \in Messages
      /\ Tail(d) \in Seq(Messages)
    BY <1>1 DEF Message
<1>3. down' = [down EXCEPT ![this.conn] = Tail(d)]
    BY DEF Consumed
<1> HIDE DEF d
<1>4. /\ down' \in [Conns -> Seq(Messages)] /\ down'[this.conn] = Tail(d)
      /\ \A e \in Conns : e # this.conn => down'[e] = down[e]
  <2> DEFINE q == Tail(d)
             S == Seq(Messages)
  <2>1. q \in S /\ down' = [down EXCEPT ![this.conn] = q] /\ down \in [Conns -> S]
    BY <1>1, <1>2, <1>3
  <2> HIDE DEF q, S
  <2>2. /\ down' \in [Conns -> S] /\ down'[this.conn] = q
        /\ \A e \in Conns : e # this.conn => down'[e] = down[e]
    BY <1>1, <2>1
  <2> QED
    BY <2>2 DEF q, S
<1>5. sock[this.conn] = "open" /\ \A e \in Conns : sock[e] = "new" => up[e] = <<>> /\ down[e] = <<>>
  <2>1. this.conn # 0
    BY <1>1 DEF Conns
  <2> QED
    BY <2>1 DEF IInv, Balanced
<1>6. \A e \in Conns : sock[e] = "new" => up[e] = <<>> /\ down'[e] = <<>>
  <2> SUFFICES ASSUME NEW e \in Conns, sock[e] = "new"  PROVE up[e] = <<>> /\ down'[e] = <<>>
    OBVIOUS
  <2>1. e # this.conn
    BY <1>5
  <2> QED
    BY <1>4, <1>5, <2>1
<1>7. /\ Head(d) \notin Replies => Only(Tail(d), Replies) = Only(d, Replies)
      /\ Head(d) \in Replies => Only(d, Replies) # <<>> /\ Only(Tail(d), Replies) = Tail(Only(d, Replies))
    BY <1>2, OnlyHead
<1>8. Message.kind = "event" => Message \in Events /\ Head(d) \notin Replies
    BY <1>2, Kinds DEF Messages
<1>9. Message.kind # "event" => Message \in Replies /\ Head(d) \in Replies
    BY <1>2, Kinds
<1>10. Message.kind = "event" => Only(down'[this.conn], Replies) = Only(down[this.conn], Replies)
    BY <1>4, <1>7, <1>8 DEF d
<1>11. Message.kind # "event" =>
          /\ Only(down[this.conn], Replies) # <<>>
          /\ Only(down'[this.conn], Replies) = Tail(Only(down[this.conn], Replies))
    BY <1>4, <1>7, <1>9 DEF d
<1> QED
    BY <1>1, <1>2, <1>4, <1>6, <1>8, <1>9, <1>10, <1>11

\* An event is received.
LEMMA EventStep ==
    ASSUME IInv, Incoming, Consumed, Message.kind = "event",
           NEW t, Same(this, t), Commit(t), DaemonSame, sock' = sock
    PROVE  IInv'
<1>1. /\ this.conn \in Conns /\ sock[this.conn] = "open" /\ this.out = <<>>
      /\ sock \in [Conns -> {"new", "open", "closing", "closed"}] /\ Len(this.waiting) \in Nat
      /\ Len(this.waiting) = Len(Only(down[this.conn], Replies)) + Len(up[this.conn])
    BY InvFacts DEF IInv, Balanced, Incoming
<1>2. /\ down' \in [Conns -> Seq(Messages)]
      /\ \A d \in Conns : sock'[d] = "new" => up[d] = <<>> /\ down'[d] = <<>>
      /\ Only(down'[this.conn], Replies) = Only(down[this.conn], Replies)
  <2>1. \A d \in Conns : sock[d] = "new" => up[d] = <<>> /\ down'[d] = <<>>
    BY Taken
  <2>2. \A d \in Conns : sock'[d] = "new" => up[d] = <<>> /\ down'[d] = <<>>
    BY <2>1
  <2>3. /\ down' \in [Conns -> Seq(Messages)]
        /\ Only(down'[this.conn], Replies) = Only(down[this.conn], Replies)
    BY Taken
  <2> QED
    BY <2>2, <2>3
<1>3. Len(t.waiting) - Len(t.out) = Len(this.waiting) /\ Sound(t) /\ t.conn = this.conn
    BY InvFacts, SameDebt
<1>4. Len(t.waiting) - Len(t.out) = Len(Only(down'[this.conn], Replies)) + Len(up[this.conn])
    BY <1>1, <1>2, <1>3
<1> QED
    BY <1>1, <1>2, <1>3, <1>4, Committed

\* An answer is for a request that waits.
LEMMA AnswerIs ==
    ASSUME IInv, NEW who, Answer(who)
    PROVE  /\ this.conn \in Conns /\ Message \in Replies /\ this.waiting # <<>>
           /\ Head(this.waiting) \in Waiters
           /\ Sound(Answered) /\ Answered.conn = this.conn /\ Answered.out = <<>>
           /\ Len(Answered.waiting) = Len(Only(down'[this.conn], Replies)) + Len(up[this.conn])
           /\ Answered.phase = this.phase
<1>1. Incoming /\ Message.kind # "event" /\ Consumed
    BY DEF Answer
<1> DEFINE w == this.waiting
           r == Only(down[this.conn], Replies)
           n == Len(up[this.conn])
<1>2. this.conn \in Conns /\ Message \in Replies /\ r # <<>> /\ Only(down'[this.conn], Replies) = Tail(r)
    BY <1>1, Taken
<1>3. w \in Seq(Waiters) /\ this.out = <<>> /\ Sound(this) /\ Len(w) = Len(r) + n
  <2>1. this.conn # 0
    BY <1>2 DEF Conns
  <2>2. Len(w) = Len(r) + n
    BY <2>1 DEF IInv, Balanced
  <2> QED
    BY <2>2, InvFacts
<1>4. r \in Seq(Messages) /\ n \in Nat
  <2>1. down[this.conn] \in Seq(Messages) /\ up[this.conn] \in Seq(Requests)
    BY <1>2, InvFacts
  <2> QED
    BY <2>1, OnlyOf
<1> HIDE DEF r, n
<1>5. Len(r) \in Nat /\ Len(r) > 0 /\ Len(Tail(r)) = Len(r) - 1
    BY <1>2, <1>4
<1> HIDE DEF w
<1>6. w # <<>> /\ Head(w) \in Waiters /\ Tail(w) \in Seq(Waiters) /\ Len(Tail(w)) = Len(w) - 1
    BY <1>3, <1>4, <1>5
<1>7. Len(Tail(w)) = Len(Tail(r)) + n
    BY <1>3, <1>4, <1>5, <1>6
<1> DEFINE u == [this EXCEPT !.waiting = Tail(w)]
<1>8. Answered = u
    BY DEF Answered, w
<1>9. this \in Objects
    BY <1>3 DEF Sound
<1>10. /\ u \in Objects /\ u.conn = this.conn /\ u.out = <<>> /\ u.waiting = Tail(w)
       /\ u.phase = this.phase /\ u.page = this.page
    BY <1>3, <1>6, <1>9 DEF Objects
<1> HIDE DEF u
<1>11. Sound(u)
    BY <1>3, <1>10 DEF Sound
<1>12. Len(u.waiting) = Len(Only(down'[this.conn], Replies)) + n
    BY <1>2, <1>7, <1>10
<1> QED
    BY <1>2, <1>6, <1>8, <1>10, <1>11, <1>12 DEF w, n

LEMMA AnswerStep ==
    ASSUME IInv, NEW who, Answer(who), NEW t, Same(Answered, t), Commit(t)
    PROVE  IInv'
<1>1. /\ this.conn \in Conns /\ Sound(Answered) /\ Answered.conn = this.conn /\ Answered.out = <<>>
      /\ Len(Answered.waiting) = Len(Only(down'[this.conn], Replies)) + Len(up[this.conn])
    BY AnswerIs
<1>2. Incoming /\ Consumed /\ DaemonSame /\ sock' = sock
    BY DEF Answer
<1>3. /\ down' \in [Conns -> Seq(Messages)]
      /\ \A d \in Conns : sock'[d] = "new" => up[d] = <<>> /\ down'[d] = <<>>
  <2>1. \A d \in Conns : sock[d] = "new" => up[d] = <<>> /\ down'[d] = <<>>
    BY <1>2, Taken
  <2>2. \A d \in Conns : sock'[d] = "new" => up[d] = <<>> /\ down'[d] = <<>>
    BY <1>2, <2>1
  <2> QED
    BY <1>2, <2>2, Taken
<1>4. sock[this.conn] = "open" /\ sock \in [Conns -> {"new", "open", "closing", "closed"}]
  <2>1. this.conn # 0
    BY <1>1 DEF Conns
  <2>2. sock[this.conn] = "open"
    BY <2>1 DEF IInv, Balanced
  <2> QED
    BY <2>2, InvFacts
<1>5. Len(t.waiting) - Len(t.out) = Len(Answered.waiting) /\ Sound(t) /\ t.conn = this.conn
  <2>1. \A a : a = Answered => Sound(t) /\ t.conn = a.conn /\ Len(t.waiting) - Len(t.out) = Len(a.waiting)
    BY <1>1, SameDebt
  <2> QED
    BY <1>1, <2>1
<1>6. Len(t.waiting) - Len(t.out) = Len(Only(down'[this.conn], Replies)) + Len(up[this.conn])
    BY <1>1, <1>5
<1> QED
    BY <1>1, <1>2, <1>3, <1>4, <1>5, <1>6, Committed

\* A new connection.
LEMMA OpenStep ==
    ASSUME IInv, NEW c \in Conns, Open(c), NEW t, Sound(t), t.conn = c, Commit(t),
           Len(t.waiting) - Len(t.out) = 0
    PROVE  IInv'
<1>1. DaemonSame /\ down' = down /\ sock' = [sock EXCEPT ![c] = "open"] /\ sock[c] = "new"
    BY DEF Open, NextConn
<1>2. /\ sock \in [Conns -> {"new", "open", "closing", "closed"}] /\ down \in [Conns -> Seq(Messages)]
      /\ \A d \in Conns : sock[d] = "new" => up[d] = <<>> /\ down[d] = <<>>
    BY InvFacts DEF IInv, Balanced
<1>3. sock' \in [Conns -> {"new", "open", "closing", "closed"}] /\ sock'[c] = "open"
    BY <1>1, <1>2
<1>4. \A d \in Conns : sock'[d] = "new" => sock[d] = "new"
    BY <1>1, <1>2
<1>5. up[c] = <<>> /\ down'[c] = <<>>
    BY <1>1, <1>2
<1>6. Len(Only(down'[c], Replies)) = 0 /\ Len(up[c]) = 0
    BY <1>5, OnlyNone
<1>7. Len(t.waiting) - Len(t.out) = Len(Only(down'[c], Replies)) + Len(up[c])
    BY <1>6
<1>8. \A d \in Conns : sock'[d] = "new" => up[d] = <<>> /\ down'[d] = <<>>
    BY <1>1, <1>2, <1>4
<1>9. down' \in [Conns -> Seq(Messages)]
    BY <1>1, <1>2
<1> QED
    BY <1>1, <1>3, <1>7, <1>8, <1>9, Committed

-----------------------------------------------------------------------------
(* The steps of the daemon keep the invariant.                             *)

LEMMA NoReply ==
    ASSUME NEW q \in Seq(Messages), NEW ev \in Seq(Events)
    PROVE  q \o ev \in Seq(Messages) /\ Only(q \o ev, Replies) = Only(q, Replies)
<1>1. \A e \in Events : e \in Messages /\ e \notin Replies
    BY Kinds DEF Messages
<1>2. ev \in Seq(Messages)
    BY <1>1, Wider
<1>3. Only(ev, Replies) = <<>>
    BY <1>1, OnlyAll
<1>4. Only(q, Replies) \in Seq(Messages)
    BY OnlyOf
<1>5. Only(q \o ev, Replies) = Only(q, Replies) \o Only(ev, Replies)
    BY <1>2, <1>4, OnlyConcat
<1>6. \A s \in Seq(Messages) : s \o <<>> = s
    OBVIOUS
<1>7. Only(q, Replies) \o <<>> = Only(q, Replies)
    BY <1>4, <1>6
<1> QED
    BY <1>2, <1>3, <1>5, <1>7

LEMMA OneReply ==
    ASSUME NEW q \in Seq(Messages), NEW m \in Replies, NEW ev \in Seq(Events)
    PROVE  /\ q \o (<<m>> \o ev) \in Seq(Messages)
           /\ Len(Only(q \o (<<m>> \o ev), Replies)) = Len(Only(q, Replies)) + 1
<1>1. m \in Messages
    BY DEF Messages
<1>2. Append(q, m) \in Seq(Messages) /\ Only(q, Replies) \in Seq(Messages)
    BY <1>1, OnlyOf
<1>3. Only(Append(q, m), Replies) = Append(Only(q, Replies), m)
    BY <1>1, OnlyAppend
<1>4. /\ Append(q, m) \o ev \in Seq(Messages)
      /\ Only(Append(q, m) \o ev, Replies) = Only(Append(q, m), Replies)
    BY <1>2, NoReply
<1>5. q \o (<<m>> \o ev) = Append(q, m) \o ev
  <2>1. \A e \in Events : e \in Messages
    BY DEF Messages
  <2>2. ev \in Seq(Messages)
    BY <2>1, Wider
  <2>3. \A s, v \in Seq(Messages), x \in Messages : s \o (<<x>> \o v) = Append(s, x) \o v
    OBVIOUS
  <2> QED
    BY <1>1, <2>2, <2>3
<1>6. \A s \in Seq(Messages) : Len(Append(s, m)) = Len(s) + 1
    OBVIOUS
<1>7. Len(Append(Only(q, Replies), m)) = Len(Only(q, Replies)) + 1
    BY <1>2, <1>6
<1> QED
    BY <1>3, <1>4, <1>5, <1>7

\* The daemon alone steps, and the requests and answers of the connection in use still match.
LEMMA DaemonStep ==
    ASSUME IInv, this' = this, Sizes', SubsInv', TableInv',
           sock' \in [Conns -> {"new", "open", "closing", "closed"}],
           up' \in [Conns -> Seq(Requests)], down' \in [Conns -> Seq(Messages)],
           this.conn # 0 =>
              /\ sock'[this.conn] = "open"
              /\ Len(Only(down'[this.conn], Replies)) + Len(up'[this.conn])
                 = Len(Only(down[this.conn], Replies)) + Len(up[this.conn]),
           \A d \in Conns : sock'[d] = "new" => up'[d] = <<>> /\ down'[d] = <<>>
    PROVE  IInv'
<1>1. DaemonInv'
    BY DEF DaemonInv, Channels
<1>2. ClientInv'
    BY DEF IInv, ClientInv, Sound
<1>3. this.conn = 0 => this.waiting = <<>>
    BY DEF IInv, Balanced
<1>4. this.conn # 0 => Len(this.waiting) = Len(Only(down'[this.conn], Replies)) + Len(up'[this.conn])
    BY DEF IInv, Balanced
<1>5. Balanced'
    BY <1>3, <1>4 DEF Balanced
<1> QED
    BY <1>1, <1>2, <1>5 DEF IInv

LEMMA AppendStep ==
    ASSUME IInv, DaemonAppends
    PROVE  IInv'
<1>1. /\ log' \in 0..MaxEvents /\ instance' = instance /\ sock' = sock /\ up' = up
      /\ Pushed /\ SubsInv' /\ TableInv' /\ this' = this
    BY AppendKeeps DEF DaemonAppends, IInv
<1>2. PICK ev \in [Conns -> Seq(Events)] : /\ down' = [c \in Conns |-> down[c] \o ev[c]]
                                          /\ \A c \in Conns : sock[c] # "open" => ev[c] = <<>>
    BY <1>1 DEF Pushed
<1>3. Sizes'
    BY <1>1, InvFacts DEF Sizes
<1>4. \A c \in Conns : /\ down'[c] = down[c] \o ev[c] /\ down'[c] \in Seq(Messages)
                       /\ Only(down'[c], Replies) = Only(down[c], Replies)
  <2> SUFFICES ASSUME NEW c \in Conns
               PROVE  /\ down'[c] = down[c] \o ev[c] /\ down'[c] \in Seq(Messages)
                      /\ Only(down'[c], Replies) = Only(down[c], Replies)
    OBVIOUS
  <2>1. down'[c] = down[c] \o ev[c]
    BY <1>2
  <2>2. down[c] \in Seq(Messages) /\ ev[c] \in Seq(Events)
    BY <1>2, InvFacts
  <2>3. down[c] \o ev[c] \in Seq(Messages) /\ Only(down[c] \o ev[c], Replies) = Only(down[c], Replies)
    BY <2>2, NoReply
  <2> QED
    BY <2>1, <2>3
<1>5. down' \in [Conns -> Seq(Messages)]
    BY <1>2, <1>4
<1>6. this.conn # 0 => this.conn \in Conns /\ sock[this.conn] = "open"
    BY InvFacts DEF IInv, Balanced
<1>7. this.conn # 0 =>
         /\ sock'[this.conn] = "open"
         /\ Len(Only(down'[this.conn], Replies)) + Len(up'[this.conn])
            = Len(Only(down[this.conn], Replies)) + Len(up[this.conn])
    BY <1>1, <1>4, <1>6
<1>8. \A d \in Conns : sock'[d] = "new" => up'[d] = <<>> /\ down'[d] = <<>>
  <2> SUFFICES ASSUME NEW d \in Conns, sock'[d] = "new"  PROVE up'[d] = <<>> /\ down'[d] = <<>>
    OBVIOUS
  <2>1. up[d] = <<>> /\ down[d] = <<>> /\ sock[d] = "new"
    BY <1>1 DEF IInv, Balanced
  <2>2. sock[d] # "open" /\ up'[d] = <<>>
    BY <1>1, <2>1
  <2>3. down'[d] = <<>> \o <<>>
    BY <1>2, <1>4, <2>1, <2>2
  <2> QED
    BY <2>2, <2>3
<1>9. sock' \in [Conns -> {"new", "open", "closing", "closed"}] /\ up' \in [Conns -> Seq(Requests)]
    BY <1>1, InvFacts
<1> QED
    BY <1>1, <1>3, <1>5, <1>7, <1>8, <1>9, DaemonStep

LEMMA ServeStep ==
    ASSUME IInv, NEW c \in Conns, Serve(c), this' = this
    PROVE  IInv'
<1>1. Served(c) /\ SubsInv' /\ TableInv'
    BY ServeKeeps DEF IInv
<1>2. /\ up[c] # <<>> /\ sock[c] \in {"open", "closing"} /\ up' = [up EXCEPT ![c] = Tail(@)]
      /\ log' = log /\ instance' = instance /\ sock' = sock
    BY <1>1 DEF Served
<1>3. PICK m \in Replies, ev \in Seq(Events) : Send(c, <<m>> \o ev)
    BY <1>1 DEF Served
<1>4. up[c] \in Seq(Requests) /\ down[c] \in Seq(Messages)
    BY InvFacts
<1> DEFINE u == Tail(up[c])
           d == IF sock[c] = "open" THEN down[c] \o (<<m>> \o ev) ELSE down[c]
<1>5. u \in Seq(Requests) /\ Len(u) = Len(up[c]) - 1 /\ Len(up[c]) \in Nat
    BY <1>2, <1>4
<1>6. /\ d \in Seq(Messages)
      /\ sock[c] = "open" => Len(Only(d, Replies)) = Len(Only(down[c], Replies)) + 1
  <2>1. /\ down[c] \o (<<m>> \o ev) \in Seq(Messages)
        /\ Len(Only(down[c] \o (<<m>> \o ev), Replies)) = Len(Only(down[c], Replies)) + 1
    BY <1>3, <1>4, OneReply
  <2> QED
    BY <1>4, <2>1
<1>7. up' = [up EXCEPT ![c] = u] /\ down' = [down EXCEPT ![c] = d]
  <2>1. CASE sock[c] = "open"
    BY <1>2, <1>3, <2>1 DEF Send
  <2>2. CASE sock[c] # "open"
    BY <1>2, <1>3, <2>2, InvFacts DEF Send
  <2> QED
    BY <2>1, <2>2
<1> HIDE DEF u, d
<1>8. up' \in [Conns -> Seq(Requests)] /\ up'[c] = u /\ \A e \in Conns : e # c => up'[e] = up[e]
    BY <1>5, <1>7, InvFacts
<1>9. down' \in [Conns -> Seq(Messages)] /\ down'[c] = d /\ \A e \in Conns : e # c => down'[e] = down[e]
  <2> DEFINE S == Seq(Messages)
  <2>1. d \in S /\ down \in [Conns -> S]
    BY <1>6, InvFacts
  <2> HIDE DEF S
  <2>2. down' \in [Conns -> S] /\ down'[c] = d /\ \A e \in Conns : e # c => down'[e] = down[e]
    BY <1>7, <2>1
  <2> QED
    BY <2>2 DEF S
<1>10. this.conn # 0 => this.conn \in Conns /\ sock[this.conn] = "open"
    BY InvFacts DEF IInv, Balanced
<1>11. this.conn # 0 =>
          /\ sock'[this.conn] = "open"
          /\ Len(Only(down'[this.conn], Replies)) + Len(up'[this.conn])
             = Len(Only(down[this.conn], Replies)) + Len(up[this.conn])
  <2> SUFFICES ASSUME this.conn # 0
               PROVE  /\ sock'[this.conn] = "open"
                      /\ Len(Only(down'[this.conn], Replies)) + Len(up'[this.conn])
                         = Len(Only(down[this.conn], Replies)) + Len(up[this.conn])
    OBVIOUS
  <2>1. CASE this.conn = c
    <3> DEFINE a == Len(Only(down[c], Replies))
               b == Len(up[c])
    <3>1. a \in Nat /\ b \in Nat
      <4>1. Only(down[c], Replies) \in Seq(Messages)
        BY <1>4, OnlyOf
      <4> QED
        BY <1>5, <4>1
    <3>2. Len(Only(down'[c], Replies)) = a + 1 /\ Len(up'[c]) = b - 1
      BY <1>5, <1>6, <1>8, <1>9, <1>10, <2>1
    <3> HIDE DEF a, b
    <3>3. (a + 1) + (b - 1) = a + b
      BY <3>1
    <3>4. Len(Only(down'[c], Replies)) + Len(up'[c]) = a + b
      BY <3>2, <3>3
    <3> QED
      BY <1>2, <1>10, <2>1, <3>4 DEF a, b
  <2>2. CASE this.conn # c
    BY <1>2, <1>8, <1>9, <1>10, <2>2
  <2> QED
    BY <2>1, <2>2
<1>12. \A e \in Conns : sock'[e] = "new" => up'[e] = <<>> /\ down'[e] = <<>>
  <2> SUFFICES ASSUME NEW e \in Conns, sock'[e] = "new"  PROVE up'[e] = <<>> /\ down'[e] = <<>>
    OBVIOUS
  <2>1. up[e] = <<>> /\ down[e] = <<>> /\ e # c
    BY <1>2 DEF IInv, Balanced
  <2> QED
    BY <1>8, <1>9, <2>1
<1>13. sock' \in [Conns -> {"new", "open", "closing", "closed"}] /\ Sizes'
    BY <1>2, InvFacts DEF Sizes
<1> QED
    BY <1>1, <1>8, <1>9, <1>11, <1>12, <1>13, DaemonStep

LEMMA ExpireStep ==
    ASSUME IInv, DaemonExpires
    PROVE  IInv'
<1>1. /\ log' = log /\ instance' = instance /\ sock' = sock /\ up' = up /\ down' = down
      /\ SubsInv' /\ TableInv' /\ this' = this
    BY ExpireKeeps DEF DaemonExpires, IInv
<1>2. Sizes'
    BY <1>1, InvFacts DEF Sizes
<1>3. /\ sock' \in [Conns -> {"new", "open", "closing", "closed"}]
      /\ up' \in [Conns -> Seq(Requests)] /\ down' \in [Conns -> Seq(Messages)]
    BY <1>1, InvFacts
<1>4. this.conn # 0 =>
         /\ sock'[this.conn] = "open"
         /\ Len(Only(down'[this.conn], Replies)) + Len(up'[this.conn])
            = Len(Only(down[this.conn], Replies)) + Len(up[this.conn])
    BY <1>1 DEF IInv, Balanced
<1>5. \A e \in Conns : sock'[e] = "new" => up'[e] = <<>> /\ down'[e] = <<>>
    BY <1>1 DEF IInv, Balanced
<1> QED
    BY <1>1, <1>2, <1>3, <1>4, <1>5, DaemonStep

LEMMA CleanupStep ==
    ASSUME IInv, NEW c \in Conns, Cleanup(c), this' = this
    PROVE  IInv'
<1>1. /\ log' = log /\ instance' = instance /\ sock[c] = "closing"
      /\ sock' = [sock EXCEPT ![c] = "closed"] /\ up' = [up EXCEPT ![c] = <<>>] /\ down' = down
      /\ SubsInv' /\ TableInv'
    BY CleanupKeeps DEF IInv
<1>2. Sizes'
    BY <1>1, InvFacts DEF Sizes
<1>3. sock' \in [Conns -> {"new", "open", "closing", "closed"}] /\ down' \in [Conns -> Seq(Messages)]
    BY <1>1, InvFacts
<1>4. up' \in [Conns -> Seq(Requests)]
  <2>1. <<>> \in Seq(Requests)
    OBVIOUS
  <2> QED
    BY <1>1, <2>1, InvFacts
<1>5. \A e \in Conns : e # c => sock'[e] = sock[e] /\ up'[e] = up[e]
    BY <1>1, InvFacts
<1>6. sock'[c] = "closed"
    BY <1>1, InvFacts
<1>7. this.conn # 0 => this.conn \in Conns /\ sock[this.conn] = "open" /\ this.conn # c
    BY <1>1, InvFacts DEF IInv, Balanced
<1>8. this.conn # 0 =>
         /\ sock'[this.conn] = "open"
         /\ Len(Only(down'[this.conn], Replies)) + Len(up'[this.conn])
            = Len(Only(down[this.conn], Replies)) + Len(up[this.conn])
    BY <1>1, <1>5, <1>7
<1>9. \A e \in Conns : sock'[e] = "new" => up'[e] = <<>> /\ down'[e] = <<>>
  <2> SUFFICES ASSUME NEW e \in Conns, sock'[e] = "new"  PROVE up'[e] = <<>> /\ down'[e] = <<>>
    OBVIOUS
  <2>1. e # c
    BY <1>6
  <2>2. sock[e] = "new" /\ up'[e] = up[e] /\ down'[e] = down[e]
    BY <1>1, <1>5, <2>1
  <2> QED
    BY <2>2 DEF IInv, Balanced
<1> QED
    BY <1>1, <1>2, <1>3, <1>4, <1>8, <1>9, DaemonStep

\* Without a connection nothing is balanced.
LEMMA LostStep ==
    ASSUME IInv, NEW t, Sound(t), t.conn = 0, t.waiting = <<>>, t.out = <<>>,
           t.phase = "idle", this' = t,
           Sizes', SubsInv', TableInv',
           sock' \in [Conns -> {"new", "open", "closing", "closed"}],
           up' \in [Conns -> Seq(Requests)], down' \in [Conns -> Seq(Messages)],
           \A d \in Conns : sock'[d] = "new" => up'[d] = <<>> /\ down'[d] = <<>>
    PROVE  IInv'
<1>1. DaemonInv'
    BY DEF DaemonInv, Channels
<1>2. ClientInv'
    BY DEF ClientInv, Sound
<1>3. Balanced'
    BY DEF Balanced
<1> QED
    BY <1>1, <1>2, <1>3 DEF IInv

LEMMA LoseStep ==
    ASSUME IInv, LoseConnection
    PROVE  IInv'
<1> DEFINE c == this.conn
<1>1. /\ c # 0 /\ this' = Lost(this) /\ sock' = [sock EXCEPT ![c] = "closing"]
      /\ down' = [down EXCEPT ![c] = <<>>] /\ up' = up
      /\ log' = log /\ instance' = instance /\ subs' = subs /\ cursors' = cursors
    BY DEF LoseConnection, DaemonSame
<1>2. c \in Conns
    BY <1>1, InvFacts
<1> HIDE DEF c
<1>3. Sizes' /\ SubsInv' /\ TableInv'
    BY <1>1, InvFacts DEF Sizes, SubsInv, TableInv
<1>4. sock' \in [Conns -> {"new", "open", "closing", "closed"}] /\ up' \in [Conns -> Seq(Requests)]
    BY <1>1, InvFacts
<1>5. down' \in [Conns -> Seq(Messages)]
  <2>1. <<>> \in Seq(Messages)
    OBVIOUS
  <2> QED
    BY <1>1, <2>1, InvFacts
<1>6. \A d \in Conns : sock'[d] = "new" => up'[d] = <<>> /\ down'[d] = <<>>
  <2> SUFFICES ASSUME NEW d \in Conns, sock'[d] = "new"  PROVE up'[d] = <<>> /\ down'[d] = <<>>
    OBVIOUS
  <2>1. sock'[c] = "closing"
    BY <1>1, <1>2, InvFacts
  <2>2. d # c
    BY <2>1
  <2>3. sock[d] = "new" /\ up'[d] = up[d] /\ down'[d] = down[d]
    BY <1>1, <2>2, InvFacts
  <2> QED
    BY <2>3 DEF IInv, Balanced
<1>7. /\ Sound(this') /\ this'.conn = 0 /\ this'.waiting = <<>> /\ this'.out = <<>>
      /\ this'.phase = "idle"
    BY <1>1, InvFacts, LostIs
<1> QED
    BY <1>3, <1>4, <1>5, <1>6, <1>7, LostStep

LEMMA RestartStep ==
    ASSUME IInv, RestartDaemon
    PROVE  IInv'
<1>1. Restart /\ this' = IF this.conn = 0 THEN this ELSE Lost(this)
    BY DEF RestartDaemon
<1>2. /\ log' = log /\ instance' \in 1..(MaxRestarts + 1)
      /\ sock' = [c \in Conns |-> IF sock[c] = "new" THEN "new" ELSE "closed"]
      /\ up' = [c \in Conns |-> <<>>] /\ down' = [c \in Conns |-> <<>>]
      /\ SubsInv' /\ TableInv'
    BY <1>1, RestartKeeps DEF IInv
<1>3. Sizes'
    BY <1>2, InvFacts DEF Sizes
<1>4. /\ sock' \in [Conns -> {"new", "open", "closing", "closed"}]
      /\ up' \in [Conns -> Seq(Requests)] /\ down' \in [Conns -> Seq(Messages)]
  <2>1. <<>> \in Seq(Requests) /\ <<>> \in Seq(Messages)
    OBVIOUS
  <2> QED
    BY <1>2, <2>1
<1>5. \A d \in Conns : sock'[d] = "new" => up'[d] = <<>> /\ down'[d] = <<>>
    BY <1>2
<1>6. /\ Sound(this') /\ this'.conn = 0 /\ this'.waiting = <<>> /\ this'.out = <<>>
      /\ this'.phase = "idle"
  <2>1. CASE this.conn = 0
    <3>1. this.waiting = <<>> /\ this.phase = "idle"
      BY <2>1 DEF IInv, Balanced, ClientInv
    <3> QED
      BY <1>1, <2>1, <3>1, InvFacts
  <2>2. CASE this.conn # 0
    BY <1>1, <2>2, InvFacts, LostIs
  <2> QED
    BY <2>1, <2>2
<1> QED
    BY <1>2, <1>3, <1>4, <1>5, <1>6, LostStep

-----------------------------------------------------------------------------
(* The steps of the client keep the invariant.                             *)

LEMMA EventReceived ==
    ASSUME IInv, ReceiveEvent
    PROVE  IInv'
<1>1. Incoming /\ Message.kind = "event" /\ Consumed /\ DaemonSame /\ sock' = sock
    BY DEF ReceiveEvent
<1>2. this \in Objects /\ Sound(this) /\ this.out = <<>>
    BY InvFacts
<1>3. Message \in Events
    BY <1>1, Taken
<1> DEFINE m == Message
           n == m.seq
           p == Append(this.pending, m)
           q == Append(this.chain, m)
           a == [this EXCEPT !.pending = p]
           t == [this EXCEPT !.newest = n]
           b == [t EXCEPT !.chain = q]
<1>4. \E u \in {a, this, b, Applied(t, <<m>>)} : Commit(u)
  <2>1. CASE Loading(this)
    BY <2>1 DEF ReceiveEvent
  <2>2. CASE ~Loading(this) /\ (~this.bound \/ Message.sub # this.current)
    BY <2>2 DEF ReceiveEvent
  <2>3. CASE ~Loading(this) /\ ~(~this.bound \/ Message.sub # this.current) /\ ChainBusy(this)
    <3>1. b = [t EXCEPT !.chain = Append(t.chain, m)] /\ t.chain = this.chain
      BY <1>2 DEF Objects
    <3> QED
      BY <2>3, <3>1 DEF ReceiveEvent
  <2>4. CASE ~Loading(this) /\ ~(~this.bound \/ Message.sub # this.current) /\ ~ChainBusy(this)
    BY <2>4 DEF ReceiveEvent
  <2> QED
    BY <2>1, <2>2, <2>3, <2>4
<1>5. n \in Nat
    BY <1>3 DEF Events
<1>6. p \in Seq(Events) /\ q \in Seq(Events) /\ <<m>> \in Seq(Events)
  <2>1. this.pending \in Seq(Events) /\ this.chain \in Seq(Events)
    BY <1>2 DEF Objects
  <2> QED
    BY <1>3, <2>1
<1> HIDE DEF n, p, q, m
<1>7. /\ a \in Objects /\ a.conn = this.conn /\ a.out = this.out /\ a.waiting = this.waiting
      /\ a.phase = this.phase /\ a.page = this.page
    BY <1>2, <1>6 DEF Objects
<1>8. /\ t \in Objects /\ t.conn = this.conn /\ t.out = this.out /\ t.waiting = this.waiting
      /\ t.phase = this.phase /\ t.page = this.page
    BY <1>2, <1>5 DEF Objects
<1> HIDE DEF t, a
<1>9. /\ b \in Objects /\ b.conn = t.conn /\ b.out = t.out /\ b.waiting = t.waiting
      /\ b.phase = t.phase /\ b.page = t.page
    BY <1>6, <1>8 DEF Objects
<1> HIDE DEF b
<1>10. Same(this, a) /\ Same(this, this) /\ Same(this, t) /\ Sound(t)
    BY <1>2, <1>7, <1>8, Follows DEF Same
<1>11. Same(this, b)
  <2>1. Same(t, b)
    BY <1>9, <1>10, Follows
  <2> QED
    BY <1>10, <2>1, SameTrans
<1>12. Same(this, Applied(t, <<m>>))
  <2>1. Same(t, Applied(t, <<m>>))
    BY <1>6, <1>10, AppliedIs
  <2> QED
    BY <1>10, <2>1, SameTrans
<1>13. PICK u : u \in {a, this, b, Applied(t, <<m>>)} /\ Commit(u)
    BY <1>4
<1>14. Same(this, u)
    BY <1>10, <1>11, <1>12, <1>13
<1> QED
    BY <1>1, <1>13, <1>14, EventStep

LEMMA AnsweredFields ==
    ASSUME IInv, NEW who, Answer(who)
    PROVE  Answered \in Objects /\ Answered.caller = this.caller /\ Answered.force = this.force
           /\ this.caller \in Callers /\ this.force \in BOOLEAN
<1>1. this \in Objects /\ this.caller \in Callers /\ this.force \in BOOLEAN
    BY InvFacts DEF Objects
<1>2. Answered \in Objects
    BY AnswerIs DEF Sound
<1> QED
    BY <1>1, <1>2 DEF Answered, Objects

LEMMA Subscribed ==
    ASSUME IInv, SubscribeAnswered
    PROVE  IInv'
<1>1. this.phase = "subscribe" /\ Answer("est")
    BY DEF SubscribeAnswered
<1> DEFINE o == Answered
           m == Message
           t == [o EXCEPT !.current = m.sub, !.seen = instance]
           a == [t EXCEPT !.phase = "ready"]
           b == [t EXCEPT !.phase = "page", !.page = m, !.view = <<>>]
           d == [o EXCEPT !.view = <<>>, !.ack = None, !.cursor = None]
           r == [method |-> "subscribe", after |-> None]
           w == Waiter("est", None, this.caller)
<1>2. \/ m.kind = "resumed" /\ Commit(a)
      \/ m.kind = "page" /\ Commit(b)
      \/ Commit(Ask(d, r, w))
    BY DEF SubscribeAnswered
<1>3. /\ m \in Replies /\ Sound(o) /\ o \in Objects /\ o.phase = "subscribe"
      /\ this.caller \in Callers /\ instance \in Nat
  <2>1. instance \in 1..(MaxRestarts + 1)
    BY InvFacts DEF Sizes
  <2>2. instance \in Nat
    BY <2>1
  <2> QED
    BY <1>1, <2>2, AnswerIs, AnsweredFields
<1>4. /\ m.kind \in {"page", "resumed"} => m.sub \in 0..MaxSubs
      /\ m.kind = "page" => m \in Pages
    BY <1>3, Kinds, Bounds
<1>5. r \in Requests /\ w \in Waiters
  <2>1. "est" \in Whos
    BY DEF Whos
  <2>2. w \in Waiters
    BY <1>3, <2>1, Nothing, WaiterIs
  <2>3. r \in Requests
    BY Nothing DEF Requests
  <2> QED
    BY <2>2, <2>3
<1> HIDE DEF o, m, r, w
<1>6. CASE m.kind = "resumed" /\ Commit(a)
  <2> DEFINE i == m.sub
             u == [o EXCEPT !.current = i, !.seen = instance]
             v == [u EXCEPT !.phase = "ready"]
  <2>1. i \in 0..MaxSubs /\ "ready" \in Phases
    BY <1>4, <1>6 DEF Phases
  <2>2. Commit(v)
    BY <1>6
  <2> HIDE DEF i
  <2>3. u \in Objects /\ u.conn = o.conn /\ u.out = o.out /\ u.waiting = o.waiting
    BY <1>3, <2>1 DEF Objects
  <2> HIDE DEF u
  <2>4. v \in Objects /\ v.conn = u.conn /\ v.out = u.out /\ v.waiting = u.waiting /\ v.phase = "ready"
    BY <2>1, <2>3 DEF Objects
  <2> HIDE DEF v
  <2>5. Same(o, v)
    BY <2>3, <2>4 DEF Same, Sound
  <2> QED
    BY <1>1, <2>2, <2>5, AnswerStep DEF o
<1>7. CASE m.kind = "page" /\ Commit(b)
  <2> DEFINE i == m.sub
             u == [o EXCEPT !.current = i, !.seen = instance]
             v == [u EXCEPT !.phase = "page", !.page = m, !.view = <<>>]
  <2>1. i \in 0..MaxSubs /\ "page" \in Phases /\ m \in Pages /\ <<>> \in Seq(Nat)
    BY <1>4, <1>7 DEF Phases
  <2>2. Commit(v)
    BY <1>7
  <2> HIDE DEF i
  <2>3. u \in Objects /\ u.conn = o.conn /\ u.out = o.out /\ u.waiting = o.waiting
    BY <1>3, <2>1 DEF Objects
  <2> HIDE DEF u
  <2>4. /\ v \in Objects /\ v.conn = u.conn /\ v.out = u.out /\ v.waiting = u.waiting
        /\ v.page = m
    BY <2>1, <2>3 DEF Objects
  <2> HIDE DEF v
  <2>5. Same(o, v)
    BY <2>1, <2>3, <2>4 DEF Same, Sound
  <2> QED
    BY <1>1, <2>2, <2>5, AnswerStep DEF o
<1>8. CASE Commit(Ask(d, r, w))
  <2>1. <<>> \in Seq(Nat)
    OBVIOUS
  <2>2. /\ d \in Objects /\ d.conn = o.conn /\ d.out = o.out /\ d.waiting = o.waiting
        /\ d.phase = o.phase /\ d.page = o.page
    BY <1>3, <2>1, Nothing DEF Objects
  <2> HIDE DEF d
  <2>3. Same(o, d) /\ Sound(d)
    BY <1>3, <2>2, Follows
  <2>4. Same(d, Ask(d, r, w))
    BY <1>5, <2>3, AskIs
  <2>5. Same(o, Ask(d, r, w))
    BY <2>3, <2>4, SameTrans
  <2> QED
    BY <1>1, <1>8, <2>5, AnswerStep DEF o
<1> QED
    BY <1>2, <1>6, <1>7, <1>8

LEMMA PageReduced ==
    ASSUME IInv, ReducePage
    PROVE  IInv'
<1>1. this.phase = "page" /\ DaemonSame /\ sock' = sock /\ down' = down
    BY DEF ReducePage
<1>2. /\ this \in Objects /\ Sound(this) /\ this.page \in Pages /\ this.view \in Seq(Nat)
      /\ this.caller \in Callers
    BY <1>1, InvFacts DEF Sound, Objects
<1>3. this.conn # 0
    BY <1>1 DEF IInv, ClientInv
<1> DEFINE page == this.page
           v == Reduced(this.view, Span(page.lo, page.hi))
           t == [this EXCEPT !.view = v, !.page = None]
           a == [t EXCEPT !.phase = "boundary"]
           b == [t EXCEPT !.phase = "history"]
           r == [method |-> "history", sub |-> page.sub, offset |-> page.hi]
           w == Waiter("est", None, this.caller)
           boundary == page.boundary
<1>4. Commit(AskAck(a, "est", boundary)) \/ Commit(Ask(b, r, w))
    BY DEF ReducePage
<1>5. /\ page.lo \in Nat /\ page.hi \in Nat /\ boundary \in CursorIds
      /\ page.sub \in 0..MaxSubs
    BY <1>2, Bounds DEF Pages
<1>6. v \in Seq(Nat)
  <2>1. Span(page.lo, page.hi) \in Seq(Nat)
    BY <1>5, SpanIs
  <2> QED
    BY <1>2, <2>1, ReducedIs
<1>7. r \in Requests
    BY <1>5 DEF Requests
<1>8. "boundary" \in Phases /\ "history" \in Phases /\ "est" \in Whos
    BY DEF Phases, Whos
<1>9. w \in Waiters
    BY <1>2, <1>8, Nothing, WaiterIs
<1> HIDE DEF v, r, w, page, boundary
<1>10. t \in Objects /\ t.conn = this.conn /\ t.out = this.out /\ t.waiting = this.waiting
    BY <1>2, <1>6 DEF Objects
<1> HIDE DEF t
<1>11. CASE Commit(AskAck(a, "est", boundary))
  <2>1. a \in Objects /\ a.conn = t.conn /\ a.out = t.out /\ a.waiting = t.waiting /\ a.phase = "boundary"
    BY <1>8, <1>10 DEF Objects
  <2> HIDE DEF a
  <2>2. Same(this, a) /\ Sound(a)
    BY <1>10, <2>1 DEF Same, Sound
  <2>3. Same(a, AskAck(a, "est", boundary))
    BY <1>5, <1>8, <2>2, AskAckIs
  <2>4. Same(this, AskAck(a, "est", boundary))
    BY <2>2, <2>3, SameTrans
  <2> QED
    BY <1>1, <1>3, <1>11, <2>4, OwnStep
<1>12. CASE Commit(Ask(b, r, w))
  <2>1. b \in Objects /\ b.conn = t.conn /\ b.out = t.out /\ b.waiting = t.waiting /\ b.phase = "history"
    BY <1>8, <1>10 DEF Objects
  <2> HIDE DEF b
  <2>2. Same(this, b) /\ Sound(b)
    BY <1>10, <2>1 DEF Same, Sound
  <2>3. Same(b, Ask(b, r, w))
    BY <1>7, <1>9, <2>2, AskIs
  <2>4. Same(this, Ask(b, r, w))
    BY <2>2, <2>3, SameTrans
  <2> QED
    BY <1>1, <1>3, <1>12, <2>4, OwnStep
<1> QED
    BY <1>4, <1>11, <1>12

\* One field changes with the phase, to one without a page.
LEMMA Rephased ==
    ASSUME NEW t, Sound(t), NEW phase \in Phases, phase # "page", NEW ack \in CursorIds
    PROVE  Same(t, [t EXCEPT !.phase = phase, !.ack = ack])
<1> DEFINE u == [t EXCEPT !.phase = phase, !.ack = ack]
<1>1. t \in Objects
    BY DEF Sound
<1>2. u \in Objects /\ u.conn = t.conn /\ u.out = t.out /\ u.waiting = t.waiting /\ u.phase = phase
    BY <1>1 DEF Objects
<1> HIDE DEF u
<1>3. Same(t, u)
    BY <1>2 DEF Same, Sound
<1> QED
    BY <1>3 DEF u

\* The acknowledgement of a request is kept.
LEMMA Acked ==
    ASSUME NEW t, Sound(t), NEW ack \in CursorIds
    PROVE  Same(t, [t EXCEPT !.ack = ack]) /\ Sound([t EXCEPT !.ack = ack])
<1> DEFINE u == [t EXCEPT !.ack = ack]
<1>1. t \in Objects
    BY DEF Sound
<1>2. /\ u \in Objects /\ u.conn = t.conn /\ u.out = t.out /\ u.waiting = t.waiting
      /\ u.phase = t.phase /\ u.page = t.page
    BY <1>1 DEF Objects
<1> HIDE DEF u
<1>3. Same(t, u) /\ Sound(u)
    BY <1>2, Follows
<1> QED
    BY <1>3 DEF u

LEMMA HeadCursor ==
    ASSUME IInv, NEW who, Answer(who)
    PROVE  Head(this.waiting).cursor \in CursorIds /\ Head(this.waiting).caller \in Callers
BY AnswerIs DEF Waiters

LEMMA PageReceived ==
    ASSUME IInv, PageAnswered
    PROVE  IInv'
<1> DEFINE o == Answered
           m == Message
           a == [o EXCEPT !.phase = "page", !.page = m]
<1>1. Answer("est") /\ ((m.kind = "page" /\ Commit(a)) \/ Commit(LoadingFailed(o)))
    BY DEF PageAnswered
<1>2. m \in Replies /\ Sound(o) /\ o \in Objects
    BY <1>1, AnswerIs DEF Sound
<1> HIDE DEF o, m
<1>3. CASE m.kind = "page" /\ Commit(a)
  <2>1. m \in Pages /\ "page" \in Phases
    BY <1>2, <1>3, Kinds DEF Phases
  <2>2. a \in Objects /\ a.conn = o.conn /\ a.out = o.out /\ a.waiting = o.waiting /\ a.page = m
    BY <1>2, <2>1 DEF Objects
  <2> HIDE DEF a
  <2>3. Same(o, a)
    BY <2>1, <2>2 DEF Same, Sound
  <2> QED
    BY <1>1, <1>3, <2>3, AnswerStep DEF o
<1>4. CASE Commit(LoadingFailed(o))
  <2>1. Same(o, LoadingFailed(o))
    BY <1>2, LoadingFailedIs
  <2> QED
    BY <1>1, <1>4, <2>1, AnswerStep DEF o
<1> QED
    BY <1>1, <1>3, <1>4

LEMMA BoundaryReceived ==
    ASSUME IInv, BoundaryAnswered
    PROVE  IInv'
<1> DEFINE o == Answered
           k == Head(this.waiting).cursor
           a == [o EXCEPT !.phase = "ready", !.ack = k]
<1>1. Answer("est") /\ (Commit(a) \/ Commit(LoadingFailed(o)))
    BY DEF BoundaryAnswered
<1>2. Sound(o) /\ k \in CursorIds /\ "ready" \in Phases
    BY <1>1, AnswerIs, HeadCursor DEF Phases
<1> HIDE DEF o, k
<1>3. CASE Commit(a)
  <2>1. Same(o, a)
    BY <1>2, Rephased
  <2> HIDE DEF a
  <2> QED
    BY <1>1, <1>3, <2>1, AnswerStep DEF o
<1>4. CASE Commit(LoadingFailed(o))
  <2>1. Same(o, LoadingFailed(o))
    BY <1>2, LoadingFailedIs
  <2> QED
    BY <1>1, <1>4, <2>1, AnswerStep DEF o
<1> QED
    BY <1>1, <1>3, <1>4

LEMMA LoadingFinished ==
    ASSUME IInv, FinishLoading
    PROVE  IInv'
<1> DEFINE a == [this EXCEPT !.bound = TRUE]
<1>1. this.phase = "ready" /\ Commit(Drained(a)) /\ DaemonSame /\ sock' = sock /\ down' = down
    BY DEF FinishLoading
<1>2. this.conn # 0
    BY <1>1 DEF IInv, ClientInv
<1>3. this \in Objects /\ Sound(this) /\ TRUE \in BOOLEAN
    BY InvFacts
<1>4. /\ a \in Objects /\ a.conn = this.conn /\ a.out = this.out /\ a.waiting = this.waiting
      /\ a.phase = this.phase /\ a.page = this.page
    BY <1>3 DEF Objects
<1> HIDE DEF a
<1>5. Same(this, a) /\ Sound(a)
    BY <1>3, <1>4, Follows
<1>6. Same(a, Drained(a))
    BY <1>5, DrainedIs
<1>7. Same(this, Drained(a))
    BY <1>5, <1>6, SameTrans
<1> QED
    BY <1>1, <1>2, <1>7, OwnStep

LEMMA DrainReceived ==
    ASSUME IInv, DrainAnswered
    PROVE  IInv'
<1> DEFINE o == Answered
           k == Head(this.waiting).cursor
           a == [o EXCEPT !.ack = k]
<1>1. Answer("est") /\ (Commit(Drained(a)) \/ Commit(LoadingFailed(o)))
    BY DEF DrainAnswered
<1>2. Sound(o) /\ k \in CursorIds
    BY <1>1, AnswerIs, HeadCursor
<1> HIDE DEF o, k
<1>3. CASE Commit(Drained(a))
  <2>1. Same(o, a) /\ Sound(a)
    BY <1>2, Acked
  <2> HIDE DEF a
  <2>2. Same(a, Drained(a))
    BY <2>1, DrainedIs
  <2>3. Same(o, Drained(a))
    BY <2>1, <2>2, SameTrans
  <2> QED
    BY <1>1, <1>3, <2>3, AnswerStep DEF o
<1>4. CASE Commit(LoadingFailed(o))
  <2>1. Same(o, LoadingFailed(o))
    BY <1>2, LoadingFailedIs
  <2> QED
    BY <1>1, <1>4, <2>1, AnswerStep DEF o
<1> QED
    BY <1>1, <1>3, <1>4

LEMMA ChainReceived ==
    ASSUME IInv, ChainAnswered
    PROVE  IInv'
<1> DEFINE o == Answered
           k == Head(this.waiting).cursor
           q == this.chain
           a == [o EXCEPT !.ack = k]
<1>1. Answer("chain") /\ (Commit(Applied(a, q)) \/ Commit(Applied(o, q)) \/ Commit(Recovered(o, TRUE)))
  <2>1. CASE Recovering(this)
    BY <2>1 DEF ChainAnswered
  <2>2. CASE ~Recovering(this)
    BY <2>2 DEF ChainAnswered
  <2> QED
    BY <2>1, <2>2
<1>2. Sound(o) /\ k \in CursorIds /\ q \in Seq(Events) /\ TRUE \in BOOLEAN
    BY <1>1, AnswerIs, HeadCursor, InvFacts DEF Objects
<1> HIDE DEF o, k, q
<1>3. CASE Commit(Applied(a, q))
  <2>1. Same(o, a) /\ Sound(a)
    BY <1>2, Acked
  <2> HIDE DEF a
  <2>2. Same(a, Applied(a, q))
    BY <1>2, <2>1, AppliedIs
  <2>3. Same(o, Applied(a, q))
    BY <2>1, <2>2, SameTrans
  <2> QED
    BY <1>1, <1>3, <2>3, AnswerStep DEF o
<1>4. CASE Commit(Applied(o, q))
  <2>1. Same(o, Applied(o, q))
    BY <1>2, AppliedIs
  <2> QED
    BY <1>1, <1>4, <2>1, AnswerStep DEF o
<1>5. CASE Commit(Recovered(o, TRUE))
  <2>1. Same(o, Recovered(o, TRUE))
    BY <1>2, RecoveredIs
  <2> QED
    BY <1>1, <1>5, <2>1, AnswerStep DEF o
<1> QED
    BY <1>1, <1>3, <1>4, <1>5

LEMMA CleanupReceived ==
    ASSUME IInv, CleanupAnswered
    PROVE  IInv'
<1> DEFINE o == Answered
           a == [o EXCEPT !.view = <<>>, !.ack = None]
           k == this.caller
<1>1. Answer("est") /\ (Commit(Establish(a, k, TRUE)) \/ Commit(Rejected(o, k)))
  <2>1. CASE this.force
    BY <2>1 DEF CleanupAnswered
  <2>2. CASE ~this.force
    BY <2>2 DEF CleanupAnswered
  <2> QED
    BY <2>1, <2>2
<1>2. Sound(o) /\ o \in Objects /\ o.out = <<>> /\ k \in Callers /\ TRUE \in BOOLEAN /\ <<>> \in Seq(Nat)
  <2>1. Sound(o) /\ o.out = <<>>
    BY <1>1, AnswerIs
  <2>2. o \in Objects /\ k \in Callers
    BY <1>1, AnsweredFields
  <2> QED
    BY <2>1, <2>2
<1> HIDE DEF o, k
<1>3. CASE Commit(Establish(a, k, TRUE))
  <2>1. /\ a \in Objects /\ a.conn = o.conn /\ a.out = o.out /\ a.waiting = o.waiting
        /\ a.phase = o.phase /\ a.page = o.page
    BY <1>2, Nothing DEF Objects
  <2> HIDE DEF a
  <2>2. Same(o, a) /\ Sound(a)
    BY <1>2, <2>1, Follows
  <2>3. Same(a, Establish(a, k, TRUE))
    BY <1>2, <2>2, EstablishIs
  <2>4. Same(o, Establish(a, k, TRUE))
    BY <2>2, <2>3, SameTrans
  <2> QED
    BY <1>1, <1>3, <2>4, AnswerStep DEF o
<1>4. CASE Commit(Rejected(o, k))
  <2>1. Same(o, Rejected(o, k))
    BY <1>2, RejectedIs
  <2> QED
    BY <1>1, <1>4, <2>1, AnswerStep DEF o
<1> QED
    BY <1>1, <1>3, <1>4

LEMMA LeaveReceived ==
    ASSUME IInv, LeaveAnswered
    PROVE  IInv'
<1> DEFINE o == Answered
           b == this.force
<1>1. Answer("est") /\ Commit(Establish(o, "recovery", b))
    BY DEF LeaveAnswered
<1>2. Sound(o) /\ b \in BOOLEAN /\ "recovery" \in Callers
    BY <1>1, AnswerIs, AnsweredFields DEF Callers
<1> HIDE DEF o, b
<1>3. Same(o, Establish(o, "recovery", b))
    BY <1>2, EstablishIs
<1> QED
    BY <1>1, <1>3, AnswerStep DEF o

LEMMA OldReceived ==
    ASSUME IInv, SupersededAnswered
    PROVE  IInv'
<1> DEFINE o == Answered
           k == Head(this.waiting).caller
           r == [method |-> "unsubscribe", sub |-> this.current]
           w == Waiter("old", None, k)
           v == Ask(o, r, w)
           a == [v EXCEPT !.current = 0]
           b == [o EXCEPT !.started = FALSE]
<1>1. Answer("old") /\ (Commit(o) \/ Commit(a) \/ Commit(b) \/ Commit(Rejected(o, k)))
  <2>1. CASE k = "start"
    BY <2>1 DEF SupersededAnswered
  <2>2. CASE k # "start"
    BY <2>2 DEF SupersededAnswered
  <2> QED
    BY <2>1, <2>2
<1>2. Sound(o) /\ o \in Objects /\ o.out = <<>> /\ k \in Callers /\ this.current \in 0..MaxSubs
    BY <1>1, AnswerIs, HeadCursor, InvFacts DEF Sound, Objects
<1>3. r \in Requests /\ w \in Waiters
  <2>1. "old" \in Whos
    BY DEF Whos
  <2>2. w \in Waiters
    BY <1>2, <2>1, Nothing, WaiterIs
  <2>3. r \in Requests
    BY <1>2 DEF Requests
  <2> QED
    BY <2>2, <2>3
<1> HIDE DEF o, k, r, w
<1>4. CASE Commit(o)
  <2>1. Same(o, o)
    BY <1>2 DEF Same
  <2> QED
    BY <1>1, <1>4, <2>1, AnswerStep DEF o
<1>5. CASE Commit(a)
  <2>1. Same(o, v)
    BY <1>2, <1>3, AskIs
  <2>2. v \in Objects /\ Sound(v) /\ 0 \in 0..MaxSubs
    BY <2>1, Bounds DEF Same, Sound
  <2> HIDE DEF v
  <2>3. /\ a \in Objects /\ a.conn = v.conn /\ a.out = v.out /\ a.waiting = v.waiting
        /\ a.phase = v.phase /\ a.page = v.page
    BY <2>2 DEF Objects
  <2> HIDE DEF a
  <2>4. Same(v, a)
    BY <2>2, <2>3, Follows
  <2>5. Same(o, a)
    BY <2>1, <2>4, SameTrans
  <2> QED
    BY <1>1, <1>5, <2>5, AnswerStep DEF o
<1>6. CASE Commit(b)
  <2>1. /\ b \in Objects /\ b.conn = o.conn /\ b.out = o.out /\ b.waiting = o.waiting
        /\ b.phase = o.phase /\ b.page = o.page
    BY <1>2 DEF Objects
  <2> HIDE DEF b
  <2>2. Same(o, b)
    BY <1>2, <2>1, Follows
  <2> QED
    BY <1>1, <1>6, <2>2, AnswerStep DEF o
<1>7. CASE Commit(Rejected(o, k))
  <2>1. Same(o, Rejected(o, k))
    BY <1>2, RejectedIs
  <2> QED
    BY <1>1, <1>7, <2>1, AnswerStep DEF o
<1> QED
    BY <1>1, <1>4, <1>5, <1>6, <1>7

LEMMA StaleReceived ==
    ASSUME IInv, StaleAnswered
    PROVE  IInv'
<1>1. Answer("stale") /\ Commit(Answered)
    BY DEF StaleAnswered
<1>2. Same(Answered, Answered)
    BY <1>1, AnswerIs DEF Same
<1> QED
    BY <1>1, <1>2, AnswerStep

LEMMA ClientStepKeeps ==
    ASSUME IInv, ClientStep
    PROVE  IInv'
BY EventReceived, Subscribed, PageReduced, PageReceived, BoundaryReceived, LoadingFinished,
   DrainReceived, ChainReceived, CleanupReceived, LeaveReceived, OldReceived, StaleReceived
   DEF ClientStep

\* An object without a connection gets one.
LEMMA Seated ==
    ASSUME NEW t, Sound(t), t.waiting = <<>>, t.out = <<>>, NEW c \in Conns
    PROVE  /\ Sound([t EXCEPT !.conn = c]) /\ [t EXCEPT !.conn = c].conn = c
           /\ [t EXCEPT !.conn = c].waiting = <<>> /\ [t EXCEPT !.conn = c].out = <<>>
<1> DEFINE u == [t EXCEPT !.conn = c]
<1>1. t \in Objects /\ c \in 0..MaxConns
    BY Bounds DEF Sound, Conns
<1>2. /\ u \in Objects /\ u.conn = c /\ u.out = t.out /\ u.waiting = t.waiting
      /\ u.phase = t.phase /\ u.page = t.page
    BY <1>1 DEF Objects
<1> HIDE DEF u
<1> QED
    BY <1>2 DEF u, Sound

\* The view is loaded on a new connection, or not.
LEMMA OpenedWith ==
    ASSUME IInv, NEW c \in Conns, Open(c), NEW t, Sound(t), t.conn = c, t.waiting = <<>>, t.out = <<>>,
           NEW caller \in Callers, Commit(t) \/ Commit(Establish(t, caller, FALSE))
    PROVE  IInv'
<1>1. CASE Commit(t)
    BY <1>1, OpenStep
<1>2. CASE Commit(Establish(t, caller, FALSE))
  <2> DEFINE u == Establish(t, caller, FALSE)
  <2>1. Same(t, u)
    BY EstablishIs
  <2> HIDE DEF u
  <2>2. Sound(u) /\ u.conn = c /\ Len(u.waiting) - Len(u.out) = 0
    BY <2>1 DEF Same
  <2> QED
    BY <1>2, <2>2, OpenStep DEF u
<1> QED
    BY <1>1, <1>2

LEMMA Connected ==
    ASSUME IInv, NEW c \in Conns, Connect(c) \/ ReconnectClient(c) \/ RebindView(c)
    PROVE  IInv'
<1>0. Open(c) /\ this.conn = 0
    BY DEF Connect, ReconnectClient, RebindView, Open
<1>1. Sound(this) /\ this.out = <<>> /\ this.waiting = <<>>
    BY <1>0, InvFacts DEF IInv, Balanced
<1> DEFINE n == [Blank EXCEPT !.conn = c]
           t == [this EXCEPT !.conn = c]
           z == [t EXCEPT !.tried = FALSE]
<1>2. \/ Commit(n)
      \/ Commit(Establish(t, "reconnect", FALSE)) \/ Commit(z)
      \/ Commit(Establish(t, "candidate", FALSE))
    BY DEF Connect, ReconnectClient, RebindView
<1>3. Sound(n) /\ n.conn = c /\ n.waiting = <<>> /\ n.out = <<>>
    BY BlankIs, Seated
<1>4. Sound(t) /\ t.conn = c /\ t.waiting = <<>> /\ t.out = <<>>
    BY <1>1, Seated
<1>5. Sound(z) /\ z.conn = c /\ z.waiting = <<>> /\ z.out = <<>>
  <2> HIDE DEF t
  <2>1. t \in Objects /\ FALSE \in BOOLEAN
    BY <1>4 DEF Sound
  <2>2. /\ z \in Objects /\ z.conn = t.conn /\ z.out = t.out /\ z.waiting = t.waiting
        /\ z.phase = t.phase /\ z.page = t.page
    BY <2>1 DEF Objects
  <2> HIDE DEF z
  <2> QED
    BY <1>4, <2>2 DEF Sound
<1>6. "reconnect" \in Callers /\ "candidate" \in Callers
    BY DEF Callers
<1> HIDE DEF n, t, z
<1> QED
    BY <1>0, <1>2, <1>3, <1>4, <1>5, <1>6, OpenedWith

LEMMA Started ==
    ASSUME IInv, Start
    PROVE  IInv'
<1> DEFINE c == this.conn
           t == [Blank EXCEPT !.conn = c, !.started = TRUE]
<1>1. c # 0 /\ this.waiting = <<>> /\ Commit(Establish(t, "start", FALSE))
      /\ DaemonSame /\ sock' = sock /\ down' = down
    BY DEF Start
<1>2. c \in 0..MaxConns /\ this.out = <<>>
    BY InvFacts
<1> HIDE DEF c
<1>3. Blank \in Objects /\ Blank.waiting = <<>> /\ Blank.out = <<>> /\ Blank.phase = "idle"
    BY BlankIs DEF Sound, Blank
<1>4. TRUE \in BOOLEAN /\ FALSE \in BOOLEAN /\ "start" \in Callers
    BY DEF Callers
<1>5. t \in Objects /\ t.conn = c /\ t.out = <<>> /\ t.waiting = <<>> /\ t.phase = "idle"
    BY <1>2, <1>3, <1>4 DEF Objects
<1> HIDE DEF t
<1>6. Same(this, t) /\ Sound(t)
    BY <1>1, <1>2, <1>5 DEF Same, Sound, c
<1>7. Same(t, Establish(t, "start", FALSE))
    BY <1>4, <1>6, EstablishIs
<1>8. Same(this, Establish(t, "start", FALSE))
    BY <1>6, <1>7, SameTrans
<1> QED
    BY <1>1, <1>8, OwnStep DEF c

LEMMA Closed ==
    ASSUME IInv, CloseView
    PROVE  IInv'
<1> DEFINE v == AskUnsubscribe(this, "stale")
           t == [v EXCEPT !.started = FALSE, !.hook = FALSE, !.bound = FALSE, !.view = <<>>,
                          !.ack = None]
<1>1. this.conn # 0 /\ Commit(t) /\ DaemonSame /\ sock' = sock /\ down' = down
    BY DEF CloseView
<1>2. Same(this, v)
  <2>1. "stale" \in Whos /\ Sound(this)
    BY InvFacts DEF Whos
  <2> QED
    BY <2>1, AskUnsubscribeIs
<1> HIDE DEF v
<1>3. v \in Objects /\ Sound(v) /\ FALSE \in BOOLEAN /\ <<>> \in Seq(Nat)
    BY <1>2 DEF Same, Sound
<1>4. /\ t \in Objects /\ t.conn = v.conn /\ t.out = v.out /\ t.waiting = v.waiting
      /\ t.phase = v.phase /\ t.page = v.page
    BY <1>3, Nothing DEF Objects
<1> HIDE DEF t
<1>5. Same(v, t)
    BY <1>3, <1>4, Follows
<1>6. Same(this, t)
    BY <1>2, <1>5, SameTrans
<1> QED
    BY <1>1, <1>6, OwnStep

LEMMA OpenFailed ==
    ASSUME IInv, OpenFails
    PROVE  IInv'
<1> DEFINE t == [this EXCEPT !.tried = TRUE]
<1>1. /\ this.conn = 0 /\ this' = t /\ log' = log /\ instance' = instance /\ sock' = sock
      /\ up' = up /\ down' = down /\ subs' = subs /\ cursors' = cursors
    BY DEF OpenFails, daemonVars
<1>2. this \in Objects /\ Sound(this) /\ this.out = <<>> /\ TRUE \in BOOLEAN
    BY InvFacts
<1>3. this.waiting = <<>> /\ this.phase = "idle"
    BY <1>1 DEF IInv, Balanced, ClientInv
<1>4. t \in Objects /\ t.conn = 0 /\ t.out = <<>> /\ t.waiting = <<>> /\ t.phase = "idle"
    BY <1>1, <1>2, <1>3 DEF Objects
<1> HIDE DEF t
<1>5. Sound(t)
    BY <1>4 DEF Sound
<1>6. Sizes' /\ SubsInv' /\ TableInv'
    BY <1>1, InvFacts DEF Sizes, SubsInv, TableInv
<1>7. /\ sock' \in [Conns -> {"new", "open", "closing", "closed"}]
      /\ up' \in [Conns -> Seq(Requests)] /\ down' \in [Conns -> Seq(Messages)]
    BY <1>1, InvFacts
<1>8. \A d \in Conns : sock'[d] = "new" => up'[d] = <<>> /\ down'[d] = <<>>
    BY <1>1 DEF IInv, Balanced
<1> QED
    BY <1>1, <1>4, <1>5, <1>6, <1>7, <1>8, LostStep

-----------------------------------------------------------------------------
(* The invariant, and the properties it implies.                           *)

LEMMA InitInv ==
    ASSUME Init
    PROVE  IInv
<1>1. /\ log = 0 /\ instance = 1 /\ sock = [c \in Conns |-> "new"] /\ up = [c \in Conns |-> <<>>]
      /\ down = [c \in Conns |-> <<>>] /\ subs = <<>> /\ cursors = <<>> /\ this = Blank
    BY DEF Init, DaemonInit
<1>2. Sizes
    BY <1>1, Bounds DEF Sizes
<1>3. SubsInv
    BY <1>1, Bounds DEF SubsInv
<1>4. TableInv
    BY <1>1, Bounds DEF TableInv
<1>5. Channels
  <2>1. <<>> \in Seq(Requests) /\ <<>> \in Seq(Messages)
    OBVIOUS
  <2> QED
    BY <1>1, <2>1 DEF Channels
<1>6. ClientInv
    BY <1>1, BlankIs DEF ClientInv, Blank
<1>7. Balanced
    BY <1>1, BlankIs DEF Balanced
<1> QED
    BY <1>2, <1>3, <1>4, <1>5, <1>6, <1>7 DEF IInv, DaemonInv

LEMMA NextInv ==
    ASSUME IInv, [Next]_vars
    PROVE  IInv'
<1>1. CASE DaemonAppends
    BY <1>1, AppendStep
<1>2. CASE DaemonServes
    BY <1>2, ServeStep DEF DaemonServes
<1>3. CASE DaemonExpires
    BY <1>3, ExpireStep
<1>4. CASE DaemonCleansUp
    BY <1>4, CleanupStep DEF DaemonCleansUp
<1>5. CASE ClientStep
    BY <1>5, ClientStepKeeps
<1>6. CASE \E c \in Conns : Connect(c) \/ ReconnectClient(c) \/ RebindView(c)
    BY <1>6, Connected
<1>7. CASE Start
    BY <1>7, Started
<1>8. CASE OpenFails
    BY <1>8, OpenFailed
<1>9. CASE CloseView
    BY <1>9, Closed
<1>10. CASE LoseConnection
    BY <1>10, LoseStep
<1>11. CASE RestartDaemon
    BY <1>11, RestartStep
<1>12. CASE UNCHANGED vars
  <2>1. /\ log' = log /\ instance' = instance /\ sock' = sock /\ up' = up /\ down' = down
        /\ subs' = subs /\ cursors' = cursors /\ this' = this
    BY <1>12 DEF vars, daemonVars
  <2> QED
    BY <2>1 DEF IInv, DaemonInv, Sizes, SubsInv, TableInv, Channels, ClientInv, Sound, Balanced
<1> QED
    BY <1>1, <1>2, <1>3, <1>4, <1>5, <1>6, <1>7, <1>8, <1>9, <1>10, <1>11, <1>12 DEF Next

-----------------------------------------------------------------------------
(* What the client and the daemon know of each other.                      *)

\* Delivery number n of a subscription whose snapshot ends at position b (deliverEvent).
Note(i, b, n) == [kind |-> "event", sub |-> i, seq |-> n, cursor |-> <<i, b + n>>, pos |-> b + n]

\* The deliveries after number lo up to number hi.
Sent(i, b, lo, hi) == [k \in 1..(hi - lo) |-> Note(i, b, lo + k)]

\* Two sequences in a row: a name that the provers can match.
Cat(s, t) == s \o t

\* The events of one subscription, and those of them that a sequence of messages carries.
Happening(i) == {m \in Events : m.sub = i}
Of(q, i) == Only(q, Happening(i))

\* A subscription, at its state.
Enlisted(s, i) ==
    /\ s.state = "loading" => s.boundary = <<i, s.base>>
    /\ s.state # "active" => s.seq = 0 /\ s.ackPos = -1
    /\ s.state = "active" => s.ackPos >= s.base /\ (s.boundary = None \/ s.boundary[2] <= s.ackPos)

Roster == \A i \in 1..Len(subs) :
             /\ Enlisted(subs[i], i)
             /\ subs[i].conn # 0 => sock[subs[i].conn] \in {"open", "closing"}

\* A cursor that may have been created so far: while a subscription loads, only its boundary.
Issued(id) ==
    /\ id # None /\ id[1] \in 1..Len(subs) /\ id[2] \in 0..log
    /\ subs[id[1]].state = "loading" => id[2] = subs[id[1]].base

Unknown(id) == ~HasCursor(id)

Named == {r \in Held(log, Len(subs)) :
            /\ Issued(r.id) /\ r.pos = r.id[2]
            /\ subs[r.sub].state = "loading" => r.id[1] = r.sub}

Distinct(table) == \A a, b \in 1..Len(table) : a < b => table[a].id # table[b].id

Table == cursors \in Seq(Named) /\ Distinct(cursors)

\* A request to resume behind a cursor is about a subscription of an earlier connection.
Requested ==
    \A d \in Conns : \A k \in 1..Len(up[d]) :
        up[d][k].method = "subscribe" /\ up[d][k].after # None =>
            /\ up[d][k].after[1] \in 1..Len(subs)
            /\ d # this.conn /\ this.conn # 0 => subs[up[d][k].after[1]].conn # this.conn

\* Behind the record of the cursor `ack`, and behind older records of subscription i, the table
\* has every cursor of i from position lo + 1 to hi: they are evicted in this order.
Ordered(table, i, ack, lo, hi) ==
    \A a \in 1..Len(table) : \A p \in (lo + 1)..hi :
        (table[a].id = ack \/ (table[a].id[1] = i /\ table[a].pos < p))
        => \E b \in (a + 1)..Len(table) : table[b].id = <<i, p>> /\ table[b].sub = i

Orderly(i, ack) ==
    subs[i].state = "active" => Ordered(cursors, i, ack, subs[i].ackPos, log)

-----------------------------------------------------------------------------
(* The promises of the client.                                             *)

Est(w) == w.who = "est"
Late(w) == w.who = "old" /\ w.cursor = None
Acking(t, w) == w.who = "chain" \/ (Est(w) /\ t.phase \in {"boundary", "drain"})

Reading == {"page", "history", "boundary", "ready"}
Awaiting == {"subscribe", "history", "boundary", "drain", "cleanup", "leaving"}
Joined(t) == t.phase \in Reading \/ t.bound

Placed(t) ==
    /\ t.bound => t.phase \in {"drain", "idle"}
    /\ t.phase = "drain" => t.bound
    /\ t.phase = "subscribe" => t.seq = 0 /\ ~t.missed
    /\ t.phase \in Reading => ~t.missed
    /\ t.conn = 0 => ~t.bound /\ t.phase = "idle"
    /\ t.chain # <<>> => t.bound /\ ChainBusy(t)

\* A waiter at place k of the queue.
Lined(t, k) ==
    LET w == t.waiting[k]
    IN /\ Est(w) => t.phase \in Awaiting /\ w.caller = t.caller
       /\ Est(w) => \A j \in (k + 1)..Len(t.waiting) : ~Est(t.waiting[j])
       /\ w.who = "chain" => t.bound
       /\ w.who = "old" => w.caller # "recovery"
       /\ Joined(t) => w.who \in {"est", "chain"}
       /\ t.phase = "subscribe" => (Est(w) /\ k = Len(t.waiting)) \/ Late(w)
       /\ t.phase \in {"leaving", "cleanup"} /\ Est(w)
          => \A j \in (k + 1)..Len(t.waiting) : Late(t.waiting[j])

\* An acknowledgement is for an event of the subscription that the view shows.
Waits(t, k) ==
    LET q == t.waiting[k].cursor
    IN Acking(t, t.waiting[k]) =>
          /\ Issued(q) /\ q[1] = t.current
          /\ q[2] <= subs[t.current].base + t.seq /\ q[2] <= Len(t.view)
          /\ \A j \in 1..(k - 1) : Acking(t, t.waiting[j]) => t.waiting[j].cursor[2] < q[2]

\* A subscription of this connection whose events are all still to be handled.
Begun(t, dq, i) ==
    /\ i \in 1..Len(subs) /\ subs[i].conn = t.conn /\ Orderly(i, t.ack)
    /\ subs[i].state = "active" => subs[i].ackPos <= subs[i].base
    /\ Of(t.pending \o dq, i) = Sent(i, subs[i].base, 0, subs[i].seq)

\* The requests and answers that end a promise without more.
Ends == {Success} \cup Errors \cup [method : {"ack"}, sub : 0..MaxSubs, cursor : CursorIds]
        \cup [method : {"unsubscribe"}, sub : 0..MaxSubs]

\* The acknowledged cursor is gone, and so are all before the cursor that was refused.
Lapsed(t, w) ==
    Unknown(t.ack) /\ \A p \in 0..(w.cursor[2] - 1) : Unknown(<<t.current, p>>)

AckMatched(t, w, m) ==
    LET i == t.current
    IN \/ /\ m = [method |-> "ack", sub |-> i, cursor |-> w.cursor]
          /\ subs[i].ackPos < w.cursor[2]
       \/ m = Success /\ subs[i].state = "active" /\ w.cursor[2] <= subs[i].ackPos
       \/ m \in Errors /\ (w.who = "chain" => Lapsed(t, w))

SubscribeMatched(t, m, dq) ==
    \/ m = [method |-> "subscribe", after |-> t.cursor]
    \/ m \in Errors /\ t.cursor # None
    \/ /\ m \in Replies /\ m.kind = "resumed" /\ Begun(t, dq, m.sub)
       /\ t.cursor # None /\ subs[m.sub].state = "active" /\ subs[m.sub].base <= Len(t.view)
    \/ /\ m \in Replies /\ m.kind = "page" /\ Begun(t, dq, m.sub)
       /\ t.cursor = None /\ m = Page(m.sub, 0, subs[m.sub].base) /\ subs[m.sub].state # "active"

HistoryMatched(t, m) ==
    LET i == t.current
        n == Len(t.view)
    IN \/ m = [method |-> "history", sub |-> i, offset |-> n]
       \/ m \in Errors
       \/ m = Page(i, n, subs[i].base)

\* The request of a waiter or its answer.
Matched(t, w, m, dq) ==
    /\ Acking(t, w) => AckMatched(t, w, m)
    /\ Est(w) /\ t.phase = "subscribe" => SubscribeMatched(t, m, dq)
    /\ Est(w) /\ t.phase = "history" => HistoryMatched(t, m)
    /\ w.who \in {"old", "stale"} \/ (Est(w) /\ t.phase \in {"leaving", "cleanup"}) => m \in Ends

Talk(dq, uq) == Only(dq, Replies) \o uq

Conversing(t, dq, uq) ==
    t.phase # "failed" =>
        \A k \in 1..Len(t.waiting) :
            Lined(t, k) /\ Waits(t, k) /\ Matched(t, t.waiting[k], Talk(dq, uq)[k], dq)

-----------------------------------------------------------------------------
(* The view.                                                               *)

\* What a bound view has not handled yet: all of it, unless a failed delivery was missed.
Tracked(t, dq) ==
    LET i == t.current
        b == subs[i].base
        s == subs[i].seq
    IN \E p, r \in Nat :
          /\ t.seq <= p /\ p <= r /\ r <= s
          /\ Of(t.pending, i) = Sent(i, b, t.seq, p)
          /\ t.chain \o Of(dq, i) = Sent(i, b, r, s)
          /\ t.missed <=> p < r
          /\ ChainBusy(t) => p = t.seq /\ r = p

Following(t, dq) ==
    LET i == t.current
    IN /\ i \in 1..Len(subs) /\ subs[i].conn = t.conn /\ Orderly(i, t.ack)
       /\ subs[i].state = "active" /\ t.seq <= subs[i].seq
       /\ subs[i].ackPos <= subs[i].base + t.seq /\ subs[i].base + t.seq <= Len(t.view)
       /\ Tracked(t, dq)
       /\ t.phase = "idle" => t.pending = <<>>

Reads1(t) ==
    LET i == t.current
        b == subs[i].base
        n == Len(t.view)
    IN /\ t.phase = "page" => t.page = Page(i, n, b) /\ n <= b
       /\ t.phase = "history" => n < b
       /\ t.phase \in {"page", "history"} => subs[i].state # "active"
       /\ t.phase = "boundary" => n = b
       /\ t.phase = "ready" => subs[i].state = "active" /\ b <= n

\* Messages of subscriptions that exist.
Recent(q) == \A k \in 1..Len(q) : q[k].kind = "event" => q[k].sub <= Len(subs)

Streaming(t, dq) ==
    /\ Recent(t.pending) /\ Recent(dq)
    /\ t.phase \in Reading => t.seq = 0 /\ Begun(t, dq, t.current) /\ Reads1(t)
    /\ t.bound => Following(t, dq)

AckSafe(t) ==
    /\ t.ack # None => Issued(t.ack) /\ (t.ack[2] <= Len(t.view) \/ Unknown(t.ack))
    /\ t.phase = "subscribe" =>
          IF t.cursor = None THEN t.ack = None \/ Unknown(t.ack) \/ t.ack[2] = 0
          ELSE t.cursor = t.ack
    /\ t.phase = "leaving" /\ t.force => Unknown(t.ack)

Showing(t) == t.view = Span(1, Len(t.view)) /\ Len(t.view) <= log

Good(t, dq, uq) ==
    Placed(t) /\ Conversing(t, dq, uq) /\ Streaming(t, dq) /\ AckSafe(t) /\ Showing(t)

Coming(c) == IF c = 0 THEN <<>> ELSE down[c]
Going(c) == IF c = 0 THEN <<>> ELSE up[c]

Stream == /\ Roster /\ Table /\ Requested
          /\ Good(this, Coming(this.conn), Going(this.conn))

-----------------------------------------------------------------------------
(* Deliveries in a row.                                                    *)

\* A delivery is an event of its subscription.
LEMMA NoteIs ==
    ASSUME NEW i \in 1..MaxSubs, NEW b \in Nat, NEW n \in Nat, b + n <= MaxEvents
    PROVE  Note(i, b, n) \in Happening(i) /\ <<i, b + n>> \in CursorIds
<1>1. i \in 1..MaxSubs /\ n \in Nat /\ b + n \in 0..MaxEvents /\ b + n \in Nat
    BY Bounds
<1>2. <<i, b + n>> \in CursorIds
    BY <1>1 DEF CursorIds
<1>3. Note(i, b, n) \in Events
    BY <1>1, <1>2 DEF Events, Note
<1>4. Note(i, b, n).sub = i
    BY DEF Note
<1> QED
    BY <1>2, <1>3, <1>4 DEF Happening

\* Two sequences with the same elements are the same.
LEMMA SeqSame ==
    ASSUME NEW S, NEW T, NEW s \in Seq(S), NEW t \in Seq(T), Len(s) = Len(t),
           \A k \in 1..Len(s) : s[k] = t[k]
    PROVE  s = t
    OBVIOUS

\* A sequence behind another one.
LEMMA ConcatIs ==
    ASSUME NEW S, NEW s \in Seq(S), NEW t \in Seq(S)
    PROVE  /\ s \o t \in Seq(S) /\ Len(s \o t) = Len(s) + Len(t)
           /\ Len(s) \in Nat /\ Len(t) \in Nat
           /\ \A k \in 1..Len(s) : (s \o t)[k] = s[k]
           /\ \A k \in 1..Len(t) : (s \o t)[Len(s) + k] = t[k]
           /\ s \o <<>> = s /\ <<>> \o s = s
    OBVIOUS

LEMMA ConcatTwice ==
    ASSUME NEW S, NEW s \in Seq(S), NEW t \in Seq(S), NEW u \in Seq(S)
    PROVE  s \o t \in Seq(S) /\ t \o u \in Seq(S) /\ s \o (t \o u) = (s \o t) \o u
    OBVIOUS

\* The deliveries are as many as they are numbered.
LEMMA SentIs ==
    ASSUME NEW i \in 1..MaxSubs, NEW b \in Nat, NEW lo \in Nat, NEW hi \in Nat, lo <= hi,
           b + hi <= MaxEvents
    PROVE  /\ Sent(i, b, lo, hi) \in Seq(Happening(i)) /\ Len(Sent(i, b, lo, hi)) = hi - lo
           /\ Sent(i, b, lo, hi) \in Seq(Events) /\ Sent(i, b, lo, hi) \in Seq(Messages)
           /\ \A k \in 1..(hi - lo) : Sent(i, b, lo, hi)[k] = Note(i, b, lo + k)
<1>1. hi - lo \in Nat /\ \A k \in 1..(hi - lo) : lo + k \in Nat /\ b + (lo + k) <= MaxEvents
    BY Bounds
<1>2. \A k \in 1..(hi - lo) : Note(i, b, lo + k) \in Happening(i)
    BY <1>1, NoteIs
<1>3. /\ Sent(i, b, lo, hi) \in Seq(Happening(i)) /\ Len(Sent(i, b, lo, hi)) = hi - lo
      /\ \A k \in 1..(hi - lo) : Sent(i, b, lo, hi)[k] = Note(i, b, lo + k)
  <2> HIDE DEF Note, Happening
  <2> QED
    BY <1>1, <1>2 DEF Sent
<1>4. \A m \in Happening(i) : m \in Events /\ m \in Messages
    BY DEF Happening, Messages
<1>5. Sent(i, b, lo, hi) \in Seq(Events) /\ Sent(i, b, lo, hi) \in Seq(Messages)
    BY <1>3, <1>4, Wider
<1> QED
    BY <1>3, <1>5

\* No deliveries.
LEMMA SentNone ==
    ASSUME NEW i \in 1..MaxSubs, NEW b \in Nat, NEW n \in Nat, b + n <= MaxEvents
    PROVE  Sent(i, b, n, n) = <<>>
<1>1. Sent(i, b, n, n) \in Seq(Events) /\ Len(Sent(i, b, n, n)) = n - n
    BY SentIs
<1> QED
    BY <1>1

\* Two rows of deliveries that follow each other are one.
LEMMA SentJoin ==
    ASSUME NEW i \in 1..MaxSubs, NEW b \in Nat, NEW lo \in Nat, NEW mid \in Nat, NEW hi \in Nat,
           lo <= mid, mid <= hi, b + hi <= MaxEvents
    PROVE  Cat(Sent(i, b, lo, mid), Sent(i, b, mid, hi)) = Sent(i, b, lo, hi)
<1> DEFINE s == Sent(i, b, lo, mid)
           t == Sent(i, b, mid, hi)
           u == Sent(i, b, lo, hi)
<1>1. b + mid <= MaxEvents /\ lo <= hi
    BY Bounds
<1>2. s \in Seq(Events) /\ Len(s) = mid - lo /\ \A k \in 1..(mid - lo) : s[k] = Note(i, b, lo + k)
    BY <1>1, SentIs
<1>3. t \in Seq(Events) /\ Len(t) = hi - mid /\ \A k \in 1..(hi - mid) : t[k] = Note(i, b, mid + k)
    BY SentIs
<1>4. u \in Seq(Events) /\ Len(u) = hi - lo /\ \A k \in 1..(hi - lo) : u[k] = Note(i, b, lo + k)
    BY <1>1, SentIs
<1> HIDE DEF s, t, u
<1>5. s \o t \in Seq(Events) /\ Len(s \o t) = Len(u)
  <2>1. s \o t \in Seq(Events) /\ Len(s \o t) = Len(s) + Len(t)
    BY <1>2, <1>3, ConcatIs
  <2>2. (mid - lo) + (hi - mid) = hi - lo
    OBVIOUS
  <2> QED
    BY <1>2, <1>3, <1>4, <2>1, <2>2
<1>6. ASSUME NEW k \in 1..Len(s \o t)  PROVE (s \o t)[k] = u[k]
  <2>1. k \in 1..(hi - lo)
    BY <1>4, <1>5
  <2>2. CASE k <= mid - lo
    <3>1. (s \o t)[k] = s[k] /\ k \in 1..(mid - lo)
      BY <1>2, <1>3, <2>1, <2>2
    <3> QED
      BY <1>2, <1>4, <2>1, <3>1
  <2>3. CASE ~(k <= mid - lo)
    <3>1. (s \o t)[k] = t[k - (mid - lo)] /\ k - (mid - lo) \in 1..(hi - mid)
      BY <1>2, <1>3, <2>1, <2>3
    <3>2. mid + (k - (mid - lo)) = lo + k
      BY <2>1
    <3> QED
      BY <1>3, <1>4, <2>1, <3>1, <3>2
  <2> QED
    BY <2>2, <2>3
<1>7. s \o t = u
    BY <1>4, <1>5, <1>6, SeqSame
<1> QED
    BY <1>7 DEF s, t, u, Cat

\* What begins a row of deliveries that is not empty.
Leads(i, b, lo, hi) ==
    /\ Sent(i, b, lo, hi) # <<>> /\ Head(Sent(i, b, lo, hi)) = Note(i, b, lo + 1)
    /\ Tail(Sent(i, b, lo, hi)) = Sent(i, b, lo + 1, hi)
    /\ Sent(i, b, lo, hi)[Len(Sent(i, b, lo, hi))] = Note(i, b, hi)

LEMMA LeadsIs ==
    ASSUME NEW i \in 1..MaxSubs, NEW b \in Nat, NEW lo \in Nat, NEW hi \in Nat, lo < hi,
           b + hi <= MaxEvents
    PROVE  Leads(i, b, lo, hi)
<1> DEFINE s == Sent(i, b, lo, hi)
           t == Sent(i, b, lo + 1, hi)
<1>1. s \in Seq(Events) /\ Len(s) = hi - lo /\ \A k \in 1..(hi - lo) : s[k] = Note(i, b, lo + k)
    BY SentIs
<1>2. t \in Seq(Events) /\ Len(t) = hi - (lo + 1) /\ \A k \in 1..(hi - (lo + 1)) : t[k] = Note(i, b, (lo + 1) + k)
    BY SentIs
<1> HIDE DEF s, t
<1>3. s # <<>> /\ Head(s) = s[1] /\ 1 \in 1..(hi - lo) /\ hi - lo \in 1..(hi - lo)
    BY <1>1
<1>4. Tail(s) \in Seq(Events) /\ Len(Tail(s)) = Len(t) /\ \A k \in 1..Len(Tail(s)) : Tail(s)[k] = s[k + 1]
    BY <1>1, <1>2
<1>5. ASSUME NEW k \in 1..Len(Tail(s))  PROVE Tail(s)[k] = t[k]
  <2>1. k \in 1..(hi - (lo + 1)) /\ k + 1 \in 1..(hi - lo) /\ (lo + 1) + k = lo + (k + 1)
    BY <1>2, <1>4
  <2> QED
    BY <1>1, <1>2, <1>4, <2>1
<1>6. Tail(s) = t
    BY <1>2, <1>4, <1>5, SeqSame
<1>7. lo + (hi - lo) = hi
    OBVIOUS
<1>8. s[Len(s)] = Note(i, b, hi)
    BY <1>1, <1>3, <1>7
<1> QED
    BY <1>1, <1>3, <1>6, <1>8 DEF Leads, s, t

\* The first of a row, and the others.
LEMMA SentFirst ==
    ASSUME NEW i \in 1..MaxSubs, NEW b \in Nat, NEW lo \in Nat, NEW hi \in Nat, lo < hi,
           b + hi <= MaxEvents
    PROVE  /\ Sent(i, b, lo, hi) # <<>> /\ Head(Sent(i, b, lo, hi)) = Note(i, b, lo + 1)
           /\ Tail(Sent(i, b, lo, hi)) = Sent(i, b, lo + 1, hi)
           /\ Sent(i, b, lo, hi)[Len(Sent(i, b, lo, hi))] = Note(i, b, hi)
<1>1. Leads(i, b, lo, hi)
    BY LeadsIs
<1> QED
    BY <1>1 DEF Leads

\* A row in two parts.
LEMMA SentParts ==
    ASSUME NEW i \in 1..MaxSubs, NEW b \in Nat, NEW lo \in Nat, NEW hi \in Nat, lo <= hi,
           b + hi <= MaxEvents, NEW S
    PROVE  \A s, t \in Seq(S) : Cat(s, t) = Sent(i, b, lo, hi) =>
              \E mid \in Nat : lo <= mid /\ mid <= hi /\ s = Sent(i, b, lo, mid) /\ t = Sent(i, b, mid, hi)
<1> DEFINE u == Sent(i, b, lo, hi)
           x(mid) == Sent(i, b, lo, mid)
           y(mid) == Sent(i, b, mid, hi)
<1>6. \A mid \in Nat : lo <= mid /\ mid <= hi =>
         /\ x(mid) \in Seq(Events) /\ Len(x(mid)) = mid - lo
         /\ \A k \in 1..(mid - lo) : x(mid)[k] = Note(i, b, lo + k)
         /\ y(mid) \in Seq(Events) /\ Len(y(mid)) = hi - mid
         /\ \A k \in 1..(hi - mid) : y(mid)[k] = Note(i, b, mid + k)
  <2> SUFFICES ASSUME NEW mid \in Nat, lo <= mid, mid <= hi
               PROVE  /\ x(mid) \in Seq(Events) /\ Len(x(mid)) = mid - lo
                      /\ \A k \in 1..(mid - lo) : x(mid)[k] = Note(i, b, lo + k)
                      /\ y(mid) \in Seq(Events) /\ Len(y(mid)) = hi - mid
                      /\ \A k \in 1..(hi - mid) : y(mid)[k] = Note(i, b, mid + k)
    OBVIOUS
  <2>1. b + mid <= MaxEvents
    BY Bounds
  <2>2. /\ x(mid) \in Seq(Events) /\ Len(x(mid)) = mid - lo
        /\ \A k \in 1..(mid - lo) : x(mid)[k] = Note(i, b, lo + k)
    BY <2>1, SentIs
  <2>3. /\ y(mid) \in Seq(Events) /\ Len(y(mid)) = hi - mid
        /\ \A k \in 1..(hi - mid) : y(mid)[k] = Note(i, b, mid + k)
    BY SentIs
  <2> HIDE DEF x, y
  <2> QED
    BY <2>2, <2>3
<1> HIDE DEF x, y
<1> SUFFICES ASSUME NEW s \in Seq(S), NEW t \in Seq(S), Cat(s, t) = u
             PROVE  \E mid \in Nat : lo <= mid /\ mid <= hi /\ s = x(mid) /\ t = y(mid)
    BY DEF x, y
<1>1. u \in Seq(Events) /\ Len(u) = hi - lo /\ \A k \in 1..(hi - lo) : u[k] = Note(i, b, lo + k)
    BY SentIs
<1>2. /\ Len(s) \in Nat /\ Len(t) \in Nat /\ Len(s \o t) = Len(s) + Len(t)
      /\ \A k \in 1..Len(s) : (s \o t)[k] = s[k]
      /\ \A k \in 1..Len(t) : (s \o t)[Len(s) + k] = t[k]
    OBVIOUS
<1>3. s \o t = u
    BY DEF Cat
<1> HIDE DEF u
<1>4. Len(s) + Len(t) = hi - lo
    BY <1>1, <1>2, <1>3
<1>5. PICK mid \in Nat : mid = lo + Len(s)
    BY <1>2
<1>10. lo <= mid /\ mid <= hi /\ mid - lo = Len(s) /\ hi - mid = Len(t)
    BY <1>2, <1>4, <1>5
<1>12. lo <= mid /\ mid <= hi
    BY <1>10
<1>8. s = x(mid)
  <2>1. ASSUME NEW k \in 1..Len(s)  PROVE s[k] = x(mid)[k]
    <3>1. k \in 1..(mid - lo) /\ k \in 1..(hi - lo)
      BY <1>2, <1>4, <1>5, <1>10
    <3> QED
      BY <1>1, <1>2, <1>3, <1>6, <1>12, <3>1
  <2> QED
    BY <1>10, <1>6, <1>12, <2>1, SeqSame
<1>9. t = y(mid)
  <2>1. ASSUME NEW k \in 1..Len(t)  PROVE t[k] = y(mid)[k]
    <3>1. k \in 1..(hi - mid) /\ Len(s) + k \in 1..(hi - lo) /\ lo + (Len(s) + k) = mid + k
      <4>1. PICK n, m \in Nat : n = Len(s) /\ m = Len(t)
        BY <1>2
      <4>2. n + m = hi - lo /\ mid = lo + n /\ k \in 1..m /\ k \in Int
        BY <1>4, <1>5, <4>1
      <4>3. k \in 1..(hi - mid) /\ n + k \in 1..(hi - lo) /\ lo + (n + k) = mid + k
        BY <4>2
      <4> QED
        BY <4>1, <4>3
    <3>2. t[k] = u[Len(s) + k]
      BY <1>2, <1>3
    <3> QED
      BY <1>1, <1>6, <1>12, <3>1, <3>2
  <2> QED
    BY <1>10, <1>6, <1>12, <2>1, SeqSame
<1> QED
    BY <1>12, <1>8, <1>9

\* Numbers in a row, at each place.
LEMMA SpanAt ==
    ASSUME NEW lo \in Nat, NEW n \in Nat
    PROVE  /\ Span(lo + 1, lo + n) \in Seq(Nat) /\ Len(Span(lo + 1, lo + n)) = n
           /\ \A k \in 1..n : Span(lo + 1, lo + n)[k] = lo + k
<1>1. lo + 1 \in Nat /\ lo + n \in Nat /\ lo + 1 <= (lo + n) + 1 /\ ((lo + n) - (lo + 1)) + 1 = n
    OBVIOUS
<1> DEFINE s == Span(lo + 1, lo + n)
<1>2. s \in Seq(Nat) /\ Len(s) = ((lo + n) - (lo + 1)) + 1 /\ \A k \in 1..Len(s) : s[k] = (lo + 1) + k - 1
    BY <1>1, SpanIs
<1> HIDE DEF s
<1>3. \A k \in 1..n : (lo + 1) + k - 1 = lo + k
    OBVIOUS
<1>4. s \in Seq(Nat) /\ Len(s) = n /\ \A k \in 1..n : s[k] = lo + k
    BY <1>1, <1>2, <1>3
<1> QED
    BY <1>4 DEF s

\* What deliverEvent sends for the positions behind number lo.
LEMMA DeliveriesSent ==
    ASSUME NEW i \in 1..MaxSubs, NEW b \in Nat, NEW n \in Nat, b + n <= MaxEvents
    PROVE  Deliveries(i, 0, Span(b + 1, b + n)) = Sent(i, b, 0, n)
<1> DEFINE ps == Span(b + 1, b + n)
           D(k) == [kind |-> "event", sub |-> i, seq |-> 0 + k, cursor |-> <<i, ps[k]>>, pos |-> ps[k]]
<1>1. Len(ps) = n /\ \A k \in 1..n : ps[k] = b + k
    BY SpanAt
<1>2. Deliveries(i, 0, ps) = [k \in 1..n |-> D(k)]
    BY <1>1 DEF Deliveries
<1>3. \A k \in 1..n : D(k) = Note(i, b, 0 + k)
    BY <1>1 DEF Note
<1>4. Sent(i, b, 0, n) = [k \in 1..n |-> Note(i, b, 0 + k)]
  <2>1. n - 0 = n
    OBVIOUS
  <2> QED
    BY <2>1 DEF Sent
<1> HIDE DEF D, ps
<1>5. [k \in 1..n |-> D(k)] = [k \in 1..n |-> Note(i, b, 0 + k)]
    BY <1>3
<1> QED
    BY <1>2, <1>4, <1>5 DEF ps

\* The positions of deliveries in a row.
LEMMA SentPositions ==
    ASSUME NEW i \in 1..MaxSubs, NEW b \in Nat, NEW lo \in Nat, NEW hi \in Nat, lo <= hi,
           b + hi <= MaxEvents
    PROVE  Positions(Sent(i, b, lo, hi)) = Span((b + lo) + 1, b + hi)
<1> DEFINE s == Sent(i, b, lo, hi)
           t == Span((b + lo) + 1, b + hi)
<1>1. Len(s) = hi - lo /\ \A k \in 1..(hi - lo) : s[k] = Note(i, b, lo + k)
    BY SentIs
<1>2. PICK n \in Nat : n = hi - lo
    OBVIOUS
<1>3. b + lo \in Nat /\ b + hi = (b + lo) + n
    BY <1>2
<1>4. t \in Seq(Nat) /\ Len(t) = n /\ \A k \in 1..n : t[k] = (b + lo) + k
  <2>1. t = Span((b + lo) + 1, (b + lo) + n)
    BY <1>3
  <2> DEFINE v == Span((b + lo) + 1, (b + lo) + n)
  <2>2. v \in Seq(Nat) /\ Len(v) = n /\ \A k \in 1..n : v[k] = (b + lo) + k
    BY <1>2, <1>3, SpanAt
  <2> HIDE DEF t, v
  <2>3. t = v
    BY <2>1 DEF v
  <2> QED
    BY <2>2, <2>3
<1> HIDE DEF s, t
<1>5. \A k \in 1..n : Note(i, b, lo + k).pos = (b + lo) + k
    BY DEF Note
<1>6. Positions(s) = [k \in 1..n |-> s[k].pos]
    BY <1>1, <1>2 DEF Positions
<1>7. \A k \in 1..n : s[k].pos = (b + lo) + k
    BY <1>1, <1>2, <1>5
<1>8. /\ Positions(s) \in Seq(Nat) /\ Len(Positions(s)) = n
      /\ \A k \in 1..Len(Positions(s)) : Positions(s)[k] = t[k]
  <2>1. \A k \in 1..n : s[k].pos \in Nat
    BY <1>3, <1>7
  <2> QED
    BY <1>4, <1>6, <1>7, <2>1
<1>9. Positions(s) = t
    BY <1>4, <1>8, SeqSame
<1> QED
    BY <1>9 DEF s, t

-----------------------------------------------------------------------------
(* Showing positions in a row.                                             *)

\* The numbers up to c in two parts.
LEMMA SpanJoin ==
    ASSUME NEW n \in Nat, NEW c \in Nat, n <= c
    PROVE  Span(1, n) \o Span(n + 1, c) = Span(1, c)
<1> DEFINE s == Span(0 + 1, 0 + n)
           t == Span(n + 1, c)
           u == Span(0 + 1, 0 + c)
<1>1. s \in Seq(Nat) /\ Len(s) = n /\ \A k \in 1..n : s[k] = 0 + k
    BY SpanAt
<1>2. PICK d \in Nat : c = n + d
  <2>1. c - n \in Nat /\ c = n + (c - n)
    OBVIOUS
  <2> QED
    BY <2>1
<1>3. t \in Seq(Nat) /\ Len(t) = d /\ \A k \in 1..d : t[k] = n + k
  <2>1. /\ Span(n + 1, n + d) \in Seq(Nat) /\ Len(Span(n + 1, n + d)) = d
        /\ \A k \in 1..d : Span(n + 1, n + d)[k] = n + k
    BY <1>2, SpanAt
  <2> QED
    BY <1>2, <2>1
<1>4. u \in Seq(Nat) /\ Len(u) = c /\ \A k \in 1..c : u[k] = 0 + k
    BY SpanAt
<1> HIDE DEF s, t, u
<1>5. s \o t \in Seq(Nat) /\ Len(s \o t) = c
  <2>1. s \o t \in Seq(Nat) /\ Len(s \o t) = Len(s) + Len(t)
    BY <1>1, <1>3, ConcatIs
  <2> QED
    BY <1>1, <1>2, <1>3, <2>1
<1>6. ASSUME NEW k \in 1..Len(s \o t)  PROVE (s \o t)[k] = u[k]
  <2>1. k \in 1..c
    BY <1>5
  <2>2. CASE k <= n
    <3>1. (s \o t)[k] = s[k] /\ k \in 1..n
      BY <1>1, <1>3, <2>1, <2>2
    <3> QED
      BY <1>1, <1>4, <2>1, <3>1
  <2>3. CASE ~(k <= n)
    <3>1. k - n \in 1..d
      BY <1>2, <2>1, <2>3
    <3>2. (s \o t)[k] = t[k - n]
      BY <1>1, <1>2, <1>3, <2>1, <2>3
    <3>3. n + (k - n) = 0 + k
      BY <2>1
    <3> QED
      BY <1>3, <1>4, <2>1, <3>1, <3>2, <3>3
  <2> QED
    BY <2>2, <2>3
<1>7. s \o t = u
    BY <1>4, <1>5, <1>6, SeqSame
<1>8. 0 + 1 = 1 /\ 0 + n = n /\ 0 + c = c
    OBVIOUS
<1> QED
    BY <1>7, <1>8 DEF s, t, u

\* The first n numbers.
LEMMA FirstNumbers ==
    ASSUME NEW n \in Nat
    PROVE  /\ Span(1, n) \in Seq(Nat) /\ Len(Span(1, n)) = n
           /\ \A k \in 1..n : Span(1, n)[k] = k
           /\ ToSet(Span(1, n)) = 1..n
<1> DEFINE s == Span(0 + 1, 0 + n)
<1>1. s \in Seq(Nat) /\ Len(s) = n /\ \A k \in 1..n : s[k] = 0 + k
    BY SpanAt
<1>2. 0 + 1 = 1 /\ 0 + n = n
    OBVIOUS
<1>3. s = Span(1, n)
    BY <1>2
<1> HIDE DEF s
<1>4. \A k \in 1..n : s[k] = k
    BY <1>1
<1>5. ToSet(s) = 1..n
  <2>1. DOMAIN s = 1..n
    BY <1>1
  <2>2. ToSet(s) = {s[k] : k \in 1..n}
    BY <2>1 DEF ToSet
  <2> QED
    BY <1>4, <2>2
<1> QED
    BY <1>1, <1>3, <1>4, <1>5

\* A view of the first n events that is shown the events after position a, which it holds,
\* grows by those it does not hold (projector.applyEvent).
LEMMA ReducedSpan ==
    ASSUME NEW n \in Nat, NEW a \in Nat, NEW c \in Nat, a <= n, a <= c
    PROVE  Reduced(Span(1, n), Span(a + 1, c)) = Span(1, IF n <= c THEN c ELSE n)
<1> DEFINE ps == Span(a + 1, c)
           view == Span(1, n)
           K == ToSet(ps) \ ToSet(view)
<1>1. PICK d \in Nat : c = a + d
  <2>1. c - a \in Nat /\ c = a + (c - a)
    OBVIOUS
  <2> QED
    BY <2>1
<1>2. ps \in Seq(Nat) /\ Len(ps) = d /\ \A k \in 1..d : ps[k] = a + k
  <2>1. /\ Span(a + 1, a + d) \in Seq(Nat) /\ Len(Span(a + 1, a + d)) = d
        /\ \A k \in 1..d : Span(a + 1, a + d)[k] = a + k
    BY <1>1, SpanAt
  <2> QED
    BY <1>1, <2>1
<1>3. view \in Seq(Nat) /\ ToSet(view) = 1..n
    BY FirstNumbers
<1>4. Reduced(view, ps) = view \o Only(ps, K)
    BY DEF Reduced
<1> HIDE DEF ps, view
<1>5. ToSet(ps) = {ps[k] : k \in 1..d}
  <2>1. DOMAIN ps = 1..d
    BY <1>2
  <2> QED
    BY <2>1 DEF ToSet
<1>6. \A k \in 1..d : ps[k] \in K <=> n < a + k
  <2> TAKE k \in 1..d
  <2>1. ps[k] = a + k /\ ps[k] \in ToSet(ps)
    BY <1>2, <1>5
  <2>2. a + k \in 1..n <=> ~(n < a + k)
    OBVIOUS
  <2> QED
    BY <1>3, <2>1, <2>2
<1> HIDE DEF K
<1>7. CASE n <= c
  <2>1. PICK e \in Nat : n = a + e
    <3>1. n - a \in Nat /\ n = a + (n - a)
      OBVIOUS
    <3> QED
      BY <3>1
  <2>2. e <= d /\ e + 1 \in 1..(d + 1)
    BY <1>1, <1>7, <2>1
  <2>3. \A k \in 1..d : ps[k] \in K <=> e + 1 <= k
    BY <1>6, <2>1
  <2>4. Only(ps, K) = SubSeq(ps, e + 1, d)
    BY <1>2, <2>2, <2>3, OnlyFrom
  <2>5. SubSeq(ps, e + 1, d) = Span(n + 1, c)
    <3> DEFINE t == Span(n + 1, c)
               u == SubSeq(ps, e + 1, d)
    <3>1. PICK f \in Nat : c = n + f
      <4>1. c - n \in Nat /\ c = n + (c - n)
        BY <1>7
      <4> QED
        BY <4>1
    <3>2. t \in Seq(Nat) /\ Len(t) = f /\ \A k \in 1..f : t[k] = n + k
      <4>1. /\ Span(n + 1, n + f) \in Seq(Nat) /\ Len(Span(n + 1, n + f)) = f
            /\ \A k \in 1..f : Span(n + 1, n + f)[k] = n + k
        BY <3>1, SpanAt
      <4> QED
        BY <3>1, <4>1
    <3>3. d = e + f
      BY <1>1, <2>1, <3>1
    <3>4. /\ u \in Seq(Nat) /\ Len(u) = f
          /\ \A k \in 1..f : u[k] = ps[e + k] /\ e + k \in 1..d
      BY <1>2, <2>2, <3>3
    <3> HIDE DEF t, u
    <3>5. \A k \in 1..f : u[k] = t[k]
      <4> TAKE k \in 1..f
      <4>1. ps[e + k] = a + (e + k)
        BY <1>2, <3>4
      <4>2. a + (e + k) = n + k
        BY <2>1
      <4> QED
        BY <3>2, <3>4, <4>1, <4>2
    <3>6. u = t
      BY <3>2, <3>4, <3>5, SeqSame
    <3> QED
      BY <3>6 DEF t, u
  <2>6. Span(1, n) \o Span(n + 1, c) = Span(1, c)
    BY <1>7, SpanJoin
  <2> QED
    BY <1>4, <1>7, <2>4, <2>5, <2>6 DEF view, ps
<1>8. CASE ~(n <= c)
  <2>1. \A k \in 1..d : ~(n < a + k)
    BY <1>1, <1>8
  <2>2. d + 1 \in 1..(d + 1) /\ \A k \in 1..d : ps[k] \in K <=> d + 1 <= k
    BY <1>6, <2>1
  <2>3. Only(ps, K) = SubSeq(ps, d + 1, d)
    BY <1>2, <2>2, OnlyFrom
  <2>4. SubSeq(ps, d + 1, d) = <<>>
    BY <1>2
  <2>5. view \o <<>> = view
    BY <1>3
  <2> QED
    BY <1>4, <1>8, <2>3, <2>4, <2>5 DEF view, ps
<1> QED
    BY <1>7, <1>8

-----------------------------------------------------------------------------
(* The messages of one subscription.                                       *)

\* A value that happened to a subscription is an event, and a message.
LEMMA HappeningIs ==
    ASSUME NEW i
    PROVE  /\ \A m \in Happening(i) : m \in Events /\ m \in Messages /\ m.sub = i /\ m.kind = "event"
           /\ \A m \in Events : m \in Happening(i) <=> m.sub = i
           /\ \A m \in Replies : m \notin Happening(i)
           /\ \A m \in Messages : m.kind = "event" => m \in Events
           /\ \A m \in Messages : m \in Happening(i) <=> m.kind = "event" /\ m.sub = i
<1>1. \A m \in Happening(i) : m \in Events /\ m \in Messages /\ m.sub = i
    BY DEF Happening, Messages
<1>2. \A m \in Events : m \in Happening(i) <=> m.sub = i
    BY DEF Happening
<1>3. \A m \in Messages : m.kind = "event" => m \in Events
    BY Kinds DEF Messages
<1>4. \A m \in Messages : (m \in Replies) = (m.kind # "event")
    BY Kinds
<1> QED
    BY <1>1, <1>2, <1>3, <1>4, Kinds

\* The events of a subscription among messages.
LEMMA OfIs ==
    ASSUME NEW i, NEW q \in Seq(Messages)
    PROVE  Of(q, i) \in Seq(Happening(i)) /\ Of(q, i) \in Seq(Events) /\ Of(q, i) \in Seq(Messages)
<1>1. Of(q, i) \in Seq(Messages) /\ \A j \in 1..Len(Of(q, i)) : Of(q, i)[j] \in Happening(i)
    BY OnlyOf DEF Of
<1>2. Of(q, i) \in Seq(Happening(i))
  <2> DEFINE s == Of(q, i)
  <2> HIDE DEF s
  <2>1. s \in Seq(Messages) /\ \A j \in 1..Len(s) : s[j] \in Happening(i)
    BY <1>1 DEF s
  <2>2. s \in Seq(Happening(i))
    BY <2>1
  <2> QED
    BY <2>2 DEF s
<1>3. \A m \in Happening(i) : m \in Events
    BY HappeningIs
<1>4. Of(q, i) \in Seq(Events)
    BY <1>2, <1>3, Wider
<1> QED
    BY <1>1, <1>2, <1>4

\* The events of two sequences of messages.
LEMMA OfConcat ==
    ASSUME NEW i, NEW p \in Seq(Messages), NEW q \in Seq(Messages)
    PROVE  Of(p \o q, i) = Of(p, i) \o Of(q, i)
<1>1. Only(p, Happening(i)) \in Seq(Messages)
    BY OnlyOf
<1> QED
    BY <1>1, OnlyConcat DEF Of

\* The deliveries of a subscription are its own.
LEMMA OfSent ==
    ASSUME NEW i \in 1..MaxSubs, NEW b \in Nat, NEW lo \in Nat, NEW hi \in Nat, lo <= hi,
           b + hi <= MaxEvents, NEW j
    PROVE  /\ j = i => Of(Sent(i, b, lo, hi), j) = Sent(i, b, lo, hi)
           /\ j # i => Of(Sent(i, b, lo, hi), j) = <<>>
<1>1. Sent(i, b, lo, hi) \in Seq(Happening(i))
    BY SentIs
<1>2. \A m \in Happening(i) : m \in Happening(j) <=> j = i
    BY HappeningIs
<1> QED
    BY <1>1, <1>2, OnlyAll DEF Of

\* Events that are all of other subscriptions.
LEMMA OfOthers ==
    ASSUME NEW i, NEW q \in Seq(Messages), \A k \in 1..Len(q) : q[k] \notin Happening(i)
    PROVE  Of(q, i) = <<>>
<1>1. /\ Of(q, i) \in Seq(Messages)
      /\ \A j \in 1..Len(Of(q, i)) : Of(q, i)[j] \in Happening(i) /\ \E k \in 1..Len(q) : q[k] = Of(q, i)[j]
    BY OnlyOf DEF Of
<1>2. ~(1 \in 1..Len(Of(q, i)))
    BY <1>1
<1> QED
    BY <1>1, <1>2

\* A subscription to come has no events yet.
LEMMA OfNew ==
    ASSUME NEW i, NEW q \in Seq(Messages), Recent(q), ~(i <= Len(subs))
    PROVE  Of(q, i) = <<>>
<1>1. \A k \in 1..Len(q) : q[k] \notin Happening(i)
    BY HappeningIs DEF Recent
<1> QED
    BY <1>1, OfOthers

\* One message, at the end or at the head.
LEMMA OfOne ==
    ASSUME NEW i, NEW m \in Messages
    PROVE  /\ <<m>> \in Seq(Messages)
           /\ m \in Happening(i) => Of(<<m>>, i) = <<m>>
           /\ m \notin Happening(i) => Of(<<m>>, i) = <<>>
<1>1. <<>> \in Seq(Messages) /\ <<m>> \in Seq(Messages) /\ <<m>> = Append(<<>>, m)
    OBVIOUS
<1>2. \A s \in Seq(Messages) :
         /\ m \in Happening(i) => Only(Append(s, m), Happening(i)) = Append(Only(s, Happening(i)), m)
         /\ m \notin Happening(i) => Only(Append(s, m), Happening(i)) = Only(s, Happening(i))
    BY OnlyAppend
<1>3. Only(<<>>, Happening(i)) = <<>>
    BY OnlyNone
<1> QED
    BY <1>1, <1>2, <1>3 DEF Of

LEMMA OfHead ==
    ASSUME NEW i, NEW q \in Seq(Messages), q # <<>>
    PROVE  /\ Head(q) \notin Happening(i) => Of(Tail(q), i) = Of(q, i)
           /\ Head(q) \in Happening(i) => Of(q, i) = <<Head(q)>> \o Of(Tail(q), i)
<1>1. /\ Head(q) \notin Happening(i) => Of(Tail(q), i) = Of(q, i)
      /\ Head(q) \in Happening(i) => /\ Of(q, i) # <<>> /\ Head(Of(q, i)) = Head(q)
                                     /\ Of(Tail(q), i) = Tail(Of(q, i))
    BY OnlyHead DEF Of
<1>2. \A s \in Seq(Messages) : s # <<>> => s = <<Head(s)>> \o Tail(s)
    OBVIOUS
<1>3. Of(q, i) \in Seq(Messages)
    BY OfIs
<1> QED
    BY <1>1, <1>2, <1>3

\* A message that leaves the connection for the collected events is still there.
LEMMA OfMoved ==
    ASSUME NEW p \in Seq(Messages), NEW q \in Seq(Messages), q # <<>>
    PROVE  Append(p, Head(q)) \o Tail(q) = p \o q
OBVIOUS

\* A message of no or another subscription leaves the connection.
LEMMA OfDropped ==
    ASSUME NEW i, NEW p \in Seq(Messages), NEW q \in Seq(Messages), q # <<>>, Head(q) \notin Happening(i)
    PROVE  Of(p \o Tail(q), i) = Of(p \o q, i)
<1>1. Tail(q) \in Seq(Messages)
    OBVIOUS
<1>2. Of(Tail(q), i) = Of(q, i)
    BY OfHead
<1>3. Of(p \o q, i) = Of(p, i) \o Of(q, i) /\ Of(p \o Tail(q), i) = Of(p, i) \o Of(Tail(q), i)
    BY <1>1, OfConcat
<1> QED
    BY <1>2, <1>3

\* What the drain of the collected events takes from them.
LEMMA OfMine ==
    ASSUME NEW p \in Seq(Events), NEW i
    PROVE  Only(p, {d \in ToSet(p) : d.sub = i}) = Of(p, i)
<1> DEFINE S == {p[k] : k \in 1..Len(p)}
           K == {d \in ToSet(p) : d.sub = i}
<1>1. ToSet(p) = S
  <2>1. DOMAIN p = 1..Len(p)
    OBVIOUS
  <2> QED
    BY <2>1 DEF ToSet
<1>2. p \in Seq(S)
    OBVIOUS
<1>3. \A x \in S : x \in K <=> x \in Happening(i)
  <2>1. \A x \in S : x \in Events
    OBVIOUS
  <2> QED
    BY <1>1, <2>1 DEF Happening
<1> HIDE DEF S, K
<1>4. Only(p, K) = Only(p, Happening(i))
    BY <1>2, <1>3, OnlySame
<1> QED
    BY <1>4 DEF K, Of

-----------------------------------------------------------------------------
(* The answers under way, and behind them the requests.                    *)

\* Both are in one row.
LEMMA TalkIs ==
    ASSUME NEW dq \in Seq(Messages), NEW uq \in Seq(Requests)
    PROVE  /\ Only(dq, Replies) \in Seq(Replies)
           /\ Talk(dq, uq) \in Seq(Replies \cup Requests)
           /\ Len(Talk(dq, uq)) = Len(Only(dq, Replies)) + Len(uq)
           /\ Len(Only(dq, Replies)) \in Nat /\ Len(uq) \in Nat
           /\ \A k \in 1..Len(Only(dq, Replies)) : Talk(dq, uq)[k] = Only(dq, Replies)[k]
           /\ \A k \in 1..Len(uq) : Talk(dq, uq)[Len(Only(dq, Replies)) + k] = uq[k]
<1> DEFINE r == Only(dq, Replies)
           S == Replies \cup Requests
<1>1. r \in Seq(Messages) /\ \A j \in 1..Len(r) : r[j] \in Replies
    BY OnlyOf
<1> HIDE DEF r
<1>2. r \in Seq(Replies)
    BY <1>1
<1>3. r \in Seq(S) /\ uq \in Seq(S)
    BY <1>2, Wider
<1> HIDE DEF S
<1>4. /\ r \o uq \in Seq(S) /\ Len(r \o uq) = Len(r) + Len(uq) /\ Len(r) \in Nat /\ Len(uq) \in Nat
      /\ \A k \in 1..Len(r) : (r \o uq)[k] = r[k]
      /\ \A k \in 1..Len(uq) : (r \o uq)[Len(r) + k] = uq[k]
    BY <1>3, ConcatIs
<1> QED
    BY <1>2, <1>4 DEF r, S, Talk

\* The next message, an event or an answer, leaves the connection.
LEMMA TalkNext ==
    ASSUME NEW dq \in Seq(Messages), NEW uq \in Seq(Requests), dq # <<>>
    PROVE  /\ Head(dq) \notin Replies => Talk(Tail(dq), uq) = Talk(dq, uq)
           /\ Head(dq) \in Replies => /\ Talk(dq, uq) # <<>> /\ Talk(dq, uq)[1] = Head(dq)
                                      /\ Talk(Tail(dq), uq) = Tail(Talk(dq, uq))
<1> DEFINE r == Only(dq, Replies)
           S == Replies \cup Requests
<1>1. /\ Head(dq) \notin Replies => Only(Tail(dq), Replies) = r
      /\ Head(dq) \in Replies => r # <<>> /\ Head(r) = Head(dq) /\ Only(Tail(dq), Replies) = Tail(r)
    BY OnlyHead
<1>2. r \in Seq(S)
  <2>1. r \in Seq(Replies)
    BY TalkIs
  <2> QED
    BY <2>1, Wider
<1>3. uq \in Seq(S)
    BY Wider
<1> HIDE DEF r, S
<1>4. r # <<>> => r \o uq # <<>> /\ (r \o uq)[1] = Head(r) /\ Tail(r \o uq) = Tail(r) \o uq
    BY <1>2, <1>3
<1> QED
    BY <1>1, <1>4 DEF r, Talk

\* One request more.
LEMMA TalkAsk ==
    ASSUME NEW dq \in Seq(Messages), NEW uq \in Seq(Requests), NEW r \in Requests
    PROVE  Talk(dq, Append(uq, r)) = Append(Talk(dq, uq), r)
<1> DEFINE S == Replies \cup Requests
           a == Only(dq, Replies)
<1>1. a \in Seq(S)
  <2>1. a \in Seq(Replies)
    BY TalkIs
  <2> QED
    BY <2>1, Wider
<1>2. uq \in Seq(S) /\ r \in S
    BY Wider
<1> HIDE DEF S, a
<1>3. a \o Append(uq, r) = Append(a \o uq, r)
    BY <1>1, <1>2
<1> QED
    BY <1>3 DEF a, Talk

\* Events are no answers.
LEMMA TalkEvents ==
    ASSUME NEW dq \in Seq(Messages), NEW uq, NEW ev \in Seq(Events)
    PROVE  dq \o ev \in Seq(Messages) /\ Talk(dq \o ev, uq) = Talk(dq, uq)
BY NoReply DEF Talk

\* The next request is answered: its answer takes its place.
Longer(dq, m, ev) == dq \o (<<m>> \o ev)

AnswersAt(dq, uq, m, d, j) ==
    /\ Talk(dq, uq)[j] = Head(uq)
    /\ Talk(d, Tail(uq))[j] = m
    /\ \A k \in 1..Len(Talk(dq, uq)) :
          /\ k # j => Talk(d, Tail(uq))[k] = Talk(dq, uq)[k]
          /\ k < j => Talk(dq, uq)[k] \in Replies
          /\ j <= k => Talk(dq, uq)[k] \in Requests

LEMMA TalkServed ==
    ASSUME NEW dq \in Seq(Messages), NEW uq \in Seq(Requests), uq # <<>>,
           NEW m \in Replies, NEW ev \in Seq(Events), NEW d, d = Longer(dq, m, ev)
    PROVE  d \in Seq(Messages) /\ \E j \in 1..Len(Talk(dq, uq)) : AnswersAt(dq, uq, m, d, j)
<1> DEFINE S == Replies \cup Requests
           a == Only(dq, Replies)
           j == Len(a) + 1
<1>1. a \in Seq(Replies)
    BY TalkIs
<1>2. a \in Seq(S) /\ uq \in Seq(S) /\ m \in S /\ Tail(uq) \in Seq(S)
  <2>1. Tail(uq) \in Seq(Requests)
    OBVIOUS
  <2> QED
    BY <1>1, <2>1, Wider
<1>3. /\ dq \o (<<m>> \o ev) \in Seq(Messages)
      /\ Only(dq \o (<<m>> \o ev), Replies) = Append(a, m)
  <2>1. m \in Messages
    BY DEF Messages
  <2>2. Append(dq, m) \in Seq(Messages)
    BY <2>1
  <2>3. Only(Append(dq, m), Replies) = Append(a, m)
    BY <2>1, OnlyAppend
  <2>4. dq \o (<<m>> \o ev) = Append(dq, m) \o ev
    <3>1. \A e \in Events : e \in Messages
      BY DEF Messages
    <3>2. ev \in Seq(Messages)
      BY <3>1, Wider
    <3>3. \A s, v \in Seq(Messages), x \in Messages : s \o (<<x>> \o v) = Append(s, x) \o v
      OBVIOUS
    <3> QED
      BY <2>1, <3>2, <3>3
  <2>5. /\ Append(dq, m) \o ev \in Seq(Messages)
        /\ Only(Append(dq, m) \o ev, Replies) = Only(Append(dq, m), Replies)
    BY <2>2, NoReply
  <2> QED
    BY <2>3, <2>4, <2>5
<1> DEFINE s == a \o uq
           t == Append(a, m) \o Tail(uq)
<1>4. Talk(dq, uq) = s /\ Talk(dq \o (<<m>> \o ev), Tail(uq)) = t
    BY <1>3 DEF Talk
<1> HIDE DEF S, a
<1>5. /\ Len(s) = Len(a) + Len(uq) /\ Len(a) \in Nat /\ Len(uq) \in Nat /\ Len(uq) > 0
      /\ \A k \in 1..Len(a) : s[k] = a[k]
      /\ \A k \in 1..Len(uq) : s[Len(a) + k] = uq[k]
    BY <1>2, ConcatIs
<1>6. /\ Len(t) = Len(a) + 1 + (Len(uq) - 1)
      /\ \A k \in 1..Len(a) : t[k] = a[k]
      /\ t[Len(a) + 1] = m
      /\ \A k \in 2..Len(uq) : t[Len(a) + k] = uq[k]
    BY <1>2, <1>5
<1> HIDE DEF s, t
<1>7. j \in 1..Len(s)
    BY <1>5
<1>8. s[j] = Head(uq) /\ t[j] = m
    BY <1>5, <1>6
<1>9. ASSUME NEW k \in 1..Len(s)
      PROVE  /\ k # j => t[k] = s[k]
             /\ k < j => s[k] \in Replies
             /\ j <= k => s[k] \in Requests
  <2>1. CASE k < j
    <3>1. k \in 1..Len(a)
      BY <1>5, <2>1
    <3>2. a[k] \in Replies
      BY <1>1, <3>1
    <3> QED
      BY <1>5, <1>6, <2>1, <3>1, <3>2
  <2>2. CASE j <= k
    <3>1. k - Len(a) \in 1..Len(uq) /\ Len(a) + (k - Len(a)) = k
      BY <1>5, <2>2
    <3>2. s[k] = uq[k - Len(a)] /\ uq[k - Len(a)] \in Requests
      BY <1>5, <3>1
    <3>3. k # j => k - Len(a) \in 2..Len(uq)
      BY <1>5, <2>2, <3>1
    <3>4. k # j => t[k] = uq[k - Len(a)]
      BY <1>6, <3>1, <3>3
    <3> QED
      BY <1>5, <2>2, <3>2, <3>4
  <2> QED
    BY <1>5, <2>1, <2>2
<1>10. PICK x, y, i : x = Talk(dq, uq) /\ y = Talk(d, Tail(uq)) /\ i = j
    OBVIOUS
<1>11. x = s /\ y = t
    BY <1>4, <1>10 DEF Longer
<1>12. /\ i \in 1..Len(x) /\ x[i] = Head(uq) /\ y[i] = m
       /\ \A k \in 1..Len(x) : (k # i => y[k] = x[k]) /\ (k < i => x[k] \in Replies) /\ (i <= k => x[k] \in Requests)
    BY <1>7, <1>8, <1>9, <1>10, <1>11
<1>13. AnswersAt(dq, uq, m, d, i)
    BY <1>10, <1>12 DEF AnswersAt
<1>14. d \in Seq(Messages)
    BY <1>3 DEF Longer
<1> QED
    BY <1>10, <1>12, <1>13, <1>14

-----------------------------------------------------------------------------
(* The order of the cursor table.                                          *)

\* Some of the cursors.
LEMMA DistinctOnly ==
    ASSUME NEW S, NEW K, NEW table \in Seq(S), Distinct(table)
    PROVE  Distinct(Only(table, K))
<1> DEFINE T == {q \in Seq(S) : Distinct(q) => Distinct(Only(q, K))}
<1>1. <<>> \in T
  <2>1. <<>> \in Seq(S) /\ Distinct(<<>>)
    BY DEF Distinct
  <2> QED
    BY <2>1, OnlyNone
<1>2. ASSUME NEW q \in Seq(S), NEW x \in S, q \in T  PROVE Append(q, x) \in T
  <2> SUFFICES ASSUME Distinct(Append(q, x))  PROVE Distinct(Only(Append(q, x), K))
    OBVIOUS
  <2>1. Len(q) \in Nat /\ \A a \in 1..Len(q) : Append(q, x)[a] = q[a] /\ a \in 1..Len(Append(q, x)) /\ a < Len(q) + 1
    OBVIOUS
  <2>2. Append(q, x)[Len(q) + 1] = x /\ Len(q) + 1 \in 1..Len(Append(q, x))
    OBVIOUS
  <2>3. Distinct(q)
    BY <2>1 DEF Distinct
  <2>4. \A a \in 1..Len(q) : q[a].id # x.id
    BY <2>1, <2>2 DEF Distinct
  <2> DEFINE o == Only(q, K)
  <2>5. Distinct(o) /\ o \in Seq(S)
    BY <1>2, <2>3, OnlyOf
  <2>6. \A j \in 1..Len(o) : \E a \in 1..Len(q) : q[a] = o[j]
    BY OnlyOf
  <2>7. Only(Append(q, x), K) = IF x \in K THEN Append(o, x) ELSE o
    BY OnlyAppend
  <2> HIDE DEF o
  <2>8. \A j \in 1..Len(o) : o[j].id # x.id
    BY <2>4, <2>6
  <2>9. Distinct(Append(o, x))
    <3> SUFFICES ASSUME NEW a \in 1..Len(Append(o, x)), NEW b \in 1..Len(Append(o, x)), a < b
                 PROVE  Append(o, x)[a].id # Append(o, x)[b].id
      BY DEF Distinct
    <3>1. a \in 1..Len(o) /\ Append(o, x)[a] = o[a]
      BY <2>5
    <3>2. CASE b \in 1..Len(o)
      <4>1. Append(o, x)[b] = o[b]
        BY <2>5, <3>2
      <4> QED
        BY <2>5, <3>1, <3>2, <4>1 DEF Distinct
    <3>3. CASE b \notin 1..Len(o)
      <4>1. Append(o, x)[b] = x
        BY <2>5, <3>3
      <4> QED
        BY <2>8, <3>1, <4>1
    <3> QED
      BY <3>2, <3>3
  <2> QED
    BY <2>5, <2>7, <2>9
<1> HIDE DEF T
<1>3. Seq(S) \subseteq T
    BY <1>1, <1>2, AppendInduction
<1> QED
    BY <1>3 DEF T

\* Cursors that change without a change of their identity.
LEMMA DistinctSame ==
    ASSUME NEW table, NEW other, Len(other) = Len(table),
           \A a \in 1..Len(table) : other[a].id = table[a].id, Distinct(table)
    PROVE  Distinct(other)
BY DEF Distinct

\* Cursors behind others.
LEMMA DistinctJoin ==
    ASSUME NEW S, NEW s \in Seq(S), NEW t \in Seq(S), Distinct(s), Distinct(t),
           \A a \in 1..Len(s) : \A b \in 1..Len(t) : s[a].id # t[b].id
    PROVE  Distinct(s \o t)
<1> SUFFICES ASSUME NEW a \in 1..Len(s \o t), NEW b \in 1..Len(s \o t), a < b
             PROVE  (s \o t)[a].id # (s \o t)[b].id
    BY DEF Distinct
<1>1. /\ Len(s \o t) = Len(s) + Len(t) /\ Len(s) \in Nat /\ Len(t) \in Nat
      /\ \A k \in 1..Len(s) : (s \o t)[k] = s[k]
      /\ \A k \in 1..Len(t) : (s \o t)[Len(s) + k] = t[k]
    BY ConcatIs
<1>2. \A k \in 1..Len(s \o t) : k \notin 1..Len(s) => k - Len(s) \in 1..Len(t) /\ (s \o t)[k] = t[k - Len(s)]
  <2> TAKE k \in 1..Len(s \o t)
  <2>1. k \notin 1..Len(s) => k - Len(s) \in 1..Len(t) /\ Len(s) + (k - Len(s)) = k
    BY <1>1
  <2> QED
    BY <1>1, <2>1
<1>3. CASE a \in 1..Len(s) /\ b \in 1..Len(s)
    BY <1>1, <1>3 DEF Distinct
<1>4. CASE a \in 1..Len(s) /\ b \notin 1..Len(s)
    BY <1>1, <1>2, <1>4
<1>5. CASE a \notin 1..Len(s)
  <2>1. b \notin 1..Len(s) /\ a - Len(s) < b - Len(s)
    BY <1>1, <1>5
  <2> QED
    BY <1>2, <1>5, <2>1 DEF Distinct
<1> QED
    BY <1>3, <1>4, <1>5

\* Some of the cursors, among them those of the subscription.
LEMMA OrderedOnly ==
    ASSUME NEW S, NEW table \in Seq(S), NEW K, NEW i, NEW ack, NEW lo \in Int, NEW hi \in Int
    PROVE  /\ Ordered(table, i, ack, lo, hi)
           /\ \A a \in 1..Len(table) : \A p \in (lo + 1)..hi :
                 table[a].id = <<i, p>> /\ table[a].sub = i => table[a] \in K
           => Ordered(Only(table, K), i, ack, lo, hi)
<1> DEFINE o == Only(table, K)
<1>1. \A j \in 1..Len(o) : \E a \in 1..Len(table) :
         /\ table[a] = o[j]
         /\ \A h \in (a + 1)..Len(table) : table[h] \in K => \E k \in (j + 1)..Len(o) : o[k] = table[h]
    BY OnlyOrder
<1> HIDE DEF o
<1> SUFFICES ASSUME Ordered(table, i, ack, lo, hi),
                    \A a \in 1..Len(table) : \A p \in (lo + 1)..hi :
                       table[a].id = <<i, p>> /\ table[a].sub = i => table[a] \in K
             PROVE  Ordered(o, i, ack, lo, hi)
    BY DEF o
<1> SUFFICES ASSUME NEW j \in 1..Len(o), NEW p \in (lo + 1)..hi,
                    o[j].id = ack \/ (o[j].id[1] = i /\ o[j].pos < p)
             PROVE  \E b \in (j + 1)..Len(o) : o[b].id = <<i, p>> /\ o[b].sub = i
    BY DEF Ordered
<1>2. PICK a \in 1..Len(table) :
         /\ table[a] = o[j]
         /\ \A h \in (a + 1)..Len(table) : table[h] \in K => \E k \in (j + 1)..Len(o) : o[k] = table[h]
    BY <1>1
<1>3. PICK b \in (a + 1)..Len(table) : table[b].id = <<i, p>> /\ table[b].sub = i
    BY <1>2 DEF Ordered
<1>4. b \in 1..Len(table)
    BY <1>2, <1>3
<1>5. table[b] \in K
    BY <1>3, <1>4
<1> QED
    BY <1>2, <1>3, <1>5

\* Cursors that change without a change of their identity, position or owner.
LEMMA OrderedSame ==
    ASSUME NEW table, NEW other, Len(other) = Len(table), Len(table) \in Nat, NEW i, NEW ack, NEW lo, NEW hi,
           \A a \in 1..Len(table) :
               /\ other[a].id = table[a].id /\ other[a].pos = table[a].pos
               /\ table[a].id[1] = i /\ table[a].sub = i => other[a].sub = i,
           Ordered(table, i, ack, lo, hi)
    PROVE  Ordered(other, i, ack, lo, hi)
<1> SUFFICES ASSUME NEW a \in 1..Len(other), NEW p \in (lo + 1)..hi,
                    other[a].id = ack \/ (other[a].id[1] = i /\ other[a].pos < p)
             PROVE  \E b \in (a + 1)..Len(other) : other[b].id = <<i, p>> /\ other[b].sub = i
    BY DEF Ordered
<1>0. a \in 1..Len(table) /\ (table[a].id = ack \/ (table[a].id[1] = i /\ table[a].pos < p))
    OBVIOUS
<1>1. PICK b \in (a + 1)..Len(table) : table[b].id = <<i, p>> /\ table[b].sub = i
    BY <1>0 DEF Ordered
<1>2. b \in 1..Len(table)
    BY <1>1
<1>3. table[b].id[1] = i
    BY <1>1
<1> QED
    BY <1>1, <1>2, <1>3

\* Cursors behind others: those of later positions, and of other subscriptions.
LEMMA OrderedJoin ==
    ASSUME NEW S, NEW s \in Seq(S), NEW t \in Seq(S), NEW i, NEW ack, NEW lo \in Int, NEW mid \in Int, NEW hi \in Int,
           Ordered(s, i, ack, lo, mid), Ordered(t, i, ack, lo, hi),
           \A p \in (lo + 1)..hi : mid < p => \E b \in 1..Len(t) : t[b].id = <<i, p>> /\ t[b].sub = i
    PROVE  Ordered(s \o t, i, ack, lo, hi)
<1> DEFINE u == s \o t
<1>1. /\ Len(u) = Len(s) + Len(t) /\ Len(s) \in Nat /\ Len(t) \in Nat
      /\ \A k \in 1..Len(s) : u[k] = s[k]
      /\ \A k \in 1..Len(t) : u[Len(s) + k] = t[k]
    BY ConcatIs
<1> HIDE DEF u
<1> SUFFICES ASSUME NEW a \in 1..Len(u), NEW p \in (lo + 1)..hi,
                    u[a].id = ack \/ (u[a].id[1] = i /\ u[a].pos < p)
             PROVE  \E b \in (a + 1)..Len(u) : u[b].id = <<i, p>> /\ u[b].sub = i
    BY DEF Ordered, u
<1>2. CASE a \notin 1..Len(s)
  <2>1. a - Len(s) \in 1..Len(t) /\ Len(s) + (a - Len(s)) = a
    BY <1>1, <1>2
  <2>2. u[a] = t[a - Len(s)]
    BY <1>1, <2>1
  <2>3. PICK b \in ((a - Len(s)) + 1)..Len(t) : t[b].id = <<i, p>> /\ t[b].sub = i
    BY <2>1, <2>2 DEF Ordered
  <2>4. b \in 1..Len(t) /\ Len(s) + b \in (a + 1)..Len(u)
    BY <1>1, <2>1, <2>3
  <2> QED
    BY <1>1, <2>3, <2>4
<1>3. CASE a \in 1..Len(s) /\ p <= mid
  <2>1. u[a] = s[a] /\ p \in (lo + 1)..mid
    BY <1>1, <1>3
  <2>2. PICK b \in (a + 1)..Len(s) : s[b].id = <<i, p>> /\ s[b].sub = i
    BY <1>3, <2>1 DEF Ordered
  <2>3. b \in 1..Len(s) /\ b \in (a + 1)..Len(u)
    BY <1>1, <2>2
  <2> QED
    BY <1>1, <2>2, <2>3
<1>4. CASE a \in 1..Len(s) /\ ~(p <= mid)
  <2>0. mid < p
    BY <1>4
  <2>1. PICK b \in 1..Len(t) : t[b].id = <<i, p>> /\ t[b].sub = i
    BY <2>0
  <2>2. Len(s) + b \in (a + 1)..Len(u)
    BY <1>1, <1>4, <2>1
  <2> QED
    BY <1>1, <2>1, <2>2
<1> QED
    BY <1>2, <1>3, <1>4

\* The newest of the cursors.
LEMMA NewestOf ==
    ASSUME NEW S, NEW table \in Seq(S), NEW e \in 0..Len(table)
    PROVE  LET u == SubSeq(table, e + 1, Len(table))
           IN /\ u \in Seq(S) /\ Len(u) = Len(table) - e
              /\ \A k \in 1..Len(u) : u[k] = table[e + k] /\ e + k \in 1..Len(table)
              /\ Distinct(table) => Distinct(u)
              /\ \A i, ack, lo, hi : Ordered(table, i, ack, lo, hi) => Ordered(u, i, ack, lo, hi)
<1> DEFINE u == SubSeq(table, e + 1, Len(table))
<1>0. Len(table) \in Nat /\ e \in Nat /\ e <= Len(table)
    OBVIOUS
<1>1. /\ u \in Seq(S) /\ Len(u) = Len(table) - e /\ Len(table) \in Nat /\ Len(u) \in Nat
      /\ \A k \in 1..Len(u) : u[k] = table[e + k] /\ e + k \in 1..Len(table)
  <2>1. u \in Seq(S) /\ Len(u) = Len(table) - e
    BY <1>0
  <2>2. \A k \in 1..(Len(table) - e) : u[k] = table[e + k]
    BY <1>0
  <2> HIDE DEF u
  <2>3. \A k \in 1..(Len(table) - e) : e + k \in 1..Len(table)
    BY <1>0
  <2>4. Len(u) \in Nat
    BY <1>0, <2>1
  <2> QED
    BY <1>0, <2>1, <2>2, <2>3, <2>4
<1> HIDE DEF u
<1>2. Distinct(table) => Distinct(u)
  <2> SUFFICES ASSUME Distinct(table), NEW a \in 1..Len(u), NEW b \in 1..Len(u), a < b
               PROVE  u[a].id # u[b].id
    BY DEF Distinct
  <2>1. e + a < e + b /\ e + a \in 1..Len(table) /\ e + b \in 1..Len(table)
    BY <1>1
  <2> QED
    BY <1>1, <2>1 DEF Distinct
<1>3. ASSUME NEW i, NEW ack, NEW lo, NEW hi, Ordered(table, i, ack, lo, hi)
      PROVE  Ordered(u, i, ack, lo, hi)
  <2> SUFFICES ASSUME NEW a \in 1..Len(u), NEW p \in (lo + 1)..hi,
                      u[a].id = ack \/ (u[a].id[1] = i /\ u[a].pos < p)
               PROVE  \E b \in (a + 1)..Len(u) : u[b].id = <<i, p>> /\ u[b].sub = i
    BY DEF Ordered
  <2>1. u[a] = table[e + a] /\ e + a \in 1..Len(table)
    BY <1>1
  <2>2. PICK b \in ((e + a) + 1)..Len(table) : table[b].id = <<i, p>> /\ table[b].sub = i
    BY <1>3, <2>1 DEF Ordered
  <2>3. b - e \in (a + 1)..Len(u) /\ b - e \in 1..Len(u) /\ e + (b - e) = b
    BY <1>1, <2>1, <2>2
  <2>4. u[b - e] = table[b]
    BY <1>1, <2>3
  <2> QED
    BY <2>2, <2>3, <2>4
<1> QED
    BY <1>1, <1>2, <1>3 DEF u

\* New cursors that push out the oldest ones.
LEMMA InsertedKeeps ==
    ASSUME NEW S, NEW table \in Seq(S), NEW new \in Seq(S)
    PROVE  /\ Distinct(table \o new) => Distinct(Inserted(table, new))
           /\ \A i, ack, lo, hi : Ordered(table \o new, i, ack, lo, hi) => Ordered(Inserted(table, new), i, ack, lo, hi)
           /\ \A k \in 1..Len(Inserted(table, new)) :
                 \/ \E a \in 1..Len(table) : Inserted(table, new)[k] = table[a]
                 \/ \E a \in 1..Len(new) : Inserted(table, new)[k] = new[a]
<1> DEFINE all == table \o new
           extra == Len(all) - MaxCursors
           u == SubSeq(all, extra + 1, Len(all))
<1>1. /\ all \in Seq(S) /\ Len(all) = Len(table) + Len(new) /\ Len(table) \in Nat /\ Len(new) \in Nat
      /\ \A k \in 1..Len(table) : all[k] = table[k]
      /\ \A k \in 1..Len(new) : all[Len(table) + k] = new[k]
    BY ConcatIs
<1>2. Inserted(table, new) = IF extra > 0 THEN u ELSE all
    BY DEF Inserted
<1> HIDE DEF all
<1>3. \A k \in 1..Len(all) : (\E a \in 1..Len(table) : all[k] = table[a]) \/ (\E a \in 1..Len(new) : all[k] = new[a])
  <2> SUFFICES ASSUME NEW k \in 1..Len(all)
               PROVE  (\E a \in 1..Len(table) : all[k] = table[a]) \/ (\E a \in 1..Len(new) : all[k] = new[a])
    OBVIOUS
  <2>1. CASE k <= Len(table)
    <3>1. k \in 1..Len(table)
      BY <1>1, <2>1
    <3> QED
      BY <1>1, <3>1
  <2>2. CASE ~(k <= Len(table))
    <3>1. k - Len(table) \in 1..Len(new) /\ Len(table) + (k - Len(table)) = k
      BY <1>1, <2>2
    <3> QED
      BY <1>1, <3>1
  <2> QED
    BY <2>1, <2>2
<1>4. CASE extra > 0
  <2>1. extra \in 0..Len(all)
    BY <1>1, <1>4, Bounds
  <2> HIDE DEF extra
  <2>2. /\ \A k \in 1..Len(u) : u[k] = all[extra + k] /\ extra + k \in 1..Len(all)
        /\ Distinct(all) => Distinct(u)
        /\ \A i, ack, lo, hi : Ordered(all, i, ack, lo, hi) => Ordered(u, i, ack, lo, hi)
    BY <1>1, <2>1, NewestOf
  <2>3. Inserted(table, new) = u
    BY <1>2, <1>4
  <2> HIDE DEF u
  <2>4. \A k \in 1..Len(u) : (\E a \in 1..Len(table) : u[k] = table[a]) \/ (\E a \in 1..Len(new) : u[k] = new[a])
    BY <1>3, <2>2
  <2> QED
    BY <2>2, <2>3, <2>4 DEF all
<1>5. CASE ~(extra > 0)
  <2>1. Inserted(table, new) = all
    BY <1>2, <1>5
  <2> QED
    BY <1>3, <2>1 DEF all
<1> QED
    BY <1>4, <1>5

\* The cursors of deliveries in a row.
RowOf(i, b, n) == NewCursors(i, Span(b + 1, b + n))

LEMMA NewCursorsRow ==
    ASSUME NEW i, NEW b \in Nat, NEW n \in Nat
    PROVE  /\ Len(RowOf(i, b, n)) = n
           /\ \A k \in 1..n : \A p : p = b + k => RowOf(i, b, n)[k] = Cursor(i, p)
           /\ Distinct(RowOf(i, b, n))
           /\ \A p \in (b + 1)..(b + n) : \E k \in 1..n : RowOf(i, b, n)[k].id = <<i, p>> /\ RowOf(i, b, n)[k].sub = i
           /\ \A ack : (\A k \in 1..n : RowOf(i, b, n)[k].id # ack) => Ordered(RowOf(i, b, n), i, ack, b, b + n)
<1> DEFINE new == RowOf(i, b, n)
<1>1. Len(Span(b + 1, b + n)) = n /\ \A k \in 1..n : Span(b + 1, b + n)[k] = b + k
    BY SpanAt
<1>2. new = [k \in 1..n |-> Cursor(i, Span(b + 1, b + n)[k])]
    BY <1>1 DEF RowOf, NewCursors
<1>3. Len(new) = n /\ \A k \in 1..n : new[k] = Cursor(i, b + k)
  <2> HIDE DEF Cursor
  <2>1. new = [k \in 1..n |-> Cursor(i, b + k)]
    BY <1>1, <1>2
  <2> HIDE DEF new
  <2> QED
    BY <2>1
<1> HIDE DEF new
<1>4. \A k \in 1..n : new[k].id = <<i, b + k>> /\ new[k].sub = i /\ new[k].pos = b + k
    BY <1>3 DEF Cursor
<1>5. Distinct(new)
  <2> SUFFICES ASSUME NEW x \in 1..Len(new), NEW y \in 1..Len(new), x < y  PROVE new[x].id # new[y].id
    BY DEF Distinct
  <2>1. new[x].id = <<i, b + x>> /\ new[y].id = <<i, b + y>> /\ b + x # b + y
    BY <1>3, <1>4
  <2> QED
    BY <2>1
<1>6. \A p \in (b + 1)..(b + n) : p - b \in 1..n /\ new[p - b].id = <<i, p>> /\ new[p - b].sub = i
  <2> TAKE p \in (b + 1)..(b + n)
  <2>1. p - b \in 1..n /\ b + (p - b) = p
    OBVIOUS
  <2> QED
    BY <1>4, <2>1
<1>7. ASSUME NEW ack, \A k \in 1..n : new[k].id # ack
      PROVE  Ordered(new, i, ack, b, b + n)
  <2> SUFFICES ASSUME NEW a \in 1..Len(new), NEW p \in (b + 1)..(b + n), new[a].id = ack \/ new[a].pos < p
               PROVE  \E c \in (a + 1)..Len(new) : new[c].id = <<i, p>> /\ new[c].sub = i
    BY DEF Ordered
  <2>1. b + a < p
    BY <1>3, <1>4, <1>7
  <2>2. p - b \in (a + 1)..Len(new)
    BY <1>3, <2>1
  <2> QED
    BY <1>6, <2>2
<1>8. \A p \in (b + 1)..(b + n) : \E k \in 1..n : new[k].id = <<i, p>> /\ new[k].sub = i
    BY <1>6
<1> QED
    BY <1>3, <1>5, <1>7, <1>8 DEF new

-----------------------------------------------------------------------------
(* A step of the daemon that answers no request of the client.             *)

\* What a step does to what was issued.
Aged ==
    /\ Len(subs) <= Len(subs') /\ log <= log'
    /\ \A i \in 1..Len(subs) : subs'[i].state = "loading" =>
          subs[i].state = "loading" /\ subs'[i].base = subs[i].base

Onward ==
    /\ Aged
    /\ \A k \in 1..Len(cursors') : HasCursor(cursors'[k].id) \/ ~Issued(cursors'[k].id)

\* What a step does to a subscription of the client when it sends it the events ev.
Steady(i, ev) ==
    /\ subs'[i].conn = subs[i].conn /\ subs'[i].base = subs[i].base
    /\ subs[i].state = "active" <=> subs'[i].state = "active"
    /\ subs'[i].ackPos = subs[i].ackPos /\ subs[i].seq <= subs'[i].seq
    /\ Of(ev, i) = Sent(i, subs[i].base, subs[i].seq, subs'[i].seq)
    /\ \A ack : (ack = None \/ Issued(ack)) /\ Orderly(i, ack) /\ subs'[i].state = "active"
                => Ordered(cursors', i, ack, subs'[i].ackPos, log')

Undisturbed(ev) ==
    /\ Onward /\ ev \in Seq(Events) /\ Recent(ev)'
    /\ this.conn # 0 => /\ down'[this.conn] = down[this.conn] \o ev /\ up'[this.conn] = up[this.conn]
                        /\ \A i \in 1..Len(subs) : subs[i].conn = this.conn => Steady(i, ev)

\* A subscription has sent no more than the log holds.
LEMMA SubFacts ==
    ASSUME NEW n \in 0..MaxEvents, NEW s \in Fit(n), NEW i, Enlisted(s, i)
    PROVE  /\ n \in Nat /\ n <= MaxEvents
           /\ s.base \in Nat /\ s.seq \in Nat /\ s.ackPos \in Int /\ s.base <= n
           /\ s.base + s.seq <= n /\ s.base + s.seq <= MaxEvents
           /\ s.state = "active" => s.base + s.seq = n
           /\ s.state # "active" => s.seq = 0
<1>1. s \in SubRecords /\ Owes(s, n)
    BY DEF Fit
<1>2. s.base \in Nat /\ s.seq \in Nat /\ s.ackPos \in Int
    BY <1>1, Bounds DEF SubRecords
<1>3. n \in Nat /\ n <= MaxEvents
    BY Bounds
<1>4. s.base <= n /\ (s.state = "active" => s.seq = n - s.base)
    BY <1>1 DEF Owes
<1>5. s.state # "active" => s.seq = 0
    BY DEF Enlisted
<1>6. CASE s.state = "active"
  <2>1. s.seq = n - s.base
    BY <1>4, <1>6
  <2>2. s.base + s.seq = n
    BY <1>2, <1>3, <2>1
  <2> QED
    BY <1>2, <1>3, <1>4, <1>6, <2>2
<1>7. CASE s.state # "active"
  <2>1. PICK x \in Nat : x = s.base /\ x <= n
    BY <1>2, <1>4
  <2>2. s.base + s.seq = x
    BY <1>5, <1>7, <2>1
  <2>3. x <= MaxEvents
    BY <1>3, <2>1, Bounds
  <2>4. s.base + s.seq <= n /\ s.base + s.seq <= MaxEvents
    BY <2>1, <2>2, <2>3
  <2> QED
    BY <1>2, <1>3, <1>4, <1>5, <1>7, <2>4
<1> QED
    BY <1>6, <1>7

\* The same, of the subscriptions in use.
LEMMA SubIs ==
    ASSUME Sizes, SubsInv, Roster, NEW i \in 1..Len(subs)
    PROVE  /\ subs[i] \in Fit(log) /\ Enlisted(subs[i], i) /\ i \in 1..MaxSubs /\ i \in Nat
           /\ log \in Nat /\ log <= MaxEvents
           /\ subs[i].base \in Nat /\ subs[i].seq \in Nat /\ subs[i].ackPos \in Int /\ subs[i].base <= log
           /\ subs[i].base + subs[i].seq <= log /\ subs[i].base + subs[i].seq <= MaxEvents
           /\ subs[i].state = "active" => subs[i].base + subs[i].seq = log
           /\ subs[i].state # "active" => subs[i].seq = 0
<1>1. subs[i] \in Fit(log) /\ Len(subs) \in Nat /\ Len(subs) <= MaxSubs /\ log \in 0..MaxEvents
    BY DEF SubsInv, Sizes
<1>2. Enlisted(subs[i], i)
    BY DEF Roster
<1>3. i \in 1..MaxSubs /\ i \in Nat
    BY <1>1, Bounds
<1>4. /\ log \in Nat /\ log <= MaxEvents
      /\ subs[i].base \in Nat /\ subs[i].seq \in Nat /\ subs[i].ackPos \in Int /\ subs[i].base <= log
      /\ subs[i].base + subs[i].seq <= log /\ subs[i].base + subs[i].seq <= MaxEvents
      /\ subs[i].state = "active" => subs[i].base + subs[i].seq = log
      /\ subs[i].state # "active" => subs[i].seq = 0
    BY <1>1, <1>2, SubFacts
<1> QED
    BY <1>1, <1>2, <1>3, <1>4

\* The fields of the object.
LEMMA ObjectIs ==
    ASSUME NEW t, Sound(t)
    PROVE  /\ t.view \in Seq(Nat) /\ Len(t.view) \in Nat /\ t.current \in 0..MaxSubs /\ t.ack \in CursorIds
           /\ t.cursor \in CursorIds /\ t.pending \in Seq(Events) /\ t.pending \in Seq(Messages)
           /\ t.chain \in Seq(Events) /\ t.chain \in Seq(Messages) /\ t.seq \in Nat /\ t.newest \in Nat
           /\ t.waiting \in Seq(Waiters) /\ Len(t.waiting) \in Nat /\ t.conn \in 0..MaxConns
           /\ t.bound \in BOOLEAN /\ t.missed \in BOOLEAN /\ t.force \in BOOLEAN
<1>1. /\ t.view \in Seq(Nat) /\ t.current \in 0..MaxSubs /\ t.ack \in CursorIds
      /\ t.cursor \in CursorIds /\ t.pending \in Seq(Events) /\ t.chain \in Seq(Events)
      /\ t.seq \in Nat /\ t.newest \in Nat /\ t.waiting \in Seq(Waiters) /\ t.conn \in 0..MaxConns
      /\ t.bound \in BOOLEAN /\ t.missed \in BOOLEAN /\ t.force \in BOOLEAN
    BY DEF Sound, Objects
<1>2. \A m \in Events : m \in Messages
    BY DEF Messages
<1>3. t.pending \in Seq(Messages) /\ t.chain \in Seq(Messages)
    BY <1>1, <1>2, Wider
<1>4. Len(t.view) \in Nat /\ Len(t.waiting) \in Nat
    BY <1>1
<1> QED
    BY <1>1, <1>3, <1>4

\* What was issued stays so, and an evicted cursor does not come back.
LEMMA IssuedStays ==
    ASSUME Onward, Len(subs) \in Nat, Len(subs') \in Nat, log \in Nat, log' \in Nat, NEW id, Issued(id)
    PROVE  Issued(id)' /\ (Unknown(id) => Unknown(id)')
<1>1. id # None /\ id[1] \in 1..Len(subs) /\ id[2] \in 0..log
      /\ (subs[id[1]].state = "loading" => id[2] = subs[id[1]].base)
    BY DEF Issued
<1>2. Len(subs) <= Len(subs') /\ log <= log'
      /\ (subs'[id[1]].state = "loading" => subs[id[1]].state = "loading" /\ subs'[id[1]].base = subs[id[1]].base)
    BY <1>1 DEF Onward, Aged
<1>3. id[1] \in 1..Len(subs') /\ id[2] \in 0..log'
    BY <1>1, <1>2
<1>4. Issued(id)'
    BY <1>1, <1>2, <1>3 DEF Issued
<1>5. ASSUME Unknown(id)  PROVE Unknown(id)'
  <2> SUFFICES ASSUME NEW k \in 1..Len(cursors'), cursors'[k].id = id  PROVE FALSE
    BY DEF Unknown, HasCursor
  <2>1. HasCursor(id) \/ ~Issued(id)
    BY DEF Onward, Aged
  <2> QED
    BY <1>5, <2>1 DEF Unknown
<1> QED
    BY <1>4, <1>5

\* The table has no cursor without an identity.
LEMMA NoneUnknown ==
    ASSUME Table
    PROVE  Unknown(None)
<1> SUFFICES ASSUME NEW k \in 1..Len(cursors), cursors[k].id = None  PROVE FALSE
    BY DEF Unknown, HasCursor
<1>1. cursors[k] \in Named
    BY DEF Table
<1> QED
    BY <1>1 DEF Named, Issued

\* The acknowledged cursor, as well.
LEMMA AckStays ==
    ASSUME Onward, Len(subs) \in Nat, Len(subs') \in Nat, log \in Nat, log' \in Nat, Table, Table',
           NEW id, id = None \/ Issued(id), Unknown(id)
    PROVE  Unknown(id)'
<1>1. CASE id = None
  <2> SUFFICES ASSUME NEW k \in 1..Len(cursors'), cursors'[k].id = None  PROVE FALSE
    BY <1>1 DEF Unknown, HasCursor
  <2>1. cursors'[k] \in Named'
    BY DEF Table
  <2> QED
    BY <2>1 DEF Named, Issued
<1>2. CASE Issued(id)
    BY <1>2, IssuedStays
<1> QED
    BY <1>1, <1>2

\* Messages behind messages.
LEMMA MessagesJoin ==
    \A x, y, z \in Seq(Messages) : x \o y \in Seq(Messages) /\ Cat(x, Cat(y, z)) = Cat(Cat(x, y), z)
<1> SUFFICES ASSUME NEW x \in Seq(Messages), NEW y \in Seq(Messages), NEW z \in Seq(Messages)
             PROVE  x \o y \in Seq(Messages) /\ x \o (y \o z) = (x \o y) \o z
    BY DEF Cat
<1> QED
    BY ConcatTwice

\* A subscription whose events are all still to be handled stays one.
LEMMA BegunStays ==
    ASSUME Sizes, SubsInv, Roster, Sizes', SubsInv', Roster', Onward,
           NEW t, Sound(t), AckSafe(t), NEW dq \in Seq(Messages), NEW ev \in Seq(Events),
           NEW i, Begun(t, dq, i), Steady(i, ev)
    PROVE  Begun(t, dq \o ev, i)'
<1>0. i \in 1..Len(subs) /\ subs[i].conn = t.conn /\ Orderly(i, t.ack)
      /\ (subs[i].state = "active" => subs[i].ackPos <= subs[i].base)
      /\ Of(t.pending \o dq, i) = Sent(i, subs[i].base, 0, subs[i].seq)
    BY DEF Begun
<1>1. Len(subs) \in Nat /\ Len(subs') \in Nat /\ Len(subs) <= Len(subs')
    BY DEF Onward, Aged, SubsInv
<1>2. i \in 1..Len(subs')
    BY <1>0, <1>1
<1>3. /\ i \in 1..MaxSubs /\ subs[i].base \in Nat /\ subs[i].seq \in Nat
      /\ subs[i].state # "active" => subs[i].seq = 0
    BY <1>0, SubIs
<1>4. subs'[i].base \in Nat /\ subs'[i].seq \in Nat /\ subs'[i].base + subs'[i].seq <= MaxEvents
  <2>1. log' \in 0..MaxEvents /\ subs'[i] \in Fit(log') /\ Enlisted(subs'[i], i)
    BY <1>2 DEF Sizes, SubsInv, Roster
  <2> QED
    BY <2>1, SubFacts
<1>5. /\ subs'[i].conn = subs[i].conn /\ subs'[i].base = subs[i].base
      /\ subs'[i].ackPos = subs[i].ackPos /\ subs[i].seq <= subs'[i].seq
      /\ Of(ev, i) = Sent(i, subs[i].base, subs[i].seq, subs'[i].seq)
      /\ subs[i].state = "active" <=> subs'[i].state = "active"
    BY DEF Steady
<1>6. Orderly(i, t.ack)'
  <2>1. t.ack = None \/ Issued(t.ack)
    BY DEF AckSafe
  <2>2. subs'[i].state = "active" => Ordered(cursors', i, t.ack, subs'[i].ackPos, log')
    BY <1>0, <2>1 DEF Steady
  <2> QED
    BY <2>2 DEF Orderly
<1>7. subs'[i].state = "active" => subs'[i].ackPos <= subs'[i].base
    BY <1>0, <1>3, <1>5
<1> DEFINE d == Sent(i, subs[i].base, 0, subs[i].seq)
           x == t.pending \o dq
           y == t.pending \o (dq \o ev)
<1>8. Of(y, i) = d \o Of(ev, i)
  <2>0. \A m \in Events : m \in Messages
    BY DEF Messages
  <2>1. ev \in Seq(Messages)
    BY <2>0, Wider
  <2>2. t.pending \in Seq(Messages)
    BY ObjectIs
  <2>3. x \in Seq(Messages) /\ y = x \o ev
    BY <2>1, <2>2, MessagesJoin DEF Cat
  <2>4. Of(x, i) = d
    BY <1>0
  <2> HIDE DEF x, y, d
  <2>5. Of(x \o ev, i) = Of(x, i) \o Of(ev, i)
    BY <2>1, <2>3, OfConcat
  <2> QED
    BY <2>3, <2>4, <2>5
<1>9. d \o Of(ev, i) = Sent(i, subs[i].base, 0, subs'[i].seq)
  <2>1. PICK b \in Nat, s \in Nat, r \in Nat : b = subs[i].base /\ s = subs[i].seq /\ r = subs'[i].seq
    BY <1>3, <1>4
  <2>2. 0 \in Nat /\ 0 <= s /\ s <= r /\ b + r <= MaxEvents
    BY <1>4, <1>5, <2>1
  <2>3. i \in 1..MaxSubs /\ b \in Nat /\ s \in Nat /\ r \in Nat
    BY <1>3, <2>1
  <2>4. Cat(Sent(i, b, 0, s), Sent(i, b, s, r)) = Sent(i, b, 0, r)
    BY <2>2, <2>3, SentJoin
  <2> QED
    BY <1>5, <2>1, <2>4 DEF Cat
<1> HIDE DEF d, x, y
<1>10. Of(y, i) = Sent(i, subs'[i].base, 0, subs'[i].seq)
    BY <1>5, <1>8, <1>9
<1> QED
    BY <1>0, <1>2, <1>5, <1>6, <1>7, <1>10 DEF Begun, y

\* A step of the daemon that does no more to the client of t than to send it the events ev.
Calm(t, ev) ==
    /\ Sizes /\ SubsInv /\ Roster /\ Table /\ Sizes' /\ SubsInv' /\ Roster' /\ Table'
    /\ Onward /\ Sound(t) /\ t.conn # 0 /\ ev \in Seq(Events)
    /\ \A i \in 1..Len(subs) : subs[i].conn = t.conn => Steady(i, ev)

\* What such a step leaves as it is.
LEMMA CalmFacts ==
    ASSUME NEW t, NEW ev, Calm(t, ev), NEW i \in 1..Len(subs), subs[i].conn = t.conn
    PROVE  /\ i \in 1..Len(subs') /\ i \in 1..MaxSubs /\ Len(subs) <= Len(subs')
           /\ subs'[i].conn = t.conn /\ subs'[i].base = subs[i].base
           /\ subs'[i].ackPos = subs[i].ackPos /\ subs[i].seq <= subs'[i].seq
           /\ subs[i].state = "active" <=> subs'[i].state = "active"
           /\ subs[i].base \in Nat /\ subs[i].seq \in Nat /\ subs'[i].seq \in Nat
           /\ subs[i].ackPos \in Int
           /\ subs[i].base + subs'[i].seq <= MaxEvents
           /\ Of(ev, i) = Sent(i, subs[i].base, subs[i].seq, subs'[i].seq)
           /\ \A ack : (ack = None \/ Issued(ack)) /\ Orderly(i, ack) => Orderly(i, ack)'
<1>1. Steady(i, ev) /\ Sizes /\ SubsInv /\ Roster /\ Sizes' /\ SubsInv' /\ Roster' /\ Onward
    BY DEF Calm
<1>2. Len(subs) \in Nat /\ Len(subs') \in Nat /\ Len(subs) <= Len(subs')
    BY <1>1 DEF Onward, Aged, SubsInv
<1>3. i \in 1..Len(subs')
    BY <1>2
<1>4. i \in 1..MaxSubs /\ subs[i].base \in Nat /\ subs[i].seq \in Nat /\ subs[i].ackPos \in Int
    BY <1>1, SubIs
<1>5. subs'[i].base \in Nat /\ subs'[i].seq \in Nat /\ subs'[i].base + subs'[i].seq <= MaxEvents
  <2>1. log' \in 0..MaxEvents /\ subs'[i] \in Fit(log') /\ Enlisted(subs'[i], i)
    BY <1>1, <1>3 DEF Sizes, SubsInv, Roster
  <2> QED
    BY <2>1, SubFacts
<1>6. /\ subs'[i].conn = t.conn /\ subs'[i].base = subs[i].base
      /\ subs'[i].ackPos = subs[i].ackPos /\ subs[i].seq <= subs'[i].seq
      /\ subs[i].state = "active" <=> subs'[i].state = "active"
      /\ Of(ev, i) = Sent(i, subs[i].base, subs[i].seq, subs'[i].seq)
    BY <1>1 DEF Steady
<1>7. ASSUME NEW ack, ack = None \/ Issued(ack), Orderly(i, ack)  PROVE Orderly(i, ack)'
  <2>1. subs'[i].state = "active" => Ordered(cursors', i, ack, subs'[i].ackPos, log')
    BY <1>1, <1>7 DEF Steady
  <2> QED
    BY <2>1 DEF Orderly
<1> QED
    BY <1>2, <1>3, <1>4, <1>5, <1>6, <1>7

\* A bound view follows its subscription still.
LEMMA FollowingStays ==
    ASSUME NEW t, NEW ev, Calm(t, ev), AckSafe(t), NEW dq \in Seq(Messages), Following(t, dq)
    PROVE  Following(t, dq \o ev)'
<1> DEFINE i == t.current
<1>1. /\ i \in 1..Len(subs) /\ subs[i].conn = t.conn /\ Orderly(i, t.ack)
      /\ subs[i].state = "active" /\ t.seq <= subs[i].seq
      /\ subs[i].ackPos <= subs[i].base + t.seq /\ subs[i].base + t.seq <= Len(t.view)
      /\ Tracked(t, dq) /\ (t.phase = "idle" => t.pending = <<>>)
    BY DEF Following
<1>2. /\ i \in 1..Len(subs') /\ i \in 1..MaxSubs
      /\ subs'[i].conn = t.conn /\ subs'[i].base = subs[i].base
      /\ subs'[i].ackPos = subs[i].ackPos /\ subs[i].seq <= subs'[i].seq
      /\ subs[i].state = "active" <=> subs'[i].state = "active"
      /\ subs[i].base \in Nat /\ subs[i].seq \in Nat /\ subs'[i].seq \in Nat
      /\ subs[i].base + subs'[i].seq <= MaxEvents
      /\ Of(ev, i) = Sent(i, subs[i].base, subs[i].seq, subs'[i].seq)
      /\ \A ack : (ack = None \/ Issued(ack)) /\ Orderly(i, ack) => Orderly(i, ack)'
    BY <1>1, CalmFacts
<1>3. t.seq \in Nat /\ t.chain \in Seq(Messages) /\ ev \in Seq(Messages)
  <2>1. \A m \in Events : m \in Messages
    BY DEF Messages
  <2> QED
    BY <2>1, ObjectIs, Wider DEF Calm
<1>4. Orderly(i, t.ack)'
    BY <1>1, <1>2 DEF AckSafe
<1>5. PICK b \in Nat, s \in Nat, u \in Nat, n \in Nat :
         b = subs[i].base /\ s = subs[i].seq /\ u = subs'[i].seq /\ n = t.seq
    BY <1>2, <1>3
<1>6. s <= u /\ b + u <= MaxEvents /\ n <= s
    BY <1>1, <1>2, <1>5
<1>7. PICK p \in Nat, r \in Nat :
          /\ n <= p /\ p <= r /\ r <= s
          /\ Of(t.pending, i) = Sent(i, b, n, p)
          /\ t.chain \o Of(dq, i) = Sent(i, b, r, s)
          /\ t.missed <=> p < r
          /\ ChainBusy(t) => p = n /\ r = p
    BY <1>1, <1>5 DEF Tracked
<1>8. n <= p /\ p <= r /\ r <= s
    BY <1>7
<1>9. r <= u
    BY <1>5, <1>6, <1>7, <1>8
<1> HIDE DEF i
<1>10. t.chain \o Of(dq \o ev, i) = Sent(i, b, r, u)
  <2>1. Of(dq \o ev, i) = Of(dq, i) \o Of(ev, i)
    BY <1>3, OfConcat
  <2>2. Of(dq, i) \in Seq(Messages) /\ Of(ev, i) \in Seq(Messages)
    BY <1>3, OfIs
  <2>3. Cat(t.chain, Cat(Of(dq, i), Of(ev, i))) = Cat(Cat(t.chain, Of(dq, i)), Of(ev, i))
    BY <1>3, <2>2, MessagesJoin
  <2>4. /\ i \in 1..MaxSubs /\ b \in Nat /\ r \in Nat /\ s \in Nat /\ u \in Nat
        /\ r <= s /\ s <= u /\ b + u <= MaxEvents
    BY <1>2, <1>5, <1>6, <1>7, <1>8
  <2>5. Cat(Sent(i, b, r, s), Sent(i, b, s, u)) = Sent(i, b, r, u)
    BY <2>4, SentJoin
  <2>6. Of(ev, i) = Sent(i, b, s, u)
    BY <1>2, <1>5
  <2> QED
    BY <1>7, <2>1, <2>3, <2>5, <2>6 DEF Cat
<1>11. Tracked(t, dq \o ev)'
  <2>1. \E q, z \in Nat :
          /\ n <= q /\ q <= z /\ z <= u
          /\ Of(t.pending, i) = Sent(i, b, n, q)
          /\ t.chain \o Of(dq \o ev, i) = Sent(i, b, z, u)
          /\ t.missed <=> q < z
          /\ ChainBusy(t) => q = n /\ z = q
    BY <1>7, <1>9, <1>10
  <2>2. b = subs'[i].base /\ u = subs'[i].seq /\ n = t.seq
    BY <1>2, <1>5
  <2> QED
    BY <2>1, <2>2 DEF Tracked, i
<1>12. t.seq <= subs'[i].seq /\ subs'[i].ackPos <= subs'[i].base + t.seq /\ subs'[i].base + t.seq <= Len(t.view)
  <2>1. t.seq <= u
    BY <1>5, <1>6
  <2> QED
    BY <1>1, <1>2, <1>5, <2>1 DEF i
<1>13. /\ i \in 1..Len(subs') /\ subs'[i].conn = t.conn /\ subs'[i].state = "active"
       /\ (t.phase = "idle" => t.pending = <<>>)
    BY <1>1, <1>2 DEF i
<1> QED
    BY <1>4, <1>11, <1>12, <1>13 DEF Following, i

\* The lengths of the tables, and the acknowledged cursor.
LEMMA CalmSizes ==
    ASSUME NEW t, NEW ev, Calm(t, ev)
    PROVE  /\ Len(subs) \in Nat /\ Len(subs') \in Nat /\ Len(subs) <= Len(subs')
           /\ log \in Nat /\ log' \in Nat /\ log <= log' /\ Onward /\ Table /\ Table'
           /\ \A id : Issued(id) => Issued(id)'
           /\ \A id : (id = None \/ Issued(id)) /\ Unknown(id) => Unknown(id)'
<1>1. Len(subs) \in Nat /\ Len(subs') \in Nat /\ log \in Nat /\ log' \in Nat
    BY Bounds DEF Calm, SubsInv, Sizes
<1>2. Onward /\ Table /\ Table'
    BY DEF Calm
<1>3. Len(subs) <= Len(subs') /\ log <= log'
    BY <1>2 DEF Onward, Aged
<1>4. \A id : Issued(id) => Issued(id)'
    BY <1>1, <1>2, IssuedStays
<1>5. ASSUME NEW id, id = None \/ Issued(id), Unknown(id)  PROVE Unknown(id)'
    BY <1>1, <1>2, <1>5, AckStays
<1> QED
    BY <1>1, <1>2, <1>3, <1>4, <1>5

LEMMA BegunCalm ==
    ASSUME NEW t, NEW ev, Calm(t, ev), AckSafe(t), NEW dq \in Seq(Messages), NEW i, Begun(t, dq, i)
    PROVE  Begun(t, dq \o ev, i)' /\ i \in 1..Len(subs) /\ subs[i].conn = t.conn
<1>1. i \in 1..Len(subs) /\ subs[i].conn = t.conn
    BY DEF Begun
<1>2. Steady(i, ev)
    BY <1>1 DEF Calm
<1>3. Begun(t, dq \o ev, i)'
    BY <1>2, BegunStays DEF Calm
<1> QED
    BY <1>1, <1>3

\* A subscription that is in use belongs to the connection.
LEMMA InUse ==
    ASSUME NEW t, NEW dq, Placed(t), Streaming(t, dq), Joined(t) \/ t.phase = "drain"
    PROVE  t.current \in 1..Len(subs) /\ subs[t.current].conn = t.conn
<1>1. t.phase \in Reading \/ t.bound
    BY DEF Joined, Placed
<1>2. CASE t.phase \in Reading
    BY <1>2 DEF Streaming, Begun
<1>3. CASE t.bound
    BY <1>3 DEF Streaming, Following
<1> QED
    BY <1>1, <1>2, <1>3

\* Cursors of an active subscription that are gone do not come back.
LEMMA LapsedStays ==
    ASSUME Onward, Len(subs) \in Nat, Len(subs') \in Nat, log \in Nat, log' \in Nat, Table, Table',
           NEW t, t.ack = None \/ Issued(t.ack), t.current \in 1..Len(subs), subs[t.current].state = "active",
           NEW w, Issued(w.cursor), Lapsed(t, w)
    PROVE  Lapsed(t, w)'
<1>1. Unknown(t.ack)'
    BY AckStays DEF Lapsed
<1>2. ASSUME NEW p \in 0..(w.cursor[2] - 1)  PROVE Unknown(<<t.current, p>>)'
  <2>1. PICK id : id = <<t.current, p>>
    OBVIOUS
  <2>2. w.cursor[2] \in 0..log
    BY DEF Issued
  <2>3. p \in 0..log
    BY <2>2
  <2>4. id # None /\ id[1] = t.current /\ id[2] = p
    BY <2>1 DEF None
  <2>5. Issued(id)
    BY <2>3, <2>4 DEF Issued
  <2>6. Unknown(id)
    BY <2>1 DEF Lapsed
  <2>7. Unknown(id)'
    BY <2>5, <2>6, AckStays
  <2> QED
    BY <2>1, <2>7
<1> QED
    BY <1>1, <1>2 DEF Lapsed

\* An acknowledgement that is waited for, and its answer.
LEMMA AckingStays ==
    ASSUME NEW t, NEW ev, Calm(t, ev), AckSafe(t), NEW dq, Placed(t), Streaming(t, dq),
           NEW k \in 1..Len(t.waiting), Lined(t, k), Waits(t, k), NEW m,
           Acking(t, t.waiting[k]) => AckMatched(t, t.waiting[k], m)
    PROVE  Waits(t, k)' /\ (Acking(t, t.waiting[k]) => AckMatched(t, t.waiting[k], m)')
<1> DEFINE w == t.waiting[k]
           i == t.current
<1> SUFFICES ASSUME Acking(t, w)
             PROVE  Waits(t, k)' /\ AckMatched(t, w, m)'
    BY DEF Waits, Acking, Est
<1>1. Joined(t) \/ t.phase = "drain"
  <2>1. w.who = "chain" => t.bound
    BY DEF Lined
  <2> QED
    BY <2>1 DEF Acking, Joined, Reading
<1>2. i \in 1..Len(subs) /\ subs[i].conn = t.conn
    BY <1>1, InUse
<1>3. /\ subs'[i].base = subs[i].base /\ subs'[i].ackPos = subs[i].ackPos
      /\ subs[i].state = "active" <=> subs'[i].state = "active"
    BY <1>2, CalmFacts
<1>4. /\ Issued(w.cursor) /\ w.cursor[1] = i
      /\ w.cursor[2] <= subs[i].base + t.seq /\ w.cursor[2] <= Len(t.view)
      /\ \A j \in 1..(k - 1) : Acking(t, t.waiting[j]) => t.waiting[j].cursor[2] < w.cursor[2]
    BY DEF Waits
<1>5. Issued(w.cursor)'
    BY <1>4, CalmSizes
<1>6. Waits(t, k)'
    BY <1>3, <1>4, <1>5 DEF Waits, Acking, Est
<1>7. w.who = "chain" /\ Lapsed(t, w) => Lapsed(t, w)'
  <2> SUFFICES ASSUME w.who = "chain", Lapsed(t, w)  PROVE Lapsed(t, w)'
    OBVIOUS
  <2>1. subs[i].state = "active"
    BY DEF Lined, Streaming, Following
  <2>2. t.ack = None \/ Issued(t.ack)
    BY DEF AckSafe
  <2>3. Len(subs) \in Nat /\ Len(subs') \in Nat /\ log \in Nat /\ log' \in Nat /\ Onward /\ Table /\ Table'
    BY CalmSizes
  <2> QED
    BY <1>2, <1>4, <2>1, <2>2, <2>3, LapsedStays
<1>8. AckMatched(t, w, m)'
    BY <1>3, <1>7 DEF AckMatched
<1> QED
    BY <1>6, <1>8

\* A request to subscribe and its answer.
LEMMA SubscribingStays ==
    ASSUME NEW t, NEW ev, Calm(t, ev), AckSafe(t), NEW dq \in Seq(Messages), NEW m, SubscribeMatched(t, m, dq)
    PROVE  SubscribeMatched(t, m, dq \o ev)'
<1>1. ASSUME Begun(t, dq, m.sub)
      PROVE  /\ Begun(t, dq \o ev, m.sub)'
             /\ subs'[m.sub].base = subs[m.sub].base
             /\ subs[m.sub].state = "active" <=> subs'[m.sub].state = "active"
  <2>1. Begun(t, dq \o ev, m.sub)' /\ m.sub \in 1..Len(subs) /\ subs[m.sub].conn = t.conn
    BY <1>1, BegunCalm
  <2> QED
    BY <2>1, CalmFacts
<1> QED
    BY <1>1 DEF SubscribeMatched

\* A request for a page and its answer.
LEMMA PagingStays ==
    ASSUME NEW t, NEW ev, Calm(t, ev), NEW dq, Placed(t), Streaming(t, dq), t.phase = "history",
           NEW m, HistoryMatched(t, m)
    PROVE  HistoryMatched(t, m)'
<1>1. t.current \in 1..Len(subs) /\ subs[t.current].conn = t.conn
    BY InUse DEF Joined, Reading
<1>2. subs'[t.current].base = subs[t.current].base
    BY <1>1, CalmFacts
<1> QED
    BY <1>2 DEF HistoryMatched

\* All of the promises.
LEMMA ConversingStays ==
    ASSUME NEW t, NEW ev, Calm(t, ev), NEW dq \in Seq(Messages), NEW uq, Good(t, dq, uq)
    PROVE  Conversing(t, dq \o ev, uq)'
<1> SUFFICES ASSUME t.phase # "failed", NEW k \in 1..Len(t.waiting)
             PROVE  Lined(t, k)' /\ Waits(t, k)' /\ Matched(t, t.waiting[k], Talk(dq \o ev, uq)[k], dq \o ev)'
    BY DEF Conversing, Talk
<1> DEFINE m == Talk(dq, uq)[k]
           w == t.waiting[k]
<1>1. Lined(t, k) /\ Waits(t, k) /\ Matched(t, w, m, dq) /\ AckSafe(t) /\ Placed(t) /\ Streaming(t, dq)
    BY DEF Good, Conversing
<1>2. Talk(dq \o ev, uq)[k] = m
    BY TalkEvents DEF Calm
<1> HIDE DEF m, w
<1>3. Lined(t, k)'
    BY <1>1 DEF Lined, Est, Late, Joined, Reading, Awaiting
<1>4. Waits(t, k)' /\ (Acking(t, w) => AckMatched(t, w, m)')
    BY <1>1, AckingStays DEF Matched, w
<1>5. Est(w) /\ t.phase = "subscribe" => SubscribeMatched(t, m, dq \o ev)'
    BY <1>1, SubscribingStays DEF Matched
<1>6. Est(w) /\ t.phase = "history" => HistoryMatched(t, m)'
    BY <1>1, PagingStays DEF Matched
<1>7. w.who \in {"old", "stale"} \/ (Est(w) /\ t.phase \in {"leaving", "cleanup"}) => m \in Ends
    BY <1>1 DEF Matched
<1>8. Matched(t, w, m, dq \o ev)'
    BY <1>4, <1>5, <1>6, <1>7 DEF Matched, Acking, Est, Ends, w, m, Talk
<1> QED
    BY <1>2, <1>3, <1>4, <1>8 DEF w

\* The view and what it waits for.
LEMMA StreamingStays ==
    ASSUME NEW t, NEW ev, Calm(t, ev), AckSafe(t), NEW dq \in Seq(Messages), Placed(t), Streaming(t, dq), Recent(ev)'
    PROVE  Streaming(t, dq \o ev)'
<1>1. Len(subs) \in Nat /\ Len(subs') \in Nat /\ Len(subs) <= Len(subs')
    BY CalmSizes
<1>2. ASSUME NEW q \in Seq(Messages), Recent(q)  PROVE Recent(q)'
  <2> SUFFICES ASSUME NEW k \in 1..Len(q), q[k].kind = "event"  PROVE q[k].sub <= Len(subs')
      BY DEF Recent
  <2>0. q[k] \in Messages
      OBVIOUS
  <2>1. q[k].sub <= Len(subs) /\ q[k] \in Events
      BY <1>2, <2>0, Kinds DEF Recent, Messages
  <2>2. q[k].sub \in Nat
      BY <2>1, Bounds DEF Events
  <2> QED
      BY <1>1, <2>1, <2>2
<1>3. t.pending \in Seq(Messages) /\ ev \in Seq(Messages)
  <2>1. \A m \in Events : m \in Messages
    BY DEF Messages
  <2> QED
    BY <2>1, ObjectIs, Wider DEF Calm
<1>4. Recent(t.pending)' /\ Recent(dq \o ev)'
  <2>1. Recent(t.pending)' /\ Recent(dq)'
    BY <1>2, <1>3 DEF Streaming
  <2>2. ASSUME NEW k \in 1..Len(dq \o ev)
        PROVE  (\E j \in 1..Len(dq) : (dq \o ev)[k] = dq[j]) \/ (\E j \in 1..Len(ev) : (dq \o ev)[k] = ev[j])
    BY <1>3
  <2> QED
    BY <2>1, <2>2 DEF Recent
<1>5. ASSUME t.phase \in Reading  PROVE t.seq = 0 /\ Begun(t, dq \o ev, t.current)' /\ Reads1(t)'
  <2>1. t.seq = 0 /\ Begun(t, dq, t.current) /\ Reads1(t)
    BY <1>5 DEF Streaming
  <2>2. Begun(t, dq \o ev, t.current)' /\ t.current \in 1..Len(subs) /\ subs[t.current].conn = t.conn
    BY <2>1, BegunCalm
  <2>3. /\ subs'[t.current].base = subs[t.current].base
        /\ subs[t.current].state = "active" <=> subs'[t.current].state = "active"
    BY <2>2, CalmFacts
  <2> QED
    BY <2>1, <2>2, <2>3 DEF Reads1
<1>6. ASSUME t.bound  PROVE Following(t, dq \o ev)'
    BY <1>6, FollowingStays DEF Streaming
<1> QED
    BY <1>4, <1>5, <1>6 DEF Streaming, Reading

\* Nothing that the client has, or was promised, is lost.
LEMMA GoodStays ==
    ASSUME NEW t, NEW ev, Calm(t, ev), NEW dq \in Seq(Messages), NEW uq, Good(t, dq, uq), Recent(ev)'
    PROVE  Good(t, dq \o ev, uq)'
<1>1. Placed(t) /\ Streaming(t, dq) /\ AckSafe(t) /\ Showing(t)
    BY DEF Good
<1>2. Conversing(t, dq \o ev, uq)'
    BY ConversingStays
<1>3. Streaming(t, dq \o ev)'
    BY <1>1, StreamingStays
<1>4. AckSafe(t)'
  <2>1. \A id : Issued(id) => Issued(id)'
    BY CalmSizes
  <2>2. \A id : (id = None \/ Issued(id)) /\ Unknown(id) => Unknown(id)'
    BY CalmSizes
  <2>3. t.ack = None \/ Issued(t.ack)
    BY <1>1 DEF AckSafe
  <2>4. Unknown(t.ack) => Unknown(t.ack)'
    BY <2>2, <2>3
  <2> QED
    BY <1>1, <2>1, <2>4 DEF AckSafe
<1>5. Showing(t)'
  <2>1. log \in Nat /\ log' \in Nat /\ log <= log' /\ Len(t.view) \in Nat
    BY CalmSizes, ObjectIs DEF Calm
  <2> QED
    BY <1>1, <2>1 DEF Showing
<1> QED
    BY <1>1, <1>2, <1>3, <1>4, <1>5 DEF Good, Placed

\* Without a connection the client waits for nothing.
LEMMA AloneStays ==
    ASSUME IInv, this.conn = 0, this' = this, Onward, Table, Table', Sizes', SubsInv', Good(this, <<>>, <<>>)
    PROVE  Good(this, <<>>, <<>>)'
<1>1. Placed(this) /\ Streaming(this, <<>>) /\ AckSafe(this) /\ Showing(this)
    BY DEF Good
<1>2. this.waiting = <<>> /\ this.phase = "idle" /\ ~this.bound
    BY <1>1 DEF IInv, Balanced, Placed
<1>3. Placed(this)'
    BY <1>1 DEF Placed
<1>4. Conversing(this, <<>>, <<>>)'
    BY <1>2 DEF Conversing
<1>5. Len(subs) \in Nat /\ Len(subs') \in Nat /\ Len(subs) <= Len(subs') /\ log \in Nat /\ log' \in Nat /\ log <= log'
    BY InvFacts, Bounds DEF SubsInv, Sizes, Onward, Aged
<1>6. Streaming(this, <<>>)'
  <2>1. Recent(this.pending)'
    <3> SUFFICES ASSUME NEW k \in 1..Len(this.pending), this.pending[k].kind = "event"
                 PROVE  this.pending[k].sub <= Len(subs')
        BY DEF Recent
    <3>1. this.pending[k] \in Events
        BY InvFacts, ObjectIs
    <3>2. this.pending[k].sub <= Len(subs) /\ this.pending[k].sub \in Nat
        BY <1>1, <3>1, Bounds DEF Streaming, Recent, Events
    <3> QED
        BY <1>5, <3>2
  <2> QED
    BY <1>2, <2>1 DEF Streaming, Recent, Reading
<1>7. AckSafe(this)'
  <2>1. this.ack = None \/ Issued(this.ack)
    BY <1>1 DEF AckSafe
  <2>2. (Issued(this.ack) => Issued(this.ack)') /\ (Unknown(this.ack) => Unknown(this.ack)')
    <3>1. \A id : Issued(id) => Issued(id)'
      BY <1>5, IssuedStays
    <3>2. \A id : (id = None \/ Issued(id)) /\ Unknown(id) => Unknown(id)'
      BY <1>5, AckStays
    <3> QED
      BY <2>1, <3>1, <3>2
  <2> QED
    BY <1>1, <1>2, <2>2 DEF AckSafe
<1>8. Showing(this)'
  <2>1. Len(this.view) \in Nat
    BY InvFacts, ObjectIs
  <2> QED
    BY <1>1, <1>5, <2>1 DEF Showing
<1> QED
    BY <1>3, <1>4, <1>6, <1>7, <1>8 DEF Good

\* A step of the daemon that leaves the client alone, but for new events.
LEMMA QuietKeeps ==
    ASSUME IInv, IInv', Stream, Roster', Table', Requested', this' = this, NEW ev, Undisturbed(ev)
    PROVE  Stream'
<1>1. Onward /\ ev \in Seq(Events) /\ Recent(ev)'
    BY DEF Undisturbed
<1>2. Sizes /\ SubsInv /\ Sizes' /\ SubsInv' /\ Roster /\ Table /\ Sound(this)
    BY InvFacts DEF IInv, DaemonInv, Stream
<1>3. CASE this.conn = 0
  <2>1. Good(this, <<>>, <<>>)
    BY <1>3 DEF Stream, Coming, Going
  <2>2. Good(this, <<>>, <<>>)'
    BY <1>1, <1>2, <1>3, <2>1, AloneStays
  <2> QED
    BY <1>3, <2>2 DEF Stream, Coming, Going
<1>4. CASE this.conn # 0
  <2>1. PICK t, dq, uq : t = this /\ dq = down[this.conn] /\ uq = up[this.conn]
    OBVIOUS
  <2>2. Calm(t, ev)
    BY <1>1, <1>2, <1>4, <2>1 DEF Calm, Undisturbed
  <2>3. down'[t.conn] = dq \o ev /\ up'[t.conn] = uq
    BY <1>4, <2>1 DEF Undisturbed
  <2>4. dq \in Seq(Messages)
    BY <1>4, <2>1, InvFacts
  <2>5. Good(t, dq, uq)
    BY <1>4, <2>1 DEF Stream, Coming, Going
  <2>6. Good(t, dq \o ev, uq)'
    BY <1>1, <2>2, <2>4, <2>5, GoodStays
  <2>7. Good(this, Coming(this.conn), Going(this.conn))'
    BY <1>4, <2>1, <2>3, <2>6 DEF Coming, Going
  <2> QED
    BY <2>7 DEF Stream
<1> QED
    BY <1>3, <1>4

-----------------------------------------------------------------------------
(* Time, and the end of other connections.                                 *)

\* A record that stays in the table is one of the table after the step.
LEMMA RowStays ==
    ASSUME Aged, Sizes, Sizes', SubsInv, SubsInv', NEW r \in Named
    PROVE  r \in Named'
<1>1. Len(subs) \in Nat /\ Len(subs') \in Nat /\ log \in Nat /\ log' \in Nat
    BY Bounds DEF SubsInv, Sizes
<1>2. /\ r \in CursorRecords /\ r.pos <= log /\ r.sub <= Len(subs) /\ Issued(r.id) /\ r.pos = r.id[2]
      /\ subs[r.sub].state = "loading" => r.id[1] = r.sub
    BY DEF Named, Held
<1>3. r.pos \in Nat /\ r.sub \in 1..Len(subs)
    BY <1>1, <1>2, Bounds DEF CursorRecords
<1>4. /\ Len(subs) <= Len(subs') /\ log <= log'
      /\ \A i \in 1..Len(subs) : subs'[i].state = "loading" =>
            subs[i].state = "loading" /\ subs'[i].base = subs[i].base
    BY DEF Aged
<1>5. r.pos <= log' /\ r.sub <= Len(subs')
    BY <1>1, <1>2, <1>3, <1>4
<1>6. Issued(r.id)'
  <2>1. r.id # None /\ r.id[1] \in 1..Len(subs) /\ r.id[2] \in 0..log
        /\ (subs[r.id[1]].state = "loading" => r.id[2] = subs[r.id[1]].base)
    BY <1>2 DEF Issued
  <2>2. r.id[1] \in 1..Len(subs') /\ r.id[2] \in 0..log'
    BY <1>1, <1>4, <2>1
  <2> QED
    BY <1>4, <2>1, <2>2 DEF Issued
<1>7. subs'[r.sub].state = "loading" => r.id[1] = r.sub
    BY <1>2, <1>3, <1>4
<1> QED
    BY <1>2, <1>5, <1>6, <1>7 DEF Named, Held

\* A table from which records were taken away.
LEMMA TableShrinks ==
    ASSUME Aged, Sizes, Sizes', SubsInv, SubsInv', Table, NEW K, cursors' = Only(cursors, K)
    PROVE  Table' /\ Onward
<1>1. cursors \in Seq(Named) /\ Distinct(cursors)
    BY DEF Table
<1>2. Only(cursors, K) \in Seq(Named) /\ \A k \in 1..Len(Only(cursors, K)) : \E j \in 1..Len(cursors) : Only(cursors, K)[k] = cursors[j]
    BY <1>1, OnlyOf
<1>3. \A r \in Named : r \in Named'
    BY RowStays
<1>4. cursors' \in Seq(Named')
    BY <1>2, <1>3, Wider
<1>5. Distinct(cursors')
    BY <1>1, DistinctOnly
<1>6. Onward
    BY <1>2 DEF Onward, HasCursor
<1>7. Table'
    BY <1>4, <1>5 DEF Table
<1> QED
    BY <1>6, <1>7

\* A subscription that a step sends nothing.
LEMMA SteadyStill ==
    ASSUME Sizes, SubsInv, Roster, NEW i \in 1..Len(subs),
           subs'[i].conn = subs[i].conn, subs'[i].base = subs[i].base, subs'[i].seq = subs[i].seq,
           subs[i].state = "active" <=> subs'[i].state = "active", subs'[i].ackPos = subs[i].ackPos,
           subs[i].state = "active" =>
              \A ack : (ack = None \/ Issued(ack)) /\ Ordered(cursors, i, ack, subs[i].ackPos, log)
                       => Ordered(cursors', i, ack, subs[i].ackPos, log')
    PROVE  Steady(i, <<>>)
<1>1. i \in 1..MaxSubs /\ subs[i].base \in Nat /\ subs[i].seq \in Nat /\ subs[i].base + subs[i].seq <= MaxEvents
    BY SubIs
<1>2. Of(<<>>, i) = <<>>
    BY OnlyNone DEF Of
<1>3. Sent(i, subs[i].base, subs[i].seq, subs[i].seq) = <<>>
    BY <1>1, SentNone
<1>4. ASSUME NEW ack, ack = None \/ Issued(ack), Orderly(i, ack), subs'[i].state = "active"
      PROVE  Ordered(cursors', i, ack, subs'[i].ackPos, log')
    BY <1>4 DEF Orderly
<1> QED
    BY <1>1, <1>2, <1>3, <1>4 DEF Steady

\* A step that takes records away, none of a subscription of the client, and sends nothing.
LEMMA StillKeeps ==
    ASSUME IInv, IInv', Stream, Roster', Requested', this' = this, Aged, log' = log,
           NEW K, cursors' = Only(cursors, K),
           this.conn # 0 => /\ down'[this.conn] = down[this.conn] /\ up'[this.conn] = up[this.conn]
                            /\ \A i \in 1..Len(subs) : subs[i].conn = this.conn =>
                                  /\ subs[i].state = "active" => subs'[i] = subs[i]
                                  /\ subs'[i].conn = subs[i].conn /\ subs'[i].base = subs[i].base
                                  /\ subs'[i].seq = subs[i].seq /\ subs'[i].ackPos = subs[i].ackPos
                                  /\ subs'[i].state = "active" => subs[i].state = "active"
                                  /\ subs[i].state = "active" =>
                                        \A a \in 1..Len(cursors) : cursors[a].sub = i => cursors[a] \in K
    PROVE  Stream'
<1>1. Sizes /\ SubsInv /\ Sizes' /\ SubsInv' /\ Roster /\ Table
    BY DEF IInv, DaemonInv, Stream
<1>2. Table' /\ Onward
    BY <1>1, TableShrinks
<1>3. cursors \in Seq(Named) /\ log \in Int
    BY <1>1, Bounds DEF Table, Sizes
<1>4. ASSUME this.conn # 0, NEW i \in 1..Len(subs), subs[i].conn = this.conn
      PROVE  Steady(i, <<>>)
  <2>1. subs[i].ackPos \in Int
    BY <1>1, SubIs
  <2>2. ASSUME subs[i].state = "active", NEW ack
        PROVE  Ordered(cursors, i, ack, subs[i].ackPos, log) => Ordered(cursors', i, ack, subs[i].ackPos, log')
    <3>1. \A a \in 1..Len(cursors) : \A p \in (subs[i].ackPos + 1)..log :
             cursors[a].id = <<i, p>> /\ cursors[a].sub = i => cursors[a] \in K
      BY <1>3, <1>4, <2>2
    <3>2. Ordered(cursors, i, ack, subs[i].ackPos, log) => Ordered(Only(cursors, K), i, ack, subs[i].ackPos, log)
      BY <1>3, <2>1, <3>1, OrderedOnly
    <3> QED
      BY <3>2
  <2> QED
    BY <1>1, <1>4, <2>2, SteadyStill
<1>5. Undisturbed(<<>>)
  <2>1. <<>> \in Seq(Events) /\ Recent(<<>>)'
    BY DEF Recent
  <2>2. this.conn # 0 => down[this.conn] \o <<>> = down[this.conn]
    BY InvFacts
  <2> QED
    BY <1>2, <1>4, <2>1, <2>2 DEF Undisturbed
<1> QED
    BY <1>2, <1>5, QuietKeeps

\* A snapshot expires.
LEMMA SnapshotExpiresKeeps ==
    ASSUME IInv, IInv', Stream, SnapshotExpires, this' = this
    PROVE  Stream'
<1>1. PICK i \in 1..Len(subs) :
          /\ subs[i].state = "loading"
          /\ subs' = [subs EXCEPT ![i].state = "invalid", ![i].tail = <<>>]
          /\ cursors' = Released(cursors, {i}, {})
    BY DEF SnapshotExpires
<1>2. log' = log /\ instance' = instance /\ sock' = sock /\ up' = up /\ down' = down
    BY DEF SnapshotExpires
<1>3. subs \in Seq(Fit(log)) /\ Len(subs) \in Nat /\ Roster /\ Requested /\ Table
    BY DEF IInv, DaemonInv, SubsInv, Stream
<1>4. /\ Len(subs') = Len(subs)
      /\ \A j \in 1..Len(subs) : j # i => subs'[j] = subs[j]
      /\ subs'[i] = [subs[i] EXCEPT !.state = "invalid", !.tail = <<>>]
  <2>1. PICK x : x = [subs[i] EXCEPT !.state = "invalid", !.tail = <<>>]
    OBVIOUS
  <2>2. subs' = [subs EXCEPT ![i] = x]
    BY <1>1, <1>3, <2>1
  <2>3. Len(subs') = Len(subs)
    BY <1>3, <2>2
  <2>4. subs'[i] = x
    BY <1>3, <2>2
  <2>5. \A j \in 1..Len(subs) : j # i => subs'[j] = subs[j]
    BY <1>3, <2>2
  <2> QED
    BY <2>1, <2>3, <2>4, <2>5
<1>5. subs[i] \in SubRecords
    BY <1>3 DEF Fit
<1>6. /\ subs'[i].state = "invalid" /\ subs'[i].conn = subs[i].conn /\ subs'[i].base = subs[i].base
      /\ subs'[i].seq = subs[i].seq /\ subs'[i].ackPos = subs[i].ackPos
    BY <1>4, <1>5 DEF SubRecords
<1>7. Aged
    BY <1>1, <1>2, <1>3, <1>4, <1>6, Bounds DEF Aged, IInv, DaemonInv, Sizes
<1>8. Roster'
  <2> SUFFICES ASSUME NEW j \in 1..Len(subs')
               PROVE  Enlisted(subs'[j], j) /\ (subs'[j].conn # 0 => sock[subs'[j].conn] \in {"open", "closing"})
      BY <1>2 DEF Roster
  <2>1. Enlisted(subs[j], j) /\ (subs[j].conn # 0 => sock[subs[j].conn] \in {"open", "closing"})
      BY <1>3, <1>4 DEF Roster
  <2>2. CASE j # i
      BY <1>4, <2>1, <2>2
  <2>3. CASE j = i
      BY <1>1, <1>6, <2>1, <2>3 DEF Enlisted
  <2> QED
      BY <2>2, <2>3
<1>9. Requested'
  <2>1. \A j \in 1..Len(subs) : subs'[j].conn = subs[j].conn
    BY <1>4, <1>6
  <2> QED
    BY <1>2, <1>3, <1>4, <2>1 DEF Requested
<1> DEFINE K == {r \in ToSet(cursors) : r.sub \notin {i} \/ r.id \in {}}
<1>10. cursors' = Only(cursors, K)
    BY <1>1 DEF Released
<1>11. ASSUME NEW j \in 1..Len(subs), subs[j].state = "active", NEW a \in 1..Len(cursors), cursors[a].sub = j
       PROVE  cursors[a] \in K
  <2>1. j # i
    BY <1>1, <1>11
  <2>2. cursors[a] \in ToSet(cursors)
    BY DEF ToSet
  <2> QED
    BY <1>11, <2>1, <2>2
<1> HIDE DEF K
<1>12. ASSUME this.conn # 0
       PROVE  /\ down'[this.conn] = down[this.conn] /\ up'[this.conn] = up[this.conn]
              /\ \A j \in 1..Len(subs) : subs[j].conn = this.conn =>
                    /\ subs[j].state = "active" => subs'[j] = subs[j]
                    /\ subs'[j].conn = subs[j].conn /\ subs'[j].base = subs[j].base
                    /\ subs'[j].seq = subs[j].seq /\ subs'[j].ackPos = subs[j].ackPos
                    /\ subs'[j].state = "active" => subs[j].state = "active"
                    /\ subs[j].state = "active" =>
                          \A a \in 1..Len(cursors) : cursors[a].sub = j => cursors[a] \in K
    BY <1>1, <1>2, <1>4, <1>6, <1>11
<1> QED
    BY <1>2, <1>7, <1>8, <1>9, <1>10, <1>12, StillKeeps

\* The oldest cursor expires.
LEMMA CursorsExpireKeeps ==
    ASSUME IInv, IInv', Stream, CursorsExpire, this' = this
    PROVE  Stream'
<1>1. /\ cursors # <<>> /\ cursors' = Tail(cursors) /\ subs' = subs
      /\ log' = log /\ instance' = instance /\ sock' = sock /\ up' = up /\ down' = down
    BY DEF CursorsExpire
<1>2. Sizes /\ SubsInv /\ Sizes' /\ SubsInv' /\ Roster /\ Table /\ Requested
    BY DEF IInv, DaemonInv, Stream
<1>3. cursors \in Seq(Named) /\ Distinct(cursors) /\ Len(subs) \in Nat /\ log \in Int
    BY <1>2, Bounds DEF Table, SubsInv, Sizes
<1>4. Aged
    BY <1>1, <1>3 DEF Aged
<1>5. /\ Len(cursors') = Len(cursors) - 1 /\ \A k \in 1..Len(cursors') : cursors'[k] = cursors[1 + k] /\ 1 + k \in 1..Len(cursors)
      /\ Distinct(cursors') /\ \A i, ack, lo, hi : Ordered(cursors, i, ack, lo, hi) => Ordered(cursors', i, ack, lo, hi)
  <2>1. PICK u : u = SubSeq(cursors, 1 + 1, Len(cursors))
    OBVIOUS
  <2>2. 1 \in 0..Len(cursors)
    BY <1>1, <1>3
  <2>3. /\ u \in Seq(Named) /\ Len(u) = Len(cursors) - 1
        /\ \A k \in 1..Len(u) : u[k] = cursors[1 + k] /\ 1 + k \in 1..Len(cursors)
        /\ Distinct(cursors) => Distinct(u)
        /\ \A i, ack, lo, hi : Ordered(cursors, i, ack, lo, hi) => Ordered(u, i, ack, lo, hi)
    BY <1>3, <2>1, <2>2, NewestOf
  <2>4. cursors' = u
    BY <1>1, <1>3, <2>1
  <2> QED
    BY <1>3, <2>3, <2>4
<1>6. cursors' \in Seq(Named)
    BY <1>1, <1>3
<1>7. Table'
  <2>1. \A r \in Named : r \in Named'
    BY <1>2, <1>4, RowStays
  <2>2. cursors' \in Seq(Named')
    BY <1>6, <2>1, Wider
  <2> QED
    BY <1>5, <2>2 DEF Table
<1>8. Onward
    BY <1>4, <1>5 DEF Onward, HasCursor
<1>9. Roster' /\ Requested'
    BY <1>1, <1>2 DEF Roster, Requested, Enlisted
<1>10. Undisturbed(<<>>)
  <2>1. <<>> \in Seq(Events) /\ Recent(<<>>)'
    BY DEF Recent
  <2>2. this.conn # 0 => down[this.conn] \o <<>> = down[this.conn]
    BY InvFacts
  <2>3. ASSUME NEW i \in 1..Len(subs)  PROVE Steady(i, <<>>)
    BY <1>1, <1>2, <1>5, SteadyStill
  <2> QED
    BY <1>1, <1>8, <2>1, <2>2, <2>3 DEF Undisturbed
<1> QED
    BY <1>7, <1>9, <1>10, QuietKeeps

\* The daemon notices the end of a connection, which is not the one in use.
LEMMA CleanupStream ==
    ASSUME IInv, IInv', Stream, NEW c \in Conns, Cleanup(c), this' = this
    PROVE  Stream'
<1> DEFINE ended == {i \in 1..Len(subs) : Attached(c, i)}
           K == {r \in ToSet(cursors) : r.sub \notin ended \/ r.id \in {subs[i].ackCursor : i \in ended}}
<1>1. /\ sock[c] = "closing" /\ sock' = [sock EXCEPT ![c] = "closed"] /\ up' = [up EXCEPT ![c] = <<>>]
      /\ subs' = [i \in 1..Len(subs) |-> IF i \in ended THEN Gone ELSE subs[i]]
      /\ cursors' = Only(cursors, K)
      /\ log' = log /\ instance' = instance /\ down' = down
    BY DEF Cleanup, Released
<1>2. Sizes /\ SubsInv /\ Roster /\ Table /\ Requested
    BY DEF IInv, DaemonInv, Stream
<1>3. subs \in Seq(Fit(log)) /\ Len(subs) \in Nat
    BY <1>2 DEF SubsInv
<1>4. \A i \in ended : i \in 1..Len(subs) /\ subs[i].conn = c
    BY DEF Attached
<1>5. \A i \in 1..Len(subs) : i \notin ended => subs[i].conn # c
    BY DEF Attached
<1>6. c # this.conn
  <2>1. c # 0
    BY Bounds DEF Conns
  <2> QED
    BY <1>1, <2>1 DEF IInv, Balanced
<1>7. ASSUME NEW a \in 1..Len(cursors), cursors[a].sub \notin ended  PROVE cursors[a] \in K
  <2>1. cursors[a] \in ToSet(cursors)
    BY DEF ToSet
  <2> QED
    BY <1>7, <2>1
<1> HIDE DEF ended, K
<1>8. Len(subs') = Len(subs) /\ \A i \in 1..Len(subs) : subs'[i] = IF i \in ended THEN Gone ELSE subs[i]
    BY <1>1, <1>3
<1>9. Gone.conn = 0 /\ Gone.state = "gone" /\ Gone.seq = 0 /\ Gone.ackPos = -1
    BY DEF Gone
<1>10. Aged
    BY <1>1, <1>2, <1>3, <1>8, <1>9, Bounds DEF Aged, Sizes
<1>11. Roster'
  <2> SUFFICES ASSUME NEW j \in 1..Len(subs')
               PROVE  Enlisted(subs'[j], j) /\ (subs'[j].conn # 0 => sock'[subs'[j].conn] \in {"open", "closing"})
      BY DEF Roster
  <2>1. j \in 1..Len(subs) /\ Enlisted(subs[j], j) /\ (subs[j].conn # 0 => sock[subs[j].conn] \in {"open", "closing"})
      BY <1>2, <1>8 DEF Roster
  <2>2. CASE j \in ended
      BY <1>8, <1>9, <2>1, <2>2 DEF Enlisted
  <2>3. CASE j \notin ended
    <3>1. subs'[j] = subs[j] /\ subs[j].conn # c
      BY <1>5, <1>8, <2>1, <2>3
    <3>2. sock'[subs[j].conn] = sock[subs[j].conn]
      BY <1>1, <3>1, InvFacts
    <3> QED
      BY <2>1, <3>1, <3>2
  <2> QED
      BY <2>2, <2>3
<1>12. Requested'
  <2> SUFFICES ASSUME NEW d \in Conns, NEW k \in 1..Len(up'[d]), up'[d][k].method = "subscribe", up'[d][k].after # None
               PROVE  /\ up'[d][k].after[1] \in 1..Len(subs')
                      /\ d # this.conn /\ this.conn # 0 => subs'[up'[d][k].after[1]].conn # this.conn
      BY DEF Requested
  <2>1. up \in [Conns -> Seq(Requests)]
      BY InvFacts
  <2>2. d # c
      BY <1>1, <2>1
  <2>3. up'[d] = up[d]
      BY <1>1, <2>1, <2>2
  <2>4. up[d][k].after[1] \in 1..Len(subs)
        /\ (d # this.conn /\ this.conn # 0 => subs[up[d][k].after[1]].conn # this.conn)
      BY <1>2, <2>3 DEF Requested
  <2>5. d # this.conn /\ this.conn # 0 => subs'[up[d][k].after[1]].conn # this.conn
      BY <1>8, <1>9, <2>4
  <2> QED
      BY <1>8, <2>3, <2>4, <2>5
<1>13. ASSUME this.conn # 0
       PROVE  /\ down'[this.conn] = down[this.conn] /\ up'[this.conn] = up[this.conn]
              /\ \A j \in 1..Len(subs) : subs[j].conn = this.conn =>
                    /\ subs[j].state = "active" => subs'[j] = subs[j]
                    /\ subs'[j].conn = subs[j].conn /\ subs'[j].base = subs[j].base
                    /\ subs'[j].seq = subs[j].seq /\ subs'[j].ackPos = subs[j].ackPos
                    /\ subs'[j].state = "active" => subs[j].state = "active"
                    /\ subs[j].state = "active" =>
                          \A a \in 1..Len(cursors) : cursors[a].sub = j => cursors[a] \in K
  <2>1. up'[this.conn] = up[this.conn]
    BY <1>1, <1>6, <1>13, InvFacts
  <2>2. ASSUME NEW j \in 1..Len(subs), subs[j].conn = this.conn  PROVE j \notin ended /\ subs'[j] = subs[j]
    BY <1>4, <1>6, <1>8, <2>2
  <2> QED
    BY <1>1, <1>7, <2>1, <2>2
<1> QED
    BY <1>1, <1>10, <1>11, <1>12, <1>13, StillKeeps

-----------------------------------------------------------------------------
(* A new event.                                                            *)

\* The one element that is kept.
LEMMA OnlyOne ==
    ASSUME NEW S, NEW K, NEW s \in Seq(S), NEW k \in 1..Len(s), s[k] \in K,
           \A j \in 1..Len(s) : j # k => s[j] \notin K
    PROVE  Only(s, K) = <<s[k]>>
<1> DEFINE R == {x \in S : x \notin K}
<1>1. Len(s) \in Nat /\ k \in Nat /\ 1 <= k /\ k <= Len(s)
    OBVIOUS
<1>2. PICK p : p = SubSeq(s, 1, k - 1)
    OBVIOUS
<1>3. PICK q : q = SubSeq(s, k + 1, Len(s))
    OBVIOUS
<1>4. p \in Seq(S) /\ Len(p) = k - 1 /\ \A j \in 1..(k - 1) : p[j] = s[j]
    BY <1>1, <1>2
<1>5. q \in Seq(S) /\ Len(q) = Len(s) - k /\ \A j \in 1..Len(q) : q[j] = s[k + j]
    BY <1>1, <1>3
<1>6. p \in Seq(R) /\ q \in Seq(R)
  <2>1. \A j \in 1..Len(p) : p[j] \in R
    BY <1>1, <1>4
  <2>2. \A j \in 1..Len(q) : q[j] \in R
    BY <1>1, <1>5
  <2>3. \A u \in Seq(S) : (\A j \in 1..Len(u) : u[j] \in R) => u \in Seq(R)
    <3> HIDE DEF R
    <3> QED
      OBVIOUS
  <2> HIDE DEF R
  <2> QED
    BY <1>4, <1>5, <2>1, <2>2, <2>3
<1>7. Only(p, K) = <<>> /\ Only(q, K) = <<>>
    BY <1>6, OnlyAll
<1>8. PICK a : a = Append(p, s[k])
    OBVIOUS
<1>9. a \in Seq(S) /\ Len(a) = k /\ (\A j \in 1..k : a[j] = s[j]) /\ Only(a, K) = <<s[k]>>
  <2>1. s[k] \in S
    OBVIOUS
  <2>2. Only(a, K) = Append(<<>>, s[k])
    BY <1>4, <1>7, <1>8, <2>1, OnlyAppend
  <2>3. Only(a, K) = <<s[k]>>
    BY <2>2
  <2>4. a \in Seq(S) /\ Len(a) = k
    BY <1>1, <1>4, <1>8, <2>1
  <2>5. \A j \in 1..k : a[j] = s[j]
    BY <1>1, <1>4, <1>8, <2>1
  <2> QED
    BY <2>3, <2>4, <2>5
<1> HIDE DEF R
<1>10. s = a \o q
  <2>1. a \o q \in Seq(S) /\ Len(a \o q) = Len(s)
    <3>1. a \in Seq(S) /\ q \in Seq(S) /\ Len(a) + Len(q) = Len(s)
      BY <1>1, <1>5, <1>9
    <3> QED
      BY <3>1, ConcatIs
  <2>2. ASSUME NEW j \in 1..Len(s)  PROVE s[j] = (a \o q)[j]
    <3>1. CASE j <= k
      BY <1>1, <1>5, <1>9, <3>1
    <3>2. CASE ~(j <= k)
      <4>1. j - k \in 1..Len(q) /\ k + (j - k) = j
        BY <1>1, <1>5, <3>2
      <4>2. (a \o q)[j] = q[j - k]
        BY <1>1, <1>5, <1>9, <3>2
      <4> QED
        BY <1>5, <4>1, <4>2
    <3> QED
      BY <3>1, <3>2
  <2> QED
    BY <2>1, <2>2, SeqSame
<1>11. Only(a \o q, K) = Only(a, K) \o Only(q, K)
  <2>1. a \in Seq(S) /\ q \in Seq(S)
    BY <1>5, <1>9
  <2>2. Only(a, K) \in Seq(S)
    BY <2>1, OnlyOf
  <2> QED
    BY <2>1, <2>2, OnlyConcat
<1>12. Only(s, K) = <<s[k]>> \o <<>>
    BY <1>7, <1>9, <1>10, <1>11
<1> QED
    BY <1>12

\* What the listener of a subscription does to it.
LEMMA NotifiedIs ==
    ASSUME NEW n \in 0..MaxEvents, NEW s \in Fit(n), NEW i, Enlisted(s, i)
    PROVE  LET u == Notified(s)
           IN /\ u.conn = s.conn /\ u.base = s.base /\ u.ackPos = s.ackPos
              /\ u.state = "active" <=> s.state = "active"
              /\ u.state = "loading" => s.state = "loading"
              /\ s.state = "active" => u.seq = s.seq + 1
              /\ s.state # "active" => u.seq = s.seq
              /\ Enlisted(u, i)
              /\ s.state = "active" => s.next = n + 1
<1>1. s \in SubRecords /\ Owes(s, n)
    BY DEF Fit
<1>2. s.state = "active" => s.next = n + 1
    BY <1>1 DEF Owes
<1>3. CASE s.state = "active"
  <2>1. Notified(s) = [s EXCEPT !.next = @ + 1, !.seq = @ + 1]
    BY <1>3 DEF Notified, Overflows
  <2> QED
    BY <1>1, <1>2, <1>3, <2>1 DEF SubRecords, Enlisted
<1>4. CASE Overflows(s)
  <2>0. s.state = "loading"
    BY <1>4 DEF Overflows
  <2>1. Notified(s) = [s EXCEPT !.next = @ + 1, !.state = "invalid", !.tail = <<>>]
    BY <1>4, <2>0 DEF Notified
  <2> QED
    BY <1>1, <2>0, <2>1 DEF SubRecords, Enlisted
<1>5. CASE s.state = "loading" /\ ~Overflows(s)
  <2>1. Notified(s) = [s EXCEPT !.next = @ + 1, !.tail = Append(@, s.next)]
    BY <1>5 DEF Notified
  <2> QED
    BY <1>1, <1>5, <2>1 DEF SubRecords, Enlisted
<1>6. CASE s.state # "loading" /\ s.state # "active"
  <2>1. Notified(s) = s
    BY <1>6 DEF Notified, Overflows
  <2> QED
    BY <1>6, <2>1
<1> QED
    BY <1>3, <1>4, <1>5, <1>6

\* The subscriptions that an event is sent to.
Sending == Only(Span(1, Len(subs)), {i \in 1..Len(subs) : subs[i].state = "active"})

LEMMA SendingIs ==
    ASSUME Len(subs) \in Nat
    PROVE  /\ Sending \in Seq(1..Len(subs)) /\ Sending \in Seq(Nat) /\ Len(Sending) \in Nat
           /\ \A k \in 1..Len(Sending) : Sending[k] \in 1..Len(subs) /\ subs[Sending[k]].state = "active"
           /\ \A j, k \in 1..Len(Sending) : j # k => Sending[j] # Sending[k]
           /\ \A j, k \in 1..Len(Sending) : j < k => Sending[j] < Sending[k]
           /\ \A i \in 1..Len(subs) : subs[i].state = "active" => \E k \in 1..Len(Sending) : Sending[k] = i
<1> DEFINE n == Len(subs)
           s == Span(1, n)
           K == {i \in 1..n : subs[i].state = "active"}
<1>1. s \in Seq(1..n) /\ s \in Seq(Nat) /\ Len(s) = n /\ \A k \in 1..n : s[k] = k
  <2>1. 1 <= n + 1 /\ (n - 1) + 1 = n /\ \A k \in 1..n : 1 + k - 1 = k
    OBVIOUS
  <2>2. /\ s \in Seq(1..n) /\ s \in Seq(Nat) /\ Len(s) = (n - 1) + 1
        /\ \A k \in 1..Len(s) : s[k] = 1 + k - 1
    BY <2>1, SpanIs
  <2> QED
    BY <2>1, <2>2
<1> HIDE DEF s, K
<1>2. Only(s, K) \in Seq(1..n) /\ \A j \in 1..Len(Only(s, K)) : Only(s, K)[j] \in K
    BY <1>1, OnlyOf
<1>3. Only(s, K) \in Seq(Nat)
    BY <1>1, OnlyOf
<1>4. \A i \in 1..n : i \in K => \E j \in 1..Len(Only(s, K)) : Only(s, K)[j] = i
  <2>1. \A i \in 1..Len(s) : s[i] \in K => \E j \in 1..Len(Only(s, K)) : Only(s, K)[j] = s[i]
    BY <1>1, OnlyHas
  <2> QED
    BY <1>1, <2>1
<1>5. \A i, j \in 1..Len(Only(s, K)) : i < j => Only(s, K)[i] < Only(s, K)[j]
  <2>1. \A i, j \in 1..Len(s) : i < j => s[i] < s[j]
    BY <1>1
  <2> QED
    BY <1>1, <2>1, OnlyRises
<1>6. Sending = Only(s, K)
    BY DEF Sending, s, K
<1>7. \A j, k \in 1..Len(Sending) : j # k => Sending[j] # Sending[k]
  <2> SUFFICES ASSUME NEW j \in 1..Len(Sending), NEW k \in 1..Len(Sending), j # k  PROVE Sending[j] # Sending[k]
    OBVIOUS
  <2>1. Sending[j] \in Nat /\ Sending[k] \in Nat /\ j \in Nat /\ k \in Nat
    BY <1>3, <1>6
  <2>2. CASE j < k
    BY <1>5, <1>6, <2>1, <2>2
  <2>3. CASE k < j
    BY <1>5, <1>6, <2>1, <2>3
  <2> QED
    BY <2>1, <2>2, <2>3
<1>8. Len(Sending) \in Nat
    BY <1>3, <1>6
<1> QED
    BY <1>2, <1>3, <1>4, <1>5, <1>6, <1>7, <1>8 DEF K

\* What the event does to the subscriptions.
LEMMA AppendSubs ==
    ASSUME IInv, Stream, AppendEvent
    PROVE  /\ log' = log + 1 /\ log \in Nat /\ instance' = instance /\ sock' = sock /\ up' = up
           /\ Len(subs) \in Nat /\ Len(subs') = Len(subs)
           /\ \A i \in 1..Len(subs) : subs'[i] = Notified(subs[i])
           /\ Aged /\ Roster'
<1>1. /\ log' = log + 1 /\ instance' = instance /\ sock' = sock /\ up' = up
      /\ subs' = [i \in 1..Len(subs) |-> Notified(subs[i])]
    BY DEF AppendEvent
<1>2. Sizes /\ SubsInv /\ Roster /\ log \in 0..MaxEvents /\ log \in Nat /\ Len(subs) \in Nat
    BY Bounds DEF IInv, DaemonInv, Sizes, SubsInv, Stream
<1>3. Len(subs') = Len(subs) /\ \A i \in 1..Len(subs) : subs'[i] = Notified(subs[i])
    BY <1>1, <1>2
<1>4. ASSUME NEW i \in 1..Len(subs)
      PROVE  /\ subs'[i].conn = subs[i].conn /\ subs'[i].base = subs[i].base
             /\ subs'[i].state = "loading" => subs[i].state = "loading"
             /\ Enlisted(subs'[i], i)
  <2>1. subs[i] \in Fit(log) /\ Enlisted(subs[i], i)
    BY <1>2, SubIs
  <2> QED
    BY <1>2, <1>3, <2>1, NotifiedIs
<1>5. Aged
    BY <1>1, <1>2, <1>3, <1>4 DEF Aged
<1>6. Roster'
  <2> SUFFICES ASSUME NEW i \in 1..Len(subs')
               PROVE  Enlisted(subs'[i], i) /\ (subs'[i].conn # 0 => sock'[subs'[i].conn] \in {"open", "closing"})
      BY DEF Roster
  <2>1. i \in 1..Len(subs) /\ (subs[i].conn # 0 => sock[subs[i].conn] \in {"open", "closing"})
      BY <1>2, <1>3 DEF Roster
  <2> QED
      BY <1>1, <1>4, <2>1
<1> QED
    BY <1>1, <1>2, <1>3, <1>5, <1>6

\* What it does to the table.
LEMMA AppendTable ==
    ASSUME IInv, IInv', Stream, AppendEvent
    PROVE  /\ Table' /\ Onward
           /\ \A i \in 1..Len(subs) : subs[i].state = "active" =>
                 \A ack : (ack = None \/ Issued(ack)) /\ Ordered(cursors, i, ack, subs[i].ackPos, log)
                          => Ordered(cursors', i, ack, subs[i].ackPos, log')
<1> DEFINE over == {i \in 1..Len(subs) : Overflows(subs[i])}
           K == {r \in ToSet(cursors) : r.sub \notin over \/ r.id \in {}}
           old == Only(cursors, K)
           new == [k \in 1..Len(Sending) |-> Cursor(Sending[k], subs[Sending[k]].next)]
<1>1. cursors' = Inserted(old, new)
    BY DEF AppendEvent, Released, Sending
<1>2. /\ log' = log + 1 /\ log \in Nat /\ Len(subs) \in Nat /\ Len(subs') = Len(subs) /\ Aged
      /\ \A i \in 1..Len(subs) : subs'[i] = Notified(subs[i])
    BY AppendSubs
<1>3. Sizes /\ SubsInv /\ Sizes' /\ SubsInv' /\ Roster /\ Table /\ log \in 0..MaxEvents /\ log' \in 0..MaxEvents
    BY DEF IInv, DaemonInv, Stream, Sizes
<1>4. cursors \in Seq(Named) /\ Distinct(cursors)
    BY <1>3 DEF Table
<1>5. \A r \in Named : r \in Named'
    BY <1>2, <1>3, RowStays
<1>6. /\ Sending \in Seq(1..Len(subs)) /\ Len(Sending) \in Nat
      /\ \A k \in 1..Len(Sending) : Sending[k] \in 1..Len(subs) /\ subs[Sending[k]].state = "active"
      /\ \A j, k \in 1..Len(Sending) : j # k => Sending[j] # Sending[k]
      /\ \A i \in 1..Len(subs) : subs[i].state = "active" => \E k \in 1..Len(Sending) : Sending[k] = i
    BY <1>2, SendingIs
<1>7. ASSUME NEW i \in 1..Len(subs), subs[i].state = "active"
      PROVE  subs[i].next = log + 1 /\ subs'[i].state = "active" /\ i \in 1..MaxSubs
  <2>1. subs[i] \in Fit(log) /\ Enlisted(subs[i], i) /\ i \in 1..MaxSubs
    BY <1>3, SubIs
  <2>2. log \in 0..MaxEvents
    BY <1>3
  <2>3. subs[i].next = log + 1 /\ Notified(subs[i]).state = "active"
    BY <1>7, <2>1, <2>2, NotifiedIs
  <2> QED
    BY <1>2, <2>1, <2>3
<1>8. Len(new) = Len(Sending) /\ \A k \in 1..Len(Sending) : new[k] = Cursor(Sending[k], log + 1)
  <2>1. Len(new) = Len(Sending)
    BY <1>6
  <2>2. \A k \in 1..Len(Sending) : subs[Sending[k]].next = log + 1
    BY <1>6, <1>7
  <2>3. \A k \in 1..Len(Sending) : new[k] = Cursor(Sending[k], subs[Sending[k]].next)
    OBVIOUS
  <2> HIDE DEF new
  <2> QED
    BY <2>1, <2>2, <2>3
<1>9. ASSUME NEW i \in 1..Len(subs), subs[i].state = "active"
      PROVE  Cursor(i, log + 1) \in Named'
  <2>1. subs'[i].state = "active" /\ i \in 1..MaxSubs
    BY <1>7, <1>9
  <2>2. PICK n \in Nat : n = log + 1 /\ n = log'
    BY <1>2
  <2>3. n \in 0..MaxEvents
    BY <1>3, <2>2
  <2>4. <<i, n>> \in CursorIds
    BY <2>1, <2>2, <2>3 DEF CursorIds
  <2>5. Cursor(i, n) \in CursorRecords
    BY <2>1, <2>3, <2>4 DEF Cursor, CursorRecords
  <2>6. n <= log' /\ i \in 1..Len(subs') /\ i <= Len(subs')
    BY <1>2, <1>9, <2>2
  <2>7. Cursor(i, n) \in Held(log', Len(subs'))
    BY <2>5, <2>6 DEF Held, Cursor
  <2>8. Issued(<<i, n>>)'
    <3>1. n \in 0..log' /\ <<i, n>> # None
      BY <2>2, <2>6 DEF None
    <3> QED
      BY <2>1, <2>6, <3>1 DEF Issued
  <2>9. Cursor(i, n) \in Named'
    BY <2>1, <2>7, <2>8 DEF Named, Cursor
  <2> QED
    BY <2>2, <2>9
<1>10. ASSUME NEW i  PROVE ~Issued(<<i, log + 1>>)
    BY <1>2 DEF Issued
<1> HIDE DEF over, new
<1>11. new \in Seq(Named')
  <2>1. \A k \in 1..Len(new) : new[k] \in Named'
    BY <1>6, <1>8, <1>9
  <2>2. PICK n \in Nat : n = Len(Sending)
    BY <1>6
  <2>3. PICK N : N = Named'
    OBVIOUS
  <2>4. new = [k \in 1..n |-> new[k]] /\ \A k \in 1..n : new[k] \in N
    BY <1>8, <2>1, <2>2, <2>3 DEF new
  <2>5. new \in Seq(N)
    BY <2>2, <2>4
  <2>6. \A r \in N : r \in Named'
    BY <2>3
  <2> QED
    BY <2>5, <2>6, Wider
<1>12. /\ old \in Seq(Named) /\ Distinct(old)
       /\ \A k \in 1..Len(old) : \E j \in 1..Len(cursors) : old[k] = cursors[j]
  <2> HIDE DEF K
  <2>1. Distinct(Only(cursors, K))
    BY <1>4, DistinctOnly
  <2>2. /\ Only(cursors, K) \in Seq(Named)
        /\ \A k \in 1..Len(Only(cursors, K)) : \E j \in 1..Len(cursors) : cursors[j] = Only(cursors, K)[k]
    BY <1>4, OnlyOf
  <2> QED
    BY <2>1, <2>2
<1>13. old \in Seq(Named')
    BY <1>5, <1>12, Wider
<1> HIDE DEF K, old
<1>14. \A a \in 1..Len(old) : Issued(old[a].id) /\ HasCursor(old[a].id)
  <2> SUFFICES ASSUME NEW a \in 1..Len(old)  PROVE Issued(old[a].id) /\ HasCursor(old[a].id)
      OBVIOUS
  <2>1. old[a] \in Named
      BY <1>12
  <2>2. PICK j \in 1..Len(cursors) : old[a] = cursors[j]
      BY <1>12
  <2>3. Issued(old[a].id)
      BY <2>1 DEF Named
  <2> QED
      BY <2>2, <2>3 DEF HasCursor
<1>15. ASSUME NEW a \in 1..Len(new)  PROVE ~Issued(new[a].id) /\ new[a].id = <<Sending[a], log + 1>>
  <2>1. new[a] = Cursor(Sending[a], log + 1)
    BY <1>8
  <2>2. new[a].id = <<Sending[a], log + 1>>
    BY <2>1 DEF Cursor
  <2> QED
    BY <1>10, <2>2
<1>16. Distinct(old \o new)
  <2>1. \A a \in 1..Len(old) : \A b \in 1..Len(new) : old[a].id # new[b].id
    BY <1>14, <1>15
  <2>2. Distinct(new)
    <3> SUFFICES ASSUME NEW a \in 1..Len(new), NEW b \in 1..Len(new), a < b  PROVE new[a].id # new[b].id
        BY DEF Distinct
    <3>1. new[a].id = <<Sending[a], log + 1>> /\ new[b].id = <<Sending[b], log + 1>>
        BY <1>15
    <3>2. a # b /\ Sending[a] # Sending[b]
        BY <1>6, <1>8
    <3> QED
        BY <3>1, <3>2
  <2> QED
    BY <1>11, <1>12, <1>13, <2>1, <2>2, DistinctJoin
<1>17. /\ Distinct(cursors')
       /\ \A i, ack, lo, hi : Ordered(old \o new, i, ack, lo, hi) => Ordered(cursors', i, ack, lo, hi)
       /\ \A k \in 1..Len(cursors') :
             \/ \E a \in 1..Len(old) : cursors'[k] = old[a]
             \/ \E a \in 1..Len(new) : cursors'[k] = new[a]
    BY <1>1, <1>11, <1>13, <1>16, InsertedKeeps
<1>18. cursors' \in Seq(Named')
    BY <1>1, <1>11, <1>13, InsertedIs
<1>19. Table'
    BY <1>17, <1>18 DEF Table
<1>20. Onward
    BY <1>2, <1>14, <1>15, <1>17 DEF Onward
<1>21. ASSUME NEW i \in 1..Len(subs), subs[i].state = "active", NEW ack, ack = None \/ Issued(ack),
              Ordered(cursors, i, ack, subs[i].ackPos, log)
       PROVE  Ordered(cursors', i, ack, subs[i].ackPos, log')
  <2>1. PICK lo \in Int : lo = subs[i].ackPos
    BY <1>3, SubIs
  <2>2. \A a \in 1..Len(cursors) : \A p \in (lo + 1)..log :
           cursors[a].id = <<i, p>> /\ cursors[a].sub = i => cursors[a] \in K
    <3>1. i \notin over
      BY <1>21 DEF over, Overflows
    <3>2. \A a \in 1..Len(cursors) : cursors[a] \in ToSet(cursors)
      BY DEF ToSet
    <3> QED
      BY <3>1, <3>2 DEF K
  <2>3. Ordered(old, i, ack, lo, log)
    <3>1. log \in Int /\ cursors \in Seq(Named) /\ Ordered(cursors, i, ack, lo, log)
      BY <1>2, <1>4, <1>21, <2>1
    <3>2. Ordered(Only(cursors, K), i, ack, lo, log)
      BY <2>1, <2>2, <3>1, OrderedOnly
    <3> QED
      BY <3>2 DEF old
  <2>4. Ordered(new, i, ack, lo, log + 1)
    <3> SUFFICES ASSUME NEW a \in 1..Len(new), NEW p \in (lo + 1)..(log + 1),
                        new[a].id = ack \/ (new[a].id[1] = i /\ new[a].pos < p)
                 PROVE  FALSE
        BY DEF Ordered
    <3>1. new[a].id = <<Sending[a], log + 1>> /\ new[a].pos = log + 1 /\ ~Issued(new[a].id)
      <4>1. new[a] = Cursor(Sending[a], log + 1)
        BY <1>8
      <4> QED
        BY <1>15, <4>1 DEF Cursor
    <3>2. new[a].id # None
        BY <3>1 DEF None
    <3>3. ~(new[a].pos < p)
        BY <1>2, <2>1, <3>1
    <3> QED
        BY <1>21, <3>1, <3>2, <3>3
  <2>5. \A p \in (lo + 1)..(log + 1) : log < p => \E b \in 1..Len(new) : new[b].id = <<i, p>> /\ new[b].sub = i
    <3> SUFFICES ASSUME NEW p \in (lo + 1)..(log + 1), log < p
                 PROVE  \E b \in 1..Len(new) : new[b].id = <<i, p>> /\ new[b].sub = i
        OBVIOUS
    <3>1. p = log + 1
        BY <1>2, <2>1
    <3>2. PICK k \in 1..Len(Sending) : Sending[k] = i
        BY <1>6, <1>21
    <3>3. k \in 1..Len(new) /\ new[k] = Cursor(i, p)
        BY <1>8, <3>1, <3>2
    <3> QED
        BY <3>3 DEF Cursor
  <2>6. log \in Int /\ log + 1 \in Int
    BY <1>2
  <2>7. Ordered(old \o new, i, ack, lo, log + 1)
    BY <1>11, <1>13, <2>1, <2>3, <2>4, <2>5, <2>6, OrderedJoin
  <2> QED
    BY <1>2, <1>17, <2>1, <2>7
<1> QED
    BY <1>19, <1>20, <1>21

\* Sequences of one delivery.
LEMMA SentOne ==
    ASSUME NEW i \in 1..MaxSubs, NEW b \in Nat, NEW n \in Nat, b + (n + 1) <= MaxEvents
    PROVE  Sent(i, b, n, n + 1) = <<Note(i, b, n + 1)>>
<1> DEFINE s == Sent(i, b, n, n + 1)
           x == Note(i, b, n + 1)
<1>1. PICK m \in Nat : m = n + 1
    OBVIOUS
<1>2. m \in Nat /\ n <= m /\ b + m <= MaxEvents
    BY <1>1
<1>3. Sent(i, b, n, m) \in Seq(Events) /\ Len(Sent(i, b, n, m)) = m - n
      /\ \A k \in 1..(m - n) : Sent(i, b, n, m)[k] = Note(i, b, n + k)
    BY <1>2, SentIs
<1>4. s \in Seq(Events) /\ Len(s) = 1 /\ s[1] = x
  <2>1. s = Sent(i, b, n, m)
    BY <1>1
  <2>2. 1 \in 1..(m - n) /\ m - n = 1
    BY <1>1
  <2>3. s[1] = Note(i, b, n + 1)
    BY <1>3, <2>1, <2>2
  <2> QED
    BY <1>3, <2>1, <2>2, <2>3
<1> HIDE DEF s, x
<1>5. s = <<x>>
    BY <1>4
<1> QED
    BY <1>5 DEF s, x

\* The deliveries of a new event to connection c, one for each of its active subscriptions.
Mine(c) == Only(Sending, {i \in ToSet(Sending) : subs[i].conn = c /\ sock[c] = "open"})
Delivered(i) == Deliveries(i, subs[i].seq, <<subs[i].next>>)[1]

LEMMA MineIs ==
    ASSUME Len(subs) \in Nat, NEW c
    PROVE  /\ Mine(c) \in Seq(1..Len(subs)) /\ Len(Mine(c)) \in Nat
           /\ \A k \in 1..Len(Mine(c)) : Mine(c)[k] \in 1..Len(subs) /\ subs[Mine(c)[k]].state = "active"
           /\ \A j, k \in 1..Len(Mine(c)) : j # k => Mine(c)[j] # Mine(c)[k]
           /\ \A i \in 1..Len(subs) : subs[i].state = "active" /\ subs[i].conn = c /\ sock[c] = "open" =>
                 \E k \in 1..Len(Mine(c)) : Mine(c)[k] = i
<1> DEFINE s == Sending
           K == {i \in ToSet(Sending) : subs[i].conn = c /\ sock[c] = "open"}
<1>1. /\ s \in Seq(1..Len(subs)) /\ s \in Seq(Nat) /\ Len(s) \in Nat
      /\ \A k \in 1..Len(s) : s[k] \in 1..Len(subs) /\ subs[s[k]].state = "active"
      /\ \A j, k \in 1..Len(s) : j < k => s[j] < s[k]
      /\ \A i \in 1..Len(subs) : subs[i].state = "active" => \E k \in 1..Len(s) : s[k] = i
    BY SendingIs
<1>2. \A k \in 1..Len(s) : subs[s[k]].conn = c /\ sock[c] = "open" => s[k] \in K
  <2>1. \A k \in 1..Len(s) : s[k] \in ToSet(s)
    BY DEF ToSet
  <2> QED
    BY <2>1
<1>3. Mine(c) = Only(s, K)
    BY DEF Mine
<1> HIDE DEF s, K
<1>4. /\ Only(s, K) \in Seq(1..Len(subs))
      /\ \A j \in 1..Len(Only(s, K)) : \E k \in 1..Len(s) : s[k] = Only(s, K)[j]
    BY <1>1, OnlyOf
<1>5. Only(s, K) \in Seq(Nat) /\ Len(Only(s, K)) \in Nat
    BY <1>1, OnlyOf
<1>6. \A i, j \in 1..Len(Only(s, K)) : i < j => Only(s, K)[i] < Only(s, K)[j]
    BY <1>1, OnlyRises
<1>7. \A j, k \in 1..Len(Only(s, K)) : j # k => Only(s, K)[j] # Only(s, K)[k]
  <2> SUFFICES ASSUME NEW j \in 1..Len(Only(s, K)), NEW k \in 1..Len(Only(s, K)), j # k
               PROVE  Only(s, K)[j] # Only(s, K)[k]
    OBVIOUS
  <2>1. Only(s, K)[j] \in Nat /\ Only(s, K)[k] \in Nat /\ j \in Nat /\ k \in Nat
    BY <1>5
  <2>2. CASE j < k
    BY <1>6, <2>1, <2>2
  <2>3. CASE k < j
    BY <1>6, <2>1, <2>3
  <2> QED
    BY <2>1, <2>2, <2>3
<1>11. s \in Seq(Nat)
    BY <1>1
<1>12. \A a \in 1..Len(s) : s[a] \in K => \E j \in 1..Len(Only(s, K)) : Only(s, K)[j] = s[a]
    BY <1>11, OnlyHas
<1>8. ASSUME NEW i \in 1..Len(subs), subs[i].state = "active", subs[i].conn = c, sock[c] = "open"
      PROVE  \E k \in 1..Len(Only(s, K)) : Only(s, K)[k] = i
  <2>1. PICK k \in 1..Len(s) : s[k] = i
    BY <1>1, <1>8
  <2>2. s[k] \in K
    BY <1>2, <1>8, <2>1
  <2> QED
    BY <1>12, <2>1, <2>2
<1>9. ASSUME NEW j \in 1..Len(Only(s, K))
      PROVE  Only(s, K)[j] \in 1..Len(subs) /\ subs[Only(s, K)[j]].state = "active"
  <2>1. PICK k \in 1..Len(s) : s[k] = Only(s, K)[j]
    BY <1>4
  <2> QED
    BY <1>1, <2>1
<1> QED
    BY <1>3, <1>4, <1>5, <1>7, <1>8, <1>9

\* The only event of a subscription.
LEMMA OfTheOne ==
    ASSUME NEW i, NEW q \in Seq(Messages), NEW k \in 1..Len(q), q[k] \in Happening(i),
           \A j \in 1..Len(q) : j # k => q[j] \notin Happening(i)
    PROVE  Of(q, i) = <<q[k]>>
BY OnlyOne DEF Of

\* The delivery of one position.
LEMMA DeliveryOne ==
    ASSUME NEW i, NEW s, NEW p
    PROVE  Deliveries(i, s, <<p>>)[1] = [kind |-> "event", sub |-> i, seq |-> s + 1, cursor |-> <<i, p>>, pos |-> p]
<1> DEFINE q == <<p>>
           D(k) == [kind |-> "event", sub |-> i, seq |-> s + k, cursor |-> <<i, q[k]>>, pos |-> q[k]]
<1>1. 1 \in 1..Len(q) /\ q[1] = p
    OBVIOUS
<1>2. Deliveries(i, s, q) = [k \in 1..Len(q) |-> D(k)]
    BY DEF Deliveries
<1> HIDE DEF q
<1>3. [k \in 1..Len(q) |-> D(k)][1] = D(1)
  <2> HIDE DEF D
  <2> QED
    BY <1>1
<1>4. D(1) = [kind |-> "event", sub |-> i, seq |-> s + 1, cursor |-> <<i, p>>, pos |-> p]
    BY <1>1
<1> QED
    BY <1>2, <1>3, <1>4 DEF q

\* What a new event sends to one subscription.
LEMMA AppendSends ==
    ASSUME IInv, Stream, NEW c, NEW ev, ev = [k \in 1..Len(Mine(c)) |-> Delivered(Mine(c)[k])], log < MaxEvents
    PROVE  /\ ev \in Seq(Events) /\ Recent(ev)
           /\ \A i \in 1..Len(subs) :
                 /\ subs[i].state = "active" /\ subs[i].conn = c /\ sock[c] = "open" =>
                       Of(ev, i) = Sent(i, subs[i].base, subs[i].seq, subs[i].seq + 1)
                 /\ subs[i].state # "active" => Of(ev, i) = <<>>
<1> DEFINE m == Mine(c)
<1>1. Sizes /\ SubsInv /\ Roster /\ log \in Nat /\ log \in 0..MaxEvents /\ Len(subs) \in Nat
    BY Bounds DEF IInv, DaemonInv, Sizes, SubsInv, Stream
<1>2. /\ Len(m) \in Nat
      /\ \A k \in 1..Len(m) : m[k] \in 1..Len(subs) /\ subs[m[k]].state = "active"
      /\ \A j, k \in 1..Len(m) : j # k => m[j] # m[k]
      /\ \A i \in 1..Len(subs) : subs[i].state = "active" /\ subs[i].conn = c /\ sock[c] = "open" =>
            \E k \in 1..Len(m) : m[k] = i
    BY <1>1, MineIs
<1> HIDE DEF m
<1>3. ASSUME NEW i \in 1..Len(subs), subs[i].state = "active"
      PROVE  /\ Delivered(i) = Note(i, subs[i].base, subs[i].seq + 1)
             /\ i \in 1..MaxSubs /\ subs[i].base \in Nat /\ subs[i].seq \in Nat
             /\ subs[i].base + (subs[i].seq + 1) <= MaxEvents
             /\ Delivered(i) \in Events /\ Delivered(i).sub = i /\ Delivered(i).kind = "event"
  <2>1. /\ subs[i] \in Fit(log) /\ Enlisted(subs[i], i) /\ i \in 1..MaxSubs
        /\ subs[i].base \in Nat /\ subs[i].seq \in Nat /\ subs[i].base + subs[i].seq = log
    BY <1>1, <1>3, SubIs
  <2>2. subs[i].next = log + 1
    <3>1. subs[i] \in Fit(log) /\ Enlisted(subs[i], i) /\ log \in 0..MaxEvents
      BY <1>1, <2>1
    <3> QED
      BY <1>3, <3>1, NotifiedIs
  <2>3. PICK b \in Nat, s \in Nat : b = subs[i].base /\ s = subs[i].seq
    BY <2>1
  <2>4. b + (s + 1) = log + 1 /\ b + (s + 1) <= MaxEvents
    <3>1. b + s = log
      BY <2>1, <2>3
    <3>2. log + 1 <= MaxEvents
      BY <1>1, Bounds
    <3>3. \A x, y \in Nat : x + (y + 1) = (x + y) + 1
      OBVIOUS
    <3>4. b + (s + 1) = (b + s) + 1
      BY <2>3, <3>3
    <3>5. b + (s + 1) = log + 1
      BY <3>1, <3>4
    <3> QED
      BY <3>2, <3>5
  <2>5. Delivered(i) = [kind |-> "event", sub |-> i, seq |-> s + 1, cursor |-> <<i, log + 1>>, pos |-> log + 1]
    <3>1. PICK p : p = log + 1
      OBVIOUS
    <3>2. Delivered(i) = Deliveries(i, s, <<p>>)[1]
      BY <2>2, <2>3, <3>1 DEF Delivered
    <3> QED
      BY <3>1, <3>2, DeliveryOne
  <2>6. Delivered(i) = Note(i, b, s + 1)
    BY <2>4, <2>5 DEF Note
  <2>7. Note(i, b, s + 1) \in Happening(i)
    <3>1. PICK n \in Nat : n = s + 1
      BY <2>3
    <3>2. i \in 1..MaxSubs /\ b \in Nat /\ n \in Nat /\ b + n <= MaxEvents
      BY <2>1, <2>3, <2>4, <3>1
    <3>3. Note(i, b, n) \in Happening(i)
      BY <3>2, NoteIs
    <3> QED
      BY <3>1, <3>3
  <2>8. Delivered(i) \in Events /\ Delivered(i).sub = i /\ Delivered(i).kind = "event"
    BY <2>6, <2>7, HappeningIs
  <2> QED
    BY <2>1, <2>3, <2>4, <2>6, <2>8
<1>4. /\ Len(ev) = Len(m) /\ \A k \in 1..Len(m) : ev[k] = Delivered(m[k])
      /\ \A k \in 1..Len(m) : ev[k] \in Events /\ ev[k].sub = m[k]
  <2>1. ev = [k \in 1..Len(m) |-> Delivered(m[k])] /\ Len(m) \in Nat
    BY <1>2 DEF m
  <2>2. Len(ev) = Len(m) /\ \A k \in 1..Len(m) : ev[k] = Delivered(m[k])
    BY <2>1
  <2>3. \A k \in 1..Len(m) : Delivered(m[k]) \in Events /\ Delivered(m[k]).sub = m[k]
    BY <1>2, <1>3
  <2> QED
    BY <2>2, <2>3
<1>5. ev \in Seq(Events)
  <2>1. PICK n \in Nat : n = Len(m)
    BY <1>2
  <2>2. ev = [k \in 1..n |-> ev[k]]
    BY <1>4, <2>1 DEF m
  <2>3. \A k \in 1..n : ev[k] \in Events
    BY <1>4, <2>1
  <2> QED
    BY <2>1, <2>2, <2>3
<1>6. Recent(ev)
  <2> SUFFICES ASSUME NEW k \in 1..Len(ev)  PROVE ev[k].sub <= Len(subs)
      BY DEF Recent
  <2>1. ev[k].sub = m[k] /\ m[k] \in 1..Len(subs)
      BY <1>2, <1>4
  <2> QED
      BY <1>1, <2>1
<1>7. ev \in Seq(Messages)
  <2>1. \A e \in Events : e \in Messages
    BY DEF Messages
  <2> QED
    BY <1>5, <2>1, Wider
<1>8. ASSUME NEW i \in 1..Len(subs), NEW k \in 1..Len(ev)
      PROVE  ev[k] \in Happening(i) <=> m[k] = i
  <2>1. ev[k] \in Events /\ ev[k].sub = m[k]
    BY <1>4
  <2> QED
    BY <2>1, HappeningIs
<1>9. ASSUME NEW i \in 1..Len(subs), subs[i].state = "active", subs[i].conn = c, sock[c] = "open"
      PROVE  Of(ev, i) = Sent(i, subs[i].base, subs[i].seq, subs[i].seq + 1)
  <2>1. PICK k \in 1..Len(m) : m[k] = i
    BY <1>2, <1>9
  <2>2. k \in 1..Len(ev) /\ ev[k] = Note(i, subs[i].base, subs[i].seq + 1)
    BY <1>3, <1>4, <1>9, <2>1
  <2>3. ev[k] \in Happening(i)
    BY <1>8, <2>1, <2>2
  <2>4. \A j \in 1..Len(ev) : j # k => ev[j] \notin Happening(i)
    <3> SUFFICES ASSUME NEW j \in 1..Len(ev), j # k  PROVE ev[j] \notin Happening(i)
      OBVIOUS
    <3>1. j \in 1..Len(m) /\ m[j] # m[k]
      BY <1>2, <1>4, <2>1
    <3> QED
      BY <1>8, <2>1, <3>1
  <2>5. Of(ev, i) = <<ev[k]>>
    <3>1. ev \in Seq(Messages) /\ k \in 1..Len(ev)
      BY <1>7, <2>2
    <3> QED
      BY <2>3, <2>4, <3>1, OfTheOne
  <2>6. Sent(i, subs[i].base, subs[i].seq, subs[i].seq + 1) = <<Note(i, subs[i].base, subs[i].seq + 1)>>
    BY <1>3, <1>9, SentOne
  <2> QED
    BY <2>2, <2>5, <2>6
<1>10. ASSUME NEW i \in 1..Len(subs), subs[i].state # "active"
       PROVE  Of(ev, i) = <<>>
  <2>1. ASSUME NEW k \in 1..Len(ev)  PROVE ev[k] \notin Happening(i)
    <3>1. k \in 1..Len(m) /\ m[k] # i
      BY <1>2, <1>4, <1>10
    <3> QED
      BY <1>8, <3>1
  <2> QED
    BY <1>7, <2>1, OfOthers
<1> QED
    BY <1>5, <1>6, <1>9, <1>10

\* A new event.
LEMMA AppendStream ==
    ASSUME IInv, IInv', Stream, AppendEvent, this' = this
    PROVE  Stream'
<1>1. /\ log' = log + 1 /\ log \in Nat /\ sock' = sock /\ up' = up
      /\ Len(subs) \in Nat /\ Len(subs') = Len(subs)
      /\ \A i \in 1..Len(subs) : subs'[i] = Notified(subs[i])
      /\ Aged /\ Roster'
    BY AppendSubs
<1>2. /\ Table' /\ Onward
      /\ \A i \in 1..Len(subs) : subs[i].state = "active" =>
            \A ack : (ack = None \/ Issued(ack)) /\ Ordered(cursors, i, ack, subs[i].ackPos, log)
                     => Ordered(cursors', i, ack, subs[i].ackPos, log')
    BY AppendTable
<1>3. Sizes /\ SubsInv /\ Roster /\ Requested /\ log \in 0..MaxEvents
    BY DEF IInv, DaemonInv, Stream, Sizes
<1>4. ASSUME NEW i \in 1..Len(subs)
      PROVE  /\ subs'[i].conn = subs[i].conn /\ subs'[i].base = subs[i].base /\ subs'[i].ackPos = subs[i].ackPos
             /\ subs[i].state = "active" <=> subs'[i].state = "active"
             /\ subs[i].state = "active" => subs'[i].seq = subs[i].seq + 1
             /\ subs[i].state # "active" => subs'[i].seq = subs[i].seq
  <2>1. subs[i] \in Fit(log) /\ Enlisted(subs[i], i)
    BY <1>3, SubIs
  <2> QED
    BY <1>1, <1>3, <2>1, NotifiedIs
<1>5. Requested'
    BY <1>1, <1>3, <1>4 DEF Requested
<1>6. PICK ev : ev = [k \in 1..Len(Mine(this.conn)) |-> Delivered(Mine(this.conn)[k])]
    OBVIOUS
<1>7. /\ ev \in Seq(Events) /\ Recent(ev)
      /\ \A i \in 1..Len(subs) :
            /\ subs[i].state = "active" /\ subs[i].conn = this.conn /\ sock[this.conn] = "open" =>
                  Of(ev, i) = Sent(i, subs[i].base, subs[i].seq, subs[i].seq + 1)
            /\ subs[i].state # "active" => Of(ev, i) = <<>>
  <2>1. log < MaxEvents
    BY DEF AppendEvent
  <2> QED
    BY <1>6, <2>1, AppendSends
<1>8. this.conn # 0 => down'[this.conn] = down[this.conn] \o ev
    BY <1>6, InvFacts DEF AppendEvent, Mine, Delivered, Sending
<1>9. ASSUME this.conn # 0, NEW i \in 1..Len(subs), subs[i].conn = this.conn
      PROVE  Steady(i, ev)
  <2>1. i \in 1..MaxSubs /\ subs[i].base \in Nat /\ subs[i].seq \in Nat /\ subs[i].base + subs[i].seq <= MaxEvents
    BY <1>3, SubIs
  <2>2. sock[this.conn] = "open"
    BY <1>9 DEF IInv, Balanced
  <2>3. \A ack : (ack = None \/ Issued(ack)) /\ Orderly(i, ack) /\ subs'[i].state = "active"
                 => Ordered(cursors', i, ack, subs'[i].ackPos, log')
    BY <1>2, <1>4 DEF Orderly
  <2>4. CASE subs[i].state = "active"
    BY <1>4, <1>7, <1>9, <2>1, <2>2, <2>3, <2>4 DEF Steady
  <2>5. CASE subs[i].state # "active"
    <3>1. Sent(i, subs[i].base, subs[i].seq, subs[i].seq) = <<>>
      BY <2>1, SentNone
    <3> QED
      BY <1>4, <1>7, <2>1, <2>3, <2>5, <3>1 DEF Steady
  <2> QED
    BY <2>4, <2>5
<1>10. Undisturbed(ev)
  <2>1. Recent(ev)'
    BY <1>1, <1>7 DEF Recent
  <2> QED
    BY <1>1, <1>2, <1>7, <1>8, <1>9, <2>1 DEF Undisturbed
<1> QED
    BY <1>1, <1>2, <1>5, <1>10, QuietKeeps

-----------------------------------------------------------------------------
(* A request that is served, apart from what its client makes of it.       *)

Aside(c) ==
    /\ Roster' /\ Table' /\ Requested' /\ Onward
    /\ this.conn # c /\ this.conn # 0 =>
          \A j \in 1..Len(subs) : subs[j].conn = this.conn => Steady(j, <<>>)

\* The request that is read, and the state it is read in.
LEMMA ReadingIs ==
    ASSUME IInv, Stream, NEW c \in Conns, NEW method, Reads(c, method)
    PROVE  /\ up[c] # <<>> /\ sock[c] \in {"open", "closing"} /\ up' = [up EXCEPT ![c] = Tail(@)]
           /\ log' = log /\ instance' = instance /\ sock' = sock
           /\ Head(up[c]) \in Requests /\ Head(up[c]).method = method
           /\ Sizes /\ SubsInv /\ Roster /\ Table /\ Requested
           /\ subs \in Seq(Fit(log)) /\ Len(subs) \in Nat /\ Len(subs) <= MaxSubs
           /\ log \in Nat /\ log <= MaxEvents /\ c # 0
<1>1. DaemonInv /\ Sizes /\ SubsInv /\ Roster /\ Table /\ Requested
    BY DEF IInv, DaemonInv, Stream
<1>2. /\ up[c] # <<>> /\ sock[c] \in {"open", "closing"} /\ up' = [up EXCEPT ![c] = Tail(@)]
      /\ log' = log /\ instance' = instance /\ sock' = sock
      /\ Head(up[c]) \in Requests /\ Head(up[c]).method = method
    BY <1>1, ReadIs
<1>3. subs \in Seq(Fit(log)) /\ Len(subs) \in Nat /\ Len(subs) <= MaxSubs
    BY <1>1 DEF SubsInv
<1>4. log \in Nat /\ log <= MaxEvents
    BY <1>1, Bounds DEF Sizes
<1>5. c # 0
    BY Bounds DEF Conns
<1> QED
    BY <1>1, <1>2, <1>3, <1>4, <1>5

\* One subscription of the connection changes or is new.
LEMMA RosterStays ==
    ASSUME Roster, NEW c, log' = log, log \in Nat, sock' = sock, sock[c] \in {"open", "closing"},
           Len(subs) \in Nat, Len(subs') \in Nat, Len(subs) <= Len(subs'),
           \A j \in 1..Len(subs') :
               \/ j \in 1..Len(subs) /\ subs'[j] = subs[j]
               \/ /\ Enlisted(subs'[j], j) /\ subs'[j].conn \in {0, c}
                  /\ j \in 1..Len(subs) /\ subs'[j].state = "loading" =>
                        subs[j].state = "loading" /\ subs'[j].base = subs[j].base
    PROVE  Roster' /\ Aged
<1>1. Aged
  <2>1. ASSUME NEW j \in 1..Len(subs), subs'[j].state = "loading"
        PROVE  subs[j].state = "loading" /\ subs'[j].base = subs[j].base
    <3>1. j \in 1..Len(subs')
      OBVIOUS
    <3> QED
      BY <2>1, <3>1
  <2> QED
    BY <2>1 DEF Aged
<1>2. Roster'
  <2> SUFFICES ASSUME NEW j \in 1..Len(subs')
               PROVE  Enlisted(subs'[j], j) /\ (subs'[j].conn # 0 => sock'[subs'[j].conn] \in {"open", "closing"})
      BY DEF Roster
  <2>1. CASE j \in 1..Len(subs) /\ subs'[j] = subs[j]
      BY <2>1 DEF Roster
  <2>2. CASE Enlisted(subs'[j], j) /\ subs'[j].conn \in {0, c}
      BY <2>2
  <2> QED
      BY <2>1, <2>2
<1> QED
    BY <1>1, <1>2

\* The request leaves the connection.
LEMMA RequestedStays ==
    ASSUME IInv, Requested, NEW c \in Conns, up[c] # <<>>, up' = [up EXCEPT ![c] = Tail(@)], this' = this,
           Len(subs) \in Nat, Len(subs') \in Nat, Len(subs) <= Len(subs'),
           \A j \in 1..Len(subs) : subs'[j].conn \in {0, subs[j].conn}
    PROVE  Requested'
<1> SUFFICES \A d \in Conns : \A k \in 1..Len(up'[d]) :
               up'[d][k].method = "subscribe" /\ up'[d][k].after # None =>
                  /\ up'[d][k].after[1] \in 1..Len(subs')
                  /\ d # this'.conn /\ this'.conn # 0 => subs'[up'[d][k].after[1]].conn # this'.conn
    BY Zenon DEF Requested
<1> SUFFICES ASSUME NEW d \in Conns, NEW k \in 1..Len(up'[d]), up'[d][k].method = "subscribe", up'[d][k].after # None
             PROVE  /\ up'[d][k].after[1] \in 1..Len(subs')
                    /\ d # this'.conn /\ this'.conn # 0 => subs'[up'[d][k].after[1]].conn # this'.conn
    BY Zenon
<1>0. this'.conn = this.conn
    OBVIOUS
<1> SUFFICES /\ up'[d][k].after[1] \in 1..Len(subs')
             /\ d # this.conn /\ this.conn # 0 => subs'[up'[d][k].after[1]].conn # this.conn
    BY <1>0, Zenon
<1>1. up \in [Conns -> Seq(Requests)] /\ up[c] \in Seq(Requests) /\ up[d] \in Seq(Requests)
    BY InvFacts
<1>2. PICK l \in 1..Len(up[d]) : up'[d][k] = up[d][l]
  <2>1. CASE d = c
    <3>1. up'[c] = Tail(up[c])
      BY <1>1
    <3>2. PICK q : q = up[c]
      OBVIOUS
    <3>3. q \in Seq(Requests) /\ q # <<>> /\ k \in 1..Len(Tail(q))
      BY <1>1, <2>1, <3>1, <3>2
    <3>4. k + 1 \in 1..Len(q) /\ Tail(q)[k] = q[k + 1]
      BY <3>3
    <3> QED
      BY <2>1, <3>1, <3>2, <3>4
  <2>2. CASE d # c
    BY <1>1, <2>2
  <2> QED
    BY <2>1, <2>2
<1>3. /\ up[d][l].after[1] \in 1..Len(subs)
      /\ d # this.conn /\ this.conn # 0 => subs[up[d][l].after[1]].conn # this.conn
    BY <1>2 DEF Requested
<1>4. PICK i \in 1..Len(subs) : i = up[d][l].after[1]
    BY <1>3
<1>5. i \in 1..Len(subs') /\ subs'[i].conn \in {0, subs[i].conn}
  <2>1. PICK n \in Nat, m \in Nat : n = Len(subs) /\ m = Len(subs')
    OBVIOUS
  <2>2. n <= m /\ i \in 1..n
    BY <2>1
  <2>3. i \in 1..m
    BY <2>2
  <2>4. subs'[i].conn \in {0, subs[i].conn}
    BY Zenon
  <2> QED
    BY <2>1, <2>3, <2>4
<1> QED
    BY <1>2, <1>3, <1>4, <1>5

\* A request that changes no table.
LEMMA NothingAside ==
    ASSUME IInv, IInv', Stream, NEW c \in Conns, NEW method, Reads(c, method), this' = this,
           subs' = subs, cursors' = cursors
    PROVE  Aside(c) /\ \A j \in 1..Len(subs) : Steady(j, <<>>)
<1>1. /\ up[c] # <<>> /\ sock[c] \in {"open", "closing"} /\ up' = [up EXCEPT ![c] = Tail(@)]
      /\ log' = log /\ sock' = sock /\ Sizes /\ SubsInv /\ Roster /\ Table /\ Requested
      /\ Len(subs) \in Nat /\ log \in Nat
    BY ReadingIs
<1>2. Roster' /\ Aged
    BY <1>1, RosterStays
<1>3. Requested'
  <2>1. \A j \in 1..Len(subs) : subs'[j].conn \in {0, subs[j].conn}
    OBVIOUS
  <2>2. Len(subs') \in Nat /\ Len(subs) <= Len(subs')
    BY <1>1
  <2> QED
    BY <1>1, <2>1, <2>2, RequestedStays
<1>4. Table' /\ Onward
  <2>1. \A k \in 1..Len(cursors') : HasCursor(cursors'[k].id)
    BY DEF HasCursor
  <2>2. Onward
    BY <1>2, <2>1 DEF Onward
  <2>3. Table'
    BY <1>1 DEF Table, Named, Issued
  <2> QED
    BY <2>2, <2>3
<1>5. \A j \in 1..Len(subs) : Steady(j, <<>>)
    BY <1>1, SteadyStill
<1> QED
    BY <1>2, <1>3, <1>4, <1>5 DEF Aside

\* A subscription of the connection is left.
LEMMA UnsubscribeAside ==
    ASSUME IInv, IInv', Stream, NEW c \in Conns, Unsubscribe(c), this' = this
    PROVE  Aside(c)
<1>1. Reads(c, "unsubscribe")
    BY DEF Unsubscribe
<1>2. /\ up[c] # <<>> /\ sock[c] \in {"open", "closing"} /\ up' = [up EXCEPT ![c] = Tail(@)]
      /\ log' = log /\ sock' = sock /\ Sizes /\ SubsInv /\ Roster /\ Table /\ Requested
      /\ subs \in Seq(Fit(log)) /\ Len(subs) \in Nat /\ log \in Nat
    BY <1>1, ReadingIs
<1>3. PICK i : i = Head(up[c]).sub
    OBVIOUS
<1>4. \/ ~Attached(c, i) /\ Refuse(c, "unknown_subscription")
      \/ /\ Attached(c, i)
         /\ subs' = [subs EXCEPT ![i] = Gone]
         /\ cursors' = Released(cursors, {i}, {})
    BY <1>3 DEF Unsubscribe
<1>5. CASE ~Attached(c, i) /\ Refuse(c, "unknown_subscription")
  <2>1. subs' = subs /\ cursors' = cursors
    BY <1>5 DEF Refuse
  <2> QED
    BY <1>1, <2>1, NothingAside
<1>6. ASSUME Attached(c, i), subs' = [subs EXCEPT ![i] = Gone], cursors' = Released(cursors, {i}, {})
      PROVE  Aside(c)
  <2>1. i \in 1..Len(subs) /\ subs[i].conn = c
    BY <1>6 DEF Attached
  <2>2. Gone.conn = 0 /\ Gone.state = "gone" /\ Gone.seq = 0 /\ Gone.ackPos = -1
    BY DEF Gone
  <2>3. PICK x : x = Gone
    OBVIOUS
  <2>4. subs' = [subs EXCEPT ![i] = x]
    BY <1>6, <2>3
  <2>5. Len(subs') = Len(subs)
    BY <1>2, <2>4
  <2>6. subs'[i] = x
    BY <1>2, <2>1, <2>4
  <2>7. \A j \in 1..Len(subs) : j # i => subs'[j] = subs[j]
    BY <1>2, <2>4
  <2>8. Enlisted(x, i) /\ x.conn = 0 /\ x.state = "gone"
    BY <2>2, <2>3 DEF Enlisted
  <2>9. Roster' /\ Aged
    <3>1. \A j \in 1..Len(subs') :
               \/ j \in 1..Len(subs) /\ subs'[j] = subs[j]
               \/ /\ Enlisted(subs'[j], j) /\ subs'[j].conn \in {0, c}
                  /\ j \in 1..Len(subs) /\ subs'[j].state = "loading" =>
                        subs[j].state = "loading" /\ subs'[j].base = subs[j].base
      BY <2>5, <2>6, <2>7, <2>8
    <3>2. Len(subs') \in Nat /\ Len(subs) <= Len(subs')
      BY <1>2, <2>5
    <3> QED
      BY <1>2, <3>1, <3>2, RosterStays
  <2>10. Requested'
    <3>1. \A j \in 1..Len(subs) : subs'[j].conn \in {0, subs[j].conn}
      BY <2>6, <2>7, <2>8
    <3>2. Len(subs') \in Nat /\ Len(subs) <= Len(subs')
      BY <1>2, <2>5
    <3> QED
      BY <1>2, <3>1, <3>2, RequestedStays
  <2>11. PICK K : K = {r \in ToSet(cursors) : r.sub \notin {i} \/ r.id \in {}}
    OBVIOUS
  <2>12. cursors' = Only(cursors, K)
    BY <1>6, <2>11 DEF Released
  <2>13. Table' /\ Onward
    <3>1. Sizes' /\ SubsInv'
      BY DEF IInv, DaemonInv
    <3> QED
      BY <1>2, <2>9, <2>12, <3>1, TableShrinks
  <2>14. ASSUME this.conn # c, NEW j \in 1..Len(subs), subs[j].conn = this.conn
         PROVE  Steady(j, <<>>)
    <3>1. j # i /\ subs'[j] = subs[j]
      BY <2>1, <2>7, <2>14
    <3>2. cursors \in Seq(Named) /\ subs[j].ackPos \in Int /\ log \in Int
      BY <1>2, SubIs DEF Table
    <3>3. ASSUME NEW a \in 1..Len(cursors), cursors[a].sub = j  PROVE cursors[a] \in K
      <4>1. cursors[a] \in ToSet(cursors)
        BY DEF ToSet
      <4> QED
        BY <2>11, <3>1, <3>3, <4>1
    <3>4. ASSUME NEW ack, Ordered(cursors, j, ack, subs[j].ackPos, log)
          PROVE  Ordered(cursors', j, ack, subs[j].ackPos, log')
      <4>1. \A a \in 1..Len(cursors) : \A p \in (subs[j].ackPos + 1)..log :
             cursors[a].id = <<j, p>> /\ cursors[a].sub = j => cursors[a] \in K
        BY <3>3
      <4>2. Ordered(Only(cursors, K), j, ack, subs[j].ackPos, log)
        BY <3>2, <3>4, <4>1, OrderedOnly
      <4> QED
        BY <1>2, <2>12, <4>2
    <3> QED
      BY <1>2, <3>1, <3>4, SteadyStill
  <2> QED
    BY <2>9, <2>10, <2>13, <2>14 DEF Aside
<1> QED
    BY <1>4, <1>5, <1>6

\* A page that is built.
LEMMA HistoryAside ==
    ASSUME IInv, IInv', Stream, NEW c \in Conns, History(c), this' = this
    PROVE  Aside(c) /\ \A j \in 1..Len(subs) : Steady(j, <<>>)
<1>1. Reads(c, "history") /\ cursors' = cursors
    BY DEF History
<1>2. /\ up[c] # <<>> /\ sock[c] \in {"open", "closing"} /\ up' = [up EXCEPT ![c] = Tail(@)]
      /\ log' = log /\ sock' = sock /\ Sizes /\ SubsInv /\ Roster /\ Table /\ Requested
      /\ subs \in Seq(Fit(log)) /\ Len(subs) \in Nat /\ log \in Nat
    BY <1>1, ReadingIs
<1>3. PICK i, offset : i = Head(up[c]).sub /\ offset = Head(up[c]).offset
    OBVIOUS
<1>4. PICK page : page = Page(i, offset, subs[i].base)
    OBVIOUS
<1>5. \/ subs' = subs
      \/ Attached(c, i) /\ subs' = [subs EXCEPT ![i].offset = page.hi, ![i].final = @ \/ page.complete]
    BY <1>3, <1>4 DEF History, Refuse
<1>6. CASE subs' = subs
    BY <1>1, <1>6, NothingAside
<1>7. ASSUME Attached(c, i), subs' = [subs EXCEPT ![i].offset = page.hi, ![i].final = @ \/ page.complete]
      PROVE  Aside(c) /\ \A j \in 1..Len(subs) : Steady(j, <<>>)
  <2>1. i \in 1..Len(subs) /\ subs[i].conn = c /\ subs[i] \in SubRecords
    BY <1>2, <1>7 DEF Attached, Fit
  <2>2. PICK x : x = [subs[i] EXCEPT !.offset = page.hi, !.final = subs[i].final \/ page.complete]
    OBVIOUS
  <2>3. /\ x.conn = subs[i].conn /\ x.state = subs[i].state /\ x.base = subs[i].base /\ x.seq = subs[i].seq
        /\ x.ackPos = subs[i].ackPos /\ x.boundary = subs[i].boundary
    BY <2>1, <2>2 DEF SubRecords
  <2>4. subs' = [subs EXCEPT ![i] = x]
    BY <1>2, <1>7, <2>1, <2>2
  <2>5. Len(subs') = Len(subs)
    BY <1>2, <2>4
  <2>6. subs'[i] = x
    BY <1>2, <2>1, <2>4
  <2>7. \A j \in 1..Len(subs) : j # i => subs'[j] = subs[j]
    BY <1>2, <2>4
  <2>8. \A j \in 1..Len(subs) :
           /\ subs'[j].conn = subs[j].conn /\ subs'[j].state = subs[j].state /\ subs'[j].base = subs[j].base
           /\ subs'[j].seq = subs[j].seq /\ subs'[j].ackPos = subs[j].ackPos /\ subs'[j].boundary = subs[j].boundary
    BY <2>3, <2>6, <2>7
  <2>9. Roster' /\ Aged
    <3>1. ASSUME NEW j \in 1..Len(subs')
          PROVE  Enlisted(subs'[j], j) /\ (subs'[j].conn # 0 => sock'[subs'[j].conn] \in {"open", "closing"})
      <4>1. j \in 1..Len(subs) /\ Enlisted(subs[j], j) /\ (subs[j].conn # 0 => sock[subs[j].conn] \in {"open", "closing"})
        BY <1>2, <2>5 DEF Roster
      <4> QED
        BY <1>2, <2>8, <4>1 DEF Enlisted
    <3>2. Roster'
      BY <3>1 DEF Roster
    <3>3. Aged
      BY <1>2, <2>5, <2>8 DEF Aged
    <3> QED
      BY <3>2, <3>3
  <2>10. Requested'
    <3>1. \A j \in 1..Len(subs) : subs'[j].conn \in {0, subs[j].conn}
      BY <2>8
    <3>2. Len(subs') \in Nat /\ Len(subs) <= Len(subs')
      BY <1>2, <2>5
    <3> QED
      BY <1>2, <3>1, <3>2, RequestedStays
  <2>11. Table' /\ Onward
    <3>1. Sizes' /\ SubsInv'
      BY DEF IInv, DaemonInv
    <3>2. \A r \in Named : r \in Named'
      BY <1>2, <2>9, <3>1, RowStays
    <3>3. cursors \in Seq(Named')
      BY <1>2, <3>2, Wider DEF Table
    <3>4. Table'
      BY <1>1, <1>2, <3>3 DEF Table
    <3>5. \A k \in 1..Len(cursors') : HasCursor(cursors'[k].id)
      BY <1>1 DEF HasCursor
    <3> QED
      BY <2>9, <3>4, <3>5 DEF Onward
  <2>12. \A j \in 1..Len(subs) : Steady(j, <<>>)
    BY <1>1, <1>2, <2>8, SteadyStill
  <2> QED
    BY <2>9, <2>10, <2>11, <2>12 DEF Aside
<1> QED
    BY <1>5, <1>6, <1>7

\* New cursors behind those of the table, or what is left of them.
LEMMA TableGrows ==
    ASSUME Aged, Table, NEW table \in Seq(Named'), NEW new \in Seq(Named'), Distinct(table), Distinct(new),
           \A a \in 1..Len(table) : \E k \in 1..Len(cursors) : table[a].id = cursors[k].id,
           \A b \in 1..Len(new) : ~Issued(new[b].id),
           cursors' = Inserted(table, new)
    PROVE  Table' /\ Onward
<1>1. \A k \in 1..Len(cursors) : Issued(cursors[k].id)
    BY DEF Table, Named
<1>2. \A a \in 1..Len(table) : \A b \in 1..Len(new) : table[a].id # new[b].id
    BY <1>1
<1>3. Distinct(table \o new)
    BY <1>2, DistinctJoin
<1>4. Distinct(Inserted(table, new))
    BY <1>3, InsertedKeeps
<1>5. Inserted(table, new) \in Seq(Named')
    BY InsertedIs
<1>6. \A k \in 1..Len(Inserted(table, new)) :
                 \/ \E a \in 1..Len(table) : Inserted(table, new)[k] = table[a]
                 \/ \E a \in 1..Len(new) : Inserted(table, new)[k] = new[a]
    BY InsertedKeeps
<1>7. Table'
    BY <1>4, <1>5 DEF Table
<1>8. Onward
  <2> SUFFICES ASSUME NEW k \in 1..Len(cursors')
               PROVE  HasCursor(cursors'[k].id) \/ ~Issued(cursors'[k].id)
    BY DEF Onward
  <2>1. CASE \E a \in 1..Len(table) : cursors'[k] = table[a]
    BY <2>1 DEF HasCursor
  <2>2. CASE \E a \in 1..Len(new) : cursors'[k] = new[a]
    BY <2>2
  <2> QED
    BY <1>6, <2>1, <2>2
<1> QED
    BY <1>7, <1>8

\* They are of no interest to another subscription.
LEMMA OrderedGrows ==
    ASSUME NEW S, NEW table \in Seq(S), NEW new \in Seq(S), NEW i, NEW ack, NEW lo \in Int, NEW hi \in Int,
           Ordered(table, i, ack, lo, hi),
           \A b \in 1..Len(new) : new[b].id # ack /\ new[b].id[1] # i
    PROVE  Ordered(Inserted(table, new), i, ack, lo, hi)
<1>1. Ordered(new, i, ack, lo, hi)
    BY DEF Ordered
<1>2. \A p \in (lo + 1)..hi : hi < p => \E b \in 1..Len(new) : new[b].id = <<i, p>> /\ new[b].sub = i
    OBVIOUS
<1>3. Ordered(table \o new, i, ack, lo, hi)
    BY <1>1, <1>2, OrderedJoin
<1> QED
    BY <1>3, InsertedKeeps

\* A new subscription behind the others.
LEMMA NewSub ==
    ASSUME IInv, Stream, NEW c \in Conns, NEW method, Reads(c, method), this' = this,
           NEW x, subs' = Append(subs, x), x.conn = c, Enlisted(x, Len(subs) + 1)
    PROVE  /\ Len(subs') = Len(subs) + 1 /\ subs'[Len(subs) + 1] = x
           /\ \A j \in 1..Len(subs) : subs'[j] = subs[j]
           /\ Roster' /\ Aged /\ Requested'
<1>1. /\ up[c] # <<>> /\ sock[c] \in {"open", "closing"} /\ up' = [up EXCEPT ![c] = Tail(@)]
      /\ log' = log /\ sock' = sock /\ Sizes /\ SubsInv /\ Roster /\ Table /\ Requested
      /\ subs \in Seq(Fit(log)) /\ Len(subs) \in Nat /\ log \in Nat
    BY ReadingIs
<1>2. Len(subs') = Len(subs) + 1 /\ subs'[Len(subs) + 1] = x /\ \A j \in 1..Len(subs) : subs'[j] = subs[j]
    BY <1>1
<1>3. Len(subs') \in Nat /\ Len(subs) <= Len(subs')
    BY <1>1, <1>2
<1>4. Roster' /\ Aged
  <2>1. \A j \in 1..Len(subs') :
               \/ j \in 1..Len(subs) /\ subs'[j] = subs[j]
               \/ /\ Enlisted(subs'[j], j) /\ subs'[j].conn \in {0, c}
                  /\ j \in 1..Len(subs) /\ subs'[j].state = "loading" =>
                        subs[j].state = "loading" /\ subs'[j].base = subs[j].base
    <3> SUFFICES ASSUME NEW j \in 1..Len(subs'), ~(j \in 1..Len(subs))
                 PROVE  Enlisted(subs'[j], j) /\ subs'[j].conn \in {0, c}
      BY <1>2
    <3>1. j = Len(subs) + 1
      BY <1>1, <1>2
    <3> QED
      BY <1>2, <3>1
  <2> QED
    BY <1>1, <1>3, <2>1, RosterStays
<1>5. Requested'
  <2>1. \A j \in 1..Len(subs) : subs'[j].conn \in {0, subs[j].conn}
    BY <1>2
  <2> QED
    BY <1>1, <1>3, <2>1, RequestedStays
<1> QED
    BY <1>2, <1>4, <1>5

\* A new cursor is a record of the table.
LEMMA CursorNamed ==
    ASSUME Sizes', SubsInv', NEW i, NEW p, NEW id, id[1] = i, id[2] = p, id = <<i, p>>, Issued(id)'
    PROVE  Cursor(i, p) \in Named'
<1>1. i \in 1..Len(subs') /\ p \in 0..log' /\ Len(subs') \in Nat /\ Len(subs') <= MaxSubs /\ log' \in Nat /\ log' <= MaxEvents
    BY Bounds DEF Issued, Sizes, SubsInv
<1>2. i \in 1..MaxSubs /\ p \in 0..MaxEvents /\ i <= Len(subs') /\ p <= log'
    BY <1>1, Bounds
<1>3. <<i, p>> \in CursorIds
    BY <1>2 DEF CursorIds
<1>4. Cursor(i, p) \in Held(log', Len(subs'))
    BY <1>2, <1>3 DEF Cursor, Held, CursorRecords
<1> QED
    BY <1>4 DEF Cursor, Named

\* A snapshot is frozen.
LEMMA SnapshotAside ==
    ASSUME IInv, IInv', Stream, NEW c \in Conns, SubscribeSnapshot(c), this' = this
    PROVE  /\ Aside(c) /\ Len(subs') = Len(subs) + 1
           /\ \A j \in 1..Len(subs) : subs'[j] = subs[j] /\ Steady(j, <<>>)
<1>1. Reads(c, "subscribe")
    BY DEF SubscribeSnapshot
<1>2. /\ log' = log /\ sock' = sock /\ Sizes /\ SubsInv /\ Roster /\ Table /\ Requested
      /\ subs \in Seq(Fit(log)) /\ Len(subs) \in Nat /\ log \in Nat
    BY <1>1, ReadingIs
<1>3. PICK i : i = Len(subs) + 1
    OBVIOUS
<1>4. PICK page : page = Page(i, 0, log)
    OBVIOUS
<1>5. PICK x : x = [conn |-> c, state |-> "loading", base |-> log, tail |-> <<>>, next |-> log + 1,
                 seq |-> 0, offset |-> page.hi, final |-> page.complete,
                 ackPos |-> -1, ackCursor |-> None, boundary |-> <<i, log>>]
    OBVIOUS
<1>6. subs' = Append(subs, x) /\ cursors' = Inserted(cursors, <<Cursor(i, log)>>)
    BY <1>3, <1>4, <1>5 DEF SubscribeSnapshot
<1>7. x.conn = c /\ x.state = "loading" /\ x.base = log /\ Enlisted(x, i)
    BY <1>5 DEF Enlisted
<1>8. /\ Len(subs') = i /\ subs'[i] = x /\ \A j \in 1..Len(subs) : subs'[j] = subs[j]
      /\ Roster' /\ Aged /\ Requested'
    BY <1>1, <1>3, <1>6, <1>7, NewSub
<1>9. PICK new : new = <<Cursor(i, log)>>
    OBVIOUS
<1>10. Sizes' /\ SubsInv'
    BY DEF IInv, DaemonInv
<1>11. Len(new) = 1 /\ new[1] = Cursor(i, log) /\ new[1].id = <<i, log>> /\ new[1].id[1] = i
    BY <1>9 DEF Cursor
<1>12. Cursor(i, log) \in Named'
  <2>1. <<i, log>> # None /\ <<i, log>>[1] = i /\ <<i, log>>[2] = log
    BY DEF None
  <2>2. i \in 1..Len(subs') /\ log \in 0..log'
    BY <1>2, <1>3, <1>8
  <2>3. PICK id : id = <<i, log>>
    OBVIOUS
  <2>4. id # None /\ id[1] = i /\ id[2] = log
    BY <2>1, <2>3
  <2>5. Issued(id)'
    BY <1>2, <1>7, <1>8, <2>2, <2>4 DEF Issued
  <2> QED
    BY <1>10, <2>3, <2>4, <2>5, CursorNamed
<1>13. new \in Seq(Named') /\ Distinct(new)
  <2>1. new \in Seq(Named')
    BY <1>9, <1>12
  <2>2. Distinct(new)
    BY <1>11 DEF Distinct
  <2> QED
    BY <2>1, <2>2
<1>14. \A b \in 1..Len(new) : ~Issued(new[b].id) /\ new[b].id # None /\ new[b].id[1] = i
    BY <1>2, <1>3, <1>11 DEF Issued, None
<1>15. cursors \in Seq(Named') /\ Distinct(cursors) /\ cursors \in Seq(Named)
  <2>1. \A r \in Named : r \in Named'
    BY <1>2, <1>8, <1>10, RowStays
  <2> QED
    BY <1>2, <2>1, Wider DEF Table
<1>16. cursors' = Inserted(cursors, new)
    BY <1>6, <1>9
<1>17. Table' /\ Onward
    BY <1>2, <1>8, <1>13, <1>14, <1>15, <1>16, TableGrows
<1>18. ASSUME NEW j \in 1..Len(subs)  PROVE Steady(j, <<>>)
  <2>1. j # i /\ subs[j].ackPos \in Int /\ log \in Int
    BY <1>2, <1>3, SubIs
  <2>2. ASSUME NEW ack, ack = None \/ Issued(ack), Ordered(cursors, j, ack, subs[j].ackPos, log)
        PROVE  Ordered(cursors', j, ack, subs[j].ackPos, log')
    <3>1. \A b \in 1..Len(new) : new[b].id # ack /\ new[b].id[1] # j
      BY <1>14, <2>1, <2>2
    <3>2. Ordered(Inserted(cursors, new), j, ack, subs[j].ackPos, log)
      BY <1>13, <1>15, <2>1, <2>2, <3>1, OrderedGrows
    <3> QED
      BY <1>2, <1>16, <3>2
  <2> QED
    BY <1>2, <1>8, <2>2, SteadyStill
<1> QED
    BY <1>3, <1>8, <1>17, <1>18 DEF Aside

\* The cursors of a subscription whose acknowledged position is the one before them.
LEMMA OrderedNew ==
    ASSUME NEW S, NEW table \in Seq(S), NEW i, NEW b \in Nat, NEW n \in Nat, NEW h, h = b + n,
           NEW new \in Seq(S), new = RowOf(i, b, n),
           NEW ack, \A k \in 1..Len(new) : new[k].id # ack
    PROVE  Ordered(Inserted(table, new), i, ack, b, h)
<1>1. /\ Len(RowOf(i, b, n)) = n
      /\ \A p \in (b + 1)..(b + n) : \E k \in 1..n : RowOf(i, b, n)[k].id = <<i, p>> /\ RowOf(i, b, n)[k].sub = i
      /\ \A a : (\A k \in 1..n : RowOf(i, b, n)[k].id # a) => Ordered(RowOf(i, b, n), i, a, b, b + n)
    BY NewCursorsRow
<1>2. /\ Ordered(new, i, ack, b, h)
      /\ \A p \in (b + 1)..h : b < p => \E k \in 1..Len(new) : new[k].id = <<i, p>> /\ new[k].sub = i
    BY <1>1
<1>3. Ordered(table, i, ack, b, b)
    BY DEF Ordered
<1>4. b \in Int /\ h \in Int
    OBVIOUS
<1>5. Ordered(table \o new, i, ack, b, h)
    BY <1>2, <1>3, <1>4, OrderedJoin
<1> QED
    BY <1>5, InsertedKeeps

\* The record of a cursor moves to another subscription.
Rehomed(id, i) == [k \in 1..Len(cursors) |-> IF cursors[k].id = id THEN [cursors[k] EXCEPT !.sub = i] ELSE cursors[k]]

LEMMA RehomedIs ==
    ASSUME Table, NEW id, NEW i, NEW moved, moved = Rehomed(id, i)
    PROVE  /\ Len(moved) = Len(cursors) /\ Len(cursors) \in Nat
           /\ \A k \in 1..Len(cursors) :
                 /\ moved[k].id = cursors[k].id /\ moved[k].pos = cursors[k].pos
                 /\ cursors[k].id # id => moved[k] = cursors[k]
                 /\ cursors[k].id = id => moved[k].sub = i /\ (i \in 1..MaxSubs => moved[k] \in CursorRecords)
           /\ \A k \in 1..Len(cursors) : cursors[k] \in Named /\ cursors[k] \in CursorRecords
           /\ Distinct(moved)
           /\ \A j : j # id[1] => \A ack, lo, hi : Ordered(cursors, j, ack, lo, hi) => Ordered(moved, j, ack, lo, hi)
<1>1. cursors \in Seq(Named) /\ Len(cursors) \in Nat /\ Distinct(cursors)
    BY DEF Table
<1>2. \A k \in 1..Len(cursors) : cursors[k] \in Named /\ cursors[k] \in CursorRecords
    BY <1>1 DEF Named, Held
<1>3. Len(moved) = Len(cursors)
    BY <1>1 DEF Rehomed
<1>4. \A k \in 1..Len(cursors) : moved[k] = IF cursors[k].id = id THEN [cursors[k] EXCEPT !.sub = i] ELSE cursors[k]
    BY DEF Rehomed
<1>5. ASSUME NEW k \in 1..Len(cursors)
      PROVE  /\ moved[k].id = cursors[k].id /\ moved[k].pos = cursors[k].pos
             /\ cursors[k].id # id => moved[k] = cursors[k]
             /\ cursors[k].id = id => moved[k].sub = i /\ (i \in 1..MaxSubs => moved[k] \in CursorRecords)
  <2>1. PICK r \in CursorRecords : r = cursors[k]
    BY <1>2
  <2>2. moved[k] = IF r.id = id THEN [r EXCEPT !.sub = i] ELSE r
    BY <1>4, <2>1
  <2> QED
    BY <2>1, <2>2 DEF CursorRecords
<1>6. Distinct(moved)
    BY <1>1, <1>3, <1>5, DistinctSame
<1>7. ASSUME NEW j, j # id[1], NEW ack, NEW lo, NEW hi, Ordered(cursors, j, ack, lo, hi)
      PROVE  Ordered(moved, j, ack, lo, hi)
  <2>1. \A a \in 1..Len(cursors) :
               /\ moved[a].id = cursors[a].id /\ moved[a].pos = cursors[a].pos
               /\ cursors[a].id[1] = j /\ cursors[a].sub = j => moved[a].sub = j
    BY <1>5, <1>7
  <2> QED
    BY <1>1, <1>3, <1>7, <2>1, OrderedSame
<1> QED
    BY <1>1, <1>2, <1>3, <1>5, <1>6, <1>7

\* The cursor to resume behind.
LEMMA ResumedFrom ==
    ASSUME IInv, Stream, NEW id, HasCursor(id)
    PROVE  /\ Issued(id) /\ CursorOf(id).pos = id[2] /\ id[2] \in Nat /\ id[2] <= log
           /\ CursorOf(id).id = id /\ CursorOf(id) \in Named
           /\ \E a \in 1..Len(cursors) : cursors[a] = CursorOf(id)
<1>1. TableInv /\ cursors \in Seq(Named) /\ log \in Nat
    BY Bounds DEF IInv, DaemonInv, Stream, Table, Sizes
<1>2. CursorOf(id) \in Held(log, Len(subs)) /\ CursorOf(id).id = id
    BY <1>1, CursorIs
<1>3. \E a \in 1..Len(cursors) : cursors[a] = CursorOf(id)
    BY DEF HasCursor, CursorOf
<1>4. CursorOf(id) \in Named
    BY <1>1, <1>3
<1>5. Issued(id) /\ CursorOf(id).pos = id[2]
    BY <1>2, <1>4 DEF Named
<1>6. id[2] \in Nat /\ id[2] <= log
    BY <1>1, <1>5 DEF Issued
<1> QED
    BY <1>2, <1>3, <1>4, <1>5, <1>6

\* A sequence of what is in a set.
LEMMA Inside ==
    ASSUME NEW S, NEW T, NEW s \in Seq(S), \A k \in 1..Len(s) : s[k] \in T
    PROVE  s \in Seq(T)
OBVIOUS

\* An answer, with events behind it.
Replied(c, m, ev) == Send(c, <<m>> \o ev)

LEMMA RepliedAlone ==
    ASSUME NEW c, NEW m, Send(c, <<m>>)
    PROVE  Replied(c, m, <<>>)
<1>1. <<m>> \o <<>> = <<m>>
    OBVIOUS
<1> QED
    BY <1>1 DEF Replied

LEMMA RefusedBy ==
    ASSUME NEW c, NEW code, Refuse(c, code), code \in {"snapshot_required", "unknown_subscription", "unknown_cursor"}
    PROVE  subs' = subs /\ cursors' = cursors /\ \E m \in Errors : Replied(c, m, <<>>)
<1>1. PICK m : m = Failure(code)
    OBVIOUS
<1>2. m \in Errors
    BY <1>1 DEF Failure, Errors
<1>3. Send(c, <<m>>) /\ subs' = subs /\ cursors' = cursors
    BY <1>1 DEF Refuse
<1> QED
    BY <1>2, <1>3, RepliedAlone

\* A subscription that resumes behind position b.
ResumedAt(c, i, b, n) ==
    /\ Len(subs') = i /\ \A j \in 1..Len(subs) : subs'[j] = subs[j]
    /\ subs'[i].conn = c /\ subs'[i].state = "active" /\ subs'[i].base = b /\ subs'[i].seq = n
    /\ subs'[i].ackPos = b
    /\ Replied(c, [kind |-> "resumed", sub |-> i], Deliveries(i, 0, Span(b + 1, b + n)))
    /\ \A ack : (ack = None \/ Issued(ack)) => Ordered(cursors', i, ack, b, log)

\* A cursor past the limit of the tail loses its record.
LEMMA AfterRefused ==
    ASSUME IInv, IInv', Stream, NEW c \in Conns, Reads(c, "subscribe"), this' = this,
           NEW id, id = Head(up[c]).after, id # None, subs' = subs,
           NEW moved, moved = Rehomed(id, Len(subs) + 1), cursors' = Released(moved, {Len(subs) + 1}, {})
    PROVE  Aside(c)
<1>1. /\ up[c] # <<>> /\ sock[c] \in {"open", "closing"} /\ up' = [up EXCEPT ![c] = Tail(@)]
      /\ log' = log /\ sock' = sock /\ Sizes /\ SubsInv /\ Roster /\ Table /\ Requested
      /\ subs \in Seq(Fit(log)) /\ Len(subs) \in Nat /\ log \in Nat
      /\ Head(up[c]).method = "subscribe"
    BY ReadingIs
<1>0. PICK i : i = Len(subs) + 1
    OBVIOUS
<1>2. /\ Len(moved) = Len(cursors) /\ Len(cursors) \in Nat
      /\ \A k \in 1..Len(cursors) :
                 /\ moved[k].id = cursors[k].id /\ moved[k].pos = cursors[k].pos
                 /\ cursors[k].id # id => moved[k] = cursors[k]
                 /\ cursors[k].id = id => moved[k].sub = i
      /\ \A k \in 1..Len(cursors) : cursors[k] \in Named /\ cursors[k] \in CursorRecords
      /\ Distinct(moved)
      /\ \A j : j # id[1] => \A ack, lo, hi : Ordered(cursors, j, ack, lo, hi) => Ordered(moved, j, ack, lo, hi)
  <2>1. moved = Rehomed(id, i) /\ Table
    BY <1>1, <1>0
  <2> QED
    BY <2>1, RehomedIs
<1>3. Roster' /\ Aged
    BY <1>1, RosterStays
<1>4. Requested'
  <2>1. \A j \in 1..Len(subs) : subs'[j].conn \in {0, subs[j].conn}
    OBVIOUS
  <2>2. Len(subs') \in Nat /\ Len(subs) <= Len(subs')
    BY <1>1
  <2> QED
    BY <1>1, <2>1, <2>2, RequestedStays
<1>5. PICK S : S = {moved[k] : k \in 1..Len(cursors)}
    OBVIOUS
<1>6. moved \in Seq(S)
  <2>1. moved = [k \in 1..Len(cursors) |-> moved[k]]
    BY <1>1 DEF Rehomed, Table
  <2>2. \A k \in 1..Len(cursors) : moved[k] \in S
    BY <1>5
  <2>3. PICK n \in Nat : n = Len(cursors)
    BY <1>2
  <2>4. [k \in 1..n |-> moved[k]] \in Seq(S)
    BY <2>2, <2>3
  <2> QED
    BY <2>1, <2>3, <2>4
<1>7. PICK K : K = {r \in ToSet(moved) : r.sub \notin {i} \/ r.id \in {}}
    OBVIOUS
<1>8. cursors' = Only(moved, K)
    BY <1>0, <1>7 DEF Released
<1>9. Only(moved, K) \in Seq(S) /\ \A k \in 1..Len(Only(moved, K)) : Only(moved, K)[k] \in K /\ \E a \in 1..Len(moved) : moved[a] = Only(moved, K)[k]
    BY <1>6, OnlyOf
<1>10. ASSUME NEW k \in 1..Len(cursors')
       PROVE  \E a \in 1..Len(cursors) : cursors'[k] = cursors[a]
  <2>1. cursors'[k] \in K
    BY <1>8, <1>9
  <2>2. PICK a \in 1..Len(moved) : moved[a] = cursors'[k]
    BY <1>8, <1>9
  <2>3. moved[a].sub # i
    BY <1>7, <2>1, <2>2
  <2>4. a \in 1..Len(cursors) /\ moved[a] = cursors[a]
    BY <1>2, <2>2, <2>3
  <2> QED
    BY <2>2, <2>4
<1>11. Table'
  <2>1. Sizes' /\ SubsInv'
    BY DEF IInv, DaemonInv
  <2>2. \A r \in Named : r \in Named'
    BY <1>1, <1>3, <2>1, RowStays
  <2>3. \A k \in 1..Len(cursors') : cursors'[k] \in Named'
    BY <1>2, <1>10, <2>2
  <2>4. cursors' \in Seq(S)
    BY <1>8, <1>9
  <2>5. PICK T : T = Named'
    OBVIOUS
  <2>6. cursors' \in Seq(T)
    <3>1. \A k \in 1..Len(cursors') : cursors'[k] \in T
      BY <2>3, <2>5
    <3> QED
      BY <2>4, <3>1, Inside
  <2>7. Distinct(cursors')
    BY <1>2, <1>6, <1>8, DistinctOnly
  <2> QED
    BY <2>5, <2>6, <2>7 DEF Table
<1>12. Onward
    BY <1>3, <1>10 DEF Onward, HasCursor
<1>13. ASSUME this.conn # c, this.conn # 0, NEW j \in 1..Len(subs), subs[j].conn = this.conn
       PROVE  Steady(j, <<>>)
  <2>1. j # id[1]
    <3>1. up[c] \in Seq(Requests)
      BY InvFacts
    <3>2. 1 \in 1..Len(up[c]) /\ up[c][1] = Head(up[c])
      BY <1>1, <3>1
    <3> QED
      BY <1>1, <1>13, <3>2 DEF Requested
  <2>2. subs[j].ackPos \in Int /\ log \in Int /\ j \in Nat
    BY <1>1, SubIs
  <2>3. ASSUME NEW ack, Ordered(cursors, j, ack, subs[j].ackPos, log)
        PROVE  Ordered(cursors', j, ack, subs[j].ackPos, log')
    <3>1. Ordered(moved, j, ack, subs[j].ackPos, log)
      BY <1>2, <2>1, <2>3
    <3>2. ASSUME NEW a \in 1..Len(moved), moved[a].sub = j
          PROVE  moved[a] \in K
      <4>1. moved[a] \in ToSet(moved)
        BY DEF ToSet
      <4>2. moved[a].sub # i
        BY <1>0, <1>1, <2>2, <3>2
      <4> QED
        BY <1>7, <4>1, <4>2
    <3>3. \A a \in 1..Len(moved) : \A p \in (subs[j].ackPos + 1)..log :
             moved[a].id = <<j, p>> /\ moved[a].sub = j => moved[a] \in K
      BY <3>2
    <3>4. Ordered(Only(moved, K), j, ack, subs[j].ackPos, log)
      BY <1>6, <2>2, <3>1, <3>3, OrderedOnly
    <3> QED
      BY <1>1, <1>8, <3>4
  <2> QED
    BY <1>1, <2>3, SteadyStill
<1> QED
    BY <1>3, <1>4, <1>11, <1>12, <1>13 DEF Aside

\* n cursors of subscription i behind position b.
Numbered(new, i, b, n) ==
    Len(new) = n /\ \A k \in 1..Len(new) : new[k].id # None /\ new[k].id[1] = i /\ b < new[k].id[2]

\* New cursors of a subscription that is active after the step.
LEMMA RowNamed ==
    ASSUME Sizes', SubsInv', NEW i \in 1..Len(subs'), subs'[i].state # "loading",
           NEW b \in Nat, NEW n \in Nat, NEW h, h = b + n, h <= log', NEW new, new = RowOf(i, b, n)
    PROVE  new \in Seq(Named') /\ Distinct(new) /\ Numbered(new, i, b, n)
<1>1. Len(new) = n /\ (\A k \in 1..n : \A p : p = b + k => new[k] = Cursor(i, p)) /\ Distinct(new)
  <2>1. /\ Len(RowOf(i, b, n)) = n
        /\ \A k \in 1..n : \A p : p = b + k => RowOf(i, b, n)[k] = Cursor(i, p)
        /\ Distinct(RowOf(i, b, n))
    BY NewCursorsRow
  <2> QED
    BY <2>1
<1>2. log' \in Nat /\ i \in Nat
    BY Bounds DEF Sizes, SubsInv
<1>3. ASSUME NEW k \in 1..n  PROVE new[k] \in Named' /\ new[k].id # None /\ new[k].id[1] = i /\ b < new[k].id[2]
  <2>1. PICK p \in Nat : p = b + k
    OBVIOUS
  <2>2. PICK id : id = <<i, p>>
    OBVIOUS
  <2>3. id # None /\ id[1] = i /\ id[2] = p
    BY <2>2 DEF None
  <2>4. p \in 0..log'
    BY <1>2, <2>1
  <2>5. Issued(id)'
    BY <2>3, <2>4 DEF Issued
  <2>6. Cursor(i, p) \in Named'
    BY <2>2, <2>3, <2>5, CursorNamed
  <2>7. new[k] = Cursor(i, p)
    BY <1>1, <2>1
  <2>8. new[k].id = id
    BY <2>2, <2>7 DEF Cursor
  <2> QED
    BY <2>1, <2>3, <2>6, <2>7, <2>8
<1>4. new \in Seq(Named')
  <2>1. new = [k \in 1..n |-> new[k]]
    <3>1. new = [k \in 1..Len(Span(b + 1, b + n)) |-> Cursor(i, Span(b + 1, b + n)[k])]
      BY DEF RowOf, NewCursors
    <3> QED
      BY <1>1, <3>1, SpanAt
  <2> QED
    BY <1>3, <2>1
<1> QED
    BY <1>1, <1>3, <1>4 DEF Numbered

\* Subscription i, at state x, resumes behind position b.
Resumes(c, i, x, b) ==
    /\ Aside(c) /\ Len(subs') = i /\ subs'[i] = x
    /\ \A j \in 1..Len(subs) : subs'[j] = subs[j]
    /\ \A ack : (ack = None \/ Issued(ack)) => Ordered(cursors', i, ack, b, log)

\* A cursor is resumed behind.
LEMMA AfterResumed ==
    ASSUME IInv, IInv', Stream, NEW c \in Conns, Reads(c, "subscribe"), this' = this,
           NEW id, id = Head(up[c]).after, id # None, HasCursor(id),
           NEW i, i = Len(subs) + 1, NEW b, b = CursorOf(id).pos, NEW n \in Nat, b + n = log,
           NEW x, subs' = Append(subs, x), x.conn = c, x.state = "active", x.base = b, x.seq = n,
           x.ackPos = b, x.boundary = None,
           NEW moved, moved = Rehomed(id, i), NEW new, new = RowOf(i, b, n), cursors' = Inserted(moved, new)
    PROVE  b = id[2] /\ Resumes(c, i, x, b)
<1>1. /\ up[c] # <<>> /\ sock[c] \in {"open", "closing"} /\ up' = [up EXCEPT ![c] = Tail(@)]
      /\ log' = log /\ sock' = sock /\ Sizes /\ SubsInv /\ Roster /\ Table /\ Requested
      /\ subs \in Seq(Fit(log)) /\ Len(subs) \in Nat /\ log \in Nat
      /\ Head(up[c]).method = "subscribe"
    BY ReadingIs
<1>2. Issued(id) /\ b = id[2] /\ b \in Nat /\ b <= log
    BY ResumedFrom
<1>3. /\ Len(subs') = i /\ subs'[i] = x /\ \A j \in 1..Len(subs) : subs'[j] = subs[j]
      /\ Roster' /\ Aged /\ Requested'
  <2>1. Enlisted(x, i)
    BY <1>2 DEF Enlisted
  <2> QED
    BY <2>1, NewSub
<1>4. Sizes' /\ SubsInv'
    BY DEF IInv, DaemonInv
<1>5. i \in 1..Len(subs') /\ i \in 1..MaxSubs /\ subs'[i].state = "active"
  <2>1. Len(subs') <= MaxSubs
    BY <1>4 DEF SubsInv
  <2> QED
    BY <1>1, <1>3, <2>1, Bounds
<1>6. /\ Len(moved) = Len(cursors) /\ Len(cursors) \in Nat
      /\ \A k \in 1..Len(cursors) :
                 /\ moved[k].id = cursors[k].id /\ moved[k].pos = cursors[k].pos
                 /\ cursors[k].id # id => moved[k] = cursors[k]
                 /\ cursors[k].id = id => moved[k].sub = i /\ (i \in 1..MaxSubs => moved[k] \in CursorRecords)
      /\ \A k \in 1..Len(cursors) : cursors[k] \in Named /\ cursors[k] \in CursorRecords
      /\ Distinct(moved)
      /\ \A j : j # id[1] => \A ack, lo, hi : Ordered(cursors, j, ack, lo, hi) => Ordered(moved, j, ack, lo, hi)
  <2>1. moved = Rehomed(id, i) /\ Table
    BY <1>1
  <2> QED
    BY <2>1, RehomedIs
<1>7. ASSUME NEW k \in 1..Len(cursors)  PROVE moved[k] \in Named'
  <2>1. cursors[k] \in Named'
    BY <1>1, <1>3, <1>4, <1>6, RowStays
  <2>2. CASE cursors[k].id # id
    BY <1>6, <2>1, <2>2
  <2>3. CASE cursors[k].id = id
    <3>0. PICK z : z = cursors[k]
      OBVIOUS
    <3>1. moved[k] \in CursorRecords /\ moved[k].sub = i /\ moved[k].id = z.id /\ moved[k].pos = z.pos
      BY <1>5, <1>6, <2>3, <3>0
    <3>2. Issued(z.id)' /\ z.pos <= log' /\ z.pos = z.id[2]
      BY <2>1, <3>0 DEF Named, Held
    <3>3. i <= Len(subs') /\ subs'[i].state # "loading"
      BY <1>5
    <3>4. PICK r : r = moved[k]
      OBVIOUS
    <3>5. r \in CursorRecords /\ r.sub = i /\ Issued(r.id)' /\ r.pos <= log' /\ r.pos = r.id[2]
      BY <3>1, <3>2, <3>4
    <3>6. r \in Held(log', Len(subs'))
      BY <3>3, <3>5 DEF Held
    <3>7. r \in Named'
      BY <3>3, <3>5, <3>6 DEF Named
    <3> QED
      BY <3>4, <3>7
  <2> QED
    BY <2>2, <2>3
<1>8. moved \in Seq(Named')
  <2>1. moved = [k \in 1..Len(cursors) |-> moved[k]]
    BY <1>1 DEF Rehomed, Table
  <2>2. PICK m \in Nat : m = Len(cursors)
    BY <1>6
  <2>3. PICK T : T = Named'
    OBVIOUS
  <2>4. [k \in 1..m |-> moved[k]] \in Seq(T)
    BY <1>7, <2>2, <2>3
  <2> QED
    BY <2>1, <2>2, <2>3, <2>4
<1>9. /\ new \in Seq(Named') /\ Len(new) = n /\ Distinct(new)
      /\ \A k \in 1..Len(new) : /\ new[k].id # None /\ new[k].id[1] = i /\ b < new[k].id[2]
  <2>1. PICK h : h = log
    OBVIOUS
  <2>2. h = b + n /\ h <= log' /\ subs'[i].state # "loading" /\ b \in Nat
    BY <1>1, <1>2, <1>5, <2>1
  <2>3. i \in 1..Len(subs')
    BY <1>5
  <2> QED
    <3>1. new \in Seq(Named') /\ Distinct(new) /\ Numbered(new, i, b, n)
      BY <1>4, <2>2, <2>3, RowNamed
    <3> QED
      BY <3>1 DEF Numbered
<1>14. ~(i \in 1..Len(subs))
    BY <1>1
<1>10. ASSUME NEW k \in 1..Len(new)  PROVE ~Issued(new[k].id)
  <2>1. PICK q : q = new[k].id
    OBVIOUS
  <2>2. q[1] = i /\ ~(i \in 1..Len(subs))
    BY <1>9, <1>14, <2>1
  <2>3. ~Issued(q)
    BY <2>2 DEF Issued
  <2> QED
    BY <2>1, <2>3
<1>11. Table' /\ Onward
  <2>1. \A a \in 1..Len(moved) : \E k \in 1..Len(cursors) : moved[a].id = cursors[k].id
    BY <1>6
  <2> QED
    BY <1>1, <1>3, <1>6, <1>8, <1>9, <1>10, <2>1, TableGrows
<1>12. ASSUME this.conn # c, this.conn # 0, NEW j \in 1..Len(subs), subs[j].conn = this.conn
       PROVE  Steady(j, <<>>)
  <2>1. j # id[1]
    <3>1. up[c] \in Seq(Requests)
      BY InvFacts
    <3>2. 1 \in 1..Len(up[c]) /\ up[c][1] = Head(up[c])
      BY <1>1, <3>1
    <3> QED
      BY <1>1, <1>12, <3>2 DEF Requested
  <2>2. subs[j].ackPos \in Int /\ log \in Int /\ j # i
    BY <1>1, SubIs
  <2>3. ASSUME NEW ack, ack = None \/ Issued(ack), Ordered(cursors, j, ack, subs[j].ackPos, log)
        PROVE  Ordered(cursors', j, ack, subs[j].ackPos, log')
    <3>1. Ordered(moved, j, ack, subs[j].ackPos, log)
      BY <1>6, <2>1, <2>3
    <3>2. \A k \in 1..Len(new) : new[k].id # ack /\ new[k].id[1] # j
      BY <1>9, <1>10, <2>2, <2>3
    <3>3. Ordered(Inserted(moved, new), j, ack, subs[j].ackPos, log)
      BY <1>8, <1>9, <2>2, <3>1, <3>2, OrderedGrows
    <3> QED
      BY <1>1, <3>3
  <2> QED
    BY <1>1, <1>3, <2>3, SteadyStill
<1>13. ASSUME NEW ack, ack = None \/ Issued(ack)
       PROVE  Ordered(cursors', i, ack, b, log)
  <2>1. \A k \in 1..Len(new) : new[k].id # ack
    BY <1>9, <1>10, <1>13
  <2> QED
    BY <1>2, <1>8, <1>9, <2>1, OrderedNew
<1> QED
    BY <1>2, <1>3, <1>11, <1>12, <1>13 DEF Aside, Resumes

\* A request to resume is refused, or a subscription resumes behind its cursor.
LEMMA AfterServed ==
    ASSUME IInv, IInv', Stream, NEW c \in Conns, SubscribeAfter(c), this' = this
    PROVE  /\ Aside(c)
           /\ \/ subs' = subs /\ \E m \in Errors : Replied(c, m, <<>>)
              \/ \E id, i : \E b, n \in Nat :
                    /\ id = Head(up[c]).after /\ id # None /\ HasCursor(id) /\ b = id[2] /\ b + n = log
                    /\ i = Len(subs) + 1 /\ ResumedAt(c, i, b, n)
<1>1. Reads(c, "subscribe") /\ Head(up[c]).after # None
    BY DEF SubscribeAfter
<1>2. PICK id, i : id = Head(up[c]).after /\ i = Len(subs) + 1
    OBVIOUS
<1>3. PICK moved : moved = Rehomed(id, i)
    OBVIOUS
<1>4. PICK from : from = CursorOf(id).pos
    OBVIOUS
<1>5. PICK missing : missing = Span(from + 1, log)
    OBVIOUS
<1>6. \/ ~(HasCursor(id) /\ CursorOf(id).acknowledged) /\ Refuse(c, "snapshot_required")
      \/ /\ HasCursor(id) /\ cursors' = Released(moved, {i}, {})
         /\ Send(c, <<Failure("snapshot_required")>>)
         /\ subs' = subs
      \/ /\ HasCursor(id)
         /\ subs' = Append(subs,
                   [conn |-> c, state |-> "active", base |-> from, tail |-> <<>>,
                    next |-> log + 1, seq |-> Len(missing), offset |-> 0, final |-> FALSE,
                    ackPos |-> from, ackCursor |-> id, boundary |-> None])
         /\ cursors' = Inserted(moved, NewCursors(i, missing))
         /\ Send(c, <<[kind |-> "resumed", sub |-> i]>> \o Deliveries(i, 0, missing))
    BY <1>2, <1>3, <1>4, <1>5 DEF SubscribeAfter, Rehomed
<1>7. log' = log /\ log \in Nat /\ Len(subs) \in Nat
    BY <1>1, ReadingIs
<1>8. CASE Refuse(c, "snapshot_required")
  <2>1. subs' = subs /\ cursors' = cursors /\ \E m \in Errors : Replied(c, m, <<>>)
    BY <1>8, RefusedBy
  <2> QED
    BY <1>1, <2>1, NothingAside
<1>9. CASE cursors' = Released(moved, {i}, {}) /\ Send(c, <<Failure("snapshot_required")>>) /\ subs' = subs
  <2>1. PICK m : m = Failure("snapshot_required")
    OBVIOUS
  <2>2. m \in Errors
    BY <2>1 DEF Failure, Errors
  <2>3. Replied(c, m, <<>>)
    BY <1>9, <2>1, RepliedAlone
  <2>4. cursors' = Released(moved, {Len(subs) + 1}, {}) /\ moved = Rehomed(id, Len(subs) + 1)
    BY <1>2, <1>3, <1>9
  <2>5. Aside(c)
    BY <1>1, <1>2, <1>9, <2>4, AfterRefused
  <2> QED
    BY <1>9, <2>2, <2>3, <2>5
<1>10. ASSUME HasCursor(id),
           subs' = Append(subs,
                   [conn |-> c, state |-> "active", base |-> from, tail |-> <<>>,
                    next |-> log + 1, seq |-> Len(missing), offset |-> 0, final |-> FALSE,
                    ackPos |-> from, ackCursor |-> id, boundary |-> None]),
           cursors' = Inserted(moved, NewCursors(i, missing)),
           Send(c, <<[kind |-> "resumed", sub |-> i]>> \o Deliveries(i, 0, missing))
       PROVE  Aside(c) /\ \E b, n \in Nat : b = id[2] /\ b + n = log /\ ResumedAt(c, i, b, n)
  <2>1. from \in Nat /\ from <= log
    BY <1>4, <1>10, ResumedFrom
  <2>2. PICK n \in Nat : from + n = log
    <3>1. log - from \in Nat /\ from + (log - from) = log
      BY <1>7, <2>1
    <3> QED
      BY <3>1
  <2>3. missing = Span(from + 1, from + n) /\ Len(missing) = n
    <3>1. missing = Span(from + 1, from + n)
      BY <1>5, <2>2
    <3>2. Len(Span(from + 1, from + n)) = n
      BY <2>1, SpanAt
    <3> QED
      BY <3>1, <3>2
  <2>4. PICK x : x = [conn |-> c, state |-> "active", base |-> from, tail |-> <<>>,
                    next |-> log + 1, seq |-> Len(missing), offset |-> 0, final |-> FALSE,
                    ackPos |-> from, ackCursor |-> id, boundary |-> None]
    OBVIOUS
  <2>5. x.conn = c /\ x.state = "active" /\ x.base = from /\ x.seq = n /\ x.ackPos = from /\ x.boundary = None
    BY <2>3, <2>4
  <2>6. PICK new : new = RowOf(i, from, n)
    OBVIOUS
  <2>7. subs' = Append(subs, x) /\ cursors' = Inserted(moved, new)
    BY <1>10, <2>3, <2>4, <2>6 DEF RowOf
  <2>8. /\ Aside(c) /\ Len(subs') = i /\ subs'[i] = x /\ from = id[2]
        /\ \A j \in 1..Len(subs) : subs'[j] = subs[j]
        /\ \A ack : (ack = None \/ Issued(ack)) => Ordered(cursors', i, ack, from, log)
    <3>1. /\ Reads(c, "subscribe") /\ id = Head(up[c]).after /\ id # None /\ HasCursor(id)
          /\ i = Len(subs) + 1 /\ from = CursorOf(id).pos /\ n \in Nat /\ from + n = log
          /\ moved = Rehomed(id, i) /\ new = RowOf(i, from, n)
      BY <1>1, <1>2, <1>3, <1>4, <1>10, <2>2, <2>6
    <3>2. from = id[2] /\ Resumes(c, i, x, from)
      BY <2>5, <2>7, <3>1, AfterResumed
    <3> QED
      BY <3>2 DEF Resumes
  <2>9. Replied(c, [kind |-> "resumed", sub |-> i], Deliveries(i, 0, Span(from + 1, from + n)))
    BY <1>10, <2>3 DEF Replied
  <2>10. ResumedAt(c, i, from, n)
    BY <2>5, <2>8, <2>9 DEF ResumedAt
  <2> QED
    BY <2>1, <2>2, <2>8, <2>10
<1> QED
  <2>1. CASE /\ HasCursor(id)
         /\ subs' = Append(subs,
                   [conn |-> c, state |-> "active", base |-> from, tail |-> <<>>,
                    next |-> log + 1, seq |-> Len(missing), offset |-> 0, final |-> FALSE,
                    ackPos |-> from, ackCursor |-> id, boundary |-> None])
         /\ cursors' = Inserted(moved, NewCursors(i, missing))
         /\ Send(c, <<[kind |-> "resumed", sub |-> i]>> \o Deliveries(i, 0, missing))
    <3>1. Aside(c) /\ \E b, n \in Nat : b = id[2] /\ b + n = log /\ ResumedAt(c, i, b, n)
      BY <1>10, <2>1
    <3>2. id # None /\ HasCursor(id)
      BY <1>1, <1>2, <2>1
    <3> QED
      BY <1>2, <3>1, <3>2
  <2> QED
    BY <1>6, <1>8, <1>9, <2>1

\* The record of a cursor is marked as acknowledged.
Marks(id) == [k \in 1..Len(cursors) |-> IF cursors[k].id = id THEN [cursors[k] EXCEPT !.acknowledged = TRUE] ELSE cursors[k]]

\* A table with the cursors of another one.
Like(table, other) ==
    /\ other \in Seq(Named) /\ Distinct(other)
    /\ \A a \in 1..Len(other) : \E k \in 1..Len(table) : other[a].id = table[k].id

LEMMA MarksAre ==
    ASSUME Table, NEW id, NEW marked, marked = Marks(id)
    PROVE  /\ Like(cursors, marked) /\ Len(marked) = Len(cursors) /\ marked \in Seq(Named)
           /\ \A j, ack, lo, hi : Ordered(cursors, j, ack, lo, hi) => Ordered(marked, j, ack, lo, hi)
<1>1. cursors \in Seq(Named) /\ Len(cursors) \in Nat /\ Distinct(cursors)
    BY DEF Table
<1>2. Len(marked) = Len(cursors) /\ marked = [k \in 1..Len(cursors) |-> marked[k]]
    BY <1>1 DEF Marks
<1>3. \A k \in 1..Len(cursors) : marked[k] = IF cursors[k].id = id THEN [cursors[k] EXCEPT !.acknowledged = TRUE] ELSE cursors[k]
    BY DEF Marks
<1>4. ASSUME NEW k \in 1..Len(cursors)
      PROVE  /\ marked[k].id = cursors[k].id /\ marked[k].pos = cursors[k].pos /\ marked[k].sub = cursors[k].sub
             /\ marked[k] \in Named
  <2>1. PICK r \in Named : r = cursors[k]
    BY <1>1
  <2>2. r \in CursorRecords /\ r \in Held(log, Len(subs))
    BY DEF Named, Held
  <2>3. PICK u : u = [r EXCEPT !.acknowledged = TRUE]
    OBVIOUS
  <2>4. u \in CursorRecords /\ u.id = r.id /\ u.pos = r.pos /\ u.sub = r.sub
    BY <2>2, <2>3 DEF CursorRecords
  <2>5. u \in Named
    BY <2>2, <2>4 DEF Named, Held
  <2>6. marked[k] = IF r.id = id THEN u ELSE r
    BY <1>3, <2>1, <2>3
  <2> QED
    BY <2>1, <2>4, <2>5, <2>6
<1>5. marked \in Seq(Named)
  <2>1. PICK n \in Nat : n = Len(cursors)
    BY <1>1
  <2>2. marked = [k \in 1..n |-> marked[k]] /\ \A k \in 1..n : marked[k] \in Named
    BY <1>2, <1>4, <2>1
  <2> HIDE DEF Named
  <2> QED
    BY <2>2
<1>6. Distinct(marked)
    BY <1>1, <1>2, <1>4, DistinctSame
<1>7. ASSUME NEW j, NEW ack, NEW lo, NEW hi, Ordered(cursors, j, ack, lo, hi)
      PROVE  Ordered(marked, j, ack, lo, hi)
  <2>1. \A a \in 1..Len(cursors) :
               /\ marked[a].id = cursors[a].id /\ marked[a].pos = cursors[a].pos
               /\ cursors[a].id[1] = j /\ cursors[a].sub = j => marked[a].sub = j
    BY <1>4
  <2> QED
    BY <1>1, <1>2, <1>7, <2>1, OrderedSame
<1>8. \A a \in 1..Len(marked) : \E k \in 1..Len(cursors) : marked[a].id = cursors[k].id
    BY <1>2, <1>4
<1> QED
    BY <1>2, <1>5, <1>6, <1>7, <1>8 DEF Like

\* The earlier cursors of the subscription are dropped.
Later(marked, id, i, p) == {r \in ToSet(marked) : r.id = id \/ r.sub # i \/ r.pos > p}

LEMMA KeptAre ==
    ASSUME Table, NEW id, NEW i, NEW p \in Int, NEW marked, marked = Marks(id),
           NEW kept, kept = Only(marked, Later(marked, id, i, p))
    PROVE  /\ Like(cursors, kept)
           /\ \A j : j # i => \A lo, hi \in Int : \A ack : Ordered(cursors, j, ack, lo, hi) => Ordered(kept, j, ack, lo, hi)
           /\ \A lo, hi \in Int : lo <= p => \A ack : Ordered(cursors, i, ack, lo, hi) => Ordered(kept, i, ack, p, hi)
<1>0. PICK K : K = Later(marked, id, i, p)
    OBVIOUS
<1>1. /\ Like(cursors, marked) /\ marked \in Seq(Named)
      /\ \A j, ack, lo, hi : Ordered(cursors, j, ack, lo, hi) => Ordered(marked, j, ack, lo, hi)
    BY MarksAre
<1>2. \A a \in 1..Len(marked) : marked[a] \in ToSet(marked) /\ marked[a] \in Named
    BY <1>1 DEF ToSet
<1>3. /\ kept \in Seq(Named)
      /\ \A j \in 1..Len(kept) : \E a \in 1..Len(marked) : marked[a] = kept[j]
  <2>1. marked \in Seq(Named)
    BY <1>1
  <2>2. /\ Only(marked, K) \in Seq(Named)
        /\ \A j \in 1..Len(Only(marked, K)) : \E a \in 1..Len(marked) : marked[a] = Only(marked, K)[j]
    BY <2>1, OnlyOf
  <2> QED
    BY <1>0, <2>2
<1>4. Distinct(kept)
    BY <1>0, <1>1, DistinctOnly DEF Like
<1>5. Like(cursors, kept)
  <2>1. ASSUME NEW j \in 1..Len(kept)  PROVE \E k \in 1..Len(cursors) : kept[j].id = cursors[k].id
    <3>1. PICK a \in 1..Len(marked) : marked[a] = kept[j]
      BY <1>3
    <3>2. PICK k \in 1..Len(cursors) : marked[a].id = cursors[k].id
      BY <1>1 DEF Like
    <3> QED
      BY <3>1, <3>2
  <2> QED
    BY <1>3, <1>4, <2>1 DEF Like
<1>6. ASSUME NEW j, j # i, NEW lo \in Int, NEW hi \in Int, NEW ack, Ordered(cursors, j, ack, lo, hi)
      PROVE  Ordered(kept, j, ack, lo, hi)
  <2>1. \A a \in 1..Len(marked) : \A q \in (lo + 1)..hi :
             marked[a].id = <<j, q>> /\ marked[a].sub = j => marked[a] \in K
    BY <1>0, <1>2, <1>6 DEF Later
  <2>2. Ordered(marked, j, ack, lo, hi)
    BY <1>1, <1>6
  <2> QED
    BY <1>0, <1>1, <2>1, <2>2, OrderedOnly
<1>7. ASSUME NEW lo \in Int, NEW hi \in Int, lo <= p, NEW ack, Ordered(cursors, i, ack, lo, hi)
      PROVE  Ordered(kept, i, ack, p, hi)
  <2>1. ASSUME NEW a \in 1..Len(marked), NEW q \in (p + 1)..hi, marked[a].id = <<i, q>>
        PROVE  marked[a] \in K
    <3>1. marked[a].pos = marked[a].id[2] /\ marked[a].id[2] = q
      BY <1>2, <2>1 DEF Named
    <3>2. marked[a].pos > p
      BY <3>1
    <3> QED
      BY <1>0, <1>2, <3>2 DEF Later
  <2>2. Ordered(marked, i, ack, lo, hi)
    BY <1>1, <1>7
  <2>3. Ordered(marked, i, ack, p, hi)
    <3>1. \A q \in (p + 1)..hi : q \in (lo + 1)..hi
      BY <1>7
    <3> QED
      BY <2>2, <3>1 DEF Ordered
  <2>4. \A a \in 1..Len(marked) : \A q \in (p + 1)..hi :
             marked[a].id = <<i, q>> /\ marked[a].sub = i => marked[a] \in K
    BY <2>1
  <2> QED
    BY <1>0, <1>1, <2>3, <2>4, OrderedOnly
<1> QED
    BY <1>5, <1>6, <1>7

\* Subscription i changes to x.
Put(i, x) == Len(subs') = Len(subs) /\ subs'[i] = x /\ \A j \in 1..Len(subs) : j # i => subs'[j] = subs[j]

LEMMA PutIs ==
    ASSUME SubsInv, NEW i \in 1..Len(subs), NEW x, subs' = [subs EXCEPT ![i] = x]
    PROVE  Put(i, x)
<1>1. subs \in Seq(Fit(log)) /\ Len(subs) \in Nat
    BY DEF SubsInv
<1>2. Len(subs') = Len(subs)
    BY <1>1
<1>3. subs'[i] = x
    BY <1>1
<1>4. \A j \in 1..Len(subs) : j # i => subs'[j] = subs[j]
    BY <1>1
<1> QED
    BY <1>2, <1>3, <1>4 DEF Put

\* A subscription of the connection changes.
LEMMA PutSub ==
    ASSUME IInv, Stream, NEW c \in Conns, NEW method, Reads(c, method), this' = this,
           NEW i \in 1..Len(subs), subs[i].conn = c, NEW x, Put(i, x), x.conn = c, Enlisted(x, i),
           x.state # "loading"
    PROVE  Roster' /\ Aged /\ Requested' /\ Len(subs') = Len(subs)
<1>1. /\ up[c] # <<>> /\ sock[c] \in {"open", "closing"} /\ up' = [up EXCEPT ![c] = Tail(@)]
      /\ log' = log /\ sock' = sock /\ Sizes /\ SubsInv /\ Roster /\ Table /\ Requested
      /\ subs \in Seq(Fit(log)) /\ Len(subs) \in Nat /\ log \in Nat
    BY ReadingIs
<1>2. Len(subs') = Len(subs) /\ subs'[i] = x /\ \A j \in 1..Len(subs) : j # i => subs'[j] = subs[j]
    BY DEF Put
<1>3. Len(subs') \in Nat /\ Len(subs) <= Len(subs')
    BY <1>1, <1>2
<1>4. Roster' /\ Aged
  <2>1. \A j \in 1..Len(subs') :
               \/ j \in 1..Len(subs) /\ subs'[j] = subs[j]
               \/ /\ Enlisted(subs'[j], j) /\ subs'[j].conn \in {0, c}
                  /\ j \in 1..Len(subs) /\ subs'[j].state = "loading" =>
                        subs[j].state = "loading" /\ subs'[j].base = subs[j].base
    BY <1>2
  <2> QED
    BY <1>1, <1>3, <2>1, RosterStays
<1>5. Requested'
  <2>1. \A j \in 1..Len(subs) : subs'[j].conn \in {0, subs[j].conn}
    BY <1>2
  <2> QED
    BY <1>1, <1>3, <2>1, RequestedStays
<1> QED
    BY <1>2, <1>4, <1>5

\* A table like the one before.
LEMMA LikeStays ==
    ASSUME Aged, IInv, IInv', Table, NEW table, Like(cursors, table)
    PROVE  table \in Seq(Named') /\ (cursors' = table => Table' /\ Onward)
<1>1. \A r \in Named : r \in Named'
    BY RowStays DEF IInv, DaemonInv
<1>2. table \in Seq(Named) /\ Distinct(table) /\ \A a \in 1..Len(table) : \E k \in 1..Len(cursors) : table[a].id = cursors[k].id
    BY DEF Like
<1>3. table \in Seq(Named')
    BY <1>1, <1>2, Wider
<1>4. ASSUME cursors' = table  PROVE Table' /\ Onward
  <2>1. Table'
    BY <1>2, <1>3, <1>4 DEF Table
  <2>2. Onward
    BY <1>2, <1>4 DEF Onward, HasCursor
  <2> QED
    BY <2>1, <2>2
<1> QED
    BY <1>3, <1>4

\* The cursor that is acknowledged belongs to the subscription.
LEMMA OwnCursor ==
    ASSUME IInv, Stream, NEW id, HasCursor(id), NEW i \in 1..Len(subs), CursorOf(id).sub = i
    PROVE  /\ Issued(id) /\ CursorOf(id).pos = id[2] /\ id[2] \in Nat /\ id[2] <= log
           /\ subs[i].state = "loading" => id[2] = subs[i].base /\ id = subs[i].boundary
<1>1. /\ Issued(id) /\ CursorOf(id).pos = id[2] /\ id[2] \in Nat /\ id[2] <= log
      /\ CursorOf(id).id = id /\ CursorOf(id) \in Named
    BY ResumedFrom
<1>2. ASSUME subs[i].state = "loading"
      PROVE  id[2] = subs[i].base /\ id = subs[i].boundary
  <2>1. id[1] = i
    BY <1>1, <1>2 DEF Named
  <2>2. id[2] = subs[i].base /\ id # None
    BY <1>1, <1>2, <2>1 DEF Issued
  <2>3. id \in CursorIds
    BY <1>1 DEF Named, Held, CursorRecords
  <2>4. id = <<id[1], id[2]>>
    BY <2>2, <2>3 DEF CursorIds
  <2>5. subs[i].boundary = <<i, subs[i].base>>
    BY <1>2 DEF Stream, Roster, Enlisted
  <2> QED
    BY <2>1, <2>2, <2>4, <2>5
<1> QED
    BY <1>1, <1>2

\* An acknowledgement is refused, starts a subscription, or counts.
AckRefused(c, i, id) ==
    /\ subs' = subs /\ cursors' = cursors /\ \E m \in Errors : Replied(c, m, <<>>)
    /\ Attached(c, i) /\ subs[i].state = "active"
          => ~(HasCursor(id) /\ CursorOf(id).sub = i) \/ id = subs[i].boundary

StartedAt(c, i, b, n) ==
    /\ Attached(c, i) /\ subs[i].state = "loading" /\ subs[i].base = b /\ b + n = log
    /\ Len(subs') = Len(subs) /\ \A j \in 1..Len(subs) : j # i => subs'[j] = subs[j]
    /\ subs'[i].conn = c /\ subs'[i].state = "active" /\ subs'[i].base = b /\ subs'[i].seq = n
    /\ subs'[i].ackPos = b
    /\ Replied(c, Success, Deliveries(i, 0, Span(b + 1, b + n)))
    /\ \A ack : (ack = None \/ Issued(ack)) => Ordered(cursors', i, ack, b, log)

Counted(c, i, id) ==
    /\ Attached(c, i) /\ subs[i].state = "active"
    /\ Len(subs') = Len(subs) /\ \A j \in 1..Len(subs) : j # i => subs'[j] = subs[j]
    /\ subs'[i].conn = c /\ subs'[i].state = "active" /\ subs'[i].base = subs[i].base
    /\ subs'[i].seq = subs[i].seq
    /\ Replied(c, Success, <<>>)
    /\ subs[i].ackPos < id[2] =>
          /\ subs'[i].ackPos = id[2]
          /\ \A ack : (ack = None \/ Issued(ack)) /\ Ordered(cursors, i, ack, subs[i].ackPos, log)
                      => Ordered(cursors', i, ack, id[2], log)

\* A table of a step in which one subscription changes.
LEMMA PutAside ==
    ASSUME IInv, Stream, NEW c \in Conns, NEW method, Reads(c, method), this' = this,
           NEW i \in 1..Len(subs), subs[i].conn = c, NEW x, Put(i, x), x.conn = c, Enlisted(x, i),
           x.state # "loading", Table', Onward,
           \A j \in 1..Len(subs) : j # i =>
              \A ack : (ack = None \/ Issued(ack)) /\ Ordered(cursors, j, ack, subs[j].ackPos, log)
                       => Ordered(cursors', j, ack, subs[j].ackPos, log')
    PROVE  Aside(c)
<1>1. Roster' /\ Aged /\ Requested' /\ Len(subs') = Len(subs)
    BY PutSub
<1>2. ASSUME this.conn # c, NEW j \in 1..Len(subs), subs[j].conn = this.conn
      PROVE  Steady(j, <<>>)
  <2>1. j # i
    BY <1>2
  <2>2. subs'[j] = subs[j]
    BY <2>1 DEF Put
  <2>3. Sizes /\ SubsInv /\ Roster
    BY ReadingIs
  <2> QED
    BY <2>1, <2>2, <2>3, SteadyStill
<1> QED
    BY <1>1, <1>2 DEF Aside

\* The snapshot is acknowledged.
LEMMA AckStarted ==
    ASSUME IInv, IInv', Stream, NEW c \in Conns, Reads(c, "ack"), this' = this,
           NEW i \in 1..Len(subs), subs[i].conn = c, NEW b \in Nat, NEW n \in Nat, b + n = log,
           NEW id, NEW x, Put(i, x), x.conn = c, x.state = "active", x.base = b, x.seq = n,
           x.ackPos = b, Enlisted(x, i), subs[i].state = "loading", subs[i].base = b,
           NEW marked, marked = Marks(id),
           NEW kept, kept = Only(marked, Later(marked, id, i, b)), NEW new, new = RowOf(i, b, n),
           cursors' = Inserted(kept, new)
    PROVE  Aside(c) /\ \A ack : (ack = None \/ Issued(ack)) => Ordered(cursors', i, ack, b, log)
<1>1. log' = log /\ Sizes /\ SubsInv /\ Roster /\ Table /\ Len(subs) \in Nat /\ log \in Nat
    BY ReadingIs
<1>2. Sizes' /\ SubsInv'
    BY DEF IInv, DaemonInv
<1>3. Len(subs') = Len(subs) /\ subs'[i] = x /\ \A j \in 1..Len(subs) : j # i => subs'[j] = subs[j]
    BY DEF Put
<1>4. Aged
  <2>1. x.state # "loading"
    OBVIOUS
  <2> QED
    BY <2>1, PutSub
<1>5. new \in Seq(Named') /\ Distinct(new) /\ Numbered(new, i, b, n)
  <2>1. PICK h : h = log
    OBVIOUS
  <2>2. i \in 1..Len(subs') /\ subs'[i].state # "loading" /\ h = b + n /\ h <= log'
    BY <1>1, <1>3, <2>1
  <2> QED
    BY <1>2, <2>2, RowNamed
<1>6. /\ Like(cursors, kept)
      /\ \A j : j # i => \A lo, hi \in Int : \A ack : Ordered(cursors, j, ack, lo, hi) => Ordered(kept, j, ack, lo, hi)
    BY <1>1, KeptAre
<1>7. kept \in Seq(Named')
    BY <1>1, <1>4, <1>6, LikeStays
<1>8. \A k \in 1..Len(new) : new[k].id # None /\ new[k].id[1] = i /\ b < new[k].id[2]
    BY <1>5 DEF Numbered
<1>9. ASSUME NEW k \in 1..Len(new)  PROVE ~Issued(new[k].id)
  <2>1. PICK q : q = new[k].id
    OBVIOUS
  <2>2. q[1] = i /\ b < q[2]
    BY <1>8, <2>1
  <2>3. ~Issued(q)
    <3>1. ASSUME q[2] = b  PROVE FALSE
      BY <2>2, <3>1
    <3> QED
      BY <2>2, <3>1 DEF Issued
  <2> QED
    BY <2>1, <2>3
<1>10. Table' /\ Onward
  <2>1. Distinct(kept) /\ \A a \in 1..Len(kept) : \E k \in 1..Len(cursors) : kept[a].id = cursors[k].id
    BY <1>6 DEF Like
  <2> QED
    BY <1>1, <1>4, <1>5, <1>7, <1>9, <2>1, TableGrows
<1>11. ASSUME NEW j \in 1..Len(subs), j # i, NEW ack, ack = None \/ Issued(ack),
              Ordered(cursors, j, ack, subs[j].ackPos, log)
       PROVE  Ordered(cursors', j, ack, subs[j].ackPos, log')
  <2>1. subs[j].ackPos \in Int /\ log \in Int
    BY <1>1, SubIs
  <2>2. Ordered(kept, j, ack, subs[j].ackPos, log)
    BY <1>6, <1>11, <2>1
  <2>3. \A k \in 1..Len(new) : new[k].id # ack /\ new[k].id[1] # j
    BY <1>8, <1>9, <1>11
  <2>4. Ordered(Inserted(kept, new), j, ack, subs[j].ackPos, log)
    BY <1>5, <1>7, <2>1, <2>2, <2>3, OrderedGrows
  <2> QED
    BY <1>1, <2>4
<1>12. Aside(c)
  <2>1. x.state # "loading"
    OBVIOUS
  <2> QED
    BY <1>10, <1>11, <2>1, PutAside
<1>13. ASSUME NEW ack, ack = None \/ Issued(ack)
       PROVE  Ordered(cursors', i, ack, b, log)
  <2>1. \A k \in 1..Len(new) : new[k].id # ack
    BY <1>8, <1>9, <1>13
  <2> QED
    BY <1>5, <1>7, <2>1, OrderedNew
<1> QED
    BY <1>12, <1>13

\* An event is acknowledged.
LEMMA AckCounted ==
    ASSUME IInv, IInv', Stream, NEW c \in Conns, Reads(c, "ack"), this' = this,
           NEW i \in 1..Len(subs), subs[i].conn = c, NEW p \in Int,
           NEW id, NEW x, Put(i, x), x.conn = c, x.state = "active", Enlisted(x, i),
           NEW marked, marked = Marks(id), NEW older \in BOOLEAN, older <=> p < subs[i].ackPos,
           cursors' = IF older THEN marked ELSE Only(marked, Later(marked, id, i, p))
    PROVE  /\ Aside(c)
           /\ subs[i].ackPos < p => \A ack : Ordered(cursors, i, ack, subs[i].ackPos, log) => Ordered(cursors', i, ack, p, log)
<1>1. log' = log /\ Sizes /\ SubsInv /\ Roster /\ Table /\ Len(subs) \in Nat /\ log \in Nat
    BY ReadingIs
<1>2. PICK kept : kept = Only(marked, Later(marked, id, i, p))
    OBVIOUS
<1>3. /\ Like(cursors, marked)
      /\ \A j, ack, lo, hi : Ordered(cursors, j, ack, lo, hi) => Ordered(marked, j, ack, lo, hi)
    BY <1>1, MarksAre
<1>4. /\ Like(cursors, kept)
      /\ \A j : j # i => \A lo, hi \in Int : \A ack : Ordered(cursors, j, ack, lo, hi) => Ordered(kept, j, ack, lo, hi)
      /\ \A lo, hi \in Int : lo <= p => \A ack : Ordered(cursors, i, ack, lo, hi) => Ordered(kept, i, ack, p, hi)
    BY <1>1, <1>2, KeptAre
<1>5. cursors' = IF older THEN marked ELSE kept
    BY <1>2
<1>6. Aged
  <2>1. x.state # "loading"
    OBVIOUS
  <2> QED
    BY <2>1, PutSub
<1>7. Table' /\ Onward
  <2>1. CASE cursors' = marked
    BY <1>1, <1>3, <1>6, <2>1, LikeStays
  <2>2. CASE cursors' = kept
    BY <1>1, <1>4, <1>6, <2>2, LikeStays
  <2> QED
    BY <1>5, <2>1, <2>2
<1>8. ASSUME NEW j \in 1..Len(subs), j # i, NEW ack, Ordered(cursors, j, ack, subs[j].ackPos, log)
       PROVE  Ordered(cursors', j, ack, subs[j].ackPos, log')
  <2>1. subs[j].ackPos \in Int /\ log \in Int
    BY <1>1, SubIs
  <2>2. Ordered(kept, j, ack, subs[j].ackPos, log)
    BY <1>4, <1>8, <2>1
  <2>3. Ordered(marked, j, ack, subs[j].ackPos, log)
    BY <1>3, <1>8
  <2> QED
    BY <1>1, <1>5, <2>2, <2>3
<1>9. Aside(c)
  <2>1. x.state # "loading"
    OBVIOUS
  <2> QED
    BY <1>7, <1>8, <2>1, PutAside
<1>10. ASSUME subs[i].ackPos < p, NEW ack, Ordered(cursors, i, ack, subs[i].ackPos, log)
       PROVE  Ordered(cursors', i, ack, p, log)
  <2>1. subs[i].ackPos \in Int /\ log \in Int
    BY <1>1, SubIs
  <2>2. ~older /\ subs[i].ackPos <= p
    BY <1>10, <2>1
  <2>3. cursors' = kept
    BY <1>5, <2>2
  <2> QED
    BY <1>4, <1>10, <2>1, <2>2, <2>3
<1> QED
    BY <1>9, <1>10

\* The reason to refuse an acknowledgement.
LEMMA AckReasons ==
    ASSUME IInv, Stream, NEW c \in Conns, Acknowledge(c)
    PROVE  LET i == Head(up[c]).sub
               id == Head(up[c]).cursor
               p == CursorOf(id).pos
               older == p < subs[i].ackPos
               marked == Marks(id)
               kept == IF older THEN marked ELSE Only(marked, Later(marked, id, i, p))
               s == [subs[i] EXCEPT !.ackPos = IF older THEN @ ELSE p,
                                    !.ackCursor = IF older THEN @ ELSE id]
               own == HasCursor(id) /\ CursorOf(id).sub = i
           IN /\ Reads(c, "ack")
              /\ \/ /\ \E code \in {"snapshot_required", "unknown_subscription", "unknown_cursor"} : Refuse(c, code)
                    /\ Attached(c, i) /\ subs[i].state = "active" => ~own \/ id = subs[i].boundary
                 \/ /\ Attached(c, i) /\ Listening(i) /\ own
                    /\ id = subs[i].boundary /\ subs[i].state = "loading"
                    /\ subs' = [subs EXCEPT ![i] = [s EXCEPT !.state = "active", !.tail = <<>>, !.seq = Len(s.tail)]]
                    /\ cursors' = Inserted(kept, NewCursors(i, s.tail))
                    /\ Send(c, <<Success>> \o Deliveries(i, 0, s.tail))
                 \/ /\ Attached(c, i) /\ Listening(i) /\ own
                    /\ ~(id = subs[i].boundary /\ subs[i].state = "loading")
                    /\ subs' = [subs EXCEPT ![i] = s]
                    /\ cursors' = kept /\ Send(c, <<Success>>)
<1> DEFINE i == Head(up[c]).sub
           id == Head(up[c]).cursor
           own == HasCursor(id) /\ CursorOf(id).sub = i
           refusal == CASE ~Attached(c, i) -> "unknown_subscription"
                        [] Attached(c, i) /\ subs[i].state = "invalid" -> "snapshot_required"
                        [] Attached(c, i) /\ Listening(i) /\ ~own -> "unknown_cursor"
                        [] OTHER -> IF id = subs[i].boundary /\ ~subs[i].final
                                    THEN "snapshot_required" ELSE "none"
           p == CursorOf(id).pos
           older == p < subs[i].ackPos
           marked == Marks(id)
           kept == IF older THEN marked ELSE Only(marked, Later(marked, id, i, p))
           s == [subs[i] EXCEPT !.ackPos = IF older THEN @ ELSE p,
                                !.ackCursor = IF older THEN @ ELSE id]
<1>1. Reads(c, "ack")
    BY DEF Acknowledge
<1>2. \/ refusal # "none" /\ Refuse(c, refusal)
      \/ /\ refusal = "none" /\ id = subs[i].boundary /\ subs[i].state = "loading"
         /\ subs' = [subs EXCEPT ![i] = [s EXCEPT !.state = "active", !.tail = <<>>, !.seq = Len(s.tail)]]
         /\ cursors' = Inserted(kept, NewCursors(i, s.tail))
         /\ Send(c, <<Success>> \o Deliveries(i, 0, s.tail))
      \/ /\ refusal = "none" /\ ~(id = subs[i].boundary /\ subs[i].state = "loading")
         /\ subs' = [subs EXCEPT ![i] = s]
         /\ cursors' = kept /\ Send(c, <<Success>>)
    BY DEF Acknowledge, Marks, Later
<1>3. refusal # "none" => /\ refusal \in {"snapshot_required", "unknown_subscription", "unknown_cursor"}
                          /\ Attached(c, i) /\ subs[i].state = "active" => ~own \/ id = subs[i].boundary
    BY DEF Listening
<1>4. refusal = "none" => Attached(c, i) /\ Listening(i) /\ own
  <2>1. ~Attached(c, i) => refusal = "unknown_subscription"
    OBVIOUS
  <2>2. Attached(c, i) /\ subs[i].state = "invalid" => refusal = "snapshot_required"
    BY DEF Listening
  <2>3. Attached(c, i) /\ Listening(i) /\ ~own => refusal = "unknown_cursor"
    BY DEF Listening
  <2>4. Attached(c, i) => subs[i].state \in {"loading", "active", "invalid"}
    <3>1. subs \in Seq(Fit(log)) /\ c # 0
      BY <1>1, ReadingIs
    <3>2. ASSUME NEW j, Attached(c, j)  PROVE subs[j].state \in {"loading", "active", "invalid"}
      <4>1. PICK r \in Fit(log) : r = subs[j] /\ r.conn = c
        BY <3>1, <3>2 DEF Attached
      <4>2. r \in SubRecords /\ Owes(r, log)
        BY DEF Fit
      <4> QED
        BY <3>1, <4>1, <4>2 DEF Owes, SubRecords, States
    <3> QED
      BY <3>2
  <2> HIDE DEF refusal
  <2> QED
    BY <2>1, <2>2, <2>3, <2>4 DEF Listening
<1> HIDE DEF refusal
<1>5. CASE refusal # "none"
    BY <1>1, <1>2, <1>3, <1>5
<1>6. CASE refusal = "none"
    BY <1>1, <1>2, <1>4, <1>6
<1> QED
    BY <1>5, <1>6

\* The record of a subscription that goes on, or starts.
Went(r, a, d) == [r EXCEPT !.ackPos = a, !.ackCursor = d]
Began(r, n) == [r EXCEPT !.state = "active", !.tail = <<>>, !.seq = n]

LEMMA StartRecord ==
    ASSUME NEW r \in SubRecords, NEW a, NEW d, NEW n,
           NEW x, x = Began(Went(r, a, d), n)
    PROVE  x.conn = r.conn /\ x.state = "active" /\ x.base = r.base /\ x.seq = n /\ x.ackPos = a /\ x.boundary = r.boundary
BY DEF SubRecords, Began, Went

LEMMA CountRecord ==
    ASSUME NEW r \in SubRecords, NEW a, NEW d, NEW x, x = Went(r, a, d)
    PROVE  /\ x.conn = r.conn /\ x.state = r.state /\ x.base = r.base /\ x.seq = r.seq /\ x.ackPos = a
           /\ x.boundary = r.boundary /\ x.tail = r.tail
BY DEF SubRecords, Went

\* The snapshot is acknowledged.
LEMMA AckStarts ==
    ASSUME IInv, IInv', Stream, NEW c \in Conns, Reads(c, "ack"), this' = this,
           NEW i, NEW id, Attached(c, i), HasCursor(id), CursorOf(id).sub = i, subs[i].state = "loading",
           NEW p, p = CursorOf(id).pos, NEW s, s = [subs[i] EXCEPT !.ackPos = p, !.ackCursor = id],
           NEW marked, marked = Marks(id), NEW kept, kept = Only(marked, Later(marked, id, i, p)),
           subs' = [subs EXCEPT ![i] = [s EXCEPT !.state = "active", !.tail = <<>>, !.seq = Len(s.tail)]],
           cursors' = Inserted(kept, NewCursors(i, s.tail)),
           Send(c, <<Success>> \o Deliveries(i, 0, s.tail))
    PROVE  Aside(c) /\ \E b, n \in Nat : StartedAt(c, i, b, n)
<1>1. log' = log /\ Sizes /\ SubsInv /\ Roster /\ Table /\ Len(subs) \in Nat /\ log \in Nat
    BY ReadingIs
<1>2. i \in 1..Len(subs) /\ subs[i].conn = c
    BY DEF Attached
<1>3. subs[i] \in Fit(log) /\ Enlisted(subs[i], i) /\ subs[i].base \in Nat /\ subs[i].base <= log
    BY <1>1, <1>2, SubIs
<1>4. PICK b \in Nat : b = subs[i].base
    BY <1>3
<1>5. p = b
    BY <1>2, <1>4, OwnCursor
<1>6. PICK n \in Nat : b + n = log
  <2>1. log - b \in Nat /\ b + (log - b) = log
    BY <1>1, <1>3, <1>4
  <2> QED
    BY <2>1
<1>7. subs[i] \in SubRecords /\ subs[i].tail = Span(b + 1, log)
    BY <1>3, <1>4 DEF Fit, Owes
<1>8. s.tail = Span(b + 1, b + n) /\ Len(s.tail) = n
  <2>1. s.tail = subs[i].tail
    <3>1. s = Went(subs[i], p, id)
      BY DEF Went
    <3> QED
      BY <1>7, <3>1, CountRecord
  <2>2. Len(Span(b + 1, b + n)) = n
    BY SpanAt
  <2> QED
    BY <1>6, <1>7, <2>1, <2>2
<1>9. PICK x : x = [s EXCEPT !.state = "active", !.tail = <<>>, !.seq = Len(s.tail)]
    OBVIOUS
<1>10. x.conn = c /\ x.state = "active" /\ x.base = b /\ x.seq = n /\ x.ackPos = b /\ x.boundary = subs[i].boundary
  <2>1. PICK r \in SubRecords : r = subs[i]
    BY <1>7
  <2>2. x = Began(Went(r, p, id), n)
    BY <1>8, <1>9, <2>1 DEF Began, Went
  <2>3. x.conn = r.conn /\ x.state = "active" /\ x.base = r.base /\ x.seq = n /\ x.ackPos = p /\ x.boundary = r.boundary
    BY <2>2, StartRecord
  <2> QED
    BY <1>2, <1>4, <1>5, <2>1, <2>3
<1>11. Enlisted(x, i)
  <2>1. subs[i].boundary = <<i, b>>
    BY <1>3, <1>4 DEF Enlisted
  <2> QED
    BY <1>10, <2>1 DEF Enlisted
<1>12. Put(i, x)
  <2>1. subs' = [subs EXCEPT ![i] = x]
    BY <1>9
  <2> QED
    BY <1>1, <1>2, <2>1, PutIs
<1>13. PICK new : new = RowOf(i, b, n)
    OBVIOUS
<1>14. cursors' = Inserted(kept, new) /\ kept = Only(marked, Later(marked, id, i, b))
    BY <1>5, <1>8, <1>13 DEF RowOf
<1>15. Aside(c) /\ \A ack : (ack = None \/ Issued(ack)) => Ordered(cursors', i, ack, b, log)
    BY <1>2, <1>4, <1>6, <1>10, <1>11, <1>12, <1>13, <1>14, AckStarted
<1>16. Replied(c, Success, Deliveries(i, 0, Span(b + 1, b + n)))
    BY <1>8 DEF Replied
<1>17. Len(subs') = Len(subs) /\ subs'[i] = x /\ \A j \in 1..Len(subs) : j # i => subs'[j] = subs[j]
    BY <1>12 DEF Put
<1>18. StartedAt(c, i, b, n)
    BY <1>4, <1>6, <1>10, <1>15, <1>16, <1>17 DEF StartedAt
<1> QED
    BY <1>15, <1>18

\* An event is acknowledged.
LEMMA AckCounts ==
    ASSUME IInv, IInv', Stream, NEW c \in Conns, Reads(c, "ack"), this' = this,
           NEW i, NEW id, Attached(c, i), HasCursor(id), CursorOf(id).sub = i, subs[i].state = "active",
           NEW p, p = CursorOf(id).pos, NEW older \in BOOLEAN, older <=> p < subs[i].ackPos,
           NEW a, a = (IF older THEN subs[i].ackPos ELSE p), NEW d, NEW s, s = Went(subs[i], a, d),
           NEW marked, marked = Marks(id),
           cursors' = IF older THEN marked ELSE Only(marked, Later(marked, id, i, p)),
           subs' = [subs EXCEPT ![i] = s], Send(c, <<Success>>)
    PROVE  Aside(c) /\ Counted(c, i, id)
<1>1. log' = log /\ Sizes /\ SubsInv /\ Roster /\ Table /\ Len(subs) \in Nat /\ log \in Nat
    BY ReadingIs
<1>2. i \in 1..Len(subs) /\ subs[i].conn = c
    BY DEF Attached
<1>3. subs[i] \in Fit(log) /\ Enlisted(subs[i], i) /\ subs[i].ackPos \in Int /\ subs[i].base \in Nat
    BY <1>1, <1>2, SubIs
<1>4. p = id[2] /\ p \in Int
    BY <1>2, OwnCursor
<1>5. subs[i] \in SubRecords
    BY <1>3 DEF Fit
<1>6. /\ s.conn = c /\ s.state = "active" /\ s.base = subs[i].base /\ s.seq = subs[i].seq
      /\ s.ackPos = IF older THEN subs[i].ackPos ELSE p
      /\ s.boundary = subs[i].boundary
  <2>1. PICK r \in SubRecords : r = subs[i]
    BY <1>5
  <2>2. a = IF older THEN r.ackPos ELSE p
    BY <2>1
  <2>3. s = Went(r, a, d)
    BY <2>1
  <2>4. s.conn = r.conn /\ s.state = r.state /\ s.base = r.base /\ s.seq = r.seq /\ s.ackPos = a /\ s.boundary = r.boundary
    BY <2>3, CountRecord
  <2> QED
    BY <1>2, <2>1, <2>2, <2>4
<1>7. Enlisted(s, i)
  <2>1. subs[i].ackPos <= s.ackPos /\ s.ackPos \in Int
    BY <1>3, <1>4, <1>6
  <2>2. subs[i].ackPos >= subs[i].base /\ (subs[i].boundary = None \/ subs[i].boundary[2] <= subs[i].ackPos)
    BY <1>3 DEF Enlisted
  <2>3. s.boundary # None => s.boundary[2] \in Int
    BY <1>5, <1>6 DEF SubRecords, CursorIds, None
  <2> QED
    BY <1>3, <1>6, <2>1, <2>2, <2>3 DEF Enlisted
<1>8. Put(i, s)
    BY <1>1, <1>2, PutIs
<1>9. /\ Aside(c)
      /\ subs[i].ackPos < p => \A ack : Ordered(cursors, i, ack, subs[i].ackPos, log) => Ordered(cursors', i, ack, p, log)
    BY <1>2, <1>4, <1>6, <1>7, <1>8, AckCounted
<1>10. Replied(c, Success, <<>>)
    BY RepliedAlone
<1>11. Len(subs') = Len(subs) /\ subs'[i] = s /\ \A j \in 1..Len(subs) : j # i => subs'[j] = subs[j]
    BY <1>8 DEF Put
<1>12. subs[i].ackPos < p => s.ackPos = p
    BY <1>3, <1>4, <1>6
<1> QED
    BY <1>4, <1>6, <1>9, <1>10, <1>11, <1>12 DEF Counted

LEMMA AcknowledgeServed ==
    ASSUME IInv, IInv', Stream, NEW c \in Conns, Acknowledge(c), this' = this
    PROVE  LET i == Head(up[c]).sub
               id == Head(up[c]).cursor
           IN /\ Aside(c)
              /\ AckRefused(c, i, id) \/ (\E b, n \in Nat : StartedAt(c, i, b, n)) \/ Counted(c, i, id)
<1>1. PICK i, id : i = Head(up[c]).sub /\ id = Head(up[c]).cursor
    OBVIOUS
<1>11. PICK p : p = CursorOf(id).pos
    OBVIOUS
<1>12. PICK older \in BOOLEAN : older <=> CursorOf(id).pos < subs[i].ackPos
  <2>1. \E older \in BOOLEAN : older <=> CursorOf(id).pos < subs[i].ackPos
    <3>1. CASE CursorOf(id).pos < subs[i].ackPos
      <4>1. TRUE \in BOOLEAN /\ (TRUE <=> CursorOf(id).pos < subs[i].ackPos)
        BY <3>1
      <4> QED
        BY <4>1
    <3>2. CASE ~(CursorOf(id).pos < subs[i].ackPos)
      <4>1. FALSE \in BOOLEAN /\ (FALSE <=> CursorOf(id).pos < subs[i].ackPos)
        BY <3>2
      <4> QED
        BY <4>1
    <3> QED
      BY <3>1, <3>2
  <2> QED
    BY <2>1
<1>2. p = CursorOf(id).pos /\ (older <=> p < subs[i].ackPos)
    BY <1>11, <1>12
<1>3. PICK marked : marked = Marks(id)
    OBVIOUS
<1>4. PICK s : s = [subs[i] EXCEPT !.ackPos = IF older THEN @ ELSE p, !.ackCursor = IF older THEN @ ELSE id]
    OBVIOUS
<1>5. PICK kept : kept = IF older THEN marked ELSE Only(marked, Later(marked, id, i, p))
    OBVIOUS
<1>6. /\ Reads(c, "ack")
      /\ \/ /\ \E code \in {"snapshot_required", "unknown_subscription", "unknown_cursor"} : Refuse(c, code)
            /\ Attached(c, i) /\ subs[i].state = "active" => ~(HasCursor(id) /\ CursorOf(id).sub = i) \/ id = subs[i].boundary
         \/ /\ Attached(c, i) /\ Listening(i) /\ HasCursor(id) /\ CursorOf(id).sub = i
            /\ id = subs[i].boundary /\ subs[i].state = "loading"
            /\ subs' = [subs EXCEPT ![i] = [s EXCEPT !.state = "active", !.tail = <<>>, !.seq = Len(s.tail)]]
            /\ cursors' = Inserted(kept, NewCursors(i, s.tail))
            /\ Send(c, <<Success>> \o Deliveries(i, 0, s.tail))
         \/ /\ Attached(c, i) /\ Listening(i) /\ HasCursor(id) /\ CursorOf(id).sub = i
            /\ ~(id = subs[i].boundary /\ subs[i].state = "loading")
            /\ subs' = [subs EXCEPT ![i] = s]
            /\ cursors' = kept /\ Send(c, <<Success>>)
    BY <1>1, <1>2, <1>3, <1>4, <1>5, AckReasons
<1>7. CASE /\ \E code \in {"snapshot_required", "unknown_subscription", "unknown_cursor"} : Refuse(c, code)
           /\ Attached(c, i) /\ subs[i].state = "active" => ~(HasCursor(id) /\ CursorOf(id).sub = i) \/ id = subs[i].boundary
  <2>1. subs' = subs /\ cursors' = cursors /\ \E m \in Errors : Replied(c, m, <<>>)
    BY <1>7, RefusedBy
  <2>2. Aside(c)
    BY <1>6, <2>1, NothingAside
  <2>3. AckRefused(c, i, id)
    BY <1>7, <2>1 DEF AckRefused
  <2> QED
    BY <1>1, <2>2, <2>3
<1>8. ASSUME Attached(c, i), Listening(i), HasCursor(id), CursorOf(id).sub = i, subs[i].state = "loading"
      PROVE  ~older /\ id = subs[i].boundary
  <2>1. i \in 1..Len(subs) /\ Sizes /\ SubsInv /\ Roster
    BY <1>6, <1>8, ReadingIs DEF Attached
  <2>2. CursorOf(id).pos \in Nat /\ id = subs[i].boundary
    BY <1>8, <2>1, OwnCursor
  <2>3. subs[i].ackPos = -1
    BY <1>8, <2>1 DEF Roster, Enlisted
  <2> QED
    BY <1>2, <2>2, <2>3
<1>9. CASE /\ Attached(c, i) /\ Listening(i) /\ HasCursor(id) /\ CursorOf(id).sub = i
            /\ id = subs[i].boundary /\ subs[i].state = "loading"
            /\ subs' = [subs EXCEPT ![i] = [s EXCEPT !.state = "active", !.tail = <<>>, !.seq = Len(s.tail)]]
            /\ cursors' = Inserted(kept, NewCursors(i, s.tail))
            /\ Send(c, <<Success>> \o Deliveries(i, 0, s.tail))
  <2>1. ~older
    BY <1>8, <1>9
  <2>2. s = [subs[i] EXCEPT !.ackPos = p, !.ackCursor = id] /\ kept = Only(marked, Later(marked, id, i, p))
    BY <1>4, <1>5, <2>1
  <2>3. Aside(c) /\ \E b, n \in Nat : StartedAt(c, i, b, n)
    BY <1>2, <1>3, <1>6, <1>9, <2>2, AckStarts
  <2> QED
    BY <1>1, <2>3
<1>10. CASE /\ Attached(c, i) /\ Listening(i) /\ HasCursor(id) /\ CursorOf(id).sub = i
            /\ ~(id = subs[i].boundary /\ subs[i].state = "loading")
            /\ subs' = [subs EXCEPT ![i] = s]
            /\ cursors' = kept /\ Send(c, <<Success>>)
  <2>1. subs[i].state = "active"
    BY <1>8, <1>10 DEF Listening
  <2>2. older \in BOOLEAN /\ (older <=> p < subs[i].ackPos)
    BY <1>2
  <2>3. cursors' = IF older THEN marked ELSE Only(marked, Later(marked, id, i, p))
    BY <1>5, <1>10
  <2>4. PICK a, d : a = (IF older THEN subs[i].ackPos ELSE p) /\ d = (IF older THEN subs[i].ackCursor ELSE id)
    OBVIOUS
  <2>5. s = Went(subs[i], a, d)
    <3>1. CASE older
      BY <1>4, <2>4, <3>1 DEF Went
    <3>2. CASE ~older
      BY <1>4, <2>4, <3>2 DEF Went
    <3> QED
      BY <3>1, <3>2
  <2>6. /\ Attached(c, i) /\ HasCursor(id) /\ CursorOf(id).sub = i /\ p = CursorOf(id).pos
        /\ older \in BOOLEAN /\ (older <=> p < subs[i].ackPos) /\ marked = Marks(id)
        /\ subs' = [subs EXCEPT ![i] = s] /\ Send(c, <<Success>>) /\ Reads(c, "ack")
    BY <1>2, <1>3, <1>6, <1>10
  <2>7. Aside(c) /\ Counted(c, i, id)
    BY <2>1, <2>3, <2>4, <2>5, <2>6, AckCounts
  <2> QED
    BY <1>1, <2>7
<1> QED
    BY <1>6, <1>7, <1>9, <1>10

\* A request of another connection.
LEMMA ServeOther ==
    ASSUME IInv, IInv', Stream, NEW c \in Conns, Serve(c), this' = this, this.conn # c
    PROVE  Stream'
<1>1. Aside(c)
  <2>1. CASE SubscribeSnapshot(c)
    BY <2>1, SnapshotAside
  <2>2. CASE SubscribeAfter(c)
    BY <2>2, AfterServed
  <2>3. CASE History(c)
    BY <2>3, HistoryAside
  <2>4. CASE Acknowledge(c)
    BY <2>4, AcknowledgeServed
  <2>5. CASE Unsubscribe(c)
    BY <2>5, UnsubscribeAside
  <2> QED
    BY <2>1, <2>2, <2>3, <2>4, <2>5 DEF Serve
<1>2. Roster' /\ Table' /\ Requested' /\ Onward
    BY <1>1 DEF Aside
<1>3. Served(c)
    BY ServeKeeps DEF IInv
<1>4. ASSUME this.conn # 0
      PROVE  /\ down'[this.conn] = down[this.conn] \o <<>> /\ up'[this.conn] = up[this.conn]
             /\ \A i \in 1..Len(subs) : subs[i].conn = this.conn => Steady(i, <<>>)
  <2>1. this.conn \in Conns /\ up \in [Conns -> Seq(Requests)] /\ down \in [Conns -> Seq(Messages)]
    BY <1>4, InvFacts DEF IInv, DaemonInv, Channels
  <2>2. PICK d \in Conns : d = this.conn
    BY <2>1
  <2>3. up'[d] = up[d]
    BY <1>3, <2>1, <2>2 DEF Served
  <2>4. PICK x : Send(c, x)
    BY <1>3 DEF Served
  <2>5. down'[d] = down[d]
    BY <2>1, <2>2, <2>4 DEF Send
  <2>6. down[d] \o <<>> = down[d]
    BY <2>1
  <2>7. \A i \in 1..Len(subs) : subs[i].conn = this.conn => Steady(i, <<>>)
    BY <1>1, <1>4 DEF Aside
  <2> QED
    BY <2>2, <2>3, <2>5, <2>6, <2>7
<1>5. Undisturbed(<<>>)
  <2>1. <<>> \in Seq(Events) /\ Recent(<<>>)'
    BY DEF Recent
  <2> QED
    BY <1>2, <1>4, <2>1 DEF Undisturbed
<1> QED
    BY <1>2, <1>5, QuietKeeps
=============================================================================
