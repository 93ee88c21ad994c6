------------------------- MODULE SessionViewProofs --------------------------
(***************************************************************************)
(* What a session view and its daemon promise, for every value of the bounds. *)
(*                                                                         *)
(* The lemmas about Stream (see SessionViewInvariant) go on with the requests *)
(* of the client in use and then with the steps of the client, one after the *)
(* other.  A lemma named ...Stream says of one action that it keeps Stream; one *)
(* of the client also says that the step leaves the log alone and lets the view *)
(* grow or empties it (Grew).  From these follow the refinement of EventFeed *)
(* (FeedHolds), that a resumed cursor skips no event (ResumeHolds) and that a *)
(* view at rest shows the whole log (QuietHolds).                          *)
(***************************************************************************)
EXTENDS SessionViewInvariant

-----------------------------------------------------------------------------
(* A request of the client.                                                *)

\* What is answered, and the subscription that is created.
LEMMA UnsubscribeReplied ==
    ASSUME NEW c, Unsubscribe(c)
    PROVE  \E m \in {Success} \cup Errors : Replied(c, m, <<>>)
<1>1. CASE Send(c, <<Success>>)
    BY <1>1, RepliedAlone
<1>2. CASE Refuse(c, "unknown_subscription")
    BY <1>2, RefusedBy
<1> QED
    BY <1>1, <1>2 DEF Unsubscribe

LEMMA HistoryReplied ==
    ASSUME NEW c, History(c)
    PROVE  \/ \E m \in Errors : Replied(c, m, <<>>)
           \/ /\ Attached(c, Head(up[c]).sub)
              /\ Replied(c, Page(Head(up[c]).sub, Head(up[c]).offset, subs[Head(up[c]).sub].base), <<>>)
<1>1. CASE Refuse(c, "snapshot_required")
    BY <1>1, RefusedBy
<1>2. CASE /\ Attached(c, Head(up[c]).sub)
           /\ Send(c, <<Page(Head(up[c]).sub, Head(up[c]).offset, subs[Head(up[c]).sub].base)>>)
    BY <1>2, RepliedAlone
<1> QED
    BY <1>1, <1>2 DEF History

\* Subscription i freezes its snapshot.
FrozenAt(c, i) ==
    /\ Len(subs') = i /\ subs'[i].conn = c /\ subs'[i].state = "loading" /\ subs'[i].base = log
    /\ subs'[i].seq = 0 /\ Replied(c, Page(i, 0, log), <<>>)

LEMMA SnapshotReplied ==
    ASSUME IInv, IInv', Stream, NEW c \in Conns, SubscribeSnapshot(c), this' = this
    PROVE  Head(up[c]).after = None /\ FrozenAt(c, Len(subs) + 1)
<1>1. SubsInv
    BY DEF IInv, DaemonInv
<1>2. PICK i, page : i = Len(subs) + 1 /\ page = Page(i, 0, log)
    OBVIOUS
<1>3. PICK x : x = [conn |-> c, state |-> "loading", base |-> log, tail |-> <<>>, next |-> log + 1,
                 seq |-> 0, offset |-> page.hi, final |-> page.complete,
                 ackPos |-> -1, ackCursor |-> None, boundary |-> <<i, log>>]
    OBVIOUS
<1>4. subs' = Append(subs, x) /\ Send(c, <<page>>) /\ Head(up[c]).after = None
    BY <1>2, <1>3 DEF SubscribeSnapshot
<1>5. x.conn = c /\ x.state = "loading" /\ x.base = log /\ x.seq = 0
    BY <1>3
<1>6. Len(subs') = i /\ subs'[i] = x
    BY <1>1, <1>2, <1>4 DEF SubsInv
<1>7. Replied(c, page, <<>>)
    BY <1>4, RepliedAlone
<1> QED
    BY <1>2, <1>4, <1>5, <1>6, <1>7 DEF FrozenAt

\* The queues of the client before and after.
LEMMA OwnQueues ==
    ASSUME IInv, Stream, NEW c \in Conns, c = this.conn, NEW method, Reads(c, method), this' = this,
           NEW m, NEW ev, Replied(c, m, ev), NEW t, t = this, NEW dq, dq = down[c], NEW uq, uq = up[c],
           NEW d, d = Longer(dq, m, ev)
    PROVE  /\ dq \in Seq(Messages) /\ uq \in Seq(Requests) /\ uq # <<>> /\ Head(uq) \in Requests
           /\ Head(uq).method = method
           /\ Good(t, dq, uq) /\ Sound(t) /\ t.conn = c /\ c # 0 /\ Len(t.waiting) = Len(Talk(dq, uq))
           /\ Good(t, d, Tail(uq))' => Good(this, Coming(this.conn), Going(this.conn))'
<1>1. /\ up[c] # <<>> /\ up' = [up EXCEPT ![c] = Tail(@)] /\ Head(up[c]) \in Requests
      /\ Head(up[c]).method = method /\ c # 0
    BY ReadingIs
<1>2. dq \in Seq(Messages) /\ uq \in Seq(Requests) /\ Sound(t)
    BY InvFacts
<1>3. Good(t, dq, uq)
    BY <1>1 DEF Stream, Coming, Going
<1>4. sock[c] = "open" /\ Len(t.waiting) = Len(Only(dq, Replies)) + Len(uq)
    BY <1>1 DEF IInv, Balanced
<1>5. Len(t.waiting) = Len(Talk(dq, uq))
    BY <1>2, <1>4, TalkIs
<1>6. down'[c] = d /\ up'[c] = Tail(uq)
  <2>1. down \in [Conns -> Seq(Messages)] /\ up \in [Conns -> Seq(Requests)]
    BY InvFacts
  <2>2. down' = [down EXCEPT ![c] = Longer(@, m, ev)]
    BY <1>4 DEF Replied, Send, Longer
  <2> QED
    BY <1>1, <2>1, <2>2
<1>7. ASSUME Good(t, d, Tail(uq))'
      PROVE  Good(this, Coming(this.conn), Going(this.conn))'
  <2>1. PICK x, y : x = d /\ y = Tail(uq)
    OBVIOUS
  <2>2. Good(t, x, y)'
    BY <1>7, <2>1
  <2>3. down'[c] = x /\ up'[c] = y
    BY <1>6, <2>1
  <2> QED
    BY <1>1, <2>2, <2>3 DEF Coming, Going
<1> QED
    BY <1>1, <1>2, <1>3, <1>4, <1>5, <1>7

\* An answer is no event.
LEMMA OfAnswer ==
    ASSUME NEW i, NEW p \in Seq(Messages), NEW dq \in Seq(Messages), NEW m \in Replies
    PROVE  /\ Append(dq, m) \in Seq(Messages)
           /\ Of(Append(dq, m), i) = Of(dq, i) /\ Of(p \o Append(dq, m), i) = Of(p \o dq, i)
<1>1. m \in Messages /\ m \notin Happening(i)
    BY HappeningIs DEF Messages
<1>2. Append(dq, m) \in Seq(Messages)
    BY <1>1
<1>3. \A s \in Seq(Messages) : Of(Append(s, m), i) = Of(s, i)
    BY <1>1, OnlyAppend DEF Of
<1>4. p \o dq \in Seq(Messages) /\ p \o Append(dq, m) = Append(p \o dq, m)
    BY <1>1
<1> QED
    BY <1>2, <1>3, <1>4

LEMMA LongerAlone ==
    ASSUME NEW dq \in Seq(Messages), NEW m \in Replies
    PROVE  Longer(dq, m, <<>>) = Append(dq, m) /\ Append(dq, m) \in Seq(Messages)
<1>1. m \in Messages
    BY DEF Messages
<1> QED
    BY <1>1 DEF Longer

LEMMA RecentAnswer ==
    ASSUME NEW dq \in Seq(Messages), NEW m \in Replies, Recent(dq)
    PROVE  Recent(Append(dq, m))
<1>1. m.kind # "event"
    BY Kinds
<1>2. \A k \in 1..Len(Append(dq, m)) : (k \in 1..Len(dq) /\ Append(dq, m)[k] = dq[k]) \/ Append(dq, m)[k] = m
    OBVIOUS
<1> QED
    BY <1>1, <1>2 DEF Recent

\* A request is answered: the promises hold if the answer is one that is expected.
Expected(t, m, dq, uq) ==
    \A k \in 1..Len(t.waiting) : Talk(dq, uq)[k] = Head(uq) /\ Matched(t, t.waiting[k], Head(uq), dq)
        => Matched(t, t.waiting[k], m, dq)

LEMMA Swapped ==
    ASSUME NEW dq \in Seq(Messages), NEW uq \in Seq(Requests), uq # <<>>, NEW m \in Replies,
           NEW t, Sound(t), Good(t, dq, uq), Len(t.waiting) = Len(Talk(dq, uq)), Expected(t, m, dq, uq)
    PROVE  Good(t, Longer(dq, m, <<>>), Tail(uq))
<1>1. Placed(t) /\ Conversing(t, dq, uq) /\ Streaming(t, dq) /\ AckSafe(t) /\ Showing(t)
    BY DEF Good
<1>2. t.pending \in Seq(Messages)
    BY ObjectIs
<1>3. PICK d : d = Append(dq, m)
    OBVIOUS
<1>4. d \in Seq(Messages) /\ Longer(dq, m, <<>>) = d
    BY <1>3, LongerAlone
<1>5. \A i : Of(d, i) = Of(dq, i) /\ Of(t.pending \o d, i) = Of(t.pending \o dq, i)
    BY <1>2, <1>3, OfAnswer
<1>6. PICK j \in 1..Len(Talk(dq, uq)) :
              /\ Talk(dq, uq)[j] = Head(uq)
              /\ Talk(d, Tail(uq))[j] = m
              /\ \A k \in 1..Len(Talk(dq, uq)) : k # j => Talk(d, Tail(uq))[k] = Talk(dq, uq)[k]
  <2>1. <<>> \in Seq(Events)
    OBVIOUS
  <2>2. \E j \in 1..Len(Talk(dq, uq)) : AnswersAt(dq, uq, m, d, j)
    BY <1>4, <2>1, TalkServed
  <2> QED
    BY <2>2 DEF AnswersAt
<1>7. \A i : Begun(t, d, i) <=> Begun(t, dq, i)
    BY <1>5 DEF Begun
<1>8. \A w, x : Matched(t, w, x, d) <=> Matched(t, w, x, dq)
    BY <1>7 DEF Matched, SubscribeMatched
<1>9. Conversing(t, d, Tail(uq))
  <2> SUFFICES ASSUME t.phase # "failed", NEW k \in 1..Len(t.waiting)
               PROVE  Lined(t, k) /\ Waits(t, k) /\ Matched(t, t.waiting[k], Talk(d, Tail(uq))[k], d)
    BY DEF Conversing
  <2>1. Lined(t, k) /\ Waits(t, k) /\ Matched(t, t.waiting[k], Talk(dq, uq)[k], dq)
    BY <1>1 DEF Conversing
  <2>2. CASE k # j
    BY <1>6, <1>8, <2>1, <2>2
  <2>3. CASE k = j
    BY <1>6, <1>8, <2>1, <2>3 DEF Expected
  <2> QED
    BY <2>2, <2>3
<1>10. Streaming(t, d)
  <2>1. Recent(d)
    BY <1>1, <1>3, RecentAnswer DEF Streaming
  <2>2. Tracked(t, dq) => Tracked(t, d)
    BY <1>5 DEF Tracked
  <2>3. Following(t, dq) => Following(t, d)
    BY <2>2 DEF Following
  <2> QED
    BY <1>1, <1>7, <2>1, <2>3 DEF Streaming
<1> QED
    BY <1>1, <1>4, <1>9, <1>10 DEF Good

\* The requests that end a promise without more.
LEMMA EndsAre ==
    /\ Success \in Ends /\ \A m \in Errors : m \in Ends
    /\ \A m \in Requests : m \in Ends => m.method \in {"ack", "unsubscribe"}
    /\ \A m \in Requests : m.method \in {"ack", "unsubscribe"} => m \notin Replies
<1>1. Success \in Ends /\ \A m \in Errors : m \in Ends
    BY DEF Ends
<1>2. \A m \in Requests : m \notin Replies
  <2>1. Success.kind = "success"
    BY DEF Success
  <2> QED
    BY DEF Requests, Replies, Errors, Pages
<1>3. ASSUME NEW m \in Requests, m \in Ends  PROVE m.method \in {"ack", "unsubscribe"}
  <2>1. m \notin Errors /\ m # Success
    BY <1>2 DEF Replies, Success
  <2> QED
    BY <1>3, <2>1 DEF Ends
<1> QED
    BY <1>1, <1>2, <1>3

\* A request is no answer.
LEMMA NoAnswer ==
    ASSUME NEW x \in Requests
    PROVE  x \notin Errors /\ x # Success /\ x \notin Replies /\ \A a, b, e : x # Page(a, b, e)
<1>1. "kind" \notin DOMAIN x
    BY DEF Requests
<1>2. "kind" \in DOMAIN Success /\ \A a, b, e : "kind" \in DOMAIN Page(a, b, e)
    BY DEF Success, Page
<1>3. \A y \in Replies : "kind" \in DOMAIN y
    BY <1>2 DEF Replies, Errors, Pages, Success
<1>4. x \notin Replies
    BY <1>1, <1>3
<1> QED
    BY <1>1, <1>2, <1>4 DEF Replies

\* The parts of a row of messages.
Made(d, p, q) ==
    \A k \in 1..Len(d) : (\E j \in 1..Len(p) : d[k] = p[j]) \/ (\E j \in 1..Len(q) : d[k] = q[j])

LEMMA RowParts ==
    ASSUME NEW S, NEW p \in Seq(S), NEW q \in Seq(S), NEW d, d = Cat(p, q)
    PROVE  Made(d, p, q)
<1>1. Len(d) = Len(p) + Len(q) /\ Len(p) \in Nat /\ Len(q) \in Nat
    BY DEF Cat
<1>2. \A k \in 1..Len(d) : (k \in 1..Len(p) /\ d[k] = p[k]) \/ (k - Len(p) \in 1..Len(q) /\ d[k] = q[k - Len(p)])
    BY <1>1 DEF Cat
<1> QED
    BY <1>2 DEF Made

LEMMA MessageParts ==
    ASSUME NEW dq \in Seq(Messages), NEW m \in Replies, NEW ev \in Seq(Events), NEW d, d = Longer(dq, m, ev)
    PROVE  \A k \in 1..Len(d) : \/ \E j \in 1..Len(dq) : d[k] = dq[j]
                                \/ d[k] = m
                                \/ \E j \in 1..Len(ev) : d[k] = ev[j]
<1>1. m \in Messages /\ \A e \in Events : e \in Messages
    BY DEF Messages
<1>2. PICK x : x = <<m>> \o ev
    OBVIOUS
<1>3. PICK y : y = <<m>>
    OBVIOUS
<1>4. ev \in Seq(Messages) /\ y \in Seq(Messages) /\ Len(y) = 1 /\ y[1] = m
    BY <1>1, <1>3, Wider
<1>5. x = Cat(y, ev) /\ x \in Seq(Messages)
    BY <1>2, <1>3, <1>4 DEF Cat
<1>6. Made(x, y, ev)
    BY <1>4, <1>5, RowParts
<1>7. d = Cat(dq, x)
    BY <1>2 DEF Cat, Longer
<1>8. Made(d, dq, x)
    BY <1>5, <1>7, RowParts
<1>9. \A j \in 1..Len(y) : y[j] = m
    BY <1>4
<1> QED
  <2>1. \A k \in 1..Len(x) : x[k] = m \/ \E j \in 1..Len(ev) : x[k] = ev[j]
    BY <1>6, <1>9 DEF Made
  <2>2. \A k \in 1..Len(d) : (\E j \in 1..Len(dq) : d[k] = dq[j]) \/ (\E j \in 1..Len(x) : d[k] = x[j])
    BY <1>8 DEF Made
  <2> QED
    BY <2>1, <2>2

\* The messages that are there, and those that are sent, are recent.
LEMMA RecentGrows ==
    ASSUME NEW dq \in Seq(Messages), NEW m \in Replies, NEW ev \in Seq(Events), NEW d, d = Longer(dq, m, ev),
           Recent(dq), Recent(ev)', Len(subs) \in Nat, Len(subs') \in Nat, Len(subs) <= Len(subs')
    PROVE  Recent(d)'
<1>1. m.kind # "event"
    BY Kinds
<1>2. \A k \in 1..Len(d) : \/ \E j \in 1..Len(dq) : d[k] = dq[j]
                          \/ d[k] = m
                          \/ \E j \in 1..Len(ev) : d[k] = ev[j]
    BY MessageParts
<1>3. ASSUME NEW j \in 1..Len(dq), dq[j].kind = "event"  PROVE dq[j].sub <= Len(subs')
  <2>1. dq[j].sub <= Len(subs) /\ dq[j] \in Events
    BY <1>3, Kinds DEF Recent, Messages
  <2>2. dq[j].sub \in Nat
    BY <2>1, Bounds DEF Events
  <2> QED
    BY <2>1, <2>2
<1> QED
    BY <1>1, <1>2, <1>3 DEF Recent

\* The acknowledged cursor and the view.
LEMMA SafeStays ==
    ASSUME Sizes, Sizes', SubsInv, SubsInv', Onward, Table, Table', NEW t, Sound(t), AckSafe(t), Showing(t)
    PROVE  /\ AckSafe(t)' /\ Showing(t)' /\ (Unknown(t.ack) => Unknown(t.ack)')
           /\ Len(subs) \in Nat /\ Len(subs') \in Nat /\ Len(subs) <= Len(subs')
           /\ \A id : Issued(id) => Issued(id)'
<1>1. Len(subs) \in Nat /\ Len(subs') \in Nat /\ Len(subs) <= Len(subs') /\ log \in Nat /\ log' \in Nat /\ log <= log'
    BY Bounds DEF SubsInv, Sizes, Onward, Aged
<1>2. \A id : Issued(id) => Issued(id)'
    BY <1>1, IssuedStays
<1>3. Unknown(t.ack) => Unknown(t.ack)'
  <2>1. t.ack = None \/ Issued(t.ack)
    BY DEF AckSafe
  <2> QED
    BY <1>1, <2>1, AckStays
<1>4. AckSafe(t)'
    BY <1>2, <1>3 DEF AckSafe
<1>5. Showing(t)'
  <2>1. Len(t.view) \in Nat
    BY ObjectIs
  <2> QED
    BY <1>1, <2>1 DEF Showing
<1> QED
    BY <1>1, <1>2, <1>3, <1>4, <1>5

\* A request of a client that follows no subscription.
LEMMA ServedApart ==
    ASSUME Sizes, Sizes', SubsInv, SubsInv', Onward, Table, Table', NEW t, Sound(t), ~Joined(t),
           NEW dq \in Seq(Messages), NEW uq \in Seq(Requests), uq # <<>>, Good(t, dq, uq),
           Len(t.waiting) = Len(Talk(dq, uq)),
           NEW m \in Replies, NEW ev \in Seq(Events), NEW d, d = Longer(dq, m, ev), Recent(ev)',
           Head(uq) \in Ends => m \in Ends,
           t.phase = "subscribe" /\ Head(uq) = [method |-> "subscribe", after |-> t.cursor] => SubscribeMatched(t, m, d)'
    PROVE  Good(t, d, Tail(uq))'
<1>1. Placed(t) /\ Conversing(t, dq, uq) /\ Streaming(t, dq) /\ AckSafe(t) /\ Showing(t)
    BY DEF Good
<1>2. t.phase \notin Reading /\ ~t.bound /\ t.phase # "drain"
    BY <1>1 DEF Joined, Placed
<1>3. /\ AckSafe(t)' /\ Showing(t)' /\ Len(subs) \in Nat /\ Len(subs') \in Nat /\ Len(subs) <= Len(subs')
    BY <1>1, SafeStays
<1>4. Streaming(t, d)'
  <2>1. Recent(d)'
    BY <1>1, <1>3, RecentGrows DEF Streaming
  <2>2. Recent(t.pending)'
    <3>1. t.pending \in Seq(Messages) /\ Recent(t.pending)
      BY <1>1, ObjectIs DEF Streaming
    <3>2. ASSUME NEW j \in 1..Len(t.pending), t.pending[j].kind = "event"  PROVE t.pending[j].sub <= Len(subs')
      <4>1. t.pending[j].sub <= Len(subs) /\ t.pending[j] \in Events
        BY <3>1, <3>2, Kinds DEF Recent, Messages
      <4>2. t.pending[j].sub \in Nat
        BY <4>1, Bounds DEF Events
      <4> QED
        BY <1>3, <4>1, <4>2
    <3> QED
      BY <3>2 DEF Recent
  <2> QED
    BY <1>2, <2>1, <2>2 DEF Streaming
<1>5. Conversing(t, d, Tail(uq))'
  <2>1. PICK j \in 1..Len(Talk(dq, uq)) :
              /\ Talk(dq, uq)[j] = Head(uq)
              /\ Talk(d, Tail(uq))[j] = m
              /\ \A k \in 1..Len(Talk(dq, uq)) :
                    /\ k # j => Talk(d, Tail(uq))[k] = Talk(dq, uq)[k]
                    /\ j <= k => Talk(dq, uq)[k] \in Requests
    <3>1. \E j \in 1..Len(Talk(dq, uq)) : AnswersAt(dq, uq, m, d, j)
      BY TalkServed
    <3> QED
      BY <3>1 DEF AnswersAt
  <2> SUFFICES ASSUME t.phase # "failed", NEW k \in 1..Len(t.waiting)
               PROVE  Lined(t, k)' /\ Waits(t, k)' /\ Matched(t, t.waiting[k], Talk(d, Tail(uq))[k], d)'
    BY DEF Conversing, Talk
  <2>2. Lined(t, k) /\ Waits(t, k) /\ Matched(t, t.waiting[k], Talk(dq, uq)[k], dq)
    BY <1>1 DEF Conversing
  <2>3. Lined(t, k)'
    BY <2>2 DEF Lined, Est, Late, Joined, Reading, Awaiting
  <2>4. PICK w \in Waiters : w = t.waiting[k]
    BY ObjectIs
  <2>5. ~Acking(t, w) /\ (Est(w) => t.phase # "history")
    <3>1. w.who # "chain"
      BY <1>2, <2>2, <2>4 DEF Lined
    <3> QED
      BY <1>2, <3>1 DEF Acking, Reading
  <2>6. Waits(t, k)'
    BY <2>4, <2>5 DEF Waits, Acking, Est
  <2>7. PICK x, y : x = Talk(dq, uq)[k] /\ y = Talk(d, Tail(uq))[k]
    OBVIOUS
  <2>8. IF k = j THEN x = Head(uq) /\ y = m ELSE y = x
    BY <2>1, <2>7
  <2>9. w.who \in {"old", "stale"} \/ (Est(w) /\ t.phase \in {"leaving", "cleanup"}) => y \in Ends
    BY <2>2, <2>4, <2>7, <2>8 DEF Matched
  <2>10. ASSUME Est(w), t.phase = "subscribe"  PROVE SubscribeMatched(t, y, d)'
    <3>1. k = Len(t.waiting)
      BY <2>2, <2>4, <2>10 DEF Lined, Est, Late
    <3>2. x \in Requests
      BY <2>1, <2>7, <3>1
    <3>3. SubscribeMatched(t, x, dq)
      BY <2>2, <2>4, <2>7, <2>10 DEF Matched
    <3>4. x = [method |-> "subscribe", after |-> t.cursor]
      <4>1. x \notin Replies
        <5>1. Success.kind = "success"
          BY DEF Success
        <5> QED
          BY <3>2 DEF Requests, Replies, Errors, Pages
      <4> QED
        BY <3>3, <4>1 DEF SubscribeMatched, Replies
    <3>5. CASE k = j
      BY <2>8, <2>10, <3>4, <3>5
    <3>6. CASE k # j
      BY <2>8, <3>4, <3>6 DEF SubscribeMatched
    <3> QED
      BY <3>5, <3>6
  <2>11. Matched(t, w, y, d)'
    BY <2>5, <2>9, <2>10 DEF Matched, Acking, Est, Ends
  <2> QED
    BY <2>3, <2>4, <2>6, <2>7, <2>11
<1>6. Placed(t)'
    BY <1>1 DEF Placed
<1> QED
    BY <1>3, <1>4, <1>5, <1>6 DEF Good

\* What a client that follows a subscription asks for.
LEMMA JoinedHead ==
    ASSUME NEW t, Sound(t), Joined(t), NEW dq \in Seq(Messages), NEW uq \in Seq(Requests), uq # <<>>,
           Good(t, dq, uq), Len(t.waiting) = Len(Talk(dq, uq))
    PROVE  \/ t.phase = "history" /\ Head(uq) = [method |-> "history", sub |-> t.current, offset |-> Len(t.view)]
           \/ /\ t.phase \in {"boundary", "drain", "idle"} /\ Head(uq).method = "ack" /\ Head(uq).sub = t.current
              /\ Issued(Head(uq).cursor) /\ Head(uq).cursor[1] = t.current
              /\ subs[t.current].ackPos < Head(uq).cursor[2]
              /\ Head(uq).cursor[2] <= subs[t.current].base + t.seq
              /\ t.phase # "boundary" => t.bound
<1>1. Placed(t) /\ Conversing(t, dq, uq) /\ Streaming(t, dq)
    BY DEF Good
<1>2. t.phase # "failed"
    BY <1>1 DEF Joined, Placed, Reading
<1>3. PICK j \in 1..Len(t.waiting) : Talk(dq, uq)[j] = Head(uq)
  <2>1. /\ Len(Talk(dq, uq)) = Len(Only(dq, Replies)) + Len(uq)
        /\ Len(Only(dq, Replies)) \in Nat /\ Len(uq) \in Nat
        /\ \A k \in 1..Len(uq) : Talk(dq, uq)[Len(Only(dq, Replies)) + k] = uq[k]
    BY TalkIs
  <2>2. 1 \in 1..Len(uq) /\ Len(Only(dq, Replies)) + 1 \in 1..Len(t.waiting)
    BY <2>1
  <2>3. Talk(dq, uq)[Len(Only(dq, Replies)) + 1] = Head(uq)
    BY <2>1, <2>2
  <2> QED
    BY <2>2, <2>3
<1>4. PICK w \in Waiters : w = t.waiting[j]
    BY ObjectIs
<1>5. Lined(t, j) /\ Waits(t, j) /\ Matched(t, w, Head(uq), dq)
    BY <1>1, <1>2, <1>3, <1>4 DEF Conversing
<1>6. PICK x \in Requests : x = Head(uq)
    OBVIOUS
<1>7. x \notin Errors /\ x # Success /\ x \notin Replies /\ \A a, b, e : x # Page(a, b, e)
    BY NoAnswer
<1>8. w.who \in {"est", "chain"}
    BY <1>4, <1>5 DEF Lined
<1>9. CASE t.phase = "history"
  <2>1. Est(w)
    BY <1>1, <1>4, <1>5, <1>8, <1>9 DEF Lined, Est, Placed
  <2>2. HistoryMatched(t, x)
    BY <1>5, <1>6, <1>9, <2>1 DEF Matched
  <2> QED
    BY <1>6, <1>7, <1>9, <2>2 DEF HistoryMatched
<1>10. CASE t.phase # "history"
  <2>1. Acking(t, w) /\ t.phase \in {"boundary", "drain", "idle"} /\ (t.phase # "boundary" => t.bound)
    <3>1. CASE w.who = "chain"
      BY <1>1, <1>4, <1>5, <3>1 DEF Lined, Placed, Acking
    <3>2. CASE Est(w)
      <4>1. t.phase \in Awaiting
        BY <1>4, <1>5, <3>2 DEF Lined
      <4>2. t.phase \in {"boundary", "drain"}
        BY <1>1, <1>10, <4>1 DEF Joined, Reading, Awaiting, Placed
      <4> QED
        BY <1>1, <3>2, <4>2 DEF Acking, Placed
    <3> QED
      BY <1>8, <3>1, <3>2 DEF Est
  <2>2. AckMatched(t, w, x)
    BY <1>5, <1>6, <2>1 DEF Matched
  <2>3. x = [method |-> "ack", sub |-> t.current, cursor |-> w.cursor] /\ subs[t.current].ackPos < w.cursor[2]
    BY <1>7, <2>2 DEF AckMatched
  <2>4. Issued(w.cursor) /\ w.cursor[1] = t.current /\ w.cursor[2] <= subs[t.current].base + t.seq
    BY <1>4, <1>5, <2>1 DEF Waits
  <2>5. x.method = "ack" /\ x.sub = t.current /\ x.cursor = w.cursor
    BY <2>3
  <2> QED
    BY <1>6, <2>1, <2>3, <2>4, <2>5
<1> QED
    BY <1>9, <1>10

\* A subscription starts for a client that asked for a snapshot.
LEMMA SnapshotOwn ==
    ASSUME IInv, IInv', Stream, NEW c \in Conns, SubscribeSnapshot(c), this' = this, this.conn = c
    PROVE  Stream'
<1>1. PICK t, dq, uq : t = this /\ dq = down[c] /\ uq = up[c]
    OBVIOUS
<1>2. PICK i, m : i = Len(subs) + 1 /\ m = Page(i, 0, log)
    OBVIOUS
<1>3. Reads(c, "subscribe")
    BY DEF SubscribeSnapshot
<1>4. Aside(c) /\ Len(subs') = i /\ \A j \in 1..Len(subs) : subs'[j] = subs[j]
    BY <1>2, SnapshotAside
<1>5. /\ Head(uq).after = None /\ subs'[i].conn = c /\ subs'[i].state = "loading" /\ subs'[i].base = log
      /\ subs'[i].seq = 0 /\ Replied(c, m, <<>>)
    BY <1>1, <1>2, SnapshotReplied DEF FrozenAt
<1>6. PICK d : d = Longer(dq, m, <<>>)
    OBVIOUS
<1>7. /\ dq \in Seq(Messages) /\ uq \in Seq(Requests) /\ uq # <<>> /\ Head(uq) \in Requests
      /\ Head(uq).method = "subscribe"
      /\ Good(t, dq, uq) /\ Sound(t) /\ t.conn = c /\ c # 0 /\ Len(t.waiting) = Len(Talk(dq, uq))
      /\ Good(t, d, Tail(uq))' => Good(this, Coming(this.conn), Going(this.conn))'
    BY <1>1, <1>3, <1>5, <1>6, OwnQueues
<1>8. Sizes /\ SubsInv /\ Sizes' /\ SubsInv' /\ Onward /\ Table /\ Table' /\ Roster' /\ Requested'
    BY <1>4 DEF Aside, IInv, DaemonInv, Stream
<1>9. ~Joined(t)
  <2>1. Head(uq).method \notin {"history", "ack"}
    BY <1>7
  <2> QED
    BY <1>7, <2>1, JoinedHead
<1>10. i \in 1..MaxSubs /\ i \in 1..Len(subs') /\ log \in Nat /\ log \in 0..MaxEvents /\ ~(i <= Len(subs))
    BY <1>2, <1>4, <1>8, Bounds DEF SubsInv, Sizes
<1>11. m \in Replies
  <2>1. 0 \in Nat
    OBVIOUS
  <2>2. m \in Pages
    BY <1>2, <1>10, <2>1, PageIs
  <2> QED
    BY <2>2 DEF Replies
<1>12. t.pending \in Seq(Messages) /\ Recent(t.pending) /\ Recent(dq)
    BY <1>7, ObjectIs DEF Good, Streaming
<1>13. Of(t.pending \o d, i) = Sent(i, log, 0, 0)
  <2>1. d = Append(dq, m) /\ Of(t.pending \o Append(dq, m), i) = Of(t.pending \o dq, i)
    BY <1>6, <1>7, <1>11, <1>12, OfAnswer, LongerAlone
  <2>2. Of(t.pending \o dq, i) = Of(t.pending, i) \o Of(dq, i)
    BY <1>7, <1>12, OfConcat
  <2>3. Of(t.pending, i) = <<>> /\ Of(dq, i) = <<>>
    BY <1>7, <1>10, <1>12, OfNew
  <2>4. Sent(i, log, 0, 0) = <<>>
    BY <1>10, SentNone
  <2>5. <<>> \o <<>> = <<>>
    OBVIOUS
  <2> QED
    BY <2>1, <2>2, <2>3, <2>4, <2>5
<1>14. m.kind = "page" /\ m.sub = i
    BY <1>2 DEF Page
<1>15. Begun(t, d, i)'
  <2>1. Orderly(i, t.ack)'
    BY <1>5 DEF Orderly
  <2> QED
    BY <1>5, <1>7, <1>10, <1>13, <2>1 DEF Begun
<1>16. ASSUME Head(uq) = [method |-> "subscribe", after |-> t.cursor]
       PROVE  SubscribeMatched(t, m, d)'
  <2>1. t.cursor = None
    BY <1>5, <1>16
  <2>2. m = Page(m.sub, 0, subs'[m.sub].base) /\ subs'[m.sub].state # "active"
    BY <1>2, <1>5, <1>14
  <2> QED
    BY <1>11, <1>14, <1>15, <2>1, <2>2 DEF SubscribeMatched
<1>17. Head(uq) \notin Ends
    BY <1>7, EndsAre
<1>18. <<>> \in Seq(Events) /\ Recent(<<>>)'
    BY DEF Recent
<1>19. Good(t, d, Tail(uq))'
    BY <1>6, <1>7, <1>8, <1>9, <1>11, <1>16, <1>17, <1>18, ServedApart
<1> QED
    BY <1>7, <1>8, <1>19 DEF Stream

LEMMA BehindOne ==
    ASSUME NEW S, NEW s \in Seq(S), NEW x \in S, NEW v \in Seq(S)
    PROVE  Longer(s, x, v) = Cat(Append(s, x), v)
<1>1. s \o (<<x>> \o v) = Append(s, x) \o v
    OBVIOUS
<1> QED
    BY <1>1 DEF Longer, Cat

\* One message more, and what follows it.
LEMMA LongerIs ==
    ASSUME NEW p \in Seq(Messages), NEW s \in Seq(Messages), NEW x \in Messages, NEW v \in Seq(Messages)
    PROVE  /\ Append(s, x) \in Seq(Messages) /\ Longer(s, x, v) \in Seq(Messages)
           /\ Cat(p, Append(s, x)) \in Seq(Messages)
           /\ Longer(s, x, v) = Cat(Append(s, x), v)
           /\ Cat(p, Longer(s, x, v)) = Cat(Cat(p, Append(s, x)), v)
<1>1. Append(s, x) \in Seq(Messages)
    OBVIOUS
<1>2. Longer(s, x, v) = Cat(Append(s, x), v)
  <2> HIDE DEF Messages
  <2> QED
    BY BehindOne
<1>3. PICK a \in Seq(Messages) : a = Append(s, x)
    BY <1>1
<1>4. Cat(a, v) \in Seq(Messages) /\ Cat(p, a) \in Seq(Messages) /\ Cat(p, Cat(a, v)) = Cat(Cat(p, a), v)
    BY MessagesJoin DEF Cat
<1> QED
    BY <1>1, <1>2, <1>3, <1>4

\* The first events of a subscription come behind everything else.
LEMMA OfBehind ==
    ASSUME NEW i \in 1..MaxSubs, NEW b \in Nat, NEW n \in Nat, b + n <= MaxEvents, NEW p \in Seq(Messages),
           NEW dq \in Seq(Messages), NEW m \in Replies, NEW ev, ev = Sent(i, b, 0, n), NEW d, d = Longer(dq, m, ev)
    PROVE  d \in Seq(Messages) /\ Of(d, i) = Cat(Of(dq, i), ev) /\ Of(Cat(p, d), i) = Cat(Of(Cat(p, dq), i), ev)
<1>1. ev \in Seq(Messages) /\ m \in Messages /\ Of(ev, i) = ev
  <2>1. Sent(i, b, 0, n) \in Seq(Events) /\ \A e \in Events : e \in Messages
    BY SentIs DEF Messages
  <2>2. ev \in Seq(Messages)
    BY <2>1, Wider
  <2>3. 0 \in Nat /\ 0 <= n
    OBVIOUS
  <2>4. Of(Sent(i, b, 0, n), i) = Sent(i, b, 0, n)
    BY <2>3, OfSent
  <2> QED
    BY <2>2, <2>4 DEF Messages
<1>2. PICK a : a = Append(dq, m)
    OBVIOUS
<1>3. /\ a \in Seq(Messages) /\ d \in Seq(Messages) /\ Cat(p, a) \in Seq(Messages)
      /\ d = Cat(a, ev) /\ Cat(p, d) = Cat(Cat(p, a), ev)
  <2> HIDE DEF Messages
  <2>1. p \in Seq(Messages) /\ dq \in Seq(Messages)
    OBVIOUS
  <2> QED
    BY <1>1, <1>2, <2>1, LongerIs
<1>4. Of(a, i) = Of(dq, i) /\ Of(Cat(p, a), i) = Of(Cat(p, dq), i)
    BY <1>2, OfAnswer DEF Cat
<1>5. \A s \in Seq(Messages) : Of(Cat(s, ev), i) = Cat(Of(s, i), Of(ev, i))
    BY <1>1, OfConcat DEF Cat
<1> QED
    BY <1>1, <1>3, <1>4, <1>5

LEMMA OfFirst ==
    ASSUME NEW i \in 1..MaxSubs, NEW b \in Nat, NEW n \in Nat, b + n <= MaxEvents, NEW p \in Seq(Messages),
           NEW dq \in Seq(Messages), NEW m \in Replies, NEW ev, ev = Sent(i, b, 0, n), NEW d, d = Longer(dq, m, ev),
           Recent(p), Recent(dq), ~(i <= Len(subs))
    PROVE  Of(p \o d, i) = Sent(i, b, 0, n)
<1>1. Of(Cat(p, d), i) = Cat(Of(Cat(p, dq), i), ev)
    BY OfBehind
<1>2. Of(Cat(p, dq), i) = Cat(Of(p, i), Of(dq, i))
    BY OfConcat DEF Cat
<1>3. Of(p, i) = <<>> /\ Of(dq, i) = <<>>
    BY OfNew
<1>4. Sent(i, b, 0, n) \in Seq(Events)
    BY SentIs
<1>5. Cat(<<>>, <<>>) = <<>> /\ Cat(<<>>, Sent(i, b, 0, n)) = Sent(i, b, 0, n)
    BY <1>4 DEF Cat
<1>6. p \o d = Cat(p, d)
    BY DEF Cat
<1> QED
    BY <1>1, <1>2, <1>3, <1>5, <1>6

\* A request that is answered without more, while the client follows no subscription.
LEMMA PlainOwn ==
    ASSUME IInv, IInv', Stream, NEW c \in Conns, NEW method, Reads(c, method), Aside(c), this' = this, this.conn = c,
           NEW m \in {Success} \cup Errors, NEW ev \in Seq(Events), Recent(ev)', Replied(c, m, ev),
           ~Joined(this), method = "subscribe" => m \in Errors /\ Head(up[c]).after # None
    PROVE  Stream'
<1>1. PICK t, dq, uq : t = this /\ dq = down[c] /\ uq = up[c]
    OBVIOUS
<1>2. PICK d : d = Longer(dq, m, ev)
    OBVIOUS
<1>3. /\ dq \in Seq(Messages) /\ uq \in Seq(Requests) /\ uq # <<>> /\ Head(uq) \in Requests
      /\ Head(uq).method = method
      /\ Good(t, dq, uq) /\ Sound(t) /\ t.conn = c /\ c # 0 /\ Len(t.waiting) = Len(Talk(dq, uq))
      /\ Good(t, d, Tail(uq))' => Good(this, Coming(this.conn), Going(this.conn))'
    BY <1>1, <1>2, OwnQueues
<1>4. Sizes /\ SubsInv /\ Sizes' /\ SubsInv' /\ Onward /\ Table /\ Table' /\ Roster' /\ Requested'
    BY DEF Aside, IInv, DaemonInv, Stream
<1>5. ~Joined(t) /\ m \in Ends /\ m \in Replies
  <2>1. m \in Replies
    BY DEF Replies, Success
  <2> QED
    BY <1>1, <2>1, EndsAre
<1>6. ASSUME t.phase = "subscribe", Head(uq) = [method |-> "subscribe", after |-> t.cursor]
      PROVE  SubscribeMatched(t, m, d)'
  <2>1. method = "subscribe" /\ t.cursor = Head(uq).after
    BY <1>3, <1>6
  <2>2. m \in Errors /\ t.cursor # None
    BY <1>1, <2>1
  <2> QED
    BY <2>2 DEF SubscribeMatched
<1>7. Good(t, d, Tail(uq))'
    BY <1>2, <1>3, <1>4, <1>5, <1>6, ServedApart
<1> QED
    BY <1>3, <1>4, <1>7 DEF Stream

\* A client that asks to subscribe or unsubscribe follows no subscription.
LEMMA ApartOwn ==
    ASSUME IInv, Stream, NEW c \in Conns, NEW method, Reads(c, method), this' = this, this.conn = c,
           method \in {"subscribe", "unsubscribe"}
    PROVE  ~Joined(this)
<1>1. PICK t, dq, uq : t = this /\ dq = down[c] /\ uq = up[c]
    OBVIOUS
<1>2. up[c] # <<>> /\ Head(up[c]).method = method /\ c # 0
    BY ReadingIs
<1>3. dq \in Seq(Messages) /\ uq \in Seq(Requests) /\ Sound(t)
    BY <1>1, InvFacts
<1>4. Good(t, dq, uq)
    BY <1>1, <1>2 DEF Stream, Coming, Going
<1>5. Len(t.waiting) = Len(Talk(dq, uq))
  <2>1. Len(t.waiting) = Len(Only(dq, Replies)) + Len(uq)
    BY <1>1, <1>2 DEF IInv, Balanced
  <2> QED
    BY <1>3, <2>1, TalkIs
<1>6. Head(uq).method \notin {"history", "ack"}
    BY <1>1, <1>2
<1>7. uq # <<>>
    BY <1>1, <1>2
<1>8. ~Joined(t)
    BY <1>3, <1>4, <1>5, <1>6, <1>7, JoinedHead
<1> QED
    BY <1>1, <1>8

LEMMA UnsubscribeOwn ==
    ASSUME IInv, IInv', Stream, NEW c \in Conns, Unsubscribe(c), this' = this, this.conn = c
    PROVE  Stream'
<1>1. Reads(c, "unsubscribe") /\ Aside(c)
    BY UnsubscribeAside DEF Unsubscribe
<1>2. PICK m \in {Success} \cup Errors : Replied(c, m, <<>>)
    BY UnsubscribeReplied
<1>3. ~Joined(this)
    BY <1>1, ApartOwn
<1>4. <<>> \in Seq(Events) /\ Recent(<<>>)'
    BY DEF Recent
<1>5. PICK method : method = "unsubscribe"
    OBVIOUS
<1>6. Reads(c, method) /\ method # "subscribe"
    BY <1>1, <1>5
<1> QED
    BY <1>1, <1>2, <1>3, <1>4, <1>6, PlainOwn

\* The deliveries of a subscription are recent.
LEMMA RecentSent ==
    ASSUME NEW i \in 1..MaxSubs, i <= Len(subs'), NEW b \in Nat, NEW n \in Nat, b + n <= MaxEvents,
           NEW ev, ev = Sent(i, b, 0, n)
    PROVE  ev \in Seq(Events) /\ Recent(ev)'
<1>1. ev \in Seq(Events) /\ \A k \in 1..Len(ev) : ev[k].sub = i
  <2>1. Sent(i, b, 0, n) \in Seq(Events) /\ Len(Sent(i, b, 0, n)) = n - 0
    BY SentIs
  <2>2. Len(ev) = n
    BY <2>1
  <2>3. \A k \in 1..(n - 0) : Sent(i, b, 0, n)[k] = Note(i, b, 0 + k)
    BY DEF Sent
  <2>4. \A k : Note(i, b, k).sub = i
    BY DEF Note
  <2>5. \A k \in 1..n : ev[k].sub = i
    BY <2>3, <2>4
  <2> QED
    BY <2>1, <2>2, <2>5
<1> QED
    BY <1>1 DEF Recent

\* A subscription resumes for its client.
LEMMA AfterOwn ==
    ASSUME IInv, IInv', Stream, NEW c \in Conns, SubscribeAfter(c), this' = this, this.conn = c
    PROVE  Stream'
<1>1. Reads(c, "subscribe") /\ Head(up[c]).after # None
    BY DEF SubscribeAfter
<1>2. ~Joined(this)
    BY <1>1, ApartOwn
<1>3. /\ Aside(c)
      /\ \/ subs' = subs /\ \E m \in Errors : Replied(c, m, <<>>)
         \/ \E id, i : \E b, n \in Nat :
               /\ id = Head(up[c]).after /\ id # None /\ HasCursor(id) /\ b = id[2] /\ b + n = log
               /\ i = Len(subs) + 1 /\ ResumedAt(c, i, b, n)
    BY AfterServed
<1>4. <<>> \in Seq(Events) /\ Recent(<<>>)'
    BY DEF Recent
<1>5. CASE \E m \in Errors : Replied(c, m, <<>>)
    BY <1>1, <1>2, <1>3, <1>4, <1>5, PlainOwn
<1>6. ASSUME NEW id, NEW i, NEW b \in Nat, NEW n \in Nat, id = Head(up[c]).after, id # None, HasCursor(id),
             b = id[2], b + n = log, i = Len(subs) + 1, ResumedAt(c, i, b, n)
      PROVE  Stream'
  <2>1. PICK t, dq, uq : t = this /\ dq = down[c] /\ uq = up[c]
    OBVIOUS
  <2>2. PICK m, ev : m = [kind |-> "resumed", sub |-> i] /\ ev = Deliveries(i, 0, Span(b + 1, b + n))
    OBVIOUS
  <2>3. PICK d : d = Longer(dq, m, ev)
    OBVIOUS
  <2>4. /\ Len(subs') = i
        /\ subs'[i].conn = c /\ subs'[i].state = "active" /\ subs'[i].base = b /\ subs'[i].seq = n
        /\ subs'[i].ackPos = b /\ Replied(c, m, ev)
        /\ \A ack : (ack = None \/ Issued(ack)) => Ordered(cursors', i, ack, b, log)
    BY <1>6, <2>2 DEF ResumedAt
  <2>5. /\ dq \in Seq(Messages) /\ uq \in Seq(Requests) /\ uq # <<>> /\ Head(uq) \in Requests
        /\ Head(uq).method = "subscribe"
        /\ Good(t, dq, uq) /\ Sound(t) /\ t.conn = c /\ c # 0 /\ Len(t.waiting) = Len(Talk(dq, uq))
        /\ Good(t, d, Tail(uq))' => Good(this, Coming(this.conn), Going(this.conn))'
    BY <1>1, <2>1, <2>3, <2>4, OwnQueues
  <2>6. /\ Sizes /\ SubsInv /\ Sizes' /\ SubsInv' /\ Onward /\ Table /\ Table' /\ Roster' /\ Requested'
        /\ log' = log
    BY <1>1, <1>3 DEF Aside, IInv, DaemonInv, Stream, Reads
  <2>7. i \in 1..MaxSubs /\ i \in 1..Len(subs') /\ log \in Nat /\ b + n <= MaxEvents /\ ~(i <= Len(subs))
    BY <1>6, <2>4, <2>6, Bounds DEF SubsInv, Sizes
  <2>8. ev = Sent(i, b, 0, n)
    BY <2>2, <2>7, DeliveriesSent
  <2>9. ev \in Seq(Events) /\ Recent(ev)'
    BY <2>4, <2>7, <2>8, RecentSent
  <2>10. m \in Replies /\ m.kind = "resumed" /\ m.sub = i
    BY <2>2, <2>7 DEF Replies
  <2>11. t.pending \in Seq(Messages) /\ Recent(t.pending) /\ Recent(dq)
    BY <2>5, ObjectIs DEF Good, Streaming
  <2>12. Of(t.pending \o d, i) = Sent(i, b, 0, n)
    BY <2>3, <2>5, <2>7, <2>8, <2>10, <2>11, OfFirst
  <2>13. Begun(t, d, i)'
    <3>1. t.ack = None \/ Issued(t.ack)
      BY <2>5 DEF Good, AckSafe
    <3>2. Orderly(i, t.ack)'
      BY <2>4, <2>6, <3>1 DEF Orderly
    <3> QED
      BY <2>4, <2>5, <2>7, <2>12, <3>2 DEF Begun
  <2>14. ASSUME t.phase = "subscribe", Head(uq) = [method |-> "subscribe", after |-> t.cursor]
         PROVE  SubscribeMatched(t, m, d)'
    <3>1. t.cursor = id /\ t.cursor # None
      BY <1>6, <2>1, <2>14
    <3>2. t.ack = id /\ (t.ack[2] <= Len(t.view) \/ Unknown(t.ack))
      BY <1>6, <2>5, <2>14, <3>1 DEF Good, AckSafe
    <3>3. b <= Len(t.view)
      BY <1>6, <3>2 DEF Unknown
    <3> QED
      BY <2>4, <2>10, <2>13, <3>1, <3>3 DEF SubscribeMatched
  <2>15. Head(uq) \notin Ends
    BY <2>5, EndsAre
  <2>16. ~Joined(t)
    BY <1>2, <2>1
  <2>17. Good(t, d, Tail(uq))'
    BY <2>3, <2>5, <2>6, <2>9, <2>10, <2>14, <2>15, <2>16, ServedApart
  <2> QED
    BY <2>5, <2>6, <2>17 DEF Stream
<1> QED
    BY <1>3, <1>5, <1>6

\* An answer that is expected, in a step that changes no more for the client.
LEMMA SwappedOwn ==
    ASSUME IInv, IInv', Stream, NEW c \in Conns, NEW method, Reads(c, method), Aside(c), this' = this, this.conn = c,
           \A j \in 1..Len(subs) : Steady(j, <<>>), NEW m \in Replies, Replied(c, m, <<>>),
           Expected(this, m, down[c], up[c])
    PROVE  Stream'
<1>1. PICK t, dq, uq, ev : t = this /\ dq = down[c] /\ uq = up[c] /\ ev = <<>>
    OBVIOUS
<1>2. PICK d : d = Longer(dq, m, ev)
    OBVIOUS
<1>3. Replied(c, m, ev) /\ ev \in Seq(Events) /\ Recent(ev)'
    BY <1>1 DEF Recent
<1>4. /\ dq \in Seq(Messages) /\ uq \in Seq(Requests) /\ uq # <<>> /\ Head(uq) \in Requests
      /\ Good(t, dq, uq) /\ Sound(t) /\ t.conn = c /\ c # 0 /\ Len(t.waiting) = Len(Talk(dq, uq))
      /\ Good(t, d, Tail(uq))' => Good(this, Coming(this.conn), Going(this.conn))'
    BY <1>1, <1>2, <1>3, OwnQueues
<1>5. Expected(t, m, dq, uq)
    BY <1>1
<1>6. Good(t, Longer(dq, m, <<>>), Tail(uq))
    BY <1>4, <1>5, Swapped
<1>7. d \in Seq(Messages) /\ Cat(d, ev) = d /\ Good(t, d, Tail(uq))
  <2>1. d = Append(dq, m) /\ d \in Seq(Messages)
    BY <1>1, <1>2, <1>4, LongerAlone
  <2>2. \A s \in Seq(Messages) : s \o <<>> = s
    OBVIOUS
  <2> QED
    BY <1>1, <1>2, <1>6, <2>1, <2>2 DEF Cat
<1>8. Calm(t, ev)
  <2>1. /\ Sizes /\ SubsInv /\ Sizes' /\ SubsInv' /\ Onward /\ Table /\ Table' /\ Roster /\ Roster' /\ Requested'
    BY DEF Aside, IInv, DaemonInv, Stream
  <2>2. \A j \in 1..Len(subs) : Steady(j, ev)
    BY <1>1
  <2> QED
    BY <1>3, <1>4, <2>1, <2>2 DEF Calm
<1>9. PICK q : q = Tail(uq)
    OBVIOUS
<1>10. Good(t, d \o ev, q)'
    BY <1>3, <1>7, <1>8, <1>9, GoodStays
<1>11. d \o ev = d
    BY <1>7 DEF Cat
<1>12. Good(t, d, q)'
    BY <1>10, <1>11
<1>13. Good(t, d, Tail(uq))'
    BY <1>9, <1>12
<1> QED
    BY <1>4, <1>13 DEF Aside, Stream

\* The next page of the snapshot of the client.
LEMMA HistoryOwn ==
    ASSUME IInv, IInv', Stream, NEW c \in Conns, History(c), this' = this, this.conn = c
    PROVE  Stream'
<1>1. Reads(c, "history") /\ Aside(c) /\ \A j \in 1..Len(subs) : Steady(j, <<>>)
    BY HistoryAside DEF History
<1>2. PICK t, dq, uq : t = this /\ dq = down[c] /\ uq = up[c]
    OBVIOUS
<1>3. PICK i, n : i = Head(uq).sub /\ n = Head(uq).offset
    OBVIOUS
<1>4. Head(uq) \in Requests /\ Head(uq).method = "history" /\ SubsInv /\ Sizes /\ Roster
    BY <1>1, <1>2, ReadingIs
<1>5. PICK m \in Replies : Replied(c, m, <<>>) /\ (m \in Errors \/ m = Page(i, n, subs[i].base))
  <2>1. CASE \E m \in Errors : Replied(c, m, <<>>)
    BY <2>1 DEF Replies
  <2>2. CASE Attached(c, i) /\ Replied(c, Page(i, n, subs[i].base), <<>>)
    <3>1. i \in 1..Len(subs)
      BY <2>2 DEF Attached
    <3>2. i \in 1..MaxSubs /\ subs[i].base \in 0..MaxEvents
      <4>1. i \in 1..MaxSubs /\ subs[i].base \in Nat /\ subs[i].base <= log /\ log <= MaxEvents /\ log \in Nat
        BY <1>4, <3>1, SubIs
      <4> QED
        BY <4>1, Bounds
    <3>3. n \in Nat
      <4>1. \A x \in Requests : x.method = "history" => x.offset \in Nat
        BY DEF Requests
      <4> QED
        BY <1>3, <1>4, <4>1
    <3>4. Page(i, n, subs[i].base) \in Replies
      BY <3>2, <3>3, PageIs DEF Replies
    <3> QED
      BY <2>2, <3>4
  <2> QED
    BY <1>2, <1>3, <2>1, <2>2, HistoryReplied
<1>6. <<>> \in Seq(Events) /\ Recent(<<>>)'
    BY DEF Recent
<1>7. PICK d : d = Longer(dq, m, <<>>)
    OBVIOUS
<1>8. /\ dq \in Seq(Messages) /\ uq \in Seq(Requests) /\ uq # <<>>
      /\ Good(t, dq, uq) /\ Sound(t) /\ t.conn = c /\ c # 0 /\ Len(t.waiting) = Len(Talk(dq, uq))
      /\ Good(t, d, Tail(uq))' => Good(this, Coming(this.conn), Going(this.conn))'
    BY <1>1, <1>2, <1>5, <1>7, OwnQueues
<1>9. Head(uq) \notin Ends /\ Head(uq).method # "subscribe"
    BY <1>4, EndsAre
<1>10. CASE ~Joined(t)
  <2>1. /\ Sizes /\ SubsInv /\ Sizes' /\ SubsInv' /\ Onward /\ Table /\ Table' /\ Roster' /\ Requested'
    BY <1>1 DEF Aside, IInv, DaemonInv, Stream
  <2>2. ASSUME Head(uq) = [method |-> "subscribe", after |-> t.cursor]  PROVE FALSE
    BY <1>9, <2>2
  <2>3. Good(t, d, Tail(uq))'
    BY <1>6, <1>7, <1>8, <1>9, <1>10, <2>1, <2>2, ServedApart
  <2> QED
    BY <1>8, <2>1, <2>3 DEF Stream
<1>11. CASE Joined(t)
  <2>1. t.phase = "history" /\ Head(uq).sub = t.current /\ Head(uq).offset = Len(t.view)
    <3>1. Head(uq).method # "ack"
      BY <1>4
    <3>2. t.phase = "history" /\ Head(uq) = [method |-> "history", sub |-> t.current, offset |-> Len(t.view)]
      BY <1>8, <1>11, <3>1, JoinedHead
    <3> QED
      BY <3>2
  <2>2. HistoryMatched(t, m)
    BY <1>3, <1>5, <2>1 DEF HistoryMatched
  <2>3. ASSUME NEW w, Matched(t, w, Head(uq), dq)  PROVE Matched(t, w, m, dq)
    <3>1. ~AckMatched(t, w, Head(uq))
      <4>1. Head(uq) \notin Errors /\ Head(uq) # Success
        BY <1>4, NoAnswer
      <4>2. Head(uq) # [method |-> "ack", sub |-> t.current, cursor |-> w.cursor]
        BY <1>4
      <4> QED
        BY <4>1, <4>2 DEF AckMatched
    <3> QED
      BY <1>9, <2>1, <2>2, <2>3, <3>1 DEF Matched
  <2>4. Expected(t, m, dq, uq)
    BY <2>3 DEF Expected
  <2>5. Expected(this, m, down[c], up[c])
    BY <1>2, <2>4
  <2> QED
    BY <1>1, <1>5, <2>5, SwappedOwn
<1> QED
    BY <1>10, <1>11

\* A client that reads no page waits for acknowledgements.
LEMMA AllAcking ==
    ASSUME NEW t, Sound(t), Joined(t), t.phase # "history", NEW dq, NEW uq, Good(t, dq, uq), NEW k \in 1..Len(t.waiting)
    PROVE  /\ Acking(t, t.waiting[k]) /\ t.phase \in {"boundary", "drain", "idle"}
           /\ t.waiting[k].who \in {"est", "chain"}
           /\ Lined(t, k) /\ Waits(t, k) /\ Matched(t, t.waiting[k], Talk(dq, uq)[k], dq)
<1>1. Placed(t) /\ Conversing(t, dq, uq)
    BY DEF Good
<1>2. t.phase # "failed"
    BY <1>1 DEF Joined, Placed, Reading
<1>3. Lined(t, k) /\ Waits(t, k) /\ Matched(t, t.waiting[k], Talk(dq, uq)[k], dq)
    BY <1>1, <1>2 DEF Conversing
<1>4. PICK w : w = t.waiting[k]
    OBVIOUS
<1>5. w.who \in {"est", "chain"}
    BY <1>3, <1>4 DEF Lined
<1>6. CASE w.who = "chain"
    BY <1>1, <1>3, <1>4, <1>6 DEF Lined, Placed, Acking
<1>7. CASE Est(w)
  <2>1. t.phase \in Awaiting
    BY <1>3, <1>4, <1>7 DEF Lined
  <2>2. t.phase \in {"boundary", "drain"}
    BY <1>1, <2>1 DEF Joined, Reading, Awaiting, Placed
  <2> QED
    BY <1>3, <1>4, <1>5, <1>7, <2>2 DEF Acking
<1> QED
    BY <1>3, <1>4, <1>5, <1>6, <1>7 DEF Est

\* What is pending stays recent.
LEMMA PendingRecent ==
    ASSUME NEW p \in Seq(Messages), Recent(p), Len(subs) \in Nat, Len(subs') \in Nat, Len(subs) <= Len(subs')
    PROVE  Recent(p)'
<1>1. ASSUME NEW j \in 1..Len(p), p[j].kind = "event"  PROVE p[j].sub <= Len(subs')
  <2>1. p[j].sub <= Len(subs) /\ p[j] \in Events
    BY <1>1, Kinds DEF Recent, Messages
  <2>2. p[j].sub \in Nat
    BY <2>1, Bounds DEF Events
  <2> QED
    BY <2>1, <2>2
<1> QED
    BY <1>1 DEF Recent

\* When a newer cursor of a subscription is refused, no older one is left.
LEMMA RefusedGone ==
    ASSUME Sizes, SubsInv, Table, Roster, NEW ack, NEW i \in 1..Len(subs), subs[i].state = "active", Orderly(i, ack),
           NEW id, Issued(id), id \in CursorIds, id[1] = i, subs[i].ackPos < id[2],
           ~(HasCursor(id) /\ CursorOf(id).sub = i) \/ id = subs[i].boundary,
           NEW other, other = ack \/ (other[1] = i /\ other[2] < id[2])
    PROVE  Unknown(other)
<1> SUFFICES ASSUME HasCursor(other)  PROVE FALSE
    BY DEF Unknown
<1>1. id # subs[i].boundary
  <2>1. id # None
    BY DEF Issued
  <2>2. subs[i].boundary = None \/ subs[i].boundary[2] <= subs[i].ackPos
    BY DEF Roster, Enlisted
  <2>3. subs[i].ackPos \in Int /\ id[2] \in Int
    BY SubIs DEF Issued
  <2> QED
    BY <2>1, <2>2, <2>3
<1>2. PICK p : p = id[2]
    OBVIOUS
<1>3. subs[i].ackPos \in Int /\ p \in Int /\ log \in Nat /\ p <= log
    BY <1>2, SubIs DEF Issued, Sizes
<1>4. id = <<i, p>>
    BY <1>2 DEF Issued, CursorIds
<1>5. p \in (subs[i].ackPos + 1)..log
    BY <1>2, <1>3
<1>6. PICK a \in 1..Len(cursors) : cursors[a].id = other
    BY DEF HasCursor
<1>7. PICK k \in (a + 1)..Len(cursors) : cursors[k].id = id /\ cursors[k].sub = i
  <2>1. Ordered(cursors, i, ack, subs[i].ackPos, log)
    BY DEF Orderly
  <2>2. cursors[a].pos = cursors[a].id[2]
    BY DEF Table, Named
  <2>3. cursors[a].id = ack \/ (cursors[a].id[1] = i /\ cursors[a].pos < p)
    BY <1>2, <1>6, <2>2
  <2> QED
    BY <1>4, <1>5, <2>1, <2>3 DEF Ordered
<1>8. Len(cursors) \in Nat
    BY DEF Table
<1>9. k \in 1..Len(cursors)
    BY <1>6, <1>7, <1>8
<1>10. \A h \in 1..Len(cursors) : cursors[h].id = id => h = k
    BY <1>7, <1>8, <1>9 DEF Table, Distinct
<1>11. HasCursor(id) /\ CursorOf(id) = cursors[k]
    BY <1>7, <1>9, <1>10 DEF HasCursor, CursorOf
<1> QED
    BY <1>1, <1>7, <1>11

\* The acknowledgement of the client is refused.
LEMMA RefusedOwn ==
    ASSUME IInv, IInv', Stream, NEW c \in Conns, Reads(c, "ack"), this' = this, this.conn = c, Joined(this),
           NEW i, NEW id, i = Head(up[c]).sub, id = Head(up[c]).cursor, AckRefused(c, i, id)
    PROVE  Stream'
<1>1. Aside(c) /\ \A j \in 1..Len(subs) : Steady(j, <<>>)
    BY NothingAside DEF AckRefused
<1>2. PICK t, dq, uq : t = this /\ dq = down[c] /\ uq = up[c]
    OBVIOUS
<1>3. PICK m \in Errors : Replied(c, m, <<>>)
    BY DEF AckRefused
<1>4. PICK d : d = Longer(dq, m, <<>>)
    OBVIOUS
<1>5. /\ dq \in Seq(Messages) /\ uq \in Seq(Requests) /\ uq # <<>> /\ Head(uq) \in Requests /\ Head(uq).method = "ack"
      /\ Good(t, dq, uq) /\ Sound(t) /\ t.conn = c /\ c # 0 /\ Len(t.waiting) = Len(Talk(dq, uq))
    BY <1>2, <1>3, <1>4, OwnQueues
<1>6. Joined(t)
    BY <1>2
<1>7. /\ t.phase \in {"boundary", "drain", "idle"} /\ i = t.current /\ Issued(id) /\ id[1] = t.current
      /\ subs[t.current].ackPos < id[2] /\ (t.phase # "boundary" => t.bound)
  <2>1. Head(uq) # [method |-> "history", sub |-> t.current, offset |-> Len(t.view)]
    BY <1>5
  <2>2. /\ t.phase \in {"boundary", "drain", "idle"} /\ Head(uq).method = "ack" /\ Head(uq).sub = t.current
        /\ Issued(Head(uq).cursor) /\ Head(uq).cursor[1] = t.current
        /\ subs[t.current].ackPos < Head(uq).cursor[2]
        /\ t.phase # "boundary" => t.bound
    BY <1>5, <1>6, <2>1, JoinedHead
  <2> QED
    BY <1>2, <2>2
<1>8. t.bound => Unknown(t.ack) /\ \A p \in 0..(id[2] - 1) : Unknown(<<t.current, p>>)
  <2> HAVE t.bound
  <2>1. Following(t, dq)
    BY <1>5 DEF Good, Streaming
  <2>2. i \in 1..Len(subs) /\ subs[i].conn = c /\ subs[i].state = "active" /\ Orderly(i, t.ack)
    BY <1>5, <1>7, <2>1 DEF Following
  <2>3. ~(HasCursor(id) /\ CursorOf(id).sub = i) \/ id = subs[i].boundary
    BY <2>2 DEF AckRefused, Attached
  <2>4. Sizes /\ SubsInv /\ Roster /\ Table
    BY DEF Stream, IInv, DaemonInv
  <2>5. id \in CursorIds
    <3>1. \A x \in Requests : x.method = "ack" => x.cursor \in CursorIds
      BY DEF Requests
    <3> QED
      BY <1>2, <1>5, <3>1
  <2>6. Unknown(t.ack)
    <3>1. PICK ack : ack = t.ack
      OBVIOUS
    <3>2. Orderly(i, ack)
      BY <2>2, <3>1
    <3> QED
      BY <1>7, <2>2, <2>3, <2>4, <2>5, <3>1, <3>2, RefusedGone
  <2>7. ASSUME NEW p \in 0..(id[2] - 1)  PROVE Unknown(<<t.current, p>>)
    <3>1. PICK ack, other : ack = t.ack /\ other = <<t.current, p>>
      OBVIOUS
    <3>2. Orderly(i, ack)
      BY <2>2, <3>1
    <3>3. id[2] \in Nat
      BY <1>7 DEF Issued
    <3>4. other[1] = i /\ other[2] < id[2]
      BY <1>7, <3>1, <3>3
    <3>5. Unknown(other)
      BY <1>7, <2>2, <2>3, <2>4, <2>5, <3>2, <3>4, RefusedGone
    <3> QED
      BY <3>1, <3>5
  <2> QED
    BY <2>6, <2>7
<1>9. ASSUME NEW k \in 1..Len(t.waiting), Matched(t, t.waiting[k], Head(uq), dq)
      PROVE  Matched(t, t.waiting[k], m, dq)
  <2>1. Lined(t, k) /\ t.waiting[k].who \in {"est", "chain"}
    BY <1>5, <1>6, <1>7, AllAcking
  <2>2. t.waiting[k].who = "chain" => Lapsed(t, t.waiting[k])
    <3>1. t.waiting[k].cursor = id
      <4>1. Acking(t, t.waiting[k])
        BY <1>5, <1>6, <1>7, AllAcking
      <4>2. AckMatched(t, t.waiting[k], Head(uq))
        BY <1>9, <4>1 DEF Matched
      <4>3. Head(uq) \notin Errors /\ Head(uq) # Success
        BY <1>5, NoAnswer
      <4>4. Head(uq) = [method |-> "ack", sub |-> t.current, cursor |-> t.waiting[k].cursor]
        BY <4>2, <4>3 DEF AckMatched
      <4> QED
        BY <1>2, <4>4
    <3> QED
      BY <1>8, <2>1, <3>1 DEF Lined, Lapsed
  <2>3. AckMatched(t, t.waiting[k], m)
    BY <2>2 DEF AckMatched
  <2> QED
    BY <1>7, <2>1, <2>3 DEF Matched
<1>10. Expected(t, m, dq, uq)
    BY <1>9 DEF Expected
<1>11. Expected(this, m, down[c], up[c]) /\ m \in Replies
    BY <1>2, <1>10 DEF Replies
<1> QED
    BY <1>1, <1>3, <1>11, SwappedOwn

\* The snapshot of subscription i is acknowledged, or one of its events.
Opened(t, i, b, n) ==
    /\ i \in 1..Len(subs') /\ subs'[i].conn = t.conn /\ subs'[i].state = "active"
    /\ subs'[i].base = b /\ subs'[i].seq = n /\ subs'[i].ackPos = b
    /\ \A ack : (ack = None \/ Issued(ack)) => Ordered(cursors', i, ack, b, log')

Progress(i, id) ==
    subs[i].ackPos < id[2] =>
       /\ subs'[i].ackPos = id[2]
       /\ \A ack : (ack = None \/ Issued(ack)) /\ Ordered(cursors, i, ack, subs[i].ackPos, log)
                   => Ordered(cursors', i, ack, id[2], log')

LEMMA SuccessReplies == Success \in Replies
BY DEF Replies, Success

\* The snapshot of the client is acknowledged, and its tail follows.
LEMMA ServedStart ==
    ASSUME Sizes, Sizes', SubsInv, SubsInv', Roster, Onward, Table, Table', NEW t, Sound(t), Joined(t),
           NEW dq \in Seq(Messages), NEW uq \in Seq(Requests), uq # <<>>, Head(uq).method = "ack",
           Good(t, dq, uq), Len(t.waiting) = Len(Talk(dq, uq)),
           NEW i, i = t.current, subs[i].state = "loading", NEW b \in Nat, NEW n \in Nat, subs[i].base = b,
           b + n <= MaxEvents, Opened(t, i, b, n),
           NEW ev \in Seq(Events), ev = Sent(i, b, 0, n), Recent(ev)', NEW d, d = Longer(dq, Success, ev)
    PROVE  Good(t, d, Tail(uq))'
<1>1. Placed(t) /\ Conversing(t, dq, uq) /\ Streaming(t, dq) /\ AckSafe(t) /\ Showing(t)
    BY DEF Good
<1>2. t.phase = "boundary" /\ ~t.bound
  <2>1. ~t.bound
    <3>1. t.bound => subs[i].state = "active"
      BY <1>1 DEF Streaming, Following
    <3> QED
      BY <3>1
  <2>2. Head(uq) # [method |-> "history", sub |-> t.current, offset |-> Len(t.view)]
    OBVIOUS
  <2> QED
    BY <2>1, <2>2, JoinedHead
<1>3. t.seq = 0 /\ Begun(t, dq, i) /\ Len(t.view) = b
    BY <1>1, <1>2 DEF Streaming, Reading, Reads1
<1>4. i \in 1..Len(subs) /\ i \in 1..MaxSubs /\ subs[i].seq = 0 /\ Of(t.pending \o dq, i) = Sent(i, b, 0, 0)
  <2>1. i \in 1..Len(subs) /\ Of(t.pending \o dq, i) = Sent(i, b, 0, subs[i].seq)
    BY <1>3 DEF Begun
  <2>2. subs[i].seq = 0
    BY <2>1 DEF Roster, Enlisted
  <2> QED
    BY <2>1, <2>2, SubIs
<1>5. /\ AckSafe(t)' /\ Showing(t)' /\ Len(subs) \in Nat /\ Len(subs') \in Nat /\ Len(subs) <= Len(subs')
      /\ \A id : Issued(id) => Issued(id)'
    BY <1>1, SafeStays
<1>6. Success \in Replies /\ t.pending \in Seq(Messages) /\ Recent(t.pending) /\ Recent(dq)
  <2>1. Success \in Replies
    BY SuccessReplies
  <2>2. t.pending \in Seq(Messages)
    BY ObjectIs
  <2>3. Recent(t.pending) /\ Recent(dq)
    BY <1>1 DEF Streaming
  <2> QED
    BY <2>1, <2>2, <2>3
<1>7. Of(t.pending \o d, i) = Sent(i, b, 0, n)
  <2>1. Of(Cat(t.pending, d), i) = Cat(Of(Cat(t.pending, dq), i), ev)
    BY <1>4, <1>6, OfBehind
  <2>2. Of(Cat(t.pending, dq), i) = <<>>
    <3>1. b + 0 <= MaxEvents /\ 0 \in Nat
      BY Bounds
    <3>2. Sent(i, b, 0, 0) = <<>>
      BY <1>4, <3>1, SentNone
    <3> QED
      BY <1>4, <3>2 DEF Cat
  <2>3. Cat(<<>>, ev) = ev
    BY DEF Cat
  <2>4. t.pending \o d = Cat(t.pending, d)
    BY DEF Cat
  <2> QED
    BY <2>1, <2>2, <2>3, <2>4
<1>8. Begun(t, d, i)'
  <2>1. t.ack = None \/ Issued(t.ack)
    BY <1>1 DEF AckSafe
  <2>2. Orderly(i, t.ack)'
    BY <2>1 DEF Orderly, Opened
  <2> QED
    BY <1>7, <2>2 DEF Begun, Opened
<1>9. Streaming(t, d)'
  <2>1. Recent(d)'
    BY <1>5, <1>6, RecentGrows
  <2>2. Recent(t.pending)'
    BY <1>5, <1>6, PendingRecent
  <2>3. Reads1(t)'
    BY <1>2, <1>3 DEF Reads1, Opened
  <2> QED
    BY <1>2, <1>3, <1>8, <2>1, <2>2, <2>3 DEF Streaming
<1>10. Conversing(t, d, Tail(uq))'
  <2>1. PICK j \in 1..Len(Talk(dq, uq)) : Talk(d, Tail(uq))[j] = Success
    <3>1. \E j \in 1..Len(Talk(dq, uq)) : AnswersAt(dq, uq, Success, d, j)
      BY <1>6, TalkServed
    <3> QED
      BY <3>1 DEF AnswersAt
  <2>2. \A k \in 1..Len(t.waiting) : Est(t.waiting[k]) /\ Lined(t, k) /\ Waits(t, k)
    <3> TAKE k \in 1..Len(t.waiting)
    <3>1. Lined(t, k) /\ Waits(t, k) /\ t.waiting[k].who \in {"est", "chain"}
      BY <1>2, AllAcking
    <3> QED
      BY <1>2, <3>1 DEF Lined, Est
  <2>3. \A k \in 1..Len(t.waiting) : k = j
    <3> TAKE k \in 1..Len(t.waiting)
    <3>1. j \in 1..Len(t.waiting) /\ Len(t.waiting) \in Nat
      BY <2>1, ObjectIs
    <3>2. CASE k < j
      <4>1. j \in (k + 1)..Len(t.waiting)
        BY <3>1, <3>2
      <4> QED
        BY <2>2, <4>1 DEF Lined
    <3>3. CASE j < k
      <4>1. k \in (j + 1)..Len(t.waiting)
        BY <3>1, <3>3
      <4> QED
        BY <2>2, <3>1, <4>1 DEF Lined
    <3> QED
      BY <3>1, <3>2, <3>3
  <2> SUFFICES ASSUME NEW k \in 1..Len(t.waiting)
               PROVE  Lined(t, k)' /\ Waits(t, k)' /\ Matched(t, t.waiting[k], Talk(d, Tail(uq))[k], d)'
    BY DEF Conversing, Talk
  <2>4. Lined(t, k)'
    BY <2>2 DEF Lined, Est, Late, Joined, Reading, Awaiting
  <2>5. PICK w \in Waiters : w = t.waiting[k]
    BY ObjectIs
  <2>6. Est(w) /\ Acking(t, w)
    BY <1>2, <2>2, <2>5 DEF Acking
  <2>7. /\ Issued(w.cursor) /\ w.cursor[1] = i /\ w.cursor[2] <= b + 0 /\ w.cursor[2] <= Len(t.view)
        /\ \A h \in 1..(k - 1) : Acking(t, t.waiting[h]) => t.waiting[h].cursor[2] < w.cursor[2]
    BY <1>3, <2>2, <2>5, <2>6 DEF Waits
  <2>8. Waits(t, k)'
    <3>1. Issued(w.cursor)'
      BY <1>5, <2>7
    <3> QED
      BY <1>3, <2>5, <2>7, <3>1 DEF Waits, Acking, Est, Opened
  <2>9. AckMatched(t, w, Success)'
    BY <2>7 DEF AckMatched, Opened
  <2>10. Talk(d, Tail(uq))[k] = Success
    BY <2>1, <2>3
  <2>11. Matched(t, w, Success, d)'
    BY <1>2, <2>6, <2>9 DEF Matched, Est, Acking
  <2> QED
    BY <2>4, <2>5, <2>8, <2>10, <2>11
<1>11. Placed(t)'
    BY <1>1 DEF Placed
<1> QED
    BY <1>5, <1>9, <1>10, <1>11 DEF Good

\* An event that the view shows is acknowledged.
LEMMA ServedCount ==
    ASSUME Sizes, Sizes', SubsInv, SubsInv', Roster, Onward, Table, Table', NEW t, Sound(t), Joined(t),
           NEW dq \in Seq(Messages), NEW uq \in Seq(Requests), uq # <<>>, Head(uq) \in Requests, Head(uq).method = "ack",
           Good(t, dq, uq), Len(t.waiting) = Len(Talk(dq, uq)),
           NEW i, i = t.current, subs[i].state = "active", i \in 1..Len(subs), i \in 1..Len(subs'),
           subs'[i].conn = t.conn, subs'[i].state = "active", subs'[i].base = subs[i].base, subs'[i].seq = subs[i].seq,
           NEW id, id = Head(uq).cursor, Progress(i, id),
           NEW d, d = Longer(dq, Success, <<>>)
    PROVE  Good(t, d, Tail(uq))'
<1>1. Placed(t) /\ Conversing(t, dq, uq) /\ Streaming(t, dq) /\ AckSafe(t) /\ Showing(t)
    BY DEF Good
<1>2. /\ t.phase \in {"boundary", "drain", "idle"} /\ subs[i].ackPos < id[2] /\ id[2] <= subs[i].base + t.seq
      /\ t.phase # "boundary" => t.bound
  <2>1. Head(uq) # [method |-> "history", sub |-> t.current, offset |-> Len(t.view)]
    OBVIOUS
  <2> QED
    BY <2>1, JoinedHead
<1>3. subs[i].base \in Nat /\ subs[i].ackPos \in Int /\ subs[i].ackPos >= subs[i].base /\ id[2] \in Int
  <2>1. subs[i].ackPos >= subs[i].base
    BY DEF Roster, Enlisted
  <2>2. subs[i].base \in Nat /\ subs[i].ackPos \in Int
    BY SubIs
  <2>3. Issued(id)
    <3>1. Head(uq) # [method |-> "history", sub |-> t.current, offset |-> Len(t.view)]
      OBVIOUS
    <3> QED
      BY <3>1, JoinedHead
  <2> QED
    BY <2>1, <2>2, <2>3 DEF Issued
<1>4. t.bound
  <2> SUFFICES ASSUME ~t.bound  PROVE FALSE
    OBVIOUS
  <2>1. t.phase = "boundary"
    BY <1>2
  <2>2. t.seq = 0 /\ subs[i].ackPos <= subs[i].base
    BY <1>1, <2>1 DEF Streaming, Reading, Begun
  <2> QED
    BY <1>2, <1>3, <2>2
<1>5. /\ AckSafe(t)' /\ Showing(t)' /\ Len(subs) \in Nat /\ Len(subs') \in Nat /\ Len(subs) <= Len(subs')
      /\ \A x : Issued(x) => Issued(x)'
    BY <1>1, SafeStays
<1>6. Success \in Replies /\ t.pending \in Seq(Messages) /\ Recent(t.pending) /\ Recent(dq)
  <2>1. Success \in Replies
    BY SuccessReplies
  <2>2. t.pending \in Seq(Messages)
    BY ObjectIs
  <2>3. Recent(t.pending) /\ Recent(dq)
    BY <1>1 DEF Streaming
  <2> QED
    BY <2>1, <2>2, <2>3
<1>7. Following(t, dq) /\ t.phase \in {"drain", "idle"}
    BY <1>1, <1>4 DEF Streaming, Placed
<1>8. d = Append(dq, Success) /\ d \in Seq(Messages) /\ Of(d, i) = Of(dq, i) /\ <<>> \in Seq(Events) /\ Recent(<<>>)'
  <2>1. d = Append(dq, Success) /\ d \in Seq(Messages)
    BY <1>6, LongerAlone
  <2>2. PICK m \in Replies : m = Success
    BY <1>6
  <2>3. Of(Append(dq, m), i) = Of(dq, i) /\ Of(t.pending \o Append(dq, m), i) = Of(t.pending \o dq, i)
    BY <1>6, OfAnswer
  <2>4. <<>> \in Seq(Events) /\ Recent(<<>>)'
    BY DEF Recent
  <2> QED
    BY <2>1, <2>2, <2>3, <2>4
<1>9. Following(t, d)'
  <2>1. Tracked(t, dq)
    BY <1>7 DEF Following
  <2>2. Tracked(t, d)'
    BY <1>8, <2>1 DEF Tracked
  <2>3. Orderly(i, t.ack)'
    <3>1. Ordered(cursors, i, t.ack, subs[i].ackPos, log)
      BY <1>7 DEF Following, Orderly
    <3>2. t.ack = None \/ Issued(t.ack)
      BY <1>1 DEF AckSafe
    <3> QED
      BY <1>2, <3>1, <3>2 DEF Orderly, Progress
  <2> QED
    BY <1>2, <1>7, <2>2, <2>3 DEF Following, Progress
<1>10. Streaming(t, d)'
  <2>1. Recent(d)'
    BY <1>5, <1>6, <1>8, RecentGrows
  <2>2. Recent(t.pending)'
    BY <1>5, <1>6, PendingRecent
  <2> QED
    BY <1>7, <1>9, <2>1, <2>2 DEF Streaming, Reading
<1>11. Conversing(t, d, Tail(uq))'
  <2>1. PICK j \in 1..Len(Talk(dq, uq)) :
              /\ Talk(dq, uq)[j] = Head(uq)
              /\ Talk(d, Tail(uq))[j] = Success
              /\ \A k \in 1..Len(Talk(dq, uq)) :
                    /\ k # j => Talk(d, Tail(uq))[k] = Talk(dq, uq)[k]
                    /\ k < j => Talk(dq, uq)[k] \in Replies
                    /\ j <= k => Talk(dq, uq)[k] \in Requests
    <3>1. \E j \in 1..Len(Talk(dq, uq)) : AnswersAt(dq, uq, Success, d, j)
      BY <1>6, <1>8, TalkServed
    <3> QED
      BY <3>1 DEF AnswersAt
  <2>2. j \in 1..Len(t.waiting) /\ t.phase # "history"
    BY <1>7, <2>1
  <2>3. PICK v : v = t.waiting[j]
    OBVIOUS
  <2>4. Acking(t, v) /\ v.cursor = id
    <3>1. Acking(t, v) /\ Matched(t, v, Head(uq), dq)
      BY <2>1, <2>2, <2>3, AllAcking
    <3>2. AckMatched(t, v, Head(uq))
      BY <3>1 DEF Matched
    <3>3. Head(uq) \notin Errors /\ Head(uq) # Success
      BY NoAnswer
    <3>4. Head(uq) = [method |-> "ack", sub |-> i, cursor |-> v.cursor]
      BY <3>2, <3>3 DEF AckMatched
    <3> QED
      BY <3>1, <3>4
  <2> SUFFICES ASSUME NEW k \in 1..Len(t.waiting)
               PROVE  Lined(t, k)' /\ Waits(t, k)' /\ Matched(t, t.waiting[k], Talk(d, Tail(uq))[k], d)'
    BY DEF Conversing, Talk
  <2>5. PICK w \in Waiters : w = t.waiting[k]
    BY ObjectIs
  <2>6. Acking(t, w) /\ w.who \in {"est", "chain"} /\ Lined(t, k) /\ Waits(t, k) /\ Matched(t, w, Talk(dq, uq)[k], dq)
    BY <2>2, <2>5, AllAcking
  <2>7. Lined(t, k)'
    BY <2>6 DEF Lined, Est, Late, Joined, Reading, Awaiting
  <2>8. /\ Issued(w.cursor) /\ w.cursor[1] = i /\ w.cursor[2] <= subs[i].base + t.seq /\ w.cursor[2] <= Len(t.view)
        /\ \A h \in 1..(k - 1) : Acking(t, t.waiting[h]) => t.waiting[h].cursor[2] < w.cursor[2]
    BY <2>5, <2>6 DEF Waits
  <2>9. Waits(t, k)'
    <3>1. Issued(w.cursor)'
      BY <1>5, <2>8
    <3> QED
      BY <2>5, <2>8, <3>1 DEF Waits, Acking, Est
  <2>10. PICK x, y : x = Talk(dq, uq)[k] /\ y = Talk(d, Tail(uq))[k]
    OBVIOUS
  <2>11. AckMatched(t, w, x)
    BY <2>6, <2>10 DEF Matched
  <2>12. w.cursor[2] \in Int /\ j \in Nat /\ k \in Nat
    BY <2>1, <2>8, ObjectIs DEF Issued
  <2>13. AckMatched(t, w, y)'
    <3>1. CASE k = j
      <4>1. y = Success /\ w.cursor = id
        BY <2>1, <2>3, <2>4, <2>5, <2>10, <3>1
      <4> QED
        BY <1>2, <1>3, <4>1 DEF AckMatched, Progress
    <3>2. CASE k < j
      <4>1. y = x /\ x \in Replies
        BY <2>1, <2>2, <2>10, <3>2
      <4>2. \A q \in Requests : q \notin Replies
        BY NoAnswer
      <4>3. x # [method |-> "ack", sub |-> i, cursor |-> w.cursor]
        <5>1. "kind" \in DOMAIN x
          BY <4>1 DEF Replies, Errors, Pages, Success
        <5> QED
          BY <5>1
      <4>4. CASE x = Success
        <5>1. w.cursor[2] <= subs[i].ackPos
          <6>1. x \notin Errors
            <7>1. Success.kind = "success" /\ \A e \in Errors : e.kind = "error"
              BY DEF Success, Errors
            <7> QED
              BY <4>4, <7>1
          <6> QED
            BY <2>11, <4>3, <6>1 DEF AckMatched
        <5>2. w.cursor[2] <= id[2]
          <6>1. \A e, f, g \in Int : e <= f /\ f < g => e <= g
            OBVIOUS
          <6>2. w.cursor[2] \in Int /\ subs[i].ackPos \in Int /\ id[2] \in Int
            BY <1>3, <2>12
          <6>3. subs[i].ackPos < id[2]
            BY <1>2
          <6> QED
            BY <5>1, <6>1, <6>2, <6>3
        <5>3. subs'[i].ackPos = id[2]
          BY <1>2 DEF Progress
        <5> QED
          BY <4>1, <4>4, <5>2, <5>3 DEF AckMatched
      <4>5. CASE x # Success
        <5>1. x \in Errors /\ (w.who = "chain" => Lapsed(t, w))
          BY <2>11, <4>3, <4>5 DEF AckMatched
        <5>2. Lapsed(t, w) => Lapsed(t, w)'
          <6>1. t.ack = None \/ Issued(t.ack)
            BY <1>1 DEF AckSafe
          <6>2. log \in Nat /\ log' \in Nat
            BY Bounds DEF Sizes
          <6>3. t.current \in 1..Len(subs) /\ subs[t.current].state = "active"
            OBVIOUS
          <6> QED
            BY <1>5, <2>8, <6>1, <6>2, <6>3, LapsedStays
        <5> QED
          BY <4>1, <5>1, <5>2 DEF AckMatched
      <4> QED
        BY <4>4, <4>5
    <3>3. CASE j < k
      <4>1. y = x /\ x \in Requests
        BY <2>1, <2>2, <2>10, <3>3
      <4>2. x \notin Errors /\ x # Success
        BY <4>1, NoAnswer
      <4>3. x = [method |-> "ack", sub |-> i, cursor |-> w.cursor]
        BY <2>11, <4>2 DEF AckMatched
      <4>4. j \in 1..(k - 1)
        BY <2>12, <3>3, <2>1
      <4>5. id[2] < w.cursor[2]
        BY <2>3, <2>4, <2>8, <4>4
      <4> QED
        BY <1>2, <4>1, <4>3, <4>5 DEF AckMatched, Progress
    <3> QED
      BY <2>12, <3>1, <3>2, <3>3
  <2>14. Matched(t, w, y, d)'
    BY <1>7, <2>6, <2>13 DEF Matched, Est, Acking
  <2> QED
    BY <2>5, <2>7, <2>9, <2>10, <2>14
<1>12. Placed(t)'
    BY <1>1 DEF Placed
<1> QED
    BY <1>5, <1>10, <1>11, <1>12 DEF Good

\* The acknowledgement of the client, while it follows a subscription.
LEMMA JoinedAck ==
    ASSUME IInv, IInv', Stream, NEW c \in Conns, Reads(c, "ack"), Aside(c), this' = this, this.conn = c, Joined(this),
           NEW i, NEW id, i = Head(up[c]).sub, id = Head(up[c]).cursor,
           (\E b, n \in Nat : StartedAt(c, i, b, n)) \/ Counted(c, i, id)
    PROVE  Stream'
<1>1. PICK t, dq, uq : t = this /\ dq = down[c] /\ uq = up[c]
    OBVIOUS
<1>2. /\ Sizes /\ SubsInv /\ Sizes' /\ SubsInv' /\ Onward /\ Table /\ Table' /\ Roster /\ Roster' /\ Requested'
      /\ log' = log
    BY DEF Aside, IInv, DaemonInv, Stream, Reads
<1>3. ASSUME NEW ev, NEW m, Replied(c, m, ev), NEW d, d = Longer(dq, m, ev)
      PROVE  /\ dq \in Seq(Messages) /\ uq \in Seq(Requests) /\ uq # <<>> /\ Head(uq) \in Requests
             /\ Head(uq).method = "ack"
             /\ Good(t, dq, uq) /\ Sound(t) /\ t.conn = c /\ c # 0 /\ Len(t.waiting) = Len(Talk(dq, uq))
             /\ Good(t, d, Tail(uq))' => Good(this, Coming(this.conn), Going(this.conn))'
    BY <1>1, <1>3, OwnQueues
<1>4. Joined(t)
    BY <1>1
<1>5. ASSUME Head(uq).method = "ack", dq \in Seq(Messages), uq \in Seq(Requests), uq # <<>>, Good(t, dq, uq), Sound(t),
             Len(t.waiting) = Len(Talk(dq, uq))
      PROVE  i = t.current
  <2>1. Head(uq) # [method |-> "history", sub |-> t.current, offset |-> Len(t.view)]
    BY <1>5
  <2>2. Head(uq).sub = t.current
    BY <1>4, <1>5, <2>1, JoinedHead
  <2> QED
    BY <1>1, <2>2
<1>6. ASSUME NEW b \in Nat, NEW n \in Nat, StartedAt(c, i, b, n)  PROVE Stream'
  <2>1. PICK ev : ev = Deliveries(i, 0, Span(b + 1, b + n))
    OBVIOUS
  <2>2. PICK d : d = Longer(dq, Success, ev)
    OBVIOUS
  <2>3. Replied(c, Success, ev)
    BY <1>6, <2>1 DEF StartedAt
  <2>4. /\ dq \in Seq(Messages) /\ uq \in Seq(Requests) /\ uq # <<>> /\ Head(uq) \in Requests
        /\ Head(uq).method = "ack"
        /\ Good(t, dq, uq) /\ Sound(t) /\ t.conn = c /\ c # 0 /\ Len(t.waiting) = Len(Talk(dq, uq))
        /\ Good(t, d, Tail(uq))' => Good(this, Coming(this.conn), Going(this.conn))'
    BY <1>3, <2>2, <2>3
  <2>5. /\ i \in 1..Len(subs) /\ i \in 1..Len(subs') /\ subs[i].state = "loading" /\ subs[i].base = b /\ b + n = log
        /\ i \in 1..MaxSubs /\ b + n <= MaxEvents /\ i <= Len(subs')
    <3>1. /\ i \in 1..Len(subs) /\ subs[i].state = "loading" /\ subs[i].base = b /\ b + n = log
          /\ Len(subs') = Len(subs)
      BY <1>6 DEF StartedAt, Attached
    <3>2. i \in 1..MaxSubs /\ log <= MaxEvents
      BY <1>2, <3>1, SubIs
    <3> QED
      BY <3>1, <3>2
  <2>6. Opened(t, i, b, n)
    BY <1>2, <1>6, <2>4, <2>5 DEF StartedAt, Opened
  <2>7. ev = Sent(i, b, 0, n)
    BY <2>1, <2>5, DeliveriesSent
  <2>8. ev \in Seq(Events) /\ Recent(ev)'
    BY <2>5, <2>7, RecentSent
  <2>9. i = t.current
    BY <1>5, <2>4
  <2>10. Good(t, d, Tail(uq))'
    BY <1>2, <1>4, <2>2, <2>4, <2>5, <2>6, <2>7, <2>8, <2>9, ServedStart
  <2> QED
    BY <1>2, <2>4, <2>10 DEF Stream
<1>7. ASSUME Counted(c, i, id)  PROVE Stream'
  <2>1. Replied(c, Success, <<>>)
    BY <1>7 DEF Counted
  <2>2. PICK d : d = Longer(dq, Success, <<>>)
    OBVIOUS
  <2>3. /\ dq \in Seq(Messages) /\ uq \in Seq(Requests) /\ uq # <<>> /\ Head(uq) \in Requests
        /\ Head(uq).method = "ack"
        /\ Good(t, dq, uq) /\ Sound(t) /\ t.conn = c /\ c # 0 /\ Len(t.waiting) = Len(Talk(dq, uq))
        /\ Good(t, d, Tail(uq))' => Good(this, Coming(this.conn), Going(this.conn))'
    BY <1>3, <2>1, <2>2
  <2>4. i = t.current
    BY <1>5, <2>3
  <2>5. /\ i \in 1..Len(subs) /\ i \in 1..Len(subs') /\ subs[i].state = "active"
        /\ subs'[i].conn = t.conn /\ subs'[i].state = "active" /\ subs'[i].base = subs[i].base
        /\ subs'[i].seq = subs[i].seq
    BY <1>7, <2>3 DEF Counted, Attached
  <2>6. Progress(i, id)
    BY <1>2, <1>7 DEF Counted, Progress
  <2>7. id = Head(uq).cursor
    BY <1>1
  <2>8. Good(t, d, Tail(uq))'
    BY <1>2, <1>4, <2>2, <2>3, <2>4, <2>5, <2>6, <2>7, ServedCount
  <2> QED
    BY <1>2, <2>3, <2>8 DEF Stream
<1> QED
    BY <1>6, <1>7

LEMMA AckOwn ==
    ASSUME IInv, IInv', Stream, NEW c \in Conns, Acknowledge(c), this' = this, this.conn = c
    PROVE  Stream'
<1>1. PICK i, id : i = Head(up[c]).sub /\ id = Head(up[c]).cursor
    OBVIOUS
<1>2. Reads(c, "ack")
    BY DEF Acknowledge
<1>3. Aside(c) /\ (AckRefused(c, i, id) \/ (\E b, n \in Nat : StartedAt(c, i, b, n)) \/ Counted(c, i, id))
    BY <1>1, AcknowledgeServed
<1>4. CASE Joined(this)
    BY <1>1, <1>2, <1>3, <1>4, RefusedOwn, JoinedAck
<1>5. CASE ~Joined(this)
  <2>1. PICK method : method = "ack"
    OBVIOUS
  <2>2. Reads(c, method) /\ method # "subscribe"
    BY <1>2, <2>1
  <2>3. \E m \in {Success} \cup Errors : \E ev \in Seq(Events) : Recent(ev)' /\ Replied(c, m, ev)
    <3>1. <<>> \in Seq(Events) /\ Recent(<<>>)'
      BY DEF Recent
    <3>2. CASE AckRefused(c, i, id)
      BY <3>1, <3>2 DEF AckRefused
    <3>3. CASE Counted(c, i, id)
      BY <3>1, <3>3 DEF Counted
    <3>4. ASSUME NEW b \in Nat, NEW n \in Nat, StartedAt(c, i, b, n)
          PROVE  \E ev \in Seq(Events) : Recent(ev)' /\ Replied(c, Success, ev)
      <4>1. PICK ev : ev = Deliveries(i, 0, Span(b + 1, b + n))
        OBVIOUS
      <4>2. /\ i \in 1..Len(subs) /\ subs[i].state = "loading" /\ subs[i].base = b /\ b + n = log
            /\ Len(subs') = Len(subs) /\ Replied(c, Success, ev)
        BY <3>4, <4>1 DEF StartedAt, Attached
      <4>3. Sizes /\ SubsInv /\ Roster
        BY DEF IInv, DaemonInv, Stream
      <4>4. i \in 1..MaxSubs /\ b + n <= MaxEvents /\ i <= Len(subs')
        <5>1. i \in 1..MaxSubs /\ log <= MaxEvents
          BY <4>2, <4>3, SubIs
        <5> QED
          BY <4>2, <5>1
      <4>5. ev = Sent(i, b, 0, n)
        BY <4>1, <4>4, DeliveriesSent
      <4>6. ev \in Seq(Events) /\ Recent(ev)'
        BY <4>4, <4>5, RecentSent
      <4> QED
        BY <4>2, <4>6
    <3> QED
      BY <1>3, <3>2, <3>3, <3>4
  <2>4. PICK m \in {Success} \cup Errors, ev \in Seq(Events) : Recent(ev)' /\ Replied(c, m, ev)
    BY <2>3
  <2> QED
    BY <1>3, <1>5, <2>2, <2>4, PlainOwn
<1> QED
    BY <1>4, <1>5

\* A request that the daemon answers.
LEMMA ServeStream ==
    ASSUME IInv, IInv', Stream, NEW c \in Conns, Serve(c), this' = this
    PROVE  Stream'
<1>1. CASE c # this.conn
    BY <1>1, ServeOther
<1>2. CASE this.conn = c
    BY <1>2, SnapshotOwn, AfterOwn, HistoryOwn, AckOwn, UnsubscribeOwn DEF Serve
<1> QED
    BY <1>1, <1>2

-----------------------------------------------------------------------------
(* What the client does leaves the daemon alone.                           *)

LEMMA KeptAll ==
    ASSUME DaemonSame
    PROVE  log' = log /\ subs' = subs /\ cursors' = cursors /\ instance' = instance
BY DEF DaemonSame

LEMMA IssuedSame ==
    ASSUME DaemonSame, NEW id
    PROVE  /\ Issued(id)' <=> Issued(id)
           /\ Unknown(id)' <=> Unknown(id)
BY KeptAll DEF Issued, Unknown, HasCursor

LEMMA BegunSame ==
    ASSUME DaemonSame, NEW t, NEW dq, NEW i
    PROVE  /\ Begun(t, dq, i)' <=> Begun(t, dq, i)
           /\ Orderly(i, t.ack)' <=> Orderly(i, t.ack)
<1>1. Orderly(i, t.ack)' <=> Orderly(i, t.ack)
    BY KeptAll DEF Orderly, Ordered
<1> QED
    BY <1>1, KeptAll DEF Begun

LEMMA MatchedSame ==
    ASSUME DaemonSame, NEW t, NEW w, NEW m, NEW dq
    PROVE  Matched(t, w, m, dq) => Matched(t, w, m, dq)'
<1>1. AckMatched(t, w, m) => AckMatched(t, w, m)'
  <2>1. Lapsed(t, w) => Lapsed(t, w)'
    BY IssuedSame DEF Lapsed
  <2> QED
    BY <2>1, KeptAll DEF AckMatched
<1>2. SubscribeMatched(t, m, dq) => SubscribeMatched(t, m, dq)'
  <2>1. Begun(t, dq, m.sub)' <=> Begun(t, dq, m.sub)
    BY BegunSame
  <2> QED
    BY <2>1, KeptAll DEF SubscribeMatched
<1>3. HistoryMatched(t, m) => HistoryMatched(t, m)'
    BY KeptAll DEF HistoryMatched
<1> QED
    BY <1>1, <1>2, <1>3 DEF Matched, Acking, Est, Ends

LEMMA ConversingSame ==
    ASSUME DaemonSame, NEW t, NEW dq, NEW uq, Conversing(t, dq, uq)
    PROVE  Conversing(t, dq, uq)'
<1> SUFFICES ASSUME t.phase # "failed", NEW k \in 1..Len(t.waiting)
             PROVE  Lined(t, k)' /\ Waits(t, k)' /\ Matched(t, t.waiting[k], Talk(dq, uq)[k], dq)'
    BY DEF Conversing, Talk
<1>1. PICK w, m : w = t.waiting[k] /\ m = Talk(dq, uq)[k]
    OBVIOUS
<1>2. Lined(t, k) /\ Waits(t, k) /\ Matched(t, w, m, dq)
    BY <1>1 DEF Conversing
<1>3. Lined(t, k)'
    BY <1>2 DEF Lined, Est, Late, Joined, Reading, Awaiting
<1>4. Waits(t, k)'
  <2>1. \A id : Issued(id) => Issued(id)'
    BY IssuedSame
  <2> QED
    BY <1>2, <2>1, KeptAll DEF Waits, Acking, Est
<1>5. Matched(t, w, m, dq)'
    BY <1>2, MatchedSame
<1> QED
    BY <1>1, <1>3, <1>4, <1>5

LEMMA StreamingSame ==
    ASSUME DaemonSame, NEW t, NEW dq, Streaming(t, dq)
    PROVE  Streaming(t, dq)'
<1>1. Recent(t.pending)' /\ Recent(dq)'
    BY KeptAll DEF Streaming, Recent
<1>2. ASSUME t.phase \in Reading
      PROVE  t.seq = 0 /\ Begun(t, dq, t.current)' /\ Reads1(t)'
  <2>1. t.seq = 0 /\ Begun(t, dq, t.current) /\ Reads1(t)
    BY <1>2 DEF Streaming
  <2>2. Begun(t, dq, t.current)'
    BY <2>1, BegunSame
  <2>3. Reads1(t)'
    BY <2>1, KeptAll DEF Reads1
  <2> QED
    BY <2>1, <2>2, <2>3
<1>3. ASSUME t.bound  PROVE Following(t, dq)'
  <2>1. Following(t, dq)
    BY <1>3 DEF Streaming
  <2>2. Orderly(t.current, t.ack)'
    BY <2>1, BegunSame DEF Following
  <2>3. Tracked(t, dq)'
    BY <2>1, KeptAll DEF Following, Tracked
  <2> QED
    BY <2>1, <2>2, <2>3, KeptAll DEF Following
<1> QED
    BY <1>1, <1>2, <1>3 DEF Streaming, Reading

LEMMA GoodSame ==
    ASSUME DaemonSame, NEW t, NEW dq, NEW uq, Good(t, dq, uq)
    PROVE  Good(t, dq, uq)'
<1>1. Placed(t) /\ Conversing(t, dq, uq) /\ Streaming(t, dq) /\ AckSafe(t) /\ Showing(t)
    BY DEF Good
<1>2. Placed(t)'
    BY <1>1 DEF Placed
<1>3. AckSafe(t)'
  <2>1. (Issued(t.ack) <=> Issued(t.ack)') /\ (Unknown(t.ack) <=> Unknown(t.ack)')
    BY IssuedSame
  <2> QED
    BY <1>1, <2>1 DEF AckSafe
<1>4. Showing(t)'
    BY <1>1, KeptAll DEF Showing
<1> QED
    BY <1>1, <1>2, <1>3, <1>4, ConversingSame, StreamingSame DEF Good

\* What the promises depend on.
Alike(t, u) ==
    /\ u.conn = t.conn /\ u.bound = t.bound /\ u.view = t.view /\ u.current = t.current /\ u.ack = t.ack
    /\ u.phase = t.phase /\ u.caller = t.caller /\ u.force = t.force /\ u.cursor = t.cursor
    /\ u.page = t.page /\ u.pending = t.pending /\ u.seq = t.seq /\ u.chain = t.chain
    /\ u.waiting = t.waiting /\ u.missed = t.missed

LEMMA AlikeGood ==
    ASSUME NEW t, NEW u, Alike(t, u), NEW dq, NEW uq, Good(t, dq, uq)
    PROVE  Good(u, dq, uq)
<1>1. Placed(t) /\ Conversing(t, dq, uq) /\ Streaming(t, dq) /\ AckSafe(t) /\ Showing(t)
    BY DEF Good
<1>2. Placed(u)
    BY <1>1 DEF Alike, Placed, ChainBusy
<1>3. ASSUME NEW k \in 1..Len(t.waiting), t.phase # "failed"
      PROVE  Lined(u, k) /\ Waits(u, k) /\ Matched(u, t.waiting[k], Talk(dq, uq)[k], dq)
  <2>1. PICK w, m : w = t.waiting[k] /\ m = Talk(dq, uq)[k]
    OBVIOUS
  <2>2. Lined(t, k) /\ Waits(t, k) /\ Matched(t, w, m, dq)
    BY <1>1, <1>3, <2>1 DEF Conversing
  <2>3. Lined(u, k)
    BY <2>2 DEF Alike, Lined, Joined
  <2>4. Waits(u, k)
    BY <2>2 DEF Alike, Waits, Acking
  <2>5. Matched(u, w, m, dq)
    BY <2>2 DEF Alike, Matched, Acking, AckMatched, Lapsed, SubscribeMatched, HistoryMatched, Begun
  <2> QED
    BY <2>1, <2>3, <2>4, <2>5
<1>4. Conversing(u, dq, uq)
    BY <1>3 DEF Conversing, Alike
<1>5. Streaming(u, dq)
  <2>1. Tracked(t, dq) => Tracked(u, dq)
    BY DEF Alike, Tracked, ChainBusy
  <2>2. Following(t, dq) => Following(u, dq)
    BY <2>1 DEF Alike, Following
  <2>3. Begun(t, dq, t.current) => Begun(u, dq, u.current)
    BY DEF Alike, Begun
  <2>4. Reads1(t) => Reads1(u)
    BY DEF Alike, Reads1
  <2> QED
    BY <1>1, <2>2, <2>3, <2>4 DEF Alike, Streaming
<1>6. AckSafe(u) /\ Showing(u)
    BY <1>1 DEF Alike, AckSafe, Showing
<1> QED
    BY <1>2, <1>4, <1>5, <1>6 DEF Good

\* A request to resume is about a subscription that exists.
Proper(out) == \A k \in 1..Len(out) :
                  out[k].method = "subscribe" /\ out[k].after # None => out[k].after[1] \in 1..Len(subs)

LEMMA ProperFew ==
    /\ Proper(<<>>)
    /\ \A r : (r.method = "subscribe" /\ r.after # None => r.after[1] \in 1..Len(subs)) => Proper(<<r>>)
BY DEF Proper

\* No subscription belongs to a connection other than the one in use.
Fresh(c) == this.conn = c \/ \A j \in 1..Len(subs) : subs[j].conn # c

LEMMA Commits ==
    ASSUME IInv, Stream, DaemonSame, NEW c \in Conns, NEW u, Sound(u), u.conn = c, Commit(u), Fresh(c), Proper(u.out)
    PROVE  /\ Requested' /\ Alike(u, this') /\ this'.conn = c
           /\ up[c] \in Seq(Requests) /\ up'[c] = Cat(up[c], u.out) /\ u.out \in Seq(Requests)
<1>1. u \in Objects /\ u.out \in Seq(Requests) /\ c # 0 /\ <<>> \in Seq(Requests)
    BY SoundLengths DEF Conns
<1>2. up \in [Conns -> Seq(Requests)] /\ up[c] \in Seq(Requests)
    BY InvFacts
<1>3. PICK n : n = [u EXCEPT !.out = <<>>]
    OBVIOUS
<1>4. this' = n
    BY <1>3 DEF Commit
<1>5. Alike(u, n) /\ n.conn = c
    BY <1>1, <1>3 DEF Objects, Alike
<1>6. PICK q : q = Cat(up[c], u.out)
    OBVIOUS
<1>7. up' = [up EXCEPT ![c] = q]
    BY <1>1, <1>6 DEF Commit, Cat
<1>8. up'[c] = q /\ \A d \in Conns : d # c => up'[d] = up[d]
    BY <1>2, <1>7
<1>9. /\ Len(q) = Len(up[c]) + Len(u.out) /\ Len(up[c]) \in Nat /\ Len(u.out) \in Nat
      /\ \A k \in 1..Len(up[c]) : q[k] = up[c][k]
      /\ \A k \in 1..Len(u.out) : q[Len(up[c]) + k] = u.out[k]
    BY <1>1, <1>2, <1>6, ConcatIs DEF Cat
<1>10. subs' = subs
    BY KeptAll
<1>11. ASSUME NEW d \in Conns, NEW k \in 1..Len(up'[d]), up'[d][k].method = "subscribe" /\ up'[d][k].after # None
       PROVE  /\ up'[d][k].after[1] \in 1..Len(subs')
              /\ d # this'.conn /\ this'.conn # 0 => subs'[up'[d][k].after[1]].conn # this'.conn
  <2>1. CASE d # c
    <3>1. up'[d] = up[d]
      BY <1>8, <2>1
    <3>2. /\ up[d][k].after[1] \in 1..Len(subs)
          /\ d # this.conn /\ this.conn # 0 => subs[up[d][k].after[1]].conn # this.conn
      BY <1>11, <3>1 DEF Stream, Requested
    <3> QED
      BY <1>1, <1>4, <1>5, <1>10, <2>1, <3>1, <3>2 DEF Fresh
  <2>2. CASE d = c
    <3>1. up'[d] = q
      BY <1>8, <2>2
    <3>2. CASE k \in 1..Len(up[c])
      <4>1. q[k] = up[c][k]
        BY <1>9, <3>2
      <4>2. up[c][k].after[1] \in 1..Len(subs)
        BY <1>11, <3>1, <3>2, <4>1 DEF Stream, Requested
      <4> QED
        BY <1>4, <1>5, <1>10, <2>2, <3>1, <4>1, <4>2
    <3>3. CASE k \notin 1..Len(up[c])
      <4>1. PICK j : j = k - Len(up[c])
        OBVIOUS
      <4>2. j \in 1..Len(u.out) /\ k = Len(up[c]) + j
        <5>1. PICK a \in Nat, b \in Nat : a = Len(up[c]) /\ b = Len(u.out)
          BY <1>9
        <5>2. Len(q) = a + b
          BY <1>9, <5>1
        <5>3. k \in 1..(a + b)
          BY <3>1, <5>2
        <5>4. k \notin 1..a /\ j = k - a
          BY <3>3, <4>1, <5>1
        <5>5. j \in 1..b /\ k = a + j
          BY <5>3, <5>4
        <5> QED
          BY <5>1, <5>5
      <4>3. q[k] = u.out[j]
        BY <1>9, <4>2
      <4>4. u.out[j].after[1] \in 1..Len(subs)
        BY <1>11, <3>1, <4>2, <4>3 DEF Proper
      <4> QED
        BY <1>4, <1>5, <1>10, <2>2, <3>1, <4>3, <4>4
    <3> QED
      BY <3>2, <3>3
  <2> QED
    BY <2>1, <2>2
<1>12. Requested'
    BY <1>11 DEF Requested
<1> QED
    BY <1>1, <1>2, <1>4, <1>5, <1>6, <1>8, <1>12

\* The view does not lose an event but with all of them.
Grew(t, u) == u.view = <<>> \/ Len(t.view) <= Len(u.view)

\* What a step of the client has to do.
LEMMA ClientStream ==
    ASSUME IInv, IInv', Stream, DaemonSame, Roster', NEW c \in Conns, NEW u, Sound(u), u.conn = c, Commit(u), Fresh(c),
           Proper(u.out), Grew(this, u), NEW dq, dq = down'[c], NEW uq, uq = Cat(up[c], u.out), Good(u, dq, uq)
    PROVE  Stream' /\ Grew(this, this') /\ log' = log
<1>1. Requested' /\ Alike(u, this') /\ this'.conn = c /\ up'[c] = uq
    BY Commits
<1>2. PICK n : n = this'
    OBVIOUS
<1>3. Good(n, dq, uq)
    BY <1>1, <1>2, AlikeGood
<1>4. Good(n, dq, uq)'
    BY <1>3, GoodSame
<1>5. c # 0
    BY DEF Conns
<1>6. Good(this, Coming(this.conn), Going(this.conn))'
  <2>1. Coming(this.conn)' = dq /\ Going(this.conn)' = uq
    BY <1>1, <1>5 DEF Coming, Going
  <2> QED
    BY <1>2, <1>4, <2>1
<1>7. Table'
    BY KeptAll DEF Stream, Table, Named, Held, Issued, Distinct
<1>8. Grew(this, this')
    BY <1>1 DEF Grew, Alike
<1> QED
    BY <1>1, <1>6, <1>7, <1>8, KeptAll DEF Stream

\* A step on the connection in use.
LEMMA OwnRoster ==
    ASSUME Stream, DaemonSame, sock' = sock
    PROVE  Roster'
BY KeptAll DEF Stream, Roster, Enlisted

-----------------------------------------------------------------------------
(* An answer to the oldest request.                                        *)

LEMMA ReplySorts ==
    ASSUME NEW m \in Replies
    PROVE  /\ m.kind = "success" <=> m = Success
           /\ m.kind = "error" <=> m \in Errors
           /\ \A i, q : m # [method |-> "ack", sub |-> i, cursor |-> q]
           /\ \A i, n : m # [method |-> "history", sub |-> i, offset |-> n]
           /\ \A q : m # [method |-> "subscribe", after |-> q]
<1>1. m.kind = "success" <=> m = Success
    BY DEF Replies, Errors, Pages, Success
<1>2. m.kind = "error" <=> m \in Errors
    BY DEF Replies, Errors, Pages
<1>3. "kind" \in DOMAIN m
    BY DEF Replies, Errors, Pages
<1>4. \A i, q : m # [method |-> "ack", sub |-> i, cursor |-> q]
    BY <1>3
<1>5. \A i, n : m # [method |-> "history", sub |-> i, offset |-> n]
    BY <1>3
<1>6. \A q : m # [method |-> "subscribe", after |-> q]
    BY <1>3
<1> QED
    BY <1>1, <1>2, <1>4, <1>5, <1>6

\* The first answer on the connection is for the oldest waiter.
Paired(t, dq, uq) ==
    /\ dq \in Seq(Messages) /\ uq \in Seq(Requests) /\ dq # <<>> /\ Head(dq) \in Replies
    /\ Sound(t) /\ t.phase # "failed" /\ t.waiting # <<>> /\ Len(t.waiting) = Len(Talk(dq, uq))

LEMMA Received ==
    ASSUME IInv, Stream, NEW who, Answer(who), NEW t, t = this, NEW c, c = this.conn, NEW dq, dq = down[c], NEW uq, uq = up[c]
    PROVE  /\ c \in Conns /\ t.conn = c /\ Paired(t, dq, uq) /\ Good(t, dq, uq) /\ Message = Head(dq) /\ down'[c] = Tail(dq)
           /\ Head(t.waiting).who = who /\ Fresh(c)
<1>1. this.conn \in Conns /\ Message \in Replies /\ this.waiting # <<>>
    BY AnswerIs
<1>2. Incoming /\ Message.kind # "event" /\ Consumed /\ Head(this.waiting).who = who
    BY DEF Answer
<1>3. /\ down \in [Conns -> Seq(Messages)] /\ up \in [Conns -> Seq(Requests)] /\ Sound(this)
      /\ dq \in Seq(Messages) /\ uq \in Seq(Requests)
  <2>1. down \in [Conns -> Seq(Messages)] /\ up \in [Conns -> Seq(Requests)] /\ Sound(this)
    BY InvFacts
  <2> QED
    BY <1>1, <2>1
<1>4. dq # <<>> /\ Message = Head(dq) /\ t.phase # "failed"
    BY <1>2 DEF Incoming, Message
<1>5. down'[c] = Tail(dq)
  <2>1. PICK q : q = Tail(dq)
    OBVIOUS
  <2>2. down' = [down EXCEPT ![c] = q]
    BY <1>2, <2>1 DEF Consumed
  <2> QED
    BY <1>1, <1>3, <2>1, <2>2
<1>6. c # 0
    BY <1>1 DEF Conns
<1>7. Len(t.waiting) = Len(Only(dq, Replies)) + Len(uq)
    BY <1>6 DEF IInv, Balanced
<1>8. Len(t.waiting) = Len(Talk(dq, uq))
    BY <1>3, <1>7, TalkIs
<1>9. Good(t, dq, uq)
    BY <1>6 DEF Stream, Coming, Going
<1> QED
    BY <1>1, <1>2, <1>3, <1>4, <1>5, <1>8, <1>9 DEF Paired, Fresh

\* The object without its oldest waiter, whose cursor may be the one acknowledged now.
Popped(t, v) ==
    /\ v.conn = t.conn /\ v.bound = t.bound /\ v.view = t.view /\ v.current = t.current
    /\ v.phase = t.phase /\ v.caller = t.caller /\ v.force = t.force /\ v.cursor = t.cursor
    /\ v.page = t.page /\ v.pending = t.pending /\ v.seq = t.seq /\ v.chain = t.chain
    /\ v.waiting = Tail(t.waiting) /\ v.missed = t.missed

AckMoves(t, v) ==
    v.ack = t.ack \/ (v.ack = Head(t.waiting).cursor /\ Acking(t, Head(t.waiting)))

\* The waiters and their messages that are left.
LEMMA Left ==
    ASSUME NEW t, NEW dq, NEW uq, Paired(t, dq, uq)
    PROVE  /\ Tail(dq) \in Seq(Messages) /\ Len(t.waiting) \in Nat
           /\ Head(t.waiting) = t.waiting[1] /\ Head(dq) = Talk(dq, uq)[1] /\ 1 \in 1..Len(t.waiting)
           /\ Len(Tail(t.waiting)) = Len(t.waiting) - 1 /\ Tail(t.waiting) \in Seq(Waiters)
           /\ Len(Tail(t.waiting)) \in Nat
           /\ Len(Tail(t.waiting)) = Len(Talk(Tail(dq), uq))
           /\ \A k \in 1..Len(Tail(t.waiting)) :
                 /\ Tail(t.waiting)[k] = t.waiting[k + 1] /\ k + 1 \in 1..Len(t.waiting)
                 /\ Talk(Tail(dq), uq)[k] = Talk(dq, uq)[k + 1]
<1>1. t.waiting \in Seq(Waiters) /\ t.waiting # <<>>
    BY ObjectIs DEF Paired
<1>2. /\ Talk(dq, uq) # <<>> /\ Talk(dq, uq)[1] = Head(dq) /\ Talk(Tail(dq), uq) = Tail(Talk(dq, uq))
    BY TalkNext DEF Paired
<1>3. Talk(dq, uq) \in Seq(Replies \cup Requests)
    BY TalkIs DEF Paired
<1>4. \A S : \A s \in Seq(S) : s # <<>> =>
         /\ Tail(s) \in Seq(S) /\ Len(Tail(s)) = Len(s) - 1 /\ Len(s) \in Nat /\ 1 \in 1..Len(s) /\ Head(s) = s[1]
         /\ Len(Tail(s)) \in Nat
         /\ \A k \in 1..Len(Tail(s)) : Tail(s)[k] = s[k + 1] /\ k + 1 \in 1..Len(s)
    OBVIOUS
<1>5. Tail(dq) \in Seq(Messages)
    BY DEF Paired
<1>6. /\ Tail(t.waiting) \in Seq(Waiters) /\ Len(Tail(t.waiting)) = Len(t.waiting) - 1 /\ Len(t.waiting) \in Nat
      /\ 1 \in 1..Len(t.waiting) /\ Head(t.waiting) = t.waiting[1] /\ Len(Tail(t.waiting)) \in Nat
      /\ \A k \in 1..Len(Tail(t.waiting)) : Tail(t.waiting)[k] = t.waiting[k + 1] /\ k + 1 \in 1..Len(t.waiting)
    BY <1>1, <1>4
<1>7. /\ Len(Tail(Talk(dq, uq))) = Len(Talk(dq, uq)) - 1
      /\ \A k \in 1..Len(Tail(Talk(dq, uq))) : Tail(Talk(dq, uq))[k] = Talk(dq, uq)[k + 1]
    BY <1>2, <1>3, <1>4
<1>8. Len(t.waiting) = Len(Talk(dq, uq))
    BY DEF Paired
<1> QED
    BY <1>2, <1>5, <1>6, <1>7, <1>8

\* An answer is no event.
LEMMA BegunTail ==
    ASSUME NEW t, NEW dq, NEW uq, Paired(t, dq, uq), NEW v, v.pending = t.pending, v.conn = t.conn,
           NEW i, Begun(t, dq, i), Orderly(i, v.ack)
    PROVE  Begun(v, Tail(dq), i)
<1>1. t.pending \in Seq(Messages) /\ dq \in Seq(Messages) /\ dq # <<>> /\ Head(dq) \in Replies
    BY ObjectIs DEF Paired
<1>2. Head(dq) \notin Happening(i)
    BY <1>1, HappeningIs
<1>3. Of(t.pending \o Tail(dq), i) = Of(t.pending \o dq, i)
    BY <1>1, <1>2, OfDropped
<1> QED
    BY <1>3 DEF Begun

\* An acknowledged cursor of the subscription stands for the one before it.
LEMMA OrderlyAck ==
    ASSUME Table, NEW i, NEW ack, Orderly(i, ack), NEW q, q[1] = i, q[2] <= subs[i].ackPos,
           subs[i].ackPos \in Int, q[2] \in Int, log \in Nat
    PROVE  Orderly(i, q)
<1> SUFFICES ASSUME subs[i].state = "active", NEW a \in 1..Len(cursors), NEW p \in (subs[i].ackPos + 1)..log,
                    cursors[a].id = q \/ (cursors[a].id[1] = i /\ cursors[a].pos < p)
             PROVE  \E b \in (a + 1)..Len(cursors) : cursors[b].id = <<i, p>> /\ cursors[b].sub = i
    BY DEF Orderly, Ordered
<1>1. cursors[a].pos = cursors[a].id[2]
    BY DEF Table, Named
<1>2. cursors[a].id[1] = i /\ cursors[a].pos < p
    BY <1>1
<1> QED
    BY <1>2 DEF Orderly, Ordered

-----------------------------------------------------------------------------
(* The conversation after an answer or a new request.                      *)

\* What is promised for the waiter at place k, whose request or answer is m.
Entry(t, k, m, dq) == Lined(t, k) /\ Waits(t, k) /\ Matched(t, t.waiting[k], m, dq)

LEMMA EntryOf ==
    ASSUME NEW t, NEW dq, NEW uq, Conversing(t, dq, uq), t.phase # "failed", NEW k \in 1..Len(t.waiting)
    PROVE  Entry(t, k, Talk(dq, uq)[k], dq)
BY DEF Conversing, Entry

LEMMA ConversingNone ==
    ASSUME NEW t, NEW dq, NEW uq, t.waiting = <<>> \/ t.phase = "failed"
    PROVE  Conversing(t, dq, uq)
BY DEF Conversing

LEMMA ConversingAsk ==
    ASSUME NEW t, NEW dq \in Seq(Messages), NEW uq \in Seq(Requests), NEW r \in Requests, NEW ws \in Seq(Waiters), NEW w,
           t.waiting = Append(ws, w), w \in Waiters, Len(ws) = Len(Talk(dq, uq)),
           \A k \in 1..Len(ws) : Entry(t, k, Talk(dq, uq)[k], dq), Entry(t, Len(ws) + 1, r, dq)
    PROVE  Conversing(t, dq, Cat(uq, <<r>>))
<1>1. PICK y : y = Append(uq, r)
    OBVIOUS
<1>2. Cat(uq, <<r>>) = y
    BY <1>1 DEF Cat
<1>3. PICK x : x = Talk(dq, uq)
    OBVIOUS
<1>4. x \in Seq(Replies \cup Requests) /\ Talk(dq, y) = Append(x, r) /\ Len(ws) = Len(x) /\ Len(x) \in Nat
  <2>1. x \in Seq(Replies \cup Requests)
    BY <1>3, TalkIs
  <2>2. Talk(dq, y) = Append(x, r)
    BY <1>1, <1>3, TalkAsk
  <2> QED
    BY <1>3, <2>1, <2>2
<1>5. \A k \in 1..Len(x) : Append(x, r)[k] = x[k]
    BY <1>4
<1>6. Append(x, r)[Len(x) + 1] = r
    BY <1>4
<1>7. Len(t.waiting) = Len(x) + 1
    BY <1>4
<1>8. ASSUME NEW k \in 1..Len(t.waiting)
      PROVE  Entry(t, k, Talk(dq, y)[k], dq)
  <2>1. CASE k \in 1..Len(x)
    <3>1. Talk(dq, y)[k] = x[k]
      BY <1>4, <1>5, <2>1
    <3>2. Entry(t, k, x[k], dq)
      BY <1>3, <1>4, <2>1
    <3> QED
      BY <3>1, <3>2
  <2>2. CASE k \notin 1..Len(x)
    <3>1. k = Len(x) + 1
      BY <1>4, <1>7, <2>2
    <3>2. Talk(dq, y)[k] = r
      BY <1>4, <1>6, <3>1
    <3> QED
      BY <1>4, <3>1, <3>2
  <2> QED
    BY <2>1, <2>2
<1>9. Conversing(t, dq, y)
    BY <1>8 DEF Conversing, Entry
<1> QED
    BY <1>2, <1>9

\* A request with nobody else waiting.
LEMMA ConversingFirst ==
    ASSUME NEW t, NEW dq \in Seq(Messages), NEW uq \in Seq(Requests), NEW r \in Requests, NEW w \in Waiters,
           t.waiting = <<w>>, Len(Talk(dq, uq)) = 0, Entry(t, 1, r, dq)
    PROVE  Conversing(t, dq, Cat(uq, <<r>>))
<1>1. PICK ws : ws = <<>>
    OBVIOUS
<1>2. ws \in Seq(Waiters) /\ Len(ws) = 0 /\ t.waiting = Append(ws, w) /\ Len(ws) + 1 = 1
    BY <1>1
<1>3. Entry(t, Len(ws) + 1, r, dq) /\ \A k \in 1..Len(ws) : Entry(t, k, Talk(dq, uq)[k], dq)
    BY <1>2
<1> QED
    BY <1>2, <1>3, ConversingAsk

\* What is known of the oldest waiter, and of those behind it, when its answer arrives.
LEMMA HeadIs ==
    ASSUME NEW t, NEW dq, NEW uq, Paired(t, dq, uq), Good(t, dq, uq), NEW w, w = Head(t.waiting)
    PROVE  /\ w \in Waiters /\ Entry(t, 1, Head(dq), dq) /\ w = t.waiting[1] /\ Head(dq) \in Replies
           /\ \A k \in 1..Len(Tail(t.waiting)) :
                 /\ Entry(t, k + 1, Talk(Tail(dq), uq)[k], dq)
                 /\ Tail(t.waiting)[k] = t.waiting[k + 1] /\ Tail(t.waiting)[k] \in Waiters
           /\ Recent(Tail(dq)) /\ Tail(dq) \in Seq(Messages)
<1>1. /\ Tail(dq) \in Seq(Messages) /\ Len(t.waiting) \in Nat
      /\ Head(t.waiting) = t.waiting[1] /\ Head(dq) = Talk(dq, uq)[1] /\ 1 \in 1..Len(t.waiting)
      /\ \A k \in 1..Len(Tail(t.waiting)) :
            /\ Tail(t.waiting)[k] = t.waiting[k + 1] /\ k + 1 \in 1..Len(t.waiting)
            /\ Talk(Tail(dq), uq)[k] = Talk(dq, uq)[k + 1]
    BY Left
<1>2. t.phase # "failed" /\ Head(dq) \in Replies /\ t.waiting \in Seq(Waiters) /\ Conversing(t, dq, uq)
    BY ObjectIs DEF Paired, Good
<1>3. \A k \in 1..Len(t.waiting) : Entry(t, k, Talk(dq, uq)[k], dq) /\ t.waiting[k] \in Waiters
    BY <1>2, EntryOf
<1>4. Recent(Tail(dq))
  <2>1. Recent(dq)
    BY DEF Good, Streaming
  <2>2. \A S : \A s \in Seq(S) : s # <<>> => \A k \in 1..Len(Tail(s)) : Tail(s)[k] = s[k + 1] /\ k + 1 \in 1..Len(s)
    OBVIOUS
  <2>3. dq \in Seq(Messages) /\ dq # <<>>
    BY DEF Paired
  <2>4. \A k \in 1..Len(Tail(dq)) : Tail(dq)[k] = dq[k + 1] /\ k + 1 \in 1..Len(dq)
    BY <2>2, <2>3
  <2> QED
    BY <2>1, <2>4 DEF Recent
<1>5. Entry(t, 1, Head(dq), dq)
    BY <1>1, <1>3
<1>6. \A k \in 1..Len(Tail(t.waiting)) : Entry(t, k + 1, Talk(Tail(dq), uq)[k], dq) /\ Tail(t.waiting)[k] \in Waiters
    BY <1>1, <1>3
<1>7. w \in Waiters
    BY <1>1, <1>3
<1> QED
    BY <1>1, <1>2, <1>4, <1>5, <1>6, <1>7

\* The waiters behind a promise of establish().
LEMMA BehindEst ==
    ASSUME NEW t, NEW dq, NEW uq, Paired(t, dq, uq), Good(t, dq, uq), NEW w, w = Head(t.waiting), Est(w)
    PROVE  /\ t.phase \in Awaiting /\ w.caller = t.caller
           /\ t.phase \in {"subscribe", "history", "boundary"} =>
                 Tail(t.waiting) = <<>> /\ Len(Talk(Tail(dq), uq)) = 0
           /\ \A k \in 1..Len(Tail(t.waiting)) :
                 /\ t.phase = "drain" => Tail(t.waiting)[k].who = "chain"
                 /\ t.phase \in {"cleanup", "leaving"} =>
                       Late(Tail(t.waiting)[k]) /\ Tail(t.waiting)[k].caller # "recovery"
                       /\ Talk(Tail(dq), uq)[k] \in Ends
<1>1. /\ w \in Waiters /\ Entry(t, 1, Head(dq), dq) /\ w = t.waiting[1] /\ Head(dq) \in Replies
      /\ \A k \in 1..Len(Tail(t.waiting)) :
            /\ Entry(t, k + 1, Talk(Tail(dq), uq)[k], dq)
            /\ Tail(t.waiting)[k] = t.waiting[k + 1] /\ Tail(t.waiting)[k] \in Waiters
    BY HeadIs
<1>2. /\ Len(t.waiting) \in Nat /\ Len(Tail(t.waiting)) = Len(t.waiting) - 1
      /\ Len(Tail(t.waiting)) = Len(Talk(Tail(dq), uq)) /\ Tail(t.waiting) \in Seq(Waiters)
      /\ \A k \in 1..Len(Tail(t.waiting)) : k + 1 \in 1..Len(t.waiting)
    BY Left
<1>3. Placed(t)
    BY DEF Good
<1>4. /\ t.phase \in Awaiting /\ w.caller = t.caller
      /\ \A j \in 2..Len(t.waiting) : ~Est(t.waiting[j])
      /\ Joined(t) => w.who \in {"est", "chain"}
      /\ t.phase = "subscribe" => 1 = Len(t.waiting)
      /\ t.phase \in {"leaving", "cleanup"} => \A j \in 2..Len(t.waiting) : Late(t.waiting[j])
    BY <1>1 DEF Entry, Lined, Est, Late
<1>5. ASSUME NEW k \in 1..Len(Tail(t.waiting)), t.phase \in {"history", "boundary", "drain"}
      PROVE  t.phase = "drain" /\ Tail(t.waiting)[k].who = "chain"
  <2>1. k + 1 \in 2..Len(t.waiting) /\ Tail(t.waiting)[k] = t.waiting[k + 1]
    BY <1>1, <1>2
  <2>2. Joined(t)
    BY <1>3, <1>5 DEF Placed, Joined, Reading
  <2>3. t.waiting[k + 1].who \in {"est", "chain"} /\ (t.waiting[k + 1].who = "chain" => t.bound)
    BY <1>1, <2>2 DEF Entry, Lined
  <2>4. ~Est(t.waiting[k + 1])
    BY <1>4, <2>1
  <2>5. t.waiting[k + 1].who = "chain" /\ t.bound
    BY <2>3, <2>4 DEF Est
  <2> QED
    BY <1>3, <1>5, <2>1, <2>5 DEF Placed
<1>6. ASSUME t.phase \in {"subscribe", "history", "boundary"}
      PROVE  Tail(t.waiting) = <<>> /\ Len(Talk(Tail(dq), uq)) = 0
  <2>1. Len(Tail(t.waiting)) = 0
    <3>1. CASE t.phase = "subscribe"
      BY <1>2, <1>4, <3>1
    <3>2. CASE t.phase # "subscribe"
      <4>1. PICK n \in Nat : n = Len(Tail(t.waiting))
        BY <1>2
      <4>2. 1 \notin 1..n
        BY <1>5, <1>6, <3>2, <4>1
      <4>3. n = 0
        BY <4>2
      <4> QED
        BY <4>1, <4>3
    <3> QED
      BY <3>1, <3>2
  <2>2. \A x \in Seq(Waiters) : Len(x) = 0 => x = <<>>
    OBVIOUS
  <2>3. Tail(t.waiting) = <<>>
    BY <1>2, <2>1, <2>2
  <2> QED
    BY <1>2, <2>1, <2>3
<1>7. ASSUME NEW k \in 1..Len(Tail(t.waiting)), t.phase \in {"cleanup", "leaving"}
      PROVE  Late(Tail(t.waiting)[k]) /\ Tail(t.waiting)[k].caller # "recovery" /\ Talk(Tail(dq), uq)[k] \in Ends
  <2>1. k + 1 \in 2..Len(t.waiting) /\ Tail(t.waiting)[k] = t.waiting[k + 1]
    BY <1>1, <1>2
  <2>2. Late(t.waiting[k + 1])
    BY <1>4, <1>7, <2>1
  <2>3. Entry(t, k + 1, Talk(Tail(dq), uq)[k], dq)
    BY <1>1
  <2>4. t.waiting[k + 1].caller # "recovery"
    BY <2>2, <2>3 DEF Entry, Lined, Late
  <2>5. Talk(Tail(dq), uq)[k] \in Ends
    BY <2>2, <2>3 DEF Entry, Matched, Late
  <2> QED
    BY <2>1, <2>2, <2>4, <2>5
<1>8. t.phase = "drain" => \A k \in 1..Len(Tail(t.waiting)) : Tail(t.waiting)[k].who = "chain"
    BY <1>5
<1> QED
    BY <1>4, <1>6, <1>7, <1>8

\* A step that handles an answer.
LEMMA AnswerStream ==
    ASSUME IInv, IInv', Stream, NEW who, Answer(who), NEW dq, dq = down[this.conn], NEW uq, uq = up[this.conn],
           NEW u, Sound(u), u.conn = this.conn, Commit(u), Proper(u.out), Grew(this, u),
           Good(u, Tail(dq), Cat(uq, u.out))
    PROVE  Stream' /\ Grew(this, this') /\ log' = log
<1>1. PICK t, c : t = this /\ c = this.conn
    OBVIOUS
<1>2. c \in Conns /\ down'[c] = Tail(dq) /\ Fresh(c)
    BY <1>1, Received
<1>3. DaemonSame /\ sock' = sock
    BY DEF Answer
<1>4. Roster'
    BY <1>3, OwnRoster
<1>5. PICK ds, us : ds = Tail(dq) /\ us = Cat(uq, u.out)
    OBVIOUS
<1>6. ds = down'[c] /\ us = Cat(up[c], u.out) /\ Good(u, ds, us) /\ u.conn = c
    BY <1>1, <1>2, <1>5
<1> QED
    BY <1>2, <1>3, <1>4, <1>6, ClientStream

LEMMA CatNone ==
    ASSUME NEW uq \in Seq(Requests)
    PROVE  Cat(uq, <<>>) = uq
BY DEF Cat

\* A view that was emptied shows nothing.
LEMMA ShowsNothing ==
    ASSUME log \in Nat, NEW u, u.view = <<>>
    PROVE  Showing(u) /\ Len(u.view) = 0
<1>1. Span(0 + 1, 0) = <<>>
    BY SpanNone
<1>2. Span(1, 0) = <<>>
    BY <1>1
<1> QED
    BY <1>2 DEF Showing

\* The answer to session.subscribe is a subscription whose events are all to come.
LEMMA SubscriptionArrives ==
    ASSUME IInv, Stream, Answer("est"), this.phase = "subscribe", NEW t, t = this,
           NEW c, c = this.conn, NEW dq, dq = down[c], NEW uq, uq = up[c],
           NEW m, m = Message
    PROVE  /\ Sound(t) /\ c \in Conns /\ t.conn = c /\ t.out = <<>> /\ t \in Objects /\ t.seen \in Nat
           /\ Tail(t.waiting) = <<>> /\ Len(Talk(Tail(dq), uq)) = 0
           /\ Tail(dq) \in Seq(Messages) /\ uq \in Seq(Requests) /\ Recent(Tail(dq)) /\ Recent(t.pending)
           /\ ~t.bound /\ t.seq = 0 /\ ~t.missed /\ t.chain = <<>> /\ AckSafe(t) /\ Showing(t)
           /\ m \in Replies /\ Head(dq) = m
           /\ m.kind = "resumed" \/ m.kind = "page" => Begun(t, Tail(dq), m.sub) /\ m.sub \in 1..MaxSubs
           /\ m.kind = "resumed" => subs[m.sub].state = "active" /\ subs[m.sub].base <= Len(t.view)
           /\ m.kind = "page" => t.cursor = None /\ m = Page(m.sub, 0, subs[m.sub].base) /\ subs[m.sub].state # "active"
<1>1. PICK w : w = Head(t.waiting)
    OBVIOUS
<1>2. /\ c \in Conns /\ t.conn = c /\ Paired(t, dq, uq) /\ Good(t, dq, uq) /\ Head(dq) = m /\ w.who = "est"
    BY <1>1, Received
<1>3. w \in Waiters /\ Entry(t, 1, m, dq) /\ w = t.waiting[1] /\ m \in Replies /\ Recent(Tail(dq)) /\ Tail(dq) \in Seq(Messages)
    BY <1>1, <1>2, HeadIs
<1>4. Est(w) /\ t.phase = "subscribe"
    BY <1>2 DEF Est
<1>5. Tail(t.waiting) = <<>> /\ Len(Talk(Tail(dq), uq)) = 0
    BY <1>1, <1>2, <1>4, BehindEst
<1>6. Placed(t) /\ Streaming(t, dq) /\ AckSafe(t) /\ Showing(t)
    BY <1>2 DEF Good
<1>7. ~t.bound /\ t.seq = 0 /\ ~t.missed /\ t.chain = <<>>
    BY <1>4, <1>6, InvFacts, ObjectIs DEF Placed
<1>8. SubscribeMatched(t, m, dq)
    BY <1>3, <1>4 DEF Entry, Matched
<1>9. /\ m.kind = "success" <=> m = Success
      /\ m.kind = "error" <=> m \in Errors
      /\ \A q : m # [method |-> "subscribe", after |-> q]
    BY <1>3, ReplySorts
<1>10. ASSUME m.kind = "resumed" \/ m.kind = "page"
       PROVE  Begun(t, Tail(dq), m.sub) /\ m.sub \in 1..MaxSubs
  <2>1. Begun(t, dq, m.sub)
    BY <1>8, <1>9, <1>10 DEF SubscribeMatched
  <2>2. Orderly(m.sub, t.ack)
    BY <2>1 DEF Begun
  <2>3. Begun(t, Tail(dq), m.sub)
    BY <1>2, <2>1, <2>2, BegunTail
  <2> QED
    BY <1>3, <1>10, <2>3, Kinds
<1>11. m.kind = "resumed" => subs[m.sub].state = "active" /\ subs[m.sub].base <= Len(t.view)
    BY <1>8, <1>9 DEF SubscribeMatched
<1>12. m.kind = "page" => t.cursor = None /\ m = Page(m.sub, 0, subs[m.sub].base) /\ subs[m.sub].state # "active"
    BY <1>8, <1>9 DEF SubscribeMatched
<1>13. Sound(t) /\ t.out = <<>> /\ t \in Objects /\ t.seen \in Nat
  <2>1. Sound(t) /\ t.out = <<>> /\ t \in Objects
    BY InvFacts
  <2> QED
    BY <2>1 DEF Objects
<1>14. uq \in Seq(Requests)
    BY <1>2 DEF Paired
<1>15. Recent(t.pending)
    BY <1>6 DEF Streaming
<1> QED
    BY <1>2, <1>3, <1>5, <1>6, <1>7, <1>10, <1>11, <1>12, <1>13, <1>14, <1>15

LEMMA SubscribeStream ==
    ASSUME IInv, IInv', Stream, SubscribeAnswered
    PROVE  Stream' /\ Grew(this, this') /\ log' = log
<1>1. PICK t, c, dq, uq, m : t = this /\ c = this.conn /\ dq = down[c] /\ uq = up[c] /\ m = Message
    OBVIOUS
<1>2. Answer("est") /\ this.phase = "subscribe"
    BY DEF SubscribeAnswered
<1>3. /\ Sound(t) /\ c \in Conns /\ t.conn = c /\ t.out = <<>> /\ t \in Objects /\ t.seen \in Nat
      /\ Tail(t.waiting) = <<>> /\ Len(Talk(Tail(dq), uq)) = 0
      /\ Tail(dq) \in Seq(Messages) /\ uq \in Seq(Requests) /\ Recent(Tail(dq)) /\ Recent(t.pending)
      /\ ~t.bound /\ t.seq = 0 /\ ~t.missed /\ t.chain = <<>> /\ AckSafe(t) /\ Showing(t)
      /\ m \in Replies /\ Head(dq) = m
      /\ m.kind = "resumed" \/ m.kind = "page" => Begun(t, Tail(dq), m.sub) /\ m.sub \in 1..MaxSubs
      /\ m.kind = "resumed" => subs[m.sub].state = "active" /\ subs[m.sub].base <= Len(t.view)
      /\ m.kind = "page" => t.cursor = None /\ m = Page(m.sub, 0, subs[m.sub].base) /\ subs[m.sub].state # "active"
    BY <1>1, <1>2, SubscriptionArrives
<1>4. /\ "ready" \in Phases /\ "page" \in Phases /\ "subscribe" \in Phases /\ <<>> \in Seq(Waiters) /\ <<>> \in Seq(Nat)
      /\ instance \in Nat /\ log \in Nat /\ \A k \in 1..MaxSubs : k \in 0..MaxSubs
  <2>1. instance \in Nat /\ log \in Nat
    BY InvFacts, Bounds DEF Sizes
  <2> QED
    BY <2>1, Bounds DEF Phases
<1>5. PICK d : d = Tail(dq)
    OBVIOUS
<1>6. PICK a : a = [t EXCEPT !.waiting = Tail(t.waiting)]
    OBVIOUS
<1>7. a = Answered /\ a \in Objects /\ a.waiting = <<>> /\ a.out = <<>>
      /\ a.conn = t.conn /\ a.view = t.view /\ a.ack = t.ack /\ a.bound = t.bound /\ a.pending = t.pending
      /\ a.seq = t.seq /\ a.missed = t.missed /\ a.chain = t.chain /\ a.caller = t.caller /\ a.page = t.page
      /\ a.cursor = t.cursor /\ a.force = t.force /\ a.phase = t.phase
  <2>1. a = Answered
    BY <1>1, <1>6 DEF Answered
  <2> QED
    BY <1>3, <1>4, <1>6, <2>1 DEF Objects
<1>8. CASE m.kind = "resumed"
  <2>1. PICK u : u = [a EXCEPT !.current = m.sub, !.seen = instance, !.phase = "ready"]
    OBVIOUS
  <2>2. Begun(t, d, m.sub) /\ m.sub \in 1..MaxSubs /\ subs[m.sub].state = "active" /\ subs[m.sub].base <= Len(t.view)
    BY <1>3, <1>5, <1>8
  <2>3. /\ u \in Objects /\ u.waiting = <<>> /\ u.out = <<>> /\ u.conn = t.conn /\ u.view = t.view /\ u.ack = t.ack
        /\ u.bound = t.bound /\ u.pending = t.pending /\ u.seq = t.seq /\ u.missed = t.missed /\ u.chain = t.chain
        /\ u.phase = "ready" /\ u.current = m.sub
    BY <1>4, <1>7, <2>1, <2>2 DEF Objects
  <2>4. Commit(u)
    BY <1>1, <1>7, <1>8, <2>1 DEF SubscribeAnswered
  <2>5. Placed(u)
    BY <1>3, <2>3 DEF Placed, ChainBusy, Conns, Reading
  <2>6. Streaming(u, d)
    <3>1. Begun(u, d, u.current)
      BY <2>2, <2>3 DEF Begun
    <3>2. Reads1(u)
      BY <2>2, <2>3 DEF Reads1
    <3> QED
      BY <1>3, <1>5, <2>3, <3>1, <3>2 DEF Streaming
  <2>7. AckSafe(u) /\ Showing(u)
    BY <1>3, <2>3 DEF AckSafe, Showing
  <2>8. Good(u, d, uq)
    BY <2>3, <2>5, <2>6, <2>7, ConversingNone DEF Good
  <2>9. Cat(uq, u.out) = uq /\ Proper(u.out)
    BY <1>3, <2>3, CatNone, ProperFew
  <2>10. Grew(t, u) /\ Sound(u)
    <3>1. Len(t.view) \in Nat
      BY <1>3, ObjectIs
    <3> QED
      BY <2>3, <3>1 DEF Grew, Sound
  <2> QED
    BY <1>1, <1>2, <1>3, <1>5, <2>3, <2>4, <2>8, <2>9, <2>10, AnswerStream
<1>9. CASE m.kind = "page"
  <2>1. PICK u : u = [a EXCEPT !.current = m.sub, !.seen = instance, !.phase = "page", !.page = m, !.view = <<>>]
    OBVIOUS
  <2>2. /\ Begun(t, d, m.sub) /\ m.sub \in 1..MaxSubs /\ subs[m.sub].state # "active" /\ m \in Pages
        /\ t.cursor = None /\ m = Page(m.sub, 0, subs[m.sub].base)
    BY <1>3, <1>5, <1>9, Kinds
  <2>3. /\ u \in Objects /\ u.waiting = <<>> /\ u.out = <<>> /\ u.conn = t.conn /\ u.view = <<>> /\ u.ack = t.ack
        /\ u.bound = t.bound /\ u.pending = t.pending /\ u.seq = t.seq /\ u.missed = t.missed /\ u.chain = t.chain
        /\ u.phase = "page" /\ u.current = m.sub /\ u.page = m
    <3>1. PICK x, k, e : x = m /\ k = m.sub /\ e = <<>>
      OBVIOUS
    <3>2. x \in Pages \cup {None} /\ k \in 0..MaxSubs /\ e \in Seq(Nat)
      BY <1>4, <2>2, <3>1
    <3>3. u = [a EXCEPT !.current = k, !.seen = instance, !.phase = "page", !.page = x, !.view = e]
      BY <2>1, <3>1
    <3>4. /\ u \in Objects /\ u.waiting = a.waiting /\ u.out = a.out /\ u.conn = a.conn /\ u.view = e /\ u.ack = a.ack
          /\ u.bound = a.bound /\ u.pending = a.pending /\ u.seq = a.seq /\ u.missed = a.missed /\ u.chain = a.chain
          /\ u.phase = "page" /\ u.current = k /\ u.page = x
      <4>1. a \in Objects /\ instance \in Nat /\ "page" \in Phases
        BY <1>4, <1>7
      <4> QED
        BY <4>1, <3>2, <3>3 DEF Objects
    <3> QED
      BY <1>7, <3>1, <3>4
  <2>4. Commit(u)
    BY <1>1, <1>7, <1>9, <2>1 DEF SubscribeAnswered
  <2>5. Placed(u)
    BY <1>3, <2>3 DEF Placed, ChainBusy, Conns, Reading
  <2>6. Showing(u) /\ Len(u.view) = 0
    BY <1>4, <2>3, ShowsNothing
  <2>7. Streaming(u, d)
    <3>1. Begun(u, d, u.current)
      BY <2>2, <2>3 DEF Begun
    <3>2. subs[m.sub].base \in Nat
      <4>1. m.sub \in 1..Len(subs) /\ Sizes /\ SubsInv /\ Roster
        BY <2>2, InvFacts DEF Begun, Stream
      <4> QED
        BY <4>1, SubIs
    <3>3. Reads1(u)
      BY <2>2, <2>3, <2>6, <3>2 DEF Reads1
    <3> QED
      BY <1>3, <1>5, <2>3, <3>1, <3>3 DEF Streaming
  <2>8. AckSafe(u)
    BY <1>2, <1>1, <1>3, <2>2, <2>3, <2>6 DEF AckSafe
  <2>9. Good(u, d, uq)
    BY <2>3, <2>5, <2>6, <2>7, <2>8, ConversingNone DEF Good
  <2>10. Cat(uq, u.out) = uq /\ Proper(u.out)
    BY <1>3, <2>3, CatNone, ProperFew
  <2>11. Grew(t, u) /\ Sound(u)
    BY <2>2, <2>3 DEF Grew, Sound
  <2> QED
    BY <1>1, <1>2, <1>3, <1>5, <2>3, <2>4, <2>9, <2>10, <2>11, AnswerStream
<1>10. CASE m.kind = "error" /\ t.cursor # None
  <2>1. PICK b : b = [a EXCEPT !.view = <<>>, !.ack = None, !.cursor = None]
    OBVIOUS
  <2>2. PICK r, w : r = [method |-> "subscribe", after |-> None] /\ w = Waiter("est", None, t.caller)
    OBVIOUS
  <2>3. PICK u : u = Ask(b, r, w)
    OBVIOUS
  <2>4. t.caller \in Callers
    BY <1>3 DEF Objects
  <2>5. r \in Requests /\ w \in Waiters /\ w.who = "est" /\ w.caller = t.caller /\ r.method = "subscribe" /\ r.after = None
    BY <2>2, <2>4, Nothing, WaiterIs DEF Requests, Waiter, Whos
  <2>6. /\ b \in Objects /\ b.waiting = <<>> /\ b.out = <<>> /\ b.conn = t.conn /\ b.view = <<>> /\ b.ack = None
        /\ b.bound = t.bound /\ b.pending = t.pending /\ b.seq = t.seq /\ b.missed = t.missed /\ b.chain = t.chain
        /\ b.phase = a.phase /\ b.caller = t.caller /\ b.cursor = None
    BY <1>4, <1>7, <2>1, Nothing DEF Objects
  <2>7. /\ u \in Objects /\ u.waiting = <<w>> /\ u.out = <<r>> /\ u.conn = t.conn /\ u.view = <<>> /\ u.ack = None
        /\ u.bound = t.bound /\ u.pending = t.pending /\ u.seq = t.seq /\ u.missed = t.missed /\ u.chain = t.chain
        /\ u.phase = "subscribe" /\ u.caller = t.caller /\ u.cursor = None
    <3>1. <<w>> \in Seq(Waiters) /\ <<r>> \in Seq(Requests) /\ Append(b.waiting, w) = <<w>> /\ Append(b.out, r) = <<r>>
      BY <2>5, <2>6
    <3>2. u = [b EXCEPT !.out = <<r>>, !.waiting = <<w>>]
      BY <2>3, <3>1 DEF Ask
    <3>3. a.phase = "subscribe"
      BY <1>1, <1>2, <1>7
    <3> QED
      BY <2>6, <3>1, <3>2, <3>3 DEF Objects
  <2>8. Commit(u)
    <3>1. m.kind # "resumed" /\ m.kind # "page"
      BY <1>10
    <3>2. Commit(Ask([Answered EXCEPT !.view = <<>>, !.ack = None, !.cursor = None],
                           [method |-> "subscribe", after |-> None],
                           Waiter("est", None, this.caller)))
      BY <1>1, <3>1 DEF SubscribeAnswered
    <3> QED
      BY <1>1, <1>7, <2>1, <2>2, <2>3, <3>2
  <2>9. Placed(u)
    BY <1>3, <2>7, InvFacts DEF Placed, ChainBusy, Reading, Conns
  <2>10. Showing(u)
    BY <1>4, <2>7, ShowsNothing
  <2>11. Streaming(u, d)
    BY <1>3, <1>5, <2>7 DEF Streaming, Reading
  <2>12. AckSafe(u)
    BY <2>7 DEF AckSafe
  <2>13. Entry(u, 1, r, d)
    <3>1. u.waiting[1] = w /\ Len(u.waiting) = 1
      BY <2>7
    <3>2. Lined(u, 1)
      BY <1>3, <2>5, <2>7, <3>1 DEF Lined, Est, Late, Joined, Reading, Awaiting
    <3>3. Waits(u, 1)
      BY <2>5, <2>7, <3>1 DEF Waits, Acking
    <3>4. Matched(u, w, r, d)
      <4>1. SubscribeMatched(u, r, d)
        BY <2>2, <2>7 DEF SubscribeMatched
      <4> QED
        BY <2>5, <2>7, <4>1 DEF Matched, Acking, Est
    <3> QED
      BY <3>1, <3>2, <3>3, <3>4 DEF Entry
  <2>14. Conversing(u, d, Cat(uq, u.out))
    <3>1. d \in Seq(Messages) /\ Len(Talk(d, uq)) = 0
      BY <1>3, <1>5
    <3>2. Conversing(u, d, Cat(uq, <<r>>))
      BY <1>3, <2>5, <2>7, <2>13, <3>1, ConversingFirst
    <3> QED
      BY <2>7, <3>2
  <2>15. Good(u, d, Cat(uq, u.out))
    BY <2>9, <2>10, <2>11, <2>12, <2>14 DEF Good
  <2>16. Proper(u.out)
    BY <2>5, <2>7, ProperFew
  <2>17. Grew(t, u) /\ Sound(u)
    BY <2>7 DEF Grew, Sound
  <2> QED
    BY <1>1, <1>2, <1>3, <1>5, <2>7, <2>8, <2>15, <2>16, <2>17, AnswerStream
<1>11. m.kind = "resumed" \/ m.kind = "page" \/ (m.kind = "error" /\ t.cursor # None)
    BY <1>1 DEF SubscribeAnswered
<1> QED
    BY <1>8, <1>9, <1>10, <1>11

-----------------------------------------------------------------------------
(* The fields of the object after its helpers.                             *)

\* All but the queues and the event listener.
Carries(t, u) ==
    /\ u.conn = t.conn /\ u.view = t.view /\ u.current = t.current /\ u.ack = t.ack /\ u.seen = t.seen
    /\ u.phase = t.phase /\ u.caller = t.caller /\ u.force = t.force /\ u.cursor = t.cursor
    /\ u.page = t.page /\ u.seq = t.seq /\ u.missed = t.missed

LEMMA CarriesOn ==
    ASSUME NEW t, NEW u, NEW v, Carries(t, u), Carries(u, v)
    PROVE  Carries(t, v)
BY DEF Carries

\* The object with one request and one waiter more.
Asked(t, u, r, w) ==
    /\ Sound(u) /\ Carries(t, u) /\ u.bound = t.bound /\ u.pending = t.pending /\ u.chain = t.chain
    /\ u.newest = t.newest /\ u.started = t.started /\ u.hook = t.hook /\ u.tried = t.tried
    /\ u.waiting = Append(t.waiting, w) /\ u.out = Append(t.out, r) /\ r \in Requests /\ w \in Waiters

LEMMA AskFields ==
    ASSUME NEW t, Sound(t), NEW r \in Requests, NEW w \in Waiters, NEW u, u = Ask(t, r, w)
    PROVE  Asked(t, u, r, w)
<1>1. PICK o, ws : o = Append(t.out, r) /\ ws = Append(t.waiting, w)
    OBVIOUS
<1>2. o \in Seq(Requests) /\ ws \in Seq(Waiters) /\ t \in Objects
    BY <1>1, SoundLengths
<1>3. u = [t EXCEPT !.out = o, !.waiting = ws]
    BY <1>1 DEF Ask
<1>4. /\ u \in Objects /\ Carries(t, u) /\ u.bound = t.bound /\ u.pending = t.pending /\ u.chain = t.chain
      /\ u.newest = t.newest /\ u.started = t.started /\ u.hook = t.hook /\ u.tried = t.tried
      /\ u.waiting = ws /\ u.out = o
    BY <1>2, <1>3 DEF Objects, Carries
<1>5. Sound(u)
    BY <1>4 DEF Sound, Carries
<1> QED
    BY <1>1, <1>4, <1>5 DEF Asked

LEMMA AskAckFields ==
    ASSUME NEW t, Sound(t), NEW who \in Whos, NEW q \in CursorIds, NEW u, u = AskAck(t, who, q),
           NEW r, r = [method |-> "ack", sub |-> t.current, cursor |-> q], NEW w, w = Waiter(who, q, t.caller)
    PROVE  Asked(t, u, r, w) /\ w.who = who /\ w.cursor = q /\ w.caller = t.caller /\ r \in Ends
<1>1. t.current \in 0..MaxSubs /\ t.caller \in Callers
    BY DEF Sound, Objects
<1>2. r \in Requests /\ r \in Ends
    BY <1>1 DEF Requests, Ends
<1>3. w \in Waiters /\ w.who = who /\ w.cursor = q /\ w.caller = t.caller
    BY <1>1, WaiterIs DEF Waiter
<1>4. u = Ask(t, r, w)
    BY DEF AskAck
<1> QED
    BY <1>2, <1>3, <1>4, AskFields

LEMMA AskUnsubscribeFields ==
    ASSUME NEW t, Sound(t), NEW who \in Whos, NEW u, u = AskUnsubscribe(t, who),
           NEW r, r = [method |-> "unsubscribe", sub |-> t.current], NEW w, w = Waiter(who, None, t.caller)
    PROVE  Asked(t, u, r, w) /\ w.who = who /\ w.cursor = None /\ w.caller = t.caller /\ r \in Ends
           /\ r.method = "unsubscribe"
<1>1. t.current \in 0..MaxSubs /\ t.caller \in Callers /\ None \in CursorIds
    BY Nothing DEF Sound, Objects
<1>2. r \in Requests /\ r \in Ends /\ r.method = "unsubscribe"
    BY <1>1 DEF Requests, Ends
<1>3. w \in Waiters /\ w.who = who /\ w.cursor = None /\ w.caller = t.caller
    BY <1>1, WaiterIs DEF Waiter
<1>4. u = Ask(t, r, w)
    BY DEF AskUnsubscribe
<1> QED
    BY <1>2, <1>3, <1>4, AskFields

\* The promises of a generation that ends: their waiters go on without effect.
Renamed(w, v) ==
    /\ v \in Waiters /\ v.cursor = w.cursor /\ v.caller = w.caller
    /\ w.who = "chain" => v.who = "stale"
    /\ w.who = "est" => v.who = "old"
    /\ w.who \in {"old", "stale"} => v.who = w.who

LEMMA SupersededFields ==
    ASSUME NEW t, Sound(t), NEW u, u = Superseded(t)
    PROVE  /\ Sound(u) /\ Carries(t, u) /\ ~u.bound /\ u.pending = <<>> /\ u.chain = <<>> /\ u.out = t.out
           /\ Len(u.waiting) = Len(t.waiting)
           /\ \A k \in 1..Len(t.waiting) : Renamed(t.waiting[k], u.waiting[k])
<1> DEFINE W(w) == IF w.who = "chain" THEN [w EXCEPT !.who = "stale"]
                   ELSE IF w.who = "est" THEN [w EXCEPT !.who = "old"] ELSE w
<1>1. PICK ws : ws = [k \in 1..Len(t.waiting) |-> W(t.waiting[k])]
    OBVIOUS
<1>2. t \in Objects /\ t.waiting \in Seq(Waiters) /\ Len(t.waiting) \in Nat
    BY SoundLengths
<1>3. \A w \in Waiters : Renamed(w, W(w))
    BY DEF Waiters, Whos, Renamed
<1>4. \A k \in 1..Len(t.waiting) : t.waiting[k] \in Waiters
    BY <1>2
<1>5. u = [t EXCEPT !.waiting = ws, !.pending = <<>>, !.chain = <<>>, !.newest = 0, !.bound = FALSE]
    BY <1>1 DEF Superseded
<1>6. \A w \in Waiters : W(w) \in Waiters
    BY <1>3 DEF Renamed
<1> HIDE DEF W
<1>7. ws \in Seq(Waiters) /\ Len(ws) = Len(t.waiting) /\ \A k \in 1..Len(t.waiting) : ws[k] = W(t.waiting[k])
    BY <1>1, <1>2, <1>4, <1>6
<1>8. \A k \in 1..Len(t.waiting) : Renamed(t.waiting[k], ws[k])
    BY <1>3, <1>4, <1>7
<1>9. <<>> \in Seq(Events) /\ FALSE \in BOOLEAN /\ 0 \in Nat
    OBVIOUS
<1>10. /\ u \in Objects /\ Carries(t, u) /\ ~u.bound /\ u.pending = <<>> /\ u.chain = <<>> /\ u.out = t.out
       /\ u.waiting = ws
  <2>1. PICK e : e = <<>>
    OBVIOUS
  <2>2. e \in Seq(Events) /\ ws \in Seq(Waiters) /\ t \in Objects /\ 0 \in Nat /\ FALSE \in BOOLEAN
    BY <1>2, <1>7, <1>9, <2>1
  <2>3. u = [t EXCEPT !.waiting = ws, !.pending = e, !.chain = e, !.newest = 0, !.bound = FALSE]
    BY <1>5, <2>1
  <2>4. u \in Objects
    <3>1. [t EXCEPT !.waiting = ws, !.pending = e, !.chain = e, !.newest = 0, !.bound = FALSE] \in Objects
      BY <2>2 DEF Objects
    <3> QED
      BY <2>3, <3>1
  <2>5. /\ Carries(t, u) /\ ~u.bound /\ u.pending = e /\ u.chain = e /\ u.out = t.out
        /\ u.waiting = ws
    BY <2>2, <2>3 DEF Objects, Carries
  <2> QED
    BY <2>1, <2>4, <2>5
<1>11. Sound(u)
    BY <1>10 DEF Sound, Carries
<1> QED
    BY <1>7, <1>8, <1>10, <1>11

\* Promises whose answers change nothing.
Parting(ws, x) ==
    \A k \in 1..Len(ws) : ws[k].who \in {"old", "stale"} /\ (ws[k].who = "old" => ws[k].caller # "recovery") /\ x[k] \in Ends

LEMMA PartingSuperseded ==
    ASSUME NEW t, Sound(t), NEW x,
           \A k \in 1..Len(t.waiting) :
               (t.waiting[k].who \in {"est", "old"} => t.waiting[k].caller # "recovery") /\ x[k] \in Ends
    PROVE  Parting(Superseded(t).waiting, x)
<1>1. PICK u : u = Superseded(t)
    OBVIOUS
<1>2. Len(u.waiting) = Len(t.waiting) /\ \A k \in 1..Len(t.waiting) : Renamed(t.waiting[k], u.waiting[k])
    BY <1>1, SupersededFields
<1>3. t.waiting \in Seq(Waiters)
    BY SoundLengths
<1>4. ASSUME NEW k \in 1..Len(t.waiting)
      PROVE  u.waiting[k].who \in {"old", "stale"} /\ (u.waiting[k].who = "old" => u.waiting[k].caller # "recovery")
  <2>1. PICK w, v : w = t.waiting[k] /\ v = u.waiting[k]
    OBVIOUS
  <2>2. w \in Waiters /\ Renamed(w, v) /\ (w.who \in {"est", "old"} => w.caller # "recovery")
    BY <1>2, <1>3, <2>1
  <2>3. w.who \in Whos
    BY <2>2 DEF Waiters
  <2> QED
    BY <2>1, <2>2, <2>3 DEF Renamed, Whos
<1> QED
    BY <1>1, <1>2, <1>4 DEF Parting

\* The request or answer of a promise that is about to end.
LEMMA EntryEnds ==
    ASSUME NEW t, Sound(t), NEW k \in 1..Len(t.waiting), NEW w, w = t.waiting[k], NEW m, NEW dq, Entry(t, k, m, dq),
           Acking(t, w) \/ w.who \in {"old", "stale"} \/ (Est(w) /\ t.phase \in {"leaving", "cleanup"})
    PROVE  m \in Ends
<1>1. Matched(t, w, m, dq)
    BY DEF Entry
<1>2. t.current \in 0..MaxSubs /\ w \in Waiters
    BY ObjectIs
<1>3. w.cursor \in CursorIds
    BY <1>2 DEF Waiters
<1>4. CASE Acking(t, w)
    BY <1>1, <1>2, <1>3, <1>4 DEF Matched, AckMatched, Ends
<1>5. CASE ~Acking(t, w)
    BY <1>1, <1>5 DEF Matched
<1> QED
    BY <1>4, <1>5

-----------------------------------------------------------------------------
(* Leaving a subscription.                                                 *)

\* The object that is about to ask for it, with nobody left who could object.
AboutToLeave(s, dq, uq) ==
    /\ Sound(s) /\ s.out = <<>> /\ s.phase \in {"cleanup", "leaving"} /\ ~s.bound /\ s.chain = <<>>
    /\ s.pending = <<>> /\ s.conn # 0 /\ dq \in Seq(Messages) /\ uq \in Seq(Requests) /\ Recent(dq)
    /\ Parting(s.waiting, Talk(dq, uq)) /\ Len(s.waiting) = Len(Talk(dq, uq)) /\ AckSafe(s) /\ Showing(s)

Leaves(s, u, r, w) ==
    /\ r \in Requests /\ w \in Waiters /\ u.conn = s.conn /\ u.view = s.view /\ u.ack = s.ack /\ u.phase = s.phase
    /\ u.caller = s.caller /\ u.force = s.force /\ u.bound = s.bound /\ u.pending = s.pending /\ u.chain = s.chain
    /\ u.waiting = Append(s.waiting, w) /\ u.out = Append(s.out, r)
    /\ w.who = "est" /\ w.caller = s.caller /\ r \in Ends /\ r.method = "unsubscribe"

LEMMA LeaveGood ==
    ASSUME NEW s, NEW dq, NEW uq, AboutToLeave(s, dq, uq), NEW u, NEW r, NEW w, Leaves(s, u, r, w)
    PROVE  Good(u, dq, Cat(uq, u.out)) /\ Proper(u.out)
<1>0. /\ Sound(s) /\ s.out = <<>> /\ s.phase \in {"cleanup", "leaving"} /\ ~s.bound /\ s.chain = <<>>
      /\ s.pending = <<>> /\ s.conn # 0 /\ dq \in Seq(Messages) /\ uq \in Seq(Requests) /\ Recent(dq)
      /\ Parting(s.waiting, Talk(dq, uq)) /\ Len(s.waiting) = Len(Talk(dq, uq)) /\ AckSafe(s) /\ Showing(s)
      /\ r \in Requests /\ w \in Waiters /\ u.conn = s.conn /\ u.view = s.view /\ u.ack = s.ack /\ u.phase = s.phase
      /\ u.caller = s.caller /\ u.force = s.force /\ u.bound = s.bound /\ u.pending = s.pending /\ u.chain = s.chain
      /\ u.waiting = Append(s.waiting, w) /\ u.out = Append(s.out, r)
      /\ w.who = "est" /\ w.caller = s.caller /\ r \in Ends /\ r.method = "unsubscribe"
    BY DEF AboutToLeave, Leaves
<1>1. s.waiting \in Seq(Waiters) /\ Len(s.waiting) \in Nat
    BY <1>0, SoundLengths
<1>2. PICK n \in Nat : n = Len(s.waiting)
    BY <1>0, <1>1
<1>3. /\ Len(u.waiting) = n + 1 /\ u.waiting[n + 1] = w
      /\ \A k \in 1..n : u.waiting[k] = s.waiting[k] /\ k \in 1..Len(s.waiting)
    BY <1>0, <1>1, <1>2
<1>4. u.out = <<r>>
    BY <1>0 DEF Requests
<1>5. ~Joined(u) /\ u.phase \in {"cleanup", "leaving"}
    BY <1>0 DEF Joined, Reading
<1>6. ASSUME NEW k \in 1..n
      PROVE  Entry(u, k, Talk(dq, uq)[k], dq)
  <2>1. PICK v, m : v = s.waiting[k] /\ m = Talk(dq, uq)[k]
    OBVIOUS
  <2>2. u.waiting[k] = v /\ v.who \in {"old", "stale"} /\ (v.who = "old" => v.caller # "recovery") /\ m \in Ends
    BY <1>0, <1>3, <2>1 DEF Parting
  <2>3. Lined(u, k)
    BY <1>0, <1>5, <2>2 DEF Lined, Est
  <2>4. Waits(u, k)
    BY <1>0, <2>2 DEF Waits, Acking, Est
  <2>5. Matched(u, v, m, dq)
    BY <1>0, <2>2 DEF Matched, Acking, Est
  <2> QED
    BY <1>0, <2>1, <2>2, <2>3, <2>4, <2>5 DEF Entry
<1>7. Entry(u, n + 1, r, dq)
  <2>1. Lined(u, n + 1)
    BY <1>0, <1>3, <1>5 DEF Lined, Est, Late, Awaiting
  <2>2. Waits(u, n + 1)
    BY <1>0, <1>3, <1>5 DEF Waits, Acking, Est
  <2>3. Matched(u, w, r, dq)
    BY <1>0, <1>5 DEF Matched, Acking, Est
  <2> QED
    BY <1>0, <1>3, <2>1, <2>2, <2>3 DEF Entry
<1>8. Conversing(u, dq, Cat(uq, <<r>>))
    BY <1>0, <1>1, <1>2, <1>6, <1>7, ConversingAsk
<1>9. Placed(u)
    BY <1>0, <1>5 DEF Placed, Reading
<1>10. Streaming(u, dq)
  <2>1. Recent(u.pending)
    BY <1>0 DEF Recent
  <2> QED
    BY <1>0, <1>5, <2>1 DEF Streaming, Reading
<1>11. AckSafe(u)
    BY <1>0, <1>5 DEF AckSafe
<1>12. Showing(u)
    BY <1>0 DEF Showing
<1>13. Proper(u.out)
    BY <1>0, <1>4, ProperFew
<1> QED
    BY <1>0, <1>4, <1>8, <1>9, <1>10, <1>11, <1>12, <1>13 DEF Good

\* A load that failed leaves its subscription.
LEMMA LoadingFailedGood ==
    ASSUME NEW t, Sound(t), t.out = <<>>, t.conn # 0, AckSafe(t), Showing(t),
           NEW dq \in Seq(Messages), NEW uq \in Seq(Requests), Recent(dq),
           Parting(Superseded(t).waiting, Talk(dq, uq)), Len(t.waiting) = Len(Talk(dq, uq)),
           NEW u, u = LoadingFailed(t)
    PROVE  Sound(u) /\ u.conn = t.conn /\ u.view = t.view /\ Good(u, dq, Cat(uq, u.out)) /\ Proper(u.out)
<1>1. PICK z : z = Superseded(t)
    OBVIOUS
<1>2. /\ Sound(z) /\ Carries(t, z) /\ ~z.bound /\ z.pending = <<>> /\ z.chain = <<>> /\ z.out = t.out
      /\ Len(z.waiting) = Len(t.waiting)
    BY <1>1, SupersededFields
<1>3. PICK s : s = [z EXCEPT !.phase = "cleanup"]
    OBVIOUS
<1>4. /\ s \in Objects /\ s.conn = z.conn /\ s.view = z.view /\ s.ack = z.ack /\ s.phase = "cleanup"
      /\ s.bound = z.bound /\ s.pending = z.pending /\ s.chain = z.chain /\ s.out = z.out /\ s.waiting = z.waiting
  <2>1. z \in Objects /\ "cleanup" \in Phases
    BY <1>2 DEF Sound, Phases
  <2> QED
    BY <1>3, <2>1 DEF Objects
<1>5. Sound(s)
    BY <1>4 DEF Sound
<1>6. PICK a, r, w : a = AskUnsubscribe(s, "est") /\ r = [method |-> "unsubscribe", sub |-> s.current] /\ w = Waiter("est", None, s.caller)
    OBVIOUS
<1>7. Asked(s, a, r, w) /\ w.who = "est" /\ w.caller = s.caller /\ r \in Ends /\ r.method = "unsubscribe"
  <2>1. "est" \in Whos
    BY DEF Whos
  <2> QED
    BY <1>5, <1>6, <2>1, AskUnsubscribeFields
<1>8. u = [a EXCEPT !.current = 0]
    BY <1>1, <1>3, <1>6 DEF LoadingFailed
<1>9. /\ u \in Objects /\ u.conn = a.conn /\ u.view = a.view /\ u.ack = a.ack /\ u.phase = a.phase
      /\ u.caller = a.caller /\ u.force = a.force /\ u.bound = a.bound /\ u.pending = a.pending /\ u.chain = a.chain
      /\ u.waiting = a.waiting /\ u.out = a.out
  <2>1. a \in Objects /\ 0 \in 0..MaxSubs
    BY <1>7, Bounds DEF Asked, Sound
  <2> QED
    BY <1>8, <2>1 DEF Objects
<1>10. /\ u.conn = s.conn /\ u.view = s.view /\ u.ack = s.ack /\ u.phase = s.phase
       /\ u.caller = s.caller /\ u.force = s.force /\ u.bound = s.bound /\ u.pending = s.pending /\ u.chain = s.chain
       /\ u.waiting = Append(s.waiting, w) /\ u.out = Append(s.out, r) /\ r \in Requests /\ w \in Waiters
    BY <1>7, <1>9 DEF Asked, Carries
<1>11. Sound(u)
    BY <1>4, <1>9, <1>10 DEF Sound
<1>12. AckSafe(s) /\ Showing(s)
    BY <1>2, <1>4 DEF AckSafe, Showing, Carries
<1>13. /\ s.out = <<>> /\ s.phase \in {"cleanup", "leaving"} /\ ~s.bound /\ s.chain = <<>> /\ s.pending = <<>>
       /\ s.conn # 0 /\ s.conn = t.conn /\ s.view = t.view
       /\ Parting(s.waiting, Talk(dq, uq)) /\ Len(s.waiting) = Len(Talk(dq, uq))
    BY <1>1, <1>2, <1>4 DEF Carries
<1>14. Good(u, dq, Cat(uq, u.out)) /\ Proper(u.out)
  <2>1. AboutToLeave(s, dq, uq)
    BY <1>5, <1>12, <1>13 DEF AboutToLeave
  <2>2. Leaves(s, u, r, w)
    BY <1>7, <1>10 DEF Leaves
  <2> QED
    BY <2>1, <2>2, LeaveGood
<1> QED
    BY <1>10, <1>11, <1>13, <1>14

\* A recovery leaves the subscription.
LEMMA RecoveredGood ==
    ASSUME NEW t, Sound(t), t.out = <<>>, t.conn # 0, AckSafe(t), Showing(t), ~Recovering(t),
           NEW dq \in Seq(Messages), NEW uq \in Seq(Requests), Recent(dq),
           Parting(Superseded(t).waiting, Talk(dq, uq)), Len(t.waiting) = Len(Talk(dq, uq)),
           NEW force \in BOOLEAN, force => Unknown(t.ack), NEW u, u = Recovered(t, force)
    PROVE  Sound(u) /\ u.conn = t.conn /\ u.view = t.view /\ Good(u, dq, Cat(uq, u.out)) /\ Proper(u.out)
<1>1. PICK z : z = Superseded(t)
    OBVIOUS
<1>2. /\ Sound(z) /\ Carries(t, z) /\ ~z.bound /\ z.pending = <<>> /\ z.chain = <<>> /\ z.out = t.out
      /\ Len(z.waiting) = Len(t.waiting)
    BY <1>1, SupersededFields
<1>3. PICK s : s = [z EXCEPT !.phase = "leaving", !.caller = "recovery", !.force = force]
    OBVIOUS
<1>4. /\ s \in Objects /\ s.conn = z.conn /\ s.view = z.view /\ s.ack = z.ack /\ s.phase = "leaving" /\ s.force = force
      /\ s.bound = z.bound /\ s.pending = z.pending /\ s.chain = z.chain /\ s.out = z.out /\ s.waiting = z.waiting
  <2>1. z \in Objects /\ "leaving" \in Phases /\ "recovery" \in Callers
    BY <1>2 DEF Sound, Phases, Callers
  <2> QED
    BY <1>3, <2>1 DEF Objects
<1>5. Sound(s)
    BY <1>4 DEF Sound
<1>6. PICK r, w : r = [method |-> "unsubscribe", sub |-> s.current] /\ w = Waiter("est", None, s.caller)
    OBVIOUS
<1>7. u = AskUnsubscribe(s, "est")
    BY <1>1, <1>3 DEF Recovered
<1>8. Asked(s, u, r, w) /\ w.who = "est" /\ w.caller = s.caller /\ r \in Ends /\ r.method = "unsubscribe"
  <2>1. "est" \in Whos
    BY DEF Whos
  <2> QED
    BY <1>5, <1>6, <1>7, <2>1, AskUnsubscribeFields
<1>9. /\ u.conn = s.conn /\ u.view = s.view /\ u.ack = s.ack /\ u.phase = s.phase
      /\ u.caller = s.caller /\ u.force = s.force /\ u.bound = s.bound /\ u.pending = s.pending /\ u.chain = s.chain
      /\ u.waiting = Append(s.waiting, w) /\ u.out = Append(s.out, r) /\ r \in Requests /\ w \in Waiters
    BY <1>8 DEF Asked, Carries
<1>10. Sound(u)
    BY <1>8 DEF Asked
<1>11. AckSafe(s) /\ Showing(s)
    BY <1>2, <1>4 DEF AckSafe, Showing, Carries
<1>12. /\ s.out = <<>> /\ s.phase \in {"cleanup", "leaving"} /\ ~s.bound /\ s.chain = <<>> /\ s.pending = <<>>
       /\ s.conn # 0 /\ s.conn = t.conn /\ s.view = t.view
       /\ Parting(s.waiting, Talk(dq, uq)) /\ Len(s.waiting) = Len(Talk(dq, uq))
    BY <1>1, <1>2, <1>4 DEF Carries
<1>13. Good(u, dq, Cat(uq, u.out)) /\ Proper(u.out)
  <2>1. AboutToLeave(s, dq, uq)
    BY <1>5, <1>11, <1>12 DEF AboutToLeave
  <2>2. Leaves(s, u, r, w)
    BY <1>8, <1>9 DEF Leaves
  <2> QED
    BY <2>1, <2>2, LeaveGood
<1> QED
    BY <1>9, <1>10, <1>12, <1>13

-----------------------------------------------------------------------------
(* Loading a snapshot.                                                     *)

\* A step between two messages.
LEMMA OwnStream ==
    ASSUME IInv, IInv', Stream, NEW c, c = this.conn, c # 0, DaemonSame, sock' = sock, down' = down,
           NEW dq, dq = down[c], NEW uq, uq = up[c],
           NEW u, Sound(u), u.conn = c, Commit(u), Proper(u.out), Grew(this, u), Good(u, dq, Cat(uq, u.out))
    PROVE  Stream' /\ Grew(this, this') /\ log' = log
<1>1. c \in Conns /\ Roster' /\ Fresh(c)
    BY InvFacts, OwnRoster DEF Fresh
<1>2. PICK us : us = Cat(uq, u.out)
    OBVIOUS
<1>3. dq = down'[c] /\ us = Cat(up[c], u.out) /\ Good(u, dq, us)
    BY <1>2
<1> QED
    BY <1>1, <1>3, ClientStream

LEMMA InUseHere ==
    ASSUME IInv, Stream, NEW t, t = this, NEW c, c = this.conn, c # 0, NEW dq, dq = down[c], NEW uq, uq = up[c]
    PROVE  /\ Sound(t) /\ c \in Conns /\ t.conn = c /\ t.out = <<>> /\ t \in Objects
           /\ dq \in Seq(Messages) /\ uq \in Seq(Requests) /\ Good(t, dq, uq) /\ Len(t.waiting) = Len(Talk(dq, uq))
           /\ Sizes /\ SubsInv /\ Roster /\ Table /\ log \in Nat
<1>1. /\ down \in [Conns -> Seq(Messages)] /\ up \in [Conns -> Seq(Requests)] /\ Sound(t) /\ c \in Conns
      /\ t.out = <<>> /\ t \in Objects /\ Sizes /\ SubsInv /\ Roster /\ Table
    BY InvFacts DEF Stream
<1>2. dq \in Seq(Messages) /\ uq \in Seq(Requests)
    BY <1>1
<1>3. Len(t.waiting) = Len(Only(dq, Replies)) + Len(uq)
    BY DEF IInv, Balanced
<1>4. Len(t.waiting) = Len(Talk(dq, uq))
    BY <1>2, <1>3, TalkIs
<1>5. Good(t, dq, uq)
    BY DEF Stream, Coming, Going
<1>6. log \in Nat
    BY <1>1, Bounds DEF Sizes
<1> QED
    BY <1>1, <1>2, <1>4, <1>5, <1>6

\* Between an answer and what follows from it nobody waits.
LEMMA NobodyWaits ==
    ASSUME NEW t, Sound(t), NEW dq, NEW uq, Good(t, dq, uq), t.phase \in {"page", "ready"}
    PROVE  t.waiting = <<>> /\ Len(t.waiting) = 0
<1>1. Placed(t) /\ Conversing(t, dq, uq)
    BY DEF Good
<1>2. t.waiting \in Seq(Waiters) /\ Joined(t) /\ ~t.bound
    BY <1>1, ObjectIs DEF Placed, Joined, Reading
<1>3. ASSUME NEW k \in 1..Len(t.waiting)
      PROVE  FALSE
  <2>1. Lined(t, k)
    BY <1>1 DEF Conversing
  <2> QED
    BY <1>2, <2>1 DEF Lined, Est, Awaiting
<1>4. PICK n \in Nat : n = Len(t.waiting)
    BY <1>2
<1>5. n = 0
    BY <1>3, <1>4
<1>6. \A x \in Seq(Waiters) : Len(x) = 0 => x = <<>>
    OBVIOUS
<1> QED
    BY <1>2, <1>4, <1>5, <1>6

\* What is known of the snapshot that is being read.
LEMMA SnapshotIs ==
    ASSUME Sizes, SubsInv, Roster, NEW t, Sound(t), NEW dq, NEW uq, Good(t, dq, uq), t.phase \in Reading, NEW i, i = t.current
    PROVE  /\ i \in 1..Len(subs) /\ i \in 1..MaxSubs /\ i \in 0..MaxSubs /\ Begun(t, dq, i) /\ Reads1(t)
           /\ subs[i].base \in Nat /\ subs[i].base <= log /\ log \in Nat /\ log <= MaxEvents
           /\ subs[i].seq \in Nat /\ subs[i].ackPos \in Int
           /\ t.seq = 0 /\ ~t.bound /\ ~t.missed /\ t.chain = <<>> /\ AckSafe(t)
           /\ Len(t.view) \in Nat /\ t.view = Span(1, Len(t.view)) /\ Len(t.view) <= log
           /\ Recent(dq) /\ Recent(t.pending)
           /\ subs[i].state # "active" => subs[i].ackPos < 0
<1>1. Placed(t) /\ Streaming(t, dq) /\ Showing(t) /\ AckSafe(t)
    BY DEF Good
<1>2. Begun(t, dq, i) /\ Reads1(t) /\ t.seq = 0 /\ Recent(dq) /\ Recent(t.pending)
    BY <1>1 DEF Streaming
<1>3. i \in 1..Len(subs)
    BY <1>2 DEF Begun
<1>4. ~t.bound /\ ~t.missed /\ t.chain = <<>>
    BY <1>1, ObjectIs DEF Placed, Reading
<1>5. /\ Enlisted(subs[i], i) /\ i \in 1..MaxSubs /\ log \in Nat /\ log <= MaxEvents
      /\ subs[i].base \in Nat /\ subs[i].seq \in Nat /\ subs[i].ackPos \in Int /\ subs[i].base <= log
    BY <1>3, SubIs
<1>6. i \in 0..MaxSubs
    BY <1>5
<1>7. subs[i].state # "active" => subs[i].ackPos < 0
    BY <1>5 DEF Enlisted
<1> QED
    BY <1>1, <1>2, <1>3, <1>4, <1>5, <1>6, <1>7, ObjectIs DEF Showing

\* The view after a page: the events up to its last one.
PageAfter(i, n, b, page, view) ==
    /\ page.sub = i /\ page.hi \in Nat /\ n <= page.hi /\ page.hi <= b
    /\ page.complete => page.hi = b
    /\ ~page.complete => page.hi < b
    /\ page.boundary = <<i, b>>
    /\ Reduced(view, Span(page.lo, page.hi)) = Span(1, page.hi) /\ Len(Span(1, page.hi)) = page.hi
    /\ Span(1, page.hi) \in Seq(Nat)

LEMMA PageExtends ==
    ASSUME NEW i, NEW n \in Nat, NEW b \in Nat, n <= b
    PROVE  \A page, view : page = Page(i, n, b) /\ view = Span(1, n) => PageAfter(i, n, b, page, view)
<1> SUFFICES ASSUME NEW page, page = Page(i, n, b), NEW view, view = Span(1, n)
             PROVE  PageAfter(i, n, b, page, view)
    OBVIOUS
<1>1. PICK h : h = Least(n + PageSize, b)
    OBVIOUS
<1>2. h \in Nat /\ n <= h /\ h <= b
    BY <1>1, Bounds DEF Least
<1>3. page.sub = i /\ page.lo = n + 1 /\ page.hi = h /\ page.boundary = <<i, b>>
    BY <1>1 DEF Page
<1>4. Reduced(Span(1, n), Span(n + 1, h)) = Span(1, IF n <= h THEN h ELSE n)
    BY <1>2, ReducedSpan
<1>5. Reduced(view, Span(page.lo, page.hi)) = Span(1, h)
    BY <1>2, <1>3, <1>4
<1>6. Len(Span(1, h)) = h /\ Span(1, h) \in Seq(Nat)
    BY <1>2, FirstNumbers
<1>7. (page.complete => h = b) /\ (~page.complete => h < b)
  <2>1. PICK z : z = (h >= b)
    OBVIOUS
  <2>2. page = [kind |-> "page", sub |-> i, lo |-> n + 1, hi |-> h, complete |-> z, boundary |-> <<i, b>>]
    BY <1>1, <2>1 DEF Page
  <2>3. page.complete = z
    BY <2>2
  <2>4. (z => h >= b) /\ (~z => ~(h >= b))
    BY <2>1, Zenon
  <2>5. (h >= b => h = b) /\ (~(h >= b) => h < b)
    BY <1>2
  <2> QED
    BY <2>3, <2>4, <2>5, Zenon
<1>8. page.hi = h /\ page.sub = i /\ page.boundary = <<i, b>>
    BY <1>3
<1> QED
    BY <1>2, <1>5, <1>6, <1>7, <1>8 DEF PageAfter

\* A cursor of a subscription that exists.
LEMMA IssuedIs ==
    ASSUME NEW i \in 1..Len(subs), NEW p \in Nat, p <= log, log \in Nat, subs[i].state = "loading" => p = subs[i].base,
           NEW q, q = <<i, p>>
    PROVE  Issued(q) /\ q[1] = i /\ q[2] = p
<1>1. q[1] = i /\ q[2] = p /\ q # None
    BY DEF None
<1> QED
    BY <1>1 DEF Issued

LEMMA ReduceStream ==
    ASSUME IInv, IInv', Stream, ReducePage
    PROVE  Stream' /\ Grew(this, this') /\ log' = log
<1>1. PICK t, c, dq, uq, i : t = this /\ c = this.conn /\ dq = down[c] /\ uq = up[c] /\ i = t.current
    OBVIOUS
<1>2. t.phase = "page" /\ DaemonSame /\ sock' = sock /\ down' = down
    BY <1>1 DEF ReducePage
<1>3. c # 0
  <2>1. Placed(t)
    BY <1>1 DEF Stream, Good
  <2> QED
    BY <1>1, <1>2, <2>1 DEF Placed
<1>4. /\ Sound(t) /\ c \in Conns /\ t.conn = c /\ t.out = <<>> /\ t \in Objects
      /\ dq \in Seq(Messages) /\ uq \in Seq(Requests) /\ Good(t, dq, uq) /\ Len(t.waiting) = Len(Talk(dq, uq))
      /\ Sizes /\ SubsInv /\ Roster /\ Table /\ log \in Nat
    BY <1>1, <1>3, InUseHere
<1>5. t.waiting = <<>> /\ Len(Talk(dq, uq)) = 0
    BY <1>2, <1>4, NobodyWaits
<1>6. /\ i \in 1..Len(subs) /\ i \in 1..MaxSubs /\ i \in 0..MaxSubs /\ Begun(t, dq, i) /\ Reads1(t)
      /\ subs[i].base \in Nat /\ subs[i].base <= log /\ log \in Nat /\ log <= MaxEvents
      /\ subs[i].seq \in Nat /\ subs[i].ackPos \in Int
      /\ t.seq = 0 /\ ~t.bound /\ ~t.missed /\ t.chain = <<>> /\ AckSafe(t)
      /\ Len(t.view) \in Nat /\ t.view = Span(1, Len(t.view)) /\ Len(t.view) <= log
      /\ Recent(dq) /\ Recent(t.pending)
      /\ subs[i].state # "active" => subs[i].ackPos < 0
    BY <1>1, <1>2, <1>4, SnapshotIs DEF Reading
<1>7. PICK n, b, page : n = Len(t.view) /\ b = subs[i].base /\ page = t.page
    OBVIOUS
<1>8. page = Page(i, n, b) /\ n <= b /\ subs[i].state # "active" /\ n \in Nat /\ b \in Nat /\ t.view = Span(1, n) /\ b <= log /\ b <= MaxEvents
  <2>1. page = Page(i, n, b) /\ n <= b /\ subs[i].state # "active"
    <3>1. Reads1(t) /\ t.phase = "page"
      BY <1>2, <1>6
    <3> QED
      BY <1>1, <1>7, <3>1 DEF Reads1
  <2>2. n \in Nat /\ b \in Nat /\ t.view = Span(1, n) /\ b <= log
    BY <1>6, <1>7
  <2>3. log <= MaxEvents /\ MaxEvents \in Nat
    BY <1>6, Bounds
  <2>4. b <= MaxEvents
    BY <1>6, <2>2, <2>3
  <2> QED
    BY <2>1, <2>2, <2>4
<1>9. PICK h, v : h = page.hi /\ v = Span(1, h)
    OBVIOUS
<1>10. /\ page.sub = i /\ h \in Nat /\ n <= h /\ h <= b
       /\ page.complete => h = b
       /\ ~page.complete => h < b
       /\ page.boundary = <<i, b>>
       /\ Reduced(t.view, Span(page.lo, page.hi)) = v /\ Len(v) = h /\ v \in Seq(Nat)
  <2>1. PICK x : x = t.view
    OBVIOUS
  <2>2. n \in Nat /\ b \in Nat /\ n <= b /\ page = Page(i, n, b) /\ x = Span(1, n)
    BY <1>8, <2>1
  <2>3. PageAfter(i, n, b, page, x)
    BY <2>2, PageExtends
  <2> QED
    BY <1>9, <2>1, <2>3 DEF PageAfter
<1>11. PICK s : s = [t EXCEPT !.view = v, !.page = None]
    OBVIOUS
<1>12. Commit(IF page.complete
              THEN AskAck([s EXCEPT !.phase = "boundary"], "est", page.boundary)
              ELSE Ask([s EXCEPT !.phase = "history"],
                       [method |-> "history", sub |-> page.sub, offset |-> page.hi],
                       Waiter("est", None, t.caller)))
    BY <1>1, <1>7, <1>10, <1>11 DEF ReducePage
<1>13. ASSUME NEW ph \in {"boundary", "history"}, NEW z, z = [s EXCEPT !.phase = ph]
       PROVE  /\ Sound(z) /\ z.conn = t.conn /\ z.view = v /\ z.ack = t.ack /\ z.bound = t.bound /\ z.pending = t.pending
              /\ z.seq = t.seq /\ z.missed = t.missed /\ z.chain = t.chain /\ z.caller = t.caller /\ z.current = t.current
              /\ z.phase = ph /\ z.waiting = <<>> /\ z.out = <<>>
  <2>1. ph \in Phases /\ v \in Seq(Nat) /\ None \in Pages \cup {None} /\ ph # "page"
    BY <1>10 DEF Phases
  <2>2. /\ s \in Objects /\ s.conn = t.conn /\ s.view = v /\ s.ack = t.ack /\ s.bound = t.bound /\ s.pending = t.pending
        /\ s.seq = t.seq /\ s.missed = t.missed /\ s.chain = t.chain /\ s.caller = t.caller /\ s.current = t.current
        /\ s.waiting = t.waiting /\ s.out = t.out
    BY <1>4, <1>11, <2>1 DEF Objects
  <2>3. /\ z \in Objects /\ z.conn = s.conn /\ z.view = s.view /\ z.ack = s.ack /\ z.bound = s.bound /\ z.pending = s.pending
        /\ z.seq = s.seq /\ z.missed = s.missed /\ z.chain = s.chain /\ z.caller = s.caller /\ z.current = s.current
        /\ z.phase = ph /\ z.waiting = s.waiting /\ z.out = s.out
    BY <1>13, <2>1, <2>2 DEF Objects
  <2> QED
    BY <1>4, <1>5, <2>1, <2>2, <2>3 DEF Sound
\* What both continuations share.
<1>14. ASSUME NEW ph \in {"boundary", "history"}, NEW z, z = [s EXCEPT !.phase = ph], NEW u, NEW r, NEW w,
              Asked(z, u, r, w), w.who = "est", w.caller = t.caller, r.method # "subscribe",
              ph = "boundary" => h = b, ph = "history" => h < b,
              Waits(u, 1), Matched(u, w, r, dq), Commit(u)
       PROVE  Stream' /\ Grew(this, this') /\ log' = log
  <2>1. /\ Sound(z) /\ z.conn = t.conn /\ z.view = v /\ z.ack = t.ack /\ z.bound = t.bound /\ z.pending = t.pending
        /\ z.seq = t.seq /\ z.missed = t.missed /\ z.chain = t.chain /\ z.caller = t.caller /\ z.current = t.current
        /\ z.phase = ph /\ z.waiting = <<>> /\ z.out = <<>>
    BY <1>13, <1>14
  <2>2. r \in Requests /\ w \in Waiters
    BY <1>14 DEF Asked
  <2>3. Append(<<>>, w) = <<w>> /\ Append(<<>>, r) = <<r>>
    OBVIOUS
  <2>4. /\ Sound(u) /\ u.conn = t.conn /\ u.view = v /\ u.ack = t.ack /\ ~u.bound /\ u.pending = t.pending
        /\ u.seq = 0 /\ ~u.missed /\ u.chain = <<>> /\ u.caller = t.caller /\ u.current = i
        /\ u.phase = ph /\ u.waiting = <<w>> /\ u.out = <<r>>
    <3>1. /\ Sound(u) /\ Carries(z, u) /\ u.bound = z.bound /\ u.pending = z.pending /\ u.chain = z.chain
          /\ u.waiting = Append(z.waiting, w) /\ u.out = Append(z.out, r)
      BY <1>14 DEF Asked
    <3>2. u.waiting = <<w>> /\ u.out = <<r>>
      BY <2>1, <2>3, <3>1
    <3>3. /\ u.conn = z.conn /\ u.view = z.view /\ u.ack = z.ack /\ u.seq = z.seq /\ u.missed = z.missed
          /\ u.caller = z.caller /\ u.current = z.current /\ u.phase = z.phase
      BY <3>1 DEF Carries
    <3> QED
      BY <1>1, <1>6, <2>1, <3>1, <3>2, <3>3
  <2>5. Placed(u)
    BY <1>3, <1>4, <2>4 DEF Placed, ChainBusy
  <2>6. Showing(u)
    BY <1>4, <1>8, <1>9, <1>10, <2>4 DEF Showing
  <2>7. AckSafe(u)
    <3>1. t.ack # None => Issued(t.ack) /\ (t.ack[2] <= n \/ Unknown(t.ack))
      BY <1>6, <1>7 DEF AckSafe
    <3>2. t.ack # None => Issued(t.ack) /\ (t.ack[2] <= h \/ Unknown(t.ack))
      BY <1>4, <1>8, <1>10, <3>1 DEF Issued
    <3> QED
      BY <1>10, <2>4, <3>2 DEF AckSafe
  <2>8. Streaming(u, dq)
    <3>1. Begun(u, dq, i)
      BY <1>6, <2>4 DEF Begun
    <3>2. Reads1(u)
      BY <1>7, <1>8, <1>10, <1>14, <2>4 DEF Reads1
    <3> QED
      BY <1>6, <2>4, <3>1, <3>2 DEF Streaming
  <2>9. Entry(u, 1, r, dq)
    <3>1. u.waiting[1] = w /\ Len(u.waiting) = 1
      BY <2>4
    <3>2. Lined(u, 1)
      BY <1>14, <2>4, <3>1 DEF Lined, Est, Late, Joined, Awaiting
    <3> QED
      BY <1>14, <3>1, <3>2 DEF Entry
  <2>10. Conversing(u, dq, Cat(uq, u.out))
    <3>1. Conversing(u, dq, Cat(uq, <<r>>))
      BY <1>4, <1>5, <2>2, <2>4, <2>9, ConversingFirst
    <3> QED
      BY <2>4, <3>1
  <2>11. Good(u, dq, Cat(uq, u.out))
    BY <2>5, <2>6, <2>7, <2>8, <2>10 DEF Good
  <2>12. Proper(u.out) /\ Grew(this, u) /\ u.conn = c /\ Sound(u)
    BY <1>1, <1>4, <1>7, <1>10, <1>14, <2>4, ProperFew DEF Grew
  <2> QED
    BY <1>1, <1>2, <1>3, <1>14, <2>11, <2>12, OwnStream
<1>15. "est" \in Whos /\ t.caller \in Callers
    BY <1>4 DEF Whos, Objects
<1>16. CASE page.complete
  <2>1. PICK z : z = [s EXCEPT !.phase = "boundary"]
    OBVIOUS
  <2>2. PICK q : q = <<i, b>>
    OBVIOUS
  <2>3. Issued(q) /\ q[1] = i /\ q[2] = b
    BY <1>6, <1>7, <1>8, <2>2, IssuedIs
  <2>4. q \in CursorIds
    BY <1>6, <1>8, <2>2, Bounds DEF CursorIds
  <2>5. PICK r, w, u : r = [method |-> "ack", sub |-> z.current, cursor |-> q] /\ w = Waiter("est", q, z.caller) /\ u = AskAck(z, "est", q)
    OBVIOUS
  <2>6. /\ Sound(z) /\ z.view = v /\ z.seq = t.seq /\ z.current = i /\ z.phase = "boundary" /\ z.waiting = <<>> /\ z.caller = t.caller
    BY <1>1, <1>13, <2>1
  <2>7. Asked(z, u, r, w) /\ w.who = "est" /\ w.cursor = q /\ w.caller = t.caller
    BY <1>15, <2>4, <2>5, <2>6, AskAckFields
  <2>8. Append(<<>>, w) = <<w>>
    OBVIOUS
  <2>9. u.view = v /\ u.seq = 0 /\ u.current = i /\ u.phase = "boundary" /\ u.waiting = <<w>>
    BY <1>6, <2>6, <2>7, <2>8 DEF Asked, Carries
  <2>10. Waits(u, 1)
    <3>1. u.waiting[1] = w
      BY <2>9
    <3>2. h = b
      BY <1>10, <1>16
    <3> QED
      BY <1>6, <1>7, <1>8, <1>10, <2>3, <2>7, <2>9, <3>1, <3>2 DEF Waits
  <2>11. Matched(u, w, r, dq)
    <3>1. r = [method |-> "ack", sub |-> i, cursor |-> q]
      BY <2>5, <2>6
    <3>2. subs[i].ackPos < b
      BY <1>6, <1>8
    <3>3. AckMatched(u, w, r)
      BY <2>3, <2>7, <2>9, <3>1, <3>2 DEF AckMatched
    <3> QED
      BY <2>7, <2>9, <3>3 DEF Matched, Est
  <2>12. Commit(u)
    BY <1>10, <1>12, <1>16, <2>1, <2>2, <2>5
  <2>13. h = b /\ r.method # "subscribe"
    BY <1>10, <1>16, <2>5
  <2> QED
    BY <1>14, <2>1, <2>7, <2>10, <2>11, <2>12, <2>13
<1>17. CASE ~page.complete
  <2>1. PICK z : z = [s EXCEPT !.phase = "history"]
    OBVIOUS
  <2>2. PICK r, w : r = [method |-> "history", sub |-> i, offset |-> h] /\ w = Waiter("est", None, t.caller)
    OBVIOUS
  <2>3. PICK u : u = Ask(z, r, w)
    OBVIOUS
  <2>4. r \in Requests /\ w \in Waiters /\ w.who = "est" /\ w.caller = t.caller /\ r.method # "subscribe"
    BY <1>6, <1>10, <1>15, <2>2, Nothing, WaiterIs DEF Requests, Waiter
  <2>5. /\ Sound(z) /\ z.view = v /\ z.seq = t.seq /\ z.current = i /\ z.phase = "history" /\ z.waiting = <<>> /\ z.caller = t.caller
    BY <1>1, <1>13, <2>1
  <2>6. Asked(z, u, r, w)
    BY <2>3, <2>4, <2>5, AskFields
  <2>7. Append(<<>>, w) = <<w>>
    OBVIOUS
  <2>8. u.view = v /\ u.current = i /\ u.phase = "history" /\ u.waiting = <<w>>
    BY <2>5, <2>6, <2>7 DEF Asked, Carries
  <2>9. Waits(u, 1)
    BY <2>4, <2>8 DEF Waits, Acking
  <2>10. Matched(u, w, r, dq)
    <3>1. HistoryMatched(u, r)
      BY <1>10, <2>2, <2>8 DEF HistoryMatched
    <3> QED
      BY <2>4, <2>8, <3>1 DEF Matched, Est, Acking
  <2>11. Commit(u)
    BY <1>9, <1>10, <1>12, <1>17, <2>1, <2>2, <2>3
  <2>12. h < b
    BY <1>10, <1>17
  <2> QED
    BY <1>14, <2>1, <2>4, <2>6, <2>9, <2>10, <2>11, <2>12
<1> QED
    BY <1>16, <1>17

\* The object when an answer was taken from the queue.
Rests(t, a) ==
    /\ Sound(a) /\ Carries(t, a) /\ a.bound = t.bound /\ a.pending = t.pending /\ a.chain = t.chain /\ a.newest = t.newest
    /\ a.started = t.started /\ a.hook = t.hook /\ a.tried = t.tried /\ a.out = <<>> /\ a.waiting = Tail(t.waiting)

LEMMA AnsweredRests ==
    ASSUME IInv, NEW who, Answer(who), NEW t, t = this, NEW a, a = Answered
    PROVE  Rests(t, a)
<1>1. t \in Objects /\ t.out = <<>> /\ Sound(a)
    BY InvFacts, AnswerIs
<1>2. PICK ws : ws = Tail(t.waiting)
    OBVIOUS
<1>3. a = [t EXCEPT !.waiting = ws]
    BY <1>2 DEF Answered
<1>4. /\ Carries(t, a) /\ a.bound = t.bound /\ a.pending = t.pending /\ a.chain = t.chain /\ a.newest = t.newest
      /\ a.started = t.started /\ a.hook = t.hook /\ a.tried = t.tried /\ a.out = t.out /\ a.waiting = ws
    BY <1>1, <1>3 DEF Objects, Carries
<1> QED
    BY <1>1, <1>2, <1>4 DEF Rests

\* All of it that counts is the same.
RestsIn(t, a) ==
    /\ a.conn = t.conn /\ a.bound = t.bound /\ a.view = t.view /\ a.current = t.current /\ a.ack = t.ack
    /\ a.phase = t.phase /\ a.caller = t.caller /\ a.force = t.force /\ a.cursor = t.cursor /\ a.page = t.page
    /\ a.pending = t.pending /\ a.seq = t.seq /\ a.chain = t.chain /\ a.missed = t.missed /\ a.out = <<>>
    /\ a.waiting = Tail(t.waiting) /\ a \in Objects

LEMMA RestsIs ==
    ASSUME NEW t, NEW a, Rests(t, a)
    PROVE  RestsIn(t, a)
BY DEF Rests, RestsIn, Carries, Sound

LEMMA PartingNone ==
    ASSUME NEW a, Sound(a), a.waiting = <<>>, NEW x
    PROVE  Parting(Superseded(a).waiting, x) /\ Len(a.waiting) = 0
<1>1. Len(Superseded(a).waiting) = Len(a.waiting) /\ Len(a.waiting) = 0
    BY SupersededFields
<1> QED
    BY <1>1 DEF Parting

\* A load fails with nobody else waiting.
LEMMA FailedAlone ==
    ASSUME IInv, IInv', Stream, Answer("est"), this.phase \in {"history", "boundary"}, Commit(LoadingFailed(Answered))
    PROVE  Stream' /\ Grew(this, this') /\ log' = log
<1>1. PICK t, c, dq, uq, w, a : t = this /\ c = this.conn /\ dq = down[c] /\ uq = up[c] /\ w = Head(t.waiting) /\ a = Answered
    OBVIOUS
<1>2. /\ c \in Conns /\ t.conn = c /\ Paired(t, dq, uq) /\ Good(t, dq, uq) /\ w.who = "est"
    BY <1>1, Received
<1>3. Est(w) /\ Recent(Tail(dq)) /\ Tail(dq) \in Seq(Messages) /\ uq \in Seq(Requests)
    BY <1>1, <1>2, HeadIs DEF Est, Paired
<1>4. Tail(t.waiting) = <<>> /\ Len(Talk(Tail(dq), uq)) = 0
    BY <1>1, <1>2, <1>3, BehindEst
<1>5. Rests(t, a) /\ RestsIn(t, a)
    BY <1>1, AnsweredRests, RestsIs
<1>6. Sound(a) /\ a.waiting = <<>> /\ a.conn = c /\ a.out = <<>> /\ a.conn # 0
    BY <1>2, <1>4, <1>5 DEF Rests, RestsIn, Conns
<1>7. AckSafe(t) /\ Showing(t)
    BY <1>2 DEF Good
<1>8. AckSafe(a) /\ Showing(a)
    BY <1>5, <1>7 DEF AckSafe, Showing, RestsIn
<1>9. PICK u, d : u = LoadingFailed(a) /\ d = Tail(dq)
    OBVIOUS
<1>10. Parting(Superseded(a).waiting, Talk(d, uq)) /\ Len(a.waiting) = Len(Talk(d, uq))
    BY <1>4, <1>6, <1>9, PartingNone
<1>11. d \in Seq(Messages) /\ Recent(d)
    BY <1>3, <1>9
<1>12. Sound(u) /\ u.conn = a.conn /\ u.view = a.view /\ Good(u, d, Cat(uq, u.out)) /\ Proper(u.out)
    BY <1>3, <1>6, <1>8, <1>9, <1>10, <1>11, LoadingFailedGood
<1>13. Commit(u)
    BY <1>1, <1>9
<1>14. Grew(this, u)
  <2>1. Len(t.view) \in Nat
    BY <1>2, ObjectIs DEF Paired
  <2> QED
    BY <1>1, <1>5, <1>12, <2>1 DEF Grew, RestsIn
<1> QED
    BY <1>1, <1>6, <1>9, <1>12, <1>13, <1>14, AnswerStream

LEMMA PageStream ==
    ASSUME IInv, IInv', Stream, PageAnswered
    PROVE  Stream' /\ Grew(this, this') /\ log' = log
<1>1. PICK t, c, dq, uq, w, a, m, i : /\ t = this /\ c = this.conn /\ dq = down[c] /\ uq = up[c] /\ w = Head(t.waiting)
                                      /\ a = Answered /\ m = Message /\ i = t.current
    OBVIOUS
<1>2. Answer("est") /\ t.phase = "history"
    BY <1>1 DEF PageAnswered
<1>3. /\ c \in Conns /\ t.conn = c /\ Paired(t, dq, uq) /\ Good(t, dq, uq) /\ w.who = "est" /\ Message = Head(dq)
    BY <1>1, <1>2, Received
<1>4. /\ Est(w) /\ Recent(Tail(dq)) /\ Tail(dq) \in Seq(Messages) /\ uq \in Seq(Requests)
      /\ Entry(t, 1, m, dq) /\ w = t.waiting[1] /\ m \in Replies
    BY <1>1, <1>3, HeadIs DEF Est, Paired
<1>5. Tail(t.waiting) = <<>> /\ Len(Talk(Tail(dq), uq)) = 0
    BY <1>1, <1>2, <1>3, <1>4, BehindEst
<1>6. Rests(t, a) /\ RestsIn(t, a)
    BY <1>1, <1>2, AnsweredRests, RestsIs
<1>7. Sizes /\ SubsInv /\ Roster /\ Sound(t)
    BY <1>3, InvFacts DEF Stream, Paired
<1>8. /\ Begun(t, dq, i) /\ Reads1(t) /\ t.seq = 0 /\ ~t.bound /\ ~t.missed /\ t.chain = <<>> /\ AckSafe(t)
      /\ Len(t.view) \in Nat /\ t.view = Span(1, Len(t.view)) /\ Len(t.view) <= log /\ Recent(t.pending)
      /\ subs[i].base \in Nat
    BY <1>1, <1>2, <1>3, <1>7, SnapshotIs DEF Reading
<1>9. CASE m.kind = "page"
  <2>1. HistoryMatched(t, m)
    BY <1>2, <1>4 DEF Entry, Matched
  <2>2. m = Page(i, Len(t.view), subs[i].base) /\ m \in Pages
    <3>1. m \notin Errors /\ \A j, n : m # [method |-> "history", sub |-> j, offset |-> n]
      BY <1>4, <1>9, ReplySorts
    <3> QED
      BY <1>1, <1>4, <1>9, <2>1, <3>1, Kinds DEF HistoryMatched
  <2>3. PICK u, d : u = [a EXCEPT !.phase = "page", !.page = m] /\ d = Tail(dq)
    OBVIOUS
  <2>4. /\ u \in Objects /\ u.conn = a.conn /\ u.bound = a.bound /\ u.view = a.view /\ u.current = a.current /\ u.ack = a.ack
        /\ u.phase = "page" /\ u.page = m /\ u.pending = a.pending /\ u.seq = a.seq /\ u.chain = a.chain
        /\ u.missed = a.missed /\ u.out = a.out /\ u.waiting = a.waiting
    <3>1. a \in Objects /\ m \in Pages \cup {None} /\ "page" \in Phases
      BY <1>6, <2>2 DEF RestsIn, Phases
    <3> QED
      BY <2>3, <3>1 DEF Objects
  <2>5. /\ u.conn = t.conn /\ u.bound = t.bound /\ u.view = t.view /\ u.current = i /\ u.ack = t.ack
        /\ u.pending = t.pending /\ u.seq = t.seq /\ u.chain = t.chain
        /\ u.missed = t.missed /\ u.out = <<>> /\ u.waiting = <<>>
    BY <1>1, <1>5, <1>6, <2>4 DEF RestsIn
  <2>6. Sound(u)
    BY <2>2, <2>4 DEF Sound
  <2>7. Placed(u)
    BY <1>3, <1>8, <2>4, <2>5 DEF Placed, ChainBusy, Conns
  <2>8. AckSafe(u) /\ Showing(u)
    BY <1>8, <2>4, <2>5 DEF AckSafe, Showing
  <2>9. Streaming(u, d)
    <3>1. Orderly(i, u.ack)
      BY <1>8, <2>5 DEF Begun
    <3>2. Begun(u, d, i)
      BY <1>3, <1>8, <2>3, <2>5, <3>1, BegunTail
    <3>3. Reads1(u)
      BY <1>1, <1>2, <1>8, <2>2, <2>4, <2>5 DEF Reads1
    <3> QED
      BY <1>4, <1>8, <2>3, <2>5, <2>4, <3>2, <3>3 DEF Streaming
  <2>10. Good(u, d, uq)
    BY <2>5, <2>7, <2>8, <2>9, ConversingNone DEF Good
  <2>11. Cat(uq, u.out) = uq /\ Proper(u.out) /\ Grew(t, u)
    BY <1>4, <1>8, <2>5, CatNone, ProperFew DEF Grew
  <2>12. Commit(u)
    BY <1>1, <1>9, <2>3 DEF PageAnswered
  <2> QED
    <3>1. Good(u, Tail(dq), Cat(uq, u.out)) /\ u.conn = this.conn /\ Grew(this, u) /\ Proper(u.out)
      BY <1>1, <1>3, <2>3, <2>5, <2>10, <2>11
    <3> QED
      BY <1>1, <1>2, <2>6, <2>12, <3>1, AnswerStream
<1>10. CASE m.kind # "page"
  <2>1. Commit(LoadingFailed(Answered))
    BY <1>1, <1>10 DEF PageAnswered
  <2> QED
    BY <1>1, <1>2, <2>1, FailedAlone
<1> QED
    BY <1>9, <1>10

LEMMA BoundaryStream ==
    ASSUME IInv, IInv', Stream, BoundaryAnswered
    PROVE  Stream' /\ Grew(this, this') /\ log' = log
<1>1. PICK t, c, dq, uq, w, a, m, i : /\ t = this /\ c = this.conn /\ dq = down[c] /\ uq = up[c] /\ w = Head(t.waiting)
                                      /\ a = Answered /\ m = Message /\ i = t.current
    OBVIOUS
<1>2. Answer("est") /\ t.phase = "boundary"
    BY <1>1 DEF BoundaryAnswered
<1>3. /\ c \in Conns /\ t.conn = c /\ Paired(t, dq, uq) /\ Good(t, dq, uq) /\ w.who = "est" /\ Message = Head(dq)
    BY <1>1, <1>2, Received
<1>4. /\ Est(w) /\ Recent(Tail(dq)) /\ Tail(dq) \in Seq(Messages) /\ uq \in Seq(Requests)
      /\ Entry(t, 1, m, dq) /\ w = t.waiting[1] /\ m \in Replies /\ w \in Waiters
    BY <1>1, <1>3, HeadIs DEF Est, Paired
<1>5. Tail(t.waiting) = <<>> /\ Len(Talk(Tail(dq), uq)) = 0
    BY <1>1, <1>2, <1>3, <1>4, BehindEst
<1>6. Rests(t, a) /\ RestsIn(t, a)
    BY <1>1, <1>2, AnsweredRests, RestsIs
<1>7. Sizes /\ SubsInv /\ Roster /\ Sound(t) /\ Table
    BY <1>3, InvFacts DEF Stream, Paired
<1>8. /\ i \in 1..Len(subs) /\ Begun(t, dq, i) /\ Reads1(t) /\ t.seq = 0 /\ ~t.bound /\ ~t.missed /\ t.chain = <<>> /\ AckSafe(t)
      /\ Len(t.view) \in Nat /\ t.view = Span(1, Len(t.view)) /\ Len(t.view) <= log /\ Recent(t.pending)
      /\ subs[i].base \in Nat /\ subs[i].ackPos \in Int /\ log \in Nat
    BY <1>1, <1>2, <1>3, <1>7, SnapshotIs DEF Reading
<1>9. CASE m.kind = "success"
  <2>1. PICK q : q = w.cursor
    OBVIOUS
  <2>2. AckMatched(t, w, m) /\ Issued(q) /\ q[1] = i /\ q[2] <= Len(t.view) /\ q \in CursorIds
    <3>1. Acking(t, w)
      BY <1>2, <1>4 DEF Acking
    <3>2. AckMatched(t, w, m) /\ Waits(t, 1)
      BY <1>4, <3>1 DEF Entry, Matched
    <3>3. w.cursor \in CursorIds
      BY <1>4 DEF Waiters
    <3> QED
      BY <1>1, <1>4, <2>1, <3>1, <3>2, <3>3 DEF Waits
  <2>3. subs[i].state = "active" /\ q[2] <= subs[i].ackPos
    <3>1. m = Success /\ m \notin Errors /\ \A j, p : m # [method |-> "ack", sub |-> j, cursor |-> p]
      BY <1>4, <1>9, ReplySorts
    <3> QED
      BY <1>1, <2>1, <2>2, <3>1 DEF AckMatched
  <2>4. q[2] \in Int /\ q # None
    BY <1>8, <2>2 DEF Issued
  <2>5. Orderly(i, q)
    <3>1. Orderly(i, t.ack)
      BY <1>8 DEF Begun
    <3> QED
      BY <1>7, <1>8, <2>2, <2>3, <2>4, <3>1, OrderlyAck
  <2>6. PICK u, d : u = [a EXCEPT !.phase = "ready", !.ack = q] /\ d = Tail(dq)
    OBVIOUS
  <2>7. /\ u \in Objects /\ u.conn = a.conn /\ u.bound = a.bound /\ u.view = a.view /\ u.current = a.current /\ u.ack = q
        /\ u.phase = "ready" /\ u.pending = a.pending /\ u.seq = a.seq /\ u.chain = a.chain
        /\ u.missed = a.missed /\ u.out = a.out /\ u.waiting = a.waiting
    <3>1. a \in Objects /\ q \in CursorIds /\ "ready" \in Phases
      BY <1>6, <2>2 DEF RestsIn, Phases
    <3> QED
      BY <2>6, <3>1 DEF Objects
  <2>8. /\ u.conn = t.conn /\ u.bound = t.bound /\ u.view = t.view /\ u.current = i
        /\ u.pending = t.pending /\ u.seq = t.seq /\ u.chain = t.chain
        /\ u.missed = t.missed /\ u.out = <<>> /\ u.waiting = <<>>
    BY <1>1, <1>5, <1>6, <2>7 DEF RestsIn
  <2>9. Sound(u)
    BY <2>7 DEF Sound
  <2>10. Placed(u)
    BY <1>3, <1>8, <2>7, <2>8 DEF Placed, ChainBusy, Conns
  <2>11. AckSafe(u) /\ Showing(u)
    BY <1>8, <2>2, <2>4, <2>7, <2>8 DEF AckSafe, Showing
  <2>12. Streaming(u, d)
    <3>1. Begun(u, d, i)
      BY <1>3, <1>8, <2>5, <2>6, <2>7, <2>8, BegunTail
    <3>2. Reads1(u)
      BY <1>1, <1>2, <1>8, <2>3, <2>7, <2>8 DEF Reads1
    <3> QED
      BY <1>4, <1>8, <2>6, <2>7, <2>8, <3>1, <3>2 DEF Streaming
  <2>13. Good(u, d, uq)
    BY <2>8, <2>10, <2>11, <2>12, ConversingNone DEF Good
  <2>14. Cat(uq, u.out) = uq /\ Proper(u.out) /\ Grew(t, u)
    BY <1>4, <1>8, <2>8, CatNone, ProperFew DEF Grew
  <2>15. Commit(u)
    BY <1>1, <1>9, <2>1, <2>6 DEF BoundaryAnswered
  <2> QED
    <3>1. Good(u, Tail(dq), Cat(uq, u.out)) /\ u.conn = this.conn /\ Grew(this, u) /\ Proper(u.out)
      BY <1>1, <1>3, <2>6, <2>8, <2>13, <2>14
    <3> QED
      BY <1>1, <1>2, <2>9, <2>15, <3>1, AnswerStream
<1>10. CASE m.kind # "success"
  <2>1. Commit(LoadingFailed(Answered))
    BY <1>1, <1>10 DEF BoundaryAnswered
  <2> QED
    BY <1>1, <1>2, <2>1, FailedAlone
<1> QED
    BY <1>9, <1>10

-----------------------------------------------------------------------------
(* A bound view.                                                           *)

\* What a bound view stands on.
Bound(v, dq) ==
    LET i == v.current
    IN /\ Sound(v) /\ v.conn # 0 /\ v.bound /\ dq \in Seq(Messages) /\ Recent(dq) /\ Recent(v.pending)
       /\ i \in 1..Len(subs) /\ subs[i].conn = v.conn /\ Orderly(i, v.ack)
       /\ subs[i].state = "active" /\ v.seq <= subs[i].seq
       /\ subs[i].ackPos <= subs[i].base + v.seq /\ subs[i].base + v.seq <= Len(v.view)
       /\ v.ack # None => Issued(v.ack) /\ (v.ack[2] <= Len(v.view) \/ Unknown(v.ack))
       /\ Showing(v)

\* An acknowledgement that is waited for; establish() has one at most, and so has it while it drains.
AckEntry(v, k, m) ==
    LET w == v.waiting[k]
        q == w.cursor
        i == v.current
    IN /\ w.who \in {"est", "chain"} /\ Issued(q) /\ q[1] = i
       /\ q[2] <= subs[i].base + v.seq /\ q[2] <= Len(v.view)
       /\ \A j \in 1..(k - 1) : v.waiting[j].cursor[2] < q[2]
       /\ Est(w) => /\ v.phase = "drain" /\ w.caller = v.caller
                    /\ \A j \in (k + 1)..Len(v.waiting) : ~Est(v.waiting[j])
       /\ AckMatched(v, w, m)

AckLine(v, x) == \A k \in 1..Len(v.waiting) : AckEntry(v, k, x[k])

LEMMA BoundGood ==
    ASSUME NEW v, NEW dq, NEW uq, Bound(v, dq), Tracked(v, dq), AckLine(v, Talk(dq, uq)), v.phase \in {"drain", "idle"},
           v.phase = "idle" => v.pending = <<>>, v.chain # <<>> => ChainBusy(v)
    PROVE  Good(v, dq, uq)
<1>1. /\ Sound(v) /\ v.conn # 0 /\ v.bound /\ Recent(dq) /\ Recent(v.pending) /\ Showing(v)
      /\ v.ack # None => Issued(v.ack) /\ (v.ack[2] <= Len(v.view) \/ Unknown(v.ack))
    BY DEF Bound
<1>2. Following(v, dq)
    BY DEF Bound, Following
<1>3. Streaming(v, dq)
    BY <1>1, <1>2 DEF Streaming, Reading
<1>4. AckSafe(v)
    BY <1>1 DEF AckSafe
<1>5. Placed(v)
    BY <1>1 DEF Placed, Reading
<1>6. ASSUME NEW k \in 1..Len(v.waiting)
      PROVE  Entry(v, k, Talk(dq, uq)[k], dq)
  <2>1. PICK m, w : m = Talk(dq, uq)[k] /\ w = v.waiting[k]
    OBVIOUS
  <2>2. AckEntry(v, k, m)
    BY <2>1 DEF AckLine
  <2>3. w.who \in {"est", "chain"} /\ (Est(w) => v.phase = "drain" /\ w.caller = v.caller) /\ AckMatched(v, w, m)
    BY <2>1, <2>2 DEF AckEntry
  <2>4. Lined(v, k)
    BY <1>1, <2>1, <2>2 DEF AckEntry, Lined, Est, Late, Awaiting, Joined
  <2>5. Waits(v, k)
    BY <2>1, <2>2 DEF AckEntry, Waits
  <2>6. Matched(v, w, m, dq)
    BY <2>3 DEF Matched, Est
  <2> QED
    BY <2>1, <2>4, <2>5, <2>6 DEF Entry
<1>7. Conversing(v, dq, uq)
    BY <1>6 DEF Conversing, Entry
<1> QED
    BY <1>1, <1>3, <1>4, <1>5, <1>7 DEF Good

LEMMA GoodBound ==
    ASSUME NEW v, NEW dq \in Seq(Messages), NEW uq, Sound(v), Good(v, dq, uq), v.bound
    PROVE  /\ Bound(v, dq) /\ Tracked(v, dq) /\ AckLine(v, Talk(dq, uq)) /\ v.phase \in {"drain", "idle"}
           /\ v.phase = "idle" => v.pending = <<>>
           /\ v.chain # <<>> => ChainBusy(v)
<1>1. Placed(v) /\ Streaming(v, dq) /\ AckSafe(v) /\ Showing(v)
    BY DEF Good
<1>2. v.phase \in {"drain", "idle"} /\ v.conn # 0 /\ (v.chain # <<>> => ChainBusy(v))
    BY <1>1 DEF Placed
<1>3. Following(v, dq) /\ Recent(dq) /\ Recent(v.pending)
    BY <1>1 DEF Streaming
<1>4. Bound(v, dq) /\ Tracked(v, dq) /\ (v.phase = "idle" => v.pending = <<>>)
    BY <1>1, <1>2, <1>3 DEF Bound, Following, AckSafe
<1>5. Joined(v) /\ v.phase # "history"
    BY <1>2 DEF Joined
<1>6. ASSUME NEW k \in 1..Len(v.waiting)
      PROVE  AckEntry(v, k, Talk(dq, uq)[k])
  <2>1. PICK m, w : m = Talk(dq, uq)[k] /\ w = v.waiting[k]
    OBVIOUS
  <2>2. \A j \in 1..Len(v.waiting) : Acking(v, v.waiting[j]) /\ Lined(v, j) /\ Waits(v, j)
    BY <1>5, AllAcking
  <2>3. Acking(v, w) /\ w.who \in {"est", "chain"} /\ Lined(v, k) /\ Waits(v, k) /\ Matched(v, w, m, dq)
    BY <1>5, <2>1, AllAcking
  <2>4. AckMatched(v, w, m)
    BY <2>3 DEF Matched
  <2>5. Est(w) => /\ v.phase = "drain" /\ w.caller = v.caller
                  /\ \A j \in (k + 1)..Len(v.waiting) : ~Est(v.waiting[j])
    BY <1>2, <2>1, <2>3 DEF Lined, Awaiting
  <2>6. Len(v.waiting) \in Nat
    BY ObjectIs
  <2>7. \A j \in 1..(k - 1) : j \in 1..Len(v.waiting)
    BY <2>6
  <2>8. \A j \in 1..(k - 1) : v.waiting[j].cursor[2] < w.cursor[2]
    BY <2>1, <2>2, <2>3, <2>7 DEF Waits
  <2>9. /\ Issued(w.cursor) /\ w.cursor[1] = v.current
        /\ w.cursor[2] <= subs[v.current].base + v.seq /\ w.cursor[2] <= Len(v.view)
    BY <2>1, <2>3 DEF Waits
  <2> QED
    BY <2>1, <2>3, <2>4, <2>5, <2>8, <2>9 DEF AckEntry
<1> QED
    BY <1>2, <1>4, <1>6 DEF AckLine

\* The view and the sequence have grown.
Onwards(v, u) ==
    /\ u.waiting = v.waiting /\ u.current = v.current /\ u.ack = v.ack
    /\ v.seq <= u.seq /\ Len(v.view) <= Len(u.view) /\ v.seq \in Int /\ u.seq \in Int
    /\ Len(v.view) \in Int /\ Len(u.view) \in Int /\ subs[v.current].base \in Int
    /\ \/ u.phase = v.phase /\ u.caller = v.caller
       \/ \A k \in 1..Len(v.waiting) : v.waiting[k].who = "chain"

LEMMA AckMatchedSame ==
    ASSUME NEW v, NEW u, u.current = v.current, u.ack = v.ack, NEW w, NEW m
    PROVE  AckMatched(v, w, m) => AckMatched(u, w, m)
BY DEF AckMatched, Lapsed

LEMMA IssuedInt ==
    ASSUME NEW q, Issued(q), log \in Nat
    PROVE  q[2] \in Int /\ q[2] \in Nat /\ q[2] <= log /\ q # None
BY DEF Issued

LEMMA AckLineGrown ==
    ASSUME NEW v, NEW u, Onwards(v, u), NEW x, AckLine(v, x), log \in Nat
    PROVE  AckLine(u, x)
<1> SUFFICES ASSUME NEW k \in 1..Len(u.waiting)
             PROVE  AckEntry(u, k, x[k])
    BY DEF AckLine
<1>1. PICK w, m, q : w = u.waiting[k] /\ m = x[k] /\ q = w.cursor
    OBVIOUS
<1>2. u.waiting = v.waiting /\ u.current = v.current /\ u.ack = v.ack
    BY DEF Onwards
<1>3. AckEntry(v, k, m)
    BY <1>1, <1>2 DEF AckLine
<1>4. /\ w.who \in {"est", "chain"} /\ Issued(q) /\ q[1] = v.current
      /\ q[2] <= subs[v.current].base + v.seq /\ q[2] <= Len(v.view)
      /\ \A j \in 1..(k - 1) : u.waiting[j].cursor[2] < q[2]
      /\ Est(w) => /\ v.phase = "drain" /\ w.caller = v.caller
                   /\ \A j \in (k + 1)..Len(u.waiting) : ~Est(u.waiting[j])
      /\ AckMatched(v, w, m)
    BY <1>1, <1>2, <1>3 DEF AckEntry
<1>5. q[2] \in Int
    BY <1>4, IssuedInt
<1>6. q[2] <= subs[u.current].base + u.seq /\ q[2] <= Len(u.view)
    BY <1>2, <1>4, <1>5 DEF Onwards
<1>7. Est(w) => u.phase = "drain" /\ w.caller = u.caller
    BY <1>1, <1>2, <1>4 DEF Onwards, Est
<1>8. AckMatched(u, w, m)
    BY <1>2, <1>4, AckMatchedSame
<1> QED
    BY <1>1, <1>2, <1>4, <1>6, <1>7, <1>8 DEF AckEntry

\* One acknowledgement more, for a later event.
LEMMA AckLineAsk ==
    ASSUME NEW v, NEW u, Sound(v), NEW w \in Waiters, NEW r, NEW x \in Seq(Replies \cup Requests), r \in Requests,
           Len(v.waiting) = Len(x), AckLine(v, x),
           u.waiting = Append(v.waiting, w), u.current = v.current, u.ack = v.ack, u.phase = v.phase, u.caller = v.caller,
           u.seq = v.seq, u.view = v.view, log \in Nat,
           w.who = "chain" \/ (Len(v.waiting) = 0 /\ w.who = "est" /\ v.phase = "drain" /\ w.caller = v.caller),
           NEW q, q = w.cursor, Issued(q), q[1] = v.current, q[2] <= subs[v.current].base + v.seq, q[2] <= Len(v.view),
           \A k \in 1..Len(v.waiting) : v.waiting[k].cursor[2] < q[2],
           r = [method |-> "ack", sub |-> v.current, cursor |-> q], subs[v.current].ackPos < q[2]
    PROVE  AckLine(u, Append(x, r))
<1>1. v.waiting \in Seq(Waiters) /\ Len(v.waiting) \in Nat
    BY SoundLengths
<1>2. PICK n \in Nat : n = Len(v.waiting)
    BY <1>1
<1>3. /\ Len(u.waiting) = n + 1 /\ u.waiting[n + 1] = w /\ Len(x) = n
      /\ \A k \in 1..n : u.waiting[k] = v.waiting[k] /\ k \in 1..Len(v.waiting)
      /\ \A k \in 1..n : Append(x, r)[k] = x[k]
      /\ Append(x, r)[n + 1] = r
    BY <1>1, <1>2
<1>4. ASSUME NEW k \in 1..n
      PROVE  AckEntry(u, k, x[k])
  <2>1. PICK y, m, p : y = v.waiting[k] /\ m = x[k] /\ p = y.cursor
    OBVIOUS
  <2>2. AckEntry(v, k, m) /\ u.waiting[k] = y
    BY <1>3, <2>1 DEF AckLine
  <2>3. /\ y.who \in {"est", "chain"} /\ Issued(p) /\ p[1] = v.current
        /\ p[2] <= subs[v.current].base + v.seq /\ p[2] <= Len(v.view)
        /\ \A j \in 1..(k - 1) : v.waiting[j].cursor[2] < p[2]
        /\ Est(y) => /\ v.phase = "drain" /\ y.caller = v.caller
                     /\ \A j \in (k + 1)..Len(v.waiting) : ~Est(v.waiting[j])
        /\ AckMatched(v, y, m)
    BY <2>1, <2>2 DEF AckEntry
  <2>4. \A j \in 1..(k - 1) : u.waiting[j].cursor[2] < p[2]
    <3>1. \A j \in 1..(k - 1) : j \in 1..n
      OBVIOUS
    <3> QED
      BY <1>3, <2>3, <3>1
  <2>5. w.who = "chain"
    BY <1>2
  <2>6. Est(y) => \A j \in (k + 1)..Len(u.waiting) : ~Est(u.waiting[j])
    <3>1. \A j \in (k + 1)..(n + 1) : j = n + 1 \/ (j \in 1..n /\ j \in (k + 1)..Len(v.waiting))
      BY <1>2
    <3> QED
      BY <1>3, <2>3, <2>5, <3>1 DEF Est
  <2>7. AckMatched(u, y, m)
    BY <2>3, AckMatchedSame
  <2> QED
    BY <2>1, <2>2, <2>3, <2>4, <2>6, <2>7 DEF AckEntry
<1>5. AckEntry(u, n + 1, r)
  <2>1. \A j \in 1..((n + 1) - 1) : u.waiting[j].cursor[2] < q[2]
    <3>1. \A j \in 1..((n + 1) - 1) : j \in 1..n
      OBVIOUS
    <3> QED
      BY <1>3, <3>1
  <2>2. \A j \in ((n + 1) + 1)..Len(u.waiting) : FALSE
    BY <1>3
  <2>3. AckMatched(u, w, r)
    BY DEF AckMatched
  <2> QED
    BY <1>3, <2>1, <2>2, <2>3 DEF AckEntry, Est
<1>6. ASSUME NEW k \in 1..Len(u.waiting)
      PROVE  AckEntry(u, k, Append(x, r)[k])
  <2>1. CASE k = n + 1
    BY <1>3, <1>5, <2>1
  <2>2. CASE k # n + 1
    <3>1. k \in 1..n
      BY <1>3, <2>2
    <3> QED
      BY <1>3, <1>4, <3>1
  <2> QED
    BY <2>1, <2>2
<1> QED
    BY <1>6 DEF AckLine

-----------------------------------------------------------------------------
(* An acknowledgement of a bound view is answered.                         *)

\* The object without its oldest waiter, and with the cursor q acknowledged.
Fewer(t, v, q) ==
    /\ Sound(v) /\ v.conn = t.conn /\ v.bound = t.bound /\ v.view = t.view /\ v.current = t.current
    /\ v.ack = q /\ v.phase = t.phase /\ v.caller = t.caller /\ v.pending = t.pending
    /\ v.chain = t.chain /\ v.seq = t.seq /\ v.missed = t.missed /\ v.waiting = Tail(t.waiting)

\* The cursor is the one that was acknowledged before, or the one of the answer.
Settles(t, dq, q) ==
    q = t.ack \/ (q = Head(t.waiting).cursor /\ Head(dq) = Success)

LEMMA AllIds ==
    ASSUME NEW q \in CursorIds, q # None, NEW i, q[1] = i, NEW p, q[2] = p
    PROVE  q = <<i, p>>
BY DEF CursorIds, None

\* What the answer says of the cursor.
LEMMA SettledIs ==
    ASSUME NEW t, NEW dq, NEW uq, Paired(t, dq, uq), Bound(t, dq), AckLine(t, Talk(dq, uq)),
           NEW w, w = Head(t.waiting), NEW q, q = w.cursor, NEW i, i = t.current, log \in Nat
    PROVE  /\ w.who \in {"est", "chain"} /\ AckMatched(t, w, Head(dq)) /\ q \in CursorIds
           /\ Issued(q) /\ q # None /\ q[1] = i /\ q[2] \in Nat /\ q[2] <= Len(t.view)
           /\ Head(dq) = Success => q[2] <= subs[i].ackPos
           /\ Head(dq) # Success => Head(dq) \in Errors
<1>1. w = t.waiting[1] /\ Head(dq) = Talk(dq, uq)[1] /\ 1 \in 1..Len(t.waiting) /\ Head(dq) \in Replies
  <2>1. Head(t.waiting) = t.waiting[1] /\ Head(dq) = Talk(dq, uq)[1] /\ 1 \in 1..Len(t.waiting)
    BY Left
  <2>2. Head(dq) \in Replies
    BY DEF Paired
  <2> QED
    BY <2>1, <2>2
<1>2. AckEntry(t, 1, Head(dq))
    BY <1>1 DEF AckLine
<1>3. /\ w.who \in {"est", "chain"} /\ Issued(q) /\ q[1] = i /\ q[2] <= Len(t.view) /\ AckMatched(t, w, Head(dq))
    BY <1>1, <1>2 DEF AckEntry
<1>4. q[2] \in Nat /\ q # None
    BY <1>3, IssuedInt
<1>5. q \in CursorIds
  <2>1. t.waiting[1] \in Waiters
    <3>1. Sound(t)
      BY DEF Paired
    <3>2. t.waiting \in Seq(Waiters)
      BY <3>1, ObjectIs
    <3> QED
      BY <1>1, <3>2
  <2> QED
    BY <1>1, <2>1 DEF Waiters
<1>6. \A j, p : Head(dq) # [method |-> "ack", sub |-> j, cursor |-> p]
    BY <1>1, ReplySorts
<1>7. Head(dq) = Success => Head(dq) \notin Errors
    BY <1>1, ReplySorts DEF Success, Errors
<1>8. Head(dq) = Success => q[2] <= subs[i].ackPos
    BY <1>3, <1>6, <1>7 DEF AckMatched
<1>9. Head(dq) # Success => Head(dq) \in Errors
    BY <1>3, <1>6 DEF AckMatched
<1> QED
    BY <1>3, <1>4, <1>5, <1>8, <1>9

\* The acknowledgements behind it.
LEMMA FewerLine ==
    ASSUME NEW t, NEW dq, NEW uq, Paired(t, dq, uq), Bound(t, dq), AckLine(t, Talk(dq, uq)), log \in Nat,
           NEW v, NEW q, Fewer(t, v, q), Settles(t, dq, q)
    PROVE  AckLine(v, Talk(Tail(dq), uq))
<1>1. PICK x, y : x = Talk(dq, uq) /\ y = Talk(Tail(dq), uq)
    OBVIOUS
<1>2. PICK n \in Nat : n = Len(v.waiting)
    BY Left DEF Fewer
<1>3. /\ Len(t.waiting) = n + 1 /\ 1 \in 1..Len(t.waiting) /\ Head(t.waiting) = t.waiting[1]
      /\ \A k \in 1..n : v.waiting[k] = t.waiting[k + 1] /\ k + 1 \in 1..Len(t.waiting) /\ y[k] = x[k + 1]
    BY <1>1, <1>2, Left DEF Fewer
<1> SUFFICES ASSUME NEW k \in 1..n
             PROVE  AckEntry(v, k, y[k])
    BY <1>1, <1>2 DEF AckLine
<1>4. PICK w, m, p : w = v.waiting[k] /\ m = y[k] /\ p = w.cursor
    OBVIOUS
<1>5. AckEntry(t, k + 1, m) /\ w = t.waiting[k + 1]
    BY <1>1, <1>3, <1>4 DEF AckLine
<1>6. /\ w.who \in {"est", "chain"} /\ Issued(p) /\ p[1] = t.current
      /\ p[2] <= subs[t.current].base + t.seq /\ p[2] <= Len(t.view)
      /\ \A j \in 1..((k + 1) - 1) : t.waiting[j].cursor[2] < p[2]
      /\ Est(w) => /\ t.phase = "drain" /\ w.caller = t.caller
                   /\ \A j \in ((k + 1) + 1)..Len(t.waiting) : ~Est(t.waiting[j])
      /\ AckMatched(t, w, m)
    BY <1>4, <1>5 DEF AckEntry
<1>7. v.current = t.current /\ v.seq = t.seq /\ v.view = t.view /\ v.phase = t.phase /\ v.caller = t.caller /\ v.ack = q
    BY DEF Fewer
<1>8. \A j \in 1..(k - 1) : v.waiting[j].cursor[2] < p[2]
  <2>1. \A j \in 1..(k - 1) : j \in 1..n /\ j + 1 \in 1..((k + 1) - 1)
    OBVIOUS
  <2> QED
    BY <1>3, <1>6, <2>1
<1>9. Est(w) => \A j \in (k + 1)..Len(v.waiting) : ~Est(v.waiting[j])
  <2>1. \A j \in (k + 1)..n : j \in 1..n /\ j + 1 \in ((k + 1) + 1)..Len(t.waiting)
    BY <1>3
  <2> QED
    BY <1>2, <1>3, <1>6, <2>1
<1>10. AckMatched(v, w, m)
  <2>1. CASE q = t.ack
    BY <1>6, <1>7, <2>1, AckMatchedSame
  <2>2. CASE q # t.ack
    <3>1. q = Head(t.waiting).cursor /\ q \in CursorIds /\ q # None /\ q[1] = t.current /\ q[2] \in Nat
      BY <2>2, SettledIs DEF Settles
    <3>2. q[2] < p[2] /\ p[2] \in Nat
      <4>1. 1 \in 1..((k + 1) - 1)
        OBVIOUS
      <4> QED
        BY <1>3, <1>6, <3>1, <4>1, IssuedInt
    <3>3. q = <<t.current, q[2]>> /\ q[2] \in 0..(p[2] - 1)
      BY <3>1, <3>2, AllIds
    <3>4. Lapsed(t, w) => Lapsed(v, w)
      BY <1>4, <1>7, <3>3 DEF Lapsed
    <3> QED
      BY <1>6, <1>7, <3>4 DEF AckMatched
  <2> QED
    BY <2>1, <2>2
<1> QED
    BY <1>4, <1>6, <1>7, <1>8, <1>9, <1>10 DEF AckEntry

\* The view itself.
LEMMA FewerBound ==
    ASSUME Table, NEW t, NEW dq, NEW uq, Paired(t, dq, uq), Bound(t, dq), Tracked(t, dq), AckLine(t, Talk(dq, uq)), log \in Nat,
           subs[t.current].ackPos \in Int, NEW v, NEW q, Fewer(t, v, q), Settles(t, dq, q)
    PROVE  Bound(v, Tail(dq)) /\ (ChainBusy(v) => ChainBusy(t)) /\ Tracked(v, Tail(dq))
<1>1. PICK i, d : i = t.current /\ d = Tail(dq)
    OBVIOUS
<1>2. /\ Sound(v) /\ v.conn = t.conn /\ v.bound = t.bound /\ v.view = t.view /\ v.current = t.current
      /\ v.ack = q /\ v.phase = t.phase /\ v.caller = t.caller /\ v.pending = t.pending
      /\ v.chain = t.chain /\ v.seq = t.seq /\ v.missed = t.missed /\ v.waiting = Tail(t.waiting)
    BY DEF Fewer
<1>3. d \in Seq(Messages) /\ dq \in Seq(Messages) /\ dq # <<>> /\ Head(dq) \in Replies
    BY <1>1, Left DEF Paired
<1>4. Recent(d)
  <2>1. \A k \in 1..Len(d) : d[k] = dq[k + 1] /\ k + 1 \in 1..Len(dq)
    BY <1>1, <1>3
  <2> QED
    BY <2>1 DEF Bound, Recent
<1>5. Orderly(i, t.ack) /\ (t.ack # None => Issued(t.ack) /\ (t.ack[2] <= Len(t.view) \/ Unknown(t.ack)))
    BY <1>1 DEF Bound
<1>6. Orderly(i, q) /\ (q # None => Issued(q) /\ (q[2] <= Len(t.view) \/ Unknown(q)))
  <2>1. CASE q = t.ack
    BY <1>5, <2>1
  <2>2. CASE q # t.ack
    <3>1. Issued(q) /\ q[1] = i /\ q[2] \in Nat /\ q[2] <= Len(t.view) /\ q[2] <= subs[i].ackPos
      BY <1>1, <2>2, SettledIs DEF Settles
    <3>2. Orderly(i, q)
      BY <1>1, <1>5, <3>1, OrderlyAck
    <3> QED
      BY <3>1, <3>2
  <2> QED
    BY <2>1, <2>2
<1>7. Bound(v, d)
  <2>1. /\ t.conn # 0 /\ t.bound /\ Recent(t.pending)
        /\ i \in 1..Len(subs) /\ subs[i].conn = t.conn
        /\ subs[i].state = "active" /\ t.seq <= subs[i].seq
        /\ subs[i].ackPos <= subs[i].base + t.seq /\ subs[i].base + t.seq <= Len(t.view)
        /\ Showing(t)
    BY <1>1 DEF Bound
  <2>2. Showing(v)
    BY <1>2, <2>1 DEF Showing
  <2> QED
    BY <1>1, <1>2, <1>3, <1>4, <1>6, <2>1, <2>2 DEF Bound
<1>8. ChainBusy(v) => ChainBusy(t)
  <2>1. \A k \in 1..Len(v.waiting) : v.waiting[k] = t.waiting[k + 1] /\ k + 1 \in 1..Len(t.waiting)
    BY <1>2, Left
  <2> QED
    BY <2>1 DEF ChainBusy
<1>9. Tracked(v, d)
  <2>1. Of(d, i) = Of(dq, i)
    <3>1. Head(dq) \notin Happening(i)
      BY <1>3, HappeningIs
    <3> QED
      BY <1>1, <1>3, <3>1, OfHead
  <2> QED
    BY <1>1, <1>2, <1>8, <2>1 DEF Tracked
<1> QED
    BY <1>1, <1>7, <1>8, <1>9

-----------------------------------------------------------------------------
(* The drain of what was collected while loading.                          *)

\* The view is shown the deliveries up to number p.
Shown(v, u, p) ==
    LET b == subs[v.current].base
    IN u.view = Reduced(v.view, Span((b + v.seq) + 1, b + p))

\* The fields of a bound view that a step leaves alone.
Holds(v, u) == u.conn = v.conn /\ u.bound = v.bound /\ u.current = v.current /\ u.ack = v.ack

LEMMA AdvanceBound ==
    ASSUME Sizes, SubsInv, Roster, NEW v, NEW dq, Bound(v, dq), NEW p \in Nat, v.seq <= p, p <= subs[v.current].seq,
           NEW u, Sound(u), Holds(v, u), u.seq = p, Shown(v, u, p), Recent(u.pending)
    PROVE  /\ Bound(u, dq) /\ Len(v.view) <= Len(u.view)
           /\ subs[v.current].base + p <= Len(u.view) /\ subs[v.current].base + p <= log
           /\ subs[v.current].base + p <= MaxEvents
<1>1. PICK i, b, n : i = v.current /\ b = subs[i].base /\ n = Len(v.view)
    OBVIOUS
<1>2. /\ Sound(v) /\ v.conn # 0 /\ v.bound /\ dq \in Seq(Messages) /\ Recent(dq)
      /\ i \in 1..Len(subs) /\ subs[i].conn = v.conn /\ Orderly(i, v.ack)
      /\ subs[i].state = "active" /\ subs[i].ackPos <= b + v.seq /\ b + v.seq <= n
      /\ v.ack # None => Issued(v.ack) /\ (v.ack[2] <= n \/ Unknown(v.ack))
      /\ v.view = Span(1, n) /\ n <= log
    BY <1>1 DEF Bound, Showing
<1>3. /\ b \in Nat /\ subs[i].seq \in Nat /\ subs[i].ackPos \in Int /\ b + subs[i].seq = log /\ log \in Nat /\ log <= MaxEvents
      /\ n \in Nat /\ v.seq \in Nat /\ MaxEvents \in Nat
    <2>1. Len(v.view) \in Nat /\ v.seq \in Nat
      BY <1>2, ObjectIs
    <2> QED
      BY <1>1, <1>2, <2>1, SubIs, Bounds
<1>4. b + p <= log /\ p <= subs[i].seq
    BY <1>1, <1>3
<1>5. PICK a, c, k \in Nat : a = b + v.seq /\ c = b + p /\ k = IF n <= c THEN c ELSE n
    BY <1>3
<1>6. a <= n /\ a <= c /\ n <= k /\ c <= k /\ k <= log
    BY <1>2, <1>3, <1>4, <1>5
<1>7. u.view = Span(1, k)
  <2>1. u.view = Reduced(Span(1, n), Span(a + 1, c))
    BY <1>1, <1>2, <1>5 DEF Shown
  <2>2. Reduced(Span(1, n), Span(a + 1, c)) = Span(1, IF n <= c THEN c ELSE n)
    BY <1>3, <1>5, <1>6, ReducedSpan
  <2> QED
    BY <1>5, <2>1, <2>2
<1>8. Len(u.view) = k
    BY <1>5, <1>7, FirstNumbers
<1>9. Showing(u)
    BY <1>6, <1>7, <1>8 DEF Showing
<1>10. subs[i].ackPos <= b + p
    BY <1>2, <1>3, <1>5, <1>6
<1>11. v.ack # None => Issued(v.ack) /\ (v.ack[2] <= k \/ Unknown(v.ack))
  <2>1. Issued(v.ack) => v.ack[2] \in Int
    BY <1>3, IssuedInt
  <2> QED
    BY <1>2, <1>3, <1>5, <1>6, <2>1
<1>12. u.conn = v.conn /\ u.bound = v.bound /\ u.current = i /\ u.ack = v.ack
    BY <1>1 DEF Holds
<1>13. Bound(u, dq)
    BY <1>1, <1>2, <1>4, <1>5, <1>6, <1>8, <1>9, <1>10, <1>11, <1>12 DEF Bound
<1> QED
    BY <1>1, <1>3, <1>4, <1>5, <1>6, <1>8, <1>13

LEMMA FinishedFields ==
    ASSUME NEW t, Sound(t), NEW u, u = Finished(t)
    PROVE  /\ Sound(u) /\ u.phase = "idle" /\ u.pending = <<>> /\ u.out = t.out
           /\ u.conn = t.conn /\ u.view = t.view /\ u.current = t.current /\ u.ack = t.ack /\ u.seq = t.seq
           /\ u.missed = t.missed /\ u.bound = t.bound /\ u.chain = t.chain /\ u.waiting = t.waiting
<1>1. t \in Objects /\ "idle" \in Phases /\ "none" \in Callers /\ None \in CursorIds
    BY Nothing DEF Sound, Phases, Callers
<1>2. PICK e, x, y, z : e = <<>> /\ x = TRUE /\ y = FALSE /\ z = None
    OBVIOUS
<1>3. e \in Seq(Events) /\ x \in BOOLEAN /\ y \in BOOLEAN /\ z \in CursorIds
  <2>1. e \in Seq(Events) /\ z \in CursorIds
    BY <1>1, <1>2
  <2>2. x \in BOOLEAN /\ y \in BOOLEAN
    BY <1>2, Zenon
  <2> QED
    BY <2>1, <2>2
<1>4. u = [t EXCEPT !.phase = "idle", !.caller = "none", !.hook = x, !.tried = y,
                    !.pending = e, !.force = y, !.cursor = z]
    BY <1>2 DEF Finished
<1>5. [t EXCEPT !.phase = "idle", !.caller = "none", !.hook = x, !.tried = y,
                !.pending = e, !.force = y, !.cursor = z] \in Objects
    BY <1>1, <1>3 DEF Objects
<1>6. /\ u.phase = "idle" /\ u.pending = e /\ u.out = t.out
      /\ u.conn = t.conn /\ u.view = t.view /\ u.current = t.current /\ u.ack = t.ack /\ u.seq = t.seq
      /\ u.missed = t.missed /\ u.bound = t.bound /\ u.chain = t.chain /\ u.waiting = t.waiting
    BY <1>1, <1>4 DEF Objects
<1>7. u \in Objects
    BY <1>4, <1>5
<1> QED
    BY <1>2, <1>6, <1>7 DEF Sound

\* Nothing that was collected is left to be drained.
Emptied(v, dq) ==
    LET i == v.current
        b == subs[i].base
        s == subs[i].seq
    IN \E r \in Nat :
          /\ v.seq <= r /\ r <= s
          /\ v.chain \o Of(dq, i) = Sent(i, b, r, s)
          /\ v.missed <=> v.seq < r
          /\ ChainBusy(v) => r = v.seq

ChainOnly(v) == \A k \in 1..Len(v.waiting) : v.waiting[k].who = "chain"

LEMMA ActiveNumbers ==
    ASSUME Sizes, SubsInv, Roster, NEW v, NEW dq, Bound(v, dq), NEW i, i = v.current
    PROVE  /\ i \in 1..Len(subs) /\ i \in 1..MaxSubs /\ subs[i].base \in Nat /\ subs[i].seq \in Nat /\ subs[i].ackPos \in Int
           /\ subs[i].state = "active" /\ subs[i].base + subs[i].seq <= MaxEvents /\ log \in Nat
           /\ subs[i].base + subs[i].seq <= log /\ v.seq \in Nat /\ v.seq <= subs[i].seq
           /\ Len(v.view) \in Nat /\ dq \in Seq(Messages) /\ subs[i].ackPos <= subs[i].base + v.seq
<1>1. /\ Sound(v) /\ i \in 1..Len(subs) /\ subs[i].state = "active" /\ v.seq <= subs[i].seq /\ dq \in Seq(Messages)
      /\ subs[i].ackPos <= subs[i].base + v.seq
    BY DEF Bound
<1>2. Len(v.view) \in Nat /\ v.seq \in Nat
    BY <1>1, ObjectIs
<1> QED
    BY <1>1, <1>2, SubIs

LEMMA FinishGood ==
    ASSUME Sizes, SubsInv, Roster, NEW v, NEW dq, NEW uq, Bound(v, dq), Emptied(v, dq), ChainOnly(v), AckLine(v, Talk(dq, uq)),
           v.chain # <<>> => ChainBusy(v), NEW u, u = Finished(v)
    PROVE  Good(u, dq, uq) /\ Sound(u) /\ u.conn = v.conn /\ u.view = v.view /\ u.out = v.out
<1>1. PICK i, b, s : i = v.current /\ b = subs[i].base /\ s = subs[i].seq
    OBVIOUS
<1>2. Sound(v)
    BY DEF Bound
<1>3. /\ Sound(u) /\ u.phase = "idle" /\ u.pending = <<>> /\ u.out = v.out
      /\ u.conn = v.conn /\ u.view = v.view /\ u.current = v.current /\ u.ack = v.ack /\ u.seq = v.seq
      /\ u.missed = v.missed /\ u.bound = v.bound /\ u.chain = v.chain /\ u.waiting = v.waiting
    BY <1>2, FinishedFields
<1>4. /\ i \in 1..MaxSubs /\ b \in Nat /\ s \in Nat /\ b + s <= MaxEvents /\ log \in Nat
      /\ v.seq \in Nat /\ v.seq <= s /\ Len(v.view) \in Nat /\ dq \in Seq(Messages)
    BY <1>1, ActiveNumbers
<1>5. PICK r \in Nat : /\ v.seq <= r /\ r <= s /\ v.chain \o Of(dq, i) = Sent(i, b, r, s)
                       /\ v.missed <=> v.seq < r
                       /\ ChainBusy(v) => r = v.seq
    BY <1>1 DEF Emptied
<1>6. Sent(i, b, v.seq, v.seq) = <<>>
  <2>1. b + v.seq <= MaxEvents
    BY <1>4, Bounds
  <2> QED
    BY <1>4, <2>1, SentNone
<1>7. Of(u.pending, i) = Sent(i, b, u.seq, v.seq) /\ Recent(u.pending)
  <2>1. PICK e : e = <<>>
    OBVIOUS
  <2>2. e \in Seq(Messages) /\ \A k \in 1..Len(e) : e[k] \notin Happening(i)
    BY <2>1
  <2>3. Of(e, i) = <<>>
    BY <2>2, OfOthers
  <2>4. Recent(e)
    BY <2>1 DEF Recent
  <2> QED
    BY <1>3, <1>6, <2>1, <2>3, <2>4
<1>8. ChainBusy(u) <=> ChainBusy(v)
    BY <1>3 DEF ChainBusy
<1>9. Tracked(u, dq)
    BY <1>1, <1>3, <1>4, <1>5, <1>7, <1>8 DEF Tracked
<1>10. Bound(u, dq)
  <2>1. Showing(u) <=> Showing(v)
    BY <1>3 DEF Showing
  <2> QED
    BY <1>3, <1>7, <2>1 DEF Bound
<1>11. AckLine(u, Talk(dq, uq))
  <2>1. b \in Int /\ v.seq \in Int /\ Len(v.view) \in Int /\ v.seq <= u.seq /\ Len(v.view) <= Len(u.view)
    BY <1>3, <1>4
  <2>2. Onwards(v, u)
    BY <1>1, <1>3, <2>1 DEF Onwards, ChainOnly
  <2> QED
    BY <1>4, <2>2, AckLineGrown
<1> QED
    BY <1>3, <1>8, <1>9, <1>10, <1>11, BoundGood

\* What a drain starts from.
Drainable(v, dq, uq) ==
    /\ Bound(v, dq) /\ Tracked(v, dq) /\ ChainOnly(v) /\ AckLine(v, Talk(dq, uq)) /\ v.out = <<>>
    /\ v.chain # <<>> => ChainBusy(v)
    /\ uq \in Seq(Requests) /\ Len(v.waiting) = Len(Talk(dq, uq))

\* What was collected, in numbers.
Collected(v, dq, p, r) ==
    LET i == v.current
        b == subs[i].base
        s == subs[i].seq
    IN /\ v.seq <= p /\ p <= r /\ r <= s /\ p \in Nat /\ r \in Nat
       /\ Of(v.pending, i) = Sent(i, b, v.seq, p)
       /\ v.chain \o Of(dq, i) = Sent(i, b, r, s)
       /\ v.missed <=> p < r
       /\ ChainBusy(v) => p = v.seq /\ r = p

LEMMA TrackedIs ==
    ASSUME NEW v, NEW dq
    PROVE  Tracked(v, dq) <=> \E p, r \in Nat : Collected(v, dq, p, r)
BY DEF Tracked, Collected

\* With a collected event left, no acknowledgement of the chain is under way.
LEMMA NothingWaits ==
    ASSUME NEW v, Sound(v), ChainOnly(v), ~ChainBusy(v), v.chain # <<>> => ChainBusy(v)
    PROVE  v.waiting = <<>> /\ Len(v.waiting) = 0 /\ v.chain = <<>>
<1>1. v.waiting \in Seq(Waiters) /\ Len(v.waiting) \in Nat
    BY SoundLengths
<1>2. PICK n \in Nat : n = Len(v.waiting)
    BY <1>1
<1>3. n = 0
  <2>1. n # 0 => 1 \in 1..n
    BY <1>2
  <2> QED
    BY <1>2, <2>1 DEF ChainOnly, ChainBusy
<1>4. \A x \in Seq(Waiters) : Len(x) = 0 => x = <<>>
    OBVIOUS
<1> QED
    BY <1>1, <1>2, <1>3, <1>4

\* The view after some of the collected events were shown.
Shows(v, u, p, pending) ==
    /\ Sound(u) /\ Holds(v, u) /\ u.seq = p /\ Shown(v, u, p) /\ u.pending = pending /\ u.out = v.out
    /\ u.chain = v.chain /\ u.missed = v.missed /\ u.waiting = v.waiting /\ u.caller = v.caller

\* A burst is shown at once, without an acknowledgement.
LEMMA BurstGood ==
    ASSUME Sizes, SubsInv, Roster, NEW v, NEW dq, NEW uq, Drainable(v, dq, uq), NEW p, NEW r, Collected(v, dq, p, r), v.seq < p,
           NEW z, Shows(v, z, p, v.pending), NEW u, u = Finished(z)
    PROVE  Good(u, dq, uq) /\ Sound(u) /\ u.conn = v.conn /\ Len(v.view) <= Len(u.view) /\ u.out = v.out
<1>1. PICK i, b, s : i = v.current /\ b = subs[i].base /\ s = subs[i].seq
    OBVIOUS
<1>2. /\ Bound(v, dq) /\ ChainOnly(v) /\ v.out = <<>> /\ (v.chain # <<>> => ChainBusy(v)) /\ Sound(v) /\ Recent(v.pending)
    BY DEF Drainable, Bound
<1>3. /\ v.seq <= p /\ p <= r /\ r <= s /\ p \in Nat /\ r \in Nat
      /\ v.chain \o Of(dq, i) = Sent(i, b, r, s)
      /\ v.missed <=> p < r
      /\ ChainBusy(v) => p = v.seq
    BY <1>1 DEF Collected
<1>4. /\ i \in 1..MaxSubs /\ b \in Nat /\ s \in Nat /\ v.seq \in Nat
    BY <1>1, <1>2, ActiveNumbers
<1>5. ~ChainBusy(v)
    BY <1>3, <1>4
<1>6. v.waiting = <<>> /\ Len(v.waiting) = 0
    BY <1>2, <1>5, NothingWaits
<1>7. /\ Sound(z) /\ Holds(v, z) /\ z.seq = p /\ Shown(v, z, p) /\ z.pending = v.pending /\ z.out = v.out
      /\ z.chain = v.chain /\ z.missed = v.missed /\ z.waiting = v.waiting
    BY DEF Shows
<1>8. z.conn = v.conn /\ z.current = i
    BY <1>1, <1>7 DEF Holds
<1>9. p <= s
    BY <1>3, <1>4
<1>10. Bound(z, dq) /\ Len(v.view) <= Len(z.view)
    BY <1>1, <1>2, <1>3, <1>7, <1>9, AdvanceBound
<1>11. Emptied(z, dq)
  <2>1. ~ChainBusy(z)
    BY <1>5, <1>7 DEF ChainBusy
  <2> QED
    BY <1>1, <1>3, <1>7, <1>8, <2>1 DEF Emptied
<1>12. ChainOnly(z) /\ AckLine(z, Talk(dq, uq)) /\ (z.chain # <<>> => ChainBusy(z))
  <2>1. PICK n : n = Len(z.waiting)
    OBVIOUS
  <2>2. n = 0
    BY <1>6, <1>7, <2>1
  <2>3. \A k \in 1..n : FALSE
    BY <2>2
  <2>4. z.chain = <<>>
    BY <1>2, <1>5, <1>7
  <2> QED
    BY <2>1, <2>3, <2>4 DEF ChainOnly, AckLine
<1>13. Good(u, dq, uq) /\ Sound(u) /\ u.conn = z.conn /\ u.view = z.view /\ u.out = z.out
    BY <1>10, <1>11, <1>12, FinishGood
<1> QED
    BY <1>7, <1>8, <1>10, <1>13

\* Bound is about these fields.
LEMMA BoundSame ==
    ASSUME NEW v, NEW dq, Bound(v, dq), NEW u, Sound(u), Holds(v, u), u.view = v.view, u.seq = v.seq, Recent(u.pending)
    PROVE  Bound(u, dq)
<1>1. Showing(u) <=> Showing(v)
    BY DEF Showing
<1> QED
    BY <1>1 DEF Bound, Holds

\* The deliveries left to be collected are of the subscription.
LEMMA SentRecent ==
    ASSUME NEW i \in 1..Len(subs), i \in 1..MaxSubs, NEW b \in Nat, NEW lo \in Nat, NEW hi \in Nat, lo <= hi, b + hi <= MaxEvents
    PROVE  Recent(Sent(i, b, lo, hi))
<1>1. PICK q : q = Sent(i, b, lo, hi)
    OBVIOUS
<1>2. q \in Seq(Happening(i))
    BY <1>1, SentIs
<1>3. \A m \in Happening(i) : m.sub <= Len(subs)
    BY DEF Happening
<1> QED
    BY <1>1, <1>2, <1>3 DEF Recent

\* The acknowledgement of the next collected event is asked for.
LEMMA NextGood ==
    ASSUME Sizes, SubsInv, Roster, NEW v, NEW dq, NEW uq, Drainable(v, dq, uq), NEW p, NEW r, Collected(v, dq, p, r), v.seq < p,
           NEW x, x = v.seq + 1, NEW i, i = v.current, NEW b, b = subs[i].base,
           NEW z, Shows(v, z, x, Sent(i, b, x, p)), z.phase = "drain",
           NEW q, q = <<i, b + x>>, NEW u, u = AskAck(z, "est", q)
    PROVE  Good(u, dq, Cat(uq, u.out)) /\ Sound(u) /\ u.conn = v.conn /\ Len(v.view) <= Len(u.view) /\ Proper(u.out)
<1>1. PICK s : s = subs[i].seq
    OBVIOUS
<1>2. /\ Bound(v, dq) /\ ChainOnly(v) /\ v.out = <<>> /\ (v.chain # <<>> => ChainBusy(v)) /\ Sound(v)
      /\ uq \in Seq(Requests) /\ Len(v.waiting) = Len(Talk(dq, uq))
    BY DEF Drainable, Bound
<1>3. /\ p <= r /\ r <= s /\ p \in Nat /\ r \in Nat
      /\ v.chain \o Of(dq, i) = Sent(i, b, r, s)
      /\ v.missed <=> p < r
      /\ ChainBusy(v) => p = v.seq
    BY <1>1 DEF Collected
<1>4. /\ i \in 1..Len(subs) /\ i \in 1..MaxSubs /\ b \in Nat /\ s \in Nat /\ v.seq \in Nat /\ subs[i].ackPos \in Int
      /\ b + s <= MaxEvents /\ b + s <= log /\ log \in Nat /\ subs[i].state = "active" /\ dq \in Seq(Messages)
      /\ subs[i].ackPos <= b + v.seq /\ MaxEvents \in Nat
    BY <1>1, <1>2, ActiveNumbers, Bounds
<1>5. ~ChainBusy(v)
    BY <1>3, <1>4
<1>6. v.waiting = <<>> /\ Len(v.waiting) = 0 /\ v.chain = <<>>
    BY <1>2, <1>5, NothingWaits
<1>7. /\ Sound(z) /\ Holds(v, z) /\ z.seq = x /\ Shown(v, z, x) /\ z.pending = Sent(i, b, x, p) /\ z.out = v.out
      /\ z.chain = v.chain /\ z.missed = v.missed /\ z.waiting = v.waiting /\ z.caller = v.caller
    BY DEF Shows
<1>8. z.conn = v.conn /\ z.current = i /\ z.ack = v.ack /\ z.bound = v.bound
    BY <1>7 DEF Holds
<1>9. x \in Nat /\ v.seq <= x /\ x <= p /\ x <= s /\ b + x <= MaxEvents /\ b + p <= MaxEvents /\ b + x <= log
  <2>1. PICK n, k, l, h \in Int : n = v.seq /\ k = s /\ l = log /\ h = MaxEvents
    BY <1>4
  <2>2. n < p /\ x = n + 1 /\ 0 <= n /\ p <= r /\ r <= k /\ b + k <= h /\ b + k <= l /\ p \in Nat /\ r \in Nat /\ b \in Nat
    BY <1>3, <1>4, <2>1
  <2>3. x \in Nat /\ n <= x /\ x <= p /\ x <= k /\ b + x <= h /\ b + p <= h /\ b + x <= l
    BY <2>2
  <2> QED
    BY <2>1, <2>3
<1>10. Of(z.pending, i) = Sent(i, b, x, p) /\ Recent(z.pending)
  <2>1. i \in 1..Len(subs) /\ i \in 1..MaxSubs /\ b \in Nat /\ x \in Nat /\ p \in Nat /\ x <= p /\ b + p <= MaxEvents
    BY <1>3, <1>4, <1>9
  <2>2. Of(Sent(i, b, x, p), i) = Sent(i, b, x, p)
    BY <2>1, OfSent
  <2>3. Recent(Sent(i, b, x, p))
    BY <2>1, SentRecent
  <2> QED
    BY <1>7, <2>2, <2>3
<1>11. Bound(z, dq) /\ Len(v.view) <= Len(z.view) /\ b + x <= Len(z.view)
    BY <1>1, <1>2, <1>7, <1>9, <1>10, AdvanceBound
<1>12. q \in CursorIds /\ Issued(q) /\ q[1] = i /\ q[2] = b + x /\ b + x \in Nat
  <2>1. PICK n \in Nat : n = b + x
    <3>1. b \in Nat /\ x \in Nat
      BY <1>4, <1>9
    <3> QED
      BY <3>1
  <2>2. n \in Nat /\ n <= log
    BY <1>9, <2>1
  <2>5. q = <<i, n>>
    BY <2>1
  <2>6. i \in 1..Len(subs) /\ log \in Nat /\ (subs[i].state = "loading" => n = subs[i].base)
    BY <1>4
  <2>3. Issued(q) /\ q[1] = i /\ q[2] = n
    BY <2>2, <2>5, <2>6, IssuedIs
  <2>4. q \in CursorIds
    BY <1>4, <1>9, NoteIs
  <2> QED
    BY <2>1, <2>2, <2>3, <2>4
<1>13. PICK m, w : m = [method |-> "ack", sub |-> i, cursor |-> q] /\ w = Waiter("est", q, z.caller)
    OBVIOUS
<1>14. Asked(z, u, m, w) /\ w.who = "est" /\ w.cursor = q /\ w.caller = z.caller
  <2>1. "est" \in Whos
    BY DEF Whos
  <2> QED
    BY <1>7, <1>8, <1>12, <1>13, <2>1, AskAckFields
<1>15. /\ Sound(u) /\ Carries(z, u) /\ u.bound = z.bound /\ u.pending = z.pending /\ u.chain = z.chain
       /\ u.waiting = Append(z.waiting, w) /\ u.out = Append(z.out, m) /\ m \in Requests /\ w \in Waiters
    BY <1>14 DEF Asked
<1>16. /\ u.conn = z.conn /\ u.view = z.view /\ u.current = z.current /\ u.ack = z.ack /\ u.phase = z.phase
       /\ u.caller = z.caller /\ u.seq = z.seq /\ u.missed = z.missed
    BY <1>15 DEF Carries
<1>17. PICK y : y = Talk(dq, uq)
    OBVIOUS
<1>18. AckLine(u, Append(y, m))
  <2>1. y \in Seq(Replies \cup Requests)
    BY <1>2, <1>4, <1>17, TalkIs
  <2>2. PICK n : n = Len(z.waiting)
    OBVIOUS
  <2>3. n = 0 /\ n = Len(y)
    BY <1>2, <1>6, <1>7, <1>17, <2>2
  <2>4. \A k \in 1..n : FALSE
    BY <2>3
  <2>5. AckLine(z, y) /\ \A k \in 1..Len(z.waiting) : z.waiting[k].cursor[2] < q[2]
    BY <2>2, <2>4 DEF AckLine
  <2>6. Len(z.waiting) = Len(y) /\ Len(z.waiting) = 0
    BY <2>2, <2>3
  <2>7. subs[i].ackPos < q[2] /\ q[2] <= subs[i].base + z.seq /\ q[2] <= Len(z.view)
    <3>1. Len(z.view) \in Int
      BY <1>7, ObjectIs
    <3>2. subs[i].ackPos \in Int /\ v.seq \in Int /\ subs[i].ackPos <= b + v.seq /\ b \in Nat
      BY <1>4
    <3>3. PICK a, g, k \in Int : a = subs[i].ackPos /\ g = v.seq /\ k = Len(z.view)
      BY <3>1, <3>2
    <3>4. a <= b + g /\ x = g + 1 /\ b + x <= k /\ b \in Nat
      BY <1>11, <3>2, <3>3
    <3>5. a < b + x
      BY <3>4
    <3> QED
      BY <1>7, <1>12, <3>3, <3>4, <3>5
  <2>8. AckLine(u, Append(y, m))
    BY <1>4, <1>7, <1>8, <1>12, <1>13, <1>14, <1>15, <1>16, <2>1, <2>5, <2>6, <2>7, AckLineAsk
  <2> QED
    BY <2>8
<1>19. u.out = <<m>> /\ u.waiting = <<w>>
  <2>1. z.out = <<>> /\ z.waiting = <<>>
    BY <1>2, <1>6, <1>7
  <2> QED
    BY <1>15, <2>1
<1>20. Cat(uq, u.out) = Append(uq, m) /\ Talk(dq, Cat(uq, u.out)) = Append(y, m)
  <2>1. PICK t : t = Append(uq, m)
    OBVIOUS
  <2>2. \A a \in Seq(Requests) : \A e \in Requests : a \o <<e>> = Append(a, e)
    OBVIOUS
  <2>3. Cat(uq, u.out) = t
    BY <1>2, <1>15, <1>19, <2>1, <2>2 DEF Cat
  <2>4. Talk(dq, t) = Append(y, m)
    BY <1>2, <1>4, <1>15, <1>17, <2>1, TalkAsk
  <2> QED
    BY <2>1, <2>3, <2>4
<1>21. ~ChainBusy(u)
  <2>1. Len(u.waiting) = 1 /\ u.waiting[1] = w
    BY <1>19
  <2> QED
    BY <1>14, <2>1 DEF ChainBusy
<1>22. Tracked(u, dq)
  <2>1. /\ u.current = i /\ u.seq = x /\ u.chain = v.chain /\ u.missed = v.missed /\ Of(u.pending, i) = Sent(i, b, x, p)
    BY <1>7, <1>8, <1>10, <1>15, <1>16
  <2>2. Collected(u, dq, p, r)
    BY <1>1, <1>3, <1>9, <1>21, <2>1 DEF Collected
  <2> QED
    BY <1>3, <2>2, TrackedIs
<1>23. Bound(u, dq)
  <2>1. Holds(z, u)
    BY <1>15, <1>16 DEF Holds
  <2>2. Recent(u.pending)
    BY <1>10, <1>15
  <2> QED
    BY <1>11, <1>15, <1>16, <2>1, <2>2, BoundSame
<1>24. u.phase = "drain" /\ u.chain = <<>>
    BY <1>6, <1>7, <1>15, <1>16
<1>25. Good(u, dq, Cat(uq, u.out))
  <2>1. AckLine(u, Talk(dq, Cat(uq, u.out)))
    BY <1>18, <1>20
  <2> QED
    BY <1>22, <1>23, <1>24, <2>1, BoundGood
<1>26. Proper(u.out)
  <2>1. m.method # "subscribe"
    BY <1>13
  <2> QED
    BY <1>19, <2>1, ProperFew
<1> QED
    BY <1>8, <1>11, <1>15, <1>16, <1>25, <1>26

LEMMA OneSpan ==
    ASSUME NEW n \in Nat
    PROVE  \A m : m = n + 1 => <<m>> = Span(n + 1, m)
<1>1. PICK m : m = n + 1
    OBVIOUS
<1>2. Span(n + 1, n + 1) \in Seq(Nat) /\ Len(Span(n + 1, n + 1)) = 1 /\ Span(n + 1, n + 1)[1] = n + 1
  <2>1. PICK j \in Nat : j = 1
    OBVIOUS
  <2>2. /\ Span(n + 1, n + j) \in Seq(Nat) /\ Len(Span(n + 1, n + j)) = j
        /\ \A k \in 1..j : Span(n + 1, n + j)[k] = n + k
    BY SpanAt
  <2>3. Span(n + 1, n + 1) \in Seq(Nat) /\ Len(Span(n + 1, n + 1)) = 1 /\ \A k \in 1..1 : Span(n + 1, n + 1)[k] = n + k
    BY <2>1, <2>2
  <2> QED
    BY <2>3
<1>3. PICK s, t : s = <<m>> /\ t = Span(n + 1, m)
    OBVIOUS
<1>4. s \in Seq(Nat) /\ Len(s) = 1 /\ s[1] = m /\ m \in Nat
    BY <1>1, <1>3
<1>5. t \in Seq(Nat) /\ Len(t) = 1 /\ t[1] = m
    BY <1>1, <1>2, <1>3
<1>6. \A k \in 1..Len(s) : s[k] = t[k]
    BY <1>4, <1>5
<1>7. s = t
  <2>1. Len(s) = Len(t)
    BY <1>4, <1>5
  <2> QED
    BY <1>4, <1>5, <1>6, <2>1, SeqSame
<1> QED
    BY <1>1, <1>3, <1>7

\* What the drain does, in these terms.
Burst(v, mine) == [v EXCEPT !.view = Reduced(@, Positions(mine)), !.seq = mine[Len(mine)].seq]
Single(v, mine) ==
    [v EXCEPT !.view = Reduced(@, <<Head(mine).pos>>), !.seq = Head(mine).seq,
              !.pending = Tail(mine), !.phase = "drain"]

LEMMA DrainedSplit ==
    ASSUME NEW v, v.pending \in Seq(Events), NEW mine, mine = Of(v.pending, v.current)
    PROVE  /\ mine = <<>> => Drained(v) = Finished(v)
           /\ mine # <<>> => \/ Drained(v) = Finished(Burst(v, mine))
                             \/ Drained(v) = AskAck(Single(v, mine), "est", Head(mine).cursor)
<1>1. Only(v.pending, {d \in ToSet(v.pending) : d.sub = v.current}) = mine
    BY OfMine
<1> QED
    BY <1>1 DEF Drained, Burst, Single

LEMMA DrainedGood ==
    ASSUME Sizes, SubsInv, Roster, NEW v, NEW dq, NEW uq, Drainable(v, dq, uq), NEW u, u = Drained(v)
    PROVE  Good(u, dq, Cat(uq, u.out)) /\ Sound(u) /\ u.conn = v.conn /\ Len(v.view) <= Len(u.view) /\ Proper(u.out)
<1>1. PICK i, b, s, mine : i = v.current /\ b = subs[i].base /\ s = subs[i].seq /\ mine = Of(v.pending, i)
    OBVIOUS
<1>2. /\ Bound(v, dq) /\ ChainOnly(v) /\ v.out = <<>> /\ (v.chain # <<>> => ChainBusy(v)) /\ Sound(v)
      /\ AckLine(v, Talk(dq, uq)) /\ uq \in Seq(Requests) /\ Tracked(v, dq) /\ Recent(v.pending)
    BY DEF Drainable, Bound
<1>3. PICK p, r \in Nat : Collected(v, dq, p, r)
    BY <1>2, TrackedIs
<1>0. PICK g \in Nat : g = v.seq
    BY <1>2, ObjectIs
<1>4. /\ g <= p /\ p <= r /\ r <= s /\ mine = Sent(i, b, g, p)
      /\ v.chain \o Of(dq, i) = Sent(i, b, r, s)
      /\ v.missed <=> p < r
      /\ ChainBusy(v) => r = p
    BY <1>0, <1>1, <1>3 DEF Collected
<1>5. i \in 1..Len(subs) /\ i \in 1..MaxSubs /\ b \in Nat /\ s \in Nat /\ b + s <= MaxEvents /\ MaxEvents \in Nat
      /\ Len(v.view) \in Nat
    BY <1>1, <1>2, ActiveNumbers, Bounds
<1>6. b + p <= MaxEvents /\ b + g <= MaxEvents
    BY <1>4, <1>5
<1>7. v.pending \in Seq(Events) /\ v \in Objects
    BY <1>2, ObjectIs DEF Sound
<1>8. CASE g = p
  <2>1. mine = <<>>
    BY <1>4, <1>5, <1>6, <1>8, SentNone
  <2>2. u = Finished(v)
    BY <1>1, <1>7, <2>1, DrainedSplit
  <2>3. Emptied(v, dq)
    BY <1>0, <1>1, <1>3, <1>4, <1>8 DEF Emptied
  <2>4. Good(u, dq, uq) /\ Sound(u) /\ u.conn = v.conn /\ u.view = v.view /\ u.out = v.out
    BY <1>2, <2>2, <2>3, FinishGood
  <2>5. Cat(uq, u.out) = uq /\ Proper(u.out)
    BY <1>2, <2>4, CatNone, ProperFew
  <2> QED
    BY <1>5, <2>4, <2>5
<1>9. CASE g # p
  <2>1. g < p
    BY <1>4, <1>5, <1>9
  <2>2. PICK x \in Nat : x = g + 1
    OBVIOUS
  <2>3. /\ mine # <<>> /\ Head(mine) = Note(i, b, x) /\ Tail(mine) = Sent(i, b, x, p)
        /\ mine[Len(mine)] = Note(i, b, p)
    <3>1. mine = Sent(i, b, g, p) /\ i \in 1..MaxSubs /\ b \in Nat /\ b + p <= MaxEvents
      BY <1>4, <1>5, <1>6
    <3>4. g \in Nat /\ p \in Nat /\ g < p
      BY <1>4, <1>5, <2>1
    <3>2. /\ Sent(i, b, g, p) # <<>> /\ Head(Sent(i, b, g, p)) = Note(i, b, g + 1)
          /\ Tail(Sent(i, b, g, p)) = Sent(i, b, g + 1, p)
          /\ Sent(i, b, g, p)[Len(Sent(i, b, g, p))] = Note(i, b, p)
      <4>1. Leads(i, b, g, p)
        BY <3>1, <3>4, LeadsIs
      <4> QED
        BY <4>1 DEF Leads
    <3> QED
      BY <2>2, <3>1, <3>2
  <2>4. x \in Nat /\ b + x <= MaxEvents /\ x <= p
    BY <1>5, <1>6, <2>1, <2>2
  <2>5. /\ Head(mine).pos = b + x /\ Head(mine).seq = x /\ Head(mine).cursor = <<i, b + x>>
        /\ mine[Len(mine)].seq = p
    BY <2>3 DEF Note
  <2>6. CASE u = Finished(Burst(v, mine))
    <3>1. PICK z, w : z = Burst(v, mine) /\ w = Reduced(v.view, Positions(mine))
      OBVIOUS
    <3>2. w = Reduced(v.view, Span((b + g) + 1, b + p)) /\ w \in Seq(Nat)
      <4>1. Positions(mine) = Span((b + g) + 1, b + p)
        BY <1>4, <1>5, <1>6, SentPositions
      <4>2. mine \in Seq(Events)
        BY <1>4, <1>5, <1>6, SentIs
      <4>3. Positions(mine) \in Seq(Nat)
        BY <4>2, PositionsAre
      <4>4. v.view \in Seq(Nat)
        BY <1>2, ObjectIs
      <4> QED
        <5>1. Reduced(v.view, Positions(mine)) \in Seq(Nat)
          BY <4>3, <4>4, ReducedIs
        <5> QED
          BY <3>1, <4>1, <5>1
    <3>3. z = [v EXCEPT !.view = w, !.seq = p]
      BY <2>5, <3>1 DEF Burst
    <3>4. /\ z \in Objects /\ z.conn = v.conn /\ z.bound = v.bound /\ z.current = v.current /\ z.ack = v.ack
          /\ z.view = w /\ z.seq = p /\ z.pending = v.pending /\ z.out = v.out /\ z.chain = v.chain /\ z.missed = v.missed
          /\ z.waiting = v.waiting /\ z.caller = v.caller /\ z.phase = v.phase /\ z.page = v.page
      BY <1>3, <1>7, <3>2, <3>3 DEF Objects
    <3>5. Shows(v, z, p, v.pending)
      BY <1>0, <1>1, <1>2, <3>2, <3>4 DEF Shows, Shown, Holds, Sound
    <3>6. Good(u, dq, uq) /\ Sound(u) /\ u.conn = v.conn /\ Len(v.view) <= Len(u.view) /\ u.out = v.out
      BY <1>0, <1>3, <2>1, <2>6, <3>1, <3>5, BurstGood
    <3>7. Cat(uq, u.out) = uq /\ Proper(u.out)
      BY <1>2, <3>6, CatNone, ProperFew
    <3> QED
      BY <3>6, <3>7
  <2>7. CASE u = AskAck(Single(v, mine), "est", Head(mine).cursor)
    <3>1. PICK z, w, t : z = Single(v, mine) /\ w = Reduced(v.view, <<Head(mine).pos>>) /\ t = Tail(mine)
      OBVIOUS
    <3>2. w = Reduced(v.view, Span((b + g) + 1, b + x)) /\ w \in Seq(Nat)
      <4>1. PICK m, n \in Nat : m = b + x /\ n = b + g
        BY <1>5, <2>4
      <4>2. m = n + 1
        BY <1>5, <2>2, <4>1
      <4>3. <<m>> = Span(n + 1, m)
        BY <4>1, <4>2, OneSpan
      <4>4. <<m>> \in Seq(Nat)
        BY <4>1
      <4>5. v.view \in Seq(Nat)
        BY <1>2, ObjectIs
      <4>6. w = Reduced(v.view, <<m>>)
        BY <2>5, <3>1, <4>1
      <4>7. w = Reduced(v.view, Span(n + 1, m))
        BY <4>3, <4>6
      <4>8. w \in Seq(Nat)
        BY <4>4, <4>5, <4>6, ReducedIs
      <4> QED
        BY <4>1, <4>7, <4>8
    <3>3. t = Sent(i, b, x, p) /\ t \in Seq(Events)
      <4>1. i \in 1..MaxSubs /\ b \in Nat /\ b + p <= MaxEvents /\ x <= p
        BY <1>5, <1>6, <2>4
      <4>2. Sent(i, b, x, p) \in Seq(Events)
        BY <4>1, SentIs
      <4> QED
        BY <2>3, <3>1, <4>2
    <3>4. z = [v EXCEPT !.view = w, !.seq = x, !.pending = t, !.phase = "drain"]
      BY <2>5, <3>1 DEF Single
    <3>5. /\ z \in Objects /\ z.conn = v.conn /\ z.bound = v.bound /\ z.current = v.current /\ z.ack = v.ack
          /\ z.view = w /\ z.seq = x /\ z.pending = t /\ z.out = v.out /\ z.chain = v.chain /\ z.missed = v.missed
          /\ z.waiting = v.waiting /\ z.caller = v.caller /\ z.phase = "drain"
      <4>1. "drain" \in Phases
        BY DEF Phases
      <4> QED
        BY <1>7, <2>4, <3>2, <3>3, <3>4, <4>1 DEF Objects
    <3>6. Shows(v, z, x, Sent(i, b, x, p)) /\ z.phase = "drain"
      BY <1>0, <1>1, <3>2, <3>3, <3>5 DEF Shows, Shown, Holds, Sound
    <3>7. PICK q : q = <<i, b + x>>
      OBVIOUS
    <3>8. u = AskAck(z, "est", q)
      BY <2>5, <2>7, <3>1, <3>7
    <3> QED
      BY <1>0, <1>1, <1>3, <2>1, <2>2, <3>6, <3>7, <3>8, NextGood
  <2> QED
    BY <1>1, <1>7, <2>3, <2>6, <2>7, DrainedSplit
<1> QED
    BY <1>8, <1>9

\* What was collected while loading, when loading is over.
LEMMA ReadyTracked ==
    ASSUME NEW t, NEW dq, Sound(t), dq \in Seq(Messages), NEW i, i \in 1..MaxSubs, NEW b, NEW s, b \in Nat, s \in Nat, b + s <= MaxEvents,
           Of(t.pending \o dq, i) = Sent(i, b, 0, s)
    PROVE  \E p \in Nat : p <= s /\ Of(t.pending, i) = Sent(i, b, 0, p) /\ Of(dq, i) = Sent(i, b, p, s)
<1>1. t.pending \in Seq(Messages)
    BY ObjectIs
<1>2. PICK x, y : x = Of(t.pending, i) /\ y = Of(dq, i)
    OBVIOUS
<1>3. x \in Seq(Messages) /\ y \in Seq(Messages)
    BY <1>1, <1>2, OfIs
<1>4. Cat(x, y) = Sent(i, b, 0, s)
    BY <1>1, <1>2, OfConcat DEF Cat
<1>5. \E p \in Nat : 0 <= p /\ p <= s /\ x = Sent(i, b, 0, p) /\ y = Sent(i, b, p, s)
  <2>1. PICK lo \in Nat : lo = 0
    OBVIOUS
  <2>2. lo <= s
    BY <2>1
  <2>3. Cat(x, y) = Sent(i, b, lo, s)
    BY <1>4, <2>1
  <2>4. \E p \in Nat : lo <= p /\ p <= s /\ x = Sent(i, b, lo, p) /\ y = Sent(i, b, p, s)
    BY <1>3, <2>2, <2>3, SentParts
  <2> QED
    BY <2>1, <2>4
<1> QED
    BY <1>2, <1>5

LEMMA FinishStream ==
    ASSUME IInv, IInv', Stream, FinishLoading
    PROVE  Stream' /\ Grew(this, this') /\ log' = log
<1>1. PICK t, c, dq, uq, i, v, u : /\ t = this /\ c = this.conn /\ dq = down[c] /\ uq = up[c] /\ i = t.current
                                   /\ v = [t EXCEPT !.bound = TRUE] /\ u = Drained(v)
    OBVIOUS
<1>2. t.phase = "ready" /\ Commit(u) /\ DaemonSame /\ sock' = sock /\ down' = down
    BY <1>1 DEF FinishLoading
<1>3. c # 0
  <2>1. Placed(t)
    BY <1>1 DEF Stream, Good
  <2> QED
    BY <1>1, <1>2, <2>1 DEF Placed
<1>4. /\ Sound(t) /\ c \in Conns /\ t.conn = c /\ t.out = <<>> /\ t \in Objects
      /\ dq \in Seq(Messages) /\ uq \in Seq(Requests) /\ Good(t, dq, uq) /\ Len(t.waiting) = Len(Talk(dq, uq))
      /\ Sizes /\ SubsInv /\ Roster /\ Table /\ log \in Nat
    BY <1>1, <1>3, InUseHere
<1>5. t.waiting = <<>> /\ Len(t.waiting) = 0
    BY <1>2, <1>4, NobodyWaits
<1>6. /\ i \in 1..Len(subs) /\ i \in 1..MaxSubs /\ Begun(t, dq, i) /\ Reads1(t)
      /\ subs[i].base \in Nat /\ subs[i].seq \in Nat /\ subs[i].ackPos \in Int
      /\ t.seq = 0 /\ ~t.missed /\ t.chain = <<>> /\ AckSafe(t) /\ Showing(t)
      /\ Recent(dq) /\ Recent(t.pending) /\ Len(t.view) \in Nat
    BY <1>1, <1>2, <1>4, SnapshotIs DEF Reading, Showing
<1>7. /\ v \in Objects /\ v.conn = t.conn /\ v.bound /\ v.view = t.view /\ v.current = t.current /\ v.ack = t.ack
      /\ v.pending = t.pending /\ v.seq = t.seq /\ v.chain = t.chain /\ v.missed = t.missed /\ v.out = t.out
      /\ v.waiting = t.waiting /\ v.phase = t.phase
  <2>1. PICK x : x = TRUE
    OBVIOUS
  <2>2. x \in BOOLEAN /\ v = [t EXCEPT !.bound = x]
    BY <1>1, <2>1, Zenon
  <2>3. /\ v \in Objects /\ v.conn = t.conn /\ v.bound = x /\ v.view = t.view /\ v.current = t.current /\ v.ack = t.ack
        /\ v.pending = t.pending /\ v.seq = t.seq /\ v.chain = t.chain /\ v.missed = t.missed /\ v.out = t.out
        /\ v.waiting = t.waiting /\ v.phase = t.phase
    BY <1>4, <2>2 DEF Objects
  <2>4. v.bound
    BY <2>1, <2>3, Zenon
  <2> QED
    BY <2>3, <2>4
<1>8. Sound(v)
    BY <1>2, <1>7 DEF Sound
<1>9. PICK b, s, n \in Nat : b = subs[i].base /\ s = subs[i].seq /\ n = Len(v.view)
    BY <1>6, <1>7
<1>10. subs[i].conn = t.conn /\ Orderly(i, t.ack) /\ subs[i].ackPos <= b /\ Of(t.pending \o dq, i) = Sent(i, b, 0, s)
       /\ subs[i].state = "active" /\ b <= n /\ b + s <= MaxEvents
  <2>1. subs[i].state = "active" /\ b <= n
    BY <1>1, <1>2, <1>6, <1>7, <1>9 DEF Reads1
  <2>2. b + s <= MaxEvents
    BY <1>4, <1>6, <1>9, SubIs
  <2> QED
    BY <1>6, <1>9, <2>1, <2>2 DEF Begun
<1>11. Bound(v, dq)
  <2>1. v.ack # None => Issued(v.ack) /\ (v.ack[2] <= Len(v.view) \/ Unknown(v.ack))
    BY <1>6, <1>7 DEF AckSafe
  <2>2. Showing(v)
    BY <1>6, <1>7 DEF Showing
  <2>3. v.seq <= subs[i].seq /\ subs[i].ackPos <= subs[i].base + v.seq /\ subs[i].base + v.seq <= Len(v.view)
    BY <1>6, <1>7, <1>9, <1>10
  <2> QED
    BY <1>1, <1>3, <1>4, <1>6, <1>7, <1>8, <1>10, <2>1, <2>2, <2>3 DEF Bound
<1>12. Tracked(v, dq)
  <2>1. PICK p \in Nat : p <= s /\ Of(t.pending, i) = Sent(i, b, 0, p) /\ Of(dq, i) = Sent(i, b, p, s)
    <3>1. Sound(t) /\ dq \in Seq(Messages) /\ i \in 1..MaxSubs /\ b + s <= MaxEvents
      BY <1>4, <1>6, <1>10
    <3>2. Of(t.pending \o dq, i) = Sent(i, b, 0, s)
      BY <1>10
    <3> QED
      BY <3>1, <3>2, ReadyTracked
  <2>2. v.chain \o Of(dq, i) = Sent(i, b, p, s)
    <3>1. PICK y : y = Of(dq, i)
      OBVIOUS
    <3>2. y \in Seq(Messages)
      BY <1>4, <3>1, OfIs
    <3>3. <<>> \o y = y
      BY <3>2
    <3> QED
      BY <1>6, <1>7, <2>1, <3>1, <3>3
  <2>3. ~ChainBusy(v)
    BY <1>5, <1>7 DEF ChainBusy
  <2>4. Collected(v, dq, p, p)
    <3>1. /\ v.current = i /\ v.seq = 0 /\ ~v.missed /\ v.pending = t.pending
          /\ subs[i].base = b /\ subs[i].seq = s
      BY <1>1, <1>6, <1>7, <1>9
    <3>2. 0 <= p /\ p <= p /\ ~(p < p) /\ p <= s
      BY <2>1
    <3> QED
      BY <2>1, <2>2, <2>3, <3>1, <3>2 DEF Collected
  <2> QED
    BY <2>1, <2>4, TrackedIs
<1>13. Drainable(v, dq, uq)
  <2>1. PICK k : k = Len(v.waiting)
    OBVIOUS
  <2>2. k = 0 /\ \A j \in 1..k : FALSE
    <3>1. k = 0
      BY <1>5, <1>7, <2>1
    <3> QED
      BY <3>1
  <2>3. ChainOnly(v) /\ AckLine(v, Talk(dq, uq))
    BY <2>1, <2>2 DEF ChainOnly, AckLine
  <2> QED
    BY <1>4, <1>5, <1>6, <1>7, <1>11, <1>12, <2>3 DEF Drainable
<1>14. Good(u, dq, Cat(uq, u.out)) /\ Sound(u) /\ u.conn = v.conn /\ Len(v.view) <= Len(u.view) /\ Proper(u.out)
    BY <1>1, <1>4, <1>13, DrainedGood
<1>15. u.conn = c /\ Grew(this, u)
    BY <1>1, <1>4, <1>7, <1>14 DEF Grew
<1> QED
    BY <1>1, <1>2, <1>3, <1>14, <1>15, OwnStream

LEMMA CarriedFewer ==
    ASSUME NEW t, NEW a, Rests(t, a)
    PROVE  Fewer(t, a, t.ack)
BY DEF Rests, Carries, Fewer

\* The answered cursor is acknowledged now.
Acknowledged(a, q) == [a EXCEPT !.ack = q]

LEMMA AckedFewer ==
    ASSUME NEW t, NEW a, Rests(t, a), NEW q \in CursorIds, NEW v, v = Acknowledged(a, q)
    PROVE  /\ Fewer(t, v, q) /\ v.out = <<>> /\ v.newest = t.newest /\ v.started = t.started /\ v.hook = t.hook
           /\ v.tried = t.tried /\ v.seen = t.seen /\ v.force = t.force /\ v.cursor = t.cursor /\ v.page = t.page
<1>1. a \in Objects
    BY RestsIs DEF RestsIn
<1>2. /\ v \in Objects /\ v.conn = a.conn /\ v.bound = a.bound /\ v.view = a.view /\ v.current = a.current
      /\ v.ack = q /\ v.phase = a.phase /\ v.caller = a.caller /\ v.pending = a.pending
      /\ v.chain = a.chain /\ v.seq = a.seq /\ v.missed = a.missed /\ v.waiting = a.waiting
      /\ v.out = a.out /\ v.newest = a.newest /\ v.started = a.started /\ v.hook = a.hook
      /\ v.tried = a.tried /\ v.seen = a.seen /\ v.force = a.force /\ v.cursor = a.cursor /\ v.page = a.page
    BY <1>1 DEF Objects, Acknowledged
<1>3. Sound(v)
    BY <1>2 DEF Rests, Sound
<1> QED
    BY <1>2, <1>3 DEF Fewer, Rests, Carries

\* What is known when an acknowledgement of a bound view is answered.
LEMMA BoundAnswered ==
    ASSUME IInv, Stream, NEW who, Answer(who), this.bound, NEW t, t = this, NEW c, c = this.conn,
           NEW dq, dq = down[c], NEW uq, uq = up[c]
    PROVE  /\ Sizes /\ SubsInv /\ Roster /\ Table /\ log \in Nat /\ c \in Conns /\ t.conn = c /\ c # 0
           /\ Paired(t, dq, uq) /\ Good(t, dq, uq) /\ Sound(t) /\ Head(t.waiting).who = who
           /\ Bound(t, dq) /\ Tracked(t, dq) /\ AckLine(t, Talk(dq, uq)) /\ t.phase \in {"drain", "idle"}
           /\ t.phase = "idle" => t.pending = <<>>
           /\ t.chain # <<>> => ChainBusy(t)
           /\ subs[t.current].ackPos \in Int /\ Recent(Tail(dq)) /\ Tail(dq) \in Seq(Messages) /\ uq \in Seq(Requests)
           /\ AckSafe(t) /\ Showing(t) /\ Head(dq) \in Replies
<1>1. c \in Conns /\ t.conn = c /\ Paired(t, dq, uq) /\ Good(t, dq, uq) /\ Head(t.waiting).who = who
    BY Received
<1>2. Sizes /\ SubsInv /\ Roster /\ Table
    BY InvFacts DEF Stream
<1>3. log \in Nat /\ c # 0
    BY <1>1, <1>2, Bounds DEF Sizes, Conns
<1>4. Sound(t) /\ dq \in Seq(Messages) /\ uq \in Seq(Requests) /\ Head(dq) \in Replies
    BY <1>1 DEF Paired
<1>5. /\ Bound(t, dq) /\ Tracked(t, dq) /\ AckLine(t, Talk(dq, uq)) /\ t.phase \in {"drain", "idle"}
      /\ t.phase = "idle" => t.pending = <<>>
      /\ t.chain # <<>> => ChainBusy(t)
    BY <1>1, <1>4, GoodBound
<1>6. subs[t.current].ackPos \in Int
    BY <1>2, <1>5, ActiveNumbers
<1>7. Recent(Tail(dq)) /\ Tail(dq) \in Seq(Messages)
    BY <1>1, HeadIs
<1>8. AckSafe(t) /\ Showing(t)
    BY <1>1 DEF Good
<1> QED
    BY <1>1, <1>2, <1>3, <1>4, <1>5, <1>6, <1>7, <1>8

\* The waiters behind the answered one can be left behind.
LEMMA PartingBound ==
    ASSUME NEW t, NEW dq, NEW uq, Paired(t, dq, uq), Good(t, dq, uq), t.bound, NEW a, Rests(t, a),
           t.caller # "recovery" \/ t.phase = "idle" \/ ChainOnly(a)
    PROVE  Parting(Superseded(a).waiting, Talk(Tail(dq), uq)) /\ Len(a.waiting) = Len(Talk(Tail(dq), uq))
<1>1. Sound(t) /\ dq \in Seq(Messages) /\ t.waiting \in Seq(Waiters)
    BY ObjectIs DEF Paired
<1>2. Sound(a) /\ a.waiting = Tail(t.waiting)
    BY DEF Rests
<1>3. PICK x, y : x = Talk(Tail(dq), uq) /\ y = Talk(dq, uq)
    OBVIOUS
<1>4. AckLine(t, y)
    BY <1>1, <1>3, GoodBound
<1>5. ASSUME NEW k \in 1..Len(a.waiting)
      PROVE  (a.waiting[k].who \in {"est", "old"} => a.waiting[k].caller # "recovery") /\ x[k] \in Ends
  <2>1. a.waiting[k] = t.waiting[k + 1] /\ k + 1 \in 1..Len(t.waiting) /\ x[k] = y[k + 1]
    BY <1>2, <1>3, Left
  <2>2. PICK w : w = t.waiting[k + 1]
    OBVIOUS
  <2>3. AckEntry(t, k + 1, x[k])
    BY <1>3, <1>4, <2>1 DEF AckLine
  <2>4. w.who \in {"est", "chain"} /\ (Est(w) => t.phase = "drain" /\ w.caller = t.caller)
    BY <2>2, <2>3 DEF AckEntry
  <2>5. w.who \in {"est", "old"} => w.caller # "recovery"
    BY <2>1, <2>2, <2>4 DEF Est, ChainOnly
  <2>6. x[k] \in Ends
    <3>1. Entry(t, k + 1, x[k], dq)
      BY <1>2, <1>3, HeadIs
    <3>2. Acking(t, w)
      BY <2>4 DEF Est, Acking
    <3> QED
      BY <1>1, <2>1, <2>2, <3>1, <3>2, EntryEnds
  <2> QED
    BY <2>1, <2>2, <2>5, <2>6
<1>6. Parting(Superseded(a).waiting, x)
    BY <1>2, <1>5, PartingSuperseded
<1>7. Len(a.waiting) = Len(x)
    BY <1>2, <1>3, Left
<1> QED
    BY <1>3, <1>6, <1>7

LEMMA DrainStream ==
    ASSUME IInv, IInv', Stream, DrainAnswered
    PROVE  Stream' /\ Grew(this, this') /\ log' = log
<1>1. PICK t, c, dq, uq, w, a, m, d : /\ t = this /\ c = this.conn /\ dq = down[c] /\ uq = up[c] /\ w = Head(t.waiting)
                                      /\ a = Answered /\ m = Message /\ d = Tail(dq)
    OBVIOUS
<1>2. Answer("est") /\ t.phase = "drain"
    BY <1>1 DEF DrainAnswered
<1>3. t.bound
  <2>1. Placed(t)
    BY <1>1 DEF Stream, Good
  <2> QED
    BY <1>2, <2>1 DEF Placed
<1>4. /\ Sizes /\ SubsInv /\ Roster /\ Table /\ log \in Nat /\ c \in Conns /\ t.conn = c /\ c # 0
      /\ Paired(t, dq, uq) /\ Good(t, dq, uq) /\ Sound(t) /\ w.who = "est"
      /\ Bound(t, dq) /\ Tracked(t, dq) /\ AckLine(t, Talk(dq, uq)) /\ (t.chain # <<>> => ChainBusy(t))
      /\ subs[t.current].ackPos \in Int /\ Recent(d) /\ d \in Seq(Messages) /\ uq \in Seq(Requests)
      /\ AckSafe(t) /\ Showing(t) /\ Head(dq) \in Replies
    BY <1>1, <1>2, <1>3, BoundAnswered
<1>5. m = Head(dq)
    BY <1>1, <1>2, Received
<1>6. Rests(t, a) /\ RestsIn(t, a)
    BY <1>1, <1>2, AnsweredRests, RestsIs
<1>7. \A k \in 1..Len(Tail(t.waiting)) : Tail(t.waiting)[k].who = "chain"
    BY <1>1, <1>2, <1>4, BehindEst DEF Est
<1>8. ChainOnly(a)
    BY <1>6, <1>7 DEF RestsIn, ChainOnly
<1>9. Len(t.view) \in Nat
    BY <1>4, ObjectIs
<1>10. CASE m.kind = "success"
  <2>1. PICK q, v, u : q = w.cursor /\ v = Acknowledged(a, q) /\ u = Drained(v)
    OBVIOUS
  <2>2. m = Success
    BY <1>4, <1>5, <1>10, ReplySorts
  <2>3. q \in CursorIds
    BY <1>1, <1>4, <2>1, SettledIs
  <2>4. Fewer(t, v, q) /\ v.out = <<>> /\ Settles(t, dq, q)
    <3>1. Fewer(t, v, q) /\ v.out = <<>>
      BY <1>6, <2>1, <2>3, AckedFewer
    <3>2. Settles(t, dq, q)
      BY <1>1, <1>5, <2>1, <2>2 DEF Settles
    <3> QED
      BY <3>1, <3>2
  <2>5. Bound(v, d) /\ Tracked(v, d) /\ AckLine(v, Talk(d, uq))
    BY <1>1, <1>4, <2>4, FewerBound, FewerLine
  <2>6. v.waiting = Tail(t.waiting) /\ v.chain = t.chain /\ v.conn = c /\ v.view = t.view
    BY <1>4, <2>4 DEF Fewer
  <2>7. ChainOnly(v)
    BY <1>7, <2>6 DEF ChainOnly
  <2>8. v.chain # <<>> => ChainBusy(v)
    <3>1. SUFFICES ASSUME ChainBusy(t)  PROVE ChainBusy(v)
      BY <1>4, <2>6
    <3>2. PICK k \in 1..Len(t.waiting) : t.waiting[k].who = "chain"
      BY <3>1 DEF ChainBusy
    <3>3. /\ Len(t.waiting) \in Nat /\ w = t.waiting[1] /\ Len(Tail(t.waiting)) = Len(t.waiting) - 1
          /\ \A j \in 1..Len(Tail(t.waiting)) : Tail(t.waiting)[j] = t.waiting[j + 1]
      BY <1>1, <1>4, Left
    <3>4. k # 1
      BY <1>4, <3>2, <3>3
    <3>5. k - 1 \in 1..Len(Tail(t.waiting)) /\ (k - 1) + 1 = k
      BY <3>2, <3>3, <3>4
    <3>6. Tail(t.waiting)[k - 1] = t.waiting[k]
      BY <3>3, <3>5
    <3> QED
      BY <2>6, <3>2, <3>5, <3>6 DEF ChainBusy
  <2>9. Len(v.waiting) = Len(Talk(d, uq))
    BY <1>1, <1>4, <2>6, Left
  <2>10. Drainable(v, d, uq)
    BY <1>4, <2>4, <2>5, <2>7, <2>8, <2>9 DEF Drainable
  <2>11. Good(u, d, Cat(uq, u.out)) /\ Sound(u) /\ u.conn = v.conn /\ Len(v.view) <= Len(u.view) /\ Proper(u.out)
    BY <1>4, <2>1, <2>10, DrainedGood
  <2>12. Commit(u)
    BY <1>1, <1>10, <2>1 DEF DrainAnswered, Acknowledged
  <2>13. Good(u, Tail(dq), Cat(uq, u.out)) /\ u.conn = this.conn /\ Grew(this, u) /\ Proper(u.out)
    BY <1>1, <2>6, <2>11 DEF Grew
  <2> QED
    BY <1>1, <1>2, <2>11, <2>12, <2>13, AnswerStream
<1>11. CASE m.kind # "success"
  <2>1. PICK u : u = LoadingFailed(a)
    OBVIOUS
  <2>2. Commit(u)
    BY <1>1, <1>11, <2>1 DEF DrainAnswered
  <2>3. Parting(Superseded(a).waiting, Talk(d, uq)) /\ Len(a.waiting) = Len(Talk(d, uq))
    BY <1>1, <1>3, <1>4, <1>6, <1>8, PartingBound
  <2>4. AckSafe(a) /\ Showing(a) /\ Sound(a) /\ a.out = <<>> /\ a.conn = c /\ a.view = t.view
    BY <1>2, <1>4, <1>6 DEF AckSafe, Showing, RestsIn, Rests
  <2>5. Sound(u) /\ u.conn = a.conn /\ u.view = a.view /\ Good(u, d, Cat(uq, u.out)) /\ Proper(u.out)
    BY <1>4, <2>1, <2>3, <2>4, LoadingFailedGood
  <2>6. Good(u, Tail(dq), Cat(uq, u.out)) /\ u.conn = this.conn /\ Grew(this, u) /\ Proper(u.out)
    BY <1>1, <1>9, <2>4, <2>5 DEF Grew
  <2> QED
    BY <1>1, <1>2, <2>2, <2>5, <2>6, AnswerStream
<1> QED
    BY <1>10, <1>11

-----------------------------------------------------------------------------
(* The chain of live deliveries.                                           *)

\* What the chain starts from, when the deliveries up to number mid are queued.
Ripe(v, dq, uq, mid) ==
    LET i == v.current
        b == subs[i].base
        s == subs[i].seq
    IN /\ Bound(v, dq) /\ AckLine(v, Talk(dq, uq)) /\ v.out = <<>> /\ uq \in Seq(Requests)
       /\ Len(v.waiting) = Len(Talk(dq, uq)) /\ ~v.missed
       /\ v.phase \in {"drain", "idle"} /\ (v.phase = "idle" => v.pending = <<>>)
       /\ mid \in Nat /\ v.seq < mid /\ mid <= s
       /\ Of(v.pending, i) = <<>> /\ Of(dq, i) = Sent(i, b, mid, s)

\* A queue that was shown is shown.
Queued(v, queue) ==
    [v EXCEPT !.view = Reduced(@, Positions(queue)), !.chain = <<>>, !.seq = queue[Len(queue)].seq]

LEMMA AppliedSplit ==
    ASSUME NEW v, NEW queue, queue # <<>>
    PROVE  /\ Head(queue).seq = v.seq + 1 => Applied(v, queue) = AskAck(Queued(v, queue), "chain", queue[Len(queue)].cursor)
           /\ Head(queue).seq # v.seq + 1 => Applied(v, queue) = Recovered([v EXCEPT !.chain = <<>>], FALSE)
BY DEF Applied, Queued

\* The deliveries that are queued.
QueueOf(queue, i, b, lo, hi) ==
    /\ queue # <<>> /\ Head(queue).seq = lo + 1 /\ queue[Len(queue)].seq = hi
    /\ queue[Len(queue)].cursor = <<i, b + hi>>
    /\ Positions(queue) = Span((b + lo) + 1, b + hi) /\ Positions(queue) \in Seq(Nat)

LEMMA SentQueue ==
    ASSUME NEW i \in 1..MaxSubs, NEW b \in Nat, NEW lo \in Nat, NEW hi \in Nat, lo < hi, b + hi <= MaxEvents,
           NEW queue, queue = Sent(i, b, lo, hi)
    PROVE  QueueOf(queue, i, b, lo, hi)
<1>1. /\ queue # <<>> /\ Head(queue) = Note(i, b, lo + 1) /\ queue[Len(queue)] = Note(i, b, hi)
  <2>1. /\ Sent(i, b, lo, hi) # <<>> /\ Head(Sent(i, b, lo, hi)) = Note(i, b, lo + 1)
        /\ Tail(Sent(i, b, lo, hi)) = Sent(i, b, lo + 1, hi)
        /\ Sent(i, b, lo, hi)[Len(Sent(i, b, lo, hi))] = Note(i, b, hi)
    BY SentFirst
  <2> QED
    BY <2>1
<1>2. Head(queue).seq = lo + 1 /\ queue[Len(queue)].seq = hi /\ queue[Len(queue)].cursor = <<i, b + hi>>
    BY <1>1 DEF Note
<1>3. lo <= hi
    OBVIOUS
<1>4. Positions(queue) = Span((b + lo) + 1, b + hi)
    BY <1>3, SentPositions
<1>5. Positions(queue) \in Seq(Nat)
    BY <1>3, SentIs, PositionsAre
<1> QED
    BY <1>1, <1>2, <1>4, <1>5 DEF QueueOf

\* The object after that.
Queues(v, z, mid) ==
    /\ Sound(z) /\ Holds(v, z) /\ z.seq = mid /\ Shown(v, z, mid) /\ z.pending = v.pending /\ z.out = v.out
    /\ z.chain = <<>> /\ z.missed = v.missed /\ z.waiting = v.waiting /\ z.caller = v.caller /\ z.phase = v.phase

LEMMA QueuedShows ==
    ASSUME Sizes, SubsInv, Roster, NEW v, NEW dq, Bound(v, dq), NEW i, i = v.current, NEW b, b = subs[i].base, NEW mid \in Nat,
           v.seq < mid, mid <= subs[i].seq, NEW queue, queue = Sent(i, b, v.seq, mid), NEW z, z = Queued(v, queue)
    PROVE  Queues(v, z, mid) /\ QueueOf(queue, i, b, v.seq, mid)
<1>1. Sound(v) /\ v \in Objects /\ v.view \in Seq(Nat)
    BY ObjectIs DEF Bound, Sound
<1>2. PICK g \in Nat : g = v.seq
    BY <1>1, ObjectIs
<1>3. i \in 1..MaxSubs /\ b \in Nat /\ subs[i].seq \in Nat /\ b + subs[i].seq <= MaxEvents
    BY ActiveNumbers
<1>4. g < mid /\ b + mid <= MaxEvents /\ queue = Sent(i, b, g, mid)
    BY <1>2, <1>3, Bounds
<1>5. QueueOf(queue, i, b, g, mid)
    BY <1>3, <1>4, SentQueue
<1>6. queue[Len(queue)].seq = mid /\ Positions(queue) = Span((b + g) + 1, b + mid) /\ Positions(queue) \in Seq(Nat)
    BY <1>5 DEF QueueOf
<1>7. PICK w, e : w = Reduced(v.view, Positions(queue)) /\ e = <<>>
    OBVIOUS
<1>9. w \in Seq(Nat) /\ e \in Seq(Events)
  <2>1. w \in Seq(Nat)
    BY <1>1, <1>6, <1>7, ReducedIs
  <2> QED
    BY <1>7, <2>1
<1>10. z = [v EXCEPT !.view = w, !.chain = e, !.seq = mid]
    BY <1>6, <1>7 DEF Queued
<1>11. /\ z \in Objects /\ z.conn = v.conn /\ z.bound = v.bound /\ z.current = v.current /\ z.ack = v.ack
       /\ z.view = w /\ z.seq = mid /\ z.pending = v.pending /\ z.out = v.out /\ z.chain = e /\ z.missed = v.missed
       /\ z.waiting = v.waiting /\ z.caller = v.caller /\ z.phase = v.phase /\ z.page = v.page
    BY <1>1, <1>9, <1>10 DEF Objects
<1>12. Sound(z)
    BY <1>1, <1>11 DEF Sound
<1>13. Shown(v, z, mid)
    BY <1>2, <1>6, <1>7, <1>11 DEF Shown
<1>14. Queues(v, z, mid)
    BY <1>7, <1>11, <1>12, <1>13 DEF Holds, Queues
<1> QED
    BY <1>2, <1>5, <1>14

LEMMA AppliedGood ==
    ASSUME Sizes, SubsInv, Roster, NEW v, NEW dq, NEW uq, NEW mid, Ripe(v, dq, uq, mid), NEW i, i = v.current, NEW b, b = subs[i].base,
           NEW queue, queue = Sent(i, b, v.seq, mid), NEW u, u = Applied(v, queue)
    PROVE  Good(u, dq, Cat(uq, u.out)) /\ Sound(u) /\ u.conn = v.conn /\ Len(v.view) <= Len(u.view) /\ Proper(u.out)
<1>1. PICK s, z, q, y : s = subs[i].seq /\ z = Queued(v, queue) /\ q = <<i, b + mid>> /\ y = Talk(dq, uq)
    OBVIOUS
<1>2. /\ Bound(v, dq) /\ AckLine(v, y) /\ v.out = <<>> /\ uq \in Seq(Requests)
      /\ Len(v.waiting) = Len(y) /\ ~v.missed
      /\ v.phase \in {"drain", "idle"} /\ (v.phase = "idle" => v.pending = <<>>)
      /\ mid \in Nat /\ v.seq < mid /\ mid <= s
      /\ Of(v.pending, i) = <<>> /\ Of(dq, i) = Sent(i, b, mid, s)
    BY <1>1 DEF Ripe
<1>3. /\ Sound(z) /\ Holds(v, z) /\ z.seq = mid /\ Shown(v, z, mid) /\ z.pending = v.pending /\ z.out = v.out
      /\ z.chain = <<>> /\ z.missed = v.missed /\ z.waiting = v.waiting /\ z.caller = v.caller /\ z.phase = v.phase
      /\ queue # <<>> /\ Head(queue).seq = v.seq + 1 /\ queue[Len(queue)].cursor = q
  <2>1. Bound(v, dq) /\ mid \in Nat /\ v.seq < mid /\ mid <= subs[i].seq /\ z = Queued(v, queue)
    BY <1>1, <1>2
  <2>2. Queues(v, z, mid) /\ QueueOf(queue, i, b, v.seq, mid)
    BY <2>1, QueuedShows
  <2> QED
    BY <1>1, <2>2 DEF Queues, QueueOf
<1>4. u = AskAck(z, "chain", q)
  <2>1. queue # <<>> /\ Head(queue).seq = v.seq + 1
    BY <1>3
  <2>2. Applied(v, queue) = AskAck(Queued(v, queue), "chain", queue[Len(queue)].cursor)
    BY <2>1, AppliedSplit
  <2>3. queue[Len(queue)].cursor = q
    BY <1>3
  <2> QED
    BY <1>1, <2>2, <2>3
<1>5. z.conn = v.conn /\ z.current = i /\ z.ack = v.ack /\ z.bound = v.bound
    BY <1>3 DEF Holds
<1>6. /\ i \in 1..Len(subs) /\ i \in 1..MaxSubs /\ b \in Nat /\ s \in Nat /\ v.seq \in Nat /\ subs[i].ackPos \in Int
      /\ b + s <= MaxEvents /\ b + s <= log /\ log \in Nat /\ subs[i].state = "active" /\ dq \in Seq(Messages)
      /\ subs[i].ackPos <= b + v.seq /\ Len(v.view) \in Nat
    BY <1>1, <1>2, ActiveNumbers
<1>7. Sound(v) /\ Recent(v.pending)
    BY <1>2 DEF Bound
<1>8. v.seq <= mid /\ b + mid \in Nat /\ b + mid <= log /\ b + mid <= MaxEvents
  <2>1. PICK g, k, l, h \in Int : g = v.seq /\ k = s /\ l = log /\ h = MaxEvents
    BY <1>6, Bounds
  <2>2. g < mid /\ mid <= k /\ b + k <= h /\ b + k <= l /\ mid \in Nat /\ b \in Nat
    BY <1>2, <1>6, <2>1
  <2>3. g <= mid /\ b + mid \in Nat /\ b + mid <= l /\ b + mid <= h
    BY <2>2
  <2> QED
    BY <2>1, <2>3
<1>9. Bound(z, dq) /\ Len(v.view) <= Len(z.view) /\ b + mid <= Len(z.view)
    BY <1>1, <1>2, <1>3, <1>7, <1>8, AdvanceBound
<1>10. q \in CursorIds /\ Issued(q) /\ q[1] = i /\ q[2] = b + mid
  <2>1. PICK n \in Nat : n = b + mid
    BY <1>8
  <2>2. n <= log /\ q = <<i, n>>
    BY <1>1, <1>8, <2>1
  <2>3. i \in 1..Len(subs) /\ log \in Nat /\ (subs[i].state = "loading" => n = subs[i].base)
    BY <1>6
  <2>4. Issued(q) /\ q[1] = i /\ q[2] = n
    BY <2>2, <2>3, IssuedIs
  <2>5. q \in CursorIds
    BY <1>1, <1>2, <1>6, <1>8, NoteIs
  <2> QED
    BY <2>1, <2>4, <2>5
<1>11. PICK m, w : m = [method |-> "ack", sub |-> i, cursor |-> q] /\ w = Waiter("chain", q, z.caller)
    OBVIOUS
<1>12. Asked(z, u, m, w) /\ w.who = "chain" /\ w.cursor = q /\ w.caller = z.caller
  <2>1. "chain" \in Whos
    BY DEF Whos
  <2> QED
    BY <1>3, <1>4, <1>5, <1>10, <1>11, <2>1, AskAckFields
<1>13. /\ Sound(u) /\ Carries(z, u) /\ u.bound = z.bound /\ u.pending = z.pending /\ u.chain = z.chain
       /\ u.waiting = Append(z.waiting, w) /\ u.out = Append(z.out, m) /\ m \in Requests /\ w \in Waiters
    BY <1>12 DEF Asked
<1>14. /\ u.conn = z.conn /\ u.view = z.view /\ u.current = z.current /\ u.ack = z.ack /\ u.phase = z.phase
       /\ u.caller = z.caller /\ u.seq = z.seq /\ u.missed = z.missed
    BY <1>13 DEF Carries
<1>15. AckLine(z, y)
  <2>1. v.seq <= z.seq /\ v.seq \in Int /\ z.seq \in Int /\ Len(v.view) \in Int /\ Len(z.view) \in Int /\ b \in Int
    <3>1. Len(z.view) \in Int /\ z.seq \in Int
      BY <1>3, ObjectIs
    <3>2. v.seq \in Int /\ Len(v.view) \in Int /\ b \in Int
      BY <1>6
    <3> QED
      BY <1>3, <1>8, <3>1, <3>2
  <2>2. Onwards(v, z)
    BY <1>1, <1>3, <1>5, <1>9, <2>1 DEF Onwards
  <2> QED
    BY <1>2, <1>6, <2>2, AckLineGrown
<1>16. ASSUME NEW k \in 1..Len(z.waiting)
       PROVE  z.waiting[k].cursor[2] < q[2]
  <2>1. AckEntry(v, k, y[k])
    BY <1>2, <1>3 DEF AckLine
  <2>2. PICK p : p = v.waiting[k].cursor
    OBVIOUS
  <2>3. Issued(p) /\ p[2] <= b + v.seq
    BY <1>1, <2>1, <2>2 DEF AckEntry
  <2>4. p[2] \in Int
    BY <1>6, <2>3, IssuedInt
  <2>5. PICK g, h \in Int : g = v.seq /\ h = p[2]
    BY <1>6, <2>4
  <2>6. h <= b + g /\ g < mid /\ b \in Nat /\ mid \in Nat
    BY <1>2, <1>6, <2>3, <2>5
  <2>7. h < b + mid
    BY <2>6
  <2> QED
    BY <1>3, <1>10, <2>2, <2>5, <2>7
<1>17. AckLine(u, Append(y, m))
  <2>1. y \in Seq(Replies \cup Requests)
    BY <1>1, <1>2, <1>6, TalkIs
  <2>2. subs[i].ackPos < q[2]
    <3>1. PICK a, g \in Int : a = subs[i].ackPos /\ g = v.seq
      BY <1>6
    <3>2. a <= b + g /\ g < mid /\ b \in Nat /\ mid \in Nat
      BY <1>2, <1>6, <3>1
    <3>3. a < b + mid
      BY <3>2
    <3> QED
      BY <1>10, <3>1, <3>3
  <2>4. q[2] <= subs[i].base + z.seq
    BY <1>3, <1>8, <1>10
  <2>5. q[2] <= Len(z.view)
    BY <1>9, <1>10
  <2>6. Len(z.waiting) = Len(y)
    BY <1>2, <1>3
  <2> QED
    <3>1. /\ Sound(z) /\ w \in Waiters /\ m \in Requests /\ Len(z.waiting) = Len(y) /\ AckLine(z, y)
          /\ u.waiting = Append(z.waiting, w) /\ u.current = z.current /\ u.ack = z.ack /\ u.phase = z.phase
          /\ u.caller = z.caller /\ u.seq = z.seq /\ u.view = z.view /\ log \in Nat /\ w.who = "chain"
      BY <1>3, <1>6, <1>12, <1>13, <1>14, <1>15, <2>6
    <3>2. /\ q = w.cursor /\ Issued(q) /\ q[1] = z.current /\ q[2] <= subs[z.current].base + z.seq /\ q[2] <= Len(z.view)
          /\ m = [method |-> "ack", sub |-> z.current, cursor |-> q] /\ subs[z.current].ackPos < q[2]
      BY <1>5, <1>10, <1>11, <1>12, <2>2, <2>4, <2>5
    <3> QED
      BY <1>16, <2>1, <3>1, <3>2, AckLineAsk
<1>18. u.out = <<m>>
    BY <1>2, <1>3, <1>13
<1>19. Talk(dq, Cat(uq, u.out)) = Append(y, m)
  <2>1. PICK t : t = Append(uq, m)
    OBVIOUS
  <2>2. \A a \in Seq(Requests) : \A e \in Requests : a \o <<e>> = Append(a, e)
    OBVIOUS
  <2>3. Cat(uq, u.out) = t
    BY <1>2, <1>13, <1>18, <2>1, <2>2 DEF Cat
  <2>4. Talk(dq, t) = Append(y, m)
    BY <1>1, <1>2, <1>6, <1>13, <2>1, TalkAsk
  <2> QED
    BY <2>3, <2>4
<1>20. u.chain = <<>> /\ u.pending = v.pending /\ u.current = i /\ u.seq = mid /\ ~u.missed /\ u.phase = v.phase
    BY <1>2, <1>3, <1>5, <1>13, <1>14
<1>21. Tracked(u, dq)
  <2>1. Sent(i, b, mid, mid) = <<>>
    BY <1>2, <1>6, <1>8, SentNone
  <2>2. PICK x : x = Of(dq, i)
    OBVIOUS
  <2>3. x \in Seq(Messages)
    BY <1>6, <2>2, OfIs
  <2>4. u.chain \o x = x
    BY <1>20, <2>3
  <2>5. u.chain \o Of(dq, i) = Sent(i, b, mid, s)
    BY <1>2, <2>2, <2>4
  <2>6. Of(u.pending, i) = Sent(i, b, mid, mid)
    BY <1>2, <1>20, <2>1
  <2>7. mid <= mid /\ ~(mid < mid)
    BY <1>2
  <2>8. Collected(u, dq, mid, mid)
    BY <1>1, <1>2, <1>20, <2>5, <2>6, <2>7 DEF Collected
  <2> QED
    BY <1>2, <2>8, TrackedIs
<1>22. Bound(u, dq)
  <2>1. Holds(z, u)
    BY <1>13, <1>14 DEF Holds
  <2>2. Recent(u.pending)
    BY <1>7, <1>20
  <2> QED
    BY <1>9, <1>13, <1>14, <2>1, <2>2, BoundSame
<1>23. Good(u, dq, Cat(uq, u.out))
  <2>1. AckLine(u, Talk(dq, Cat(uq, u.out)))
    BY <1>17, <1>19
  <2>2. u.phase \in {"drain", "idle"} /\ (u.phase = "idle" => u.pending = <<>>) /\ u.chain = <<>>
    BY <1>2, <1>20
  <2> QED
    BY <1>21, <1>22, <2>1, <2>2, BoundGood
<1>24. Proper(u.out)
  <2>1. m.method # "subscribe"
    BY <1>11
  <2> QED
    BY <1>18, <2>1, ProperFew
<1> QED
    BY <1>5, <1>9, <1>13, <1>14, <1>23, <1>24

\* While the chain is busy, the view has missed nothing and what it did not handle is queued.
LEMMA BusyQueue ==
    ASSUME Sizes, SubsInv, Roster, NEW t, NEW dq, Bound(t, dq), Tracked(t, dq), ChainBusy(t), NEW i, i = t.current, NEW b, b = subs[i].base
    PROVE  /\ ~t.missed /\ Of(t.pending, i) = <<>>
           /\ \E mid \in Nat : /\ t.seq <= mid /\ mid <= subs[i].seq /\ t.chain = Sent(i, b, t.seq, mid)
                               /\ Of(dq, i) = Sent(i, b, mid, subs[i].seq)
<1>1. PICK s : s = subs[i].seq
    OBVIOUS
<1>2. Sound(t)
    BY DEF Bound
<1>3. /\ i \in 1..MaxSubs /\ b \in Nat /\ s \in Nat /\ b + s <= MaxEvents /\ t.seq \in Nat /\ t.seq <= s /\ dq \in Seq(Messages)
      /\ t.chain \in Seq(Messages) /\ MaxEvents \in Nat
    BY <1>1, <1>2, ActiveNumbers, ObjectIs, Bounds
<1>4. PICK p, r \in Nat : Collected(t, dq, p, r)
    BY TrackedIs
<1>5. /\ p = t.seq /\ r = p /\ Of(t.pending, i) = Sent(i, b, t.seq, p) /\ t.chain \o Of(dq, i) = Sent(i, b, r, s)
      /\ (t.missed <=> p < r)
    BY <1>1, <1>4 DEF Collected
<1>6. PICK g \in Nat : g = t.seq
    BY <1>3
<1>7. b + g <= MaxEvents /\ g <= s
    BY <1>3, <1>6
<1>8. Of(t.pending, i) = <<>>
  <2>1. Of(t.pending, i) = Sent(i, b, g, g)
    BY <1>5, <1>6
  <2>2. Sent(i, b, g, g) = <<>>
    BY <1>3, <1>7, SentNone
  <2> QED
    BY <2>1, <2>2
<1>9. ~t.missed
    BY <1>5
<1>10. PICK x, y : x = t.chain /\ y = Of(dq, i)
    OBVIOUS
<1>11. x \in Seq(Messages) /\ y \in Seq(Messages)
    BY <1>3, <1>10, OfIs
<1>12. Cat(x, y) = Sent(i, b, g, s)
    BY <1>5, <1>6, <1>10 DEF Cat
<1>13. PICK mid \in Nat : g <= mid /\ mid <= s /\ x = Sent(i, b, g, mid) /\ y = Sent(i, b, mid, s)
  <2>1. i \in 1..MaxSubs /\ b \in Nat /\ s \in Nat /\ b + s <= MaxEvents
    BY <1>3
  <2>2. \E mid \in Nat : g <= mid /\ mid <= s /\ x = Sent(i, b, g, mid) /\ y = Sent(i, b, mid, s)
    BY <1>7, <1>11, <1>12, <2>1, SentParts
  <2> QED
    BY <2>2
<1> QED
    BY <1>1, <1>6, <1>8, <1>9, <1>10, <1>13

\* The chain goes on when its acknowledgement is answered.
LEMMA ChainOn ==
    ASSUME Sizes, SubsInv, Roster, Table, NEW t, NEW dq, NEW uq, Paired(t, dq, uq), Bound(t, dq), Tracked(t, dq), AckLine(t, Talk(dq, uq)),
           log \in Nat, t.phase \in {"drain", "idle"}, t.phase = "idle" => t.pending = <<>>, ChainBusy(t),
           NEW v, NEW q, Fewer(t, v, q), Settles(t, dq, q), v.out = <<>>, NEW u, u = Applied(v, t.chain)
    PROVE  Good(u, Tail(dq), Cat(uq, u.out)) /\ Sound(u) /\ u.conn = t.conn /\ Len(t.view) <= Len(u.view) /\ Proper(u.out)
<1>1. PICK i, b, s, d : i = t.current /\ b = subs[i].base /\ s = subs[i].seq /\ d = Tail(dq)
    OBVIOUS
<1>2. /\ i \in 1..MaxSubs /\ b \in Nat /\ s \in Nat /\ b + s <= MaxEvents /\ t.seq \in Nat /\ t.seq <= s /\ dq \in Seq(Messages)
      /\ subs[i].ackPos \in Int /\ Len(t.view) \in Nat /\ MaxEvents \in Nat
    BY <1>1, ActiveNumbers, Bounds
<1>3. uq \in Seq(Requests) /\ d \in Seq(Messages) /\ Head(dq) \in Replies /\ dq # <<>>
    BY <1>1, Left DEF Paired
<1>4. Bound(v, d) /\ Tracked(v, d) /\ AckLine(v, Talk(d, uq))
    BY <1>1, <1>2, FewerBound, FewerLine
<1>5. /\ Sound(v) /\ v.conn = t.conn /\ v.view = t.view /\ v.current = i /\ v.phase = t.phase /\ v.pending = t.pending
      /\ v.chain = t.chain /\ v.seq = t.seq /\ v.missed = t.missed /\ v.waiting = Tail(t.waiting)
    BY <1>1 DEF Fewer
<1>6. Len(v.waiting) = Len(Talk(d, uq))
    BY <1>1, <1>5, Left
<1>7. ~t.missed /\ Of(t.pending, i) = <<>>
    BY <1>1, BusyQueue
<1>8. PICK mid \in Nat : /\ t.seq <= mid /\ mid <= s /\ t.chain = Sent(i, b, t.seq, mid)
                         /\ Of(dq, i) = Sent(i, b, mid, s)
    BY <1>1, BusyQueue
<1>9. Of(d, i) = Of(dq, i)
  <2>1. Head(dq) \notin Happening(i)
    BY <1>3, HappeningIs
  <2> QED
    BY <1>1, <1>2, <1>3, <2>1, OfHead
<1>10. CASE t.chain = <<>>
  <2>1. u = v
    BY <1>10 DEF Applied
  <2>2. Good(v, d, uq)
    BY <1>4, <1>5, <1>10, BoundGood
  <2>3. Cat(uq, v.out) = uq /\ Proper(v.out)
    BY <1>3, CatNone, ProperFew
  <2> QED
    BY <1>1, <1>2, <1>5, <2>1, <2>2, <2>3
<1>11. CASE t.chain # <<>>
  <2>1. t.seq < mid
    <3>1. PICK g \in Nat : g = t.seq
      BY <1>2
    <3>2. g = mid => Sent(i, b, g, mid) = <<>>
      <4>1. b + g <= MaxEvents
        BY <1>2, <3>1
      <4> QED
        BY <1>2, <4>1, SentNone
    <3>3. g # mid
      BY <1>8, <1>11, <3>1, <3>2
    <3> QED
      BY <1>8, <3>1, <3>3
  <2>2. Ripe(v, d, uq, mid)
    BY <1>1, <1>3, <1>4, <1>5, <1>6, <1>7, <1>8, <1>9, <2>1 DEF Ripe
  <2>3. t.chain = Sent(i, b, v.seq, mid)
    BY <1>5, <1>8
  <2>4. Good(u, d, Cat(uq, u.out)) /\ Sound(u) /\ u.conn = v.conn /\ Len(v.view) <= Len(u.view) /\ Proper(u.out)
    <3>1. i = v.current
      BY <1>5
    <3> QED
      BY <1>1, <2>2, <2>3, <3>1, AppliedGood
  <2> QED
    BY <1>1, <1>5, <2>4
<1> QED
    BY <1>10, <1>11

LEMMA ChainStream ==
    ASSUME IInv, IInv', Stream, ChainAnswered
    PROVE  Stream' /\ Grew(this, this') /\ log' = log
<1>1. PICK t, c, dq, uq, w, a, m, d : /\ t = this /\ c = this.conn /\ dq = down[c] /\ uq = up[c] /\ w = Head(t.waiting)
                                      /\ a = Answered /\ m = Message /\ d = Tail(dq)
    OBVIOUS
<1>2. Answer("chain")
    BY DEF ChainAnswered
<1>3. Paired(t, dq, uq) /\ Good(t, dq, uq) /\ w.who = "chain" /\ m = Head(dq)
    BY <1>1, <1>2, Received
<1>4. t.bound /\ ChainBusy(t)
  <2>1. Entry(t, 1, Head(dq), dq) /\ w = t.waiting[1] /\ 1 \in 1..Len(t.waiting)
    BY <1>1, <1>3, HeadIs, Left
  <2> QED
    BY <1>3, <2>1 DEF Entry, Lined, ChainBusy
<1>5. /\ Sizes /\ SubsInv /\ Roster /\ Table /\ log \in Nat /\ c \in Conns /\ t.conn = c /\ c # 0 /\ Sound(t)
      /\ Bound(t, dq) /\ Tracked(t, dq) /\ AckLine(t, Talk(dq, uq)) /\ t.phase \in {"drain", "idle"}
      /\ (t.phase = "idle" => t.pending = <<>>)
      /\ Recent(d) /\ d \in Seq(Messages) /\ uq \in Seq(Requests) /\ AckSafe(t) /\ Showing(t) /\ m \in Replies
    BY <1>1, <1>2, <1>3, <1>4, BoundAnswered
<1>6. Rests(t, a) /\ RestsIn(t, a)
    BY <1>1, <1>2, AnsweredRests, RestsIs
<1>7. Len(t.view) \in Nat
    BY <1>5, ObjectIs
<1>8. Recovering(a) <=> Recovering(t)
    BY <1>6 DEF RestsIn, Recovering
<1>9. CASE m.kind = "success"
  <2>1. PICK q, v, u : q = w.cursor /\ v = Acknowledged(a, q) /\ u = Applied(v, t.chain)
    OBVIOUS
  <2>2. m = Success
    BY <1>5, <1>9, ReplySorts
  <2>3. q \in CursorIds
    BY <1>1, <1>3, <1>5, <2>1, SettledIs
  <2>4. Fewer(t, v, q) /\ v.out = <<>> /\ Settles(t, dq, q)
    <3>1. Fewer(t, v, q) /\ v.out = <<>>
      BY <1>6, <2>1, <2>3, AckedFewer
    <3>2. Settles(t, dq, q)
      BY <1>1, <1>3, <2>1, <2>2 DEF Settles
    <3> QED
      BY <3>1, <3>2
  <2>5. Good(u, Tail(dq), Cat(uq, u.out)) /\ Sound(u) /\ u.conn = t.conn /\ Len(t.view) <= Len(u.view) /\ Proper(u.out)
    BY <1>3, <1>4, <1>5, <2>1, <2>4, ChainOn
  <2>6. Commit(u)
    BY <1>1, <1>9, <2>1 DEF ChainAnswered, Acknowledged
  <2>7. Good(u, Tail(dq), Cat(uq, u.out)) /\ u.conn = this.conn /\ Grew(this, u) /\ Proper(u.out)
    BY <1>1, <2>5 DEF Grew
  <2> QED
    BY <1>1, <1>2, <2>5, <2>6, <2>7, AnswerStream
<1>10. CASE m.kind # "success" /\ Recovering(t)
  <2>1. PICK u : u = Applied(a, t.chain)
    OBVIOUS
  <2>2. Fewer(t, a, t.ack) /\ Settles(t, dq, t.ack) /\ a.out = <<>>
    BY <1>6, CarriedFewer DEF Settles, RestsIn
  <2>3. Good(u, Tail(dq), Cat(uq, u.out)) /\ Sound(u) /\ u.conn = t.conn /\ Len(t.view) <= Len(u.view) /\ Proper(u.out)
    BY <1>3, <1>4, <1>5, <2>1, <2>2, ChainOn
  <2>4. Commit(u)
    BY <1>1, <1>10, <2>1 DEF ChainAnswered
  <2>5. Good(u, Tail(dq), Cat(uq, u.out)) /\ u.conn = this.conn /\ Grew(this, u) /\ Proper(u.out)
    BY <1>1, <2>3 DEF Grew
  <2> QED
    BY <1>1, <1>2, <2>3, <2>4, <2>5, AnswerStream
<1>11. CASE m.kind # "success" /\ ~Recovering(t)
  <2>1. PICK u : u = Recovered(a, TRUE)
    OBVIOUS
  <2>2. Commit(u)
    BY <1>1, <1>11, <2>1 DEF ChainAnswered
  <2>3. Parting(Superseded(a).waiting, Talk(d, uq)) /\ Len(a.waiting) = Len(Talk(d, uq))
    <3>1. t.caller # "recovery" \/ t.phase = "idle"
      BY <1>11 DEF Recovering
    <3> QED
      BY <1>1, <1>3, <1>4, <1>6, <3>1, PartingBound
  <2>4. AckSafe(a) /\ Showing(a) /\ Sound(a) /\ a.out = <<>> /\ a.conn = c /\ a.view = t.view /\ a.ack = t.ack
    BY <1>5, <1>6 DEF AckSafe, Showing, RestsIn, Rests
  <2>5. Unknown(a.ack)
    <3>1. m # Success
      BY <1>11 DEF Success
    <3>2. AckMatched(t, w, m) /\ m \in Errors
      BY <1>1, <1>3, <1>5, <3>1, SettledIs
    <3>3. \A j, p : m # [method |-> "ack", sub |-> j, cursor |-> p]
      BY <1>5, ReplySorts
    <3> QED
      BY <1>3, <2>4, <3>1, <3>2, <3>3 DEF AckMatched, Lapsed
  <2>6. Sound(u) /\ u.conn = a.conn /\ u.view = a.view /\ Good(u, d, Cat(uq, u.out)) /\ Proper(u.out)
    <3>1. ~Recovering(a) /\ TRUE \in BOOLEAN /\ a.conn # 0
      BY <1>5, <1>8, <1>11, <2>4
    <3> QED
      BY <1>5, <2>1, <2>3, <2>4, <2>5, <3>1, RecoveredGood
  <2>7. Good(u, Tail(dq), Cat(uq, u.out)) /\ u.conn = this.conn /\ Grew(this, u) /\ Proper(u.out)
    BY <1>1, <1>5, <1>7, <2>4, <2>6 DEF Grew
  <2> QED
    BY <1>1, <1>2, <2>2, <2>6, <2>7, AnswerStream
<1> QED
    BY <1>9, <1>10, <1>11

-----------------------------------------------------------------------------
(* An event arrives.                                                       *)

LEMMA SentSingle ==
    ASSUME NEW i \in 1..MaxSubs, NEW b \in Nat, NEW r \in Nat, b + (r + 1) <= MaxEvents, NEW m, m = Note(i, b, r + 1),
           NEW k, k = r + 1
    PROVE  <<m>> = Sent(i, b, r, k)
<1>1. Sent(i, b, r, r + 1) = <<Note(i, b, r + 1)>>
    BY SentOne
<1> QED
    BY <1>1

\* The message is taken from the connection, and is no answer.
TakenFrom(t, c, dq, uq, m, d) ==
    /\ c # 0 /\ Sound(t) /\ c \in Conns /\ t.conn = c /\ t.out = <<>> /\ t \in Objects /\ t.phase # "failed"
    /\ dq \in Seq(Messages) /\ uq \in Seq(Requests) /\ Good(t, dq, uq) /\ Len(t.waiting) = Len(Talk(d, uq))
    /\ Sizes /\ SubsInv /\ Roster /\ Table /\ log \in Nat
    /\ dq # <<>> /\ m = Head(dq) /\ m \in Events /\ m \in Messages /\ d \in Seq(Messages) /\ Talk(d, uq) = Talk(dq, uq)
    /\ Recent(dq) /\ Recent(d) /\ m.sub <= Len(subs)

LEMMA EventTaken ==
    ASSUME IInv, Stream, Incoming, Message.kind = "event", NEW t, t = this, NEW c, c = this.conn, NEW dq, dq = down[c],
           NEW uq, uq = up[c], NEW m, m = Message, NEW d, d = Tail(dq)
    PROVE  TakenFrom(t, c, dq, uq, m, d)
<1>1. c # 0 /\ dq # <<>> /\ t.phase # "failed" /\ m = Head(dq)
    BY DEF Incoming, Message
<1>2. /\ Sound(t) /\ c \in Conns /\ t.conn = c /\ t.out = <<>> /\ t \in Objects
      /\ dq \in Seq(Messages) /\ uq \in Seq(Requests) /\ Good(t, dq, uq) /\ Len(t.waiting) = Len(Talk(dq, uq))
      /\ Sizes /\ SubsInv /\ Roster /\ Table /\ log \in Nat
    BY <1>1, InUseHere
<1>3. /\ m \in Messages /\ m = dq[1] /\ 1 \in 1..Len(dq) /\ d \in Seq(Messages) /\ Len(dq) \in Nat
      /\ \A k \in 1..Len(d) : d[k] = dq[k + 1] /\ k + 1 \in 1..Len(dq)
    BY <1>1, <1>2
<1>4. m \in Events
    BY <1>3, HappeningIs
<1>5. m \notin Replies
  <2>1. m \in Happening(m.sub)
    BY <1>4, HappeningIs
  <2> QED
    BY <2>1, HappeningIs
<1>6. Talk(d, uq) = Talk(dq, uq)
    BY <1>1, <1>2, <1>5, TalkNext
<1>7. Recent(dq)
    BY <1>2 DEF Good, Streaming
<1>8. Recent(d) /\ m.sub <= Len(subs)
    BY <1>3, <1>7 DEF Recent
<1> QED
    BY <1>1, <1>2, <1>3, <1>4, <1>6, <1>7, <1>8 DEF TakenFrom

LEMMA EventStream ==
    ASSUME IInv, IInv', Stream, NEW c, c = this.conn, c # 0, Consumed, DaemonSame, sock' = sock,
           NEW dq, dq = down[c], NEW uq, uq = up[c],
           NEW u, Sound(u), u.conn = c, Commit(u), Proper(u.out), Grew(this, u), Good(u, Tail(dq), Cat(uq, u.out))
    PROVE  Stream' /\ Grew(this, this') /\ log' = log
<1>1. c \in Conns /\ down \in [Conns -> Seq(Messages)]
    BY InvFacts
<1>2. Fresh(c)
    BY DEF Fresh
<1>3. PICK d, y : d = Tail(dq) /\ y = Cat(uq, u.out)
    OBVIOUS
<1>4. down'[c] = d
    BY <1>1, <1>3 DEF Consumed
<1>5. Roster'
    BY OwnRoster
<1>6. Good(u, d, y) /\ y = Cat(up[c], u.out)
    BY <1>3
<1> QED
    BY <1>1, <1>2, <1>4, <1>5, <1>6, ClientStream

\* The promises of an object whose events move.
LEMMA TalkOn ==
    ASSUME NEW t, NEW u, u.conn = t.conn, u.bound = t.bound, u.view = t.view, u.current = t.current, u.ack = t.ack,
           u.phase = t.phase, u.caller = t.caller, u.cursor = t.cursor, u.seq = t.seq, u.waiting = t.waiting,
           NEW dq, NEW d, NEW uq, Talk(d, uq) = Talk(dq, uq), Conversing(t, dq, uq),
           t.phase = "subscribe" => \A i : Begun(t, dq, i) => Begun(u, d, i)
    PROVE  Conversing(u, d, uq)
<1> SUFFICES ASSUME u.phase # "failed", NEW k \in 1..Len(u.waiting)
             PROVE  Lined(u, k) /\ Waits(u, k) /\ Matched(u, u.waiting[k], Talk(d, uq)[k], d)
    BY DEF Conversing
<1>1. PICK w, m : w = t.waiting[k] /\ m = Talk(dq, uq)[k]
    OBVIOUS
<1>2. Lined(t, k) /\ Waits(t, k) /\ Matched(t, w, m, dq)
    BY <1>1 DEF Conversing
<1>3. Joined(u) <=> Joined(t)
    BY DEF Joined
<1>4. \A x : Acking(u, x) <=> Acking(t, x)
    BY DEF Acking
<1>5. Lined(u, k)
    BY <1>2, <1>3 DEF Lined
<1>6. Waits(u, k)
    BY <1>2, <1>4 DEF Waits
<1>7. Acking(u, w) => AckMatched(u, w, m)
    BY <1>2, <1>4, AckMatchedSame DEF Matched
<1>8. Est(w) /\ u.phase = "subscribe" => SubscribeMatched(u, m, d)
    BY <1>2 DEF Matched, SubscribeMatched
<1>9. Est(w) /\ u.phase = "history" => HistoryMatched(u, m)
    BY <1>2 DEF Matched, HistoryMatched
<1>10. w.who \in {"old", "stale"} \/ (Est(w) /\ u.phase \in {"leaving", "cleanup"}) => m \in Ends
    BY <1>2 DEF Matched
<1>11. Matched(u, w, m, d)
    BY <1>7, <1>8, <1>9, <1>10 DEF Matched
<1> QED
    BY <1>1, <1>5, <1>6, <1>11

LEMMA TakenIs ==
    ASSUME IInv, Stream, Incoming, Message.kind = "event"
    PROVE  \A t, c, dq, uq, m, d : t = this /\ c = this.conn /\ dq = down[c] /\ uq = up[c] /\ m = Message /\ d = Tail(dq)
                                   => TakenFrom(t, c, dq, uq, m, d)
    BY EventTaken

\* What is done with an event.
Collect(t, m) == [t EXCEPT !.pending = Append(@, m)]
Noted(t, m) == [t EXCEPT !.newest = m.seq]
Chained(t, m) == [Noted(t, m) EXCEPT !.chain = Append(@, m)]

LEMMA EventSplit ==
    ASSUME ReceiveEvent, NEW t, t = this, NEW m, m = Message
    PROVE  /\ Incoming /\ Message.kind = "event" /\ Consumed /\ DaemonSame /\ sock' = sock
           /\ \/ Loading(t) /\ Commit(Collect(t, m))
              \/ ~Loading(t) /\ (~t.bound \/ m.sub # t.current) /\ Commit(t)
              \/ ~Loading(t) /\ t.bound /\ m.sub = t.current /\ ChainBusy(t) /\ Commit(Chained(t, m))
              \/ ~Loading(t) /\ t.bound /\ m.sub = t.current /\ ~ChainBusy(t) /\ Commit(Applied(Noted(t, m), <<m>>))
<1>1. /\ Incoming /\ Message.kind = "event" /\ Consumed /\ DaemonSame /\ sock' = sock
    BY DEF ReceiveEvent
<1>2. Commit(IF Loading(t) THEN Collect(t, m)
             ELSE IF ~t.bound \/ m.sub # t.current THEN t
             ELSE IF ChainBusy(t) THEN Chained(t, m) ELSE Applied(Noted(t, m), <<m>>))
    BY DEF ReceiveEvent, Collect, Noted, Chained
<1> QED
    BY <1>1, <1>2

LEMMA CollectFields ==
    ASSUME NEW t, Sound(t), NEW m \in Events, NEW u, u = Collect(t, m)
    PROVE  /\ Sound(u) /\ u.out = t.out /\ u.conn = t.conn /\ u.bound = t.bound /\ u.view = t.view /\ u.current = t.current
           /\ u.ack = t.ack /\ u.phase = t.phase /\ u.caller = t.caller /\ u.force = t.force /\ u.cursor = t.cursor
           /\ u.page = t.page /\ u.seq = t.seq /\ u.chain = t.chain /\ u.waiting = t.waiting /\ u.missed = t.missed
           /\ u.pending = Append(t.pending, m)
<1>1. t \in Objects /\ t.pending \in Seq(Events)
    BY ObjectIs DEF Sound
<1>2. PICK p : p = Append(t.pending, m)
    OBVIOUS
<1>3. p \in Seq(Events)
    BY <1>1, <1>2
<1>4. [t EXCEPT !.pending = p] \in Objects
    BY <1>1, <1>3 DEF Objects
<1>5. u = [t EXCEPT !.pending = p]
    BY <1>2 DEF Collect
<1>6. u \in Objects
    BY <1>4, <1>5
<1> QED
    BY <1>1, <1>2, <1>5, <1>6 DEF Objects, Sound

\* Events that arrive while a snapshot is read are kept.
LEMMA ReceiveLoading ==
    ASSUME IInv, IInv', Stream, Incoming, Message.kind = "event", Consumed, DaemonSame, sock' = sock, NEW t, t = this,
           NEW m, m = Message, Loading(t), Commit(Collect(t, m))
    PROVE  Stream' /\ Grew(this, this') /\ log' = log
<1>1. PICK c, dq, uq, d, u : c = this.conn /\ dq = down[c] /\ uq = up[c] /\ d = Tail(dq) /\ u = Collect(t, m)
    OBVIOUS
<1>2. /\ c # 0 /\ Sound(t) /\ c \in Conns /\ t.conn = c /\ t.out = <<>> /\ t \in Objects /\ t.phase # "failed"
      /\ dq \in Seq(Messages) /\ uq \in Seq(Requests) /\ Good(t, dq, uq) /\ Len(t.waiting) = Len(Talk(d, uq))
      /\ Sizes /\ SubsInv /\ Roster /\ Table /\ log \in Nat
      /\ dq # <<>> /\ m = Head(dq) /\ m \in Events /\ m \in Messages /\ d \in Seq(Messages) /\ Talk(d, uq) = Talk(dq, uq)
      /\ Recent(dq) /\ Recent(d) /\ m.sub <= Len(subs)
  <2>1. t = this /\ c = this.conn /\ dq = down[c] /\ uq = up[c] /\ m = Message /\ d = Tail(dq)
    BY <1>1
  <2>2. TakenFrom(t, c, dq, uq, m, d)
    BY <2>1, TakenIs
  <2> QED
    BY <2>2 DEF TakenFrom
<1>3. /\ Sound(u) /\ u.out = t.out /\ u.conn = t.conn /\ u.bound = t.bound /\ u.view = t.view /\ u.current = t.current
      /\ u.ack = t.ack /\ u.phase = t.phase /\ u.caller = t.caller /\ u.force = t.force /\ u.cursor = t.cursor
      /\ u.page = t.page /\ u.seq = t.seq /\ u.chain = t.chain /\ u.waiting = t.waiting /\ u.missed = t.missed
      /\ u.pending = Append(t.pending, m)
    BY <1>1, <1>2, CollectFields
<1>4. Placed(t) /\ Conversing(t, dq, uq) /\ Streaming(t, dq) /\ AckSafe(t) /\ Showing(t)
    BY <1>2 DEF Good
<1>5. t.phase \in {"subscribe", "page", "history", "boundary", "ready"}
    BY DEF Loading
<1>6. ~t.bound
    BY <1>4, <1>5 DEF Placed
<1>7. t.pending \in Seq(Messages) /\ t.pending \in Seq(Events)
    BY <1>2, ObjectIs
<1>8. u.pending \o d = t.pending \o dq
  <2>1. PICK p : p = t.pending
    OBVIOUS
  <2>2. p \in Seq(Messages) /\ dq \in Seq(Messages) /\ dq # <<>>
    BY <1>2, <1>7, <2>1
  <2>3. Append(p, Head(dq)) \o Tail(dq) = p \o dq
    BY <2>2, OfMoved
  <2> QED
    BY <1>1, <1>2, <1>3, <2>1, <2>3
<1>9. \A i : Begun(t, dq, i) => Begun(u, d, i)
    BY <1>3, <1>8 DEF Begun
<1>10. Conversing(u, d, uq)
    BY <1>2, <1>3, <1>4, <1>9, TalkOn
<1>11. ChainBusy(u) <=> ChainBusy(t)
    BY <1>3 DEF ChainBusy
<1>12. Placed(u)
    BY <1>3, <1>4, <1>11 DEF Placed
<1>13. Recent(u.pending)
  <2>1. Recent(t.pending)
    BY <1>4 DEF Streaming
  <2> SUFFICES ASSUME NEW k \in 1..Len(u.pending), u.pending[k].kind = "event"
               PROVE  u.pending[k].sub <= Len(subs)
    BY DEF Recent
  <2>2. u.pending[k] = m \/ (k \in 1..Len(t.pending) /\ u.pending[k] = t.pending[k])
    BY <1>3, <1>7
  <2> QED
    BY <1>2, <2>1, <2>2 DEF Recent
<1>14. Reads1(t) => Reads1(u)
    BY <1>3 DEF Reads1
<1>15. Streaming(u, d)
    BY <1>2, <1>3, <1>4, <1>6, <1>9, <1>13, <1>14 DEF Streaming
<1>16. AckSafe(u) /\ Showing(u)
    BY <1>3, <1>4 DEF AckSafe, Showing
<1>17. Good(u, d, uq)
    BY <1>10, <1>12, <1>15, <1>16 DEF Good
<1>18. Cat(uq, u.out) = uq
    BY <1>2, <1>3, CatNone
<1>19. Good(u, Tail(dq), Cat(uq, u.out)) /\ u.conn = c /\ Grew(this, u) /\ Proper(u.out) /\ Commit(u) /\ Sound(u)
  <2>1. Grew(this, u)
    BY <1>2, <1>3, ObjectIs DEF Grew
  <2>2. Proper(u.out)
    BY <1>2, <1>3, ProperFew
  <2> QED
    BY <1>1, <1>2, <1>3, <1>17, <1>18, <2>1, <2>2
<1> QED
    BY <1>1, <1>2, <1>19, EventStream

\* An event without a listener, or of another subscription, is dropped.
LEMMA ReceiveOther ==
    ASSUME IInv, IInv', Stream, Incoming, Message.kind = "event", Consumed, DaemonSame, sock' = sock, NEW t, t = this,
           NEW m, m = Message, ~Loading(t), ~t.bound \/ m.sub # t.current, Commit(t)
    PROVE  Stream' /\ Grew(this, this') /\ log' = log
<1>1. PICK c, dq, uq, d : c = this.conn /\ dq = down[c] /\ uq = up[c] /\ d = Tail(dq)
    OBVIOUS
<1>2. /\ c # 0 /\ Sound(t) /\ c \in Conns /\ t.conn = c /\ t.out = <<>> /\ t \in Objects /\ t.phase # "failed"
      /\ dq \in Seq(Messages) /\ uq \in Seq(Requests) /\ Good(t, dq, uq) /\ Len(t.waiting) = Len(Talk(d, uq))
      /\ Sizes /\ SubsInv /\ Roster /\ Table /\ log \in Nat
      /\ dq # <<>> /\ m = Head(dq) /\ m \in Events /\ m \in Messages /\ d \in Seq(Messages) /\ Talk(d, uq) = Talk(dq, uq)
      /\ Recent(dq) /\ Recent(d) /\ m.sub <= Len(subs)
  <2>1. t = this /\ c = this.conn /\ dq = down[c] /\ uq = up[c] /\ m = Message /\ d = Tail(dq)
    BY <1>1
  <2>2. TakenFrom(t, c, dq, uq, m, d)
    BY <2>1, TakenIs
  <2> QED
    BY <2>2 DEF TakenFrom
<1>4. Placed(t) /\ Conversing(t, dq, uq) /\ Streaming(t, dq) /\ AckSafe(t) /\ Showing(t)
    BY <1>2 DEF Good
<1>5. t.phase \notin Reading /\ t.phase # "subscribe"
    BY DEF Loading, Reading
<1>6. Conversing(t, d, uq)
    BY <1>2, <1>4, <1>5, TalkOn
<1>7. t.bound => Following(t, d)
  <2> SUFFICES ASSUME t.bound PROVE Following(t, d)
    OBVIOUS
  <2>1. Following(t, dq)
    BY <1>4 DEF Streaming
  <2>2. PICK i : i = t.current
    OBVIOUS
  <2>3. m \notin Happening(i)
    BY <1>2, <2>2, HappeningIs
  <2>4. Of(d, i) = Of(dq, i)
    BY <1>1, <1>2, <2>3, OfHead
  <2>5. Tracked(t, d)
    BY <2>1, <2>2, <2>4 DEF Following, Tracked
  <2> QED
    BY <2>1, <2>5 DEF Following
<1>8. Streaming(t, d)
    BY <1>2, <1>4, <1>5, <1>7 DEF Streaming
<1>9. Good(t, d, uq)
    BY <1>4, <1>6, <1>8 DEF Good
<1>18. Cat(uq, t.out) = uq
    BY <1>2, CatNone
<1>19. Good(t, Tail(dq), Cat(uq, t.out)) /\ t.conn = c /\ Grew(this, t) /\ Proper(t.out) /\ Commit(t) /\ Sound(t)
  <2>1. Grew(this, t)
    BY <1>2, ObjectIs DEF Grew
  <2>2. Proper(t.out)
    BY <1>2, ProperFew
  <2> QED
    BY <1>1, <1>2, <1>9, <1>18, <2>1, <2>2
<1> QED
    BY <1>1, <1>2, <1>19, EventStream

\* A message moves from the head of one sequence to the end of another.
LEMMA HeadMoves ==
    ASSUME NEW S, NEW x \in Seq(S), NEW m \in S, NEW y \in Seq(S)
    PROVE  Append(x, m) \o y = x \o (<<m>> \o y)
<1>1. PICK p, q, a, b : p = Append(x, m) /\ q = <<m>> \o y /\ a = p \o y /\ b = x \o q
    OBVIOUS
<1>2. p \in Seq(S) /\ Len(p) = Len(x) + 1 /\ Len(x) \in Nat /\ Len(y) \in Nat
    BY <1>1
<1>3. q \in Seq(S) /\ Len(q) = 1 + Len(y)
    BY <1>1
<1>4. a \in Seq(S) /\ b \in Seq(S) /\ Len(a) = Len(b)
    BY <1>1, <1>2, <1>3
<1>5. \A k \in 1..Len(a) : a[k] = b[k]
    BY <1>1, <1>2, <1>3
<1>6. a = b
    BY <1>4, <1>5, SeqSame
<1> QED
    BY <1>1, <1>6

\* The object with x for its chain.
Longest(t, u, x) ==
    /\ Sound(u) /\ u.out = t.out /\ u.conn = t.conn /\ u.bound = t.bound /\ u.view = t.view /\ u.current = t.current
    /\ u.ack = t.ack /\ u.phase = t.phase /\ u.caller = t.caller /\ u.force = t.force /\ u.cursor = t.cursor
    /\ u.page = t.page /\ u.seq = t.seq /\ u.waiting = t.waiting /\ u.missed = t.missed
    /\ u.pending = t.pending /\ u.chain = x

LEMMA NotedFields ==
    ASSUME NEW t, Sound(t), NEW m \in Events, NEW u, u = Noted(t, m)
    PROVE  Longest(t, u, t.chain)
<1>1. t \in Objects
    BY DEF Sound
<1>2. PICK n : n = m.seq
    OBVIOUS
<1>3. n \in Nat
    BY <1>2, HappeningIs DEF Events
<1>4. [t EXCEPT !.newest = n] \in Objects
    BY <1>1, <1>3 DEF Objects
<1>5. u = [t EXCEPT !.newest = n]
    BY <1>2 DEF Noted
<1>6. u \in Objects
    BY <1>4, <1>5
<1> QED
    BY <1>1, <1>5, <1>6 DEF Objects, Sound, Longest

LEMMA ChainedFields ==
    ASSUME NEW t, Sound(t), NEW m, m \in Events, NEW u, u = Chained(t, m), NEW x, x = Append(t.chain, m)
    PROVE  Longest(t, u, x)
<1>1. PICK v : v = Noted(t, m)
    OBVIOUS
<1>2. /\ Sound(v) /\ v.out = t.out /\ v.conn = t.conn /\ v.bound = t.bound /\ v.view = t.view /\ v.current = t.current
      /\ v.ack = t.ack /\ v.phase = t.phase /\ v.caller = t.caller /\ v.force = t.force /\ v.cursor = t.cursor
      /\ v.page = t.page /\ v.seq = t.seq /\ v.chain = t.chain /\ v.waiting = t.waiting /\ v.missed = t.missed
      /\ v.pending = t.pending
  <2>1. Longest(t, v, t.chain)
    BY <1>1, NotedFields
  <2> QED
    BY <2>1 DEF Longest
<1>3. x = Append(v.chain, m)
    BY <1>2
<1>4. v \in Objects /\ x \in Seq(Events)
    BY <1>2, <1>3, ObjectIs DEF Sound
<1>5. [v EXCEPT !.chain = x] \in Objects
    BY <1>4 DEF Objects
<1>6. u = [v EXCEPT !.chain = x]
    BY <1>1, <1>3 DEF Chained
<1>7. u \in Objects
    BY <1>5, <1>6
<1>8. /\ u.out = v.out /\ u.conn = v.conn /\ u.bound = v.bound /\ u.view = v.view /\ u.current = v.current
      /\ u.ack = v.ack /\ u.phase = v.phase /\ u.caller = v.caller /\ u.force = v.force /\ u.cursor = v.cursor
      /\ u.page = v.page /\ u.seq = v.seq /\ u.waiting = v.waiting /\ u.missed = v.missed
      /\ u.pending = v.pending /\ u.chain = x
    BY <1>4, <1>6 DEF Objects
<1>9. Sound(u)
    BY <1>2, <1>7, <1>8 DEF Sound
<1> QED
    BY <1>2, <1>8, <1>9 DEF Longest

\* An acknowledgement under way: the event waits behind it.
LEMMA ChainedGood ==
    ASSUME Sizes, SubsInv, Roster, NEW t, NEW dq, NEW uq, Sound(t), dq \in Seq(Messages), dq # <<>>, Good(t, dq, uq), t.bound,
           NEW m \in Events, m = Head(dq), m.sub = t.current, NEW d, d = Tail(dq), Recent(d), Talk(d, uq) = Talk(dq, uq),
           ChainBusy(t), NEW u, u = Chained(t, m), log \in Nat
    PROVE  Good(u, d, uq)
<1>1. /\ Bound(t, dq) /\ Tracked(t, dq) /\ AckLine(t, Talk(dq, uq)) /\ t.phase \in {"drain", "idle"}
      /\ t.phase = "idle" => t.pending = <<>>
      /\ t.chain # <<>> => ChainBusy(t)
    BY GoodBound
<1>2. /\ Sound(u) /\ u.out = t.out /\ u.conn = t.conn /\ u.bound = t.bound /\ u.view = t.view /\ u.current = t.current
      /\ u.ack = t.ack /\ u.phase = t.phase /\ u.caller = t.caller /\ u.force = t.force /\ u.cursor = t.cursor
      /\ u.page = t.page /\ u.seq = t.seq /\ u.waiting = t.waiting /\ u.missed = t.missed
      /\ u.pending = t.pending /\ u.chain = Append(t.chain, m)
  <2>1. PICK x : x = Append(t.chain, m)
    OBVIOUS
  <2>2. Longest(t, u, x)
    BY <2>1, ChainedFields
  <2> QED
    BY <2>1, <2>2 DEF Longest
<1>3. d \in Seq(Messages) /\ m \in Messages
    BY HappeningIs
<1>4. Bound(t, d)
    BY <1>1, <1>3 DEF Bound
<1>5. Recent(u.pending)
    BY <1>1, <1>2 DEF Bound
<1>6. Bound(u, d)
    BY <1>2, <1>4, <1>5, BoundSame DEF Holds
<1>7. ChainBusy(u)
    BY <1>2 DEF ChainBusy
<1>8. Tracked(u, d)
  <2>1. PICK p, r \in Nat : Collected(t, dq, p, r)
    BY <1>1, TrackedIs
  <2>2. PICK i, x, y : i = t.current /\ x = t.chain /\ y = Of(d, i)
    OBVIOUS
  <2>3. m \in Happening(i)
    BY <2>2, HappeningIs
  <2>4. Of(dq, i) = <<m>> \o y
    BY <2>2, <2>3, OfHead
  <2>5. x \in Seq(Messages) /\ y \in Seq(Messages)
    BY <1>3, <2>2, ObjectIs, OfIs
  <2>6. Append(x, m) \o y = x \o (<<m>> \o y)
    BY <1>3, <2>5, HeadMoves
  <2>7. u.chain \o Of(d, i) = t.chain \o Of(dq, i)
    BY <1>2, <2>2, <2>4, <2>6
  <2>8. Collected(u, d, p, r)
    BY <1>2, <1>7, <2>1, <2>2, <2>7 DEF Collected
  <2> QED
    BY <2>1, <2>8, TrackedIs
<1>9. AckLine(u, Talk(d, uq))
  <2>1. Onwards(t, u)
    <3>1. t.seq \in Int /\ Len(t.view) \in Int /\ subs[t.current].base \in Int
      BY <1>1, ActiveNumbers
    <3> QED
      BY <1>2, <3>1 DEF Onwards
  <2> QED
    BY <1>1, <2>1, AckLineGrown
<1> QED
  <2>1. u.phase \in {"drain", "idle"} /\ (u.phase = "idle" => u.pending = <<>>)
    BY <1>1, <1>2
  <2> QED
    BY <1>6, <1>7, <1>8, <1>9, <2>1, BoundGood

\* All the waiters of a bound view can be left behind.
LEMMA PartingAll ==
    ASSUME NEW t, NEW dq \in Seq(Messages), NEW uq \in Seq(Requests), Sound(t), Good(t, dq, uq), t.bound, ~Recovering(t),
           NEW a, Sound(a), a.waiting = t.waiting
    PROVE  Parting(Superseded(a).waiting, Talk(dq, uq))
<1>1. PICK x : x = Talk(dq, uq)
    OBVIOUS
<1>2. AckLine(t, x) /\ t.phase \in {"drain", "idle"}
    BY <1>1, GoodBound
<1>3. Conversing(t, dq, uq)
    BY DEF Good
<1>4. ASSUME NEW k \in 1..Len(a.waiting)
      PROVE  (a.waiting[k].who \in {"est", "old"} => a.waiting[k].caller # "recovery") /\ x[k] \in Ends
  <2>1. PICK w : w = t.waiting[k]
    OBVIOUS
  <2>2. k \in 1..Len(t.waiting)
    OBVIOUS
  <2>3. AckEntry(t, k, x[k])
    BY <1>2, <2>2 DEF AckLine
  <2>4. w.who \in {"est", "chain"} /\ (Est(w) => t.phase = "drain" /\ w.caller = t.caller)
    BY <2>1, <2>3 DEF AckEntry
  <2>5. w.who \in {"est", "old"} => w.caller # "recovery"
    BY <2>4 DEF Est, Recovering
  <2>6. Entry(t, k, x[k], dq)
    BY <1>1, <1>2, <1>3, <2>2, EntryOf
  <2>7. Acking(t, w)
    BY <2>4 DEF Est, Acking
  <2>8. x[k] \in Ends
    BY <2>1, <2>2, <2>6, <2>7, EntryEnds
  <2> QED
    BY <2>1, <2>5, <2>8
<1>5. Parting(Superseded(a).waiting, x)
    BY <1>4, PartingSuperseded
<1> QED
    BY <1>1, <1>5

\* The first of a row, by its number.
NextIs(i, b, lo, hi, k, x) == Head(x) = Note(i, b, k) /\ Tail(x) = Sent(i, b, k, hi)

LEMMA SentNext ==
    ASSUME NEW i \in 1..MaxSubs, NEW b \in Nat, NEW lo \in Nat, NEW hi \in Nat, lo < hi, b + hi <= MaxEvents
    PROVE  \A k, x : k = lo + 1 /\ x = Sent(i, b, lo, hi) => NextIs(i, b, lo, hi, k, x)
<1>1. /\ Sent(i, b, lo, hi) # <<>> /\ Head(Sent(i, b, lo, hi)) = Note(i, b, lo + 1)
      /\ Tail(Sent(i, b, lo, hi)) = Sent(i, b, lo + 1, hi)
      /\ Sent(i, b, lo, hi)[Len(Sent(i, b, lo, hi))] = Note(i, b, hi)
    BY SentFirst
<1> QED
    BY <1>1 DEF NextIs

\* What a bound view without an acknowledgement under way is sent next: number k, behind r.
NextIn(v, d, m, p, r, k) ==
    LET i == v.current
        b == subs[i].base
    IN /\ p \in Nat /\ r \in Nat /\ k \in Nat /\ v.seq <= p /\ p <= r /\ k = r + 1 /\ k <= subs[i].seq /\ m.seq = k
       /\ Of(v.pending, i) = Sent(i, b, v.seq, p)
       /\ Of(d, i) = Sent(i, b, k, subs[i].seq)
       /\ <<m>> = Sent(i, b, r, k)
       /\ v.missed <=> p < r

LEMMA NextDelivery ==
    ASSUME Sizes, SubsInv, Roster, NEW v, NEW dq, Bound(v, dq), Tracked(v, dq), ~ChainBusy(v), v.chain = <<>>, dq # <<>>,
           NEW m, m = Head(dq), m \in Events, m.sub = v.current, NEW d, d = Tail(dq)
    PROVE  \E p, r, k : NextIn(v, d, m, p, r, k)
<1>0. PICK i, b : i = v.current /\ b = subs[i].base
    OBVIOUS
<1>1. PICK s : s = subs[i].seq
    OBVIOUS
<1>2. /\ i \in 1..MaxSubs /\ b \in Nat /\ s \in Nat /\ b + s <= MaxEvents /\ v.seq \in Nat /\ v.seq <= s /\ dq \in Seq(Messages)
      /\ MaxEvents \in Nat
    BY <1>0, <1>1, ActiveNumbers, Bounds
<1>3. PICK p, r \in Nat : Collected(v, dq, p, r)
    BY TrackedIs
<1>4. /\ v.seq <= p /\ p <= r /\ r <= s /\ Of(v.pending, i) = Sent(i, b, v.seq, p)
      /\ v.chain \o Of(dq, i) = Sent(i, b, r, s)
      /\ v.missed <=> p < r
    BY <1>0, <1>1, <1>3 DEF Collected
<1>5. PICK x, y : x = Of(dq, i) /\ y = Of(d, i)
    OBVIOUS
<1>6. x \in Seq(Messages) /\ y \in Seq(Messages) /\ d \in Seq(Messages) /\ m \in Messages
  <2>1. dq \in Seq(Messages) /\ d \in Seq(Messages) /\ m \in Messages
    BY <1>2, HappeningIs
  <2> QED
    BY <1>5, <2>1, OfIs
<1>7. x = <<m>> \o y
  <2>1. m \in Happening(i)
    BY <1>0, HappeningIs
  <2> QED
    BY <1>2, <1>5, <2>1, OfHead
<1>8. x = Sent(i, b, r, s)
  <2>1. <<>> \o x = x
    BY <1>6
  <2> QED
    BY <1>4, <1>5, <2>1
<1>9. x # <<>> /\ Head(x) = m /\ Tail(x) = y
  <2>1. Len(x) = 1 + Len(y) /\ x[1] = m /\ Len(y) \in Nat /\ \A k \in 1..Len(y) : x[1 + k] = y[k]
    BY <1>6, <1>7
  <2>2. x # <<>> /\ Head(x) = m
    BY <1>6, <2>1
  <2>3. Tail(x) \in Seq(Messages) /\ Len(Tail(x)) = Len(y) /\ \A k \in 1..Len(y) : Tail(x)[k] = y[k]
    BY <1>6, <2>1, <2>2
  <2>4. PICK z : z = Tail(x)
    OBVIOUS
  <2>5. z \in Seq(Messages) /\ y \in Seq(Messages) /\ Len(z) = Len(y) /\ \A k \in 1..Len(z) : z[k] = y[k]
    BY <1>6, <2>3, <2>4
  <2>6. z = y
    BY <2>5, SeqSame
  <2> QED
    BY <2>2, <2>4, <2>6
<1>10. r < s
  <2>1. b + r <= MaxEvents
    BY <1>2, <1>4
  <2>2. Sent(i, b, r, r) = <<>>
    BY <1>2, <2>1, SentNone
  <2>3. r # s
    BY <1>8, <1>9, <2>2
  <2> QED
    BY <1>2, <1>4, <2>3
<1>11. PICK k \in Nat : k = r + 1
    OBVIOUS
<1>12. k <= s /\ b + k <= MaxEvents /\ b + (r + 1) <= MaxEvents
    BY <1>2, <1>10, <1>11
<1>13. Head(x) = Note(i, b, k) /\ Tail(x) = Sent(i, b, k, s)
  <2>1. r \in Nat /\ s \in Nat /\ r < s /\ i \in 1..MaxSubs /\ b \in Nat /\ b + s <= MaxEvents
    BY <1>2, <1>10
  <2>2. NextIs(i, b, r, s, k, x)
    BY <1>8, <1>11, <2>1, SentNext
  <2> QED
    BY <2>2 DEF NextIs
<1>14. m = Note(i, b, k) /\ y = Sent(i, b, k, s)
    BY <1>9, <1>13
<1>15. m.seq = k
    BY <1>14 DEF Note
<1>16. <<m>> = Sent(i, b, r, k)
  <2>1. m = Note(i, b, r + 1)
    BY <1>11, <1>14
  <2> QED
    BY <1>2, <1>11, <1>12, <2>1, SentSingle
<1> QED
    BY <1>0, <1>1, <1>4, <1>5, <1>11, <1>12, <1>14, <1>15, <1>16 DEF NextIn

\* The object after a step, of a view that does not shrink.
Succeeds(v, u, d, uq) ==
    /\ Good(u, d, Cat(uq, u.out)) /\ Sound(u) /\ u.conn = v.conn /\ Len(v.view) <= Len(u.view) /\ Proper(u.out)

\* The event that follows is shown, and its acknowledgement asked for.
LEMMA FollowsGood ==
    ASSUME Sizes, SubsInv, Roster, NEW v, NEW d, NEW uq, Bound(v, d), AckLine(v, Talk(d, uq)), v.out = <<>>, uq \in Seq(Requests),
           Len(v.waiting) = Len(Talk(d, uq)), ~v.missed, v.phase \in {"drain", "idle"}, v.phase = "idle" => v.pending = <<>>,
           NEW i, i = v.current, NEW b, b = subs[i].base, NEW k \in Nat, k = v.seq + 1, k <= subs[i].seq,
           NEW p, p = v.seq, Of(v.pending, i) = Sent(i, b, v.seq, p), Of(d, i) = Sent(i, b, k, subs[i].seq),
           NEW queue, queue = Sent(i, b, v.seq, k), NEW u, u = Applied(v, queue)
    PROVE  Succeeds(v, u, d, uq)
<1>1. /\ i \in 1..MaxSubs /\ b \in Nat /\ subs[i].seq \in Nat /\ b + subs[i].seq <= MaxEvents /\ v.seq \in Nat /\ v.seq <= subs[i].seq
      /\ MaxEvents \in Nat
    BY ActiveNumbers, Bounds
<1>2. Of(v.pending, i) = <<>>
  <2>1. p \in Nat /\ b + p <= MaxEvents
    BY <1>1
  <2>2. Sent(i, b, p, p) = <<>>
    BY <1>1, <2>1, SentNone
  <2> QED
    BY <2>2
<1>3. v.seq < k
    BY <1>1
<1>4. Ripe(v, d, uq, k)
    BY <1>2, <1>3 DEF Ripe
<1> QED
    BY <1>4, AppliedGood DEF Succeeds

\* An event behind a gap: it is missed if a recovery is running.
LEMMA GapMissed ==
    ASSUME Sizes, SubsInv, Roster, NEW v, NEW d, NEW uq, Bound(v, d), AckLine(v, Talk(d, uq)), v.phase \in {"drain", "idle"},
           v.phase = "idle" => v.pending = <<>>, ~ChainBusy(v), v.chain = <<>>, log \in Nat,
           NEW i, i = v.current, NEW b, b = subs[i].base, NEW p \in Nat, NEW k \in Nat, v.seq <= p, p < k, k <= subs[i].seq,
           Of(v.pending, i) = Sent(i, b, v.seq, p), Of(d, i) = Sent(i, b, k, subs[i].seq),
           NEW u, Sound(u), Holds(v, u), u.view = v.view, u.phase = v.phase, u.caller = v.caller, u.pending = v.pending,
           u.seq = v.seq, u.chain = <<>>, u.waiting = v.waiting, u.missed
    PROVE  Good(u, d, uq)
<1>1. v.seq \in Nat /\ Len(v.view) \in Nat /\ b \in Nat /\ d \in Seq(Messages)
    BY ActiveNumbers
<1>2. Recent(u.pending)
    BY DEF Bound
<1>3. Bound(u, d)
    BY <1>2, BoundSame
<1>4. ~ChainBusy(u)
    BY DEF ChainBusy
<1>5. Tracked(u, d)
  <2>1. <<>> \o Of(d, i) = Of(d, i)
    <3>1. Of(d, i) \in Seq(Messages)
      BY <1>1, OfIs
    <3> QED
      BY <3>1
  <2>2. u.chain \o Of(d, i) = Sent(i, b, k, subs[i].seq)
    BY <2>1
  <2>3. u.current = i /\ u.seq <= p /\ p <= k
    BY DEF Holds
  <2>4. Collected(u, d, p, k)
    BY <1>4, <2>2, <2>3 DEF Collected
  <2> QED
    BY <2>4, TrackedIs
<1>6. AckLine(u, Talk(d, uq))
  <2>1. Onwards(v, u)
    BY <1>1 DEF Onwards, Holds
  <2> QED
    BY <2>1, AckLineGrown
<1> QED
  <2>1. u.phase \in {"drain", "idle"} /\ (u.phase = "idle" => u.pending = <<>>) /\ (u.chain # <<>> => ChainBusy(u))
    OBVIOUS
  <2> QED
    BY <1>3, <1>5, <1>6, <2>1, BoundGood

\* The chain is idle: the event is applied, or a gap is found.
LEMMA AppliedNext ==
    ASSUME Sizes, SubsInv, Roster, log \in Nat, NEW v, NEW dq, NEW uq, Sound(v), v.conn # 0, v.out = <<>>, dq \in Seq(Messages), dq # <<>>,
           uq \in Seq(Requests), Good(v, dq, uq), v.bound,
           NEW m \in Events, m = Head(dq), m.sub = v.current, NEW d, d = Tail(dq), Recent(d), Talk(d, uq) = Talk(dq, uq),
           Len(v.waiting) = Len(Talk(d, uq)), ~ChainBusy(v), NEW queue, queue = <<m>>,
           NEW u, u = Applied(v, queue)
    PROVE  Succeeds(v, u, d, uq)
<1>1. /\ Bound(v, dq) /\ Tracked(v, dq) /\ AckLine(v, Talk(dq, uq)) /\ v.phase \in {"drain", "idle"}
      /\ v.phase = "idle" => v.pending = <<>>
      /\ v.chain # <<>> => ChainBusy(v)
    BY GoodBound
<1>3. d \in Seq(Messages) /\ m \in Messages /\ v.chain = <<>>
    BY <1>1, HappeningIs
<1>4. PICK i, b, s : i = v.current /\ b = subs[i].base /\ s = subs[i].seq
    OBVIOUS
<1>5. b \in Nat /\ s \in Nat /\ v.seq \in Nat /\ Len(v.view) \in Nat
    BY <1>1, <1>4, ActiveNumbers
<1>6. PICK p, r, k : /\ p \in Nat /\ r \in Nat /\ k \in Nat /\ v.seq <= p /\ p <= r /\ k = r + 1 /\ k <= s /\ m.seq = k
                     /\ Of(v.pending, i) = Sent(i, b, v.seq, p) /\ Of(d, i) = Sent(i, b, k, s)
                     /\ queue = Sent(i, b, r, k)
                     /\ v.missed <=> p < r
  <2>1. PICK p, r, k : NextIn(v, d, m, p, r, k)
    BY <1>1, <1>3, NextDelivery
  <2> QED
    BY <1>4, <2>1 DEF NextIn
<1>7. Bound(v, d)
    BY <1>1, <1>3 DEF Bound
<1>8. AckLine(v, Talk(d, uq))
    BY <1>1
<1>9. CASE r = v.seq
  <2>1. p = v.seq /\ ~v.missed /\ k = v.seq + 1 /\ queue = Sent(i, b, v.seq, k)
    BY <1>5, <1>6, <1>9
  <2>2. /\ Len(v.waiting) = Len(Talk(d, uq)) /\ v.phase \in {"drain", "idle"}
        /\ (v.phase = "idle" => v.pending = <<>>)
    BY <1>1
  <2> QED
    BY <1>4, <1>6, <1>7, <1>8, <2>1, <2>2, FollowsGood
<1>10. CASE r # v.seq
  <2>1. queue # <<>> /\ Head(queue) = m
    BY HappeningIs
  <2>2. Head(queue).seq # v.seq + 1
    BY <1>5, <1>6, <1>10, <2>1
  <2>3. PICK a, e : a = [v EXCEPT !.chain = e] /\ e = <<>>
    OBVIOUS
  <2>4. u = Recovered(a, FALSE)
    BY <2>1, <2>2, <2>3, AppliedSplit
  <2>5. a \in Objects
    <3>1. v \in Objects /\ e \in Seq(Events)
      BY <2>3 DEF Sound
    <3>2. [v EXCEPT !.chain = e] \in Objects
      BY <3>1 DEF Objects
    <3> QED
      BY <2>3, <3>2
  <2>6. /\ Sound(a) /\ a.out = <<>> /\ a.conn = v.conn /\ a.bound = v.bound /\ a.view = v.view /\ a.current = v.current
        /\ a.ack = v.ack /\ a.phase = v.phase /\ a.caller = v.caller /\ a.force = v.force /\ a.cursor = v.cursor
        /\ a.page = v.page /\ a.seq = v.seq /\ a.waiting = v.waiting /\ a.missed = v.missed /\ a.pending = v.pending
        /\ a.chain = <<>>
    <3>1. v \in Objects
      BY DEF Sound
    <3>2. /\ a.out = v.out /\ a.conn = v.conn /\ a.bound = v.bound /\ a.view = v.view /\ a.current = v.current
          /\ a.ack = v.ack /\ a.phase = v.phase /\ a.caller = v.caller /\ a.force = v.force /\ a.cursor = v.cursor
          /\ a.page = v.page /\ a.seq = v.seq /\ a.waiting = v.waiting /\ a.missed = v.missed /\ a.pending = v.pending
          /\ a.chain = <<>>
      BY <2>3, <3>1 DEF Objects
    <3>3. Sound(a)
      BY <2>5, <3>2 DEF Sound
    <3> QED
      BY <3>2, <3>3
  <2>7. CASE Recovering(a)
    <3>1. u = [a EXCEPT !.missed = TRUE]
      BY <2>4, <2>7 DEF Recovered
    <3>2. a \in Objects
      BY <2>5
    <3>3. u \in Objects
      <4>1. PICK y : y = TRUE
        OBVIOUS
      <4>2. y \in BOOLEAN
        BY <4>1, Zenon
      <4>3. [a EXCEPT !.missed = y] \in Objects
        BY <3>2, <4>2 DEF Objects
      <4> QED
        BY <3>1, <4>1, <4>3
    <3>4. /\ u.out = a.out /\ u.conn = a.conn /\ u.bound = a.bound /\ u.view = a.view /\ u.current = a.current
          /\ u.ack = a.ack /\ u.phase = a.phase /\ u.caller = a.caller /\ u.page = a.page
          /\ u.seq = a.seq /\ u.waiting = a.waiting /\ u.pending = a.pending
          /\ u.chain = a.chain
      BY <3>1, <3>2 DEF Objects
    <3>5. u.missed
      BY <3>1, <3>2 DEF Objects
    <3>6. Sound(u)
      BY <2>6, <3>3, <3>4 DEF Sound
    <3>7. /\ v.seq <= p /\ p < k
          /\ v.phase \in {"drain", "idle"} /\ (v.phase = "idle" => v.pending = <<>>)
      BY <1>1, <1>6
    <3>8. /\ Holds(v, u) /\ u.view = v.view /\ u.phase = v.phase /\ u.caller = v.caller /\ u.pending = v.pending
          /\ u.seq = v.seq /\ u.chain = <<>> /\ u.waiting = v.waiting
      BY <2>6, <3>4 DEF Holds
    <3>9. Good(u, d, uq)
      BY <1>3, <1>4, <1>6, <1>7, <1>8, <3>5, <3>6, <3>7, <3>8, GapMissed
    <3>10. Cat(uq, u.out) = uq /\ Proper(u.out)
      BY <2>6, <3>4, CatNone, ProperFew
    <3> QED
      BY <1>5, <2>6, <3>4, <3>6, <3>9, <3>10 DEF Succeeds
  <2>8. CASE ~Recovering(a)
    <3>1. ~Recovering(v)
      BY <2>6, <2>8 DEF Recovering
    <3>2. AckSafe(v) /\ Showing(v)
      BY DEF Good
    <3>3. AckSafe(a) /\ Showing(a)
      BY <2>6, <3>2 DEF AckSafe, Showing
    <3>4. Parting(Superseded(a).waiting, Talk(d, uq)) /\ Len(a.waiting) = Len(Talk(d, uq))
      <4>1. Parting(Superseded(a).waiting, Talk(dq, uq))
        BY <2>6, <3>1, PartingAll
      <4> QED
        BY <2>6, <4>1
    <3>5. a.conn # 0 /\ FALSE \in BOOLEAN
      BY <2>6
    <3>6. PICK w, x : w = Recovered(a, FALSE) /\ x = Talk(d, uq)
      OBVIOUS
    <3>7. Sound(w) /\ w.conn = a.conn /\ w.view = a.view /\ Good(w, d, Cat(uq, w.out)) /\ Proper(w.out)
      BY <1>3, <2>6, <2>8, <3>3, <3>4, <3>5, <3>6, RecoveredGood
    <3>8. u = w
      BY <2>4, <3>6
    <3> QED
      BY <1>5, <2>6, <3>7, <3>8 DEF Succeeds
  <2> QED
    BY <2>7, <2>8
<1> QED
    BY <1>9, <1>10

\* An event for the listener of a bound view.
LEMMA ReceiveBound ==
    ASSUME IInv, IInv', Stream, Incoming, Message.kind = "event", Consumed, DaemonSame, sock' = sock, NEW t, t = this,
           NEW m, m = Message, t.bound, m.sub = t.current, NEW u, Commit(u),
           \/ ChainBusy(t) /\ u = Chained(t, m)
           \/ ~ChainBusy(t) /\ u = Applied(Noted(t, m), <<m>>)
    PROVE  Stream' /\ Grew(this, this') /\ log' = log
<1>1. PICK c, dq, uq, d : c = this.conn /\ dq = down[c] /\ uq = up[c] /\ d = Tail(dq)
    OBVIOUS
<1>2. /\ c # 0 /\ Sound(t) /\ c \in Conns /\ t.conn = c /\ t.out = <<>> /\ t \in Objects /\ t.phase # "failed"
      /\ dq \in Seq(Messages) /\ uq \in Seq(Requests) /\ Good(t, dq, uq) /\ Len(t.waiting) = Len(Talk(d, uq))
      /\ Sizes /\ SubsInv /\ Roster /\ Table /\ log \in Nat
      /\ dq # <<>> /\ m = Head(dq) /\ m \in Events /\ m \in Messages /\ d \in Seq(Messages) /\ Talk(d, uq) = Talk(dq, uq)
      /\ Recent(dq) /\ Recent(d) /\ m.sub <= Len(subs)
  <2>1. t = this /\ c = this.conn /\ dq = down[c] /\ uq = up[c] /\ m = Message /\ d = Tail(dq)
    BY <1>1
  <2>2. TakenFrom(t, c, dq, uq, m, d)
    BY <2>1, TakenIs
  <2> QED
    BY <2>2 DEF TakenFrom
<1>3. Good(u, d, Cat(uq, u.out)) /\ Sound(u) /\ u.conn = t.conn /\ Len(t.view) <= Len(u.view) /\ Proper(u.out)
  <2>1. CASE ChainBusy(t) /\ u = Chained(t, m)
    <3>1. Good(u, d, uq)
      BY <1>1, <1>2, <2>1, ChainedGood
    <3>2. PICK x : x = Append(t.chain, m)
      OBVIOUS
    <3>3. Longest(t, u, x)
      BY <1>2, <2>1, <3>2, ChainedFields
    <3>4. Sound(u) /\ u.conn = t.conn /\ u.out = <<>> /\ u.view = t.view
      BY <1>2, <3>3 DEF Longest
    <3>5. Cat(uq, u.out) = uq /\ Proper(u.out)
      BY <1>2, <3>4, CatNone, ProperFew
    <3>6. Len(t.view) \in Nat
      BY <1>2, ObjectIs
    <3> QED
      BY <3>1, <3>4, <3>5, <3>6
  <2>2. CASE ~ChainBusy(t) /\ u = Applied(Noted(t, m), <<m>>)
    <3>1. PICK v, queue : v = Noted(t, m) /\ queue = <<m>>
      OBVIOUS
    <3>2. Longest(t, v, t.chain)
      BY <1>2, <3>1, NotedFields
    <3>3. Alike(t, v) /\ Sound(v) /\ v.conn = t.conn /\ v.out = t.out /\ v.bound /\ v.current = t.current
          /\ v.waiting = t.waiting /\ v.view = t.view
      BY <3>2 DEF Longest, Alike
    <3>4. Good(v, dq, uq) /\ ~ChainBusy(v)
      BY <1>2, <2>2, <3>3, AlikeGood DEF ChainBusy
    <3>5. u = Applied(v, queue)
      BY <2>2, <3>1
    <3>6. Succeeds(v, u, d, uq)
      <4>1. v.conn # 0 /\ v.out = <<>> /\ v.bound /\ m.sub = v.current /\ Len(v.waiting) = Len(Talk(d, uq))
        BY <1>2, <3>3
      <4> QED
        BY <1>1, <1>2, <3>1, <3>3, <3>4, <3>5, <4>1, AppliedNext
    <3> QED
      BY <3>3, <3>6 DEF Succeeds
  <2> QED
    BY <2>1, <2>2
<1>4. Good(u, Tail(dq), Cat(uq, u.out)) /\ u.conn = c /\ Grew(this, u) /\ Proper(u.out) /\ Sound(u)
    BY <1>1, <1>2, <1>3 DEF Grew
<1> QED
    BY <1>1, <1>2, <1>4, EventStream

LEMMA ReceiveStream ==
    ASSUME IInv, IInv', Stream, ReceiveEvent
    PROVE  Stream' /\ Grew(this, this') /\ log' = log
<1>1. PICK t, m : t = this /\ m = Message
    OBVIOUS
<1>2. /\ Incoming /\ Message.kind = "event" /\ Consumed /\ DaemonSame /\ sock' = sock
      /\ \/ Loading(t) /\ Commit(Collect(t, m))
         \/ ~Loading(t) /\ (~t.bound \/ m.sub # t.current) /\ Commit(t)
         \/ ~Loading(t) /\ t.bound /\ m.sub = t.current /\ ChainBusy(t) /\ Commit(Chained(t, m))
         \/ ~Loading(t) /\ t.bound /\ m.sub = t.current /\ ~ChainBusy(t) /\ Commit(Applied(Noted(t, m), <<m>>))
    BY <1>1, EventSplit
<1>3. CASE Loading(t) /\ Commit(Collect(t, m))
    BY <1>1, <1>2, <1>3, ReceiveLoading
<1>4. CASE ~Loading(t) /\ (~t.bound \/ m.sub # t.current) /\ Commit(t)
    BY <1>1, <1>2, <1>4, ReceiveOther
<1>5. CASE t.bound /\ m.sub = t.current /\ ChainBusy(t) /\ Commit(Chained(t, m))
  <2>1. PICK u : u = Chained(t, m)
    OBVIOUS
  <2> QED
    BY <1>1, <1>2, <1>5, <2>1, ReceiveBound
<1>6. CASE t.bound /\ m.sub = t.current /\ ~ChainBusy(t) /\ Commit(Applied(Noted(t, m), <<m>>))
  <2>1. PICK u : u = Applied(Noted(t, m), <<m>>)
    OBVIOUS
  <2> QED
    BY <1>1, <1>2, <1>6, <2>1, ReceiveBound
<1> QED
    BY <1>2, <1>3, <1>4, <1>5, <1>6

-----------------------------------------------------------------------------
(* Establishing a subscription.                                            *)

\* Promises that answer to a caller at most.
Bygone(ws, x) == \A k \in 1..Len(ws) : Late(ws[k]) /\ ws[k].caller # "recovery" /\ x[k] \in Ends

\* What establish() asks for, and what it keeps.
Begins(t, u, cursor, ws, w, r) ==
    /\ Sound(u) /\ u.conn = t.conn /\ r \in Requests /\ r = [method |-> "subscribe", after |-> cursor]
    /\ w \in Waiters /\ Est(w) /\ w.caller = u.caller
    /\ ws \in Seq(Waiters) /\ Len(ws) = Len(t.waiting) /\ \A k \in 1..Len(t.waiting) : Renamed(t.waiting[k], ws[k])
    /\ u.waiting = Append(ws, w) /\ u.out = Append(t.out, r)
    /\ u.phase = "subscribe" /\ u.cursor = cursor /\ u.seq = 0 /\ ~u.missed /\ u.chain = <<>> /\ u.pending = <<>> /\ ~u.bound
    /\ (u.view = t.view /\ u.ack = t.ack) \/ (u.view = <<>> /\ u.ack = None)
    /\ cursor = None \/ cursor = u.ack

LEMMA EstablishFields ==
    ASSUME NEW t, Sound(t), NEW caller \in Callers, NEW force \in BOOLEAN, NEW u, u = Establish(t, caller, force),
           NEW ws, ws = Superseded(t).waiting, NEW w, w = Waiter("est", None, caller)
    PROVE  \E cursor, r : /\ Begins(t, u, cursor, ws, w, r)
                          /\ cursor = None => u.ack = None \/ u.view = <<>> \/ force
<1>1. PICK s, same, cursor, view, ack :
           /\ s = Superseded(t) /\ same = (t.seen \in {0, instance})
           /\ cursor = (IF ~force /\ same /\ t.view # <<>> THEN t.ack ELSE None)
           /\ view = (IF same THEN s.view ELSE <<>>) /\ ack = (IF same THEN s.ack ELSE None)
    OBVIOUS
<1>2. /\ Sound(s) /\ Carries(t, s) /\ ~s.bound /\ s.pending = <<>> /\ s.chain = <<>> /\ s.out = t.out
      /\ Len(s.waiting) = Len(t.waiting)
      /\ \A k \in 1..Len(t.waiting) : Renamed(t.waiting[k], s.waiting[k])
    BY <1>1, SupersededFields
<1>3. s.view = t.view /\ s.ack = t.ack /\ s.conn = t.conn /\ ws = s.waiting
    BY <1>1, <1>2 DEF Carries
<1>4. s \in Objects /\ s.waiting \in Seq(Waiters) /\ s.view \in Seq(Nat) /\ s.ack \in CursorIds
    BY <1>2, ObjectIs DEF Sound
<1>5. view \in Seq(Nat) /\ ack \in CursorIds /\ cursor \in CursorIds
  <2>1. <<>> \in Seq(Nat)
    OBVIOUS
  <2> QED
    BY <1>1, <1>3, <1>4, <2>1, Nothing
<1>6. /\ (view = t.view /\ ack = t.ack) \/ (view = <<>> /\ ack = None)
      /\ cursor = None \/ cursor = ack
      /\ cursor = None => ack = None \/ view = <<>> \/ force
    BY <1>1, <1>3
<1>7. PICK no, zero, idle : no = FALSE /\ zero = 0 /\ idle = "subscribe"
    OBVIOUS
<1>8. no \in BOOLEAN
    BY <1>7, Zenon
<1>9. zero \in Nat /\ idle \in Phases
    BY <1>7 DEF Phases
<1>10. PICK e : e \in Objects /\ e = [s EXCEPT !.hook = no, !.seq = zero, !.missed = no, !.phase = idle,
                                              !.caller = caller, !.force = force, !.cursor = cursor,
                                              !.view = view, !.ack = ack]
  <2>1. PICK f : f = [s EXCEPT !.hook = no, !.seq = zero, !.missed = no, !.phase = idle]
    OBVIOUS
  <2>2. [s EXCEPT !.hook = no, !.seq = zero, !.missed = no, !.phase = idle] \in Objects
    BY <1>4, <1>8, <1>9 DEF Objects
  <2>3. f \in Objects
    BY <2>1, <2>2
  <2>4. [f EXCEPT !.caller = caller, !.force = force, !.cursor = cursor, !.view = view, !.ack = ack] \in Objects
    BY <1>5, <2>3 DEF Objects
  <2>5. [f EXCEPT !.caller = caller, !.force = force, !.cursor = cursor, !.view = view, !.ack = ack]
        = [s EXCEPT !.hook = no, !.seq = zero, !.missed = no, !.phase = idle,
                    !.caller = caller, !.force = force, !.cursor = cursor, !.view = view, !.ack = ack]
    BY <2>1
  <2> QED
    BY <2>4, <2>5
<1>11. /\ e.conn = s.conn /\ e.out = s.out /\ e.waiting = s.waiting /\ e.phase = "subscribe" /\ e.cursor = cursor
       /\ e.seq = 0 /\ e.chain = s.chain /\ e.pending = s.pending /\ e.bound = s.bound
       /\ e.view = view /\ e.ack = ack /\ e.caller = caller
  <2>1. e.conn = s.conn /\ e.out = s.out /\ e.waiting = s.waiting
    BY <1>4, <1>10 DEF Objects
  <2>2. e.chain = s.chain /\ e.pending = s.pending /\ e.bound = s.bound
    BY <1>4, <1>10 DEF Objects
  <2>3. e.phase = idle /\ e.cursor = cursor /\ e.seq = zero
    BY <1>4, <1>10 DEF Objects
  <2>4. e.view = view /\ e.ack = ack /\ e.caller = caller
    BY <1>4, <1>10 DEF Objects
  <2> QED
    BY <1>7, <2>1, <2>2, <2>3, <2>4
<1>12. ~e.missed
    BY <1>4, <1>7, <1>10 DEF Objects
<1>13. Sound(e)
    BY <1>10, <1>11 DEF Sound
<1>14. PICK r : r = [method |-> "subscribe", after |-> cursor]
    OBVIOUS
<1>15. r \in Requests
    BY <1>5, <1>14 DEF Requests
<1>16. w \in Waiters /\ Est(w) /\ w.caller = caller
  <2>1. "est" \in Whos
    BY DEF Whos
  <2> QED
    BY <2>1, Nothing, WaiterIs DEF Est, Waiter
<1>17. u = Ask(e, r, w)
    BY <1>1, <1>7, <1>10, <1>14 DEF Establish
<1>18. Asked(e, u, r, w)
    BY <1>13, <1>15, <1>16, <1>17, AskFields
<1>19. /\ Sound(u) /\ u.conn = e.conn /\ u.view = e.view /\ u.ack = e.ack /\ u.phase = e.phase /\ u.caller = e.caller
       /\ u.cursor = e.cursor /\ u.seq = e.seq /\ u.missed = e.missed /\ u.bound = e.bound /\ u.pending = e.pending
       /\ u.chain = e.chain /\ u.waiting = Append(e.waiting, w) /\ u.out = Append(e.out, r)
    BY <1>18 DEF Asked, Carries
<1>20. Begins(t, u, cursor, ws, w, r)
    BY <1>2, <1>3, <1>4, <1>6, <1>11, <1>12, <1>14, <1>15, <1>16, <1>19 DEF Begins
<1> QED
    BY <1>6, <1>11, <1>19, <1>20

\* The object once establish() has asked.
LEMMA EstablishGood ==
    ASSUME NEW t, Sound(t), t.out = <<>>, t.conn # 0, AckSafe(t), Showing(t), log \in Nat,
           NEW dq \in Seq(Messages), NEW uq \in Seq(Requests), Recent(dq),
           Bygone(t.waiting, Talk(dq, uq)), Len(t.waiting) = Len(Talk(dq, uq)),
           NEW caller \in Callers, NEW force \in BOOLEAN, force => t.ack = None \/ Unknown(t.ack),
           NEW u, u = Establish(t, caller, force)
    PROVE  Good(u, dq, Cat(uq, u.out)) /\ Sound(u) /\ u.conn = t.conn /\ Grew(t, u) /\ Proper(u.out)
<1>1. PICK ws, w, x : ws = Superseded(t).waiting /\ w = Waiter("est", None, caller) /\ x = Talk(dq, uq)
    OBVIOUS
<1>2. PICK cursor, r : /\ Begins(t, u, cursor, ws, w, r)
                       /\ cursor = None => u.ack = None \/ u.view = <<>> \/ force
    BY <1>1, EstablishFields
<1>3. /\ Sound(u) /\ u.conn = t.conn /\ r \in Requests /\ r = [method |-> "subscribe", after |-> cursor]
      /\ w \in Waiters /\ Est(w) /\ w.caller = u.caller
      /\ ws \in Seq(Waiters) /\ Len(ws) = Len(t.waiting) /\ \A k \in 1..Len(t.waiting) : Renamed(t.waiting[k], ws[k])
      /\ u.waiting = Append(ws, w) /\ u.out = Append(t.out, r)
      /\ u.phase = "subscribe" /\ u.cursor = cursor /\ u.seq = 0 /\ ~u.missed /\ u.chain = <<>> /\ u.pending = <<>> /\ ~u.bound
      /\ (u.view = t.view /\ u.ack = t.ack) \/ (u.view = <<>> /\ u.ack = None)
      /\ cursor = None \/ cursor = u.ack
    BY <1>2 DEF Begins
<1>4. Len(ws) \in Nat /\ Len(t.waiting) \in Nat /\ Len(t.view) \in Nat
    BY <1>3, ObjectIs
<1>5. AckSafe(u)
  <2>1. u.ack # None => Issued(u.ack) /\ (u.ack[2] <= Len(u.view) \/ Unknown(u.ack))
    BY <1>3 DEF AckSafe
  <2>2. u.cursor = None => u.ack = None \/ Unknown(u.ack) \/ u.ack[2] = 0
    <3> SUFFICES ASSUME u.cursor = None, u.ack # None, ~Unknown(u.ack) PROVE u.ack[2] = 0
      OBVIOUS
    <3>1. u.view = <<>> \/ force
      BY <1>2, <1>3
    <3>2. ~force
      BY <1>3
    <3>3. u.ack[2] <= Len(u.view) /\ u.ack[2] \in Nat
      BY <2>1, IssuedInt
    <3>4. Len(u.view) = 0
      BY <3>1, <3>2
    <3> QED
      BY <3>3, <3>4
  <2>3. u.cursor # None => u.cursor = u.ack
    BY <1>3
  <2> QED
    BY <1>3, <2>1, <2>2, <2>3 DEF AckSafe
<1>6. Showing(u)
    BY <1>3, ShowsNothing DEF Showing
<1>7. Placed(u)
    BY <1>3 DEF Placed
<1>8. Recent(u.pending)
    BY <1>3 DEF Recent
<1>9. Streaming(u, dq)
    BY <1>3, <1>8 DEF Streaming, Reading
<1>10. ~Joined(u) /\ u.phase \in Awaiting
    BY <1>3 DEF Joined, Reading, Awaiting
<1>11. ASSUME NEW k \in 1..Len(ws)
       PROVE  Entry(u, k, x[k], dq)
  <2>1. PICK v : v = ws[k]
    OBVIOUS
  <2>2. Late(v) /\ v.caller # "recovery" /\ x[k] \in Ends
    <3>1. Late(t.waiting[k]) /\ t.waiting[k].caller # "recovery" /\ x[k] \in Ends
      BY <1>1, <1>3 DEF Bygone
    <3>2. Renamed(t.waiting[k], v)
      BY <1>3, <2>1
    <3> QED
      BY <3>1, <3>2 DEF Renamed, Late
  <2>3. u.waiting[k] = v
    BY <1>3, <1>4, <2>1
  <2>4. v.who = "old"
    BY <2>2 DEF Late
  <2>5. ~Est(v) /\ ~Acking(u, v)
    BY <2>4 DEF Est, Acking
  <2>6. Lined(u, k)
    BY <1>3, <1>10, <2>2, <2>3, <2>4, <2>5 DEF Lined
  <2>7. Waits(u, k)
    BY <2>3, <2>5 DEF Waits
  <2>8. Matched(u, v, x[k], dq)
    BY <2>2, <2>5 DEF Matched
  <2> QED
    BY <2>3, <2>6, <2>7, <2>8 DEF Entry
<1>12. Entry(u, Len(ws) + 1, r, dq)
  <2>1. PICK n : n = Len(ws) + 1
    OBVIOUS
  <2>2. u.waiting[n] = w /\ Len(u.waiting) = n /\ n \in Nat
    BY <1>3, <1>4, <2>1
  <2>3. w.who = "est" /\ ~Acking(u, w)
    BY <1>3 DEF Est, Acking
  <2>4. \A j \in (n + 1)..Len(u.waiting) : FALSE
    BY <2>2
  <2>5. Lined(u, n)
    BY <1>3, <1>10, <2>2, <2>3, <2>4 DEF Lined
  <2>6. Waits(u, n)
    BY <2>2, <2>3 DEF Waits
  <2>7. SubscribeMatched(u, r, dq)
    BY <1>3 DEF SubscribeMatched
  <2>8. Matched(u, w, r, dq)
    BY <1>3, <2>3, <2>7 DEF Matched
  <2> QED
    BY <2>1, <2>2, <2>5, <2>6, <2>8 DEF Entry
<1>13. Conversing(u, dq, Cat(uq, <<r>>))
  <2>1. Len(ws) = Len(Talk(dq, uq)) /\ \A k \in 1..Len(ws) : Entry(u, k, Talk(dq, uq)[k], dq)
    BY <1>1, <1>3, <1>11
  <2> QED
    BY <1>3, <1>12, <2>1, ConversingAsk
<1>14. u.out = <<r>>
    BY <1>3
<1>15. Good(u, dq, Cat(uq, u.out))
  <2>1. Good(u, dq, Cat(uq, <<r>>))
    BY <1>5, <1>6, <1>7, <1>9, <1>13 DEF Good
  <2> QED
    BY <1>14, <2>1
<1>16. Proper(u.out)
  <2>1. r.after # None => r.after[1] \in 1..Len(subs)
    <3> SUFFICES ASSUME cursor # None PROVE cursor[1] \in 1..Len(subs)
      BY <1>3
    <3>1. Issued(cursor)
      BY <1>3, <1>5 DEF AckSafe
    <3> QED
      BY <3>1 DEF Issued
  <2>2. Proper(<<r>>)
    BY <2>1, ProperFew
  <2> QED
    BY <1>14, <2>2
<1>17. Grew(t, u)
    BY <1>3, <1>4 DEF Grew
<1> QED
    BY <1>3, <1>15, <1>16, <1>17

\* Nobody is waited for but those who answer to a caller at most.
LEMMA ConversingBygone ==
    ASSUME NEW u, u.phase = "idle", ~u.bound, NEW dq, NEW uq, Bygone(u.waiting, Talk(dq, uq))
    PROVE  Conversing(u, dq, uq)
<1>1. ~Joined(u)
    BY DEF Joined, Reading
<1> SUFFICES ASSUME NEW k \in 1..Len(u.waiting)
             PROVE  Lined(u, k) /\ Waits(u, k) /\ Matched(u, u.waiting[k], Talk(dq, uq)[k], dq)
    BY DEF Conversing
<1>2. PICK v, m : v = u.waiting[k] /\ m = Talk(dq, uq)[k]
    OBVIOUS
<1>3. Late(v) /\ v.caller # "recovery" /\ m \in Ends
    BY <1>2 DEF Bygone
<1>4. v.who = "old" /\ ~Est(v) /\ ~Acking(u, v)
    BY <1>3 DEF Late, Est, Acking
<1>5. Lined(u, k)
    BY <1>1, <1>2, <1>3, <1>4 DEF Lined
<1>6. Waits(u, k)
    BY <1>2, <1>4 DEF Waits
<1>7. Matched(u, v, m, dq)
    BY <1>3, <1>4 DEF Matched
<1> QED
    BY <1>2, <1>5, <1>6, <1>7

\* What is left of the object when establish() is rejected.
Reject(t, u) ==
    /\ Sound(u) /\ u.out = <<>> /\ u.conn = t.conn /\ ~u.bound /\ u.waiting = t.waiting /\ u.chain = <<>>
    /\ u.phase \in {"idle", "failed"} /\ Recent(u.pending)
    /\ (u.view = t.view /\ u.ack = t.ack) \/ (u.view = <<>> /\ u.ack = None)

LEMMA RejectedFields ==
    ASSUME NEW t, Sound(t), t.out = <<>>, t.chain = <<>>, Recent(t.pending), NEW caller, NEW u, u = Rejected(t, caller)
    PROVE  Reject(t, u)
<1>1. t \in Objects /\ t.conn \in 0..MaxConns /\ t.waiting \in Seq(Waiters)
    BY ObjectIs DEF Sound
<1>2. PICK no, zero, idle, none, failed : no = FALSE /\ zero = 0 /\ idle = "idle" /\ none = "none" /\ failed = "failed"
    OBVIOUS
<1>3. no \in BOOLEAN
    BY <1>2, Zenon
<1>4. zero \in 0..MaxSubs /\ idle \in Phases /\ failed \in Phases /\ none \in Callers
    BY <1>2, Bounds DEF Phases, Callers
<1>5. CASE caller = "start"
  <2>1. u = [Blank EXCEPT !.conn = t.conn, !.waiting = t.waiting]
    BY <1>5 DEF Rejected
  <2>2. Blank \in Objects /\ Blank.out = <<>>
    BY BlankIs DEF Sound
  <2>3. [Blank EXCEPT !.conn = t.conn, !.waiting = t.waiting] \in Objects
    BY <1>1, <2>2 DEF Objects
  <2>4. u \in Objects
    BY <2>1, <2>3
  <2>5. /\ u.out = <<>> /\ u.conn = t.conn /\ u.waiting = t.waiting /\ u.chain = <<>> /\ u.phase = "idle" /\ u.pending = <<>>
        /\ u.view = <<>> /\ u.ack = None
    BY <2>1 DEF Blank
  <2>6. ~u.bound
    BY <2>1 DEF Blank
  <2>7. Recent(u.pending)
    BY <2>5 DEF Recent
  <2> QED
    BY <2>4, <2>5, <2>6, <2>7 DEF Reject, Sound
<1>6. CASE caller = "recovery"
  <2>1. u = [t EXCEPT !.phase = idle, !.caller = none, !.bound = no, !.force = no, !.current = zero]
    BY <1>2, <1>6 DEF Rejected
  <2>2. [t EXCEPT !.phase = idle, !.caller = none, !.bound = no, !.force = no, !.current = zero] \in Objects
    BY <1>1, <1>3, <1>4 DEF Objects
  <2>3. u \in Objects
    BY <2>1, <2>2
  <2>4. /\ u.out = t.out /\ u.conn = t.conn /\ u.waiting = t.waiting /\ u.chain = t.chain /\ u.phase = idle /\ u.pending = t.pending
        /\ u.view = t.view /\ u.ack = t.ack
    BY <1>1, <2>1 DEF Objects
  <2>5. ~u.bound
    BY <1>1, <1>2, <2>1 DEF Objects
  <2> QED
    BY <1>2, <2>3, <2>4, <2>5 DEF Reject, Sound
<1>7. CASE caller \notin {"start", "recovery"}
  <2>1. u = [t EXCEPT !.phase = failed, !.bound = no]
    BY <1>2, <1>7 DEF Rejected
  <2>2. [t EXCEPT !.phase = failed, !.bound = no] \in Objects
    BY <1>1, <1>3, <1>4 DEF Objects
  <2>3. u \in Objects
    BY <2>1, <2>2
  <2>4. /\ u.out = t.out /\ u.conn = t.conn /\ u.waiting = t.waiting /\ u.chain = t.chain /\ u.phase = failed /\ u.pending = t.pending
        /\ u.view = t.view /\ u.ack = t.ack
    BY <1>1, <2>1 DEF Objects
  <2>5. ~u.bound
    BY <1>1, <1>2, <2>1 DEF Objects
  <2> QED
    BY <1>2, <2>3, <2>4, <2>5 DEF Reject, Sound
<1> QED
    BY <1>5, <1>6, <1>7

LEMMA RejectedGood ==
    ASSUME NEW t, AckSafe(t), Showing(t), t.conn # 0, log \in Nat,
           NEW dq \in Seq(Messages), NEW uq \in Seq(Requests), Recent(dq), Bygone(t.waiting, Talk(dq, uq)),
           NEW u, Reject(t, u), Len(t.view) \in Nat
    PROVE  Good(u, dq, Cat(uq, u.out)) /\ Sound(u) /\ u.conn = t.conn /\ Grew(t, u) /\ Proper(u.out)
<1>1. /\ Sound(u) /\ u.out = <<>> /\ u.conn = t.conn /\ ~u.bound /\ u.waiting = t.waiting /\ u.chain = <<>>
      /\ u.phase \in {"idle", "failed"} /\ Recent(u.pending)
      /\ (u.view = t.view /\ u.ack = t.ack) \/ (u.view = <<>> /\ u.ack = None)
    BY DEF Reject
<1>2. Placed(u)
    BY <1>1 DEF Placed, Reading
<1>3. Conversing(u, dq, uq)
  <2>1. CASE u.phase = "idle"
    BY <1>1, <2>1, ConversingBygone
  <2>2. CASE u.phase = "failed"
    BY <2>2, ConversingNone
  <2> QED
    BY <1>1, <2>1, <2>2
<1>4. Streaming(u, dq)
    BY <1>1 DEF Streaming, Reading
<1>5. AckSafe(u)
    BY <1>1 DEF AckSafe
<1>6. Showing(u)
    BY <1>1, ShowsNothing DEF Showing
<1>7. Good(u, dq, uq)
    BY <1>2, <1>3, <1>4, <1>5, <1>6 DEF Good
<1>8. Cat(uq, u.out) = uq /\ Proper(u.out)
    BY <1>1, CatNone, ProperFew
<1> QED
    BY <1>1, <1>7, <1>8 DEF Grew

\* A promise of establish() that left its subscription is answered.
Behind(t, c, a, d, uq) ==
    /\ Sound(t) /\ Sound(a) /\ a.out = <<>> /\ a.conn = c /\ c # 0 /\ t.conn = c /\ AckSafe(a) /\ Showing(a) /\ log \in Nat
    /\ d \in Seq(Messages) /\ uq \in Seq(Requests) /\ Recent(d) /\ Recent(a.pending) /\ a.chain = <<>>
    /\ Bygone(a.waiting, Talk(d, uq)) /\ Len(a.waiting) = Len(Talk(d, uq))
    /\ a.view = t.view /\ a.ack = t.ack /\ a.phase = t.phase /\ Len(t.view) \in Nat /\ t.caller \in Callers /\ t.force \in BOOLEAN
    /\ t.phase = "leaving" /\ t.force => Unknown(t.ack)

LEMMA LeftBehind ==
    ASSUME IInv, Stream, Answer("est"), this.phase \in {"cleanup", "leaving"}, NEW t, t = this, NEW c, c = this.conn,
           NEW dq, dq = down[c], NEW uq, uq = up[c], NEW a, a = Answered, NEW d, d = Tail(dq)
    PROVE  Behind(t, c, a, d, uq)
<1>1. PICK w : w = Head(t.waiting)
    OBVIOUS
<1>2. c \in Conns /\ t.conn = c /\ Paired(t, dq, uq) /\ Good(t, dq, uq) /\ w.who = "est"
    BY <1>1, Received
<1>3. Sound(t) /\ uq \in Seq(Requests) /\ log \in Nat
    BY <1>2, InvFacts, Bounds DEF Paired, Sizes
<1>4. Rests(t, a) /\ RestsIn(t, a)
    BY AnsweredRests, RestsIs
<1>5. /\ a.conn = t.conn /\ a.bound = t.bound /\ a.view = t.view /\ a.current = t.current /\ a.ack = t.ack
      /\ a.phase = t.phase /\ a.caller = t.caller /\ a.force = t.force /\ a.cursor = t.cursor
      /\ a.pending = t.pending /\ a.chain = t.chain /\ a.out = <<>>
      /\ a.waiting = Tail(t.waiting) /\ Sound(a)
    BY <1>4 DEF RestsIn, Rests
<1>6. Placed(t) /\ Streaming(t, dq) /\ AckSafe(t) /\ Showing(t)
    BY <1>2 DEF Good
<1>7. ~t.bound /\ t.chain = <<>>
    BY <1>6 DEF Placed
<1>8. Recent(t.pending)
    BY <1>6 DEF Streaming
<1>9. Recent(d) /\ d \in Seq(Messages)
    BY <1>1, <1>2, HeadIs
<1>10. Bygone(a.waiting, Talk(d, uq))
  <2>1. PICK x, ws, n : x = Talk(d, uq) /\ ws = Tail(t.waiting) /\ n = Len(ws)
    OBVIOUS
  <2>2. t.phase \in {"cleanup", "leaving"}
    OBVIOUS
  <2>3. Est(w)
    BY <1>2 DEF Est
  <2>4. \A k \in 1..n : Late(ws[k]) /\ ws[k].caller # "recovery" /\ x[k] \in Ends
    BY <1>1, <1>2, <2>1, <2>2, <2>3, BehindEst
  <2> QED
    BY <1>5, <2>1, <2>4 DEF Bygone
<1>11. Len(a.waiting) = Len(Talk(d, uq))
    BY <1>2, <1>5, Left
<1>12. AckSafe(a) /\ Showing(a)
    BY <1>5, <1>6 DEF AckSafe, Showing
<1>13. Len(t.view) \in Nat /\ t.caller \in Callers /\ t.force \in BOOLEAN
    BY <1>3, ObjectIs DEF Sound, Objects
<1>14. t.phase = "leaving" /\ t.force => Unknown(t.ack)
    BY <1>6 DEF AckSafe
<1>15. c # 0
    BY <1>2 DEF Conns
<1>16. Recent(a.pending) /\ a.chain = <<>> /\ a.conn = c
    BY <1>2, <1>5, <1>7, <1>8
<1> QED
    BY <1>2, <1>3, <1>5, <1>9, <1>10, <1>11, <1>12, <1>13, <1>14, <1>15, <1>16 DEF Behind

LEMMA BehindIs ==
    ASSUME IInv, Stream, Answer("est"), this.phase \in {"cleanup", "leaving"}
    PROVE  \A t, c, dq, uq, a, d : t = this /\ c = this.conn /\ dq = down[c] /\ uq = up[c] /\ a = Answered /\ d = Tail(dq)
                                   => Behind(t, c, a, d, uq)
    BY LeftBehind

\* The object with an empty view.
Cleared(a) == [a EXCEPT !.view = <<>>, !.ack = None]

LEMMA ClearedFields ==
    ASSUME NEW a, Sound(a), NEW z, z = Cleared(a)
    PROVE  /\ Sound(z) /\ z.out = a.out /\ z.conn = a.conn /\ z.view = <<>> /\ z.ack = None /\ z.phase = a.phase
           /\ z.waiting = a.waiting /\ z.cursor = a.cursor /\ z.force = a.force
<1>1. a \in Objects
    BY DEF Sound
<1>2. PICK e, n : e = <<>> /\ n = None
    OBVIOUS
<1>3. e \in Seq(Nat) /\ n \in CursorIds
    BY <1>2, Nothing
<1>4. [a EXCEPT !.view = e, !.ack = n] \in Objects
    BY <1>1, <1>3 DEF Objects
<1>5. z = [a EXCEPT !.view = e, !.ack = n]
    BY <1>2 DEF Cleared
<1>6. z \in Objects
    BY <1>4, <1>5
<1>7. /\ z.out = a.out /\ z.conn = a.conn /\ z.view = e /\ z.ack = n /\ z.phase = a.phase
      /\ z.waiting = a.waiting /\ z.cursor = a.cursor /\ z.force = a.force /\ z.page = a.page
    BY <1>1, <1>5 DEF Objects
<1> QED
    BY <1>2, <1>6, <1>7 DEF Sound

LEMMA CleanedStream ==
    ASSUME IInv, IInv', Stream, CleanupAnswered
    PROVE  Stream' /\ Grew(this, this') /\ log' = log
<1>1. PICK t, c, dq, uq, a, d : t = this /\ c = this.conn /\ dq = down[c] /\ uq = up[c] /\ a = Answered /\ d = Tail(dq)
    OBVIOUS
<1>2. Answer("est") /\ this.phase \in {"cleanup", "leaving"} /\ t.phase = "cleanup"
    BY <1>1 DEF CleanupAnswered
<1>30. Behind(t, c, a, d, uq)
    BY <1>1, <1>2, BehindIs
<1>3. /\ Sound(t) /\ Sound(a) /\ a.out = <<>> /\ a.conn = c /\ c # 0 /\ t.conn = c /\ AckSafe(a) /\ Showing(a) /\ log \in Nat
      /\ d \in Seq(Messages) /\ uq \in Seq(Requests) /\ Recent(d) /\ Recent(a.pending) /\ a.chain = <<>>
      /\ Bygone(a.waiting, Talk(d, uq)) /\ Len(a.waiting) = Len(Talk(d, uq))
      /\ a.view = t.view /\ a.ack = t.ack /\ a.phase = t.phase /\ Len(t.view) \in Nat /\ t.caller \in Callers /\ t.force \in BOOLEAN
      /\ t.phase = "leaving" /\ t.force => Unknown(t.ack)
    BY <1>30 DEF Behind
<1>4. CASE Commit(Establish(Cleared(a), t.caller, TRUE))
  <2>1. PICK z, u, f : z = Cleared(a) /\ u = Establish(z, t.caller, f) /\ f = TRUE
    OBVIOUS
  <2>2. /\ Sound(z) /\ z.out = a.out /\ z.conn = a.conn /\ z.view = <<>> /\ z.ack = None /\ z.phase = a.phase
        /\ z.waiting = a.waiting
    BY <1>3, <2>1, ClearedFields
  <2>3. AckSafe(z) /\ Showing(z)
    BY <1>2, <1>3, <2>2, ShowsNothing DEF AckSafe
  <2>4. Good(u, d, Cat(uq, u.out)) /\ Sound(u) /\ u.conn = z.conn /\ Grew(z, u) /\ Proper(u.out)
    <3>1. z.out = <<>> /\ z.conn # 0 /\ Bygone(z.waiting, Talk(d, uq)) /\ Len(z.waiting) = Len(Talk(d, uq))
      BY <1>3, <2>2
    <3>2. f \in BOOLEAN
      BY <2>1, Zenon
    <3>5. u = Establish(z, t.caller, f)
      BY <2>1, Zenon
    <3>3. f => z.ack = None \/ Unknown(z.ack)
      BY <2>2, Zenon
    <3>4. t.caller \in Callers /\ log \in Nat /\ d \in Seq(Messages) /\ uq \in Seq(Requests) /\ Recent(d)
      BY <1>3
    <3> QED
      BY <2>2, <2>3, <3>1, <3>2, <3>3, <3>4, <3>5, EstablishGood
  <2>5. u.view = <<>>
    <3>1. u.view = <<>> \/ Len(z.view) <= Len(u.view)
      BY <2>4 DEF Grew
    <3>2. z.view = <<>> => u.view = <<>>
      <4>1. PICK ws, w : ws = Superseded(z).waiting /\ w = Waiter("est", None, t.caller)
        OBVIOUS
      <4>2. f \in BOOLEAN /\ t.caller \in Callers
        BY <1>3, <2>1, Zenon
      <4>4. u = Establish(z, t.caller, f)
        BY <2>1, Zenon
      <4>3. PICK q, r : Begins(z, u, q, ws, w, r)
        BY <2>2, <4>1, <4>2, <4>4, EstablishFields
      <4> QED
        BY <4>3 DEF Begins
    <3> QED
      BY <2>2, <3>2
  <2>6. Good(u, Tail(dq), Cat(uq, u.out)) /\ u.conn = this.conn /\ Grew(this, u) /\ Proper(u.out)
    BY <1>1, <1>3, <2>2, <2>4, <2>5 DEF Grew
  <2>70. Commit(u)
    BY <1>4, <2>1, Zenon
  <2>7. Commit(u) /\ Sound(u)
    BY <2>4, <2>70
  <2> QED
    BY <1>1, <1>2, <2>6, <2>7, AnswerStream
<1>5. CASE Commit(Rejected(a, t.caller))
  <2>1. PICK u : u = Rejected(a, t.caller)
    OBVIOUS
  <2>2. Reject(a, u)
    BY <1>3, <2>1, RejectedFields
  <2>3. Good(u, d, Cat(uq, u.out)) /\ Sound(u) /\ u.conn = a.conn /\ Grew(a, u) /\ Proper(u.out)
    <3>1. a.conn # 0 /\ Len(a.view) \in Nat
      BY <1>3
    <3> QED
      BY <1>3, <2>2, <3>1, RejectedGood
  <2>4. Good(u, Tail(dq), Cat(uq, u.out)) /\ u.conn = this.conn /\ Grew(this, u) /\ Proper(u.out)
    BY <1>1, <1>3, <2>3 DEF Grew
  <2>5. Commit(u) /\ Sound(u)
    BY <1>5, <2>1, <2>3
  <2> QED
    BY <1>1, <1>2, <2>4, <2>5, AnswerStream
<1> QED
    BY <1>1, <1>4, <1>5 DEF CleanupAnswered, Cleared

LEMMA LeftStream ==
    ASSUME IInv, IInv', Stream, LeaveAnswered
    PROVE  Stream' /\ Grew(this, this') /\ log' = log
<1>1. PICK t, c, dq, uq, a, d : t = this /\ c = this.conn /\ dq = down[c] /\ uq = up[c] /\ a = Answered /\ d = Tail(dq)
    OBVIOUS
<1>2. Answer("est") /\ this.phase \in {"cleanup", "leaving"} /\ t.phase = "leaving"
    BY <1>1 DEF LeaveAnswered
<1>30. Behind(t, c, a, d, uq)
    BY <1>1, <1>2, BehindIs
<1>3. /\ Sound(t) /\ Sound(a) /\ a.out = <<>> /\ a.conn = c /\ c # 0 /\ t.conn = c /\ AckSafe(a) /\ Showing(a) /\ log \in Nat
      /\ d \in Seq(Messages) /\ uq \in Seq(Requests) /\ Recent(d) /\ Recent(a.pending) /\ a.chain = <<>>
      /\ Bygone(a.waiting, Talk(d, uq)) /\ Len(a.waiting) = Len(Talk(d, uq))
      /\ a.view = t.view /\ a.ack = t.ack /\ a.phase = t.phase /\ Len(t.view) \in Nat /\ t.caller \in Callers /\ t.force \in BOOLEAN
      /\ t.phase = "leaving" /\ t.force => Unknown(t.ack)
    BY <1>30 DEF Behind
<1>4. PICK u, k : k = "recovery" /\ u = Establish(a, k, t.force)
    OBVIOUS
<1>5. Good(u, d, Cat(uq, u.out)) /\ Sound(u) /\ u.conn = a.conn /\ Grew(a, u) /\ Proper(u.out)
  <2>1. k \in Callers /\ a.conn # 0 /\ (t.force => a.ack = None \/ Unknown(a.ack))
    BY <1>2, <1>3, <1>4 DEF Callers
  <2> QED
    BY <1>3, <1>4, <2>1, EstablishGood
<1>6. Good(u, Tail(dq), Cat(uq, u.out)) /\ u.conn = this.conn /\ Grew(this, u) /\ Proper(u.out)
    BY <1>1, <1>3, <1>5 DEF Grew
<1>7. Commit(u) /\ Sound(u)
    BY <1>1, <1>4, <1>5 DEF LeaveAnswered
<1> QED
    BY <1>1, <1>2, <1>6, <1>7, AnswerStream

-----------------------------------------------------------------------------
(* Answers for promises of a generation that ended.                        *)

\* The fields of the object that count for those who still wait.
Lateral(t, u) ==
    /\ u.conn = t.conn /\ u.bound = t.bound /\ u.view = t.view /\ u.ack = t.ack /\ u.phase = t.phase
    /\ u.caller = t.caller /\ u.force = t.force /\ u.cursor = t.cursor /\ u.pending = t.pending
    /\ u.seq = t.seq /\ u.chain = t.chain /\ u.missed = t.missed

\* A waiter of such a generation at the head of the queue.
Ended(t, dq, uq, w) ==
    /\ Paired(t, dq, uq) /\ Good(t, dq, uq) /\ w = Head(t.waiting) /\ w.who \in {"old", "stale"}

LEMMA EndedIs ==
    ASSUME NEW t, NEW dq, NEW uq, NEW w, Ended(t, dq, uq, w)
    PROVE  /\ w \in Waiters /\ (w.who = "old" => w.caller # "recovery") /\ ~t.bound /\ t.chain = <<>>
           /\ t.phase \notin Reading /\ t.phase \notin {"drain", "boundary", "history", "failed"}
           /\ (t.phase = "subscribe" => w.who = "old" /\ w.cursor = None)
           /\ Recent(t.pending) /\ Recent(Tail(dq)) /\ Tail(dq) \in Seq(Messages)
<1>1. w \in Waiters /\ Entry(t, 1, Head(dq), dq) /\ w = t.waiting[1] /\ Recent(Tail(dq)) /\ Tail(dq) \in Seq(Messages)
    BY HeadIs DEF Ended
<1>2. Lined(t, 1)
    BY <1>1 DEF Entry
<1>3. ~Est(w) /\ w.who # "chain"
    BY DEF Ended, Est
<1>4. ~Joined(t) /\ (w.who = "old" => w.caller # "recovery") /\ (t.phase = "subscribe" => Late(w))
    BY <1>1, <1>2, <1>3 DEF Lined, Ended
<1>5. ~t.bound /\ t.phase \notin Reading
    BY <1>4 DEF Joined
<1>6. t.chain = <<>> /\ t.phase # "drain"
    BY <1>5 DEF Ended, Good, Placed
<1>7. Recent(t.pending) /\ t.phase # "failed"
    BY DEF Ended, Good, Streaming, Paired
<1> QED
    BY <1>1, <1>4, <1>5, <1>6, <1>7 DEF Late, Reading

\* Those behind it, when it is gone and another such promise may be added.
LEMMA EndedEntries ==
    ASSUME NEW t, NEW dq, NEW uq, NEW w, Ended(t, dq, uq, w), NEW u, Lateral(t, u), NEW d, d = Tail(dq),
           NEW n, n = Len(Tail(t.waiting)), Len(u.waiting) \in Nat,
           \A k \in 1..n : u.waiting[k] = Tail(t.waiting)[k],
           \A k \in (n + 1)..Len(u.waiting) : Late(u.waiting[k]), t.phase = "subscribe" => Len(u.waiting) = n,
           NEW k \in 1..n
    PROVE  Entry(u, k, Talk(d, uq)[k], d)
<1>1. Paired(t, dq, uq) /\ Good(t, dq, uq)
    BY DEF Ended
<1>2. PICK v, m : v = u.waiting[k] /\ m = Talk(d, uq)[k]
    OBVIOUS
<1>3. Entry(t, k + 1, m, dq) /\ v = t.waiting[k + 1]
  <2>1. \A j \in 1..n : Entry(t, j + 1, Talk(d, uq)[j], dq) /\ Tail(t.waiting)[j] = t.waiting[j + 1]
    <3>1. PICK h : h = Head(t.waiting)
      OBVIOUS
    <3> QED
      BY <1>1, <3>1, HeadIs
  <2> QED
    BY <1>2, <2>1
<1>4. /\ ~t.bound /\ t.phase \notin Reading
      /\ t.phase \notin {"drain", "boundary", "history", "failed"}
    BY EndedIs
<1>5. n \in Nat /\ Len(t.waiting) = n + 1
  <2>1. Len(t.waiting) \in Nat /\ Len(Tail(t.waiting)) = Len(t.waiting) - 1
    BY <1>1, Left
  <2>2. PICK l \in Nat : l = Len(t.waiting)
    BY <2>1
  <2>3. t.waiting \in Seq(Waiters) /\ t.waiting # <<>>
    BY <1>1, ObjectIs DEF Paired
  <2>4. n = l - 1 /\ n \in Nat
    BY <2>1, <2>2, <2>3
  <2> QED
    BY <2>2, <2>4
<1>6. /\ u.conn = t.conn /\ ~u.bound /\ u.view = t.view /\ u.ack = t.ack /\ u.phase = t.phase
      /\ u.caller = t.caller /\ u.cursor = t.cursor /\ u.pending = t.pending
    BY <1>4 DEF Lateral
<1>7. Lined(t, k + 1) /\ Matched(t, v, m, dq)
    BY <1>3 DEF Entry
<1>8. ~Joined(t) /\ ~Joined(u)
    BY <1>4, <1>6 DEF Joined
<1>9. \A j \in 1..Len(u.waiting) : j \in 1..n \/ j \in (n + 1)..Len(u.waiting)
    BY <1>5
<1>10. \A j \in (k + 1)..Len(u.waiting) :
          \/ j \in 1..n /\ u.waiting[j] = t.waiting[j + 1] /\ j + 1 \in ((k + 1) + 1)..Len(t.waiting)
          \/ Late(u.waiting[j])
  <2>1. \A j \in 1..n : Tail(t.waiting)[j] = t.waiting[j + 1]
    BY <1>1, Left
  <2> QED
    BY <1>5, <1>9, <2>1
<1>11. \A x : Late(x) => ~Est(x)
    BY DEF Late, Est
<1>12. w.who = "old" => w.caller # "recovery"
    BY EndedIs
<1>13. ~(v.who = "chain")
    BY <1>3, <1>4, <1>7 DEF Lined
<1>14. ~Acking(t, v) /\ ~Acking(u, v)
    BY <1>4, <1>6, <1>13 DEF Acking
<1>15. Lined(u, k)
  <2>1. Est(v) => u.phase \in Awaiting /\ v.caller = u.caller
    BY <1>3, <1>6, <1>7 DEF Lined
  <2>2. Est(v) => \A j \in (k + 1)..Len(u.waiting) : ~Est(u.waiting[j])
    BY <1>3, <1>7, <1>10, <1>11 DEF Lined
  <2>3. v.who = "old" => v.caller # "recovery"
    BY <1>3, <1>7 DEF Lined
  <2>4. u.phase \in {"leaving", "cleanup"} /\ Est(v) => \A j \in (k + 1)..Len(u.waiting) : Late(u.waiting[j])
    BY <1>3, <1>6, <1>7, <1>10 DEF Lined
  <2>5. u.phase = "subscribe" => (Est(v) /\ k = n) \/ Late(v)
    BY <1>3, <1>5, <1>6, <1>7 DEF Lined
  <2>6. ASSUME u.phase = "subscribe", Est(v), k = n
        PROVE  k = Len(u.waiting)
    BY <1>6, <2>6
  <2> QED
    BY <1>2, <1>8, <1>13, <2>1, <2>2, <2>3, <2>4, <2>5, <2>6 DEF Lined
<1>16. Waits(u, k)
    BY <1>2, <1>14 DEF Waits
<1>17. Matched(u, v, m, d)
  <2>1. ASSUME NEW i, Begun(t, dq, i)
        PROVE  Begun(u, d, i)
    <3>1. Orderly(i, u.ack)
      BY <1>6, <2>1 DEF Begun
    <3> QED
      BY <1>1, <1>6, <2>1, <3>1, BegunTail
  <2>2. Est(v) /\ u.phase = "subscribe" => SubscribeMatched(u, m, d)
    <3>1. Est(v) /\ t.phase = "subscribe" => SubscribeMatched(t, m, dq)
      BY <1>7 DEF Matched
    <3>2. SubscribeMatched(t, m, dq) => SubscribeMatched(u, m, d)
      BY <1>6, <2>1 DEF SubscribeMatched
    <3> QED
      BY <1>6, <3>1, <3>2
  <2>3. u.phase # "history"
    BY <1>4, <1>6
  <2>4. v.who \in {"old", "stale"} \/ (Est(v) /\ u.phase \in {"leaving", "cleanup"}) => m \in Ends
    BY <1>6, <1>7 DEF Matched
  <2> QED
    BY <1>14, <2>2, <2>3, <2>4 DEF Matched
<1> QED
    BY <1>2, <1>15, <1>16, <1>17 DEF Entry

\* The object when it is gone.
LEMMA EndedGood ==
    ASSUME NEW t, NEW dq, NEW uq, NEW w, Ended(t, dq, uq, w), NEW u, Lateral(t, u), u.waiting = Tail(t.waiting), NEW d, d = Tail(dq)
    PROVE  Good(u, d, uq)
<1>1. /\ ~t.bound /\ t.chain = <<>> /\ t.phase \notin Reading
      /\ Recent(t.pending) /\ Recent(d) /\ d \in Seq(Messages)
    BY EndedIs
<1>2. Paired(t, dq, uq) /\ Placed(t) /\ AckSafe(t) /\ Showing(t)
    BY DEF Ended, Good
<1>3. Placed(u)
    BY <1>1, <1>2 DEF Placed, Lateral
<1>4. Streaming(u, d)
    BY <1>1 DEF Streaming, Lateral
<1>5. AckSafe(u) /\ Showing(u)
    BY <1>2 DEF AckSafe, Showing, Lateral
<1>6. Conversing(u, d, uq)
  <2>1. PICK n : n = Len(Tail(t.waiting))
    OBVIOUS
  <2>2. n \in Nat /\ Len(u.waiting) = n
    BY <1>2, <2>1, Left
  <2>3. \A k \in 1..n : u.waiting[k] = Tail(t.waiting)[k]
    OBVIOUS
  <2>4. \A k \in (n + 1)..n : Late(u.waiting[k])
    BY <2>2
  <2>5. \A k \in (n + 1)..Len(u.waiting) : Late(u.waiting[k])
    BY <2>2, <2>4
  <2>6. Len(u.waiting) \in Nat /\ (t.phase = "subscribe" => Len(u.waiting) = n)
    BY <2>2
  <2>7. \A k \in 1..n : Entry(u, k, Talk(d, uq)[k], d)
    BY <2>1, <2>3, <2>5, <2>6, EndedEntries
  <2> QED
    BY <2>2, <2>7 DEF Conversing, Entry
<1> QED
    BY <1>3, <1>4, <1>5, <1>6 DEF Good

\* The object when it left the subscription once more.
LEMMA EndedLeaves ==
    ASSUME NEW t, NEW dq, NEW uq, NEW w, Ended(t, dq, uq, w), uq \in Seq(Requests), t.phase # "subscribe", NEW u, Lateral(t, u),
           NEW ws, ws = Tail(t.waiting), NEW x \in Waiters, Late(x), x.caller # "recovery", u.waiting = Append(ws, x),
           NEW r \in Requests, r \in Ends, NEW d, d = Tail(dq)
    PROVE  Good(u, d, Cat(uq, <<r>>))
<1>1. /\ ~t.bound /\ t.chain = <<>> /\ t.phase \notin Reading
      /\ Recent(t.pending) /\ Recent(d) /\ d \in Seq(Messages)
    BY EndedIs
<1>2. Paired(t, dq, uq) /\ Placed(t) /\ AckSafe(t) /\ Showing(t)
    BY DEF Ended, Good
<1>3. Placed(u)
    BY <1>1, <1>2 DEF Placed, Lateral
<1>4. Streaming(u, d)
    BY <1>1 DEF Streaming, Lateral
<1>5. AckSafe(u) /\ Showing(u)
    BY <1>2 DEF AckSafe, Showing, Lateral
<1>6. Conversing(u, d, Cat(uq, <<r>>))
  <2>1. ws \in Seq(Waiters) /\ Len(ws) \in Nat /\ Len(ws) = Len(Talk(d, uq))
    BY <1>2, Left
  <2>2. PICK n \in Nat : n = Len(ws)
    BY <2>1
  <2>3. Len(u.waiting) = n + 1 /\ u.waiting[n + 1] = x /\ \A k \in 1..n : u.waiting[k] = ws[k]
    BY <2>1, <2>2
  <2>4. \A k \in (n + 1)..(n + 1) : u.waiting[k] = x
    BY <2>3
  <2>5. \A k \in (n + 1)..Len(u.waiting) : Late(u.waiting[k])
    BY <2>3, <2>4
  <2>6. Len(u.waiting) \in Nat /\ (t.phase = "subscribe" => Len(u.waiting) = n)
    BY <2>3
  <2>7. \A k \in 1..n : Entry(u, k, Talk(d, uq)[k], d)
    <3>1. n = Len(Tail(t.waiting)) /\ \A k \in 1..n : u.waiting[k] = Tail(t.waiting)[k]
      BY <2>2, <2>3
    <3> QED
      BY <2>5, <2>6, <3>1, EndedEntries
  <2>8. Entry(u, n + 1, r, d)
    <3>1. PICK k : k = n + 1
      OBVIOUS
    <3>2. u.waiting[k] = x /\ ~Est(x) /\ x.who = "old" /\ ~Acking(u, x)
      BY <2>3, <3>1 DEF Late, Est, Acking
    <3>3. ~Joined(u)
      BY <1>1 DEF Joined, Lateral
    <3>4. Lined(u, k)
      BY <3>2, <3>3 DEF Lined
    <3>5. Waits(u, k)
      BY <3>2 DEF Waits
    <3>6. Matched(u, x, r, d)
      BY <3>2 DEF Matched
    <3> QED
      BY <3>1, <3>2, <3>4, <3>5, <3>6 DEF Entry
  <2>9. Len(ws) = n /\ Entry(u, Len(ws) + 1, r, d) /\ \A k \in 1..Len(ws) : Entry(u, k, Talk(d, uq)[k], d)
    BY <2>2, <2>7, <2>8
  <2> QED
    BY <1>1, <2>1, <2>9, ConversingAsk
<1> QED
    BY <1>3, <1>4, <1>5, <1>6 DEF Good

\* What is known when such an answer arrives.
Departed(t, c, a, d, uq, dq, w) ==
    /\ Ended(t, dq, uq, w) /\ Sound(t) /\ Sound(a) /\ RestsIn(t, a) /\ c # 0 /\ t.conn = c /\ a.out = <<>>
    /\ d = Tail(dq) /\ d \in Seq(Messages) /\ uq \in Seq(Requests) /\ log \in Nat /\ Len(t.view) \in Nat
    /\ Recent(a.pending) /\ Recent(d) /\ w \in Waiters /\ (w.who = "old" => w.caller # "recovery")
    /\ (t.phase = "subscribe" => w.who = "old" /\ w.cursor = None)
    /\ ~t.bound /\ t.chain = <<>> /\ AckSafe(t) /\ Showing(t) /\ t.current \in 0..MaxSubs

LEMMA DepartedIs ==
    ASSUME IInv, Stream, NEW who \in {"old", "stale"}, Answer(who)
    PROVE  \A t, c, dq, uq, a, d, w : t = this /\ c = this.conn /\ dq = down[c] /\ uq = up[c] /\ a = Answered /\ d = Tail(dq)
                                      /\ w = Head(t.waiting) => Departed(t, c, a, d, uq, dq, w)
<1> TAKE t, c, dq, uq, a, d, w
<1> HAVE t = this /\ c = this.conn /\ dq = down[c] /\ uq = up[c] /\ a = Answered /\ d = Tail(dq) /\ w = Head(t.waiting)
<1>1. c \in Conns /\ t.conn = c /\ Paired(t, dq, uq) /\ Good(t, dq, uq) /\ w.who = who
    BY Received
<1>2. Ended(t, dq, uq, w)
    BY <1>1 DEF Ended
<1>3. Rests(t, a) /\ RestsIn(t, a) /\ Sound(a)
    BY AnsweredRests, RestsIs DEF Rests
<1>4. Sound(t) /\ uq \in Seq(Requests) /\ log \in Nat
    BY <1>1, InvFacts, Bounds DEF Paired, Sizes
<1>5. /\ w \in Waiters /\ (w.who = "old" => w.caller # "recovery") /\ ~t.bound /\ t.chain = <<>>
      /\ (t.phase = "subscribe" => w.who = "old" /\ w.cursor = None)
      /\ Recent(t.pending) /\ Recent(d) /\ d \in Seq(Messages)
    BY <1>2, EndedIs
<1>6. a.pending = t.pending /\ a.out = <<>>
    BY <1>3 DEF RestsIn
<1>7. AckSafe(t) /\ Showing(t) /\ c # 0
    BY <1>1 DEF Good, Conns
<1>8. Len(t.view) \in Nat /\ t.current \in 0..MaxSubs
    BY <1>4, ObjectIs
<1>9. Recent(a.pending)
    BY <1>5, <1>6
<1> QED
    BY <1>1, <1>2, <1>3, <1>4, <1>5, <1>6, <1>7, <1>8, <1>9 DEF Departed

\* The answer changes nothing, but for whether the application holds the view.
LEMMA DepartedGone ==
    ASSUME NEW t, NEW c, NEW a, NEW d, NEW uq, NEW dq, NEW w, Departed(t, c, a, d, uq, dq, w), NEW u, Alike(a, u), u.out = <<>>
    PROVE  Good(u, d, Cat(uq, u.out)) /\ u.conn = t.conn /\ Grew(t, u) /\ Proper(u.out)
<1>1. RestsIn(t, a) /\ Ended(t, dq, uq, w) /\ d = Tail(dq) /\ uq \in Seq(Requests) /\ Len(t.view) \in Nat
    BY DEF Departed
<1>2. Lateral(t, a) /\ a.waiting = Tail(t.waiting)
    BY <1>1 DEF RestsIn, Lateral
<1>3. Good(a, d, uq)
    BY <1>1, <1>2, EndedGood
<1>4. Good(u, d, uq)
    BY <1>3, AlikeGood
<1>5. Cat(uq, u.out) = uq
    BY <1>1, CatNone
<1>6. Proper(u.out)
    BY ProperFew
<1>7. u.conn = t.conn /\ u.view = t.view
    BY <1>2 DEF Alike, Lateral
<1>8. Grew(t, u)
    BY <1>1, <1>7 DEF Grew
<1> QED
    BY <1>4, <1>5, <1>6, <1>7, <1>8

LEMMA StaleStream ==
    ASSUME IInv, IInv', Stream, StaleAnswered
    PROVE  Stream' /\ Grew(this, this') /\ log' = log
<1>1. PICK t, c, dq, uq, a, d, w : t = this /\ c = this.conn /\ dq = down[c] /\ uq = up[c] /\ a = Answered /\ d = Tail(dq)
                                   /\ w = Head(t.waiting)
    OBVIOUS
<1>2. Answer("stale") /\ Commit(a)
    BY <1>1 DEF StaleAnswered
<1>3. Departed(t, c, a, d, uq, dq, w)
    BY <1>1, <1>2, DepartedIs
<1>4. Sound(a) /\ a.out = <<>>
    BY <1>3 DEF Departed
<1>5. Alike(a, a)
    BY DEF Alike
<1>6. Good(a, d, Cat(uq, a.out)) /\ a.conn = t.conn /\ Grew(t, a) /\ Proper(a.out)
    BY <1>3, <1>4, <1>5, DepartedGone
<1>7. Good(a, Tail(dq), Cat(uq, a.out)) /\ a.conn = this.conn /\ Grew(this, a) /\ Proper(a.out)
    BY <1>1, <1>6
<1> QED
    BY <1>1, <1>2, <1>4, <1>7, AnswerStream

\* A refused acknowledgement: the subscription is left once more.
LeftAgain(a, w) ==
    [Ask(a, [method |-> "unsubscribe", sub |-> a.current], Waiter("old", None, w.caller)) EXCEPT !.current = 0]

LEMMA LeftAgainGood ==
    ASSUME NEW t, NEW c, NEW a, NEW d, NEW uq, NEW dq, NEW w, Departed(t, c, a, d, uq, dq, w), w.who = "old", t.phase # "subscribe",
           NEW u, u = LeftAgain(a, w)
    PROVE  Good(u, d, Cat(uq, u.out)) /\ u.conn = t.conn /\ Grew(t, u) /\ Proper(u.out) /\ Sound(u)
<1>1. /\ RestsIn(t, a) /\ Ended(t, dq, uq, w) /\ d = Tail(dq) /\ uq \in Seq(Requests) /\ Len(t.view) \in Nat /\ Sound(a)
      /\ w \in Waiters /\ w.caller # "recovery" /\ t.current \in 0..MaxSubs
    BY DEF Departed
<1>2. PICK r, x : r = [method |-> "unsubscribe", sub |-> a.current] /\ x = Waiter("old", None, w.caller)
    OBVIOUS
<1>3. PICK z : z = Ask(a, r, x)
    OBVIOUS
<1>4. a.current \in 0..MaxSubs /\ a.current = t.current
    BY <1>1 DEF RestsIn
<1>5. r \in Requests /\ r \in Ends /\ r.method = "unsubscribe"
    BY <1>2, <1>4 DEF Requests, Ends
<1>6. x \in Waiters /\ Late(x) /\ x.caller # "recovery"
    BY <1>1, <1>2, Nothing DEF Waiters, Waiter, Late, Whos
<1>7. Asked(a, z, r, x)
    BY <1>1, <1>3, <1>5, <1>6, AskFields
<1>8. PICK zero : zero = 0
    OBVIOUS
<1>9. u = [z EXCEPT !.current = zero]
    BY <1>2, <1>3, <1>8 DEF LeftAgain
<1>10. z \in Objects /\ zero \in 0..MaxSubs
    BY <1>7, <1>8, Bounds DEF Asked, Sound
<1>11. [z EXCEPT !.current = zero] \in Objects
    BY <1>10 DEF Objects
<1>12. u \in Objects
    BY <1>9, <1>11
<1>13. /\ u.conn = z.conn /\ u.bound = z.bound /\ u.view = z.view /\ u.ack = z.ack /\ u.phase = z.phase
       /\ u.caller = z.caller /\ u.force = z.force /\ u.cursor = z.cursor /\ u.pending = z.pending
    BY <1>9, <1>10 DEF Objects
<1>14. /\ u.seq = z.seq /\ u.chain = z.chain /\ u.missed = z.missed /\ u.waiting = z.waiting /\ u.out = z.out /\ u.page = z.page
    BY <1>9, <1>10 DEF Objects
<1>15. Sound(u)
    BY <1>7, <1>12, <1>13, <1>14 DEF Sound, Asked
<1>16. Lateral(a, u)
    BY <1>7, <1>13, <1>14 DEF Asked, Carries, Lateral
<1>17. Lateral(t, u)
    BY <1>1, <1>16 DEF RestsIn, Lateral
<1>18. PICK ws : ws = Tail(t.waiting)
    OBVIOUS
<1>19. u.waiting = Append(ws, x) /\ u.out = <<r>>
  <2>1. a.waiting = ws /\ a.out = <<>>
    BY <1>1, <1>18 DEF RestsIn
  <2>2. z.waiting = Append(a.waiting, x) /\ z.out = Append(a.out, r)
    BY <1>7 DEF Asked
  <2>3. Append(<<>>, r) = <<r>>
    OBVIOUS
  <2> QED
    BY <1>14, <2>1, <2>2, <2>3
<1>20. Good(u, d, Cat(uq, <<r>>))
    BY <1>1, <1>5, <1>6, <1>17, <1>18, <1>19, EndedLeaves
<1>21. Good(u, d, Cat(uq, u.out))
    BY <1>19, <1>20
<1>22. Proper(u.out)
    BY <1>5, <1>19, ProperFew
<1>23. u.conn = t.conn /\ u.view = t.view
    BY <1>17 DEF Lateral
<1> QED
    BY <1>1, <1>15, <1>21, <1>22, <1>23 DEF Grew

\* A caller that is rejected: the connection is about to be closed.
LEMMA DepartedRejected ==
    ASSUME NEW t, NEW c, NEW a, NEW d, NEW uq, NEW dq, NEW w, Departed(t, c, a, d, uq, dq, w), w.who = "old", w.caller # "start",
           NEW u, u = Rejected(a, w.caller)
    PROVE  Good(u, d, Cat(uq, u.out)) /\ u.conn = t.conn /\ Grew(t, u) /\ Proper(u.out) /\ Sound(u)
<1>1. /\ RestsIn(t, a) /\ uq \in Seq(Requests) /\ Len(t.view) \in Nat /\ Sound(a) /\ c # 0 /\ t.conn = c
      /\ w \in Waiters /\ w.caller # "recovery" /\ Recent(a.pending) /\ Recent(d) /\ AckSafe(t) /\ Showing(t)
      /\ a.out = <<>> /\ t.chain = <<>>
    BY DEF Departed
<1>2. a.chain = <<>> /\ a.view = t.view /\ a.ack = t.ack /\ a.conn = t.conn /\ a \in Objects
    BY <1>1 DEF RestsIn
<1>3. PICK no, failed : no = FALSE /\ failed = "failed"
    OBVIOUS
<1>4. u = [a EXCEPT !.phase = failed, !.bound = no]
    BY <1>1, <1>3 DEF Rejected
<1>5. Reject(a, u)
    BY <1>1, <1>2, RejectedFields
<1>6. u.phase = "failed" /\ u.view = a.view /\ u.ack = a.ack
    BY <1>2, <1>3, <1>4 DEF Objects
<1>7. Sound(u) /\ u.out = <<>> /\ u.conn = a.conn /\ ~u.bound /\ u.chain = <<>> /\ Recent(u.pending)
    BY <1>5 DEF Reject
<1>8. Placed(u)
    BY <1>1, <1>2, <1>6, <1>7 DEF Placed, Reading
<1>9. Streaming(u, d)
    BY <1>1, <1>6, <1>7 DEF Streaming, Reading
<1>10. AckSafe(u) /\ Showing(u)
    BY <1>1, <1>2, <1>6 DEF AckSafe, Showing
<1>11. Conversing(u, d, uq)
    BY <1>6, ConversingNone
<1>12. Good(u, d, uq)
    BY <1>8, <1>9, <1>10, <1>11 DEF Good
<1>13. Cat(uq, u.out) = uq
    BY <1>1, <1>7, CatNone
<1>14. Proper(u.out)
    BY <1>7, ProperFew
<1>15. u.conn = t.conn /\ u.view = t.view
    BY <1>2, <1>6, <1>7
<1> QED
    BY <1>1, <1>7, <1>12, <1>13, <1>14, <1>15 DEF Grew

LEMMA SupersededStream ==
    ASSUME IInv, IInv', Stream, SupersededAnswered
    PROVE  Stream' /\ Grew(this, this') /\ log' = log
<1>1. PICK t, c, dq, uq, a, d, w : t = this /\ c = this.conn /\ dq = down[c] /\ uq = up[c] /\ a = Answered /\ d = Tail(dq)
                                   /\ w = Head(t.waiting)
    OBVIOUS
<1>2. Answer("old")
    BY DEF SupersededAnswered
<1>3. Departed(t, c, a, d, uq, dq, w) /\ w.who = "old"
  <2>1. Departed(t, c, a, d, uq, dq, w)
    BY <1>1, <1>2, DepartedIs
  <2> QED
    BY <1>1, <1>2, <2>1 DEF Answer
<1>4. Sound(a) /\ a.out = <<>> /\ a \in Objects /\ a.current = t.current
    BY <1>3 DEF Departed, RestsIn
<1>5. \/ Commit(a)
      \/ w.cursor # None /\ Commit(LeftAgain(a, w))
      \/ w.caller = "start" /\ Commit([a EXCEPT !.started = FALSE])
      \/ w.caller # "start" /\ Commit(Rejected(a, w.caller))
  <2>1. this.current = a.current
    BY <1>1, <1>4
  <2> QED
    BY <1>1, <2>1 DEF SupersededAnswered, LeftAgain
<1>6. ASSUME NEW u, Good(u, d, Cat(uq, u.out)) /\ u.conn = t.conn /\ Grew(t, u) /\ Proper(u.out), Commit(u), Sound(u)
      PROVE  Stream' /\ Grew(this, this') /\ log' = log
  <2>1. Good(u, Tail(dq), Cat(uq, u.out)) /\ u.conn = this.conn /\ Grew(this, u) /\ Proper(u.out)
    BY <1>1, <1>6
  <2> QED
    BY <1>1, <1>2, <1>6, <2>1, AnswerStream
<1>7. CASE Commit(a)
  <2>1. Alike(a, a)
    BY DEF Alike
  <2>2. Good(a, d, Cat(uq, a.out)) /\ a.conn = t.conn /\ Grew(t, a) /\ Proper(a.out)
    BY <1>3, <1>4, <2>1, DepartedGone
  <2> QED
    BY <1>4, <1>6, <1>7, <2>2
<1>8. CASE w.cursor # None /\ Commit(LeftAgain(a, w))
  <2>1. PICK u : u = LeftAgain(a, w)
    OBVIOUS
  <2>2. t.phase # "subscribe"
    BY <1>3, <1>8 DEF Departed
  <2>3. Good(u, d, Cat(uq, u.out)) /\ u.conn = t.conn /\ Grew(t, u) /\ Proper(u.out) /\ Sound(u)
    BY <1>3, <2>1, <2>2, LeftAgainGood
  <2> QED
    BY <1>6, <1>8, <2>1, <2>3
<1>9. CASE Commit([a EXCEPT !.started = FALSE])
  <2>1. PICK no : no = FALSE
    OBVIOUS
  <2>2. PICK u : u = [a EXCEPT !.started = no]
    OBVIOUS
  <2>3. no \in BOOLEAN
    BY <2>1, Zenon
  <2>4. u \in Objects
    BY <1>4, <2>2, <2>3 DEF Objects
  <2>5. Alike(a, u) /\ u.out = <<>>
    <3>1. /\ u.conn = a.conn /\ u.bound = a.bound /\ u.view = a.view /\ u.current = a.current /\ u.ack = a.ack
          /\ u.phase = a.phase /\ u.caller = a.caller /\ u.force = a.force /\ u.cursor = a.cursor
      BY <1>4, <2>2 DEF Objects
    <3>2. /\ u.page = a.page /\ u.pending = a.pending /\ u.seq = a.seq /\ u.chain = a.chain
          /\ u.waiting = a.waiting /\ u.missed = a.missed /\ u.out = a.out
      BY <1>4, <2>2 DEF Objects
    <3> QED
      BY <1>4, <3>1, <3>2 DEF Alike
  <2>6. Sound(u)
    BY <1>4, <2>4, <2>5 DEF Sound, Alike
  <2>7. Good(u, d, Cat(uq, u.out)) /\ u.conn = t.conn /\ Grew(t, u) /\ Proper(u.out)
    BY <1>3, <2>5, DepartedGone
  <2>8. Commit(u)
    BY <1>9, <2>1, <2>2
  <2> QED
    BY <1>6, <2>6, <2>7, <2>8
<1>10. CASE w.caller # "start" /\ Commit(Rejected(a, w.caller))
  <2>1. PICK u : u = Rejected(a, w.caller)
    OBVIOUS
  <2>2. Good(u, d, Cat(uq, u.out)) /\ u.conn = t.conn /\ Grew(t, u) /\ Proper(u.out) /\ Sound(u)
    BY <1>3, <1>10, <2>1, DepartedRejected
  <2> QED
    BY <1>6, <1>10, <2>1, <2>2
<1> QED
    BY <1>5, <1>7, <1>8, <1>9, <1>10

-----------------------------------------------------------------------------
(* The application takes the view and closes it.                           *)

\* An object that may establish a subscription, with nobody waiting.
Unused(t, c, dq, uq) ==
    /\ Sound(t) /\ t.out = <<>> /\ t.conn = c /\ c # 0 /\ AckSafe(t) /\ Showing(t) /\ log \in Nat
    /\ dq \in Seq(Messages) /\ uq \in Seq(Requests) /\ Recent(dq) /\ t.waiting = <<>> /\ Len(Talk(dq, uq)) = 0

LEMMA UnusedEstablish ==
    ASSUME NEW t, NEW c, NEW dq, NEW uq, Unused(t, c, dq, uq), NEW k, k \in Callers, NEW force \in BOOLEAN, ~force,
           NEW u, u = Establish(t, k, force)
    PROVE  Good(u, dq, Cat(uq, u.out)) /\ Sound(u) /\ u.conn = c /\ Grew(t, u) /\ Proper(u.out)
<1>1. /\ Sound(t) /\ t.out = <<>> /\ t.conn # 0 /\ AckSafe(t) /\ Showing(t) /\ log \in Nat
      /\ dq \in Seq(Messages) /\ uq \in Seq(Requests) /\ Recent(dq) /\ t.waiting = <<>> /\ Len(Talk(dq, uq)) = 0
      /\ t.conn = c
    BY DEF Unused
<1>2. PICK n : n = Len(t.waiting)
    OBVIOUS
<1>3. n = 0
    BY <1>1, <1>2
<1>4. \A k1 \in 1..n : FALSE
    BY <1>3
<1>5. Bygone(t.waiting, Talk(dq, uq)) /\ Len(t.waiting) = Len(Talk(dq, uq))
    BY <1>1, <1>2, <1>3, <1>4 DEF Bygone
<1>6. force => t.ack = None \/ Unknown(t.ack)
    OBVIOUS
<1> QED
    BY <1>1, <1>5, <1>6, EstablishGood

\* The object before anything was done with it, on connection c.
NewView(c, s) == [Blank EXCEPT !.conn = c, !.started = s]

LEMMA NewViewIs ==
    ASSUME NEW c \in Conns, NEW s \in BOOLEAN, NEW t, t = NewView(c, s)
    PROVE  /\ Sound(t) /\ t.conn = c /\ t.out = <<>> /\ t.waiting = <<>> /\ t.view = <<>> /\ t.ack = None /\ t.phase = "idle"
           /\ ~t.bound /\ t.chain = <<>> /\ t.pending = <<>>
<1>1. Blank \in Objects /\ c \in 0..MaxConns
    BY BlankIs, Bounds DEF Sound, Conns
<1>2. [Blank EXCEPT !.conn = c, !.started = s] \in Objects
    BY <1>1 DEF Objects
<1>3. t = [Blank EXCEPT !.conn = c, !.started = s]
    BY DEF NewView
<1>4. /\ t.conn = c /\ t.out = <<>> /\ t.waiting = <<>> /\ t.view = <<>> /\ t.ack = None /\ t.phase = "idle"
      /\ t.bound = FALSE /\ t.chain = <<>> /\ t.pending = <<>>
    BY <1>3 DEF Blank
<1> QED
    BY <1>2, <1>3, <1>4 DEF Sound

\* A view that shows nothing and resumes from nothing.
LEMMA EmptySafe ==
    ASSUME NEW t, t.view = <<>>, t.ack = None, t.phase = "idle", log \in Nat
    PROVE  AckSafe(t) /\ Showing(t)
<1>1. AckSafe(t)
    BY DEF AckSafe
<1> QED
    BY <1>1, ShowsNothing

LEMMA StartStream ==
    ASSUME IInv, IInv', Stream, Start
    PROVE  Stream' /\ Grew(this, this') /\ log' = log
<1>1. PICK c, dq, uq : c = this.conn /\ dq = down[c] /\ uq = up[c]
    OBVIOUS
<1>2. c # 0 /\ this.waiting = <<>> /\ DaemonSame /\ sock' = sock /\ down' = down
    BY <1>1 DEF Start
<1>3. /\ c \in Conns /\ dq \in Seq(Messages) /\ uq \in Seq(Requests) /\ Good(this, dq, uq)
      /\ Len(this.waiting) = Len(Talk(dq, uq)) /\ log \in Nat
    BY <1>1, <1>2, InUseHere
<1>4. PICK yes, no, k : yes = TRUE /\ no = FALSE /\ k = "start"
    OBVIOUS
<1>5. yes \in BOOLEAN /\ no \in BOOLEAN /\ ~no
    BY <1>4, Zenon
<1>6. k \in Callers
    BY <1>4 DEF Callers
<1>7. PICK t : t = NewView(c, yes)
    OBVIOUS
<1>8. PICK u : u = Establish(t, k, no)
    OBVIOUS
<1>9. Commit(u)
    BY <1>1, <1>4, <1>7, <1>8 DEF Start, NewView
<1>10. /\ Sound(t) /\ t.conn = c /\ t.out = <<>> /\ t.waiting = <<>> /\ t.view = <<>> /\ t.ack = None /\ t.phase = "idle"
    BY <1>3, <1>5, <1>7, NewViewIs
<1>11. AckSafe(t) /\ Showing(t)
    BY <1>3, <1>10, EmptySafe
<1>12. Recent(dq)
    BY <1>3 DEF Good, Streaming
<1>13. Len(Talk(dq, uq)) = 0
    BY <1>2, <1>3
<1>14. Unused(t, c, dq, uq)
    BY <1>2, <1>3, <1>10, <1>11, <1>12, <1>13 DEF Unused
<1>15. Good(u, dq, Cat(uq, u.out)) /\ Sound(u) /\ u.conn = c /\ Grew(t, u) /\ Proper(u.out)
    BY <1>5, <1>6, <1>8, <1>14, UnusedEstablish
<1>16. u.view = <<>>
  <2>1. PICK ws, w : ws = Superseded(t).waiting /\ w = Waiter("est", None, k)
    OBVIOUS
  <2>2. PICK q, r : Begins(t, u, q, ws, w, r)
    BY <1>5, <1>6, <1>8, <1>10, <2>1, EstablishFields
  <2> QED
    BY <1>10, <2>2 DEF Begins
<1>17. Grew(this, u)
    BY <1>16 DEF Grew
<1> QED
    BY <1>1, <1>2, <1>9, <1>15, <1>17, OwnStream

\* The object after subscription.close().
Shut(z) == [z EXCEPT !.started = FALSE, !.hook = FALSE, !.bound = FALSE, !.view = <<>>, !.ack = None]

LEMMA ShutFields ==
    ASSUME NEW z, Sound(z), NEW u, u = Shut(z)
    PROVE  /\ Sound(u) /\ ~u.bound /\ u.view = <<>> /\ u.ack = None /\ u.conn = z.conn /\ u.phase = z.phase
           /\ u.pending = z.pending /\ u.chain = z.chain /\ u.waiting = z.waiting /\ u.out = z.out /\ u.seq = z.seq
<1>1. z \in Objects
    BY DEF Sound
<1>2. PICK no, e, n : no = FALSE /\ e = <<>> /\ n = None
    OBVIOUS
<1>3. no \in BOOLEAN
    BY <1>2, Zenon
<1>4. e \in Seq(Nat) /\ n \in CursorIds
    BY <1>2, Nothing
<1>5. PICK y : y = [z EXCEPT !.started = no, !.hook = no, !.bound = no]
    OBVIOUS
<1>6. [z EXCEPT !.started = no, !.hook = no, !.bound = no] \in Objects
    BY <1>1, <1>3 DEF Objects
<1>7. y \in Objects
    BY <1>5, <1>6
<1>8. [y EXCEPT !.view = e, !.ack = n] \in Objects
    BY <1>4, <1>7 DEF Objects
<1>9. u = [y EXCEPT !.view = e, !.ack = n]
    BY <1>1, <1>2, <1>5 DEF Shut, Objects
<1>10. u \in Objects
    BY <1>8, <1>9
<1>11. /\ u.conn = y.conn /\ u.phase = y.phase /\ u.pending = y.pending /\ u.chain = y.chain /\ u.waiting = y.waiting
       /\ u.out = y.out /\ u.seq = y.seq /\ u.page = y.page /\ u.bound = y.bound /\ u.view = e /\ u.ack = n
    BY <1>7, <1>9 DEF Objects
<1>12. /\ y.conn = z.conn /\ y.phase = z.phase /\ y.pending = z.pending /\ y.chain = z.chain /\ y.waiting = z.waiting
       /\ y.out = z.out /\ y.seq = z.seq /\ y.page = z.page /\ y.bound = no
    BY <1>1, <1>5 DEF Objects
<1> QED
    BY <1>2, <1>10, <1>11, <1>12 DEF Sound

LEMMA CloseStream ==
    ASSUME IInv, IInv', Stream, CloseView
    PROVE  Stream' /\ Grew(this, this') /\ log' = log
<1>1. PICK t, c, dq, uq : t = this /\ c = this.conn /\ dq = down[c] /\ uq = up[c]
    OBVIOUS
<1>2. /\ c # 0 /\ t.waiting = <<>> /\ t.phase = "idle" /\ DaemonSame /\ sock' = sock /\ down' = down
      /\ Commit(Shut(AskUnsubscribe(t, "stale")))
    BY <1>1 DEF CloseView, Shut
<1>3. /\ Sound(t) /\ c \in Conns /\ t.conn = c /\ t.out = <<>> /\ dq \in Seq(Messages) /\ uq \in Seq(Requests)
      /\ Good(t, dq, uq) /\ Len(t.waiting) = Len(Talk(dq, uq)) /\ log \in Nat
    BY <1>1, <1>2, InUseHere
<1>4. PICK z, r, w : z = AskUnsubscribe(t, "stale") /\ r = [method |-> "unsubscribe", sub |-> t.current]
                     /\ w = Waiter("stale", None, t.caller)
    OBVIOUS
<1>5. PICK u : u = Shut(z)
    OBVIOUS
<1>6. Asked(t, z, r, w) /\ w.who = "stale" /\ w.cursor = None /\ r \in Ends /\ r.method = "unsubscribe"
  <2>1. PICK s : s = "stale"
    OBVIOUS
  <2>2. s \in Whos
    BY <2>1 DEF Whos
  <2> QED
    BY <1>3, <1>4, <2>1, <2>2, AskUnsubscribeFields
<1>7. /\ Sound(z) /\ z.conn = c /\ z.phase = "idle" /\ z.pending = t.pending /\ z.chain = t.chain
      /\ z.waiting = <<w>> /\ z.out = <<r>> /\ r \in Requests /\ w \in Waiters
  <2>1. /\ Sound(z) /\ z.conn = t.conn /\ z.phase = t.phase /\ z.pending = t.pending /\ z.chain = t.chain
        /\ z.waiting = Append(t.waiting, w) /\ z.out = Append(t.out, r) /\ r \in Requests /\ w \in Waiters
    BY <1>6 DEF Asked, Carries
  <2>2. Append(<<>>, w) = <<w>> /\ Append(<<>>, r) = <<r>>
    OBVIOUS
  <2> QED
    BY <1>2, <1>3, <2>1, <2>2
<1>8. /\ Sound(u) /\ ~u.bound /\ u.view = <<>> /\ u.ack = None /\ u.conn = c /\ u.phase = "idle"
      /\ u.pending = t.pending /\ u.chain = t.chain /\ u.waiting = <<w>> /\ u.out = <<r>>
    BY <1>5, <1>7, ShutFields
<1>9. t.chain = <<>>
  <2>1. PICK n : n = Len(t.waiting)
    OBVIOUS
  <2>2. n = 0
    BY <1>2, <2>1
  <2>3. \A k \in 1..n : FALSE
    BY <2>2
  <2>4. ~ChainBusy(t)
    BY <2>1, <2>3 DEF ChainBusy
  <2> QED
    BY <1>3, <2>4 DEF Good, Placed
<1>10. Placed(u)
    BY <1>2, <1>8, <1>9 DEF Placed, Reading
<1>11. Streaming(u, dq)
  <2>1. Recent(t.pending) /\ Recent(dq)
    BY <1>3 DEF Good, Streaming
  <2> QED
    BY <1>8, <2>1 DEF Streaming, Reading
<1>12. AckSafe(u) /\ Showing(u)
    BY <1>3, <1>8, EmptySafe
<1>13. Conversing(u, dq, Cat(uq, <<r>>))
  <2>1. Len(Talk(dq, uq)) = 0
    BY <1>2, <1>3
  <2>2. u.waiting[1] = w /\ Len(u.waiting) = 1
    BY <1>8
  <2>3. ~Est(w) /\ w.who = "stale" /\ ~Acking(u, w) /\ ~Joined(u)
    BY <1>6, <1>8 DEF Est, Acking, Joined, Reading
  <2>4. Lined(u, 1)
    BY <1>8, <2>2, <2>3 DEF Lined
  <2>5. Waits(u, 1)
    BY <2>2, <2>3 DEF Waits
  <2>6. Matched(u, w, r, dq)
    BY <1>6, <2>3 DEF Matched
  <2>7. Entry(u, 1, r, dq)
    BY <2>2, <2>4, <2>5, <2>6 DEF Entry
  <2> QED
    BY <1>3, <1>7, <1>8, <2>1, <2>7, ConversingFirst
<1>14. Good(u, dq, Cat(uq, u.out))
    BY <1>8, <1>10, <1>11, <1>12, <1>13 DEF Good
<1>15. Proper(u.out)
    BY <1>6, <1>8, ProperFew
<1>16. Grew(this, u)
    BY <1>8 DEF Grew
<1>17. Commit(u)
    BY <1>2, <1>4, <1>5
<1> QED
    BY <1>1, <1>2, <1>8, <1>14, <1>15, <1>16, <1>17, OwnStream

-----------------------------------------------------------------------------
(* A connection is opened.                                                 *)

\* What is known of the view and of the new connection.
Unconnected(t, c) ==
    /\ c \in Conns /\ c # 0 /\ Sound(t) /\ t.out = <<>> /\ t.conn = 0 /\ t.waiting = <<>> /\ t.phase = "idle" /\ ~t.bound /\ t.chain = <<>>
    /\ Recent(t.pending) /\ AckSafe(t) /\ Showing(t) /\ log \in Nat /\ Len(t.view) \in Nat /\ t.page \in Pages \cup {None}

LEMMA Opening ==
    ASSUME IInv, Stream, NEW c \in Conns, Open(c)
    PROVE  /\ DaemonSame /\ down' = down /\ Fresh(c) /\ Roster' /\ down[c] = <<>> /\ up[c] = <<>> /\ Unconnected(this, c)
<1>1. DaemonSame /\ down' = down /\ this.conn = 0 /\ sock[c] = "new" /\ sock' = [sock EXCEPT ![c] = "open"]
    BY DEF Open, NextConn
<1>2. c # 0
    BY DEF Conns
<1>3. \A j \in 1..Len(subs) : subs[j].conn # c
  <2>1. \A j \in 1..Len(subs) : subs[j].conn # 0 => sock[subs[j].conn] \in {"open", "closing"}
    BY DEF Stream, Roster
  <2> QED
    BY <1>1, <1>2, <2>1
<1>4. Fresh(c)
    BY <1>3 DEF Fresh
<1>5. sock \in [Conns -> {"new", "open", "closing", "closed"}] /\ Sound(this) /\ this.out = <<>> /\ Sizes /\ SubsInv /\ this \in Objects
    BY InvFacts
<1>6. Roster'
  <2>1. subs' = subs
    BY <1>1, KeptAll
  <2>2. ASSUME NEW j \in 1..Len(subs)
        PROVE  Enlisted(subs[j], j) /\ (subs[j].conn # 0 => sock'[subs[j].conn] \in {"open", "closing"})
    <3>1. Enlisted(subs[j], j) /\ (subs[j].conn # 0 => sock[subs[j].conn] \in {"open", "closing"})
      BY DEF Stream, Roster
    <3>2. PICK d : d = subs[j].conn
      OBVIOUS
    <3>3. subs[j] \in Fit(log)
      BY <1>5, SubIs DEF Stream
    <3>4. d \in 0..MaxConns
      BY <3>2, <3>3 DEF Fit, SubRecords
    <3>5. d # 0 => d \in Conns /\ d # c
      BY <1>3, <3>2, <3>4, Bounds DEF Conns
    <3>6. d # 0 => sock'[d] = sock[d]
      BY <1>1, <1>5, <3>5
    <3> QED
      BY <3>1, <3>2, <3>6
  <2> QED
    BY <2>1, <2>2 DEF Roster, Enlisted
<1>7. down[c] = <<>> /\ up[c] = <<>> /\ this.waiting = <<>>
    BY <1>1 DEF IInv, Balanced
<1>8. Good(this, <<>>, <<>>)
    BY <1>1 DEF Stream, Coming, Going
<1>9. Placed(this) /\ Streaming(this, <<>>) /\ AckSafe(this) /\ Showing(this)
    BY <1>8 DEF Good
<1>10. ~this.bound /\ this.phase = "idle"
    BY <1>1, <1>9 DEF Placed
<1>11. this.chain = <<>>
    BY <1>9, <1>10 DEF Placed
<1>12. Recent(this.pending)
    BY <1>9 DEF Streaming
<1>13. log \in Nat /\ Len(this.view) \in Nat
    BY <1>5, ObjectIs, Bounds DEF Sizes
<1>14. this.page \in Pages \cup {None}
    BY <1>5 DEF Objects
<1>15. Unconnected(this, c)
    BY <1>1, <1>2, <1>5, <1>7, <1>9, <1>10, <1>11, <1>12, <1>13, <1>14 DEF Unconnected
<1> QED
    BY <1>1, <1>4, <1>6, <1>7, <1>15

\* The object on its new connection.
Onto(t, c) == [t EXCEPT !.conn = c]

OnLine(t, c, u) ==
    /\ Sound(u) /\ u.conn = c /\ u.out = <<>> /\ u.waiting = <<>> /\ u.phase = "idle" /\ ~u.bound /\ u.chain = <<>>
    /\ u.pending = t.pending /\ u.view = t.view /\ u.ack = t.ack /\ u.current = t.current /\ u.caller = t.caller
    /\ u.force = t.force /\ u.cursor = t.cursor /\ u.page = t.page /\ u.seq = t.seq /\ u.missed = t.missed
    /\ AckSafe(u) /\ Showing(u)

LEMMA ConnectedFields ==
    ASSUME NEW t, NEW c, Unconnected(t, c), NEW u, u = Onto(t, c)
    PROVE  OnLine(t, c, u)
<1>0. u = [t EXCEPT !.conn = c]
    BY DEF Onto
<1>1. t \in Objects /\ c \in 0..MaxConns
    BY Bounds DEF Unconnected, Sound, Conns
<1>2. [t EXCEPT !.conn = c] \in Objects
    BY <1>1 DEF Objects
<1>3. u \in Objects
    BY <1>0, <1>2
<1>4. /\ u.conn = c /\ u.out = t.out /\ u.waiting = t.waiting /\ u.phase = t.phase /\ u.bound = t.bound /\ u.chain = t.chain
      /\ u.pending = t.pending /\ u.view = t.view /\ u.ack = t.ack
    BY <1>0, <1>1 DEF Objects
<1>5. /\ u.current = t.current /\ u.caller = t.caller
      /\ u.force = t.force /\ u.cursor = t.cursor /\ u.page = t.page /\ u.seq = t.seq /\ u.missed = t.missed
    BY <1>0, <1>1 DEF Objects
<1>6. t.out = <<>> /\ t.waiting = <<>> /\ t.phase = "idle" /\ ~t.bound /\ t.chain = <<>> /\ AckSafe(t) /\ Showing(t)
    BY DEF Unconnected
<1>7. Sound(u)
    BY <1>3, <1>4, <1>6 DEF Sound
<1>8. AckSafe(u) /\ Showing(u)
    BY <1>4, <1>5, <1>6 DEF AckSafe, Showing
<1> QED
    BY <1>4, <1>5, <1>6, <1>7, <1>8 DEF OnLine

\* An object that waits for nothing on a connection without messages.
LEMMA RestingGood ==
    ASSUME NEW u, u.conn # 0, u.waiting = <<>>, u.phase = "idle", ~u.bound, u.chain = <<>>, Recent(u.pending), AckSafe(u), Showing(u),
           NEW uq
    PROVE  Good(u, <<>>, uq)
<1>1. Placed(u)
    BY DEF Placed, Reading
<1>2. Conversing(u, <<>>, uq)
    BY ConversingNone
<1>3. Recent(<<>>)
    BY DEF Recent
<1>4. Streaming(u, <<>>)
    BY <1>3 DEF Streaming, Reading
<1> QED
    BY <1>1, <1>2, <1>4 DEF Good

\* The step, once it is known what is done with the object.
LEMMA OpenStream ==
    ASSUME IInv, IInv', Stream, NEW c \in Conns, Open(c), NEW u, Commit(u), Sound(u), u.conn = c, Grew(this, u), Proper(u.out),
           NEW none, none = <<>>, Good(u, none, Cat(none, u.out))
    PROVE  Stream' /\ Grew(this, this') /\ log' = log
<1>1. DaemonSame /\ down' = down /\ Fresh(c) /\ Roster' /\ down[c] = none /\ up[c] = none
    BY Opening
<1>2. PICK dq, uq : dq = down'[c] /\ uq = Cat(up[c], u.out)
    OBVIOUS
<1>3. Good(u, dq, uq)
    BY <1>1, <1>2
<1> QED
    BY <1>1, <1>2, <1>3, ClientStream

LEMMA NobodyTalks ==
    ASSUME NEW none, none = <<>>
    PROVE  none \in Seq(Messages) /\ none \in Seq(Requests) /\ Recent(none) /\ Len(Talk(none, none)) = 0
<1>1. none \in Seq(Messages) /\ none \in Seq(Requests) /\ Recent(none)
    BY DEF Recent
<1>2. Only(none, Replies) = <<>>
    BY OnlyNone
<1> QED
    BY <1>1, <1>2 DEF Talk

\* establish() on the new connection.
LEMMA OpenEstablish ==
    ASSUME IInv, IInv', Stream, NEW c \in Conns, Open(c), NEW k, k \in Callers, NEW t, t = Onto(this, c),
           Commit(Establish(t, k, FALSE))
    PROVE  Stream' /\ Grew(this, this') /\ log' = log
<1>1. Unconnected(this, c)
    BY Opening
<1>2. PICK none, no : none = <<>> /\ no = FALSE
    OBVIOUS
<1>3. no \in BOOLEAN /\ ~no
    BY <1>2, Zenon
<1>4. PICK u : u = Establish(t, k, no)
    OBVIOUS
<1>5. Commit(u)
    BY <1>2, <1>4
<1>6. Sound(t) /\ t.conn = c /\ t.out = <<>> /\ t.waiting = <<>> /\ AckSafe(t) /\ Showing(t) /\ t.view = this.view
    BY <1>1, ConnectedFields DEF OnLine
<1>7. c # 0 /\ log \in Nat
    BY <1>1 DEF Unconnected
<1>8. Unused(t, c, none, none)
    BY <1>2, <1>6, <1>7, NobodyTalks DEF Unused
<1>9. Good(u, none, Cat(none, u.out)) /\ Sound(u) /\ u.conn = c /\ Grew(t, u) /\ Proper(u.out)
    BY <1>3, <1>4, <1>8, UnusedEstablish
<1>10. Grew(this, u)
    BY <1>6, <1>9 DEF Grew
<1> QED
    BY <1>2, <1>5, <1>9, <1>10, OpenStream

\* A connection without a view to restore.
LEMMA OpenResting ==
    ASSUME IInv, IInv', Stream, NEW c \in Conns, Open(c), NEW u, Commit(u), Sound(u), u.conn = c, u.out = <<>>, Grew(this, u),
           u.waiting = <<>>, u.phase = "idle", ~u.bound, u.chain = <<>>, Recent(u.pending), AckSafe(u), Showing(u)
    PROVE  Stream' /\ Grew(this, this') /\ log' = log
<1>1. PICK none : none = <<>>
    OBVIOUS
<1>2. c # 0
    BY DEF Conns
<1>3. Good(u, none, none)
    BY <1>1, <1>2, RestingGood
<1>4. none \in Seq(Requests)
    BY <1>1
<1>5. Cat(none, u.out) = none
    BY <1>1, <1>4, CatNone
<1>6. Proper(u.out)
    BY ProperFew
<1>7. Good(u, none, Cat(none, u.out))
    BY <1>3, <1>5
<1> QED
    BY <1>1, <1>6, <1>7, OpenStream

LEMMA ConnectStream ==
    ASSUME IInv, IInv', Stream, NEW c \in Conns, Connect(c)
    PROVE  Stream' /\ Grew(this, this') /\ log' = log
<1>1. Open(c) /\ Commit([Blank EXCEPT !.conn = c])
    BY DEF Connect
<1>2. PICK no : no = FALSE
    OBVIOUS
<1>3. no \in BOOLEAN
    BY <1>2, Zenon
<1>4. PICK u : u = NewView(c, no)
    OBVIOUS
<1>5. u = [Blank EXCEPT !.conn = c]
  <2>1. PICK b : b = Blank
    OBVIOUS
  <2>2. b \in Objects /\ b.started = no
    BY <1>2, <2>1, BlankIs DEF Sound, Blank
  <2>3. [b EXCEPT !.conn = c, !.started = no] = [b EXCEPT !.conn = c]
    BY <2>2 DEF Objects
  <2> QED
    BY <1>4, <2>1, <2>3 DEF NewView
<1>6. Commit(u)
    BY <1>1, <1>5
<1>7. /\ Sound(u) /\ u.conn = c /\ u.out = <<>> /\ u.waiting = <<>> /\ u.view = <<>> /\ u.ack = None /\ u.phase = "idle"
      /\ ~u.bound /\ u.chain = <<>> /\ u.pending = <<>>
    BY <1>3, <1>4, NewViewIs
<1>8. log \in Nat
    BY <1>1, Opening DEF Unconnected
<1>9. AckSafe(u) /\ Showing(u)
    BY <1>7, <1>8, EmptySafe
<1>10. Recent(u.pending) /\ Grew(this, u)
    BY <1>7 DEF Recent, Grew
<1> QED
    BY <1>1, <1>6, <1>7, <1>9, <1>10, OpenResting

LEMMA ReconnectStream ==
    ASSUME IInv, IInv', Stream, NEW c \in Conns, ReconnectClient(c)
    PROVE  Stream' /\ Grew(this, this') /\ log' = log
<1>1. PICK t, k : t = Onto(this, c) /\ k = "reconnect"
    OBVIOUS
<1>2. Open(c) /\ (Commit(Establish(t, k, FALSE)) \/ Commit([t EXCEPT !.tried = FALSE]))
    BY <1>1 DEF ReconnectClient, Onto
<1>3. CASE Commit(Establish(t, k, FALSE))
  <2>1. k \in Callers
    BY <1>1 DEF Callers
  <2> QED
    BY <1>1, <1>2, <1>3, <2>1, OpenEstablish
<1>4. CASE Commit([t EXCEPT !.tried = FALSE])
  <2>1. PICK no : no = FALSE
    OBVIOUS
  <2>2. no \in BOOLEAN
    BY <2>1, Zenon
  <2>3. PICK u : u = [t EXCEPT !.tried = no]
    OBVIOUS
  <2>4. Commit(u)
    BY <1>4, <2>1, <2>3
  <2>5. Unconnected(this, c)
    BY <1>2, Opening
  <2>6. /\ Sound(t) /\ t.conn = c /\ t.out = <<>> /\ t.waiting = <<>> /\ t.phase = "idle" /\ ~t.bound /\ t.chain = <<>>
        /\ t.pending = this.pending /\ t.view = this.view /\ AckSafe(t) /\ Showing(t)
    BY <1>1, <2>5, ConnectedFields DEF OnLine
  <2>7. t \in Objects
    BY <2>6 DEF Sound
  <2>8. [t EXCEPT !.tried = no] \in Objects
    BY <2>2, <2>7 DEF Objects
  <2>9. u \in Objects
    BY <2>3, <2>8
  <2>10. /\ u.conn = t.conn /\ u.out = t.out /\ u.waiting = t.waiting /\ u.phase = t.phase /\ u.bound = t.bound /\ u.chain = t.chain
         /\ u.pending = t.pending /\ u.view = t.view
    BY <2>3, <2>7 DEF Objects
  <2>11. u.ack = t.ack /\ u.force = t.force /\ u.cursor = t.cursor
    BY <2>3, <2>7 DEF Objects
  <2>12. AckSafe(u) /\ Showing(u)
    BY <2>6, <2>10, <2>11 DEF AckSafe, Showing
  <2>13. Recent(this.pending) /\ Len(this.view) \in Nat
    BY <2>5 DEF Unconnected
  <2>14. Grew(this, u)
    BY <2>6, <2>10, <2>13 DEF Grew
  <2>15. Sound(u)
    BY <2>6, <2>9, <2>10 DEF Sound
  <2>16. Recent(u.pending)
    BY <2>6, <2>10, <2>13
  <2>17. u.conn = c /\ u.out = <<>> /\ u.waiting = <<>> /\ u.phase = "idle" /\ ~u.bound /\ u.chain = <<>>
    BY <2>6, <2>10
  <2> QED
    BY <1>2, <2>4, <2>12, <2>14, <2>15, <2>16, <2>17, OpenResting
<1> QED
    BY <1>2, <1>3, <1>4

LEMMA RebindStream ==
    ASSUME IInv, IInv', Stream, NEW c \in Conns, RebindView(c)
    PROVE  Stream' /\ Grew(this, this') /\ log' = log
<1>1. PICK t, k : t = Onto(this, c) /\ k = "candidate"
    OBVIOUS
<1>2. Open(c) /\ Commit(Establish(t, k, FALSE))
    BY <1>1 DEF RebindView, Onto
<1>3. k \in Callers
    BY <1>1 DEF Callers
<1> QED
    BY <1>1, <1>2, <1>3, OpenEstablish

LEMMA OpenFailsStream ==
    ASSUME IInv, IInv', Stream, OpenFails
    PROVE  Stream' /\ Grew(this, this') /\ log' = log
<1>1. PICK yes : yes = TRUE
    OBVIOUS
<1>2. yes \in BOOLEAN
    BY <1>1, Zenon
<1>3. PICK u : u = [this EXCEPT !.tried = yes]
    OBVIOUS
<1>4. this' = u /\ UNCHANGED daemonVars /\ this.conn = 0
    BY <1>1, <1>3 DEF OpenFails
<1>5. this \in Objects /\ Sound(this)
    BY InvFacts
<1>6. Alike(this, u)
  <2>1. /\ u.conn = this.conn /\ u.bound = this.bound /\ u.view = this.view /\ u.current = this.current /\ u.ack = this.ack
        /\ u.phase = this.phase /\ u.caller = this.caller /\ u.force = this.force /\ u.cursor = this.cursor
    BY <1>3, <1>5 DEF Objects
  <2>2. /\ u.page = this.page /\ u.pending = this.pending /\ u.seq = this.seq /\ u.chain = this.chain
        /\ u.waiting = this.waiting /\ u.missed = this.missed
    BY <1>3, <1>5 DEF Objects
  <2> QED
    BY <2>1, <2>2 DEF Alike
<1>7. DaemonSame /\ sock' = sock /\ up' = up /\ down' = down
    BY <1>4 DEF daemonVars, DaemonSame
<1>8. Roster'
    BY <1>7, OwnRoster
<1>9. Table'
    BY <1>7, KeptAll DEF Stream, Table, Named, Held, Issued, Distinct
<1>10. u.conn = 0 /\ u.view = this.view
    BY <1>4, <1>6 DEF Alike
<1>11. Requested'
    BY <1>4, <1>7, <1>10, KeptAll DEF Stream, Requested
<1>12. Good(this, <<>>, <<>>)
    BY <1>4 DEF Stream, Coming, Going
<1>13. Good(u, <<>>, <<>>)
    BY <1>6, <1>12, AlikeGood
<1>14. PICK none : none = <<>>
    OBVIOUS
<1>15. Good(u, none, none)'
    BY <1>7, <1>13, <1>14, GoodSame
<1>16. Good(this, Coming(this.conn), Going(this.conn))'
  <2>1. Coming(this.conn)' = none /\ Going(this.conn)' = none
    BY <1>4, <1>10, <1>14 DEF Coming, Going
  <2> QED
    BY <1>4, <1>15, <2>1
<1>17. Len(this.view) \in Nat
    BY <1>5, ObjectIs
<1>18. Grew(this, this')
    BY <1>4, <1>10, <1>17 DEF Grew
<1> QED
    BY <1>7, <1>8, <1>9, <1>11, <1>16, <1>18, KeptAll DEF Stream

-----------------------------------------------------------------------------
(* The connection ends.                                                    *)

\* What an object keeps without a connection.
Adrift(u, b) ==
    [u EXCEPT !.conn = 0, !.bound = FALSE, !.phase = "idle", !.caller = "none",
              !.force = FALSE, !.cursor = None, !.current = 0,
              !.waiting = <<>>, !.chain = <<>>, !.pending = <<>>, !.seq = 0,
              !.newest = 0, !.missed = FALSE, !.started = b]

Alone(u, v) ==
    /\ v.conn = 0 /\ ~v.bound /\ v.phase = "idle" /\ v.waiting = <<>> /\ v.chain = <<>> /\ v.pending = <<>>
    /\ v.view = u.view /\ v.ack = u.ack

LEMMA AdriftFields ==
    ASSUME NEW u \in Objects, NEW b, NEW v, v = Adrift(u, b)
    PROVE  Alone(u, v)
<1>1. PICK no, e, n, zero, idle, none : no = FALSE /\ e = <<>> /\ n = None /\ zero = 0 /\ idle = "idle" /\ none = "none"
    OBVIOUS
<1>2. PICK x : x = [u EXCEPT !.conn = zero, !.bound = no, !.phase = idle, !.caller = none, !.force = no, !.cursor = n, !.current = zero]
    OBVIOUS
<1>3. v = [x EXCEPT !.waiting = e, !.chain = e, !.pending = e, !.seq = zero, !.newest = zero, !.missed = no, !.started = b]
    BY <1>1, <1>2 DEF Adrift, Objects
<1>4. x.conn = zero /\ x.bound = no /\ x.phase = idle /\ x.view = u.view /\ x.ack = u.ack
    BY <1>2 DEF Objects
<1>5. DOMAIN x = DOMAIN u
    BY <1>2
<1>6. v.conn = x.conn /\ v.bound = x.bound /\ v.phase = x.phase /\ v.view = x.view /\ v.ack = x.ack
    BY <1>3, <1>5 DEF Objects
<1>7. v.waiting = e /\ v.chain = e /\ v.pending = e
    BY <1>3, <1>5 DEF Objects
<1> QED
    BY <1>1, <1>4, <1>6, <1>7 DEF Alone

\* What is lost with the connection, and what of the queued deliveries is still shown.
Drifts(t, u) ==
    /\ u.conn = 0 /\ ~u.bound /\ u.phase = "idle" /\ u.waiting = <<>> /\ u.chain = <<>> /\ u.pending = <<>>
    /\ \/ u.view = t.view /\ u.ack = t.ack
       \/ t.phase = "idle" /\ u.view = Reduced(t.view, Positions(t.chain)) /\ u.ack = t.ack
       \/ u.view = <<>> /\ u.ack = None

LEMMA LostDrifts ==
    ASSUME NEW t, Sound(t), NEW u, u = Lost(t)
    PROVE  Drifts(t, u)
<1>1. t \in Objects /\ t.view \in Seq(Nat) /\ t.chain \in Seq(Events)
    BY DEF Sound, Objects
<1>2. PICK no, y, z : no = FALSE /\ y = Reduced(t.view, Positions(t.chain)) /\ z = (t.caller # "recovery")
    OBVIOUS
<1>3. no \in BOOLEAN /\ z \in BOOLEAN
    BY <1>2, Zenon
<1>4. y \in Seq(Nat)
    BY <1>1, <1>2, PositionsAre, ReducedIs
<1>5. PICK i, r : i = [t EXCEPT !.view = y, !.tried = no] /\ r = [t EXCEPT !.hook = no, !.tried = z]
    OBVIOUS
<1>6. i \in Objects /\ i.view = y /\ i.ack = t.ack
    BY <1>1, <1>3, <1>4, <1>5 DEF Objects
<1>7. r \in Objects /\ r.view = t.view /\ r.ack = t.ack
    BY <1>1, <1>3, <1>5 DEF Objects
<1>8. Blank \in Objects /\ Blank.view = <<>> /\ Blank.ack = None
    BY BlankIs DEF Sound, Blank
<1>9. \/ t.phase = "idle" /\ \E b : u = Adrift(i, b)
      \/ \E b : u = Adrift(Blank, b)
      \/ \E b : u = Adrift(r, b)
  <2>1. CASE t.phase = "idle"
    <3>1. \E b : u = Adrift(i, b)
      BY <1>2, <1>5, <2>1 DEF Lost, Adrift
    <3> QED
      BY <2>1, <3>1
  <2>2. CASE t.phase # "idle" /\ t.caller = "start"
    <3>1. \E b : u = Adrift(Blank, b)
      BY <2>2 DEF Lost, Adrift
    <3> QED
      BY <3>1
  <2>3. CASE t.phase # "idle" /\ t.caller # "start"
    <3>1. \E b : u = Adrift(r, b)
      BY <1>2, <1>5, <2>3 DEF Lost, Adrift
    <3> QED
      BY <3>1
  <2> QED
    BY <2>1, <2>2, <2>3
<1>10. CASE t.phase = "idle" /\ \E b : u = Adrift(i, b)
  <2>1. Alone(i, u)
    BY <1>6, <1>10, AdriftFields
  <2> QED
    BY <1>2, <1>6, <1>10, <2>1 DEF Alone, Drifts
<1>11. CASE \E b : u = Adrift(Blank, b)
  <2>1. Alone(Blank, u)
    BY <1>8, <1>11, AdriftFields
  <2> QED
    BY <1>8, <2>1 DEF Alone, Drifts
<1>12. CASE \E b : u = Adrift(r, b)
  <2>1. Alone(r, u)
    BY <1>7, <1>12, AdriftFields
  <2> QED
    BY <1>7, <2>1 DEF Alone, Drifts
<1> QED
    BY <1>9, <1>10, <1>11, <1>12

\* The deliveries behind the one that was being acknowledged are those that follow the view.
LEMMA QueueShown ==
    ASSUME Sizes, SubsInv, Roster, NEW t, Sound(t), NEW dq, dq \in Seq(Messages), NEW uq, Good(t, dq, uq),
           NEW y, y = Reduced(t.view, Positions(t.chain))
    PROVE  y = Span(1, Len(y)) /\ Len(y) <= log /\ Len(t.view) <= Len(y)
<1>1. t.view = Span(1, Len(t.view)) /\ Len(t.view) <= log /\ Len(t.view) \in Nat /\ t.view \in Seq(Nat)
    BY ObjectIs DEF Good, Showing
<1>2. CASE t.chain = <<>>
  <2>1. PICK n : n = Len(t.view)
    OBVIOUS
  <2>2. Positions(t.chain) = <<>>
    BY <1>2 DEF Positions
  <2>3. y = t.view \o <<>>
    BY <2>2, OnlyNone DEF Reduced
  <2>4. y = t.view
    BY <1>1, <2>3
  <2> QED
    BY <1>1, <2>4
<1>3. CASE t.chain # <<>>
  <2>1. t.bound
    BY <1>3 DEF Good, Placed
  <2>2. Bound(t, dq) /\ Tracked(t, dq) /\ ChainBusy(t)
    BY <1>3, <2>1, GoodBound
  <2>3. PICK i, b : i = t.current /\ b = subs[i].base
    OBVIOUS
  <2>4. PICK mid \in Nat : t.seq <= mid /\ mid <= subs[i].seq /\ t.chain = Sent(i, b, t.seq, mid)
    BY <2>2, <2>3, BusyQueue
  <2>5. /\ i \in 1..MaxSubs /\ b \in Nat /\ subs[i].seq \in Nat /\ b + subs[i].seq <= MaxEvents /\ t.seq \in Nat
    BY <2>2, <2>3, ActiveNumbers
  <2>6. t.seq < mid
    <3>1. PICK g \in Nat : g = t.seq
      BY <2>5
    <3>2. b + mid <= MaxEvents
      BY <2>4, <2>5, Bounds
    <3>3. g = mid => Sent(i, b, g, mid) = <<>>
      BY <2>5, <3>2, SentNone
    <3>4. t.seq # mid
      BY <1>3, <2>4, <3>1, <3>3
    <3> QED
      BY <2>4, <3>1, <3>4
  <2>7. PICK queue : queue = t.chain
    OBVIOUS
  <2>8. PICK z : z = Queued(t, queue)
    OBVIOUS
  <2>9. Queues(t, z, mid)
    <3>1. queue = Sent(i, b, t.seq, mid) /\ mid <= subs[i].seq
      BY <2>4, <2>7
    <3> QED
      BY <2>2, <2>3, <2>6, <2>8, <3>1, QueuedShows
  <2>10. /\ Sound(z) /\ Holds(t, z) /\ z.seq = mid /\ Shown(t, z, mid) /\ z.pending = t.pending
    BY <2>9 DEF Queues
  <2>11. Recent(z.pending)
    BY <2>2, <2>10 DEF Bound
  <2>12. Bound(z, dq) /\ Len(t.view) <= Len(z.view)
    <3>1. mid <= subs[t.current].seq /\ t.seq <= mid
      BY <2>3, <2>4
    <3> QED
      BY <2>2, <2>10, <2>11, <3>1, AdvanceBound
  <2>13. z.view = y
    <3>1. t \in Objects
      BY DEF Sound
    <3>2. PICK e, s : e = <<>> /\ s = queue[Len(queue)].seq
      OBVIOUS
    <3>3. z = [t EXCEPT !.view = y, !.chain = e, !.seq = s]
      BY <2>7, <2>8, <3>2 DEF Queued
    <3> QED
      BY <3>1, <3>3 DEF Objects
  <2>14. Showing(z)
    BY <2>12 DEF Bound
  <2> QED
    BY <2>12, <2>13, <2>14 DEF Showing
<1> QED
    BY <1>2, <1>3

\* What is left of the view.
LEMMA DriftsSafe ==
    ASSUME Sizes, SubsInv, Roster, NEW t, Sound(t), NEW dq, dq \in Seq(Messages), NEW uq, Good(t, dq, uq), NEW u, u = Lost(t)
    PROVE  Drifts(t, u) /\ AckSafe(u) /\ Showing(u) /\ Grew(t, u)
<1>1. Drifts(t, u)
    BY LostDrifts
<1>2. t.view = Span(1, Len(t.view)) /\ Len(t.view) <= log /\ Len(t.view) \in Nat /\ log \in Nat /\ t.ack \in CursorIds
    BY ObjectIs, Bounds DEF Good, Showing, Sizes
<1>3. t.ack # None => Issued(t.ack) /\ (t.ack[2] <= Len(t.view) \/ Unknown(t.ack))
    BY DEF Good, AckSafe
<1>4. u.phase = "idle"
    BY <1>1 DEF Drifts
<1>5. CASE u.view = <<>> /\ u.ack = None
    BY <1>1, <1>2, <1>4, <1>5, EmptySafe DEF Grew
<1>6. CASE u.view = t.view /\ u.ack = t.ack
  <2>1. AckSafe(u)
    BY <1>3, <1>4, <1>6 DEF AckSafe
  <2> QED
    BY <1>1, <1>2, <1>6, <2>1 DEF Showing, Grew
<1>7. CASE u.view = Reduced(t.view, Positions(t.chain)) /\ u.ack = t.ack
  <2>1. PICK y : y = u.view
    OBVIOUS
  <2>2. y = Span(1, Len(y)) /\ Len(y) <= log /\ Len(t.view) <= Len(y)
    BY <1>7, <2>1, QueueShown
  <2>3. Showing(u) /\ Grew(t, u)
    BY <2>1, <2>2 DEF Showing, Grew
  <2>4. t.ack # None => t.ack[2] \in Int
    BY <1>2, <1>3, IssuedInt
  <2>5. Len(y) \in Nat
    <3>1. t.view \in Seq(Nat) /\ t.chain \in Seq(Events)
      BY ObjectIs
    <3>2. y \in Seq(Nat)
      BY <1>7, <2>1, <3>1, PositionsAre, ReducedIs
    <3> QED
      BY <3>2
  <2>6. AckSafe(u)
    BY <1>2, <1>3, <1>4, <1>7, <2>1, <2>2, <2>4, <2>5 DEF AckSafe
  <2> QED
    BY <1>1, <2>3, <2>6
<1> QED
    BY <1>1, <1>5, <1>6, <1>7 DEF Drifts

\* Without a connection nothing is promised but what the view shows.
LEMMA DriftsGood ==
    ASSUME NEW t, NEW u, Drifts(t, u), AckSafe(u), Showing(u), NEW none, none = <<>>
    PROVE  Good(u, none, none)
<1>1. u.conn = 0 /\ ~u.bound /\ u.phase = "idle" /\ u.waiting = <<>> /\ u.chain = <<>> /\ u.pending = <<>>
    BY DEF Drifts
<1>2. Placed(u)
    BY <1>1 DEF Placed, Reading
<1>3. Conversing(u, none, none)
    BY <1>1, ConversingNone
<1>4. Recent(none) /\ Recent(u.pending)
    BY <1>1 DEF Recent
<1>5. Streaming(u, none)
    BY <1>1, <1>4 DEF Streaming, Reading
<1> QED
    BY <1>2, <1>3, <1>5 DEF Good

LEMMA LoseStream ==
    ASSUME IInv, IInv', Stream, LoseConnection
    PROVE  Stream' /\ Grew(this, this') /\ log' = log
<1>1. PICK t, c, dq, uq, u : t = this /\ c = this.conn /\ dq = down[c] /\ uq = up[c] /\ u = Lost(t)
    OBVIOUS
<1>2. c # 0 /\ this' = u /\ sock' = [sock EXCEPT ![c] = "closing"] /\ DaemonSame /\ up' = up
    BY <1>1 DEF LoseConnection
<1>3. /\ Sound(t) /\ c \in Conns /\ dq \in Seq(Messages) /\ Good(t, dq, uq) /\ Sizes /\ SubsInv /\ Roster /\ Table
    BY <1>1, <1>2, InUseHere
<1>4. Drifts(t, u) /\ AckSafe(u) /\ Showing(u) /\ Grew(t, u)
    BY <1>1, <1>3, DriftsSafe
<1>5. Roster'
  <2>1. subs' = subs
    BY <1>2, KeptAll
  <2>2. sock \in [Conns -> {"new", "open", "closing", "closed"}]
    BY InvFacts
  <2>3. ASSUME NEW j \in 1..Len(subs)
        PROVE  Enlisted(subs[j], j) /\ (subs[j].conn # 0 => sock'[subs[j].conn] \in {"open", "closing"})
    <3>1. Enlisted(subs[j], j) /\ (subs[j].conn # 0 => sock[subs[j].conn] \in {"open", "closing"})
      BY <1>3 DEF Roster
    <3>2. PICK d : d = subs[j].conn
      OBVIOUS
    <3>3. subs[j] \in Fit(log)
      BY <1>3, SubIs
    <3>4. d \in 0..MaxConns
      BY <3>2, <3>3 DEF Fit, SubRecords
    <3>5. d # 0 => d \in Conns
      BY <3>4, Bounds DEF Conns
    <3>6. d # 0 => sock'[d] = "closing" \/ sock'[d] = sock[d]
      BY <1>2, <2>2, <3>5
    <3> QED
      BY <3>1, <3>2, <3>6
  <2> QED
    BY <2>1, <2>3 DEF Roster, Enlisted
<1>6. Table'
    BY <1>2, <1>3, KeptAll DEF Table, Named, Held, Issued, Distinct
<1>7. u.conn = 0
    BY <1>4 DEF Drifts
<1>8. Requested'
  <2>1. subs' = subs
    BY <1>2, KeptAll
  <2>2. Requested
    BY DEF Stream
  <2> QED
    BY <1>2, <1>7, <2>1, <2>2 DEF Requested
<1>9. PICK none : none = <<>>
    OBVIOUS
<1>10. Good(u, none, none)
    BY <1>4, <1>9, DriftsGood
<1>11. Good(u, none, none)'
    BY <1>2, <1>10, GoodSame
<1>12. Good(this, Coming(this.conn), Going(this.conn))'
  <2>1. Coming(this.conn)' = none /\ Going(this.conn)' = none
    BY <1>2, <1>7, <1>9 DEF Coming, Going
  <2> QED
    BY <1>2, <1>11, <2>1
<1> QED
    BY <1>1, <1>2, <1>4, <1>5, <1>6, <1>8, <1>12, KeptAll DEF Stream

\* Every subscription and every cursor is gone with the daemon.
LEMMA RestartStream ==
    ASSUME IInv, IInv', Stream, RestartDaemon
    PROVE  Stream' /\ Grew(this, this') /\ log' = log
<1>1. /\ subs' = [i \in 1..Len(subs) |-> Gone] /\ cursors' = <<>> /\ log' = log
      /\ up' = [c \in Conns |-> <<>>] /\ down' = [c \in Conns |-> <<>>]
      /\ this' = IF this.conn = 0 THEN this ELSE Lost(this)
    BY DEF RestartDaemon, Restart
<1>2. Sizes /\ SubsInv /\ Sound(this) /\ Len(subs) \in Nat /\ Roster
    BY InvFacts DEF SubsInv, Stream
<1>3. Len(subs') = Len(subs) /\ \A i \in 1..Len(subs) : subs'[i] = Gone
    BY <1>1, <1>2
<1>4. Roster'
  <2>1. Gone.conn = 0 /\ \A i : Enlisted(Gone, i)
    BY DEF Gone, Enlisted
  <2> QED
    BY <1>3, <2>1 DEF Roster, Enlisted
<1>5. Table'
  <2>1. Len(cursors') = 0
    BY <1>1
  <2>2. Distinct(cursors')
    BY <2>1 DEF Distinct
  <2>3. \A S : cursors' \in Seq(S)
    BY <1>1
  <2> QED
    BY <2>2, <2>3 DEF Table, Distinct, Named
<1>6. Requested'
  <2>1. ASSUME NEW d \in Conns
        PROVE  up'[d] = <<>> /\ Len(up'[d]) = 0
    BY <1>1
  <2> QED
    BY <2>1 DEF Requested
<1>7. \A id : Unknown(id)'
  <2>1. PICK n : n = Len(cursors')
    OBVIOUS
  <2>2. n = 0
    BY <1>1, <2>1
  <2>3. \A k \in 1..n : FALSE
    BY <2>2
  <2> QED
    BY <2>1, <2>3 DEF Unknown, HasCursor
<1>8. \E u : /\ this' = u /\ u.conn = 0 /\ ~u.bound /\ u.phase = "idle" /\ u.waiting = <<>> /\ u.chain = <<>>
             /\ AckSafe(u) /\ Showing(u) /\ Grew(this, u) /\ Recent(u.pending)
  <2>1. CASE this.conn = 0
    <3>1. Good(this, <<>>, <<>>)
      BY <2>1 DEF Stream, Coming, Going
    <3>2. Placed(this) /\ AckSafe(this) /\ Showing(this) /\ Streaming(this, <<>>)
      BY <3>1 DEF Good
    <3>3. ~this.bound /\ this.phase = "idle"
      BY <2>1, <3>2 DEF Placed
    <3>4. this.chain = <<>>
      BY <3>2, <3>3 DEF Placed
    <3>5. this.waiting = <<>>
      BY <2>1 DEF IInv, Balanced
    <3>6. Recent(this.pending)
      BY <3>2 DEF Streaming
    <3>7. Grew(this, this)
      BY <1>2, ObjectIs DEF Grew
    <3> QED
      BY <1>1, <2>1, <3>2, <3>3, <3>4, <3>5, <3>6, <3>7
  <2>2. CASE this.conn # 0
    <3>1. PICK t, c, dq, uq, u : t = this /\ c = this.conn /\ dq = down[c] /\ uq = up[c] /\ u = Lost(t)
      OBVIOUS
    <3>2. Sound(t) /\ dq \in Seq(Messages) /\ Good(t, dq, uq)
      BY <2>2, <3>1, InUseHere
    <3>3. Drifts(t, u) /\ AckSafe(u) /\ Showing(u) /\ Grew(t, u)
      BY <1>2, <3>1, <3>2, DriftsSafe
    <3>4. Recent(u.pending)
      BY <3>3 DEF Drifts, Recent
    <3>5. this' = u
      BY <1>1, <2>2, <3>1
    <3> QED
      BY <3>1, <3>3, <3>4, <3>5 DEF Drifts
  <2> QED
    BY <2>1, <2>2
<1>9. PICK u : /\ this' = u /\ u.conn = 0 /\ ~u.bound /\ u.phase = "idle" /\ u.waiting = <<>> /\ u.chain = <<>>
               /\ AckSafe(u) /\ Showing(u) /\ Grew(this, u) /\ Recent(u.pending)
    BY <1>8
<1>10. PICK none : none = <<>>
    OBVIOUS
<1>11. Placed(u)'
    BY <1>9 DEF Placed, Reading
<1>12. Conversing(u, none, none)'
    BY <1>9 DEF Conversing
<1>13. Streaming(u, none)'
  <2>1. Recent(u.pending)' /\ Recent(none)'
    BY <1>3, <1>9, <1>10 DEF Recent
  <2> QED
    BY <1>9, <2>1 DEF Streaming, Reading
<1>14. Showing(u)'
    BY <1>1, <1>9 DEF Showing
<1>15. AckSafe(u)'
  <2>1. u.ack # None => Issued(u.ack)
    BY <1>9 DEF AckSafe
  <2>2. u.ack # None => Issued(u.ack)'
    <3>1. Gone.state = "gone"
      BY DEF Gone
    <3> QED
      BY <1>1, <1>3, <2>1, <3>1 DEF Issued
  <2> QED
    BY <1>7, <1>9, <2>2 DEF AckSafe
<1>16. Good(u, none, none)'
    BY <1>11, <1>12, <1>13, <1>14, <1>15 DEF Good
<1>17. Good(this, Coming(this.conn), Going(this.conn))'
  <2>1. Coming(this.conn)' = none /\ Going(this.conn)' = none
    BY <1>9, <1>10 DEF Coming, Going
  <2> QED
    BY <1>9, <1>16, <2>1
<1> QED
    BY <1>1, <1>4, <1>5, <1>6, <1>9, <1>17 DEF Stream

-----------------------------------------------------------------------------
(* Every step.                                                             *)

\* What a step does to the log and to the view: the daemon adds an event, or the client adds to
\* its view or empties it.
Logged == log' = log + 1 /\ this' = this
Viewed == log' = log /\ Grew(this, this')

LEMMA ClientStepStream ==
    ASSUME IInv, IInv', Stream, ClientStep
    PROVE  Stream' /\ Grew(this, this') /\ log' = log
BY ReceiveStream, SubscribeStream, ReduceStream, PageStream, BoundaryStream, FinishStream,
   DrainStream, ChainStream, CleanedStream, LeftStream, SupersededStream, StaleStream
   DEF ClientStep

LEMMA ServesStream ==
    ASSUME IInv, IInv', Stream, DaemonServes
    PROVE  Stream' /\ this' = this /\ log' = log
<1>1. PICK c \in Conns : Serve(c)
    BY DEF DaemonServes
<1>2. this' = this
    BY DEF DaemonServes
<1>3. Stream'
    BY <1>1, <1>2, ServeStream
<1>4. log' = log
    BY <1>1, ServeKeeps DEF IInv, Served
<1> QED
    BY <1>2, <1>3, <1>4

LEMMA ExpiresStream ==
    ASSUME IInv, IInv', Stream, DaemonExpires
    PROVE  Stream' /\ this' = this /\ log' = log
<1>1. this' = this /\ (SnapshotExpires \/ CursorsExpire)
    BY DEF DaemonExpires, Expire
<1>2. Stream'
    BY <1>1, SnapshotExpiresKeeps, CursorsExpireKeeps
<1>3. log' = log
    BY <1>1 DEF SnapshotExpires, CursorsExpire
<1> QED
    BY <1>1, <1>2, <1>3

LEMMA CleansUpStream ==
    ASSUME IInv, IInv', Stream, DaemonCleansUp
    PROVE  Stream' /\ this' = this /\ log' = log
<1>1. PICK c \in Conns : Cleanup(c)
    BY DEF DaemonCleansUp
<1>2. this' = this
    BY DEF DaemonCleansUp
<1>3. Stream'
    BY <1>1, <1>2, CleanupStream
<1>4. log' = log
    BY <1>1, CleanupKeeps DEF IInv
<1> QED
    BY <1>2, <1>3, <1>4

\* Nothing happens.
LEMMA IdleStream ==
    ASSUME IInv, Stream, UNCHANGED vars
    PROVE  Stream' /\ this' = this /\ log' = log
<1>1. /\ log' = log /\ instance' = instance /\ sock' = sock /\ up' = up /\ down' = down
      /\ subs' = subs /\ cursors' = cursors /\ this' = this
    BY DEF vars, daemonVars
<1>2. DaemonSame
    BY <1>1 DEF DaemonSame
<1>3. Roster'
    BY <1>1 DEF Stream, Roster, Enlisted
<1>4. Table'
    BY <1>1 DEF Stream, Table, Named, Issued, Distinct
<1>5. Requested'
    BY <1>1 DEF Stream, Requested
<1>6. PICK t, c, dq, uq : t = this /\ c = this.conn /\ dq = Coming(c) /\ uq = Going(c)
    OBVIOUS
<1>7. Good(t, dq, uq)
    BY <1>6 DEF Stream
<1>8. Good(t, dq, uq)'
    BY <1>2, <1>7, GoodSame
<1>9. Coming(c)' = dq /\ Going(c)' = uq
    BY <1>1, <1>6 DEF Coming, Going
<1>10. Good(this, Coming(this.conn), Going(this.conn))'
    BY <1>1, <1>6, <1>8, <1>9
<1> QED
    BY <1>1, <1>3, <1>4, <1>5, <1>10 DEF Stream

LEMMA NextStream ==
    ASSUME IInv, IInv', Stream, [Next]_vars
    PROVE  Stream' /\ (Logged \/ Viewed)
<1> USE DEF Viewed
<1>0. this' = this => Grew(this, this')
  <2>1. Len(this.view) \in Nat
    BY InvFacts DEF Objects
  <2> QED
    BY <2>1 DEF Grew
<1>1. CASE DaemonAppends
  <2>1. AppendEvent /\ this' = this
    BY <1>1 DEF DaemonAppends
  <2>2. log' = log + 1
    BY <2>1 DEF AppendEvent
  <2> QED
    BY <2>1, <2>2, AppendStream DEF Logged
<1>2. CASE DaemonServes
    BY <1>0, <1>2, ServesStream
<1>3. CASE DaemonExpires
    BY <1>0, <1>3, ExpiresStream
<1>4. CASE DaemonCleansUp
    BY <1>0, <1>4, CleansUpStream
<1>5. CASE ClientStep
    BY <1>5, ClientStepStream
<1>6. CASE \E c \in Conns : Connect(c) \/ ReconnectClient(c) \/ RebindView(c)
    BY <1>6, ConnectStream, ReconnectStream, RebindStream
<1>7. CASE Start
    BY <1>7, StartStream
<1>8. CASE OpenFails
    BY <1>8, OpenFailsStream
<1>9. CASE CloseView
    BY <1>9, CloseStream
<1>10. CASE LoseConnection
    BY <1>10, LoseStream
<1>11. CASE RestartDaemon
    BY <1>11, RestartStream
<1>12. CASE UNCHANGED vars
    BY <1>0, <1>12, IdleStream
<1> QED
    BY <1>1, <1>2, <1>3, <1>4, <1>5, <1>6, <1>7, <1>8, <1>9, <1>10, <1>11, <1>12 DEF Next

LEMMA InitStream ==
    ASSUME Init
    PROVE  Stream
<1>1. /\ log = 0 /\ up = [c \in Conns |-> <<>>] /\ subs = <<>> /\ cursors = <<>> /\ this = Blank
    BY DEF Init, DaemonInit
<1>2. Roster
    BY <1>1 DEF Roster
<1>3. Table
  <2>1. cursors \in Seq(Named) /\ Len(cursors) = 0
    BY <1>1
  <2> QED
    BY <2>1 DEF Table, Distinct
<1>4. Requested
    BY <1>1 DEF Requested
<1>5. PICK t, none : t = this /\ none = <<>>
    OBVIOUS
<1>6. /\ t.conn = 0 /\ ~t.bound /\ t.phase = "idle" /\ t.waiting = none /\ t.chain = none
      /\ t.pending = none /\ t.view = none /\ t.ack = None
    BY <1>1, <1>5 DEF Blank
<1>7. Coming(t.conn) = none /\ Going(t.conn) = none
    BY <1>5, <1>6 DEF Coming, Going
<1>8. Placed(t)
    BY <1>5, <1>6 DEF Placed, Reading
<1>9. Conversing(t, none, none)
    BY <1>5, <1>6, ConversingNone
<1>10. Recent(none) /\ Recent(t.pending)
    BY <1>5, <1>6 DEF Recent
<1>11. Streaming(t, none)
    BY <1>6, <1>10 DEF Streaming, Reading
<1>12. AckSafe(t)
    BY <1>6 DEF AckSafe
<1>13. Showing(t)
  <2>1. Len(t.view) = 0 /\ t.view = <<>> /\ 0 \in Nat
    BY <1>5, <1>6
  <2>2. Span(0 + 1, 0) = <<>>
    BY <2>1, SpanNone
  <2>3. 0 + 1 = 1
    OBVIOUS
  <2>4. Span(1, 0) = <<>>
    BY <2>2, <2>3
  <2> QED
    BY <1>1, <2>1, <2>4 DEF Showing
<1>14. Good(t, none, none)
    BY <1>8, <1>9, <1>11, <1>12, <1>13 DEF Good
<1>15. Good(this, Coming(this.conn), Going(this.conn))
    BY <1>5, <1>7, <1>14
<1> QED
    BY <1>2, <1>3, <1>4, <1>15 DEF Stream

-----------------------------------------------------------------------------
(* What the application may rely on.                                       *)

\* The invariant holds in every state: requests and answers of the connection in use stay in
\* step across losses, reconnects and restarts (AxlClient.request, handleResponse).
THEOREM InvariantHolds == Spec => []IInv
<1>1. Init => IInv
    BY InitInv
<1>2. IInv /\ [Next]_vars => IInv'
    BY NextInv
<1> QED
    BY <1>1, <1>2, PTL DEF Spec

\* Every variable of the daemon and of the subscription object keeps its kind of value.
THEOREM TypesHold == Spec => []TypeOK
<1>1. IInv => TypeOK
  <2> SUFFICES ASSUME IInv  PROVE TypeOK
    OBVIOUS
  <2>1. /\ log \in 0..MaxEvents /\ instance \in 1..(MaxRestarts + 1)
        /\ sock \in [Conns -> {"new", "open", "closing", "closed"}]
    BY InvFacts DEF Sizes
  <2>2. \A i \in 1..Len(subs) :
           /\ subs[i].conn \in 0..MaxConns
           /\ subs[i].state \in {"loading", "active", "invalid", "gone"}
           /\ subs[i].base \in 0..MaxEvents /\ subs[i].seq \in 0..MaxEvents
           /\ {subs[i].ackCursor, subs[i].boundary} \subseteq CursorIds
    <3> SUFFICES ASSUME NEW i \in 1..Len(subs)
                 PROVE  /\ subs[i].conn \in 0..MaxConns
                        /\ subs[i].state \in {"loading", "active", "invalid", "gone"}
                        /\ subs[i].base \in 0..MaxEvents /\ subs[i].seq \in 0..MaxEvents
                        /\ {subs[i].ackCursor, subs[i].boundary} \subseteq CursorIds
      OBVIOUS
    <3>1. subs[i] \in Fit(log)
      BY InvFacts DEF SubsInv
    <3> QED
      BY <3>1 DEF Fit, SubRecords, States
  <2>3. /\ Len(cursors) <= MaxCursors
        /\ \A k \in 1..Len(cursors) : cursors[k].id \in CursorIds /\ cursors[k].sub \in 1..Len(subs)
    <3>1. cursors \in Seq(Held(log, Len(subs))) /\ Len(cursors) <= MaxCursors /\ Len(subs) \in Nat
      BY InvFacts DEF TableInv, SubsInv
    <3>2. \A r \in Held(log, Len(subs)) : r.id \in CursorIds /\ r.sub \in 1..Len(subs)
      BY <3>1 DEF Held, CursorRecords
    <3> QED
      BY <3>1, <3>2
  <2>4. /\ this.phase \in Phases /\ this.conn \in 0..MaxConns
        /\ this.ack \in CursorIds /\ this.current \in 0..MaxSubs /\ this.out = <<>>
    BY InvFacts DEF Objects
  <2> QED
    BY <2>1, <2>2, <2>3, <2>4 DEF TypeOK
<1> QED
    BY <1>1, InvariantHolds, PTL

\* A subscription owes its client exactly the events after its base, in its tail or sent
\* (bufferSnapshotEvent, activateReadySubscriptions, deliverEvent).
THEOREM TailHolds == Spec => []TailComplete
<1>1. IInv => TailComplete
  <2> SUFFICES ASSUME IInv, NEW i \in 1..Len(subs)
               PROVE  /\ subs[i].state = "loading" => subs[i].tail = Span(subs[i].base + 1, log)
                      /\ subs[i].state = "active" => subs[i].seq = log - subs[i].base
                      /\ Listening(i) => subs[i].next = log + 1
    BY DEF TailComplete
  <2>1. subs[i] \in Fit(log)
    BY InvFacts DEF SubsInv
  <2> QED
    BY <2>1 DEF Fit, Owes, Listening
<1> QED
    BY <1>1, InvariantHolds, PTL

\* What the client and the daemon know of each other holds in every state.
THEOREM StreamHolds == Spec => [](IInv /\ Stream)
<1>1. Init => IInv /\ Stream
    BY InitInv, InitStream
<1>2. IInv /\ Stream /\ [Next]_vars => (IInv /\ Stream)'
  <2> SUFFICES ASSUME IInv, Stream, [Next]_vars  PROVE IInv' /\ Stream'
    OBVIOUS
  <2>1. IInv'
    BY NextInv
  <2> QED
    BY <2>1, NextStream
<1> QED
    BY <1>1, <1>2, PTL DEF Spec

\* The record of a cursor.
LEMMA CursorOfIs ==
    ASSUME NEW id, HasCursor(id)
    PROVE  \E k \in 1..Len(cursors) : CursorOf(id) = cursors[k] /\ cursors[k].id = id
<1> DEFINE k == CHOOSE k \in 1..Len(cursors) : cursors[k].id = id
<1>1. k \in 1..Len(cursors) /\ cursors[k].id = id
    BY DEF HasCursor
<1> HIDE DEF k
<1>2. CursorOf(id) = cursors[k]
    BY DEF CursorOf, k
<1> QED
    BY <1>1, <1>2

\* A cursor that the client would resume from, and that the daemon would accept, never lies
\* beyond what the view shows (persist, scheduleRecovery, releaseSubscriptionCursors).
THEOREM ResumeHolds == Spec => []ResumeSkipsNothing
<1>1. IInv /\ Stream => ResumeSkipsNothing
  <2> SUFFICES ASSUME IInv, Stream, HasCursor(this.ack)
               PROVE  CursorOf(this.ack).pos <= Len(this.view)
    BY DEF ResumeSkipsNothing
  <2>1. PICK t : t = this
    OBVIOUS
  <2>2. PICK k \in 1..Len(cursors) : CursorOf(t.ack) = cursors[k] /\ cursors[k].id = t.ack
    BY <2>1, CursorOfIs
  <2>3. cursors \in Seq(Named)
    BY DEF Stream, Table
  <2>4. cursors[k] \in Named
    BY <2>2, <2>3
  <2>5. Issued(t.ack) /\ cursors[k].pos = t.ack[2]
    BY <2>2, <2>4 DEF Named
  <2>6. t.ack # None
    BY <2>5 DEF Issued
  <2>7. AckSafe(t)
    BY <2>1 DEF Stream, Good
  <2>8. t.ack[2] <= Len(t.view)
    BY <2>1, <2>6, <2>7 DEF AckSafe, Unknown
  <2> QED
    BY <2>1, <2>2, <2>5, <2>8
<1> QED
    BY <1>1, StreamHolds, PTL

\* When the view is bound and nothing is on its way, it shows the whole log: no event is dropped
\* between the snapshot, the tail, the drain and the live chain (establish, enqueueDelivery).
THEOREM QuietHolds == Spec => []QuietViewComplete
<1>1. IInv /\ Stream => QuietViewComplete
  <2> SUFFICES ASSUME IInv, Stream, Quiet, this.bound, ~this.missed
               PROVE  this.view = Span(1, log)
    BY DEF QuietViewComplete
  <2>1. PICK t, dq, i : t = this /\ dq = Coming(this.conn) /\ i = this.current
    OBVIOUS
  <2>2. t.bound /\ ~t.missed /\ t.phase = "idle" /\ t.chain = <<>> /\ dq = <<>>
    BY <2>1 DEF Quiet, Idle, Coming
  <2>3. Streaming(t, dq) /\ Showing(t)
    BY <2>1 DEF Stream, Good
  <2>4. Following(t, dq)
    BY <2>2, <2>3 DEF Streaming
  <2>5. /\ i \in 1..Len(subs) /\ subs[i].state = "active" /\ subs[i].base + t.seq <= Len(t.view)
        /\ t.pending = <<>> /\ Tracked(t, dq)
    BY <2>1, <2>2, <2>4 DEF Following
  <2>6. PICK b, s : b = subs[i].base /\ s = subs[i].seq
    OBVIOUS
  <2>7. b \in Nat /\ s \in Nat /\ b + s = log /\ log \in Nat
    <3>1. subs[i] \in Fit(log) /\ log \in Nat
      BY <2>5, InvFacts DEF SubsInv, Sizes
    <3> QED
      BY <2>5, <2>6, <3>1 DEF Fit, Owes, SubRecords
  <2>8. Len(t.view) \in Nat /\ t.seq \in Nat
    BY <2>1, InvFacts DEF Objects
  <2>9. PICK p, r \in Nat :
           /\ t.seq <= p /\ p <= r /\ r <= s
           /\ Of(t.pending, i) = Sent(i, b, t.seq, p)
           /\ t.chain \o Of(dq, i) = Sent(i, b, r, s)
           /\ t.missed <=> p < r
    BY <2>1, <2>5, <2>6 DEF Tracked
  <2>10. p = r
    BY <2>2, <2>9
  <2>11. PICK e : e = <<>>
    OBVIOUS
  <2>12. Of(e, i) = e
    BY <2>11, OnlyNone DEF Of
  <2>13. Of(t.pending, i) = e /\ t.chain \o Of(dq, i) = e
    <3>1. t.pending = e /\ t.chain = e /\ dq = e
      BY <2>2, <2>5, <2>11
    <3>2. e \o e = e
      BY <2>11
    <3> QED
      BY <2>12, <3>1, <3>2
  <2>14. p = t.seq /\ r = s
    <3>1. Len(Sent(i, b, t.seq, p)) = 0 /\ Len(Sent(i, b, r, s)) = 0
      BY <2>9, <2>11, <2>13
    <3>2. p - t.seq \in Nat /\ s - r \in Nat
      BY <2>7, <2>8, <2>9
    <3>3. Len(Sent(i, b, t.seq, p)) = p - t.seq /\ Len(Sent(i, b, r, s)) = s - r
      BY <3>2 DEF Sent
    <3> QED
      BY <2>7, <2>8, <2>9, <3>1, <3>3
  <2>15. PICK g \in Nat : g = t.seq
    BY <2>8
  <2>16. log <= Len(t.view)
    BY <2>5, <2>6, <2>7, <2>10, <2>14, <2>15
  <2>17. t.view = Span(1, Len(t.view)) /\ Len(t.view) <= log
    BY <2>3 DEF Showing
  <2>18. Len(t.view) = log
    BY <2>7, <2>8, <2>16, <2>17
  <2> QED
    BY <2>1, <2>17, <2>18
<1> QED
    BY <1>1, StreamHolds, PTL

\* A beginning of the log is what the abstract feed shows.
LEMMA SpanPrefix ==
    ASSUME NEW n \in Nat
    PROVE  Span(1, n) = Abstract!Prefix(n)
<1>1. CASE n = 0
  <2>1. (IF n < 1 THEN 0 ELSE n - 1 + 1) = n
    BY <1>1
  <2> QED
    BY <2>1 DEF Span, Abstract!Prefix
<1>2. CASE n # 0
  <2>1. (IF n < 1 THEN 0 ELSE n - 1 + 1) = n
    BY <1>2
  <2>2. \A k \in 1..n : 1 + k - 1 = k
    OBVIOUS
  <2> QED
    BY <2>1, <2>2 DEF Span, Abstract!Prefix
<1> QED
    BY <1>1, <1>2

\* A step that leaves the log alone shows more of it, empties the view or changes nothing.
LEMMA ViewGrows ==
    ASSUME NEW v, NEW w, NEW m \in Nat, Len(v) \in Nat, Len(w) \in Nat,
           v = Span(1, Len(v)), w = Span(1, Len(w)), Len(w) <= m, w = <<>> \/ Len(v) <= Len(w)
    PROVE  w = v \/ w = <<>> \/ \E n \in (Len(v) + 1)..m : w = Abstract!Prefix(n)
<1>1. CASE Len(v) = Len(w)
    BY <1>1
<1>2. CASE Len(v) < Len(w)
  <2>1. PICK n \in Nat : n = Len(w)
    OBVIOUS
  <2>2. n \in (Len(v) + 1)..m
    BY <1>2, <2>1
  <2>3. w = Abstract!Prefix(n)
    BY <2>1, SpanPrefix
  <2> QED
    BY <2>2, <2>3
<1> QED
    BY <1>1, <1>2

LEMMA FeedStep ==
    ASSUME IInv, IInv', Stream, Stream', Logged \/ Viewed
    PROVE  [Abstract!FeedNext]_<<log, this.view>>
<1>1. CASE Logged
    BY <1>1 DEF Logged, Abstract!FeedNext, Abstract!Record
<1>2. CASE Viewed
  <2>1. PICK v, w, m : v = this.view /\ w = this'.view /\ m = log
    OBVIOUS
  <2>2. v \in Seq(Nat) /\ m \in Nat
    BY <2>1, InvFacts DEF Objects, Sizes
  <2>3. w \in Seq(Nat)
    <3>1. Sound(this)'
      BY DEF IInv, ClientInv
    <3> QED
      BY <2>1, <3>1 DEF Sound, Objects
  <2>4. v = Span(1, Len(v))
    BY <2>1 DEF Stream, Good, Showing
  <2>5. w = Span(1, Len(w)) /\ Len(w) <= m
    <3>1. Showing(this)'
      BY DEF Stream, Good
    <3> QED
      BY <1>2, <2>1, <3>1 DEF Showing, Viewed, Span
  <2>6. w = <<>> \/ Len(v) <= Len(w)
    BY <1>2, <2>1 DEF Viewed, Grew
  <2>7. w = v \/ w = <<>> \/ \E n \in (Len(v) + 1)..m : w = Abstract!Prefix(n)
    BY <2>2, <2>3, <2>4, <2>5, <2>6, ViewGrows
  <2>8. this'.view = w /\ this.view = v /\ log' = log /\ log = m
    BY <1>2, <2>1 DEF Viewed
  <2> QED
    BY <2>7, <2>8 DEF Abstract!FeedNext, Abstract!Show, Abstract!Clear
<1> QED
    BY <1>1, <1>2

\* The view of the client implements the abstract feed, across pages, tails, resumed cursors,
\* gaps, recoveries, reconnects and restarts (SessionSubscription, replaceSession).
THEOREM FeedHolds == Spec => ViewIsFeed
<1>1. Init => Abstract!FeedInit
    BY DEF Init, DaemonInit, Blank, Abstract!FeedInit
<1>2. IInv /\ Stream /\ IInv' /\ Stream' /\ [Next]_vars => [Abstract!FeedNext]_<<log, this.view>>
    BY NextStream, FeedStep
<1> QED
    BY <1>1, <1>2, StreamHolds, PTL DEF Spec, ViewIsFeed, Abstract!Feed
=============================================================================
