-------------------------- MODULE AgentTurnProofs --------------------------
(***************************************************************************)
(* The event tree, the interactions, the steering, the tool calls and the  *)
(* history of an agent session, for any number of messages, clients, tool  *)
(* calls, interactions and faults.                                         *)
(*                                                                         *)
(* The invariants build on each other. TreeInv says which parents the      *)
(* stored and the waiting events can have: only the root has none, because *)
(* nothing but the recovery of a new log appends before there is a tip.    *)
(* AnswerInv says who can still answer which interaction: an answer that   *)
(* is stored or on its way leaves no other one possible, because the entry *)
(* of an interaction is resolving from the call on and ids are not reused. *)
(*                                                                         *)
(* WriteInv says which append of which caller can be on its way while the  *)
(* turn is at a given place: the turn, a recovery and a question wait for  *)
(* one append at a time, and what the turn waits for belongs to its place. *)
(* With Inputs it gives the types. SteerInv says in which one place an     *)
(* accepted message is: queued, on its way, in the log or handed back.     *)
(*                                                                         *)
(* The rest is about logs in which no two appends took the same parent:    *)
(* their lineage is the whole log (ChainLineage). SettleInv says which     *)
(* call may be without a result, CallInv and ResultInv which numbers calls *)
(* and results have, CallsFollow that nothing comes between an answer and  *)
(* its calls, PlanInv that compactions replace prefixes, HistInv that the  *)
(* live history and the one of a plan are what an open would rebuild, and  *)
(* CarryInv that its assistant messages carry the calls of their answers,  *)
(* of which those that were recorded are the ones an open would give them. *)
(***************************************************************************)
EXTENDS AgentTurn, FilterLemmas, FiniteSetTheorems, TLAPS

IsSeq(s) == \E S : s \in Seq(S)

\* The tip is a stored event; a turn has one.
Tips ==
    /\ IsSeq(log) /\ IsSeq(appends)
    /\ tip \in 0..Len(log)
    /\ turn.pc # "none" => tip # 0

\* The parents of the stored and of the waiting events.
Parents ==
    /\ \A i \in 1..Len(log) : log[i].parent \in 0..(i - 1) /\ (log[i].parent = 0 => i = 1)
    /\ \A k \in 1..Len(appends) :
          /\ appends[k].event.parent \in 0..Len(log)
          /\ appends[k].event.parent = 0 => log = <<>>

\* A session without a root: at most it is recovering, and nothing but the root is on its
\* way.
Rootless ==
    log = <<>> =>
        \/ mode \in {"closed", "unreadable"} /\ appends = <<>>
        \/ mode = "recovering" /\ repairs = <<Root>> /\ appends = <<>>
        \/ mode = "recovering" /\ repairs = <<>> /\ Len(appends) = 1 /\ appends[1].who = "open"

\* A session with a root: whatever may append has a tip.
Rooted ==
    log # <<>> /\ (mode \in {"recovering", "open"} \/ appends # <<>>) => tip # 0

TreeInv == Tips /\ Parents /\ Rootless /\ Rooted

\* Nobody can answer interaction id any more.
Closed(id) == /\ id \in 0..ask.id
              /\ id = ask.id => ~ask.listed \/ ask.resolving

Answers(k) == appends[k].who \in Clients

Resolves(event) == event.type = "interaction.resolved"

\* The answers on their way: each is for an interaction of its own that has none yet.
Underways ==
    \A k \in 1..Len(appends) : Answers(k) =>
        /\ Closed(appends[k].event.ref)
        /\ \A w \in won : w[2] # appends[k].event.ref
        /\ \A j \in 1..Len(appends) :
              Answers(j) /\ appends[j].event.ref = appends[k].event.ref => j = k

Winners ==
    /\ \A w \in won : Closed(w[2])
    /\ \A v, w \in won : v[2] = w[2] => v = w

\* The resolutions a process has stored, and that it stores none but its clients' answers.
Resolved ==
    /\ \A i \in 1..Len(log) : Resolves(log[i]) =>
          /\ Closed(log[i].ref)
          /\ \A k \in 1..Len(appends) : Answers(k) => appends[k].event.ref # log[i].ref
          /\ \A j \in 1..Len(log) : Resolves(log[j]) /\ log[j].ref = log[i].ref => j = i
    /\ \A k \in 1..Len(appends) : Resolves(appends[k].event) => Answers(k)

\* Until a process ends there is nothing to repair but the missing root.
Unrepaired ==
    /\ repairs = <<>> \/ (repairs = <<Root>> /\ log = <<>>)
    /\ mode = "closed" => log = <<>>
    /\ (\E k \in 1..Len(appends) : appends[k].who = "open") => log = <<>>

AskType ==
    /\ ask \in [id : Nat, listed : BOOLEAN, kind : Kinds \cup {"none"}, resolving : BOOLEAN,
                asker : {"none", "waiting", "answered", "rejected"}]
    /\ used \in [calls : Nat, extras : Nat, crashed : BOOLEAN]

AnswerInv == AskType /\ Underways /\ Winners /\ (~used.crashed => Resolved /\ Unrepaired)

-----------------------------------------------------------------------------
(* Sequences: what an append to the queue or the log and a removal leave.  *)

LEMMA Appended ==
    ASSUME NEW s, IsSeq(s), NEW e
    PROVE  /\ IsSeq(Append(s, e))
           /\ Len(s) \in Nat /\ Len(Append(s, e)) = Len(s) + 1
           /\ Append(s, e)[Len(s) + 1] = e
           /\ \A i \in 1..Len(s) : Append(s, e)[i] = s[i]
           /\ Append(s, e) # <<>>
<1>1. PICK S : s \in Seq(S)
    BY DEF IsSeq
<1>2. DEFINE T == S \cup {e}
<1>3. s \in Seq(T) /\ e \in T
    BY <1>1
<1> HIDE DEF T
<1>4. Append(s, e) \in Seq(T)
    BY <1>3
<1> QED
    BY <1>3, <1>4 DEF IsSeq

LEMMA Tailed ==
    ASSUME NEW s, IsSeq(s), s # <<>>
    PROVE  /\ IsSeq(Tail(s))
           /\ Len(s) \in Nat \ {0} /\ Len(Tail(s)) = Len(s) - 1
           /\ \A i \in 1..Len(Tail(s)) : i + 1 \in 1..Len(s) /\ Tail(s)[i] = s[i + 1]
           /\ Head(s) = s[1]
<1>1. PICK S : s \in Seq(S)
    BY DEF IsSeq
<1>2. Tail(s) \in Seq(S)
    BY <1>1
<1> QED
    BY <1>1, <1>2 DEF IsSeq

LEMMA Empty ==
    ASSUME NEW s, IsSeq(s)
    PROVE  Len(s) \in Nat /\ (s = <<>> <=> Len(s) = 0)
BY DEF IsSeq

-----------------------------------------------------------------------------
(* What a step can do to the log, the queue and the tip.                   *)

Same == UNCHANGED <<log, appends, tip>>

Adds(e) == appends' = Append(appends, e) /\ e.event.parent = tip /\ UNCHANGED <<log, tip>>

Drops == appends # <<>> /\ appends' = Tail(appends) /\ UNCHANGED <<log, tip>>

Replaces(e) ==
    /\ appends # <<>> /\ appends' = Append(Tail(appends), e)
    /\ e.event.parent = tip
    /\ UNCHANGED <<log, tip>>

Stores == appends # <<>> /\ Stored

LEMMA SameKeepsTree ==
    ASSUME TreeInv, Same, UNCHANGED <<mode, repairs>>, turn'.pc # "none" => tip # 0
    PROVE  TreeInv'
BY DEF TreeInv, Tips, Parents, Rootless, Rooted, Same

LEMMA AddKeepsTree ==
    ASSUME TreeInv, NEW e, Adds(e), tip # 0
    PROVE  TreeInv'
<1>1. log # <<>> /\ tip \in 1..Len(log)
    BY Empty DEF TreeInv, Tips
<1> QED
    BY <1>1, Appended, Empty DEF TreeInv, Tips, Parents, Rootless, Rooted, Adds

LEMMA DropKeepsTree ==
    ASSUME TreeInv, Drops, log # <<>>
    PROVE  TreeInv'
<1>1. tip # 0
    BY DEF TreeInv, Rooted, Drops
<1> QED
    BY <1>1, Tailed, Empty DEF TreeInv, Tips, Parents, Rootless, Rooted, Drops

LEMMA ReplaceKeepsTree ==
    ASSUME TreeInv, NEW e, Replaces(e), log # <<>>
    PROVE  TreeInv'
<1>1. tip # 0
    BY DEF TreeInv, Rooted, Replaces
<1>2. IsSeq(Tail(appends))
    BY Tailed DEF TreeInv, Tips, Replaces
<1>3. Parents'
  <2>1. \A k \in 1..Len(Tail(appends)) : /\ Tail(appends)[k].event.parent \in 0..Len(log)
                                          /\ Tail(appends)[k].event.parent = 0 => log = <<>>
    BY Tailed DEF TreeInv, Tips, Parents, Replaces
  <2> QED
    BY <1>1, <1>2, <2>1, Appended, Empty DEF TreeInv, Tips, Parents, Replaces
<1> QED
    BY <1>1, <1>2, <1>3, Appended, Empty DEF TreeInv, Tips, Rootless, Rooted, Replaces

LEMMA StoreKeepsTree ==
    ASSUME TreeInv, Stores
    PROVE  TreeInv'
<1>1. /\ IsSeq(log') /\ Len(log') = Len(log) + 1 /\ log' # <<>> /\ Len(log) \in Nat
      /\ log'[Len(log) + 1] = appends[1].event
      /\ \A i \in 1..Len(log) : log'[i] = log[i]
    BY Appended, Tailed DEF TreeInv, Tips, Stores, Stored
<1>2. /\ IsSeq(appends') /\ Len(appends) \in Nat \ {0} /\ Len(appends') = Len(appends) - 1
      /\ \A k \in 1..Len(appends') : k + 1 \in 1..Len(appends) /\ appends'[k] = appends[k + 1]
    BY Tailed DEF TreeInv, Tips, Stores, Stored
<1>3. tip' = Len(log')
    BY <1>1 DEF Stores, Stored
<1>4. log = <<>> => Len(appends) = 1
    BY DEF TreeInv, Rootless, Stores
<1>5. Parents'
  <2>1. ASSUME NEW i \in 1..Len(log')
        PROVE  log'[i].parent \in 0..(i - 1) /\ (log'[i].parent = 0 => i = 1)
    <3>1. CASE i \in 1..Len(log)
      BY <1>1, <3>1 DEF TreeInv, Parents
    <3>2. CASE i = Len(log) + 1
      <4>1. appends[1].event.parent \in 0..Len(log) /\ (appends[1].event.parent = 0 => log = <<>>)
        BY <1>2 DEF TreeInv, Parents
      <4>2. log = <<>> => Len(log) = 0
        BY Empty DEF TreeInv, Tips
      <4> QED
        BY <1>1, <3>2, <4>1, <4>2
    <3> QED
      BY <1>1, <3>1, <3>2
  <2>2. ASSUME NEW k \in 1..Len(appends')
        PROVE  /\ appends'[k].event.parent \in 0..Len(log')
               /\ appends'[k].event.parent # 0
    <3>1. k + 1 \in 1..Len(appends) /\ appends'[k] = appends[k + 1] /\ Len(appends) # 1
      BY <1>2
    <3> QED
      BY <1>1, <1>4, <3>1 DEF TreeInv, Parents
  <2> QED
    BY <2>1, <2>2 DEF Parents
<1> QED
    BY <1>1, <1>2, <1>3, <1>5 DEF TreeInv, Tips, Rootless, Rooted

-----------------------------------------------------------------------------
(* The actions, by what they do.                                           *)

\* An entry that is neither a client's answer nor a repair.
Own(e) == e.who \notin Clients /\ e.who # "open" /\ ~Resolves(e.event)

Counted == used' \in [calls : Nat, extras : Nat, crashed : BOOLEAN] /\ used'.crashed = used.crashed

LEMMA ExtraCounted ==
    ASSUME AskType, Extra
    PROVE  Counted
BY DEF AskType, Extra, Counted

\* The steps of a running turn leave everything but the turn and its next append.
LEMMA TurnSteps ==
    ASSUME TreeInv, AskType, TurnStep
    PROVE  /\ tip # 0 /\ UNCHANGED <<mode, repairs, ask, won>>
           /\ Counted
           /\ Same \/ \E e : Adds(e) /\ Own(e)
<1>1. tip # 0
    BY DEF TreeInv, Tips, TurnStep, CompactAtThreshold, Summarized, Resume, CallModel, ModelAnswers,
           Reply, NextCall, ToolReturns, Boundary, ContinueQueued, MissingToolCall, AskerGoesOn
<1>2. ASSUME NEW type, NEW ref, type # "interaction.resolved",
             Enqueue(type, ref, "turn"), UNCHANGED <<log, tip>>
      PROVE  \E e : Adds(e) /\ Own(e)
  <2> DEFINE e == [event |-> Event(type, ref), who |-> "turn"]
  <2>1. Adds(e)
    BY <1>2 DEF Adds, Enqueue, Event
  <2>2. Own(e)
    BY <1>2, TurnAssumptions DEF Own, Resolves, Event
  <2> QED
    BY <2>1, <2>2
<1>3. ASSUME NEW t, Compact(t), UNCHANGED <<log, tip>>
      PROVE  Counted /\ (Same \/ \E e : Adds(e) /\ Own(e))
  <2>1. Counted
    BY <1>3, ExtraCounted DEF Compact
  <2>2. Enqueue("compaction.started", 0, "turn") \/ UNCHANGED appends
    BY <1>3 DEF Compact
  <2> QED
    BY <1>2, <1>3, <2>1, <2>2 DEF Same
<1>4. used' = used => Counted
    BY DEF Counted, AskType
<1>5. CASE CompactAtThreshold
    BY <1>1, <1>3, <1>5 DEF CompactAtThreshold, Calls, opening
<1>6. CASE Summarized
    BY <1>1, <1>2, <1>4, <1>6 DEF Summarized, Calls, opening
<1>7. CASE Resume
    BY <1>1, <1>2, <1>4, <1>7 DEF Resume, Calls, opening, Same
<1>8. CASE CallModel
    BY <1>1, <1>2, <1>4, <1>8 DEF CallModel, Calls, opening, Same
<1>9. CASE ModelAnswers
  <2>1. Calls /\ UNCHANGED <<opening, ask, won>>
    BY <1>9 DEF ModelAnswers
  <2>2. CASE Extra /\ Enqueue("model.retry_scheduled", 0, "turn")
    BY <1>1, <1>2, <2>1, <2>2, ExtraCounted DEF Calls, opening
  <2>3. CASE Compact([turn EXCEPT !.outcome = "error", !.overflowed = TRUE])
    BY <1>1, <1>3, <2>1, <2>3 DEF Calls, opening
  <2>4. CASE /\ \E n \in 0..2 : used' = [used EXCEPT !.calls = @ + n]
             /\ Enqueue("assistant.message", 0, "turn")
    BY <1>1, <1>2, <2>1, <2>4 DEF Counted, AskType, Calls, opening
  <2> QED
    BY <1>9, <2>2, <2>3, <2>4 DEF ModelAnswers
<1>10. CASE Reply
    BY <1>1, <1>2, <1>4, <1>10 DEF Reply, Calls, opening
<1>11. CASE NextCall
    BY <1>1, <1>2, <1>4, <1>11 DEF NextCall, Calls, opening
<1>12. CASE ToolReturns
    BY <1>1, <1>2, <1>4, <1>12 DEF ToolReturns, Calls, opening
<1>13. CASE Boundary
    BY <1>1, <1>2, <1>4, <1>13 DEF Boundary, Calls, opening, Same
<1>14. CASE ContinueQueued
    BY <1>1, <1>2, <1>4, <1>14 DEF ContinueQueued, Calls, opening, Same
<1>15. CASE MissingToolCall
    BY <1>1, <1>2, <1>4, <1>15 DEF MissingToolCall, Calls, opening
<1>16. CASE AskerGoesOn
    BY <1>1, <1>4, <1>16 DEF AskerGoesOn, NoAppend, opening, Same
<1> QED
    BY <1>5, <1>6, <1>7, <1>8, <1>9, <1>10, <1>11, <1>12, <1>13, <1>14, <1>15, <1>16 DEF TurnStep

\* Any other operation that only calls an append.
LEMMA OperationSteps ==
    ASSUME TreeInv, AskType,
           RunTurn \/ Steer \/ OtherAppends \/ Restore
    PROVE  /\ tip # 0 /\ UNCHANGED <<mode, repairs, ask, won>>
           /\ Counted
           /\ Same \/ \E e : Adds(e) /\ Own(e)
<1>1. mode = "open" => tip # 0
    BY DEF TreeInv, Rootless, Rooted
<1>2. tip # 0
    BY <1>1 DEF RunTurn, Steer, OtherAppends, Restore
<1>3. used' = used => Counted
    BY DEF Counted, AskType
<1>4. CASE RunTurn
  <2>1. PICK m : Enqueue("user.message", m, "turn")
    BY <1>4 DEF RunTurn
  <2> DEFINE e == [event |-> Event("user.message", m), who |-> "turn"]
  <2>2. Adds(e)
    BY <1>4, <2>1 DEF RunTurn, Adds, Enqueue, Event, Calls
  <2>3. Own(e)
    BY TurnAssumptions DEF Own, Resolves, Event
  <2> QED
    BY <1>2, <1>3, <1>4, <2>2, <2>3 DEF RunTurn, opening
<1>5. CASE Steer
    BY <1>2, <1>3, <1>5 DEF Steer, NoAppend, opening, Same
<1>6. CASE OtherAppends
  <2>1. PICK type \in Beside : Enqueue(type, 0, "other")
    BY <1>6 DEF OtherAppends
  <2> DEFINE e == [event |-> Event(type, 0), who |-> "other"]
  <2>2. Adds(e)
    BY <1>6, <2>1 DEF OtherAppends, Adds, Enqueue, Event, Calls
  <2>3. Own(e)
    BY TurnAssumptions DEF Own, Resolves, Event
  <2> QED
    BY <1>2, <1>6, <2>2, <2>3, ExtraCounted DEF OtherAppends, opening
<1>7. CASE Restore
  <2> DEFINE e == [event |-> Event("queue.restored", 0), who |-> "restore",
                   items |-> steering \o followUp]
  <2>1. Adds(e)
    BY <1>7 DEF Restore, Adds, Event, Calls
  <2>2. Own(e)
    BY TurnAssumptions DEF Own, Resolves, Event
  <2> QED
    BY <1>2, <1>7, <2>1, <2>2, ExtraCounted DEF Restore, opening
<1> QED
    BY <1>4, <1>5, <1>6, <1>7

\* An append of the turn, of an extension or of a restore is settled.
LEMMA OwnSettles ==
    ASSUME TreeInv, AskType,
           TurnStored \/ TurnFails \/ OtherSettles \/ RestoreSettles
    PROVE  /\ log # <<>> /\ UNCHANGED <<mode, repairs, ask, won>>
           /\ Counted
           /\ appends # <<>> /\ Head(appends).who \in {"turn", "other", "restore"}
           /\ Stores \/ Drops \/ \E e : Replaces(e) /\ Own(e)
<1>1. appends # <<>> /\ Head(appends).who \in {"turn", "other", "restore"}
    BY DEF TurnStored, TurnFails, OtherSettles, RestoreSettles, Waits
<1>2. log # <<>>
    BY <1>1, Tailed DEF TreeInv, Tips, Rootless
<1>3. used' = used => Counted
    BY DEF Counted, AskType
<1>4. Failed => Drops /\ Counted
    BY <1>1, ExtraCounted DEF Failed, Drops
<1>5. CASE TurnStored
    BY <1>1, <1>2, <1>3, <1>5 DEF TurnStored, opening, Stores
<1>6. CASE TurnFails
  <2>1. Counted
    BY <1>6, ExtraCounted DEF TurnFails
  <2> DEFINE e == [event |-> Event("compaction.failed", 0), who |-> "turn"]
  <2>2. Own(e)
    BY TurnAssumptions DEF Own, Resolves, Event
  <2>3. Replaces(e) \/ Drops
    BY <1>1, <1>6 DEF TurnFails, Replaces, Drops, Event
  <2> QED
    BY <1>1, <1>2, <1>6, <2>1, <2>2, <2>3 DEF TurnFails, opening
<1>7. CASE OtherSettles
    BY <1>1, <1>2, <1>3, <1>4, <1>7 DEF OtherSettles, opening, Stores
<1>8. CASE RestoreSettles
    BY <1>1, <1>2, <1>3, <1>4, <1>8 DEF RestoreSettles, opening, Stores
<1> QED
    BY <1>5, <1>6, <1>7, <1>8

\* A tool asks, or a client answers.
LEMMA AskAdds ==
    ASSUME TreeInv, ToolAsks \/ \E c \in Clients : Respond(c)
    PROVE  tip # 0 /\ UNCHANGED <<mode, repairs, used, won>> /\ \E e : Adds(e)
<1>1. tip # 0
    BY DEF TreeInv, Tips, Rootless, Rooted, ToolAsks, Respond
<1>2. CASE ToolAsks
    BY <1>1, <1>2 DEF ToolAsks, Enqueue, Event, Adds, Calls, opening
<1>3. CASE \E c \in Clients : Respond(c)
    BY <1>1, <1>3 DEF Respond, Enqueue, Event, Adds, Calls, opening
<1> QED
    BY <1>2, <1>3

LEMMA AskStays ==
    ASSUME Interrupt \/ AskTimesOut
    PROVE  Same /\ UNCHANGED <<mode, repairs, used, won>> /\ (turn'.pc # "none" => turn.pc # "none")
BY DEF Interrupt, AskTimesOut, NoAppend, Same, opening

LEMMA AnswerSettles ==
    ASSUME TreeInv, AskSettles \/ \E c \in Clients : ResponseSettles(c)
    PROVE  /\ log # <<>> /\ UNCHANGED <<mode, repairs>>
           /\ appends # <<>> /\ Head(appends).who \in Clients \cup {"ask"}
           /\ Stores \/ (Drops /\ Extra)
<1>1. appends # <<>> /\ Head(appends).who \in Clients \cup {"ask"}
    BY DEF AskSettles, ResponseSettles, Waits
<1>2. log # <<>>
    BY <1>1, Tailed, TurnAssumptions DEF TreeInv, Tips, Rootless
<1>3. CASE AskSettles
    BY <1>1, <1>2, <1>3 DEF AskSettles, opening, Failed, Drops, Stores
<1>4. CASE \E c \in Clients : ResponseSettles(c)
    BY <1>1, <1>2, <1>4 DEF ResponseSettles, opening, Failed, Drops, Stores
<1> QED
    BY <1>3, <1>4

\* A recovery appends its next repair, with the tip as its parent.
LEMMA RecoverKeepsTree ==
    ASSUME TreeInv, Recover
    PROVE  TreeInv'
<1>1. CASE repairs = <<>>
  <2>1. log # <<>>
    BY <1>1, Empty DEF Recover, TreeInv, Tips, Rootless
  <2>2. tip # 0
    BY <2>1 DEF Recover, TreeInv, Rooted
  <2> QED
    BY <1>1, <2>1, <2>2 DEF Recover, Calls, TreeInv, Tips, Parents, Rootless, Rooted
<1>2. CASE repairs # <<>> /\ log # <<>>
  <2> DEFINE e == [event |-> Event(Head(repairs).type, Head(repairs).ref), who |-> "open"]
  <2>1. Adds(e)
    BY <1>2 DEF Recover, Calls, Adds, Enqueue, Event
  <2>2. tip # 0
    BY <1>2 DEF Recover, TreeInv, Rooted
  <2> QED
    BY <2>1, <2>2, AddKeepsTree
<1>3. CASE repairs # <<>> /\ log = <<>>
  <2> DEFINE e == [event |-> Event(Head(repairs).type, Head(repairs).ref), who |-> "open"]
  <2>1. repairs = <<Root>> /\ appends = <<>> /\ Len(log) = 0 /\ tip = 0
    BY <1>3, Empty DEF Recover, TreeInv, Tips, Rootless
  <2>2. appends' = <<e>> /\ repairs' = <<>> /\ UNCHANGED <<log, tip, mode, turn>>
    BY <1>3, <2>1 DEF Recover, Calls, Enqueue
  <2>3. IsSeq(appends') /\ Len(appends') = 1 /\ appends'[1] = e
    <3>1. appends' = Append(appends, e) /\ IsSeq(appends) /\ Len(appends) = 0
      BY <1>3, <2>1 DEF Recover, Enqueue, TreeInv, Tips
    <3> HIDE DEF e
    <3>2. appends'[Len(appends) + 1] = e /\ Len(appends') = Len(appends) + 1 /\ IsSeq(appends')
      BY <3>1, Appended
    <3> QED
      BY <3>1, <3>2
  <2>4. e.event.parent = 0 /\ e.who = "open"
    BY <2>1 DEF Event
  <2> QED
    BY <1>3, <2>1, <2>2, <2>3, <2>4 DEF Recover, TreeInv, Tips, Parents, Rootless, Rooted
<1> QED
    BY <1>1, <1>2, <1>3

\* One repair is stored, or it fails and the session is closed again.
LEMMA RecoverySettlesKeepsTree ==
    ASSUME TreeInv, RecoverySettles
    PROVE  TreeInv'
<1>1. appends # <<>> /\ (Stores \/ Drops)
    BY DEF RecoverySettles, Waits, Stores, Failed, Drops
<1>2. CASE Stores
    BY <1>2, StoreKeepsTree
<1>3. CASE Drops /\ log # <<>>
    BY <1>3, DropKeepsTree
<1>4. CASE Drops /\ log = <<>>
  <2>1. Len(appends) = 1 /\ turn.pc = "none"
    BY <1>1, <1>4, Empty DEF TreeInv, Tips, Rootless
  <2>2. IsSeq(appends') /\ appends' = <<>>
    BY <1>4, <2>1, Tailed, Empty DEF TreeInv, Tips, Drops
  <2>3. mode' = "closed" /\ UNCHANGED <<log, tip, turn>>
    BY <1>1, <1>4, Appended DEF RecoverySettles, Failed, Stored, Drops, TreeInv, Tips
  <2> QED
    BY <1>4, <2>1, <2>2, <2>3, Empty DEF TreeInv, Tips, Parents, Rootless, Rooted
<1> QED
    BY <1>1, <1>2, <1>3, <1>4

LEMMA OpenKeepsTree ==
    ASSUME TreeInv, Open
    PROVE  TreeInv'
<1>1. IsSeq(log) /\ Len(log) \in Nat /\ (log = <<>> <=> Len(log) = 0) /\ appends = <<>>
    BY Empty DEF TreeInv, Tips, Open
<1>2. CASE Openable(log)
  <2>1. log = <<>> => repairs' = <<Root>>
    BY <1>2 DEF Open, Repairs
  <2>2. tip' = Len(log) /\ mode' = "recovering" /\ UNCHANGED <<log, appends, turn>>
    BY <1>2 DEF Open
  <2> QED
    BY <1>1, <2>1, <2>2, Empty DEF TreeInv, Tips, Parents, Rootless, Rooted
<1>3. CASE ~Openable(log)
    BY <1>1, <1>3 DEF Open, TreeInv, Tips, Parents, Rootless, Rooted
<1> QED
    BY <1>2, <1>3

LEMMA CrashKeepsTree ==
    ASSUME TreeInv, Crash
    PROVE  TreeInv'
<1>1. /\ appends' = <<>> /\ tip' = 0 /\ mode' = "closed" /\ turn'.pc = "none"
      /\ IsSeq(appends') /\ Len(appends') = 0
    BY DEF Crash, NoTurn, IsSeq
<1>2. CASE UNCHANGED log
    BY <1>1, <1>2, Empty DEF TreeInv, Tips, Parents, Rootless, Rooted
<1>3. CASE appends # <<>> /\ log' = Append(log, Head(appends).event)
  <2>1. /\ IsSeq(log') /\ Len(log') = Len(log) + 1 /\ log' # <<>> /\ Len(log) \in Nat
        /\ log'[Len(log) + 1] = appends[1].event
        /\ \A i \in 1..Len(log) : log'[i] = log[i]
        /\ 1 \in 1..Len(appends)
    BY <1>3, Appended, Tailed DEF TreeInv, Tips
  <2>2. ASSUME NEW i \in 1..Len(log')
        PROVE  log'[i].parent \in 0..(i - 1) /\ (log'[i].parent = 0 => i = 1)
    BY <2>1, Empty DEF TreeInv, Tips, Parents
  <2> QED
    BY <1>1, <2>1, <2>2 DEF TreeInv, Tips, Parents, Rootless, Rooted
<1> QED
    BY <1>2, <1>3 DEF Crash

LEMMA NextKeepsTree ==
    ASSUME TreeInv, AskType, [Next]_vars
    PROVE  TreeInv'
<1>1. CASE UNCHANGED vars
    BY <1>1 DEF vars, TreeInv, Tips, Parents, Rootless, Rooted
<1>2. CASE TurnStep
    BY <1>2, TurnSteps, SameKeepsTree, AddKeepsTree
<1>3. CASE RunTurn \/ Steer \/ OtherAppends \/ Restore
    BY <1>3, OperationSteps, SameKeepsTree, AddKeepsTree
<1>4. CASE TurnStored \/ TurnFails \/ OtherSettles \/ RestoreSettles
    BY <1>4, OwnSettles, StoreKeepsTree, DropKeepsTree, ReplaceKeepsTree
<1>5. CASE ToolAsks \/ \E c \in Clients : Respond(c)
    BY <1>5, AskAdds, AddKeepsTree
<1>6. CASE Interrupt \/ AskTimesOut
  <2>1. Same /\ UNCHANGED <<mode, repairs>> /\ (turn'.pc # "none" => turn.pc # "none")
    BY <1>6, AskStays
  <2> QED
    BY <2>1, SameKeepsTree DEF TreeInv, Tips
<1>7. CASE AskSettles \/ \E c \in Clients : ResponseSettles(c)
    BY <1>7, AnswerSettles, StoreKeepsTree, DropKeepsTree
<1>8. CASE Open \/ Recover \/ Crash \/ RecoverySettles
    BY <1>8, OpenKeepsTree, RecoverKeepsTree, CrashKeepsTree, RecoverySettlesKeepsTree
<1> QED
    BY <1>1, <1>2, <1>3, <1>4, <1>5, <1>6, <1>7, <1>8 DEF Next, Settles

\* The fields of the last interaction and of the counters.
LEMMA NextKeepsAskType ==
    ASSUME TreeInv, AskType, [Next]_vars
    PROVE  AskType'
<1>1. \A how \in {"answered", "rejected"} : Settle(ask, how) \in
        [id : Nat, listed : BOOLEAN, kind : Kinds \cup {"none"}, resolving : BOOLEAN,
         asker : {"none", "waiting", "answered", "rejected"}]
    BY DEF AskType, Settle
<1>2. CASE UNCHANGED vars
    BY <1>2 DEF vars, AskType
<1>3. CASE TurnStep
    BY <1>3, TurnSteps DEF Counted, AskType
<1>4. CASE RunTurn \/ Steer \/ OtherAppends \/ Restore
    BY <1>4, OperationSteps DEF Counted, AskType
<1>5. CASE TurnStored \/ TurnFails \/ OtherSettles \/ RestoreSettles
    BY <1>5, OwnSettles DEF Counted, AskType
<1>6. CASE ToolAsks
    BY <1>6 DEF ToolAsks, AskType
<1>7. CASE \E c \in Clients : Respond(c)
    BY <1>7 DEF Respond, AskType
<1>8. CASE Interrupt \/ AskTimesOut
    BY <1>1, <1>8 DEF Interrupt, AskTimesOut, AskType
<1>9. CASE AskSettles
  <2>1. used' = used \/ Counted
    BY <1>9, ExtraCounted DEF AskSettles, Failed
  <2>2. ask' = ask \/ ask' = Settle(ask, "rejected")
    BY <1>9 DEF AskSettles
  <2> QED
    BY <1>1, <2>1, <2>2 DEF Counted, AskType
<1>10. CASE \E c \in Clients : ResponseSettles(c)
  <2>1. used' = used \/ Counted
    BY <1>10, ExtraCounted DEF ResponseSettles, Failed
  <2>2. ask' \in {ask, Settle(ask, "answered"), Settle(ask, "rejected")}
    BY <1>10 DEF ResponseSettles
  <2> QED
    BY <1>1, <2>1, <2>2 DEF Counted, AskType
<1>11. CASE Open \/ Recover
    BY <1>11 DEF Open, Recover, AskType
<1>12. CASE RecoverySettles
  <2>1. used' = used \/ Counted
    BY <1>12, ExtraCounted DEF RecoverySettles, Failed
  <2>2. ask' = ask
    BY <1>12 DEF RecoverySettles
  <2> QED
    BY <2>1, <2>2 DEF Counted, AskType
<1>13. CASE Crash
  <2>1. used' \in [calls : Nat, extras : Nat, crashed : BOOLEAN]
    <3>1. used' = [[used EXCEPT !.extras = used.extras + 1] EXCEPT !.crashed = TRUE]
      BY <1>13 DEF Crash
    <3>2. [used EXCEPT !.extras = used.extras + 1] \in
              [calls : Nat, extras : Nat, crashed : BOOLEAN]
      BY DEF AskType
    <3> QED
      BY <3>1, <3>2
  <2>2. ask' = [id |-> ask.id, listed |-> FALSE, kind |-> "none", resolving |-> FALSE,
                asker |-> "none"]
    BY <1>13 DEF Crash, NoAsk
  <2> QED
    BY <2>1, <2>2 DEF AskType
<1> QED
    BY <1>2, <1>3, <1>4, <1>5, <1>6, <1>7, <1>8, <1>9, <1>10, <1>11, <1>12, <1>13
       DEF Next, Settles

LEMMA Starts == Init => TreeInv /\ AskType
<1> SUFFICES ASSUME Init  PROVE TreeInv /\ AskType
    OBVIOUS
<1>1. IsSeq(<<>>) /\ Len(<<>>) = 0
    BY DEF IsSeq
<1> QED
    BY <1>1 DEF Init, TreeInv, Tips, Parents, Rootless, Rooted, AskType, NoAsk, NoTurn

(* The stored events are a tree with one root, whatever is appended side by side, fails or
   is repaired after a crash (SessionTree.fromEvents accepts every log it is given). *)
THEOREM TreeHolds == Spec => []TreeWellFormed
<1>1. TreeInv /\ AskType /\ [Next]_vars => TreeInv' /\ AskType'
    BY NextKeepsTree, NextKeepsAskType
<1>2. TreeInv => TreeWellFormed
    BY DEF TreeInv, Tips, Parents, TreeWellFormed, IsSeq
<1> QED
    BY <1>1, <1>2, Starts, PTL DEF Spec

-----------------------------------------------------------------------------
(* Interactions: what is closed stays closed, and who can still answer.    *)

\* The last interaction never opens again; a new one has a new id.
Forward ==
    /\ ask'.id \in Nat /\ ask.id <= ask'.id
    /\ ask'.id = ask.id => /\ ask'.listed => ask.listed
                           /\ ask.resolving => ask'.resolving \/ ~ask'.listed

\* Closed in the next state, of an id that may itself be one of the next state.
ClosedNext(id) == id \in 0..ask'.id /\ (id = ask'.id => ~ask'.listed \/ ask'.resolving)

LEMMA ClosedStays ==
    ASSUME AskType, Forward
    PROVE  \A id : Closed(id) => ClosedNext(id)
BY DEF AskType, Forward, Closed, ClosedNext

\* An entry that neither answers nor, in a process that has not crashed, resolves.
Foreign(e) == e.who \notin Clients /\ (~used'.crashed => ~Resolves(e.event))

\* The entries left are the old ones, d places further, and foreign ones.
Matches(d) ==
    \A k \in 1..Len(appends') :
        \/ Foreign(appends'[k])
        \/ k + d \in 1..Len(appends) /\ appends'[k] = appends[k + d]

\* The log got no resolution.
NoneResolved ==
    \A i \in 1..Len(log') :
        \/ i \in 1..Len(log) /\ log'[i] = log[i]
        \/ ~Resolves(log'[i])

\* Two answers on their way are for two interactions.
LEMMA OneUnderway ==
    ASSUME Underways,
           NEW j \in 1..Len(appends), appends[j].who \in Clients,
           NEW k \in 1..Len(appends), appends[k].who \in Clients,
           appends[j].event.ref = appends[k].event.ref
    PROVE  j = k
BY DEF Underways, Answers

NeverUncrashed == ~used'.crashed => ~used.crashed

LEMMA MatchKeepsAnswers ==
    ASSUME AnswerInv, Forward, won' = won, NeverUncrashed, NEW d \in Nat, Matches(d),
           ~used'.crashed => NoneResolved
    PROVE  Underways' /\ Winners' /\ (~used'.crashed => Resolved')
<1>1. ASSUME NEW k \in 1..Len(appends'), appends'[k].who \in Clients
      PROVE  /\ k + d \in 1..Len(appends) /\ appends'[k] = appends[k + d]
             /\ appends[k + d].who \in Clients
    BY <1>1 DEF Matches, Foreign
<1>2. Underways'
  <2>1. ASSUME NEW k \in 1..Len(appends'), appends'[k].who \in Clients
        PROVE  /\ ClosedNext(appends'[k].event.ref)
               /\ \A w \in won' : w[2] # appends'[k].event.ref
    BY <1>1, <2>1, ClosedStays DEF AnswerInv, Underways, Answers
  <2>2. ASSUME NEW k \in 1..Len(appends'), appends'[k].who \in Clients,
               NEW j \in 1..Len(appends'), appends'[j].who \in Clients,
               appends'[j].event.ref = appends'[k].event.ref
        PROVE  j = k
    <3>1. /\ k + d \in 1..Len(appends) /\ appends[k + d].who \in Clients
          /\ j + d \in 1..Len(appends) /\ appends[j + d].who \in Clients
          /\ appends[j + d].event.ref = appends[k + d].event.ref
      BY <1>1, <2>2
    <3>2. j + d = k + d
      BY <3>1, OneUnderway DEF AnswerInv
    <3> QED
      BY <3>2
  <2> QED
    BY <2>1, <2>2 DEF Underways, Answers, Closed, ClosedNext
<1>3. Winners'
  <2>1. \A w \in won' : ClosedNext(w[2])
    BY ClosedStays DEF AnswerInv, Winners
  <2> QED
    BY <2>1 DEF AnswerInv, Winners, Closed, ClosedNext
<1>4. ASSUME ~used'.crashed  PROVE Resolved'
  <2>1. Resolved /\ NoneResolved
    BY <1>4 DEF AnswerInv, NeverUncrashed
  <2>2. ASSUME NEW k \in 1..Len(appends'), Resolves(appends'[k].event)
        PROVE  appends'[k].who \in Clients
    BY <1>4, <2>1, <2>2 DEF Resolved, Matches, Foreign, Answers
  <2>3. ASSUME NEW i \in 1..Len(log'), Resolves(log'[i])
        PROVE  /\ ClosedNext(log'[i].ref)
               /\ \A k \in 1..Len(appends') :
                     appends'[k].who \in Clients => appends'[k].event.ref # log'[i].ref
               /\ \A j \in 1..Len(log') : Resolves(log'[j]) /\ log'[j].ref = log'[i].ref => j = i
    <3>1. i \in 1..Len(log) /\ log'[i] = log[i]
      BY <2>1, <2>3 DEF NoneResolved
    <3>2. ClosedNext(log'[i].ref)
      BY <2>1, <2>3, <3>1, ClosedStays DEF Resolved, AnswerInv
    <3>3. \A k \in 1..Len(appends') :
             appends'[k].who \in Clients => appends'[k].event.ref # log'[i].ref
      BY <1>1, <2>1, <2>3, <3>1 DEF Resolved, Answers
    <3>4. ASSUME NEW j \in 1..Len(log'), Resolves(log'[j]), log'[j].ref = log'[i].ref
          PROVE  j = i
      BY <2>1, <2>3, <3>1, <3>4 DEF Resolved, NoneResolved
    <3> QED
      BY <3>2, <3>3, <3>4
  <2>4. \A k \in 1..Len(appends') : Resolves(appends'[k].event) => Answers(k)'
    BY <2>2 DEF Answers
  <2>5. \A i \in 1..Len(log') : Resolves(log'[i]) =>
          /\ Closed(log[i].ref)'
          /\ \A k \in 1..Len(appends') : Answers(k)' => appends'[k].event.ref # log'[i].ref
          /\ \A j \in 1..Len(log') : Resolves(log'[j]) /\ log'[j].ref = log'[i].ref => j = i
    BY <2>3 DEF Answers, Closed, ClosedNext
  <2> QED
    BY <2>4, <2>5 DEF Resolved, Resolves
<1> QED
    BY <1>2, <1>3, <1>4

\* What AddKeepsTree, DropKeepsTree and StoreKeepsTree are to the tree, for the answers.
LEMMA SameMatches ==
    ASSUME TreeInv, Same
    PROVE  Matches(0) /\ NoneResolved
BY Empty DEF TreeInv, Tips, Same, Matches, NoneResolved

LEMMA AddMatches ==
    ASSUME TreeInv, NEW e, Adds(e), Foreign(e)
    PROVE  Matches(0) /\ NoneResolved
BY Appended DEF TreeInv, Tips, Adds, Matches, NoneResolved

LEMMA DropMatches ==
    ASSUME TreeInv, Drops
    PROVE  Matches(1) /\ NoneResolved
BY Tailed DEF TreeInv, Tips, Drops, Matches, NoneResolved

LEMMA ReplaceMatches ==
    ASSUME TreeInv, NEW e, Replaces(e), Foreign(e)
    PROVE  Matches(1) /\ NoneResolved
<1>1. IsSeq(Tail(appends)) /\ \A k \in 1..Len(Tail(appends)) :
          k + 1 \in 1..Len(appends) /\ Tail(appends)[k] = appends[k + 1]
    BY Tailed DEF TreeInv, Tips, Replaces
<1>2. Len(Tail(appends)) \in Nat /\ Len(appends') = Len(Tail(appends)) + 1
      /\ appends'[Len(Tail(appends)) + 1] = e
      /\ \A k \in 1..Len(Tail(appends)) : appends'[k] = Tail(appends)[k]
    BY <1>1, Appended DEF Replaces
<1>3. Matches(1)
    BY <1>1, <1>2 DEF Matches
<1> QED
    BY <1>3 DEF Replaces, NoneResolved

\* The oldest append is stored and is no client's answer.
LEMMA StoreMatches ==
    ASSUME TreeInv, AnswerInv, Stores, Head(appends).who \notin Clients
    PROVE  Matches(1) /\ (~used.crashed => NoneResolved)
<1>1. Matches(1)
    BY Tailed DEF TreeInv, Tips, Stores, Stored, Matches
<1>2. ASSUME ~used.crashed  PROVE NoneResolved
  <2>1. Head(appends) = appends[1] /\ 1 \in 1..Len(appends)
    BY Tailed DEF TreeInv, Tips, Stores
  <2>2. ~Resolves(Head(appends).event)
    BY <1>2, <2>1 DEF AnswerInv, Resolved, Answers
  <2> QED
    BY <2>2, Appended DEF TreeInv, Tips, Stores, Stored, NoneResolved
<1> QED
    BY <1>1, <1>2

LEMMA SettleForward ==
    ASSUME AskType, NEW how, ask' = Settle(ask, how)
    PROVE  Forward
<1>1. ask'.id = ask.id /\ ask'.listed = FALSE /\ ask'.resolving = ask.resolving
    BY DEF AskType, Settle
<1> QED
    BY <1>1 DEF Forward, AskType

\* A client answers: the entry resolves from now on, so nobody else can.
LEMMA RespondKeepsAnswers ==
    ASSUME TreeInv, AnswerInv, NEW c \in Clients, Respond(c)
    PROVE  Underways' /\ Winners' /\ (~used'.crashed => Resolved')
<1> DEFINE e == [event |-> Event("interaction.resolved", ask.id), who |-> c]
<1>1. /\ Len(appends) \in Nat /\ Len(appends') = Len(appends) + 1
      /\ appends'[Len(appends) + 1] = e
      /\ \A k \in 1..Len(appends) : appends'[k] = appends[k]
    BY Appended DEF TreeInv, Tips, Respond, Enqueue
<1>2. e.who \in Clients /\ e.event.ref = ask.id
    BY DEF Event
<1>3. ask.listed /\ ~ask.resolving /\ won' = won /\ log' = log /\ used' = used
    BY DEF Respond, Calls
<1>4. ask'.id = ask.id /\ ask'.resolving = TRUE /\ ask'.listed = ask.listed /\ ask.id \in Nat
    BY DEF Respond, AnswerInv, AskType
<1> HIDE DEF e
<1>5. Forward
    BY <1>4 DEF Forward
<1>6. ~Closed(ask.id) /\ ClosedNext(ask.id) /\ \A id : Closed(id) => ClosedNext(id)
    BY <1>3, <1>4, <1>5, ClosedStays DEF Closed, ClosedNext, AnswerInv
<1>7. Underways'
  <2>1. ASSUME NEW k \in 1..Len(appends'), appends'[k].who \in Clients
        PROVE  ClosedNext(appends'[k].event.ref) /\ \A w \in won' : w[2] # appends'[k].event.ref
    BY <1>1, <1>2, <1>3, <1>6, <2>1 DEF AnswerInv, Underways, Winners, Answers
  <2>2. ASSUME NEW k \in 1..Len(appends'), appends'[k].who \in Clients,
               NEW j \in 1..Len(appends'), appends'[j].who \in Clients,
               appends'[j].event.ref = appends'[k].event.ref
        PROVE  j = k
    BY <1>1, <1>2, <1>6, <2>2 DEF AnswerInv, Underways, Answers
  <2> QED
    BY <2>1, <2>2 DEF Underways, Answers, Closed, ClosedNext
<1>8. Winners'
  <2>1. \A w \in won' : ClosedNext(w[2])
    BY <1>3, <1>6 DEF AnswerInv, Winners
  <2> QED
    BY <1>3, <2>1 DEF AnswerInv, Winners, Closed, ClosedNext
<1>9. ASSUME ~used'.crashed  PROVE Resolved'
  <2>1. Resolved
    BY <1>3, <1>9 DEF AnswerInv
  <2>2. \A k \in 1..Len(appends') : Resolves(appends'[k].event) => appends'[k].who \in Clients
    BY <1>1, <1>2, <2>1 DEF Resolved, Answers
  <2>3. \A i \in 1..Len(log) : Resolves(log[i]) =>
          /\ ClosedNext(log[i].ref)
          /\ \A k \in 1..Len(appends') : appends'[k].who \in Clients =>
                appends'[k].event.ref # log[i].ref
          /\ \A j \in 1..Len(log) : Resolves(log[j]) /\ log[j].ref = log[i].ref => j = i
    BY <1>1, <1>2, <1>6, <2>1 DEF Resolved, Answers
  <2>4. \A i \in 1..Len(log) : Resolves(log[i]) => Closed(log[i].ref)'
    BY <1>3, <2>3 DEF Closed, ClosedNext
  <2> QED
    BY <1>3, <2>2, <2>3, <2>4 DEF Resolved, Answers, Resolves
<1> QED
    BY <1>7, <1>8, <1>9

\* An answer is stored: it was the only one for its interaction.
LEMMA StoredAnswerKeepsAnswers ==
    ASSUME TreeInv, AnswerInv, Forward, Stores, NEW c \in Clients, Head(appends).who = c,
           won' = won \cup {<<c, Head(appends).event.ref>>}, used' = used
    PROVE  Underways' /\ Winners' /\ (~used'.crashed => Resolved')
<1> DEFINE id == Head(appends).event.ref
<1>1. /\ Len(appends) \in Nat \ {0} /\ Len(appends') = Len(appends) - 1
      /\ \A k \in 1..Len(appends') : k + 1 \in 1..Len(appends) /\ appends'[k] = appends[k + 1]
      /\ Head(appends) = appends[1] /\ 1 \in 1..Len(appends)
    BY Tailed DEF TreeInv, Tips, Stores, Stored
<1>2. /\ Len(log) \in Nat /\ Len(log') = Len(log) + 1 /\ log'[Len(log) + 1] = appends[1].event
      /\ \A i \in 1..Len(log) : log'[i] = log[i]
    BY <1>1, Appended DEF TreeInv, Tips, Stores, Stored
<1>3. /\ Closed(id) /\ \A w \in won : w[2] # id
      /\ \A j \in 2..Len(appends) : appends[j].who \in Clients => appends[j].event.ref # id
    BY <1>1 DEF AnswerInv, Underways, Answers
<1>4. \A x : Closed(x) => ClosedNext(x)
    BY ClosedStays DEF AnswerInv
<1>5. \A k \in 1..Len(appends') : appends'[k].event.ref # id \/ appends'[k].who \notin Clients
    BY <1>1, <1>3
<1>6. Underways'
  <2>1. ASSUME NEW k \in 1..Len(appends'), appends'[k].who \in Clients
        PROVE  ClosedNext(appends'[k].event.ref) /\ \A w \in won' : w[2] # appends'[k].event.ref
    BY <1>1, <1>4, <1>5, <2>1 DEF AnswerInv, Underways, Answers
  <2>2. ASSUME NEW k \in 1..Len(appends'), appends'[k].who \in Clients,
               NEW j \in 1..Len(appends'), appends'[j].who \in Clients,
               appends'[j].event.ref = appends'[k].event.ref
        PROVE  j = k
    <3>1. /\ k + 1 \in 1..Len(appends) /\ appends[k + 1].who \in Clients
          /\ j + 1 \in 1..Len(appends) /\ appends[j + 1].who \in Clients
          /\ appends[j + 1].event.ref = appends[k + 1].event.ref
      BY <1>1, <2>2
    <3>2. j + 1 = k + 1
      BY <3>1, OneUnderway DEF AnswerInv
    <3> QED
      BY <3>2
  <2> QED
    BY <2>1, <2>2 DEF Underways, Answers, Closed, ClosedNext
<1>7. Winners'
  <2>1. \A w \in won' : ClosedNext(w[2])
    BY <1>3, <1>4 DEF AnswerInv, Winners
  <2>2. \A v, w \in won' : v[2] = w[2] => v = w
    BY <1>3 DEF AnswerInv, Winners
  <2> QED
    BY <2>1, <2>2 DEF Winners, Closed, ClosedNext
<1>8. ASSUME ~used'.crashed  PROVE Resolved'
  <2>1. Resolved
    BY <1>8 DEF AnswerInv
  <2>2. \A k \in 1..Len(appends') : Resolves(appends'[k].event) => appends'[k].who \in Clients
    BY <1>1, <2>1 DEF Resolved, Answers
  <2>3. \A i \in 1..Len(log') : Resolves(log'[i]) => ClosedNext(log'[i].ref)
    BY <1>1, <1>2, <1>3, <1>4, <2>1 DEF Resolved
  <2>4. ASSUME NEW i \in 1..Len(log'), Resolves(log'[i]),
               NEW k \in 1..Len(appends'), appends'[k].who \in Clients
        PROVE  appends'[k].event.ref # log'[i].ref
    <3>1. CASE i \in 1..Len(log)
      BY <1>1, <1>2, <2>1, <2>4, <3>1 DEF Resolved, Answers
    <3>2. CASE i = Len(log) + 1
      BY <1>1, <1>2, <1>5, <2>4, <3>2
    <3> QED
      BY <1>2, <3>1, <3>2
  <2>5. ASSUME NEW i \in 1..Len(log'), NEW j \in 1..Len(log'),
               Resolves(log'[i]), Resolves(log'[j]), log'[j].ref = log'[i].ref
        PROVE  j = i
    <3>1. \A n \in 1..Len(log) : Resolves(log[n]) => log[n].ref # id
      <4>1. 1 \in 1..Len(appends) /\ Answers(1) /\ appends[1].event.ref = id
        BY <1>1 DEF Answers
      <4> QED
        BY <2>1, <4>1 DEF Resolved
    <3>2. log'[Len(log) + 1].ref = id
      BY <1>1, <1>2
    <3>3. \A n \in 1..Len(log') : n \in 1..Len(log) \/ n = Len(log) + 1
      BY <1>2
    <3>4. CASE i \in 1..Len(log) /\ j \in 1..Len(log)
      BY <1>2, <2>1, <2>5, <3>4 DEF Resolved
    <3>5. CASE i \in 1..Len(log) /\ j = Len(log) + 1
      BY <1>2, <2>5, <3>1, <3>2, <3>5
    <3>6. CASE i = Len(log) + 1 /\ j \in 1..Len(log)
      BY <1>2, <2>5, <3>1, <3>2, <3>6
    <3> QED
      BY <3>3, <3>4, <3>5, <3>6
  <2>6. \A i \in 1..Len(log') : Resolves(log'[i]) => Closed(log[i].ref)'
    BY <2>3 DEF Closed, ClosedNext
  <2> QED
    BY <2>2, <2>4, <2>5, <2>6 DEF Resolved, Answers, Resolves
<1> QED
    BY <1>6, <1>7, <1>8

-----------------------------------------------------------------------------
(* The invariant of the answers.                                           *)

LEMMA SameAsk ==
    ASSUME AskType, ask' = ask
    PROVE  Forward
BY DEF AskType, Forward

LEMMA StepKeepsAnswers ==
    ASSUME TreeInv, AnswerInv, [Next]_vars
    PROVE  Underways' /\ Winners' /\ (~used'.crashed => Resolved')
<1> USE DEF NeverUncrashed
<1>1. AskType
    BY DEF AnswerInv
<1>2. ask' = ask => Forward
    BY <1>1, SameAsk
<1>3. \A e : Own(e) => Foreign(e)
    BY DEF Own, Foreign
<1>4. CASE UNCHANGED vars
  <2>1. Same /\ ask' = ask /\ won' = won /\ used' = used
    BY <1>4 DEF vars, Same
  <2> QED
    BY <1>2, <2>1, SameMatches, MatchKeepsAnswers
<1>5. CASE TurnStep \/ RunTurn \/ Steer \/ OtherAppends \/ Restore
  <2>1. /\ UNCHANGED <<ask, won>> /\ Counted
        /\ Same \/ \E e : Adds(e) /\ Own(e)
    BY <1>1, <1>5, TurnSteps, OperationSteps
  <2>2. Matches(0) /\ NoneResolved
    BY <1>3, <2>1, SameMatches, AddMatches
  <2> QED
    BY <1>2, <2>1, <2>2, MatchKeepsAnswers DEF Counted
<1>6. CASE TurnStored \/ TurnFails \/ OtherSettles \/ RestoreSettles
  <2>1. /\ UNCHANGED <<ask, won>> /\ Counted
        /\ Head(appends).who \notin Clients
        /\ Stores \/ Drops \/ \E e : Replaces(e) /\ Own(e)
    BY <1>1, <1>6, OwnSettles, TurnAssumptions
  <2>2. Matches(1) /\ (~used.crashed => NoneResolved)
    BY <1>3, <2>1, StoreMatches, DropMatches, ReplaceMatches
  <2> QED
    BY <1>2, <2>1, <2>2, MatchKeepsAnswers DEF Counted
<1>7. CASE ToolAsks
  <2> DEFINE e == [event |-> Event("interaction.requested", ask.id + 1), who |-> "ask"]
  <2>1. Adds(e)
    BY <1>7 DEF ToolAsks, Adds, Enqueue, Event, Calls
  <2>2. Foreign(e)
    BY TurnAssumptions DEF Foreign, Resolves, Event
  <2>3. Forward /\ won' = won /\ used' = used
    BY <1>1, <1>7 DEF ToolAsks, Forward, AskType
  <2>4. Matches(0) /\ NoneResolved
    BY <2>1, <2>2, AddMatches
  <2> QED
    BY <2>3, <2>4, MatchKeepsAnswers
<1>8. CASE Interrupt \/ AskTimesOut
  <2>1. Same /\ won' = won /\ used' = used
    BY <1>8, AskStays
  <2>2. Forward
    BY <1>1, <1>2, <1>8, SettleForward DEF Interrupt, AskTimesOut
  <2> QED
    BY <2>1, <2>2, SameMatches, MatchKeepsAnswers
<1>9. CASE AskSettles
  <2>1. Head(appends).who \notin Clients /\ won' = won /\ (Stores \/ Drops)
    BY <1>9, TurnAssumptions DEF AskSettles, Waits, Stores, Failed, Drops
  <2>2. Forward
    BY <1>1, <1>2, <1>9, SettleForward DEF AskSettles
  <2>3. used'.crashed = used.crashed
    BY <1>1, <1>9, ExtraCounted DEF AskSettles, Failed, Counted
  <2>4. Matches(1) /\ (~used.crashed => NoneResolved)
    BY <2>1, StoreMatches, DropMatches
  <2> QED
    BY <2>1, <2>2, <2>3, <2>4, MatchKeepsAnswers
<1>10. ASSUME NEW c \in Clients, Respond(c)
       PROVE  Underways' /\ Winners' /\ (~used'.crashed => Resolved')
    BY <1>10, RespondKeepsAnswers
<1>11. ASSUME NEW c \in Clients, ResponseSettles(c)
       PROVE  Underways' /\ Winners' /\ (~used'.crashed => Resolved')
  <2>1. Forward
    BY <1>1, <1>2, <1>11, SettleForward DEF ResponseSettles
  <2>2. \/ /\ Stores /\ Head(appends).who = c /\ used' = used
           /\ won' = won \cup {<<c, Head(appends).event.ref>>}
        \/ Drops /\ Extra /\ won' = won
    BY <1>11 DEF ResponseSettles, Waits, Stores, Failed, Drops
  <2>3. Extra => used'.crashed = used.crashed
    BY <1>1, ExtraCounted DEF Counted
  <2> QED
    BY <2>1, <2>2, <2>3, StoredAnswerKeepsAnswers, DropMatches, MatchKeepsAnswers
<1>12. CASE Open
  <2>2. ask' = ask /\ won' = won /\ used' = used /\ log' = log /\ appends' = appends
    BY <1>12 DEF Open
  <2>3. Matches(0) /\ NoneResolved
    BY <2>2, Empty DEF Matches, NoneResolved, TreeInv, Tips
  <2> QED
    BY <1>2, <2>2, <2>3, MatchKeepsAnswers
<1>13. CASE Recover
  <2>1. ask' = ask /\ won' = won /\ used' = used
    BY <1>13 DEF Recover
  <2>2. CASE Same
    BY <1>2, <2>1, <2>2, SameMatches, MatchKeepsAnswers
  <2>3. CASE repairs # <<>>
    <3> DEFINE e == [event |-> Event(Head(repairs).type, Head(repairs).ref), who |-> "open"]
    <3>1. Adds(e)
      BY <1>13, <2>3 DEF Recover, Calls, Adds, Enqueue, Event
    <3>2. ~used.crashed => repairs = <<Root>>
      BY <2>3 DEF AnswerInv, Unrepaired
    <3>3. ~used.crashed => e.event.type = "session.created"
      BY <3>2 DEF Root, Event
    <3>4. Foreign(e)
      BY <2>1, <3>3, TurnAssumptions DEF Foreign, Resolves
    <3>5. Matches(0) /\ NoneResolved
      BY <3>1, <3>4, AddMatches
    <3> QED
      BY <1>2, <2>1, <3>5, MatchKeepsAnswers
  <2> QED
    BY <1>13, <2>2, <2>3 DEF Recover, Calls, Same
<1>14. CASE RecoverySettles
  <2>1. Head(appends).who \notin Clients /\ won' = won /\ ask' = ask /\ (Stores \/ Drops)
    BY <1>14, TurnAssumptions DEF RecoverySettles, Waits, Stores, Failed, Drops
  <2>2. used'.crashed = used.crashed
    BY <1>1, <1>14, ExtraCounted DEF RecoverySettles, Failed, Counted
  <2>3. Matches(1) /\ (~used.crashed => NoneResolved)
    BY <2>1, StoreMatches, DropMatches
  <2> QED
    BY <1>2, <2>1, <2>2, <2>3, MatchKeepsAnswers
<1>15. CASE Crash
  <2>1. used'.crashed /\ won' = won /\ appends' = <<>>
    BY <1>1, <1>15 DEF Crash, AskType
  <2>2. ask'.id = ask.id /\ ask'.listed = FALSE
    BY <1>15 DEF Crash, NoAsk
  <2>3. Forward
    BY <1>1, <2>2 DEF Forward, AskType
  <2>4. Matches(0)
    BY <2>1 DEF Matches
  <2> QED
    BY <2>1, <2>3, <2>4, MatchKeepsAnswers
<1> QED
    BY <1>4, <1>5, <1>6, <1>7, <1>8, <1>9, <1>10, <1>11, <1>12, <1>13, <1>14, <1>15
       DEF Next, Settles

\* Before the first crash only the root is ever repaired.
LEMMA StepKeepsUnrepaired ==
    ASSUME TreeInv, AnswerInv, [Next]_vars, ~used'.crashed
    PROVE  Unrepaired'
<1>1. ~used.crashed
  <2>1. used' = used \/ Counted \/ used'.crashed
    BY ExtraCounted, TurnSteps, OperationSteps, OwnSettles
       DEF Next, vars, Settles, AnswerInv, Open, Recover, Crash, AskType, Interrupt, ToolAsks,
           AskTimesOut, Respond, RecoverySettles, AskSettles, ResponseSettles, Failed
  <2> QED
    BY <2>1 DEF Counted
<1>2. Unrepaired /\ AskType
    BY <1>1 DEF AnswerInv
<1>3. log # <<>> => repairs = <<>> /\ mode # "closed"
                    /\ \A k \in 1..Len(appends) : appends[k].who # "open"
    BY <1>2 DEF Unrepaired
<1>4. Same /\ UNCHANGED <<mode, repairs>> => Unrepaired'
    BY <1>2 DEF Unrepaired, Same
<1>5. ASSUME NEW e, Adds(e), e.who # "open", UNCHANGED <<mode, repairs>>
      PROVE  Unrepaired'
    BY <1>2, <1>5, Appended DEF Unrepaired, Adds, TreeInv, Tips
<1>6. ASSUME log # <<>>, UNCHANGED <<mode, repairs>>,
             Stores \/ Drops \/ \E e : Replaces(e) /\ e.who # "open"
      PROVE  Unrepaired'
  <2> DEFINE rest == Tail(appends)
  <2>1. IsSeq(rest) /\ \A k \in 1..Len(rest) : rest[k].who # "open"
    <3>1. IsSeq(appends) /\ appends # <<>>
      BY <1>6 DEF TreeInv, Tips, Stores, Drops, Replaces
    <3>2. \A k \in 1..Len(appends) : appends[k].who # "open"
      BY <1>3, <1>6
    <3> QED
      BY <3>1, <3>2, Tailed
  <2>2. \/ appends' = rest
        \/ \E e : appends' = Append(rest, e) /\ e.who # "open"
    BY <1>6 DEF Stores, Stored, Drops, Replaces
  <2> HIDE DEF rest
  <2>3. ASSUME NEW e, appends' = Append(rest, e), e.who # "open"
        PROVE  \A k \in 1..Len(appends') : appends'[k].who # "open"
    <3>1. /\ Len(rest) \in Nat /\ Len(appends') = Len(rest) + 1 /\ appends'[Len(rest) + 1] = e
          /\ \A k \in 1..Len(rest) : appends'[k] = rest[k]
      BY <2>1, <2>3, Appended
    <3> QED
      BY <2>1, <2>3, <3>1
  <2>4. \A k \in 1..Len(appends') : appends'[k].who # "open"
    BY <2>1, <2>2, <2>3
  <2> QED
    BY <1>3, <1>6, <2>4 DEF Unrepaired
<1>7. CASE UNCHANGED vars
    BY <1>4, <1>7 DEF vars, Same
<1>8. CASE TurnStep \/ RunTurn \/ Steer \/ OtherAppends \/ Restore
    BY <1>2, <1>4, <1>5, <1>8, TurnSteps, OperationSteps DEF Own
<1>9. CASE TurnStored \/ TurnFails \/ OtherSettles \/ RestoreSettles
    BY <1>2, <1>6, <1>9, OwnSettles DEF Own
<1>10. CASE ToolAsks \/ \E c \in Clients : Respond(c)
  <2>1. ASSUME NEW type, NEW ref, NEW who \in Clients \cup {"ask"},
               Enqueue(type, ref, who), UNCHANGED <<log, tip>>
        PROVE  \E e : Adds(e) /\ e.who # "open"
    <3> DEFINE e == [event |-> Event(type, ref), who |-> who]
    <3>1. Adds(e) /\ e.who # "open"
      BY <2>1, TurnAssumptions DEF Adds, Enqueue, Event
    <3> QED
      BY <3>1
  <2>2. \E e : Adds(e) /\ e.who # "open"
    BY <1>10, <2>1 DEF ToolAsks, Respond, Calls
  <2> QED
    BY <1>5, <1>10, <2>2, AskAdds
<1>11. CASE Interrupt \/ AskTimesOut
    BY <1>4, <1>11, AskStays
<1>12. CASE AskSettles \/ \E c \in Clients : ResponseSettles(c)
    BY <1>6, <1>12, AnswerSettles
<1>13. CASE Open
  <2>1. log = <<>>
    BY <1>2, <1>13 DEF Unrepaired, Open
  <2> QED
    BY <1>2, <1>13, <2>1, Empty DEF Open, Repairs, Unrepaired, TreeInv, Tips
<1>14. CASE Recover
  <2>1. CASE repairs = <<>>
    BY <1>2, <1>14, <2>1 DEF Recover, Calls, Unrepaired
  <2>2. CASE repairs # <<>>
    <3>1. log = <<>> /\ repairs' = <<>> /\ mode' = "recovering" /\ log' = log
      <4>1. log = <<>> /\ repairs = <<Root>>
        BY <1>2, <2>2 DEF Unrepaired
      <4>2. mode' = "recovering" /\ repairs' = Tail(repairs) /\ log' = log
        BY <1>14, <2>2 DEF Recover, Calls
      <4> QED
        BY <4>1, <4>2
    <3> QED
      BY <3>1 DEF Unrepaired
  <2> QED
    BY <2>1, <2>2
<1>15. CASE RecoverySettles
  <2>1. appends # <<>> /\ Head(appends).who = "open" /\ (Stores \/ Drops)
    BY <1>15 DEF RecoverySettles, Waits, Stores, Failed, Drops
  <2>2. Len(appends) \in Nat \ {0} /\ Head(appends) = appends[1]
    BY <2>1, Tailed DEF TreeInv, Tips
  <2>3. log = <<>>
    BY <1>3, <2>1, <2>2
  <2>4. repairs = <<>> /\ Len(appends) = 1 /\ mode = "recovering"
    BY <2>1, <2>3 DEF TreeInv, Rootless
  <2>5. Len(appends') = 0
    <3>1. appends' = Tail(appends) /\ IsSeq(appends)
      BY <2>1 DEF TreeInv, Tips, Stores, Stored, Drops
    <3> QED
      BY <2>1, <2>4, <3>1, Tailed
  <2>6. \/ mode' = mode /\ repairs' = repairs
        \/ mode' = "closed" /\ repairs' = <<>> /\ log' = log
    BY <1>15 DEF RecoverySettles, Failed, opening
  <2> QED
    BY <2>3, <2>4, <2>5, <2>6 DEF Unrepaired
<1>16. CASE Crash
    BY <1>2, <1>16 DEF Crash, AskType
<1> QED
    BY <1>7, <1>8, <1>9, <1>10, <1>11, <1>12, <1>13, <1>14, <1>15, <1>16 DEF Next, Settles

(* One answer wins: for any number of clients, interactions, timeouts, interrupts, failed
   appends and crashes, at most one client is told that its answer to an interaction was
   accepted, and a process that has not been restarted records one resolution for it
   (respondToInteraction, SessionManager). *)
THEOREM AnsweredOnceHolds == Spec => []AnsweredOnce
<1>1. Init => AnswerInv
  <2> SUFFICES ASSUME Init  PROVE AnswerInv
    OBVIOUS
  <2>1. AskType
    BY Starts
  <2> QED
    BY <2>1 DEF Init, AnswerInv, Underways, Winners, Resolved, Unrepaired
<1>2. TreeInv /\ AnswerInv /\ [Next]_vars => AnswerInv'
    BY NextKeepsAskType, StepKeepsAnswers, StepKeepsUnrepaired DEF AnswerInv
<1>3. TreeInv /\ AskType /\ [Next]_vars => TreeInv'
    BY NextKeepsTree
<1>4. AnswerInv => AskType /\ AnsweredOnce
    BY DEF AnswerInv, AnsweredOnce, Winners, Resolved, Resolves
<1> QED
    BY <1>1, <1>2, <1>3, <1>4, Starts, PTL DEF Spec

-----------------------------------------------------------------------------
(* Who writes what: the turn, and the appends that wait.                   *)

Places == {"none", "user", "model", "retry", "assistant", "calls", "call", "tool", "asking",
           "waiting", "result", "boundary", "steering", "followUp", "missing", "error",
           "ended", "attempt", "compacting", "summary", "compacted", "uncompacted",
           "resumed", "resteered", "reply"}

\* A turn; what it plans is typed where it matters.
TurnAt(t) ==
    /\ t = [pc |-> t.pc, aborted |-> t.aborted, outcome |-> t.outcome, calls |-> t.calls,
            call |-> t.call, plan |-> t.plan, overflowed |-> t.overflowed]
    /\ t.pc \in Places
    /\ t.outcome \in {"none", "answered", "stop", "error", "tool_use", "aborted"}
    /\ t.calls \in Nat /\ t.call \in Nat
    /\ t.pc = "calls" => t.calls # 0

\* What the turn writes at each place where it waits for the log.
Written(pc) ==
    CASE pc \in {"user", "steering", "followUp", "resteered"} -> "user.message"
      [] pc = "assistant" -> "assistant.message"
      [] pc = "retry" -> "model.retry_scheduled"
      [] pc = "call" -> "tool.call"
      [] pc = "result" -> "tool.result"
      [] pc = "compacting" -> "compaction.started"
      [] pc = "compacted" -> "context.compacted"
      [] pc = "uncompacted" -> "compaction.failed"
      [] pc = "error" -> "session.error"
      [] OTHER -> "none"

\* The event the turn writes belongs to the place it is at.
Fits(type, ref, t) ==
    /\ type = Written(t.pc) /\ type # "none"
    /\ t.pc \in {"call", "result"} => ref = t.call
    /\ t.pc = "compacted" => ref = t.plan.replaced

RepairTypes == {"session.created", "compaction.failed", "interaction.resolved", "tool.result"}

\* An append that waits, by its caller.
EntryAt(e, t, m) ==
    \/ e.who = "turn" /\ Fits(e.event.type, e.event.ref, t)
    \/ e.who = "open" /\ m = "recovering" /\ e.event.type \in RepairTypes
    \/ e.who = "other" /\ e.event.type \in Beside
    \/ e.who = "restore" /\ m = "open" /\ e.event.type = "queue.restored"
    \/ e.who = "ask" /\ t.pc = "asking" /\ e.event.type = "interaction.requested"
    \/ e.who \in Clients /\ m = "open" /\ e.event.type = "interaction.resolved"

EntriesAt(q, t, m) == \A k \in 1..Len(q) : EntryAt(q[k], t, m)

\* Callers that wait for one append at a time.
Patient == {"turn", "open", "ask"}

LoneIn(q) == \A j, k \in 1..Len(q) : q[j].who = q[k].who /\ q[k].who \in Patient => j = k

\* Only an open session has a turn, only a recovering one has repairs; a running session
\* appends at the end of the log.
Modes ==
    /\ mode \in {"closed", "recovering", "open", "unreadable"}
    /\ mode # "open" => turn = NoTurn
    /\ mode # "recovering" => repairs = <<>>
    /\ mode \in {"recovering", "open"} => tip = Len(log)

Typed ==
    /\ \A k \in 1..Len(log) : log[k].type \in Types
    /\ IsSeq(repairs) /\ \A k \in 1..Len(repairs) : repairs[k].type \in RepairTypes

WriteInv == TurnAt(turn) /\ EntriesAt(appends, turn, mode) /\ LoneIn(appends) /\ Modes /\ Typed

\* What is written at each place, spelled out.
LEMMA WrittenIs ==
    /\ \A pc \in {"user", "steering", "followUp", "resteered"} : Written(pc) = "user.message"
    /\ Written("assistant") = "assistant.message" /\ Written("retry") = "model.retry_scheduled"
    /\ Written("call") = "tool.call" /\ Written("result") = "tool.result"
    /\ Written("compacting") = "compaction.started" /\ Written("compacted") = "context.compacted"
    /\ Written("uncompacted") = "compaction.failed" /\ Written("error") = "session.error"
    /\ \A pc \in {"none", "model", "calls", "tool", "asking", "waiting", "boundary", "missing",
                  "ended", "attempt", "summary", "resumed", "reply"} : Written(pc) = "none"
BY DEF Written

\* The types of what may be written are types of events.
LEMMA WrittenTyped ==
    /\ \A pc : Written(pc) # "none" => Written(pc) \in Types
    /\ RepairTypes \subseteq Types /\ Beside \subseteq Types
    /\ {"queue.restored", "interaction.requested", "interaction.resolved"} \subseteq Types
<1>1. \A pc : Written(pc) # "none" => Written(pc) \in Types
    BY DEF Written, Types
<1> QED
    BY <1>1, TurnAssumptions DEF Types, RepairTypes

\* What waits for the log is an event.
LEMMA EntryTyped ==
    ASSUME NEW e, NEW t, NEW m, EntryAt(e, t, m)
    PROVE  e.event.type \in Types
BY WrittenTyped DEF EntryAt, Fits

\* A turn that only moves is a turn.
LEMMA TurnSet ==
    ASSUME NEW t, TurnAt(t), NEW pc \in Places \ {"calls"}
    PROVE  /\ TurnAt([t EXCEPT !.pc = pc]) /\ [t EXCEPT !.pc = pc].pc = pc
           /\ [t EXCEPT !.pc = pc].call = t.call /\ [t EXCEPT !.pc = pc].plan = t.plan
           /\ [t EXCEPT !.pc = pc].calls = t.calls /\ [t EXCEPT !.pc = pc].outcome = t.outcome
BY DEF TurnAt

\* Setting a field of a turn leaves the other fields.
LEMMA TurnFields ==
    ASSUME NEW t, TurnAt(t)
    PROVE  \A v :
      /\ [t EXCEPT !.pc = v] =
           [pc |-> v, aborted |-> t.aborted, outcome |-> t.outcome, calls |-> t.calls,
            call |-> t.call, plan |-> t.plan, overflowed |-> t.overflowed]
      /\ [t EXCEPT !.outcome = v] =
           [pc |-> t.pc, aborted |-> t.aborted, outcome |-> v, calls |-> t.calls,
            call |-> t.call, plan |-> t.plan, overflowed |-> t.overflowed]
      /\ [t EXCEPT !.overflowed = v] =
           [pc |-> t.pc, aborted |-> t.aborted, outcome |-> t.outcome, calls |-> t.calls,
            call |-> t.call, plan |-> t.plan, overflowed |-> v]
      /\ [t EXCEPT !.plan = v] =
           [pc |-> t.pc, aborted |-> t.aborted, outcome |-> t.outcome, calls |-> t.calls,
            call |-> t.call, plan |-> v, overflowed |-> t.overflowed]
      /\ [t EXCEPT !.calls = v] =
           [pc |-> t.pc, aborted |-> t.aborted, outcome |-> t.outcome, calls |-> v,
            call |-> t.call, plan |-> t.plan, overflowed |-> t.overflowed]
      /\ [t EXCEPT !.call = v] =
           [pc |-> t.pc, aborted |-> t.aborted, outcome |-> t.outcome, calls |-> t.calls,
            call |-> v, plan |-> t.plan, overflowed |-> t.overflowed]
<1> DEFINE R == [pc |-> t.pc, aborted |-> t.aborted, outcome |-> t.outcome, calls |-> t.calls,
                 call |-> t.call, plan |-> t.plan, overflowed |-> t.overflowed]
<1>1. t = R
    BY Zenon DEF TurnAt
<1> SUFFICES ASSUME NEW v
             PROVE  /\ [R EXCEPT !.pc = v] = [pc |-> v, aborted |-> t.aborted, outcome |-> t.outcome,
                          calls |-> t.calls, call |-> t.call, plan |-> t.plan, overflowed |-> t.overflowed]
                    /\ [R EXCEPT !.outcome = v] = [pc |-> t.pc, aborted |-> t.aborted, outcome |-> v,
                          calls |-> t.calls, call |-> t.call, plan |-> t.plan, overflowed |-> t.overflowed]
                    /\ [R EXCEPT !.overflowed = v] = [pc |-> t.pc, aborted |-> t.aborted,
                          outcome |-> t.outcome, calls |-> t.calls, call |-> t.call, plan |-> t.plan,
                          overflowed |-> v]
                    /\ [R EXCEPT !.plan = v] = [pc |-> t.pc, aborted |-> t.aborted,
                          outcome |-> t.outcome, calls |-> t.calls, call |-> t.call, plan |-> v,
                          overflowed |-> t.overflowed]
                    /\ [R EXCEPT !.calls = v] = [pc |-> t.pc, aborted |-> t.aborted,
                          outcome |-> t.outcome, calls |-> v, call |-> t.call, plan |-> t.plan,
                          overflowed |-> t.overflowed]
                    /\ [R EXCEPT !.call = v] = [pc |-> t.pc, aborted |-> t.aborted,
                          outcome |-> t.outcome, calls |-> t.calls, call |-> v, plan |-> t.plan,
                          overflowed |-> t.overflowed]
    BY <1>1, Zenon
<1> QED
    OBVIOUS

\* No turn is a turn that is nowhere.
LEMMA NoTurnTyped == TurnAt(NoTurn) /\ NoTurn.pc = "none" /\ NoTurn.calls = 0 /\ NoTurn.call = 0
BY DEF TurnAt, NoTurn, Places

\* An append stays what it is while its caller waits.
LEMMA EntryStays ==
    ASSUME NEW e, NEW t, NEW m, EntryAt(e, t, m), NEW u, NEW n
    PROVE  /\ (e.who = "turn" => u.pc = t.pc /\ u.call = t.call /\ u.plan = t.plan)
           /\ (e.who = "ask" => u.pc = "asking")
           /\ (e.who \in {"open", "restore"} \cup Clients => n = m)
           => EntryAt(e, u, n)
<1> SUFFICES ASSUME e.who = "turn" => u.pc = t.pc /\ u.call = t.call /\ u.plan = t.plan,
                    e.who = "ask" => u.pc = "asking",
                    e.who \in {"open", "restore"} \cup Clients => n = m
             PROVE  EntryAt(e, u, n)
    OBVIOUS
<1>1. CASE e.who = "turn" /\ Fits(e.event.type, e.event.ref, t)
    BY <1>1 DEF EntryAt, Fits
<1>2. CASE e.who \in {"open", "restore"} \cup Clients
    BY <1>2, TurnAssumptions DEF EntryAt
<1>3. CASE e.who \in {"other", "ask"}
    BY <1>3, TurnAssumptions DEF EntryAt
<1> QED
    BY <1>1, <1>2, <1>3 DEF EntryAt

\* One more append at the end, or the oldest one gone.
LEMMA EntryAdded ==
    ASSUME NEW q, IsSeq(q), LoneIn(q), NEW e, NEW t, NEW m, EntriesAt(q, t, m), EntryAt(e, t, m),
           e.who \in Patient => \A k \in 1..Len(q) : q[k].who # e.who
    PROVE  EntriesAt(Append(q, e), t, m) /\ LoneIn(Append(q, e))
<1>1. /\ Len(q) \in Nat /\ Len(Append(q, e)) = Len(q) + 1
      /\ Append(q, e)[Len(q) + 1] = e
      /\ \A i \in 1..Len(q) : Append(q, e)[i] = q[i]
    BY Appended
<1>2. \A i \in 1..Len(Append(q, e)) : i \in 1..Len(q) \/ i = Len(q) + 1
    BY <1>1
<1> QED
    BY <1>1, <1>2 DEF EntriesAt, LoneIn

\* The queue without its oldest append.
LEMMA EntryGone ==
    ASSUME NEW q, IsSeq(q), q # <<>>, LoneIn(q), NEW t, NEW m
    PROVE  /\ LoneIn(Tail(q))
           /\ EntriesAt(q, t, m) => EntriesAt(Tail(q), t, m) /\ EntryAt(Head(q), t, m)
           /\ \A k \in 1..Len(Tail(q)) : /\ k + 1 \in 1..Len(q) /\ Tail(q)[k] = q[k + 1]
                                         /\ Head(q).who \in Patient => Tail(q)[k].who # Head(q).who
<1>1. /\ Len(q) \in Nat \ {0} /\ Len(Tail(q)) = Len(q) - 1 /\ Head(q) = q[1]
      /\ \A i \in 1..Len(Tail(q)) : i + 1 \in 1..Len(q) /\ Tail(q)[i] = q[i + 1]
    BY Tailed
<1>2. \A i, j \in 1..Len(Tail(q)) : i + 1 = j + 1 => i = j
    OBVIOUS
<1>3. LoneIn(Tail(q))
    BY <1>1, <1>2 DEF LoneIn
<1>4. EntriesAt(q, t, m) => EntriesAt(Tail(q), t, m) /\ EntryAt(Head(q), t, m)
    BY <1>1 DEF EntriesAt
<1>5. ASSUME NEW k \in 1..Len(Tail(q)), Head(q).who \in Patient  PROVE Tail(q)[k].who # Head(q).who
    BY <1>1, <1>5 DEF LoneIn
<1> QED
    BY <1>1, <1>3, <1>4, <1>5

-----------------------------------------------------------------------------
(* The moves of a turn.                                                    *)

\* The turn goes to a place where it waits for the event it writes.
TurnWrites(ref) ==
    /\ appends' = Append(appends, [event |-> Event(Written(turn'.pc), ref), who |-> "turn"])
    /\ Fits(Written(turn'.pc), ref, turn')

\* Between two appends: nothing of the turn is on its way, and no tool asks.
Between == Written(turn.pc) = "none" /\ turn.pc # "asking"

TurnKeeps == UNCHANGED <<log, tip, messages, carried, broken, mode, repairs, ask, won>>

\* An append of the turn that fits the place it goes to.
LEMMA MoveWrites ==
    ASSUME NEW type, NEW ref, Enqueue(type, ref, "turn"), Fits(type, ref, turn')
    PROVE  \E r : TurnWrites(r)
<1>1. Written(turn'.pc) = type
    BY DEF Fits
<1>2. TurnWrites(ref)
    BY <1>1 DEF TurnWrites, Enqueue
<1> QED
    BY <1>2

\* A turn starts with a message of the user.
LEMMA UserTyped ==
    /\ TurnAt([NoTurn EXCEPT !.pc = "user"]) /\ [NoTurn EXCEPT !.pc = "user"].pc = "user"
    /\ [NoTurn EXCEPT !.pc = "user"].plan = NoPlan
<1>1. "user" \in Places \ {"calls"} /\ NoTurn.plan = NoPlan
    BY DEF Places, NoTurn
<1> QED
    BY <1>1, NoTurnTyped, TurnSet

Replying(t, outcome, n, first) ==
    [t EXCEPT !.pc = "assistant", !.outcome = outcome, !.calls = n, !.call = first]

\* The model's answer: its outcome, and the ids of the calls it asks for.
LEMMA ReplyTyped ==
    ASSUME NEW t, TurnAt(t), NEW outcome \in {"stop", "error", "tool_use", "aborted"},
           NEW n \in Nat, NEW first \in Nat
    PROVE
        /\ TurnAt(Replying(t, outcome, n, first))
        /\ Replying(t, outcome, n, first).pc = "assistant"
        /\ Replying(t, outcome, n, first).outcome = outcome
        /\ Replying(t, outcome, n, first).calls = n
        /\ Replying(t, outcome, n, first).call = first
        /\ Replying(t, outcome, n, first).plan = t.plan
<1> DEFINE a == [t EXCEPT !.pc = "assistant"]
<1>1. /\ TurnAt(a) /\ a.pc = "assistant" /\ a.plan = t.plan
      /\ [t EXCEPT !.pc = "assistant", !.outcome = outcome, !.calls = n, !.call = first] =
         [a EXCEPT !.outcome = outcome, !.calls = n, !.call = first]
    BY TurnSet DEF Places
<1> HIDE DEF a
<1> DEFINE b == [a EXCEPT !.outcome = outcome]
<1>2. /\ TurnAt(b) /\ b.pc = "assistant" /\ b.outcome = outcome /\ b.plan = t.plan
      /\ [a EXCEPT !.outcome = outcome, !.calls = n, !.call = first] =
         [b EXCEPT !.calls = n, !.call = first]
  <2>1. [a EXCEPT !.outcome = outcome, !.calls = n, !.call = first] =
        [b EXCEPT !.calls = n, !.call = first]
    OBVIOUS
  <2>2. b = [pc |-> a.pc, aborted |-> a.aborted, outcome |-> outcome, calls |-> a.calls,
             call |-> a.call, plan |-> a.plan, overflowed |-> a.overflowed]
    BY <1>1, TurnFields
  <2> HIDE DEF b
  <2>3. TurnAt(b) /\ b.pc = "assistant" /\ b.outcome = outcome /\ b.plan = t.plan
    BY <1>1, <2>2 DEF TurnAt
  <2> QED
    BY <2>1, <2>3
<1> HIDE DEF b
<1> DEFINE c == [b EXCEPT !.calls = n]
<1>3. /\ TurnAt(c) /\ c.pc = "assistant" /\ c.outcome = outcome /\ c.calls = n /\ c.plan = t.plan
      /\ [b EXCEPT !.calls = n, !.call = first] = [c EXCEPT !.call = first]
  <2>1. [b EXCEPT !.calls = n, !.call = first] = [c EXCEPT !.call = first]
    OBVIOUS
  <2>2. c = [pc |-> b.pc, aborted |-> b.aborted, outcome |-> b.outcome, calls |-> n,
             call |-> b.call, plan |-> b.plan, overflowed |-> b.overflowed]
    BY <1>2, TurnFields
  <2> HIDE DEF c
  <2>3. TurnAt(c) /\ c.pc = "assistant" /\ c.outcome = outcome /\ c.calls = n /\ c.plan = t.plan
    BY <1>2, <2>2 DEF TurnAt
  <2> QED
    BY <2>1, <2>3
<1> HIDE DEF c
<1> DEFINE d == [c EXCEPT !.call = first]
<1>4. /\ TurnAt(d) /\ d.pc = "assistant" /\ d.outcome = outcome /\ d.calls = n
      /\ d.call = first /\ d.plan = t.plan
  <2>1. d = [pc |-> c.pc, aborted |-> c.aborted, outcome |-> c.outcome, calls |-> c.calls,
             call |-> first, plan |-> c.plan, overflowed |-> c.overflowed]
    BY <1>3, TurnFields
  <2> HIDE DEF d
  <2> QED
    BY <1>3, <2>1 DEF TurnAt
<1> QED
    BY <1>1, <1>2, <1>3, <1>4 DEF Replying

\* The turn goes on to the answer of the model.
LEMMA ReplyMoves ==
    \A outcome \in {"stop", "error", "tool_use", "aborted"} : \A n \in Nat : \A first \in Nat :
        TurnAt(turn) /\ turn' = Replying(turn, outcome, n, first) => TurnAt(turn') /\ turn'.pc = "assistant"
<1> SUFFICES ASSUME TurnAt(turn), NEW outcome \in {"stop", "error", "tool_use", "aborted"},
                    NEW n \in Nat, NEW first \in Nat, turn' = Replying(turn, outcome, n, first)
             PROVE  TurnAt(turn') /\ turn'.pc = "assistant"
    OBVIOUS
<1>1. /\ TurnAt(Replying(turn, outcome, n, first))
      /\ Replying(turn, outcome, n, first).pc = "assistant"
  <2>1. TurnAt(Replying(turn, outcome, n, first))
    BY ReplyTyped, Zenon
  <2>2. Replying(turn, outcome, n, first).pc = "assistant"
    BY DEF Replying, TurnAt
  <2> QED
    BY <2>1, <2>2
<1> QED
    BY <1>1

\* The turn goes on to its next tool call.
LEMMA CallTyped ==
    ASSUME NEW t, TurnAt(t), t.pc = "calls"
    PROVE  \A u : u = [t EXCEPT !.pc = "call", !.calls = @ - 1, !.call = @ + 1]
              => TurnAt(u) /\ u.pc = "call" /\ u.calls = t.calls - 1 /\ u.call = t.call + 1
<1> DEFINE a == [t EXCEPT !.pc = "call"]
<1>1. /\ TurnAt(a) /\ a.pc = "call" /\ a.calls = t.calls /\ a.call = t.call
      /\ [t EXCEPT !.pc = "call", !.calls = @ - 1, !.call = @ + 1] =
         [a EXCEPT !.calls = t.calls - 1, !.call = t.call + 1]
    BY TurnSet DEF Places
<1> HIDE DEF a
<1> DEFINE b == [a EXCEPT !.calls = t.calls - 1]
<1>2. /\ TurnAt(b) /\ b.pc = "call" /\ b.calls = t.calls - 1 /\ b.call = t.call
      /\ [a EXCEPT !.calls = t.calls - 1, !.call = t.call + 1] = [b EXCEPT !.call = t.call + 1]
  <2>1. t.calls - 1 \in Nat
    BY DEF TurnAt
  <2>2. [a EXCEPT !.calls = t.calls - 1, !.call = t.call + 1] = [b EXCEPT !.call = t.call + 1]
    OBVIOUS
  <2>3. b = [pc |-> a.pc, aborted |-> a.aborted, outcome |-> a.outcome, calls |-> t.calls - 1,
             call |-> a.call, plan |-> a.plan, overflowed |-> a.overflowed]
    BY <1>1, TurnFields
  <2> HIDE DEF b
  <2>4. TurnAt(b) /\ b.pc = "call" /\ b.calls = t.calls - 1 /\ b.call = t.call
    BY <1>1, <2>1, <2>3 DEF TurnAt
  <2> QED
    BY <2>2, <2>4
<1> HIDE DEF b
<1> DEFINE c == [b EXCEPT !.call = t.call + 1]
<1>3. TurnAt(c) /\ c.pc = "call" /\ c.calls = t.calls - 1 /\ c.call = t.call + 1
  <2>1. t.call + 1 \in Nat
    BY DEF TurnAt
  <2>2. c = [pc |-> b.pc, aborted |-> b.aborted, outcome |-> b.outcome, calls |-> b.calls,
             call |-> t.call + 1, plan |-> b.plan, overflowed |-> b.overflowed]
    BY <1>2, TurnFields
  <2> HIDE DEF c
  <2>3. TurnAt(c) /\ c.pc = b.pc /\ c.calls = b.calls /\ c.call = t.call + 1
    BY <1>2, <2>1, <2>2 DEF TurnAt
  <2> QED
    BY <1>2, <2>3
<1> QED
    BY <1>1, <1>2, <1>3

\* compactOwned: the lineage is planned and the start recorded, or the turn goes on without.
LEMMA CompactMoves ==
    ASSUME NEW t, TurnAt(t), t.pc # "none", Compact(t)
    PROVE  /\ TurnAt(turn')
           /\ (turn'.pc = "none" /\ turn' = NoTurn) \/ (turn'.pc = "reply" /\ turn'.outcome = "error")
              \/ turn'.pc = "compacting"
           /\ UNCHANGED appends \/ \E ref : TurnWrites(ref)
<1>1. CASE /\ Projectable(log, tip) /\ log[tip].type # "context.compacted"
           /\ \E plan \in Plans : turn' = [t EXCEPT !.pc = "compacting", !.plan = plan]
           /\ Enqueue("compaction.started", 0, "turn")
  <2>1. PICK plan \in Plans : turn' = [t EXCEPT !.pc = "compacting", !.plan = plan]
    BY <1>1
  <2>2. TurnAt(turn') /\ turn'.pc = "compacting"
    BY <2>1 DEF TurnAt, Places
  <2>3. Fits("compaction.started", 0, turn')
    BY <2>2, WrittenIs DEF Fits
  <2> QED
    BY <1>1, <2>2, <2>3, MoveWrites
<1>2. CASE /\ ~Projectable(log, tip)
           /\ turn' = IF t.outcome = "error" THEN [t EXCEPT !.pc = "reply"] ELSE NoTurn
           /\ UNCHANGED appends
  <2>1. CASE t.outcome = "error"
    <3>1. turn' = [t EXCEPT !.pc = "reply"]
      BY <1>2, <2>1
    <3>2. /\ TurnAt([t EXCEPT !.pc = "reply"]) /\ [t EXCEPT !.pc = "reply"].pc = "reply"
          /\ [t EXCEPT !.pc = "reply"].outcome = t.outcome
      BY TurnSet DEF Places
    <3> QED
      BY <1>2, <2>1, <3>1, <3>2, Zenon
  <2>2. CASE t.outcome # "error"
    BY <1>2, <2>2, NoTurnTyped
  <2> QED
    BY <2>1, <2>2
<1> QED
    BY <1>1, <1>2 DEF Compact

\* The answer of a model that met its limit.
LEMMA TwiceSet ==
    ASSUME TurnAt(turn)
    PROVE  /\ TurnAt([turn EXCEPT !.outcome = "error", !.overflowed = TRUE])
           /\ [turn EXCEPT !.outcome = "error", !.overflowed = TRUE].pc = turn.pc
<1> DEFINE a == [turn EXCEPT !.outcome = "error"]
<1>1. TurnAt(a) /\ a.pc = turn.pc
    BY TurnFields DEF TurnAt
<1>2. [turn EXCEPT !.outcome = "error", !.overflowed = TRUE] = [a EXCEPT !.overflowed = TRUE]
    OBVIOUS
<1> HIDE DEF a
<1>3. TurnAt([a EXCEPT !.overflowed = TRUE]) /\ [a EXCEPT !.overflowed = TRUE].pc = a.pc
    BY <1>1, TurnFields DEF TurnAt
<1> QED
    BY <1>1, <1>2, <1>3

\* Every step of a turn, and the start of one.
LEMMA TurnMoves ==
    ASSUME TurnAt(turn), AskType, TurnStep \/ RunTurn
    PROVE  /\ TurnAt(turn') /\ Between /\ TurnKeeps
           /\ turn.pc # "none" \/ mode = "open"
           /\ UNCHANGED appends \/ \E ref : TurnWrites(ref)
<1>1. \A pc \in Places \ {"calls"} : TurnAt([turn EXCEPT !.pc = pc]) /\ [turn EXCEPT !.pc = pc].pc = pc
    BY TurnSet
<1>2. \A type, ref : Enqueue(type, ref, "turn") /\ Fits(type, ref, turn') => \E r : TurnWrites(r)
    BY MoveWrites
<1>3. CASE CompactAtThreshold
  <2>1. TurnAt([turn EXCEPT !.outcome = "none"]) /\ [turn EXCEPT !.outcome = "none"].pc = "model"
    BY <1>3 DEF TurnAt, CompactAtThreshold
  <2>2. Compact([turn EXCEPT !.outcome = "none"])
    BY <1>3 DEF CompactAtThreshold
  <2>3. TurnAt(turn') /\ (UNCHANGED appends \/ \E ref : TurnWrites(ref))
    BY <2>1, <2>2, CompactMoves
  <2> QED
    BY <1>3, <2>3, WrittenIs DEF CompactAtThreshold, Between, TurnKeeps, Calls, opening
<1>4. CASE Summarized
  <2>1. CASE /\ Enqueue("context.compacted", turn.plan.replaced, "turn")
             /\ turn' = [turn EXCEPT !.pc = "compacted"]
    <3>1. TurnAt(turn') /\ turn'.pc = "compacted" /\ turn'.plan = turn.plan
      BY <2>1, TurnSet DEF Places
    <3>2. Fits("context.compacted", turn.plan.replaced, turn')
      BY <3>1, WrittenIs DEF Fits
    <3> QED
      BY <1>2, <1>4, <2>1, <3>1, <3>2, WrittenIs DEF Summarized, Between, TurnKeeps, Calls, opening
  <2>2. CASE /\ Enqueue("compaction.failed", 0, "turn")
             /\ turn' = [turn EXCEPT !.pc = "uncompacted"]
    <3>1. TurnAt(turn') /\ turn'.pc = "uncompacted"
      BY <1>1, <2>2 DEF Places
    <3>2. Fits("compaction.failed", 0, turn')
      BY <3>1, WrittenIs DEF Fits
    <3> QED
      BY <1>2, <1>4, <2>2, <3>1, <3>2, WrittenIs DEF Summarized, Between, TurnKeeps, Calls, opening
  <2> QED
    BY <1>4, <2>1, <2>2 DEF Summarized
<1>5. CASE Resume
  <2>1. CASE /\ Enqueue("user.message", Head(steering), "turn")
             /\ turn' = [turn EXCEPT !.pc = "resteered"]
    <3>1. TurnAt(turn') /\ turn'.pc = "resteered"
      BY <1>1, <2>1 DEF Places
    <3>2. Fits("user.message", Head(steering), turn')
      BY <3>1, WrittenIs DEF Fits
    <3> QED
      BY <1>2, <1>5, <2>1, <3>1, <3>2, WrittenIs DEF Resume, Between, TurnKeeps, Calls, opening
  <2>2. CASE turn' = [turn EXCEPT !.pc = "model"] /\ UNCHANGED appends
    BY <1>1, <1>5, <2>2, WrittenIs DEF Places, Resume, Between, TurnKeeps, Calls, opening
  <2> QED
    BY <1>5, <2>1, <2>2 DEF Resume
<1>6. CASE CallModel
  <2>1. CASE turn' = [turn EXCEPT !.pc = "attempt"] /\ UNCHANGED appends
    BY <1>1, <1>6, <2>1, WrittenIs DEF Places, CallModel, Between, TurnKeeps, Calls, opening
  <2>2. CASE /\ Enqueue("assistant.message", 0, "turn")
             /\ turn' = [turn EXCEPT !.pc = "assistant", !.outcome = "aborted"]
    <3>1. TurnAt(turn') /\ turn'.pc = "assistant"
      BY <2>2 DEF Places, TurnAt
    <3>2. Fits("assistant.message", 0, turn')
      BY <3>1, WrittenIs DEF Fits
    <3> QED
      BY <1>2, <1>6, <2>2, <3>1, <3>2, WrittenIs DEF CallModel, Between, TurnKeeps, Calls, opening
  <2> QED
    BY <1>6, <2>1, <2>2 DEF CallModel
<1>7. CASE ModelAnswers
  <2>0. Between /\ TurnKeeps /\ turn.pc # "none"
    BY <1>7, WrittenIs DEF ModelAnswers, Between, TurnKeeps, Calls, opening
  <2>1. CASE /\ Enqueue("model.retry_scheduled", 0, "turn")
             /\ turn' = [turn EXCEPT !.pc = "retry"]
    <3>1. TurnAt(turn') /\ turn'.pc = "retry"
      BY <1>1, <2>1 DEF Places
    <3>2. Fits("model.retry_scheduled", 0, turn')
      BY <3>1, WrittenIs DEF Fits
    <3> QED
      BY <1>2, <2>0, <2>1, <3>1, <3>2
  <2>2. CASE Compact([turn EXCEPT !.outcome = "error", !.overflowed = TRUE])
    <3>1. /\ TurnAt([turn EXCEPT !.outcome = "error", !.overflowed = TRUE])
          /\ [turn EXCEPT !.outcome = "error", !.overflowed = TRUE].pc = turn.pc
      BY TwiceSet
    <3>2. TurnAt(turn') /\ (UNCHANGED appends \/ \E ref : TurnWrites(ref))
      BY <2>0, <2>2, <3>1, CompactMoves
    <3> QED
      BY <2>0, <3>2
  <2>3. CASE /\ \E outcome \in {"stop", "error", "tool_use"}
                               \cup (IF turn.aborted THEN {"aborted"} ELSE {}),
                   n \in 0..2 :
                   /\ n > 0 => outcome \notin {"error", "aborted"}
                   /\ used.calls + n <= MaxCalls
                   /\ used' = [used EXCEPT !.calls = @ + n]
                   /\ turn' = [turn EXCEPT !.pc = "assistant", !.outcome = outcome, !.calls = n,
                                           !.call = used.calls]
             /\ Enqueue("assistant.message", 0, "turn")
    <3>0. PICK outcome \in {"stop", "error", "tool_use", "aborted"}, n \in 0..2 :
             turn' = [turn EXCEPT !.pc = "assistant", !.outcome = outcome, !.calls = n,
                                  !.call = used.calls]
      BY <2>3
    <3>1. TurnAt(turn') /\ turn'.pc = "assistant"
      <4>1. n \in Nat /\ used.calls \in Nat
        BY DEF AskType
      <4>2. turn' = Replying(turn, outcome, n, used.calls)
        BY <3>0 DEF Replying
      <4> QED
        BY <4>1, <4>2, ReplyMoves
    <3>2. Fits("assistant.message", 0, turn')
      BY <3>1, WrittenIs DEF Fits
    <3> QED
      BY <1>2, <2>0, <2>3, <3>1, <3>2
  <2> QED
    BY <1>7, <2>1, <2>2, <2>3 DEF ModelAnswers
<1>8. CASE Reply
  <2>1. TurnAt(turn') /\ turn'.pc = "assistant"
    BY <1>1, <1>8 DEF Reply, Places
  <2>2. Fits("assistant.message", 0, turn')
    BY <2>1, WrittenIs DEF Fits
  <2> QED
    BY <1>2, <1>8, <2>1, <2>2, WrittenIs DEF Reply, Between, TurnKeeps, Calls, opening
<1>9. CASE NextCall
  <2>1. TurnAt(turn') /\ turn'.pc = "call" /\ turn'.call = turn.call + 1
    BY <1>9, CallTyped DEF NextCall
  <2>2. Fits("tool.call", turn.call + 1, turn')
    BY <2>1, WrittenIs DEF Fits
  <2> QED
    BY <1>2, <1>9, <2>1, <2>2, WrittenIs DEF NextCall, Between, TurnKeeps, Calls, opening
<1>10. CASE ToolReturns
  <2>1. TurnAt(turn') /\ turn'.pc = "result" /\ turn'.call = turn.call
    BY <1>10, TurnSet DEF ToolReturns, Places
  <2>2. Fits("tool.result", turn.call, turn')
    BY <2>1, WrittenIs DEF Fits
  <2> QED
    BY <1>2, <1>10, <2>1, <2>2, WrittenIs DEF ToolReturns, Between, TurnKeeps, Calls, opening
<1>11. CASE Boundary
  <2>0. Between /\ TurnKeeps /\ turn.pc # "none"
    BY <1>11, WrittenIs DEF Boundary, Between, TurnKeeps, Calls, opening
  <2>1. ASSUME NEW m, NEW pc \in {"steering", "followUp"}, Enqueue("user.message", m, "turn"),
               turn' = [turn EXCEPT !.pc = pc]
        PROVE  TurnAt(turn') /\ \E ref : TurnWrites(ref)
    <3>1. TurnAt(turn') /\ turn'.pc = pc
      BY <1>1, <2>1 DEF Places
    <3>2. Fits("user.message", m, turn')
      BY <3>1, WrittenIs DEF Fits
    <3> QED
      BY <1>2, <2>1, <3>1, <3>2
  <2>2. \A pc \in {"model", "ended"} : turn' = [turn EXCEPT !.pc = pc] => TurnAt(turn')
    BY <1>1 DEF Places
  <2> QED
    BY <1>11, <2>0, <2>1, <2>2 DEF Boundary
<1>12. CASE ContinueQueued
  <2>0. Between /\ TurnKeeps /\ turn.pc # "none"
    BY <1>12, WrittenIs DEF ContinueQueued, Between, TurnKeeps, Calls, opening
  <2>1. CASE /\ Enqueue("user.message", Head(steering \o followUp), "turn")
             /\ turn' = [NoTurn EXCEPT !.pc = "user"]
    <3>1. TurnAt(turn') /\ turn'.pc = "user"
      BY <2>1, UserTyped
    <3>2. Fits("user.message", Head(steering \o followUp), turn')
      BY <3>1, WrittenIs DEF Fits
    <3> QED
      BY <1>2, <2>0, <2>1, <3>1, <3>2
  <2>2. CASE turn' = NoTurn /\ UNCHANGED appends
    BY <2>0, <2>2, NoTurnTyped
  <2> QED
    BY <1>12, <2>1, <2>2 DEF ContinueQueued, queues
<1>13. CASE MissingToolCall
  <2>1. TurnAt(turn') /\ turn'.pc = "error"
    BY <1>1, <1>13 DEF MissingToolCall, Places
  <2>2. Fits("session.error", 0, turn')
    BY <2>1, WrittenIs DEF Fits
  <2> QED
    BY <1>2, <1>13, <2>1, <2>2, WrittenIs DEF MissingToolCall, Between, TurnKeeps, Calls, opening
<1>14. CASE AskerGoesOn
  <2>1. TurnAt(turn')
    BY <1>1, <1>14 DEF AskerGoesOn, Places
  <2> QED
    BY <1>14, <2>1, WrittenIs DEF AskerGoesOn, Between, TurnKeeps, NoAppend, opening
<1>15. CASE RunTurn
  <2>1. PICK m : Enqueue("user.message", m, "turn")
    BY <1>15 DEF RunTurn
  <2>2. TurnAt(turn') /\ turn'.pc = "user"
    BY <1>15, UserTyped DEF RunTurn
  <2>3. Fits("user.message", m, turn')
    BY <2>2, WrittenIs DEF Fits
  <2> QED
    BY <1>2, <1>15, <2>1, <2>2, <2>3, WrittenIs DEF RunTurn, Between, TurnKeeps, Calls, opening
<1> QED
    BY <1>3, <1>4, <1>5, <1>6, <1>7, <1>8, <1>9, <1>10, <1>11, <1>12, <1>13, <1>14, <1>15 DEF TurnStep

-----------------------------------------------------------------------------
(* The invariant of the writers, step by step.                             *)

\* Who has no append on its way, by the place of the turn and the mode.
LEMMA Absent ==
    ASSUME NEW q, NEW t, NEW m, EntriesAt(q, t, m)
    PROVE  /\ Written(t.pc) = "none" => \A k \in 1..Len(q) : q[k].who # "turn"
           /\ t.pc # "asking" => \A k \in 1..Len(q) : q[k].who # "ask"
           /\ m # "open" => \A k \in 1..Len(q) : q[k].who # "restore" /\ q[k].who \notin Clients
           /\ m # "recovering" => \A k \in 1..Len(q) : q[k].who # "open"
BY TurnAssumptions DEF EntriesAt, EntryAt, Fits

\* The appends on their way while the turn and the mode change around them.
LEMMA EntriesStay ==
    ASSUME NEW q, NEW t, NEW m, EntriesAt(q, t, m), NEW u, NEW n,
           (\A k \in 1..Len(q) : q[k].who # "turn")
              \/ (u.pc = t.pc /\ u.call = t.call /\ u.plan = t.plan),
           (\A k \in 1..Len(q) : q[k].who # "ask") \/ u.pc = "asking",
           (\A k \in 1..Len(q) : q[k].who # "open" /\ q[k].who # "restore" /\ q[k].who \notin Clients)
              \/ n = m
    PROVE  EntriesAt(q, u, n)
<1> SUFFICES ASSUME NEW k \in 1..Len(q)
             PROVE  EntryAt(q[k], u, n)
    BY DEF EntriesAt
<1>1. EntryAt(q[k], t, m)
    BY DEF EntriesAt
<1>2. /\ q[k].who = "turn" => u.pc = t.pc /\ u.call = t.call /\ u.plan = t.plan
      /\ q[k].who = "ask" => u.pc = "asking"
      /\ q[k].who \in {"open", "restore"} \cup Clients => n = m
    OBVIOUS
<1> QED
    BY <1>1, <1>2, EntryStays

\* Appends that wait in every mode.
LEMMA EntriesElsewhere ==
    ASSUME NEW q, NEW t, NEW m, EntriesAt(q, t, m),
           \A k \in 1..Len(q) : q[k].who # "open" /\ q[k].who # "restore" /\ q[k].who \notin Clients
    PROVE  \A n : EntriesAt(q, t, n)
<1> SUFFICES ASSUME NEW n, NEW k \in 1..Len(q)
             PROVE  EntryAt(q[k], t, n)
    BY DEF EntriesAt
<1> QED
    BY DEF EntriesAt, EntryAt

\* The place and the mode where somebody's append can be on its way.
LEMMA Present ==
    ASSUME TreeInv, WriteInv, appends # <<>>
    PROVE  /\ EntryAt(Head(appends), turn, mode)
           /\ Waits("turn") => /\ Fits(Head(appends).event.type, Head(appends).event.ref, turn)
                               /\ turn.pc # "none" /\ turn.pc # "asking"
           /\ Waits("open") => mode = "recovering"
           /\ Waits("ask") => turn.pc = "asking"
           /\ Waits("restore") => mode = "open"
           /\ \A c \in Clients : Waits(c) => mode = "open" /\ Head(appends).event.type = "interaction.resolved"
<1>1. EntryAt(Head(appends), turn, mode)
    BY EntryGone DEF WriteInv, TreeInv, Tips
<1>2. Written("none") = "none" /\ Written("asking") = "none"
    BY WrittenIs
<1> QED
    BY <1>1, <1>2, TurnAssumptions DEF EntryAt, Fits, Waits

\* A running turn belongs to an open session.
LEMMA Running ==
    ASSUME WriteInv, turn.pc # "none"
    PROVE  mode = "open" /\ tip = Len(log)
BY NoTurnTyped DEF WriteInv, Modes

\* What a stored append adds to the log is an event.
LEMMA LogGrows ==
    ASSUME TreeInv, WriteInv, appends # <<>>, log' = Append(log, Head(appends).event)
    PROVE  /\ Len(log') = Len(log) + 1
           /\ \A k \in 1..Len(log') : log'[k].type \in Types
<1>1. Head(appends).event.type \in Types
    BY Present, EntryTyped
<1>2. /\ Len(log') = Len(log) + 1 /\ Len(log) \in Nat
      /\ log'[Len(log) + 1] = Head(appends).event
      /\ \A i \in 1..Len(log) : log'[i] = log[i]
    BY Appended DEF TreeInv, Tips
<1>3. \A k \in 1..Len(log') : k \in 1..Len(log) \/ k = Len(log) + 1
    BY <1>2
<1> QED
    BY <1>1, <1>2, <1>3 DEF WriteInv, Typed

\* The append of a caller is stored or dropped while the turn and the mode stay.
LEMMA SettlingKeepsWrites ==
    ASSUME TreeInv, WriteInv, Stores \/ Drops, UNCHANGED <<turn, mode, repairs>>
    PROVE  WriteInv'
<1>1. /\ LoneIn(Tail(appends)) /\ EntriesAt(Tail(appends), turn, mode)
      /\ appends' = Tail(appends)
    BY EntryGone DEF WriteInv, TreeInv, Tips, Stores, Stored, Drops
<1>2. CASE Stores
  <2>1. tip' = Len(log') /\ \A k \in 1..Len(log') : log'[k].type \in Types
    BY <1>2, LogGrows DEF Stores, Stored
  <2> QED
    BY <1>1, <2>1 DEF WriteInv, Modes, Typed
<1>3. CASE Drops
    BY <1>1, <1>3 DEF WriteInv, Modes, Typed, Drops
<1> QED
    BY <1>2, <1>3

\* A caller that may have several appends on their way adds one.
LEMMA AddingKeepsWrites ==
    ASSUME TreeInv, WriteInv, UNCHANGED <<log, tip, turn, mode, repairs>>,
           NEW e, appends' = Append(appends, e), e.who \notin Patient, EntryAt(e, turn, mode)
    PROVE  WriteInv'
<1>1. EntriesAt(appends', turn, mode) /\ LoneIn(appends')
    BY EntryAdded DEF WriteInv, TreeInv, Tips
<1> QED
    BY <1>1 DEF WriteInv, Modes, Typed

\* The steps of the turn.
LEMMA MovingKeepsWrites ==
    ASSUME TreeInv, AskType, WriteInv, TurnStep \/ RunTurn
    PROVE  WriteInv'
<1>1. /\ TurnAt(turn') /\ Between /\ TurnKeeps
      /\ turn.pc # "none" \/ mode = "open"
      /\ UNCHANGED appends \/ \E ref : TurnWrites(ref)
    BY TurnMoves DEF WriteInv
<1>2. mode = "open"
    BY <1>1, Running
<1>3. Modes' /\ Typed'
    BY <1>1, <1>2 DEF TurnKeeps, Modes, Typed, WriteInv
<1>4. /\ \A k \in 1..Len(appends) : appends[k].who # "turn" /\ appends[k].who # "ask"
      /\ EntriesAt(appends, turn, mode) /\ LoneIn(appends)
    BY <1>1, Absent DEF Between, WriteInv
<1>5. EntriesAt(appends, turn', mode)
    BY <1>4, EntriesStay
<1>6. CASE UNCHANGED appends
    BY <1>1, <1>3, <1>4, <1>5, <1>6 DEF WriteInv, TurnKeeps
<1>7. CASE \E ref : TurnWrites(ref)
  <2>1. PICK ref : TurnWrites(ref)
    BY <1>7
  <2> DEFINE e == [event |-> Event(Written(turn'.pc), ref), who |-> "turn"]
  <2>2. appends' = Append(appends, e)
    BY <2>1 DEF TurnWrites
  <2>3. e.who = "turn" /\ EntryAt(e, turn', mode)
    BY <2>1 DEF TurnWrites, EntryAt, Event
  <2> HIDE DEF e
  <2>4. EntriesAt(appends', turn', mode) /\ LoneIn(appends')
    BY <1>4, <1>5, <2>2, <2>3, EntryAdded DEF TreeInv, Tips
  <2> QED
    BY <1>1, <1>3, <2>4 DEF WriteInv, TurnKeeps
<1> QED
    BY <1>1, <1>6, <1>7

\* After an append of the turn is stored the turn is at a place of its own again.
LEMMA AfterTyped ==
    ASSUME NEW t, TurnAt(t), Written(t.pc) # "none"
    PROVE  TurnAt(After(t))
<1>1. \A pc \in Places \ {"calls"} : TurnAt([t EXCEPT !.pc = pc])
    BY TurnSet
<1>2. \A u : TurnAt(u) => TurnAt([u EXCEPT !.plan = NoPlan])
    BY TurnFields DEF TurnAt
<1>3. \A pc \in Places \ {"calls"} :
         [t EXCEPT !.pc = pc, !.plan = NoPlan] = [[t EXCEPT !.pc = pc] EXCEPT !.plan = NoPlan]
    OBVIOUS
<1>4. \A pc \in Places \ {"calls"} : TurnAt([t EXCEPT !.pc = pc, !.plan = NoPlan])
    BY <1>1, <1>2, <1>3
<1>5. TurnAt(NoTurn)
    BY NoTurnTyped
<1>6. t.calls # 0 => TurnAt([t EXCEPT !.pc = "calls"])
    BY TurnFields DEF TurnAt, Places
<1>7. \A pc \in Places : pc # "calls" \/ t.calls # 0 =>
         TurnAt([t EXCEPT !.outcome = "answered", !.pc = pc])
  <2> TAKE pc \in Places
  <2> HAVE pc # "calls" \/ t.calls # 0
  <2> DEFINE a == [t EXCEPT !.pc = pc]
  <2>1. TurnAt(a)
    BY <1>1, <1>6
  <2>2. [t EXCEPT !.outcome = "answered", !.pc = pc] = [a EXCEPT !.outcome = "answered"]
    OBVIOUS
  <2> HIDE DEF a
  <2>3. TurnAt([a EXCEPT !.outcome = "answered"])
    BY <2>1, TurnFields DEF TurnAt
  <2> QED
    BY <2>2, <2>3
<1>8. CASE t.pc \in {"user", "retry", "steering", "followUp"}
    BY <1>1, <1>8 DEF After, Places
<1>9. CASE t.pc = "assistant"
  <2>1. After(t) = [t EXCEPT !.pc = IF t.outcome \in {"error", "aborted"} THEN "ended"
                                    ELSE IF t.outcome = "stop" THEN "boundary"
                                    ELSE IF t.calls = 0 THEN "missing" ELSE "calls"]
    BY <1>9 DEF After
  <2>2. CASE t.outcome \in {"error", "aborted"}
    BY <1>1, <2>1, <2>2 DEF Places
  <2>3. CASE t.outcome = "stop"
    BY <1>1, <2>1, <2>3 DEF Places
  <2>4. CASE t.outcome \notin {"error", "aborted", "stop"} /\ t.calls = 0
    BY <1>1, <2>1, <2>4 DEF Places
  <2>5. CASE t.outcome \notin {"error", "aborted", "stop"} /\ t.calls # 0
    BY <1>6, <2>1, <2>5
  <2> QED
    BY <2>2, <2>3, <2>4, <2>5
<1>10. CASE t.pc = "call"
    BY <1>1, <1>10 DEF After, Places
<1>11. CASE t.pc = "result"
  <2>1. After(t) = [t EXCEPT !.outcome = "answered",
                             !.pc = IF t.aborted THEN "model"
                                    ELSE IF t.calls > 0 THEN "calls" ELSE "boundary"]
    BY <1>11 DEF After
  <2>2. CASE t.aborted
    <3>1. After(t) = [t EXCEPT !.outcome = "answered", !.pc = "model"]
      BY <2>1, <2>2
    <3> QED
      BY <1>7, <3>1 DEF Places
  <2>3. CASE ~t.aborted /\ t.calls > 0
    BY <1>7, <2>1, <2>3 DEF Places, TurnAt
  <2>4. CASE ~t.aborted /\ ~(t.calls > 0)
    BY <1>7, <2>1, <2>4 DEF Places
  <2> QED
    BY <2>2, <2>3, <2>4
<1>12. CASE t.pc = "compacting"
    BY <1>1, <1>12 DEF After, Places
<1>13. CASE t.pc \in {"compacted", "resteered"}
    BY <1>4, <1>13 DEF After, Places
<1>14. CASE t.pc = "uncompacted"
    BY <1>4, <1>5, <1>14 DEF After, Places
<1>15. CASE t.pc \notin {"user", "retry", "steering", "followUp", "assistant", "call", "result",
                        "compacting", "compacted", "resteered", "uncompacted"}
    BY <1>1, <1>15 DEF After, Places
<1> QED
    BY <1>8, <1>9, <1>10, <1>11, <1>12, <1>13, <1>14, <1>15

\* Nobody but the turn waits in its queue when its append is settled.
LEMMA TurnAlone ==
    ASSUME TreeInv, WriteInv, Waits("turn")
    PROVE  /\ \A u : EntriesAt(Tail(appends), u, mode)
           /\ LoneIn(Tail(appends))
           /\ \A k \in 1..Len(Tail(appends)) : Tail(appends)[k].who # "turn"
           /\ mode = "open" /\ tip = Len(log) /\ Written(turn.pc) # "none"
           /\ IsSeq(Tail(appends))
<1>0. appends # <<>>
    BY DEF Waits
<1>1. /\ LoneIn(Tail(appends)) /\ EntriesAt(Tail(appends), turn, mode)
      /\ \A k \in 1..Len(Tail(appends)) : Tail(appends)[k].who # "turn"
    BY <1>0, EntryGone DEF WriteInv, TreeInv, Tips, Waits, Patient
<1>2. /\ turn.pc # "none" /\ turn.pc # "asking" /\ Written(turn.pc) # "none"
    BY <1>0, Present DEF Fits
<1>3. \A k \in 1..Len(Tail(appends)) : Tail(appends)[k].who # "ask"
    BY <1>1, <1>2, Absent
<1>4. \A u : EntriesAt(Tail(appends), u, mode)
    BY <1>1, <1>3, EntriesStay
<1>5. IsSeq(Tail(appends))
    BY <1>0, Tailed DEF TreeInv, Tips
<1> QED
    BY <1>1, <1>2, <1>4, <1>5, Running

\* The append of the turn is stored.
LEMMA TurnStoredKeepsWrites ==
    ASSUME TreeInv, WriteInv, TurnStored
    PROVE  WriteInv'
<1>1. Waits("turn") /\ Stored /\ turn' = After(turn) /\ UNCHANGED <<mode, repairs>>
    BY DEF TurnStored, opening
<1>2. appends # <<>> /\ appends' = Tail(appends) /\ log' = Append(log, Head(appends).event)
      /\ tip' = Len(log) + 1
    BY <1>1 DEF Waits, Stored
<1>3. /\ EntriesAt(appends', turn', mode') /\ LoneIn(appends')
      /\ mode' = "open" /\ Written(turn.pc) # "none"
    BY <1>1, <1>2, TurnAlone
<1>4. TurnAt(turn')
    BY <1>1, <1>3, AfterTyped DEF WriteInv
<1>5. tip' = Len(log') /\ \A k \in 1..Len(log') : log'[k].type \in Types
    BY <1>2, LogGrows
<1> QED
    BY <1>1, <1>3, <1>4, <1>5 DEF WriteInv, Modes, Typed

\* The append of the turn fails.
LEMMA TurnFailsKeepsWrites ==
    ASSUME TreeInv, WriteInv, TurnFails
    PROVE  WriteInv'
<1>1. /\ Waits("turn") /\ UNCHANGED <<log, tip, mode, repairs>>
    BY DEF TurnFails, opening
<1>2. /\ \A u : EntriesAt(Tail(appends), u, mode) /\ LoneIn(Tail(appends))
      /\ \A k \in 1..Len(Tail(appends)) : Tail(appends)[k].who # "turn"
      /\ mode = "open" /\ IsSeq(Tail(appends))
    BY <1>1, TurnAlone
<1>3. Modes' /\ Typed'
    BY <1>1, <1>2 DEF WriteInv, Modes, Typed
<1>4. CASE /\ turn.pc = "compacted"
           /\ appends' = Append(Tail(appends), [event |-> Event("compaction.failed", 0),
                                                who |-> "turn"])
           /\ turn' = [turn EXCEPT !.pc = "uncompacted"]
  <2>1. TurnAt(turn') /\ turn'.pc = "uncompacted"
    BY <1>4, TurnSet DEF WriteInv, Places
  <2> DEFINE e == [event |-> Event("compaction.failed", 0), who |-> "turn"]
  <2>2. e.who = "turn" /\ EntryAt(e, turn', mode)
    BY <2>1, WrittenIs DEF EntryAt, Fits, Event
  <2>3. appends' = Append(Tail(appends), e)
    BY <1>4
  <2> HIDE DEF e
  <2>4. EntriesAt(appends', turn', mode) /\ LoneIn(appends')
    BY <1>2, <2>2, <2>3, EntryAdded
  <2> QED
    BY <1>1, <1>3, <2>1, <2>4 DEF WriteInv
<1>5. CASE /\ appends' = Tail(appends)
           /\ turn' = IF turn.pc \in {"compacting", "uncompacted"} /\ turn.outcome = "error"
                      THEN [turn EXCEPT !.pc = "reply", !.plan = NoPlan] ELSE NoTurn
  <2>1. TurnAt([turn EXCEPT !.pc = "reply", !.plan = NoPlan])
    <3> DEFINE a == [turn EXCEPT !.pc = "reply"]
    <3>1. TurnAt(a) /\ [turn EXCEPT !.pc = "reply", !.plan = NoPlan] = [a EXCEPT !.plan = NoPlan]
      BY TurnSet DEF WriteInv, Places
    <3> HIDE DEF a
    <3>2. TurnAt([a EXCEPT !.plan = NoPlan])
      BY <3>1, TurnFields DEF TurnAt
    <3> QED
      BY <3>1, <3>2
  <2>2. TurnAt(turn')
    BY <1>5, <2>1, NoTurnTyped
  <2> QED
    BY <1>1, <1>2, <1>3, <1>5, <2>2 DEF WriteInv
<1> QED
    BY <1>4, <1>5 DEF TurnFails

\* The request of an interaction.
LEMMA AskingKeepsWrites ==
    ASSUME TreeInv, WriteInv, ToolAsks \/ AskSettles
    PROVE  WriteInv'
<1>1. CASE ToolAsks
  <2>1. /\ turn.pc = "tool" /\ turn' = [turn EXCEPT !.pc = "asking"]
        /\ Enqueue("interaction.requested", ask.id + 1, "ask")
        /\ UNCHANGED <<log, tip, mode, repairs>>
    BY <1>1 DEF ToolAsks, Calls, opening
  <2>2. TurnAt(turn') /\ turn'.pc = "asking"
    BY <2>1, TurnSet DEF WriteInv, Places
  <2>3. mode = "open" /\ tip = Len(log)
    BY <2>1, Running
  <2>4. /\ \A k \in 1..Len(appends) : appends[k].who # "turn" /\ appends[k].who # "ask"
        /\ EntriesAt(appends, turn, mode) /\ LoneIn(appends)
    BY <2>1, Absent, WrittenIs DEF WriteInv
  <2>5. EntriesAt(appends, turn', mode)
    BY <2>4, EntriesStay
  <2> DEFINE e == [event |-> Event("interaction.requested", ask.id + 1), who |-> "ask"]
  <2>6. e.who = "ask" /\ EntryAt(e, turn', mode) /\ appends' = Append(appends, e)
    BY <2>1, <2>2 DEF EntryAt, Event, Enqueue
  <2> HIDE DEF e
  <2>7. EntriesAt(appends', turn', mode) /\ LoneIn(appends')
    BY <2>4, <2>5, <2>6, EntryAdded DEF TreeInv, Tips
  <2> QED
    BY <2>1, <2>2, <2>3, <2>7 DEF WriteInv, Modes, Typed
<1>2. CASE AskSettles
  <2>1. /\ appends # <<>> /\ Waits("ask") /\ appends' = Tail(appends) /\ UNCHANGED <<mode, repairs>>
        /\ \E pc \in {"waiting", "tool"} : turn' = [turn EXCEPT !.pc = pc]
        /\ \/ tip' = Len(log) + 1 /\ log' = Append(log, Head(appends).event)
           \/ UNCHANGED <<log, tip>>
    <3>1. Waits("ask") /\ UNCHANGED <<mode, repairs>>
      BY <1>2 DEF AskSettles, opening
    <3>2. appends # <<>>
      BY <3>1 DEF Waits
    <3>3. CASE Stored /\ Shown /\ turn' = [turn EXCEPT !.pc = "waiting"]
      BY <3>1, <3>2, <3>3 DEF Stored
    <3>4. CASE Failed /\ turn' = [turn EXCEPT !.pc = "tool"]
      BY <3>1, <3>2, <3>4 DEF Failed
    <3> QED
      BY <1>2, <3>3, <3>4 DEF AskSettles
  <2>2. TurnAt(turn')
    <3>1. \A pc \in Places \ {"calls"} : TurnAt([turn EXCEPT !.pc = pc])
      BY TurnSet DEF WriteInv
    <3> QED
      BY <2>1, <3>1 DEF Places
  <2>3. turn.pc = "asking" /\ mode = "open" /\ tip = Len(log)
    BY <2>1, Present, Running
  <2>4. /\ LoneIn(Tail(appends)) /\ EntriesAt(Tail(appends), turn, mode)
        /\ \A k \in 1..Len(Tail(appends)) : Tail(appends)[k].who # "ask"
    BY <2>1, EntryGone DEF WriteInv, TreeInv, Tips, Waits, Patient
  <2>5. \A k \in 1..Len(Tail(appends)) : Tail(appends)[k].who # "turn"
    BY <2>3, <2>4, Absent, WrittenIs
  <2>6. EntriesAt(appends', turn', mode)
    BY <2>1, <2>4, <2>5, EntriesStay
  <2>7. tip' = Len(log') /\ \A k \in 1..Len(log') : log'[k].type \in Types
    BY <2>1, <2>3, LogGrows DEF WriteInv, Typed
  <2> QED
    BY <2>1, <2>2, <2>3, <2>4, <2>6, <2>7 DEF WriteInv, Modes, Typed
<1> QED
    BY <1>1, <1>2

\* The events a recovery appends.
LEMMA RepairsAreTyped ==
    ASSUME NEW l, IsSeq(l)
    PROVE  /\ IsSeq(Repairs(l))
           /\ \A k \in 1..Len(Repairs(l)) : Repairs(l)[k].type \in RepairTypes
<1> DEFINE R == [type : RepairTypes, ref : {l[k].ref : k \in 1..Len(l)} \cup {0}]
           asked == Unanswered(l, Len(l), "interaction.requested", "interaction.resolved")
           called == Unanswered(l, Len(l), "tool.call", "tool.result")
           questions == Only(Ids(l), asked)
           calls == Only(Ids(l), called)
           unfinished == \E k \in Lineage(l, Len(l)) :
              /\ l[k].type = "compaction.started"
              /\ \A j \in Lineage(l, Len(l)) : j > k =>
                    l[j].type \notin {"context.compacted", "compaction.failed"}
           failure == IF unfinished THEN <<[type |-> "compaction.failed", ref |-> 0]>> ELSE <<>>
           cancels == [n \in 1..Len(questions) |->
                          [type |-> "interaction.resolved", ref |-> l[questions[n]].ref]]
           results == [n \in 1..Len(calls) |-> [type |-> "tool.result", ref |-> l[calls[n]].ref]]
<1>1. Ids(l) \in Seq(1..Len(l))
    BY Empty DEF Ids
<1>2. questions \in Seq(1..Len(l)) /\ calls \in Seq(1..Len(l))
  <2>1. \A K : Only(Ids(l), K) \in Seq(1..Len(l))
    BY <1>1, OnlyOf
  <2> QED
    BY <2>1
<1>3. Root \in R
    BY DEF Root, RepairTypes
<1>4. failure \in Seq(R)
  <2>1. [type |-> "compaction.failed", ref |-> 0] \in R
    BY DEF RepairTypes
  <2> HIDE DEF unfinished, R
  <2> QED
    BY <2>1
<1>5. cancels \in Seq(R)
  <2> HIDE DEF questions
  <2>1. Len(questions) \in Nat /\ \A n \in 1..Len(questions) : questions[n] \in 1..Len(l)
    BY <1>2
  <2> QED
    BY <2>1 DEF RepairTypes
<1>6. results \in Seq(R)
  <2> HIDE DEF calls
  <2>1. Len(calls) \in Nat /\ \A n \in 1..Len(calls) : calls[n] \in 1..Len(l)
    BY <1>2
  <2> QED
    BY <2>1 DEF RepairTypes
<1>7. Repairs(l) = IF l = <<>> THEN <<Root>> ELSE failure \o cancels \o results
    BY DEF Repairs
<1> HIDE DEF failure, cancels, results
<1>8. Repairs(l) \in Seq(R)
  <2>1. failure \o cancels \o results \in Seq(R)
    BY <1>4, <1>5, <1>6
  <2>2. <<Root>> \in Seq(R)
    BY <1>3
  <2> QED
    BY <1>7, <2>1, <2>2
<1>9. \A k \in 1..Len(Repairs(l)) : Repairs(l)[k] \in R
  <2> HIDE DEF R
  <2> QED
    BY <1>8
<1>10. \A r \in R : r.type \in RepairTypes
    OBVIOUS
<1> QED
    BY <1>8, <1>9, <1>10, Zenon DEF IsSeq

\* Opening, recovering, and the end of the process.
LEMMA OpeningKeepsWrites ==
    ASSUME TreeInv, WriteInv, Open \/ Recover \/ RecoverySettles \/ Crash
    PROVE  WriteInv'
<1>1. CASE Open
  <2>1. /\ mode = "closed" /\ appends = <<>> /\ UNCHANGED <<log, appends, turn>>
        /\ \/ mode' = "recovering" /\ repairs' = Repairs(log) /\ tip' = Len(log)
           \/ mode' = "unreadable" /\ UNCHANGED <<repairs, tip>>
    BY <1>1 DEF Open
  <2>2. turn = NoTurn /\ repairs = <<>>
    BY <2>1 DEF WriteInv, Modes
  <2>3. EntriesAt(appends', turn', mode') /\ LoneIn(appends')
    BY <2>1 DEF EntriesAt, LoneIn
  <2>4. /\ IsSeq(Repairs(log)) /\ \A k \in 1..Len(Repairs(log)) : Repairs(log)[k].type \in RepairTypes
    BY RepairsAreTyped DEF TreeInv, Tips
  <2>5. /\ IsSeq(repairs) /\ \A k \in 1..Len(repairs) : repairs[k].type \in RepairTypes
        /\ \A k \in 1..Len(log) : log[k].type \in Types
    BY DEF WriteInv, Typed
  <2>6. Typed'
    BY <2>1, <2>4, <2>5 DEF Typed
  <2> QED
    BY <2>1, <2>2, <2>3, <2>6 DEF WriteInv, Modes
<1>2. CASE Recover
  <2>1. /\ mode = "recovering" /\ \A k \in 1..Len(appends) : appends[k].who # "open"
        /\ UNCHANGED <<log, tip, turn>> /\ turn = NoTurn
    BY <1>2 DEF Recover, Calls, WriteInv, Modes
  <2>2. /\ \A k \in 1..Len(appends) : appends[k].who # "restore" /\ appends[k].who \notin Clients
        /\ EntriesAt(appends, turn, mode) /\ LoneIn(appends)
    BY <2>1, Absent DEF WriteInv
  <2>3. CASE /\ repairs # <<>> /\ UNCHANGED mode
             /\ Enqueue(Head(repairs).type, Head(repairs).ref, "open") /\ repairs' = Tail(repairs)
    <3>1. /\ Head(repairs).type \in RepairTypes
          /\ IsSeq(Tail(repairs)) /\ \A k \in 1..Len(Tail(repairs)) : Tail(repairs)[k].type \in RepairTypes
      BY <2>3, Tailed DEF WriteInv, Typed
    <3> DEFINE e == [event |-> Event(Head(repairs).type, Head(repairs).ref), who |-> "open"]
    <3>2. e.who = "open" /\ EntryAt(e, turn, mode) /\ appends' = Append(appends, e)
      BY <2>1, <2>3, <3>1 DEF EntryAt, Event, Enqueue
    <3> HIDE DEF e
    <3>3. EntriesAt(appends', turn, mode) /\ LoneIn(appends')
      BY <2>1, <2>2, <3>2, EntryAdded DEF TreeInv, Tips
    <3> QED
      BY <2>1, <2>3, <3>1, <3>3 DEF WriteInv, Modes, Typed
  <2>4. CASE mode' = "open" /\ repairs = <<>> /\ UNCHANGED <<repairs, appends>>
    <3>0. \A k \in 1..Len(appends) : /\ appends[k].who # "open" /\ appends[k].who # "restore"
                                      /\ appends[k].who \notin Clients
      BY <2>1, <2>2
    <3>1. EntriesAt(appends, turn, "open")
      BY <2>2, <3>0, EntriesElsewhere
    <3> QED
      BY <2>1, <2>2, <2>4, <3>1 DEF WriteInv, Modes, Typed
  <2> QED
    BY <1>2, <2>3, <2>4 DEF Recover
<1>3. CASE RecoverySettles
  <2>1. appends # <<>> /\ Waits("open") /\ mode = "recovering" /\ turn' = turn
    BY <1>3, Present DEF RecoverySettles, Waits
  <2>2. CASE Stored /\ Shown /\ UNCHANGED <<opening, used>>
    BY <2>1, <2>2, SettlingKeepsWrites DEF Stores, opening
  <2>3. CASE Failed /\ mode' = "closed" /\ repairs' = <<>>
    <3>1. /\ LoneIn(Tail(appends)) /\ EntriesAt(Tail(appends), turn, mode)
          /\ \A k \in 1..Len(Tail(appends)) : Tail(appends)[k].who # "open"
      BY <2>1, EntryGone DEF WriteInv, TreeInv, Tips, Waits, Patient
    <3>2. mode # "open"
      BY <2>1
    <3>6. \A k \in 1..Len(Tail(appends)) : /\ Tail(appends)[k].who # "restore"
                                            /\ Tail(appends)[k].who \notin Clients
      BY <3>1, <3>2, Absent
    <3>7. \A k \in 1..Len(Tail(appends)) :
             /\ Tail(appends)[k].who # "open" /\ Tail(appends)[k].who # "restore"
             /\ Tail(appends)[k].who \notin Clients
      BY <3>1, <3>6
    <3>3. EntriesAt(Tail(appends), turn, "closed")
      BY <3>1, <3>7, EntriesElsewhere
    <3>4. appends' = Tail(appends) /\ UNCHANGED <<log, tip>>
      BY <2>3 DEF Failed
    <3>5. IsSeq(repairs') /\ \A k \in 1..Len(repairs') : repairs'[k].type \in RepairTypes
      BY <2>3 DEF IsSeq
    <3> QED
      BY <2>1, <2>3, <3>1, <3>3, <3>4, <3>5 DEF WriteInv, Modes, Typed
  <2> QED
    BY <1>3, <2>2, <2>3 DEF RecoverySettles
<1>4. CASE Crash
  <2>1. /\ appends' = <<>> /\ tip' = 0 /\ mode' = "closed" /\ turn' = NoTurn /\ repairs' = <<>>
        /\ log' = log \/ (appends # <<>> /\ log' = Append(log, Head(appends).event))
    BY <1>4 DEF Crash
  <2>2. \A k \in 1..Len(log') : log'[k].type \in Types
    BY <2>1, LogGrows DEF WriteInv, Typed
  <2>3. IsSeq(repairs') /\ \A k \in 1..Len(repairs') : repairs'[k].type \in RepairTypes
    BY <2>1 DEF IsSeq
  <2>4. EntriesAt(appends', turn', mode') /\ LoneIn(appends')
    BY <2>1 DEF EntriesAt, LoneIn
  <2> QED
    BY <2>1, <2>2, <2>3, <2>4, NoTurnTyped DEF WriteInv, Modes, Typed
<1> QED
    BY <1>1, <1>2, <1>3, <1>4

\* The operations beside the turn.
LEMMA OthersKeepWrites ==
    ASSUME TreeInv, WriteInv,
           \/ Steer \/ Interrupt \/ AskTimesOut \/ OtherAppends \/ Restore
           \/ (\E c \in Clients : Respond(c))
           \/ OtherSettles \/ RestoreSettles \/ (\E c \in Clients : ResponseSettles(c))
           \/ UNCHANGED vars
    PROVE  WriteInv'
<1>1. CASE Steer \/ AskTimesOut \/ UNCHANGED vars
  <2>1. UNCHANGED <<log, appends, tip, mode, repairs, turn>>
    BY <1>1 DEF Steer, AskTimesOut, NoAppend, opening, vars
  <2> QED
    BY <2>1 DEF WriteInv, Modes, Typed
<1>2. CASE Interrupt
  <2>1. /\ UNCHANGED <<log, appends, tip, mode, repairs>> /\ mode = "open"
        /\ turn' = [turn EXCEPT !.aborted = TRUE]
    BY <1>2 DEF Interrupt, NoAppend, opening
  <2>2. TurnAt(turn') /\ turn'.pc = turn.pc /\ turn'.call = turn.call /\ turn'.plan = turn.plan
    BY <2>1 DEF WriteInv, TurnAt
  <2>3. EntriesAt(appends, turn', mode)
    <3>1. \/ \A k \in 1..Len(appends) : appends[k].who # "ask"
          \/ turn.pc = "asking"
      BY Absent DEF WriteInv
    <3> QED
      BY <2>2, <3>1, EntriesStay DEF WriteInv
  <2> QED
    BY <2>1, <2>2, <2>3 DEF WriteInv, Modes, Typed
<1>3. CASE OtherAppends
  <2>1. PICK type \in Beside : Enqueue(type, 0, "other")
    BY <1>3 DEF OtherAppends
  <2> DEFINE e == [event |-> Event(type, 0), who |-> "other"]
  <2>2. e.who \notin Patient /\ EntryAt(e, turn, mode) /\ appends' = Append(appends, e)
    BY <2>1 DEF Patient, EntryAt, Event, Enqueue
  <2> HIDE DEF e
  <2> QED
    BY <1>3, <2>2, AddingKeepsWrites DEF OtherAppends, Calls, opening
<1>4. CASE Restore
  <2> DEFINE e == [event |-> Event("queue.restored", 0), who |-> "restore",
                   items |-> steering \o followUp]
  <2>1. e.who \notin Patient /\ EntryAt(e, turn, mode) /\ appends' = Append(appends, e)
    BY <1>4 DEF Restore, Patient, EntryAt, Event
  <2> HIDE DEF e
  <2> QED
    BY <1>4, <2>1, AddingKeepsWrites DEF Restore, Calls, opening
<1>5. ASSUME NEW c \in Clients, Respond(c)
      PROVE  WriteInv'
  <2> DEFINE e == [event |-> Event("interaction.resolved", ask.id), who |-> c]
  <2>1. e.who \notin Patient /\ EntryAt(e, turn, mode) /\ appends' = Append(appends, e)
    BY <1>5, TurnAssumptions DEF Respond, Patient, EntryAt, Event, Enqueue
  <2> HIDE DEF e
  <2> QED
    BY <1>5, <2>1, AddingKeepsWrites DEF Respond, Calls, opening
<1>6. CASE OtherSettles \/ RestoreSettles \/ (\E c \in Clients : ResponseSettles(c))
  <2>1. UNCHANGED <<turn, mode, repairs>> /\ appends # <<>>
    BY <1>6 DEF OtherSettles, RestoreSettles, ResponseSettles, opening, Waits
  <2>2. Stored \/ Failed
    BY <1>6 DEF OtherSettles, RestoreSettles, ResponseSettles
  <2>3. Stores \/ Drops
    BY <2>1, <2>2 DEF Stores, Drops, Failed
  <2> QED
    BY <2>1, <2>3, SettlingKeepsWrites
<1> QED
    BY <1>1, <1>2, <1>3, <1>4, <1>5, <1>6

\* No step breaks the invariant of the writers.
LEMMA NextKeepsWrites ==
    ASSUME TreeInv, AskType, WriteInv, [Next]_vars
    PROVE  WriteInv'
BY MovingKeepsWrites, TurnStoredKeepsWrites, TurnFailsKeepsWrites, AskingKeepsWrites,
   OpeningKeepsWrites, OthersKeepWrites DEF Next, Settles

\* It holds at the start.
LEMMA WritesStart == Init => WriteInv
BY NoTurnTyped DEF Init, WriteInv, EntriesAt, LoneIn, Modes, Typed, IsSeq

-----------------------------------------------------------------------------
(* The queued input.                                                       *)

\* Only an open session takes input, and what it queues it has taken.
Inputs ==
    /\ IsSeq(steering) /\ IsSeq(followUp)
    /\ Elements(steering) \cup Elements(followUp) \subseteq input
    /\ input \subseteq Messages
    /\ mode # "open" => input = {}

\* The steps that leave the queues alone.
LEMMA QueuesStay ==
    ASSUME \/ Open \/ Recover \/ RecoverySettles
           \/ RunTurn \/ Interrupt \/ ToolAsks \/ AskTimesOut \/ OtherAppends
           \/ (\E c \in Clients : Respond(c) \/ ResponseSettles(c))
           \/ TurnFails \/ OtherSettles \/ AskSettles
           \/ (TurnStep /\ ~ContinueQueued) \/ UNCHANGED vars
    PROVE  UNCHANGED queues
BY DEF Open, Recover, RecoverySettles, RunTurn, Interrupt, ToolAsks, AskTimesOut, OtherAppends,
       Respond, ResponseSettles, TurnFails, OtherSettles, AskSettles, TurnStep,
       CompactAtThreshold, Summarized, Resume, CallModel, ModelAnswers, Reply, NextCall,
       ToolReturns, Boundary, MissingToolCall, AskerGoesOn, vars, queues

\* A queue that lost its first message, and one that got one more.
LEMMA ElementsTail ==
    ASSUME NEW s, IsSeq(s), s # <<>>
    PROVE  /\ Elements(s) = Elements(Tail(s)) \cup {Head(s)} /\ IsSeq(Tail(s))
           /\ (\A j, k \in 1..Len(s) : s[j] = s[k] => j = k) =>
                 /\ Head(s) \notin Elements(Tail(s))
                 /\ \A j, k \in 1..Len(Tail(s)) : Tail(s)[j] = Tail(s)[k] => j = k
<1>1. /\ IsSeq(Tail(s))
      /\ Len(s) \in Nat \ {0} /\ Len(Tail(s)) = Len(s) - 1 /\ Head(s) = s[1]
      /\ \A i \in 1..Len(Tail(s)) : i + 1 \in 1..Len(s) /\ Tail(s)[i] = s[i + 1]
    BY Tailed
<1>2. \A i \in 1..Len(s) : i = 1 \/ i - 1 \in 1..Len(Tail(s))
    BY <1>1
<1>3. ASSUME NEW x \in Elements(s)  PROVE x \in Elements(Tail(s)) \cup {Head(s)}
  <2>1. PICK i \in 1..Len(s) : x = s[i]
    BY DEF Elements
  <2>2. CASE i - 1 \in 1..Len(Tail(s))
    <3>1. Tail(s)[i - 1] = s[i]
      BY <1>1, <2>2
    <3> QED
      BY <2>1, <2>2, <3>1 DEF Elements
  <2> QED
    BY <1>1, <1>2, <2>1, <2>2
<1>4. ASSUME NEW x \in Elements(Tail(s)) \cup {Head(s)}  PROVE x \in Elements(s)
  <2>1. CASE x = Head(s)
    BY <1>1, <2>1 DEF Elements
  <2>2. CASE x \in Elements(Tail(s))
    <3>1. PICK i \in 1..Len(Tail(s)) : x = Tail(s)[i]
      BY <2>2 DEF Elements
    <3> QED
      BY <1>1, <3>1 DEF Elements
  <2> QED
    BY <2>1, <2>2
<1>5. ASSUME \A j, k \in 1..Len(s) : s[j] = s[k] => j = k
      PROVE  /\ Head(s) \notin Elements(Tail(s))
             /\ \A j, k \in 1..Len(Tail(s)) : Tail(s)[j] = Tail(s)[k] => j = k
  <2>1. \A i \in 1..Len(Tail(s)) : Tail(s)[i] # Head(s)
    <3>1. \A i \in 1..Len(Tail(s)) : i + 1 # 1 /\ i + 1 \in 1..Len(s) /\ 1 \in 1..Len(s)
      BY <1>1
    <3> QED
      BY <1>1, <1>5, <3>1
  <2>2. ASSUME NEW j \in 1..Len(Tail(s)), NEW k \in 1..Len(Tail(s)), Tail(s)[j] = Tail(s)[k]
        PROVE  j = k
    <3>1. j + 1 = k + 1
      BY <1>1, <1>5, <2>2
    <3> QED
      BY <3>1
  <2> QED
    BY <2>1, <2>2 DEF Elements
<1> QED
    BY <1>1, <1>3, <1>4, <1>5

\* A queue that got one more message.
LEMMA ElementsAppend ==
    ASSUME NEW s, IsSeq(s), NEW x
    PROVE  /\ Elements(Append(s, x)) = Elements(s) \cup {x} /\ IsSeq(Append(s, x))
           /\ x \notin Elements(s) /\ (\A j, k \in 1..Len(s) : s[j] = s[k] => j = k) =>
                 \A j, k \in 1..Len(Append(s, x)) : Append(s, x)[j] = Append(s, x)[k] => j = k
           /\ s # <<>> => Head(Append(s, x)) = Head(s)
<1>1. /\ IsSeq(Append(s, x)) /\ Append(s, x) # <<>>
      /\ Len(s) \in Nat /\ Len(Append(s, x)) = Len(s) + 1
      /\ Append(s, x)[Len(s) + 1] = x
      /\ \A i \in 1..Len(s) : Append(s, x)[i] = s[i]
    BY Appended
<1>2. \A i \in 1..Len(Append(s, x)) : i \in 1..Len(s) \/ i = Len(s) + 1
    BY <1>1
<1>3. Len(s) + 1 \in 1..Len(Append(s, x)) /\ \A i \in 1..Len(s) : i \in 1..Len(Append(s, x))
    BY <1>1
<1>4. Elements(Append(s, x)) = Elements(s) \cup {x}
    BY <1>1, <1>2, <1>3 DEF Elements
<1>5. ASSUME x \notin Elements(s), \A j, k \in 1..Len(s) : s[j] = s[k] => j = k,
             NEW j \in 1..Len(Append(s, x)), NEW k \in 1..Len(Append(s, x)),
             Append(s, x)[j] = Append(s, x)[k]
      PROVE  j = k
    BY <1>1, <1>2, <1>5 DEF Elements
<1>6. ASSUME s # <<>>  PROVE Head(Append(s, x)) = Head(s)
  <2>1. 1 \in 1..Len(s)
    BY <1>6, Tailed
  <2> QED
    BY <1>1, <1>6, <2>1, Tailed
<1> QED
    BY <1>1, <1>4, <1>5, <1>6

\* Both queues together.
LEMMA ElementsJoin ==
    ASSUME NEW s, NEW t, IsSeq(s), IsSeq(t)
    PROVE  /\ Elements(s \o t) = Elements(s) \cup Elements(t)
           /\ s \o t = <<>> <=> s = <<>> /\ t = <<>>
           /\ s # <<>> => Head(s \o t) = Head(s)
           /\ s = <<>> => s \o t = t
<1> PICK S : s \in Seq(S)
    BY DEF IsSeq
<1> PICK T : t \in Seq(T)
    BY DEF IsSeq
<1> s \in Seq(S \cup T) /\ t \in Seq(S \cup T)
  <2>1. \A A, B : A \subseteq B => Seq(A) \subseteq Seq(B)
    OBVIOUS
  <2> QED
    BY <2>1
<1>1. /\ Len(s) \in Nat /\ Len(t) \in Nat /\ Len(s \o t) = Len(s) + Len(t)
      /\ \A i \in 1..Len(s) : (s \o t)[i] = s[i]
      /\ \A i \in 1..Len(t) : (s \o t)[Len(s) + i] = t[i]
    OBVIOUS
<1>2. \A i \in 1..Len(s \o t) : i \in 1..Len(s) \/ (i - Len(s) \in 1..Len(t) /\ i = Len(s) + (i - Len(s)))
    BY <1>1
<1>3. /\ \A i \in 1..Len(s) : i \in 1..Len(s \o t)
      /\ \A i \in 1..Len(t) : Len(s) + i \in 1..Len(s \o t)
    BY <1>1
<1>4. \A x \in Elements(s \o t) : x \in Elements(s) \cup Elements(t)
    BY <1>1, <1>2 DEF Elements
<1>5. \A x \in Elements(s) \cup Elements(t) : x \in Elements(s \o t)
    BY <1>1, <1>3 DEF Elements
<1>6. Elements(s \o t) = Elements(s) \cup Elements(t)
    BY <1>4, <1>5
<1>7. s \o t = <<>> <=> s = <<>> /\ t = <<>>
    OBVIOUS
<1>8. s # <<>> => Head(s \o t) = Head(s)
    OBVIOUS
<1>9. s = <<>> => s \o t = t
    OBVIOUS
<1> QED
    BY <1>6, <1>7, <1>8, <1>9

\* The loop of send takes the oldest queued message.
LEMMA Continued ==
    ASSUME Inputs, ContinueQueued
    PROVE  \/ /\ steering # <<>> /\ steering' = Tail(steering)
              /\ UNCHANGED <<followUp, input, handed, overtaken>>
              /\ Enqueue("user.message", Head(steering), "turn") /\ turn' = [NoTurn EXCEPT !.pc = "user"]
           \/ /\ steering = <<>> /\ followUp # <<>> /\ followUp' = Tail(followUp)
              /\ UNCHANGED <<steering, input, handed, overtaken>>
              /\ Enqueue("user.message", Head(followUp), "turn") /\ turn' = [NoTurn EXCEPT !.pc = "user"]
           \/ UNCHANGED <<queues, appends>> /\ turn' = NoTurn
<1> DEFINE s == steering \o followUp
<1>1. /\ s = <<>> <=> steering = <<>> /\ followUp = <<>>
      /\ steering # <<>> => Head(s) = Head(steering)
      /\ steering = <<>> => s = followUp
    BY ElementsJoin DEF Inputs
<1>2. \/ /\ s # <<>>
         /\ Enqueue("user.message", Head(s), "turn")
         /\ turn' = [NoTurn EXCEPT !.pc = "user"]
         /\ IF steering # <<>> THEN steering' = Tail(steering) /\ UNCHANGED followUp
            ELSE followUp' = Tail(followUp) /\ UNCHANGED steering
         /\ UNCHANGED <<input, handed, overtaken>>
      \/ turn' = NoTurn /\ UNCHANGED <<appends, queues>>
    BY DEF ContinueQueued
<1> HIDE DEF s
<1> QED
    BY <1>1, <1>2

\* What the queues hold was accepted, by an open session, from the users.
LEMMA NextKeepsInputs ==
    ASSUME TreeInv, AskType, WriteInv, Inputs, [Next]_vars
    PROVE  Inputs'
<1>1. CASE /\ UNCHANGED queues /\ mode' = mode
    BY <1>1 DEF Inputs, queues
<1>2. CASE Open \/ Recover \/ RecoverySettles
  <2>1. UNCHANGED queues /\ mode # "open"
    <3>1. RecoverySettles => appends # <<>> /\ Waits("open")
      BY DEF RecoverySettles, Waits
    <3>2. mode # "open"
      BY <1>2, <3>1, Present DEF Open, Recover
    <3> QED
      BY <1>2, <3>2, QueuesStay
  <2> QED
    BY <2>1 DEF Inputs, queues
<1>3. CASE Crash
  <2>1. steering' = <<>> /\ followUp' = <<>> /\ input' = {}
    BY <1>3 DEF Crash
  <2>2. IsSeq(<<>>) /\ Elements(<<>>) = {}
    BY DEF IsSeq, Elements
  <2> QED
    BY <2>1, <2>2 DEF Inputs
<1>4. CASE Steer
  <2>1. PICK m \in Fresh : /\ input' = input \cup {m}
                           /\ \/ steering' = Append(steering, m) /\ UNCHANGED followUp
                              \/ followUp' = Append(followUp, m) /\ UNCHANGED steering
    BY <1>4 DEF Steer
  <2>2. m \in Messages /\ mode' = mode /\ mode = "open"
    BY <1>4 DEF Fresh, Steer, opening
  <2>3. /\ Elements(Append(steering, m)) = Elements(steering) \cup {m} /\ IsSeq(Append(steering, m))
        /\ Elements(Append(followUp, m)) = Elements(followUp) \cup {m} /\ IsSeq(Append(followUp, m))
    BY ElementsAppend DEF Inputs
  <2> QED
    BY <2>1, <2>2, <2>3 DEF Inputs
<1>5. CASE Restore
    BY <1>5 DEF Restore, Inputs, opening
<1>6. CASE RestoreSettles
  <2>1. mode' = mode /\ input' = input
    BY <1>6 DEF RestoreSettles, opening, queues
  <2>2. (steering' = <<>> /\ followUp' = <<>>) \/ UNCHANGED <<steering, followUp>>
    BY <1>6 DEF RestoreSettles, queues
  <2>3. IsSeq(<<>>) /\ Elements(<<>>) = {}
    BY DEF IsSeq, Elements
  <2> QED
    BY <2>1, <2>2, <2>3 DEF Inputs
<1>7. CASE TurnStored
  <2>1. /\ mode' = mode /\ input' = input
        /\ steering' = steering \/ steering' = Shift(steering)
        /\ followUp' = followUp \/ followUp' = Shift(followUp)
    BY <1>7 DEF TurnStored, opening
  <2>2. \A s : IsSeq(s) => IsSeq(Shift(s)) /\ Elements(Shift(s)) \subseteq Elements(s)
    <3> TAKE s
    <3> HAVE IsSeq(s)
    <3>1. CASE s = <<>>
      BY <3>1 DEF Shift
    <3>2. CASE s # <<>>
      BY <3>2, ElementsTail DEF Shift
    <3> QED
      BY <3>1, <3>2
  <2> QED
    BY <2>1, <2>2 DEF Inputs
<1>8. CASE ContinueQueued
  <2>1. mode' = mode /\ input' = input
    BY <1>8 DEF ContinueQueued, Calls, opening, queues
  <2>2. \/ steering # <<>> /\ steering' = Tail(steering) /\ followUp' = followUp
        \/ followUp # <<>> /\ followUp' = Tail(followUp) /\ steering' = steering
        \/ UNCHANGED <<steering, followUp>>
    BY <1>8, Continued DEF queues
  <2>3. /\ steering # <<>> => IsSeq(Tail(steering)) /\ Elements(Tail(steering)) \subseteq Elements(steering)
        /\ followUp # <<>> => IsSeq(Tail(followUp)) /\ Elements(Tail(followUp)) \subseteq Elements(followUp)
    BY ElementsTail DEF Inputs
  <2> QED
    BY <2>1, <2>2, <2>3 DEF Inputs
<1>9. CASE RunTurn \/ Interrupt \/ ToolAsks \/ AskTimesOut \/ OtherAppends
             \/ (\E c \in Clients : Respond(c) \/ ResponseSettles(c))
             \/ TurnFails \/ OtherSettles \/ AskSettles \/ UNCHANGED vars
  <2>1. mode' = mode
    BY <1>9 DEF RunTurn, Interrupt, ToolAsks, AskTimesOut, OtherAppends, Respond, ResponseSettles,
       TurnFails, OtherSettles, AskSettles, vars, opening
  <2> QED
    BY <1>1, <1>9, <2>1, QueuesStay
<1>10. CASE TurnStep /\ ~ContinueQueued
  <2>1. mode' = mode
    BY <1>10, TurnMoves DEF TurnKeeps, WriteInv
  <2> QED
    BY <1>1, <1>10, <2>1, QueuesStay
<1> QED
    BY <1>2, <1>3, <1>4, <1>5, <1>6, <1>7, <1>8, <1>9, <1>10 DEF Next, Settles

\* There is no input at the start.
LEMMA InputsStart == Init => Inputs
BY DEF Init, Inputs, IsSeq, Elements

(* Every variable keeps its kind of value: whatever is appended, fails, is recovered or is
   compacted, the log holds events of the protocol in a tree, the turn is at one of its
   places, and what the queues hold was accepted as input (AgentSession). *)
THEOREM TypesHold == Spec => []TypeOK
<1>1. Init => TreeInv /\ AskType /\ WriteInv /\ Inputs
    BY Starts, WritesStart, InputsStart
<1>2. TreeInv /\ AskType /\ WriteInv /\ Inputs /\ [Next]_vars => (TreeInv /\ AskType /\ WriteInv /\ Inputs)'
    BY NextKeepsTree, NextKeepsAskType, NextKeepsWrites, NextKeepsInputs
<1>3. TreeInv /\ AskType /\ WriteInv /\ Inputs => TypeOK
  <2> SUFFICES ASSUME TreeInv, AskType, WriteInv, Inputs
               PROVE  TypeOK
    OBVIOUS
  <2>1. \A k \in 1..Len(log) : log[k].type \in Types /\ log[k].parent \in Nat
    BY DEF TreeInv, Parents, WriteInv, Typed
  <2>2. /\ tip \in 0..Len(log)
        /\ mode \in {"closed", "recovering", "open", "unreadable"}
    BY DEF TreeInv, Tips, WriteInv, Modes
  <2>3. turn.pc \in Places
    BY DEF WriteInv, TurnAt
  <2>4. Elements(steering) \cup Elements(followUp) \subseteq input /\ input \subseteq Messages
    BY DEF Inputs
  <2>5. ask.asker \in {"none", "waiting", "answered", "rejected"}
    BY DEF AskType
  <2> QED
    BY <2>1, <2>2, <2>3, <2>4, <2>5 DEF TypeOK, Places
<1> QED
    BY <1>1, <1>2, <1>3, PTL DEF Spec

-----------------------------------------------------------------------------
(* Steering: where a queued message is.                                    *)

\* The messages that are in the log, and those on their way.
Told == {log[k].ref : k \in {j \in 1..Len(log) : log[j].type = "user.message"}}
Sent == {appends[k].event.ref : k \in {j \in 1..Len(appends) : appends[j].event.type = "user.message"}}
Queued == Elements(steering) \cup Elements(followUp)

Once(q) == \A j, k \in 1..Len(q) : q[j] = q[k] => j = k

\* A message is queued once.
Lined == Once(steering) /\ Once(followUp) /\ \A m \in Elements(steering) : m \notin Elements(followUp)

\* The message the turn delivers is still the first of its queue.
Heading(m) ==
    \/ turn.pc \in {"steering", "resteered"} /\ steering # <<>> /\ Head(steering) = m
    \/ turn.pc = "followUp" /\ followUp # <<>> /\ Head(followUp) = m

Delivers == Delivering => \A m \in Sent : Heading(m)

TellsOnce == \A j, k \in 1..Len(log) :
    /\ log[j].type = "user.message" /\ log[k].type = "user.message"
    /\ log[j].ref = log[k].ref /\ log[j].ref \in input
    => j = k

\* A message is in one place, except that it leaves its queue when it is stored.
Place(m) ==
    /\ m \in Queued => m \notin Told /\ m \notin handed /\ (m \in Sent => Heading(m))
    /\ m \in Sent => m \notin Told /\ m \notin handed
    /\ m \in handed => m \notin Told
    /\ m \in Queued \cup Sent \cup handed \cup Told

Placed == Lined /\ Delivers /\ TellsOnce /\ \A m \in input : Place(m)

SteerInv == ~broken /\ ~overtaken => Placed

\* Only the turn says what users say.
LEMMA Speaking ==
    ASSUME NEW e, NEW t, NEW m, EntryAt(e, t, m), e.event.type = "user.message"
    PROVE  e.who = "turn" /\ Written(t.pc) = "user.message"
<1>1. "user.message" \notin RepairTypes /\ "user.message" \notin Beside
    BY TurnAssumptions DEF RepairTypes
<1> QED
    BY <1>1 DEF EntryAt, Fits

\* A turn that says nothing has no message on its way.
LEMMA SentIs ==
    ASSUME WriteInv, Written(turn.pc) # "user.message"
    PROVE  Sent = {}
<1>1. \A k \in 1..Len(appends) : appends[k].event.type # "user.message"
    BY Speaking DEF WriteInv, EntriesAt
<1> QED
    BY <1>1 DEF Sent

\* The messages on their way after one more append.
LEMMA SentAdds ==
    ASSUME TreeInv, NEW e, appends' = Append(appends, e)
    PROVE  /\ e.event.type = "user.message" => Sent' = Sent \cup {e.event.ref}
           /\ e.event.type # "user.message" => Sent' = Sent
<1>1. /\ Len(appends) \in Nat /\ Len(appends') = Len(appends) + 1
      /\ appends'[Len(appends) + 1] = e
      /\ \A i \in 1..Len(appends) : appends'[i] = appends[i]
    BY Appended DEF TreeInv, Tips
<1>2. /\ \A k \in 1..Len(appends') : k \in 1..Len(appends) \/ k = Len(appends) + 1
      /\ \A k \in 1..Len(appends) : k \in 1..Len(appends')
      /\ Len(appends) + 1 \in 1..Len(appends')
    BY <1>1
<1>3. ASSUME NEW r \in Sent  PROVE r \in Sent'
    BY <1>1, <1>2 DEF Sent
<1>4. ASSUME NEW r \in Sent'  PROVE r \in Sent \/ (e.event.type = "user.message" /\ r = e.event.ref)
    BY <1>1, <1>2 DEF Sent
<1>5. e.event.type = "user.message" => e.event.ref \in Sent'
    BY <1>1, <1>2 DEF Sent
<1> QED
    BY <1>3, <1>4, <1>5

\* The messages on their way without the oldest append.
LEMMA SentGoes ==
    ASSUME TreeInv, WriteInv, appends # <<>>, appends' = Tail(appends)
    PROVE  /\ Head(appends).event.type # "user.message" => Sent' = Sent
           /\ Head(appends).event.type = "user.message" =>
                 Sent = {Head(appends).event.ref} /\ Sent' = {} /\ Waits("turn")
<1>1. /\ Len(appends) \in Nat \ {0} /\ Len(appends') = Len(appends) - 1 /\ Head(appends) = appends[1]
      /\ \A i \in 1..Len(appends') : i + 1 \in 1..Len(appends) /\ appends'[i] = appends[i + 1]
    BY Tailed DEF TreeInv, Tips
<1>2. /\ \A k \in 1..Len(appends) : k = 1 \/ (k - 1 \in 1..Len(appends') /\ appends'[k - 1] = appends[k])
      /\ 1 \in 1..Len(appends)
  <2>1. \A k \in 1..Len(appends) : k = 1 \/ (k - 1 \in 1..Len(appends') /\ (k - 1) + 1 = k)
    BY <1>1
  <2> QED
    BY <1>1, <2>1
<1>3. CASE Head(appends).event.type # "user.message"
  <2>1. ASSUME NEW r \in Sent  PROVE r \in Sent'
    BY <1>1, <1>2, <1>3 DEF Sent
  <2>2. ASSUME NEW r \in Sent'  PROVE r \in Sent
    BY <1>1 DEF Sent
  <2> QED
    BY <1>3, <2>1, <2>2
<1>4. CASE Head(appends).event.type = "user.message"
  <2>1. \A k \in 1..Len(appends) : appends[k].event.type = "user.message" => appends[k].who = "turn"
    BY Speaking DEF WriteInv, EntriesAt
  <2>2. \A k \in 1..Len(appends) : appends[k].event.type = "user.message" => k = 1
    BY <1>1, <1>2, <1>4, <2>1 DEF WriteInv, LoneIn, Patient
  <2>3. Sent = {Head(appends).event.ref}
    BY <1>1, <1>2, <1>4, <2>2 DEF Sent
  <2>4. \A i \in 1..Len(appends') : appends'[i].event.type # "user.message"
    <3>1. \A i \in 1..Len(appends') : i + 1 # 1
      BY <1>1
    <3> QED
      BY <1>1, <2>2, <3>1
  <2>5. Sent' = {}
    BY <2>4 DEF Sent
  <2> QED
    BY <1>1, <1>2, <1>4, <2>1, <2>3, <2>5 DEF Waits
<1> QED
    BY <1>3, <1>4

\* The messages of the log after one more event.
LEMMA ToldGrows ==
    ASSUME TreeInv, NEW e, log' = Append(log, e)
    PROVE  /\ e.type # "user.message" => Told' = Told
           /\ e.type = "user.message" => Told' = Told \cup {e.ref}
           /\ TellsOnce /\ input' = input /\ (e.type = "user.message" => e.ref \notin Told)
                 => TellsOnce'
<1>1. /\ Len(log) \in Nat /\ Len(log') = Len(log) + 1
      /\ log'[Len(log) + 1] = e
      /\ \A i \in 1..Len(log) : log'[i] = log[i]
    BY Appended DEF TreeInv, Tips
<1>2. /\ \A k \in 1..Len(log') : k \in 1..Len(log) \/ k = Len(log) + 1
      /\ \A k \in 1..Len(log) : k \in 1..Len(log')
      /\ Len(log) + 1 \in 1..Len(log')
    BY <1>1
<1>3. ASSUME NEW r \in Told  PROVE r \in Told'
    BY <1>1, <1>2 DEF Told
<1>4. ASSUME NEW r \in Told'  PROVE r \in Told \/ (e.type = "user.message" /\ r = e.ref)
    BY <1>1, <1>2 DEF Told
<1>5. e.type = "user.message" => e.ref \in Told'
    BY <1>1, <1>2 DEF Told
<1>6. ASSUME TellsOnce, input' = input, e.type = "user.message" => e.ref \notin Told
      PROVE  TellsOnce'
  <2>1. \A k \in 1..Len(log) : log[k].type = "user.message" /\ e.type = "user.message" => log[k].ref # e.ref
    BY <1>6 DEF Told
  <2> SUFFICES ASSUME NEW j \in 1..Len(log'), NEW k \in 1..Len(log'),
                      log'[j].type = "user.message", log'[k].type = "user.message",
                      log'[j].ref = log'[k].ref, log'[j].ref \in input
               PROVE  j = k
    BY <1>6 DEF TellsOnce
  <2>2. CASE j \in 1..Len(log) /\ k \in 1..Len(log)
    BY <1>1, <1>6, <2>2 DEF TellsOnce
  <2>3. CASE j \in 1..Len(log) /\ k = Len(log) + 1
    BY <1>1, <2>1, <2>3
  <2>4. CASE j = Len(log) + 1 /\ k \in 1..Len(log)
    BY <1>1, <2>1, <2>4
  <2> QED
    BY <1>2, <2>2, <2>3, <2>4
<1> QED
    BY <1>3, <1>4, <1>5, <1>6

\* A message of a turn of its own leaves the accepted ones alone.
LEMMA ToldOther ==
    ASSUME TreeInv, NEW e, log' = Append(log, e), input' = input, TellsOnce, e.ref \notin input
    PROVE  TellsOnce'
<1>1. /\ Len(log) \in Nat /\ Len(log') = Len(log) + 1
      /\ log'[Len(log) + 1] = e
      /\ \A i \in 1..Len(log) : log'[i] = log[i]
    BY Appended DEF TreeInv, Tips
<1>2. \A k \in 1..Len(log') : k \in 1..Len(log) \/ k = Len(log) + 1
    BY <1>1
<1> QED
    BY <1>1, <1>2 DEF TellsOnce

\* A step that neither says anything nor moves what is queued.
LEMMA QuietKeepsPlaces ==
    ASSUME Placed, UNCHANGED <<steering, followUp, input, handed>>, Sent' = Sent, Told' = Told,
           TellsOnce', turn'.pc = turn.pc \/ Sent = {}
    PROVE  Placed'
<1>1. Lined'
    BY DEF Placed, Lined
<1>2. \A m \in Sent : Heading(m)' <=> Heading(m)
    BY DEF Heading
<1>3. Delivers'
  <2>1. Sent = {} \/ (Delivering' <=> Delivering)
    BY DEF Delivering
  <2> QED
    BY <1>2, <2>1 DEF Placed, Delivers
<1>4. ASSUME NEW m \in input'  PROVE Place(m)'
  <2>1. Place(m)
    BY <1>4 DEF Placed
  <2> QED
    BY <1>2, <2>1 DEF Place, Queued
<1> QED
    BY <1>1, <1>3, <1>4 DEF Placed

\* A process that has just started has no input yet.
LEMMA NothingPlaced ==
    ASSUME Inputs', input' = {}, turn' = NoTurn
    PROVE  Placed'
<1>1. steering' = <<>> /\ followUp' = <<>>
  <2>1. \A s : IsSeq(s) /\ Elements(s) \subseteq {} => s = <<>>
    <3> SUFFICES ASSUME NEW s, IsSeq(s), Elements(s) \subseteq {}, s # <<>>
                 PROVE  FALSE
      OBVIOUS
    <3>1. Head(s) \in Elements(s)
      BY ElementsTail
    <3> QED
      BY <3>1
  <2> QED
    BY <2>1 DEF Inputs
<1>2. Lined'
    BY <1>1 DEF Lined, Once, Elements
<1>3. Delivers' /\ TellsOnce'
    BY NoTurnTyped DEF Delivers, Delivering, TellsOnce
<1> QED
    BY <1>2, <1>3 DEF Placed

\* What a running turn says for its users.
LEMMA TurnSpeaks ==
    ASSUME TurnAt(turn), TurnStep, ~ContinueQueued
    PROVE  \/ UNCHANGED appends
           \/ \E type, ref : type # "user.message" /\ Enqueue(type, ref, "turn")
           \/ /\ steering # <<>> /\ Enqueue("user.message", Head(steering), "turn")
              /\ turn'.pc \in {"steering", "resteered"}
           \/ /\ followUp # <<>> /\ Enqueue("user.message", Head(followUp), "turn")
              /\ turn'.pc = "followUp"
<1>1. \A pc \in Places \ {"calls"} : [turn EXCEPT !.pc = pc].pc = pc
    BY TurnSet
<1>2. CASE Resume
  <2>1. [turn EXCEPT !.pc = "resteered"].pc = "resteered"
    BY <1>1 DEF Places
  <2> QED
    BY <1>2, <2>1 DEF Resume
<1>3. CASE Boundary
  <2>1. [turn EXCEPT !.pc = "steering"].pc = "steering" /\ [turn EXCEPT !.pc = "followUp"].pc = "followUp"
    BY <1>1 DEF Places
  <2> QED
    BY <1>3, <2>1 DEF Boundary
<1>4. CASE CompactAtThreshold
    BY <1>4 DEF CompactAtThreshold, Compact
<1>5. CASE ModelAnswers
    BY <1>5 DEF ModelAnswers, Compact
<1>6. CASE AskerGoesOn
    BY <1>6 DEF AskerGoesOn, NoAppend
<1>7. CASE Summarized \/ CallModel \/ Reply \/ NextCall \/ ToolReturns \/ MissingToolCall
    BY <1>7 DEF Summarized, CallModel, Reply, NextCall, ToolReturns, MissingToolCall
<1> QED
    BY <1>2, <1>3, <1>4, <1>5, <1>6, <1>7 DEF TurnStep

\* The turn says the first message of a queue, which stays there for now.
LEMMA SayingKeepsPlaces ==
    ASSUME TreeInv, Inputs, Placed, Sent = {}, NEW m \in Queued, Heading(m)',
           Enqueue("user.message", m, "turn"),
           UNCHANGED <<log, steering, followUp, input, handed>>
    PROVE  Placed'
<1>1. Sent' = {m}
  <2> DEFINE e == [event |-> Event("user.message", m), who |-> "turn"]
  <2>1. appends' = Append(appends, e) /\ e.event.type = "user.message" /\ e.event.ref = m
    BY DEF Enqueue, Event
  <2> HIDE DEF e
  <2> QED
    BY <2>1, SentAdds
<1>2. Lined' /\ TellsOnce' /\ Told' = Told
    BY DEF Placed, Lined, TellsOnce, Told
<1>3. Delivers'
    BY <1>1 DEF Delivers
<1>4. m \in input
    BY DEF Inputs, Queued
<1>5. ASSUME NEW n \in input'  PROVE Place(n)'
  <2>1. Place(n) /\ Place(m)
    BY <1>4, <1>5 DEF Placed
  <2>2. m \notin Told /\ m \notin handed
    BY <2>1 DEF Place
  <2>3. n = m => Heading(n)'
    OBVIOUS
  <2> QED
    BY <1>1, <1>2, <2>1, <2>2, <2>3 DEF Place, Queued
<1> QED
    BY <1>2, <1>3, <1>5 DEF Placed

\* The loop of send takes a message from its queue and says it.
LEMMA TakingKeepsPlaces ==
    ASSUME TreeInv, Inputs, Placed, Sent = {}, NEW m \in Queued,
           Enqueue("user.message", m, "turn"), turn'.pc = "user",
           UNCHANGED <<log, input, handed>>,
           Once(steering') /\ Once(followUp'),
           Elements(steering') \cup Elements(followUp') = Queued \ {m},
           Elements(steering') \subseteq Elements(steering), Elements(followUp') \subseteq Elements(followUp)
    PROVE  Placed'
<1>1. Sent' = {m}
  <2> DEFINE e == [event |-> Event("user.message", m), who |-> "turn"]
  <2>1. appends' = Append(appends, e) /\ e.event.type = "user.message" /\ e.event.ref = m
    BY DEF Enqueue, Event
  <2> HIDE DEF e
  <2> QED
    BY <2>1, SentAdds
<1>2. Lined' /\ TellsOnce' /\ Told' = Told /\ Queued' = Queued \ {m}
    BY DEF Placed, Lined, TellsOnce, Told, Queued
<1>3. Delivers'
    BY DEF Delivers, Delivering
<1>4. m \in input
    BY DEF Inputs, Queued
<1>5. ASSUME NEW n \in input'  PROVE Place(n)'
  <2>1. Place(n) /\ Place(m)
    BY <1>4, <1>5 DEF Placed
  <2>2. m \notin Told /\ m \notin handed
    BY <2>1 DEF Place
  <2> QED
    BY <1>1, <1>2, <2>1, <2>2 DEF Place
<1> QED
    BY <1>2, <1>3, <1>5 DEF Placed

\* The steps of the turn, and the start of one.
LEMMA MovingKeepsPlaces ==
    ASSUME TreeInv, AskType, WriteInv, Inputs, Placed, TurnStep \/ RunTurn
    PROVE  Placed'
<1>1. TurnKeeps /\ Between
    BY TurnMoves DEF WriteInv
<1>2. Sent = {}
    BY <1>1, SentIs DEF Between
<1>3. /\ UNCHANGED log /\ Told' = Told
      /\ input' = input => TellsOnce'
    BY <1>1 DEF TurnKeeps, Told, Placed, TellsOnce
<1>4. ASSUME UNCHANGED queues,
             UNCHANGED appends \/ \E type, ref : type # "user.message" /\ Enqueue(type, ref, "turn")
      PROVE  Placed'
  <2>1. Sent' = Sent
    <3>1. CASE UNCHANGED appends
      BY <3>1 DEF Sent
    <3>2. ASSUME NEW type, NEW ref, type # "user.message", Enqueue(type, ref, "turn")
          PROVE  Sent' = Sent
      <4> DEFINE e == [event |-> Event(type, ref), who |-> "turn"]
      <4>1. appends' = Append(appends, e) /\ e.event.type # "user.message"
        BY <3>2 DEF Enqueue, Event
      <4> HIDE DEF e
      <4> QED
        BY <4>1, SentAdds
    <3> QED
      BY <1>4, <3>1, <3>2
  <2> QED
    BY <1>2, <1>3, <1>4, <2>1, QuietKeepsPlaces DEF queues
<1>5. CASE TurnStep /\ ~ContinueQueued
  <2>1. UNCHANGED queues
    BY <1>5, QueuesStay
  <2>2. CASE /\ steering # <<>> /\ Enqueue("user.message", Head(steering), "turn")
             /\ turn'.pc \in {"steering", "resteered"}
    <3>1. Head(steering) \in Queued
      BY <2>2, ElementsTail DEF Inputs, Queued
    <3>2. Heading(Head(steering))'
      BY <2>1, <2>2 DEF Heading, queues
    <3> QED
      BY <1>2, <1>3, <2>1, <2>2, <3>1, <3>2, SayingKeepsPlaces DEF queues
  <2>3. CASE /\ followUp # <<>> /\ Enqueue("user.message", Head(followUp), "turn")
             /\ turn'.pc = "followUp"
    <3>1. Head(followUp) \in Queued
      BY <2>3, ElementsTail DEF Inputs, Queued
    <3>2. Heading(Head(followUp))'
      BY <2>1, <2>3 DEF Heading, queues
    <3> QED
      BY <1>2, <1>3, <2>1, <2>3, <3>1, <3>2, SayingKeepsPlaces DEF queues
  <2> QED
    BY <1>4, <1>5, <2>1, <2>2, <2>3, TurnSpeaks DEF WriteInv
<1>6. CASE ContinueQueued
  <2>0. [NoTurn EXCEPT !.pc = "user"].pc = "user"
    BY UserTyped
  <2>1. CASE /\ steering # <<>> /\ steering' = Tail(steering)
             /\ UNCHANGED <<followUp, input, handed, overtaken>>
             /\ Enqueue("user.message", Head(steering), "turn") /\ turn' = [NoTurn EXCEPT !.pc = "user"]
    <3>1. /\ Elements(steering) = Elements(Tail(steering)) \cup {Head(steering)}
          /\ Head(steering) \notin Elements(Tail(steering)) /\ Once(Tail(steering))
      BY <2>1, ElementsTail DEF Inputs, Placed, Lined, Once
    <3>2. Head(steering) \notin Elements(followUp)
      BY <3>1 DEF Placed, Lined
    <3>3. /\ Elements(steering') \cup Elements(followUp') = Queued \ {Head(steering)}
          /\ Elements(steering') \subseteq Elements(steering) /\ Elements(followUp') \subseteq Elements(followUp)
          /\ Head(steering) \in Queued
      BY <2>1, <3>1, <3>2 DEF Queued
    <3>4. Once(steering') /\ Once(followUp')
      BY <2>1, <3>1 DEF Placed, Lined
    <3> QED
      BY <1>2, <1>3, <2>0, <2>1, <3>3, <3>4, TakingKeepsPlaces
  <2>2. CASE /\ followUp # <<>> /\ followUp' = Tail(followUp)
             /\ UNCHANGED <<steering, input, handed, overtaken>>
             /\ Enqueue("user.message", Head(followUp), "turn") /\ turn' = [NoTurn EXCEPT !.pc = "user"]
    <3>1. /\ Elements(followUp) = Elements(Tail(followUp)) \cup {Head(followUp)}
          /\ Head(followUp) \notin Elements(Tail(followUp)) /\ Once(Tail(followUp))
      BY <2>2, ElementsTail DEF Inputs, Placed, Lined, Once
    <3>2. Head(followUp) \notin Elements(steering)
      BY <3>1 DEF Placed, Lined
    <3>3. /\ Elements(steering') \cup Elements(followUp') = Queued \ {Head(followUp)}
          /\ Elements(steering') \subseteq Elements(steering) /\ Elements(followUp') \subseteq Elements(followUp)
          /\ Head(followUp) \in Queued
      BY <2>2, <3>1, <3>2 DEF Queued
    <3>4. Once(steering') /\ Once(followUp')
      BY <2>2, <3>1 DEF Placed, Lined
    <3> QED
      BY <1>2, <1>3, <2>0, <2>2, <3>3, <3>4, TakingKeepsPlaces
  <2>3. CASE UNCHANGED <<queues, appends>> /\ turn' = NoTurn
    BY <1>4, <2>3
  <2> QED
    BY <1>6, <2>1, <2>2, <2>3, Continued
<1>7. CASE RunTurn
  <2>1. UNCHANGED queues
    BY <1>7, QueuesStay
  <2>2. PICK m \in Fresh : Enqueue("user.message", m, "turn")
    BY <1>7 DEF RunTurn
  <2>3. turn'.pc = "user"
    BY <1>7, UserTyped DEF RunTurn
  <2> DEFINE e == [event |-> Event("user.message", m), who |-> "turn"]
  <2>4. appends' = Append(appends, e) /\ e.event.type = "user.message" /\ e.event.ref = m
    BY <2>2 DEF Enqueue, Event
  <2> HIDE DEF e
  <2>5. Sent' = {m}
    BY <1>2, <2>4, SentAdds
  <2>6. m \notin input
    BY <2>2 DEF Fresh
  <2>7. Lined' /\ TellsOnce' /\ Delivers' /\ input' = input /\ Queued' = Queued /\ handed' = handed
    BY <1>3, <2>1, <2>3 DEF queues, Placed, Lined, Delivers, Delivering, Queued
  <2>8. ASSUME NEW n \in input'  PROVE Place(n)'
    <3>1. Place(n) /\ n # m
      BY <2>6, <2>7, <2>8 DEF Placed
    <3> QED
      BY <1>2, <1>3, <2>5, <2>7, <3>1 DEF Place
  <2> QED
    BY <2>7, <2>8 DEF Placed
<1> QED
    BY <1>5, <1>6, <1>7

\* A message is stored: what was queued leaves its queue.
LEMMA StoringKeepsPlaces ==
    ASSUME TreeInv, WriteInv, Inputs, Placed, TurnStored
    PROVE  Placed'
<1>1. /\ Waits("turn") /\ appends # <<>> /\ appends' = Tail(appends)
      /\ log' = Append(log, Head(appends).event) /\ UNCHANGED <<input, handed>>
      /\ steering' = IF turn.pc \in {"steering", "resteered"} THEN Shift(steering) ELSE steering
      /\ followUp' = IF turn.pc = "followUp" THEN Shift(followUp) ELSE followUp
      /\ turn' = After(turn)
    BY DEF TurnStored, Stored, Waits
<1> DEFINE r == Head(appends).event.ref
<1>2. Head(appends).event.type = Written(turn.pc)
    BY <1>1, Present DEF Fits
<1>3. CASE Written(turn.pc) # "user.message"
  <2>1. turn.pc \notin {"user", "steering", "followUp", "resteered"}
    BY <1>3, WrittenIs
  <2>2. Sent = {} /\ Sent' = Sent
    BY <1>1, <1>2, <1>3, SentIs, SentGoes
  <2>3. Told' = Told /\ TellsOnce'
    BY <1>1, <1>2, <1>3, ToldGrows DEF Placed
  <2> QED
    BY <1>1, <2>1, <2>2, <2>3, QuietKeepsPlaces
<1>4. CASE Written(turn.pc) = "user.message"
  <2>1. Sent = {r} /\ Sent' = {}
    BY <1>1, <1>2, <1>4, SentGoes
  <2>2. Told' = Told \cup {r} /\ (r \notin Told /\ TellsOnce => TellsOnce')
    BY <1>1, <1>2, <1>4, ToldGrows
  <2>3. turn.pc \in {"user", "steering", "followUp", "resteered"}
    BY <1>4, WrittenIs DEF Written
  <2>4. Delivering => Heading(r)
    BY <2>1 DEF Placed, Delivers
  <2> HIDE DEF r
  <2>5. /\ Queued' = Queued \ {r}
        /\ Elements(steering') \subseteq Elements(steering) /\ Elements(followUp') \subseteq Elements(followUp)
        /\ Once(steering') /\ Once(followUp')
    <3>1. CASE turn.pc = "user"
      <4>1. UNCHANGED <<steering, followUp>>
        BY <1>1, <3>1
      <4>2. r \notin Queued
        BY <2>1, <3>1 DEF Placed, Place, Heading, Inputs, Queued
      <4> QED
        BY <4>1, <4>2 DEF Placed, Lined, Queued
    <3>2. CASE turn.pc \in {"steering", "resteered"}
      <4>1. steering # <<>> /\ Head(steering) = r
        BY <2>4, <3>2 DEF Delivering, Heading
      <4>2. steering' = Tail(steering) /\ followUp' = followUp
        BY <1>1, <3>2, <4>1 DEF Shift
      <4>3. /\ Elements(steering) = Elements(Tail(steering)) \cup {r}
            /\ r \notin Elements(Tail(steering)) /\ Once(Tail(steering))
        BY <4>1, ElementsTail DEF Inputs, Placed, Lined, Once
      <4>4. r \notin Elements(followUp) /\ Once(followUp)
        BY <4>3 DEF Placed, Lined
      <4>5. Queued' = Queued \ {r}
        BY <4>2, <4>3, <4>4 DEF Queued
      <4> QED
        BY <4>2, <4>3, <4>4, <4>5
    <3>3. CASE turn.pc = "followUp"
      <4>1. followUp # <<>> /\ Head(followUp) = r
        BY <2>4, <3>3 DEF Delivering, Heading
      <4>2. followUp' = Tail(followUp) /\ steering' = steering
        BY <1>1, <3>3, <4>1 DEF Shift
      <4>3. /\ Elements(followUp) = Elements(Tail(followUp)) \cup {r}
            /\ r \notin Elements(Tail(followUp)) /\ Once(Tail(followUp))
        BY <4>1, ElementsTail DEF Inputs, Placed, Lined, Once
      <4>4. r \notin Elements(steering) /\ Once(steering)
        BY <4>3 DEF Placed, Lined
      <4>5. Queued' = Queued \ {r}
        BY <4>2, <4>3, <4>4 DEF Queued
      <4> QED
        BY <4>2, <4>3, <4>4, <4>5
    <3> QED
      BY <2>3, <3>1, <3>2, <3>3
  <2>6. Lined' /\ Delivers'
    BY <2>1, <2>5 DEF Placed, Lined, Delivers
  <2>7. r \in input => r \notin Told /\ r \notin handed
    BY <2>1 DEF Placed, Place
  <2>8. TellsOnce'
    <3>1. CASE r \in input
      BY <2>2, <2>7, <3>1 DEF Placed
    <3>2. CASE r \notin input
      BY <1>1, <1>2, <1>4, <3>2, ToldOther DEF Placed, r
    <3> QED
      BY <3>1, <3>2
  <2>9. ASSUME NEW n \in input'  PROVE Place(n)'
    <3>1. Place(n) /\ n \in input
      BY <1>1, <2>9 DEF Placed
    <3>2. CASE n = r
      BY <1>1, <2>1, <2>2, <2>5, <2>7, <3>1, <3>2 DEF Place
    <3>3. CASE n # r
      <4>1. n \in Queued' <=> n \in Queued
        BY <2>5, <3>3 DEF Queued
      <4> QED
        BY <1>1, <2>1, <2>2, <3>1, <3>3, <4>1 DEF Place
    <3> QED
      BY <3>2, <3>3
  <2> QED
    BY <2>6, <2>8, <2>9 DEF Placed
<1> QED
    BY <1>3, <1>4

\* An append of anybody else is stored.
LEMMA OtherStoredKeepsPlaces ==
    ASSUME TreeInv, WriteInv, Placed, Stores, ~Waits("turn"), UNCHANGED <<steering, followUp, input, handed>>,
           turn'.pc = turn.pc \/ Written(turn.pc) # "user.message"
    PROVE  Placed'
<1>1. Head(appends).event.type # "user.message"
  <2>1. EntryAt(Head(appends), turn, mode) /\ Head(appends).who # "turn"
    BY Present DEF Stores, Waits
  <2> QED
    BY <2>1, Speaking
<1>2. appends # <<>> /\ appends' = Tail(appends) /\ log' = Append(log, Head(appends).event)
    BY DEF Stores, Stored
<1>3. Sent' = Sent
    BY <1>1, <1>2, SentGoes
<1>4. Told' = Told /\ TellsOnce'
    BY <1>1, <1>2, ToldGrows DEF Placed
<1>5. turn'.pc = turn.pc \/ Sent = {}
    BY SentIs
<1> QED
    BY <1>3, <1>4, <1>5, QuietKeepsPlaces

\* Anybody else calls an append, or nothing is appended.
LEMMA OtherCallsKeepPlaces ==
    ASSUME TreeInv, WriteInv, Placed, UNCHANGED <<log, steering, followUp, input, handed>>,
           turn'.pc = turn.pc \/ Written(turn.pc) # "user.message",
           \/ UNCHANGED appends
           \/ \E e : appends' = Append(appends, e) /\ e.event.type # "user.message"
    PROVE  Placed'
<1>1. Sent' = Sent
  <2>1. CASE UNCHANGED appends
    BY <2>1 DEF Sent
  <2>2. ASSUME NEW e, appends' = Append(appends, e), e.event.type # "user.message"
        PROVE  Sent' = Sent
    BY <2>2, SentAdds
  <2> QED
    BY <2>1, <2>2
<1>2. Told' = Told /\ TellsOnce'
    BY DEF Told, Placed, TellsOnce
<1>3. turn'.pc = turn.pc \/ Sent = {}
    BY SentIs
<1> QED
    BY <1>1, <1>2, <1>3, QuietKeepsPlaces

\* A message that was never queued anywhere is accepted.
LEMMA SteerKeepsPlaces ==
    ASSUME TreeInv, Inputs, Placed, Steer
    PROVE  Placed'
<1>1. PICK m \in Fresh : /\ input' = input \cup {m}
                         /\ \/ steering' = Append(steering, m) /\ UNCHANGED followUp
                            \/ followUp' = Append(followUp, m) /\ UNCHANGED steering
    BY DEF Steer
<1>2. m \notin Told /\ m \notin Sent /\ m \notin input /\ m \notin handed
    BY DEF Fresh, Told, Sent
<1>3. m \notin Queued
    BY <1>2 DEF Inputs, Queued
<1>4. UNCHANGED <<log, appends, turn, handed>>
    BY DEF Steer, NoAppend
<1>5. Told' = Told /\ Sent' = Sent
    BY <1>4 DEF Told, Sent
<1>6. /\ Elements(Append(steering, m)) = Elements(steering) \cup {m}
      /\ Elements(Append(followUp, m)) = Elements(followUp) \cup {m}
      /\ steering # <<>> => Head(Append(steering, m)) = Head(steering) /\ Append(steering, m) # <<>>
      /\ followUp # <<>> => Head(Append(followUp, m)) = Head(followUp) /\ Append(followUp, m) # <<>>
      /\ Once(Append(steering, m)) /\ Once(Append(followUp, m))
    BY <1>3, ElementsAppend, Appended DEF Inputs, Placed, Lined, Once, Queued
<1>7. Queued' = Queued \cup {m} /\ Lined'
    BY <1>1, <1>3, <1>6 DEF Queued, Lined, Placed
<1>8. \A n : Heading(n) => Heading(n)'
    BY <1>1, <1>4, <1>6 DEF Heading
<1>9. Delivers'
    BY <1>4, <1>5, <1>8 DEF Placed, Delivers, Delivering
<1>10. TellsOnce'
  <2>1. \A k \in 1..Len(log) : log[k].type = "user.message" => log[k].ref # m
    BY <1>2 DEF Told
  <2> QED
    BY <1>1, <1>4, <2>1 DEF Placed, TellsOnce
<1>11. ASSUME NEW n \in input'  PROVE Place(n)'
  <2>1. CASE n = m
    BY <1>2, <1>4, <1>5, <1>7, <2>1 DEF Place
  <2>2. CASE n # m
    <3>1. Place(n)
      BY <1>1, <1>11, <2>2 DEF Placed
    <3> QED
      BY <1>4, <1>5, <1>7, <1>8, <2>2, <3>1 DEF Place
  <2> QED
    BY <2>1, <2>2
<1> QED
    BY <1>7, <1>9, <1>10, <1>11 DEF Placed

\* The queues are handed back; nothing of them is on its way.
LEMMA RestoringKeepsPlaces ==
    ASSUME TreeInv, WriteInv, Inputs, Placed, RestoreSettles, ~broken', ~overtaken'
    PROVE  Placed'
<1>1. /\ Waits("restore") /\ Stored /\ steering' = <<>> /\ followUp' = <<>>
      /\ handed' = handed \cup Elements(Head(appends).items)
      /\ ~Delivering /\ Head(appends).items = steering \o followUp
      /\ UNCHANGED <<turn, input>>
    BY DEF RestoreSettles, Failed
<1>2. handed' = handed \cup Queued
    BY <1>1, ElementsJoin DEF Inputs, Queued
<1>3. appends # <<>> /\ appends' = Tail(appends) /\ log' = Append(log, Head(appends).event)
    BY <1>1 DEF Waits, Stored
<1>4. Head(appends).event.type # "user.message"
  <2>1. EntryAt(Head(appends), turn, mode) /\ Head(appends).who # "turn"
    BY <1>1, <1>3, Present DEF Waits
  <2> QED
    BY <2>1, Speaking
<1>5. Sent' = Sent
    BY <1>3, <1>4, SentGoes
<1>6. Told' = Told /\ TellsOnce'
    BY <1>1, <1>3, <1>4, ToldGrows DEF Placed
<1>7. Queued' = {} /\ Lined'
    BY <1>1 DEF Queued, Elements, Lined, Once
<1>8. Delivers'
    BY <1>1 DEF Delivers, Delivering
<1>9. \A n : ~Heading(n)
    BY <1>1 DEF Heading, Delivering
<1>10. ASSUME NEW n \in input'  PROVE Place(n)'
  <2>1. Place(n)
    BY <1>1, <1>10 DEF Placed
  <2> QED
    BY <1>2, <1>5, <1>6, <1>7, <1>9, <2>1 DEF Place
<1> QED
    BY <1>6, <1>7, <1>8, <1>10 DEF Placed

\* No step loses or repeats an accepted message.
LEMMA NextKeepsSteering ==
    ASSUME TreeInv, AskType, WriteInv, Inputs, Inputs', SteerInv, [Next]_vars
    PROVE  SteerInv'
<1> SUFFICES ASSUME ~broken', ~overtaken'
             PROVE  Placed'
    BY DEF SteerInv
<1>1. ~broken /\ ~overtaken => Placed
    BY DEF SteerInv
<1>2. CASE Open \/ Recover \/ RecoverySettles
  <2>1. RecoverySettles => appends # <<>> /\ Waits("open")
    BY DEF RecoverySettles, Waits
  <2>2. mode # "open"
    BY <1>2, <2>1, Present DEF Open, Recover
  <2>3. input = {} /\ turn = NoTurn
    BY <2>2 DEF Inputs, WriteInv, Modes
  <2>4. UNCHANGED queues /\ turn' = turn
    BY <1>2, QueuesStay DEF Open, Recover, RecoverySettles
  <2> QED
    BY <2>3, <2>4, NothingPlaced DEF queues
<1>3. CASE Crash
  <2>1. input' = {} /\ turn' = NoTurn
    BY <1>3 DEF Crash
  <2> QED
    BY <2>1, NothingPlaced
<1>4. CASE TurnStep \/ RunTurn
  <2>1. broken' = broken
    BY <1>4, TurnMoves DEF TurnKeeps, WriteInv
  <2>2. overtaken' = overtaken
    <3>1. CASE ContinueQueued
      BY <3>1 DEF ContinueQueued, queues
    <3>2. CASE ~ContinueQueued
      BY <1>4, <3>2, QueuesStay DEF queues
    <3> QED
      BY <3>1, <3>2
  <2> QED
    BY <1>1, <1>4, <2>1, <2>2, MovingKeepsPlaces
<1>5. CASE TurnStored
  <2>1. broken' = broken /\ overtaken' = overtaken
    BY <1>5 DEF TurnStored, Stored
  <2> QED
    BY <1>1, <1>5, <2>1, StoringKeepsPlaces
<1>6. CASE TurnFails
    BY <1>6 DEF TurnFails
<1>7. CASE Steer
  <2>1. broken' = broken /\ overtaken' = overtaken
    BY <1>7 DEF Steer, NoAppend
  <2> QED
    BY <1>1, <1>7, <2>1, SteerKeepsPlaces
<1>8. CASE RestoreSettles
  <2>1. broken' = broken /\ (overtaken => overtaken')
    BY <1>8 DEF RestoreSettles, Stored, Failed, queues
  <2> QED
    BY <1>1, <1>8, <2>1, RestoringKeepsPlaces
<1>9. CASE Restore
  <2>1. broken' = broken /\ (overtaken => overtaken')
    BY <1>9 DEF Restore, Calls
  <2> DEFINE e == [event |-> Event("queue.restored", 0), who |-> "restore",
                   items |-> steering \o followUp]
  <2>2. appends' = Append(appends, e) /\ e.event.type # "user.message"
    BY <1>9 DEF Restore, Event
  <2> HIDE DEF e
  <2>3. UNCHANGED <<log, turn, steering, followUp, input, handed>>
    BY <1>9 DEF Restore, Calls
  <2> QED
    BY <1>1, <2>1, <2>2, <2>3, OtherCallsKeepPlaces
<1>10. CASE OtherSettles \/ (\E c \in Clients : ResponseSettles(c))
  <2>1. UNCHANGED queues /\ turn' = turn
    BY <1>10, QueuesStay DEF OtherSettles, ResponseSettles
  <2>2. (OtherSettles /\ Waits("other")) \/ \E c \in Clients : Waits(c)
    BY <1>10 DEF OtherSettles, ResponseSettles
  <2>3. ~Waits("turn") /\ appends # <<>>
    BY <2>2, TurnAssumptions DEF Waits
  <2>4. Stored /\ broken' = broken
    BY <1>10 DEF OtherSettles, ResponseSettles, Stored, Failed
  <2> QED
    BY <1>1, <2>1, <2>3, <2>4, OtherStoredKeepsPlaces DEF queues, Stores
<1>11. CASE AskSettles
  <2>1. UNCHANGED queues
    BY <1>11, QueuesStay
  <2>2. Waits("ask") /\ Stored /\ broken' = broken
    BY <1>11 DEF AskSettles, Stored, Failed
  <2>3. ~Waits("turn") /\ appends # <<>>
    BY <2>2 DEF Waits
  <2>4. Written(turn.pc) # "user.message"
    BY <2>2, <2>3, Present, WrittenIs
  <2> QED
    BY <1>1, <2>1, <2>2, <2>3, <2>4, OtherStoredKeepsPlaces DEF queues, Stores
<1>12. CASE ToolAsks
  <2>1. UNCHANGED queues /\ UNCHANGED <<log, broken>>
    BY <1>12, QueuesStay DEF ToolAsks, Calls
  <2>2. Written(turn.pc) # "user.message"
    BY <1>12, WrittenIs DEF ToolAsks
  <2> DEFINE e == [event |-> Event("interaction.requested", ask.id + 1), who |-> "ask"]
  <2>3. appends' = Append(appends, e) /\ e.event.type # "user.message"
    BY <1>12 DEF ToolAsks, Event, Enqueue
  <2> HIDE DEF e
  <2> QED
    BY <1>1, <2>1, <2>2, <2>3, OtherCallsKeepPlaces DEF queues
<1>13. CASE OtherAppends
  <2>1. UNCHANGED queues /\ UNCHANGED <<log, turn, broken>>
    BY <1>13, QueuesStay DEF OtherAppends, Calls
  <2>2. PICK type \in Beside : Enqueue(type, 0, "other")
    BY <1>13 DEF OtherAppends
  <2> DEFINE e == [event |-> Event(type, 0), who |-> "other"]
  <2>3. appends' = Append(appends, e) /\ e.event.type # "user.message"
    BY <2>2, TurnAssumptions DEF Event, Enqueue
  <2> HIDE DEF e
  <2> QED
    BY <1>1, <2>1, <2>3, OtherCallsKeepPlaces DEF queues
<1>14. ASSUME NEW c \in Clients, Respond(c)  PROVE Placed'
  <2>1. UNCHANGED queues /\ UNCHANGED <<log, turn, broken>>
    BY <1>14, QueuesStay DEF Respond, Calls
  <2> DEFINE e == [event |-> Event("interaction.resolved", ask.id), who |-> c]
  <2>2. appends' = Append(appends, e) /\ e.event.type # "user.message"
    BY <1>14 DEF Respond, Event, Enqueue
  <2> HIDE DEF e
  <2> QED
    BY <1>1, <2>1, <2>2, OtherCallsKeepPlaces DEF queues
<1>15. CASE Interrupt \/ AskTimesOut \/ UNCHANGED vars
  <2>1. UNCHANGED queues /\ UNCHANGED <<log, appends, broken>>
    BY <1>15, QueuesStay DEF Interrupt, AskTimesOut, NoAppend, vars
  <2>2. turn'.pc = turn.pc
    <3>1. [turn EXCEPT !.aborted = TRUE].pc = turn.pc
      BY DEF WriteInv, TurnAt
    <3> QED
      BY <1>15, <3>1 DEF Interrupt, AskTimesOut, vars
  <2> QED
    BY <1>1, <2>1, <2>2, OtherCallsKeepPlaces DEF queues
<1> QED
    BY <1>2, <1>3, <1>4, <1>5, <1>6, <1>7, <1>8, <1>9, <1>10, <1>11, <1>12, <1>13, <1>14, <1>15
    DEF Next, Settles

\* What Placed says of a message, counted.
LEMMA PlacedCounts ==
    ASSUME Placed, IsSeq(steering), IsSeq(followUp), NEW m \in input
    PROVE  LET queued == m \in Elements(steering \o followUp) \/ Underway(m)
           IN Count(m) = IF queued \/ m \in handed THEN 0 ELSE 1
<1> DEFINE Tellings == {k \in 1..Len(log) : log[k].type = "user.message" /\ log[k].ref = m}
<1>1. /\ m \in Told <=> Tellings # {}
      /\ m \in Sent <=> Underway(m)
      /\ m \in Queued <=> m \in Elements(steering \o followUp)
    BY ElementsJoin DEF Told, Sent, Underway, Queued
<1>2. Place(m) /\ TellsOnce
    BY DEF Placed
<1>3. Count(m) = Cardinality(Tellings)
    BY DEF Count
<1>4. CASE m \notin Told
  <2>1. Count(m) = 0
    BY <1>1, <1>3, <1>4, FS_EmptySet
  <2> QED
    BY <1>1, <1>2, <1>4, <2>1 DEF Place
<1>5. CASE m \in Told
  <2>1. PICK k \in Tellings : TRUE
    BY <1>1, <1>5
  <2>2. \A j \in Tellings : j = k
    BY <1>2 DEF TellsOnce
  <2>3. Tellings = {k}
    BY <2>2
  <2>4. Count(m) = 1
    BY <1>3, <2>3, FS_Singleton
  <2> QED
    BY <1>1, <1>2, <1>5, <2>4 DEF Place
<1> QED
    BY <1>4, <1>5

(* A steered or follow-up message is neither lost nor delivered twice: for any number of
   messages, turns, compactions, interrupts and restores it is queued or on its way, in the
   log once, or handed back, unless an append failed or a restore crossed its delivery
   (queueInput, nextQueuedMessage and restoreQueue). *)
THEOREM SteeringHolds == Spec => []SteeringKept
<1> DEFINE Inv == TreeInv /\ AskType /\ WriteInv /\ Inputs /\ SteerInv
<1>1. Init => Inv
  <2>1. Init => Elements(<<>>) = {} /\ SteerInv
    BY DEF Init, SteerInv, Placed, Lined, Once, Elements, Delivers, Delivering, NoTurn, TellsOnce
  <2> QED
    BY <2>1, Starts, WritesStart, InputsStart
<1>2. Inv /\ [Next]_vars => Inv'
  <2> SUFFICES ASSUME Inv, [Next]_vars
               PROVE  Inv'
    OBVIOUS
  <2>1. TreeInv' /\ AskType' /\ WriteInv' /\ Inputs'
    BY NextKeepsTree, NextKeepsAskType, NextKeepsWrites, NextKeepsInputs
  <2>2. SteerInv'
    BY <2>1, NextKeepsSteering
  <2> QED
    BY <2>1, <2>2
<1>3. Inv => SteeringKept
  <2> SUFFICES ASSUME Inv, ~broken, ~overtaken
               PROVE  \A m \in input :
                         LET queued == m \in Elements(steering \o followUp) \/ Underway(m)
                         IN Count(m) = IF queued \/ m \in handed THEN 0 ELSE 1
    BY DEF SteeringKept
  <2>1. Placed /\ IsSeq(steering) /\ IsSeq(followUp)
    BY DEF SteerInv, Inputs
  <2> QED
    BY <2>1, PlacedCounts
<1> QED
    BY <1>1, <1>2, <1>3, PTL DEF Spec

-----------------------------------------------------------------------------
(* Tool calls: how a turn comes to one and leaves it.                      *)

CallPlaces == {"assistant", "calls", "call", "tool", "asking", "waiting", "result"}

\* A call is stored and its result is not.
Working(t) == t.pc \in {"tool", "asking", "waiting", "result"}

\* What a step of the turn does about tool calls.
Answering ==
    /\ turn.pc = "attempt" /\ turn'.pc = "assistant" /\ turn'.call = used.calls
    /\ turn'.calls \in Nat /\ used'.calls = used.calls + turn'.calls
Calling ==
    /\ turn.pc = "calls" /\ turn'.pc = "call" /\ used'.calls = used.calls
    /\ turn'.call = turn.call + 1 /\ turn'.calls = turn.calls - 1
Returning ==
    /\ turn.pc \in {"tool", "waiting"} /\ Working(turn') /\ used'.calls = used.calls
    /\ turn'.call = turn.call /\ turn'.calls = turn.calls
Replies ==
    /\ turn.pc \in {"model", "reply"} /\ turn'.pc = "assistant" /\ used'.calls = used.calls
    /\ turn'.outcome = IF turn.pc = "model" THEN "aborted" ELSE turn.outcome
Elsewhere ==
    /\ turn.pc \notin CallPlaces /\ turn'.pc \notin CallPlaces /\ used'.calls = used.calls
    /\ turn'.pc = "reply" => turn'.outcome = "error"

\* A message of the user and a compaction are elsewhere.
LEMMA ElsewhereSet ==
    ASSUME TurnAt(turn), AskType
    PROVE  /\ \A pc \in Places \ CallPlaces :
                 turn' = [turn EXCEPT !.pc = pc] => turn'.pc = pc /\ turn'.pc \notin CallPlaces
           /\ turn' = NoTurn => turn'.pc = "none"
           /\ Extra \/ UNCHANGED used => used'.calls = used.calls
<1>1. \A pc \in Places \ CallPlaces :
         turn' = [turn EXCEPT !.pc = pc] => turn'.pc = pc /\ turn'.pc \notin CallPlaces
    BY DEF TurnAt
<1>2. turn' = NoTurn => turn'.pc = "none"
    BY DEF NoTurn
<1>3. Extra \/ UNCHANGED used => used'.calls = used.calls
    BY DEF Extra, AskType
<1> QED
    BY <1>1, <1>2, <1>3

\* A compaction is elsewhere, whether it starts or not.
LEMMA CompactElsewhere ==
    ASSUME TurnAt(turn), AskType, turn.pc \in {"model", "attempt"},
           NEW t, TurnAt(t), t.pc = turn.pc, Compact(t)
    PROVE  Elsewhere
<1>1. (turn'.pc = "none" /\ turn' = NoTurn) \/ (turn'.pc = "reply" /\ turn'.outcome = "error")
      \/ turn'.pc = "compacting"
    BY CompactMoves
<1>2. used'.calls = used.calls
    BY ElsewhereSet DEF Compact
<1> QED
    BY <1>1, <1>2 DEF Elsewhere, CallPlaces

\* The calls that the model asks for.
LEMMA ReplyFields ==
    \A outcome \in {"stop", "error", "tool_use", "aborted"} : \A n \in Nat : \A first \in Nat :
        TurnAt(turn) /\ turn' = Replying(turn, outcome, n, first)
           => turn'.pc = "assistant" /\ turn'.calls = n /\ turn'.call = first
<1> SUFFICES ASSUME TurnAt(turn), NEW outcome \in {"stop", "error", "tool_use", "aborted"},
                    NEW n \in Nat, NEW first \in Nat, turn' = Replying(turn, outcome, n, first)
             PROVE  turn'.pc = "assistant" /\ turn'.calls = n /\ turn'.call = first
    OBVIOUS
<1>1. /\ Replying(turn, outcome, n, first).pc = "assistant"
      /\ Replying(turn, outcome, n, first).calls = n
      /\ Replying(turn, outcome, n, first).call = first
    BY DEF Replying, TurnAt
<1> QED
    BY <1>1, Zenon

\* Every step of a turn, and the start of one.
LEMMA CallMoves ==
    ASSUME TurnAt(turn), AskType, TurnStep \/ RunTurn
    PROVE  Answering \/ Calling \/ Returning \/ Replies \/ Elsewhere
<1>1. CASE CompactAtThreshold
  <2>1. TurnAt([turn EXCEPT !.outcome = "none"]) /\ [turn EXCEPT !.outcome = "none"].pc = "model"
    BY <1>1 DEF TurnAt, CompactAtThreshold
  <2>2. Compact([turn EXCEPT !.outcome = "none"]) /\ turn.pc = "model"
    BY <1>1 DEF CompactAtThreshold
  <2> QED
    BY <2>1, <2>2, CompactElsewhere
<1>2. CASE Summarized
  <2>1. turn.pc = "summary" /\ turn'.pc \in {"compacted", "uncompacted"}
    BY <1>2, ElsewhereSet DEF Summarized, Places, CallPlaces
  <2> QED
    BY <1>2, <2>1, ElsewhereSet DEF Summarized, Elsewhere, CallPlaces
<1>3. CASE Resume
  <2>1. turn.pc = "resumed" /\ turn'.pc \in {"resteered", "model"}
    BY <1>3, ElsewhereSet DEF Resume, Places, CallPlaces
  <2> QED
    BY <1>3, <2>1, ElsewhereSet DEF Resume, Elsewhere, CallPlaces
<1>4. CASE CallModel
  <2>1. CASE turn' = [turn EXCEPT !.pc = "attempt"]
    <3>1. turn.pc = "model" /\ turn'.pc = "attempt"
      BY <1>4, <2>1, ElsewhereSet DEF CallModel, Places, CallPlaces
    <3> QED
      BY <1>4, <3>1, ElsewhereSet DEF CallModel, Elsewhere, CallPlaces
  <2>2. CASE turn' = [turn EXCEPT !.pc = "assistant", !.outcome = "aborted"]
    <3>1. turn'.pc = "assistant" /\ turn'.outcome = "aborted"
      BY <2>2 DEF TurnAt
    <3> QED
      BY <1>4, <3>1, ElsewhereSet DEF CallModel, Replies
  <2> QED
    BY <1>4, <2>1, <2>2 DEF CallModel
<1>5. CASE ModelAnswers
  <2>1. CASE Extra /\ turn' = [turn EXCEPT !.pc = "retry"]
    <3>1. turn.pc = "attempt" /\ turn'.pc = "retry"
      BY <1>5, <2>1, ElsewhereSet DEF ModelAnswers, Places, CallPlaces
    <3> QED
      BY <2>1, <3>1, ElsewhereSet DEF Elsewhere, CallPlaces
  <2>2. CASE Compact([turn EXCEPT !.outcome = "error", !.overflowed = TRUE])
    <3>1. /\ TurnAt([turn EXCEPT !.outcome = "error", !.overflowed = TRUE])
          /\ [turn EXCEPT !.outcome = "error", !.overflowed = TRUE].pc = turn.pc
      BY TwiceSet
    <3> QED
      BY <1>5, <2>2, <3>1, CompactElsewhere DEF ModelAnswers
  <2>3. CASE \E outcome \in {"stop", "error", "tool_use"} \cup (IF turn.aborted THEN {"aborted"} ELSE {}),
                n \in 0..2 :
                /\ n > 0 => outcome \notin {"error", "aborted"}
                /\ used.calls + n <= MaxCalls
                /\ used' = [used EXCEPT !.calls = @ + n]
                /\ turn' = [turn EXCEPT !.pc = "assistant", !.outcome = outcome, !.calls = n,
                                        !.call = used.calls]
    <3>1. PICK outcome \in {"stop", "error", "tool_use", "aborted"}, n \in 0..2 :
             /\ used' = [used EXCEPT !.calls = @ + n]
             /\ turn' = [turn EXCEPT !.pc = "assistant", !.outcome = outcome, !.calls = n,
                                     !.call = used.calls]
      BY <2>3
    <3>2. used'.calls = used.calls + n /\ used.calls \in Nat /\ n \in Nat
      BY <3>1 DEF AskType
    <3>3. turn' = Replying(turn, outcome, n, used.calls)
      BY <3>1 DEF Replying
    <3>4. turn'.pc = "assistant" /\ turn'.calls = n /\ turn'.call = used.calls
      BY <3>2, <3>3, ReplyFields
    <3> QED
      BY <1>5, <3>2, <3>4 DEF ModelAnswers, Answering
  <2> QED
    BY <1>5, <2>1, <2>2, <2>3 DEF ModelAnswers
<1>6. CASE Reply
  <2>1. turn.pc = "reply" /\ turn'.pc = "assistant" /\ turn'.outcome = turn.outcome
    BY <1>6 DEF Reply, TurnAt
  <2> QED
    BY <1>6, <2>1 DEF Reply, Replies
<1>7. CASE NextCall
  <2>1. turn'.pc = "call" /\ turn'.calls = turn.calls - 1 /\ turn'.call = turn.call + 1
    BY <1>7, CallTyped DEF NextCall
  <2> QED
    BY <1>7, <2>1 DEF NextCall, Calling
<1>8. CASE ToolReturns
  <2>1. turn'.pc = "result" /\ turn'.call = turn.call /\ turn'.calls = turn.calls
    BY <1>8, TurnSet DEF ToolReturns, Places
  <2> QED
    BY <1>8, <2>1 DEF ToolReturns, Returning, Working
<1>9. CASE Boundary
  <2>1. turn.pc = "boundary" /\ turn'.pc \in {"steering", "model", "followUp", "ended"}
    BY <1>9, ElsewhereSet DEF Boundary, Places, CallPlaces
  <2> QED
    BY <1>9, <2>1, ElsewhereSet DEF Boundary, Elsewhere, CallPlaces
<1>10. CASE ContinueQueued
  <2>1. turn.pc = "ended" /\ turn'.pc \in {"user", "none"}
    BY <1>10, ElsewhereSet, UserTyped DEF ContinueQueued
  <2> QED
    BY <1>10, <2>1, ElsewhereSet DEF ContinueQueued, Elsewhere, CallPlaces
<1>11. CASE MissingToolCall
  <2>1. turn.pc = "missing" /\ turn'.pc = "error"
    BY <1>11, ElsewhereSet DEF MissingToolCall, Places, CallPlaces
  <2> QED
    BY <1>11, <2>1, ElsewhereSet DEF MissingToolCall, Elsewhere, CallPlaces
<1>12. CASE AskerGoesOn
  <2>1. turn'.pc = "tool" /\ turn'.call = turn.call /\ turn'.calls = turn.calls
    BY <1>12, TurnSet DEF AskerGoesOn, Places
  <2> QED
    BY <1>12, <2>1 DEF AskerGoesOn, Returning, Working
<1>13. CASE RunTurn
  <2>1. turn.pc = "none" /\ turn'.pc = "user"
    BY <1>13, UserTyped DEF RunTurn
  <2> QED
    BY <1>13, <2>1, ElsewhereSet DEF RunTurn, Elsewhere, CallPlaces
<1> QED
    BY <1>1, <1>2, <1>3, <1>4, <1>5, <1>6, <1>7, <1>8, <1>9, <1>10, <1>11, <1>12, <1>13 DEF TurnStep

\* Where a stored append takes a turn, as far as tool calls go.
LEMMA AfterCalls ==
    ASSUME NEW t, TurnAt(t), Written(t.pc) # "none"
    PROVE  /\ t.pc \in {"call", "result", "assistant"} =>
                 After(t).call = t.call /\ After(t).calls = t.calls
           /\ t.pc = "call" => After(t).pc = "tool"
           /\ t.pc = "result" => After(t).pc \in {"model", "calls", "boundary"}
           /\ t.pc = "assistant" =>
                 /\ After(t).pc \in {"ended", "boundary", "missing", "calls"}
                 /\ After(t).pc = "calls" => t.outcome \notin {"error", "aborted", "stop"}
           /\ t.pc \notin CallPlaces =>
                 After(t).pc \notin CallPlaces /\ (After(t).pc = "reply" => After(t).outcome = "error")
<1>1. CASE t.pc = "call"
    BY <1>1 DEF After, TurnAt, CallPlaces
<1>2. CASE t.pc = "result"
  <2> DEFINE next == IF t.aborted THEN "model" ELSE IF t.calls > 0 THEN "calls" ELSE "boundary"
             a == [t EXCEPT !.outcome = "answered"]
  <2>1. After(t) = [a EXCEPT !.pc = next]
    BY <1>2 DEF After
  <2>2. next \in {"model", "calls", "boundary"}
    OBVIOUS
  <2>3. a = [pc |-> t.pc, aborted |-> t.aborted, outcome |-> "answered", calls |-> t.calls,
             call |-> t.call, plan |-> t.plan, overflowed |-> t.overflowed]
    BY TurnFields
  <2> HIDE DEF a, next
  <2>4. After(t).pc = next /\ After(t).call = t.call /\ After(t).calls = t.calls
    BY <2>1, <2>3
  <2> QED
    BY <1>2, <2>2, <2>4 DEF CallPlaces
<1>3. CASE t.pc = "assistant"
  <2> DEFINE next == IF t.outcome \in {"error", "aborted"} THEN "ended"
                     ELSE IF t.outcome = "stop" THEN "boundary"
                     ELSE IF t.calls = 0 THEN "missing" ELSE "calls"
  <2>1. After(t) = [t EXCEPT !.pc = next]
    BY <1>3 DEF After
  <2>2. /\ next \in {"ended", "boundary", "missing", "calls"}
        /\ next = "calls" => t.outcome \notin {"error", "aborted", "stop"}
    OBVIOUS
  <2> HIDE DEF next
  <2>3. After(t).pc = next /\ After(t).call = t.call /\ After(t).calls = t.calls
    BY <2>1 DEF TurnAt
  <2> QED
    BY <1>3, <2>2, <2>3 DEF CallPlaces
<1>4. CASE t.pc \notin CallPlaces
  <2>0. \A pc : [t EXCEPT !.pc = pc].pc = pc /\ [t EXCEPT !.pc = pc, !.plan = NoPlan].pc = pc
                /\ [t EXCEPT !.pc = pc, !.plan = NoPlan].outcome = t.outcome
    BY DEF TurnAt
  <2>1. CASE t.pc \in {"user", "retry", "steering", "followUp"}
    BY <1>4, <2>0, <2>1 DEF After, CallPlaces
  <2>2. CASE t.pc = "compacting"
    BY <1>4, <2>0, <2>2 DEF After, CallPlaces
  <2>3. CASE t.pc \in {"compacted", "resteered"}
    BY <1>4, <2>0, <2>3 DEF After, CallPlaces
  <2>4. CASE t.pc = "uncompacted"
    <3>1. t.outcome = "error" => After(t) = [t EXCEPT !.pc = "reply", !.plan = NoPlan]
      BY <2>4 DEF After
    <3>2. t.outcome # "error" => After(t) = NoTurn
      BY <2>4 DEF After
    <3>3. After(t).pc \in {"reply", "none"} /\ (After(t).pc = "reply" => After(t).outcome = "error")
      <4>1. CASE t.outcome = "error"
        <5>1. After(t).pc = "reply" /\ After(t).outcome = t.outcome
          BY <2>0, <3>1, <4>1, Zenon
        <5> QED
          BY <4>1, <5>1
      <4>2. CASE t.outcome # "error"
        BY <3>2, <4>2, NoTurnTyped
      <4> QED
        BY <4>1, <4>2
    <3> QED
      BY <1>4, <3>3 DEF CallPlaces
  <2>5. CASE t.pc \notin {"user", "retry", "steering", "followUp", "compacting", "compacted",
                          "resteered", "uncompacted"}
    <3>1. After(t) = [t EXCEPT !.pc = "ended"]
      BY <1>4, <2>5 DEF After, CallPlaces
    <3> QED
      BY <1>4, <2>0, <3>1 DEF CallPlaces
  <2> QED
    BY <2>1, <2>2, <2>3, <2>4, <2>5
<1>5. t.pc \in {"call", "result", "assistant"} \/ t.pc \notin CallPlaces
    BY WrittenIs DEF CallPlaces
<1> QED
    BY <1>1, <1>2, <1>3, <1>4, <1>5 DEF CallPlaces

\* Of a log in which no two appends took the same parent, the lineage is all of it.
LEMMA ChainLineage ==
    ASSUME NEW l, IsSeq(l), Chain(l), NEW n \in 0..Len(l)
    PROVE  Lineage(l, n) = 1..n
<1> DEFINE Up(f) == f = [k \in 0..Len(l) |-> IF k = 0 THEN {} ELSE {k} \cup f[l[k].parent]]
           g == [k \in 0..Len(l) |-> 1..k]
<1>0. Len(l) \in Nat
    BY Empty
<1>1. \A k \in 1..Len(l) : l[k].parent = k - 1 /\ k - 1 \in 0..Len(l) /\ k \in 0..Len(l) /\ k # 0
    BY <1>0 DEF Chain
<1>2. \A k \in 0..Len(l) : g[k] = 1..k
    OBVIOUS
<1>3. Up(g)
  <2>1. \A k \in 1..Len(l) : 1..k = {k} \cup 1..(k - 1)
    BY <1>0
  <2>2. 1..0 = {}
    OBVIOUS
  <2>3. ASSUME NEW k \in 0..Len(l)
        PROVE  g[k] = IF k = 0 THEN {} ELSE {k} \cup g[l[k].parent]
    <3>1. CASE k = 0
      BY <1>2, <2>2, <3>1
    <3>2. CASE k # 0
      <4>1. k \in 1..Len(l)
        BY <1>0, <3>2
      <4>2. g[k] = 1..k /\ g[l[k].parent] = 1..(k - 1)
        BY <1>1, <1>2, <4>1
      <4> QED
        BY <2>1, <3>2, <4>1, <4>2, Zenon
    <3> QED
      BY <3>1, <3>2
  <2>4. g = [k \in 0..Len(l) |-> g[k]]
    OBVIOUS
  <2> HIDE DEF g
  <2> QED
    BY <2>3, <2>4
<1> HIDE DEF g
<1>4. ASSUME NEW f, Up(f)  PROVE \A k \in 0..Len(l) : f[k] = g[k]
  <2> DEFINE E == {k \in Nat : k <= Len(l) => f[k] = g[k]}
  <2>1. 0 \in E
    BY <1>0, <1>3, <1>4
  <2>2. ASSUME NEW k \in Nat, k \in E  PROVE k + 1 \in E
    <3> SUFFICES ASSUME k + 1 <= Len(l)  PROVE f[k + 1] = g[k + 1]
      OBVIOUS
    <3>1. k + 1 \in 1..Len(l) /\ k + 1 \in 0..Len(l) /\ k + 1 # 0 /\ l[k + 1].parent = k
      BY <1>0, <1>1
    <3>2. f[k] = g[k]
      BY <1>0, <2>2
    <3>3. f[k + 1] = {k + 1} \cup f[k] /\ g[k + 1] = {k + 1} \cup g[k]
      BY <1>3, <1>4, <3>1
    <3> QED
      BY <3>2, <3>3
  <2> HIDE DEF E
  <2>3. Nat \subseteq E
    BY <2>1, <2>2, NaturalInduction
  <2> QED
    BY <1>0, <2>3 DEF E
<1>5. ASSUME NEW f, Up(f)  PROVE f = g
  <2>1. \A k \in 0..Len(l) : f[k] = g[k]
    BY <1>4, <1>5
  <2> QED
    BY <1>3, <1>5, <2>1
<1>6. Lineage(l, n) = g[n]
    BY <1>3, <1>5, Zenon DEF Lineage
<1> QED
    BY <1>2, <1>6

-----------------------------------------------------------------------------
(* Calls and their results, in the log, among the repairs and on the way.  *)

Says(q, type, r) == \E k \in 1..Len(q) : q[k].type = type /\ q[k].ref = r

\* The recovery has a result for the call on its way.
Mends(q, r) == \E k \in 1..Len(q) :
    q[k].who = "open" /\ q[k].event.type = "tool.result" /\ q[k].event.ref = r

\* What a sequence says after it got or lost one event, or was joined to another one.
LEMMA SaysAppend ==
    ASSUME NEW q, IsSeq(q), NEW e
    PROVE  \A type, r : Says(Append(q, e), type, r) <=> Says(q, type, r) \/ (e.type = type /\ e.ref = r)
<1>1. /\ Len(q) \in Nat /\ Len(Append(q, e)) = Len(q) + 1 /\ Append(q, e)[Len(q) + 1] = e
      /\ \A i \in 1..Len(q) : Append(q, e)[i] = q[i]
    BY Appended
<1> DEFINE a == Append(q, e)
           n == Len(q)
<1> HIDE DEF a, n
<1>2. /\ n \in Nat /\ Len(a) = n + 1 /\ a[n + 1] = e
      /\ \A i \in 1..n : a[i] = q[i]
    BY <1>1 DEF a, n
<1>3. 1..Len(a) = (1..n) \cup {n + 1}
    BY <1>2
<1>4. \A type, r : Says(a, type, r) <=> Says(q, type, r) \/ (e.type = type /\ e.ref = r)
    BY <1>2, <1>3 DEF Says, n
<1> QED
    BY <1>4 DEF a

\* What a sequence of events says, its tail says or its head does.
LEMMA SaysTail ==
    ASSUME NEW q, IsSeq(q), q # <<>>
    PROVE  \A type, r : Says(q, type, r) =>
              Says(Tail(q), type, r) \/ (Head(q).type = type /\ Head(q).ref = r)
<1> TAKE type, r
<1> HAVE Says(q, type, r)
<1>1. PICK k \in 1..Len(q) : q[k].type = type /\ q[k].ref = r
    BY DEF Says
<1>2. /\ Len(q) \in Nat /\ Len(Tail(q)) = Len(q) - 1 /\ Head(q) = q[1]
      /\ \A i \in 1..Len(Tail(q)) : Tail(q)[i] = q[i + 1]
    BY Tailed
<1>3. CASE k # 1
  <2>1. k - 1 \in 1..Len(Tail(q)) /\ (k - 1) + 1 = k
    BY <1>2, <1>3
  <2>2. Tail(q)[k - 1] = q[k]
    BY <1>2, <2>1
  <2> QED
    BY <1>1, <2>1, <2>2 DEF Says
<1> QED
    BY <1>1, <1>2, <1>3

\* What the second of two joined sequences says, the two say.
LEMMA SaysJoin ==
    ASSUME NEW q, NEW s, IsSeq(q), IsSeq(s)
    PROVE  \A type, r : Says(s, type, r) => Says(q \o s, type, r)
<1> TAKE type, r
<1> HAVE Says(s, type, r)
<1>1. PICK k \in 1..Len(s) : s[k].type = type /\ s[k].ref = r
    BY DEF Says
<1>2. Len(q) \in Nat /\ Len(s) \in Nat
    BY Empty
<1>3. Len(q) + k \in 1..Len(q \o s) /\ (q \o s)[Len(q) + k] = s[k]
  <2>1. PICK S : q \in Seq(S)
    BY DEF IsSeq
  <2>2. PICK T : s \in Seq(T)
    BY DEF IsSeq
  <2>3. q \in Seq(S \cup T) /\ s \in Seq(S \cup T)
    BY <2>1, <2>2
  <2> QED
    BY <1>2, <2>3
<1> QED
    BY <1>1, <1>3 DEF Says

\* A result that a recovery is storing stays one behind a further append.
LEMMA MendsStay ==
    ASSUME NEW q, IsSeq(q), NEW e
    PROVE  \A r : Mends(q, r) => Mends(Append(q, e), r)
<1>1. /\ Len(q) \in Nat /\ Len(Append(q, e)) = Len(q) + 1
      /\ \A i \in 1..Len(q) : Append(q, e)[i] = q[i]
    BY Appended
<1>2. \A i \in 1..Len(q) : i \in 1..Len(Append(q, e))
    BY <1>1
<1> QED
    BY <1>1, <1>2 DEF Mends

\* An open appends a result: it is being stored.
LEMMA MendsAdd ==
    ASSUME NEW q, IsSeq(q), NEW e, e.who = "open", e.event.type = "tool.result"
    PROVE  Mends(Append(q, e), e.event.ref)
<1>1. Len(q) \in Nat /\ Len(Append(q, e)) = Len(q) + 1 /\ Append(q, e)[Len(q) + 1] = e
    BY Appended
<1>2. Len(q) + 1 \in 1..Len(Append(q, e))
    BY <1>1
<1> QED
    BY <1>1, <1>2 DEF Mends

\* A result that a recovery is storing is the next append or one behind it.
LEMMA MendsTail ==
    ASSUME NEW q, IsSeq(q), q # <<>>
    PROVE  \A r : Mends(q, r) =>
              \/ Mends(Tail(q), r)
              \/ Head(q).who = "open" /\ Head(q).event.type = "tool.result" /\ Head(q).event.ref = r
<1> TAKE r
<1> HAVE Mends(q, r)
<1>1. PICK k \in 1..Len(q) : q[k].who = "open" /\ q[k].event.type = "tool.result" /\ q[k].event.ref = r
    BY DEF Mends
<1>2. /\ Len(q) \in Nat /\ Len(Tail(q)) = Len(q) - 1 /\ Head(q) = q[1]
      /\ \A i \in 1..Len(Tail(q)) : Tail(q)[i] = q[i + 1]
    BY Tailed
<1>3. CASE k # 1
  <2>1. k - 1 \in 1..Len(Tail(q)) /\ (k - 1) + 1 = k
    BY <1>2, <1>3
  <2>2. Tail(q)[k - 1] = q[k]
    BY <1>2, <2>1
  <2> QED
    BY <1>1, <2>1, <2>2 DEF Mends
<1> QED
    BY <1>1, <1>2, <1>3

\* A recovery answers every call that its log leaves open.
LEMMA RepairsMend ==
    ASSUME NEW l, IsSeq(l), Chain(l)
    PROVE  \A r : Says(l, "tool.call", r) /\ ~Says(l, "tool.result", r)
                     => Says(Repairs(l), "tool.result", r)
<1> TAKE r
<1> HAVE Says(l, "tool.call", r) /\ ~Says(l, "tool.result", r)
<1> DEFINE asked == Unanswered(l, Len(l), "interaction.requested", "interaction.resolved")
           called == Unanswered(l, Len(l), "tool.call", "tool.result")
           questions == Only(Ids(l), asked)
           calls == Only(Ids(l), called)
           unfinished == \E k \in Lineage(l, Len(l)) :
              /\ l[k].type = "compaction.started"
              /\ \A j \in Lineage(l, Len(l)) : j > k =>
                    l[j].type \notin {"context.compacted", "compaction.failed"}
           failure == IF unfinished THEN <<[type |-> "compaction.failed", ref |-> 0]>> ELSE <<>>
           cancels == [n \in 1..Len(questions) |->
                          [type |-> "interaction.resolved", ref |-> l[questions[n]].ref]]
           results == [n \in 1..Len(calls) |-> [type |-> "tool.result", ref |-> l[calls[n]].ref]]
<1>1. PICK i \in 1..Len(l) : l[i].type = "tool.call" /\ l[i].ref = r
    BY DEF Says
<1>2. Lineage(l, Len(l)) = 1..Len(l)
    BY ChainLineage, Empty
<1>3. i \in called
    BY <1>1, <1>2 DEF Unanswered, Says
<1>4. Ids(l) \in Seq(1..Len(l)) /\ Len(Ids(l)) = Len(l) /\ Ids(l)[i] = i
    BY <1>1, Empty DEF Ids
<1>5. PICK j \in 1..Len(calls) : calls[j] = i
  <2> HIDE DEF called
  <2>1. \A k \in 1..Len(Ids(l)) : Ids(l)[k] \in called =>
           \E j \in 1..Len(Only(Ids(l), called)) : Only(Ids(l), called)[j] = Ids(l)[k]
    <3> DEFINE S == 1..Len(l)
    <3>1. Ids(l) \in Seq(S)
      BY <1>4
    <3> HIDE DEF S
    <3> QED
      BY <3>1, OnlyHas
  <2>2. i \in 1..Len(Ids(l))
    <3>1. i \in 1..Len(l)
      BY <1>1, Zenon
    <3>2. Len(Ids(l)) = Len(l)
      BY <1>4, Zenon
    <3> QED
      BY <3>1, <3>2, Zenon
  <2>3. Ids(l)[i] \in called
    BY <1>3, <1>4, Zenon
  <2>4. \E j \in 1..Len(Only(Ids(l), called)) : Only(Ids(l), called)[j] = Ids(l)[i]
    BY <2>1, <2>2, <2>3, Zenon
  <2> QED
    BY <1>4, <2>4
<1>6. questions \in Seq(1..Len(l)) /\ calls \in Seq(1..Len(l))
  <2>1. \A K : Only(Ids(l), K) \in Seq(1..Len(l))
    BY <1>4, OnlyOf
  <2> QED
    BY <2>1
<1>7. Repairs(l) = failure \o cancels \o results
  <2>1. l # <<>>
    BY <1>1, Empty
  <2> QED
    BY <2>1 DEF Repairs
<1>8. IsSeq(failure)
  <2>1. <<[type |-> "compaction.failed", ref |-> 0]>> \in Seq({[type |-> "compaction.failed", ref |-> 0]})
    OBVIOUS
  <2>2. <<>> \in Seq({})
    OBVIOUS
  <2> HIDE DEF unfinished
  <2> QED
    BY <2>1, <2>2 DEF IsSeq
<1>9. IsSeq(cancels) /\ IsSeq(results) /\ Says(results, "tool.result", r)
  <2> HIDE DEF questions, calls
  <2>1. Len(questions) \in Nat /\ Len(calls) \in Nat
    BY <1>6
  <2>2. cancels \in Seq({cancels[n] : n \in 1..Len(questions)})
    BY <2>1
  <2>3. results \in Seq({results[n] : n \in 1..Len(calls)})
    BY <2>1
  <2>4. Len(results) = Len(calls) /\ results[j].type = "tool.result" /\ results[j].ref = r
    BY <1>1, <1>5, <2>1
  <2> QED
    BY <1>5, <2>2, <2>3, <2>4 DEF IsSeq, Says
<1> HIDE DEF failure, cancels, results
<1>10. IsSeq(failure \o cancels)
  <2>1. PICK S : failure \in Seq(S)
    BY <1>8 DEF IsSeq
  <2>2. PICK T : cancels \in Seq(T)
    BY <1>9 DEF IsSeq
  <2>3. failure \o cancels \in Seq(S \cup T)
    BY <2>1, <2>2
  <2> QED
    BY <2>3 DEF IsSeq
<1> QED
    BY <1>7, <1>9, <1>10, SaysJoin

-----------------------------------------------------------------------------
(* Every call is settled: it has its result, the turn works on it, or the  *)
(* recovery is about to answer it.                                         *)

Unsettled(r) == Says(log, "tool.call", r) /\ ~Says(log, "tool.result", r)

SettleInv == Chain(log) =>
    \A r : Unsettled(r) =>
        /\ mode = "open" /\ ~broken => Working(turn) /\ r = turn.call
        /\ mode = "recovering" => Says(repairs, "tool.result", r) \/ Mends(appends, r)

\* A log that got one more event.
LEMMA ChainStored ==
    ASSUME TreeInv, NEW e, log' = Append(log, e)
    PROVE  /\ Chain(log') => Chain(log)
           /\ \A type, r : Says(log', type, r) <=> Says(log, type, r) \/ (e.type = type /\ e.ref = r)
           /\ e.type # "tool.call" => \A r : Unsettled(r)' => Unsettled(r)
<1>1. /\ Len(log) \in Nat /\ Len(log') = Len(log) + 1
      /\ \A i \in 1..Len(log) : log'[i] = log[i]
    BY Appended DEF TreeInv, Tips
<1>2. \A type, r : Says(log', type, r) <=> Says(log, type, r) \/ (e.type = type /\ e.ref = r)
    BY SaysAppend DEF TreeInv, Tips
<1>3. Chain(log') => Chain(log)
    BY <1>1 DEF Chain
<1> QED
    BY <1>2, <1>3 DEF Unsettled

\* A step that neither calls a tool nor ends the work on one.
LEMMA QuietKeepsSettled ==
    ASSUME SettleInv, UNCHANGED <<mode, repairs>>,
           Chain(log') => Chain(log), \A r : Unsettled(r)' => Unsettled(r),
           \A r : Mends(appends, r) => Mends(appends', r),
           broken' \/ (~broken /\ (Working(turn) => Working(turn') /\ turn'.call = turn.call))
                   \/ (broken /\ broken')
    PROVE  SettleInv'
BY DEF SettleInv

\* The steps of the turn, and the start of one.
LEMMA MovingKeepsSettled ==
    ASSUME TreeInv, AskType, WriteInv, SettleInv, TurnStep \/ RunTurn
    PROVE  SettleInv'
<1>1. TurnKeeps /\ (UNCHANGED appends \/ \E ref : TurnWrites(ref))
    BY TurnMoves DEF WriteInv
<1>2. \A r : Mends(appends, r) => Mends(appends', r)
    BY <1>1, MendsStay DEF TurnWrites, TreeInv, Tips
<1>3. UNCHANGED <<log, broken, mode, repairs>>
    BY <1>1 DEF TurnKeeps
<1>4. Working(turn) => Working(turn') /\ turn'.call = turn.call
    BY CallMoves DEF WriteInv, Answering, Calling, Returning, Replies, Elsewhere, Working, CallPlaces
<1>5. \A r : Unsettled(r)' => Unsettled(r)
    BY <1>3 DEF Unsettled
<1> QED
    BY <1>2, <1>3, <1>4, <1>5, QuietKeepsSettled

\* The append of the turn is stored: a call is worked on, its result settles it.
LEMMA TurnStoredKeepsSettled ==
    ASSUME TreeInv, WriteInv, SettleInv, TurnStored
    PROVE  SettleInv'
<1>1. /\ appends # <<>> /\ log' = Append(log, Head(appends).event) /\ appends' = Tail(appends)
      /\ turn' = After(turn) /\ UNCHANGED <<broken, mode, repairs>> /\ Waits("turn")
    BY DEF TurnStored, Stored, Waits, opening
<1>2. /\ Head(appends).event.type = Written(turn.pc) /\ Written(turn.pc) # "none"
      /\ turn.pc \in {"call", "result"} => Head(appends).event.ref = turn.call
      /\ mode = "open"
    BY <1>1, Present, TurnAlone DEF Fits
<1>3. /\ Chain(log') => Chain(log)
      /\ \A type, r : Says(log', type, r) <=>
            Says(log, type, r) \/ (Written(turn.pc) = type /\ Head(appends).event.ref = r)
    BY <1>1, <1>2, ChainStored
<1>4. CASE turn.pc = "call"
  <2>1. turn'.pc = "tool" /\ turn'.call = turn.call
    BY <1>1, <1>2, <1>4, AfterCalls DEF WriteInv
  <2>2. \A r : Unsettled(r)' => Unsettled(r) \/ r = turn.call
    BY <1>2, <1>3, <1>4, WrittenIs DEF Unsettled
  <2>3. ~Working(turn)
    BY <1>4 DEF Working
  <2> QED
    BY <1>1, <1>2, <1>3, <2>1, <2>2, <2>3 DEF SettleInv, Working
<1>5. CASE turn.pc = "result"
  <2>1. \A r : Unsettled(r)' => Unsettled(r) /\ r # turn.call
    BY <1>2, <1>3, <1>5, WrittenIs DEF Unsettled
  <2> QED
    BY <1>1, <1>2, <1>3, <2>1 DEF SettleInv
<1>6. CASE turn.pc \notin {"call", "result"}
  <2>1. Written(turn.pc) # "tool.call" /\ Written(turn.pc) # "tool.result"
    BY <1>6 DEF Written
  <2>2. \A r : Unsettled(r)' => Unsettled(r)
    BY <1>3, <2>1 DEF Unsettled
  <2>3. ~Working(turn)
    BY <1>2, <1>6, WrittenIs DEF Working
  <2> QED
    BY <1>1, <1>2, <1>3, <2>2, <2>3 DEF SettleInv
<1> QED
    BY <1>4, <1>5, <1>6

\* An append of anybody else is stored.
LEMMA StoringKeepsSettled ==
    ASSUME TreeInv, WriteInv, SettleInv, Stores, ~Waits("turn"), UNCHANGED <<mode, repairs>>,
           turn' = turn \/ (Working(turn') /\ turn'.call = turn.call)
    PROVE  SettleInv'
<1>1. /\ appends # <<>> /\ log' = Append(log, Head(appends).event) /\ appends' = Tail(appends)
      /\ UNCHANGED broken /\ Head(appends).who # "turn"
    BY DEF Stores, Stored, Waits
<1>2. EntryAt(Head(appends), turn, mode)
    BY <1>1, Present
<1>3. Head(appends).event.type # "tool.call"
    BY <1>1, <1>2, TurnAssumptions DEF EntryAt, RepairTypes
<1>4. /\ Chain(log') => Chain(log)
      /\ \A r : Unsettled(r)' =>
            Unsettled(r) /\ ~(Head(appends).event.type = "tool.result" /\ Head(appends).event.ref = r)
    BY <1>1, <1>3, ChainStored DEF Unsettled
<1>5. \A r : Mends(appends, r) =>
         \/ Mends(appends', r)
         \/ Head(appends).event.type = "tool.result" /\ Head(appends).event.ref = r
    BY <1>1, MendsTail DEF TreeInv, Tips
<1> QED
    BY <1>1, <1>4, <1>5 DEF SettleInv

\* A tool that asks, and one whose question is recorded, goes on with its call.
LEMMA WorkSet ==
    ASSUME WriteInv
    PROVE  turn' = [turn EXCEPT !.pc = "asking"] \/ turn' = [turn EXCEPT !.pc = "waiting"]
              => Working(turn') /\ turn'.call = turn.call
BY DEF WriteInv, TurnAt, Working

\* Opening, recovering, and the end of the process.
LEMMA OpeningKeepsSettled ==
    ASSUME TreeInv, WriteInv, SettleInv, Open \/ Recover \/ RecoverySettles \/ Crash
    PROVE  SettleInv'
<1>1. CASE Open
  <2>1. /\ UNCHANGED log
        /\ mode' = "unreadable" \/ (mode' = "recovering" /\ repairs' = Repairs(log))
    BY <1>1 DEF Open
  <2>2. Chain(log) => \A r : Unsettled(r) => Says(Repairs(log), "tool.result", r)
    BY RepairsMend DEF Unsettled, TreeInv, Tips
  <2> QED
    BY <2>1, <2>2 DEF SettleInv, Unsettled
<1>2. CASE Recover
  <2>1. /\ mode = "recovering" /\ \A k \in 1..Len(appends) : appends[k].who # "open"
        /\ UNCHANGED <<log, turn>>
    BY <1>2 DEF Recover, Calls
  <2>2. \A r : ~Mends(appends, r)
    BY <2>1 DEF Mends
  <2>3. CASE /\ repairs # <<>> /\ Enqueue(Head(repairs).type, Head(repairs).ref, "open")
             /\ repairs' = Tail(repairs) /\ UNCHANGED mode
    <3> DEFINE e == [event |-> Event(Head(repairs).type, Head(repairs).ref), who |-> "open"]
    <3>1. /\ appends' = Append(appends, e) /\ e.who = "open"
          /\ e.event.type = Head(repairs).type /\ e.event.ref = Head(repairs).ref
      BY <2>3 DEF Enqueue, Event
    <3> HIDE DEF e
    <3>2. e.event.type = "tool.result" => Mends(appends', e.event.ref)
      BY <3>1, MendsAdd DEF TreeInv, Tips
    <3>3. \A r : Says(repairs, "tool.result", r) =>
             Says(repairs', "tool.result", r) \/ (e.event.type = "tool.result" /\ e.event.ref = r)
      BY <2>3, <3>1, SaysTail DEF WriteInv, Typed
    <3> QED
      BY <2>1, <2>2, <2>3, <3>2, <3>3 DEF SettleInv, Unsettled
  <2>4. CASE repairs = <<>> /\ mode' = "open" /\ UNCHANGED <<repairs, appends>>
    <3>1. \A r : ~Says(repairs, "tool.result", r)
      BY <2>4 DEF Says
    <3> QED
      BY <2>1, <2>2, <2>4, <3>1 DEF SettleInv, Unsettled
  <2> QED
    BY <1>2, <2>3, <2>4 DEF Recover
<1>3. CASE RecoverySettles
  <2>1. appends # <<>> /\ Waits("open") /\ UNCHANGED turn
    BY <1>3 DEF RecoverySettles, Waits
  <2>2. CASE Stored /\ UNCHANGED opening
    BY <2>1, <2>2, StoringKeepsSettled DEF Stores, opening, Waits
  <2>3. CASE mode' = "closed"
    BY <2>3 DEF SettleInv
  <2> QED
    BY <1>3, <2>2, <2>3 DEF RecoverySettles
<1>4. CASE Crash
    BY <1>4 DEF Crash, SettleInv
<1> QED
    BY <1>1, <1>2, <1>3, <1>4

\* The operations beside the turn, and the appends that fail.
LEMMA OthersKeepSettled ==
    ASSUME TreeInv, WriteInv, SettleInv,
           \/ Steer \/ Interrupt \/ AskTimesOut \/ OtherAppends \/ Restore \/ ToolAsks
           \/ (\E c \in Clients : Respond(c))
           \/ OtherSettles \/ RestoreSettles \/ AskSettles \/ (\E c \in Clients : ResponseSettles(c))
           \/ TurnFails \/ UNCHANGED vars
    PROVE  SettleInv'
<1>1. CASE Steer \/ AskTimesOut \/ Interrupt \/ UNCHANGED vars
  <2>1. UNCHANGED <<log, appends, broken, mode, repairs>>
    BY <1>1 DEF Steer, AskTimesOut, Interrupt, NoAppend, opening, vars
  <2>2. turn'.pc = turn.pc /\ turn'.call = turn.call
    BY <1>1 DEF Steer, AskTimesOut, Interrupt, NoAppend, opening, vars, WriteInv, TurnAt
  <2> QED
    BY <2>1, <2>2 DEF SettleInv, Unsettled, Working
<1>2. CASE OtherAppends \/ Restore \/ ToolAsks \/ \E c \in Clients : Respond(c)
  <2>1. UNCHANGED <<log, broken, mode, repairs>> /\ \E e : appends' = Append(appends, e)
    BY <1>2 DEF OtherAppends, Restore, ToolAsks, Respond, Enqueue, Calls, opening
  <2>2. Working(turn) => Working(turn') /\ turn'.call = turn.call
    <3>1. turn' = turn \/ turn' = [turn EXCEPT !.pc = "asking"]
      BY <1>2 DEF OtherAppends, Restore, ToolAsks, Respond
    <3> QED
      BY <3>1, WorkSet
  <2>3. \A r : Mends(appends, r) => Mends(appends', r)
    BY <2>1, MendsStay DEF TreeInv, Tips
  <2> QED
    BY <2>1, <2>2, <2>3 DEF SettleInv, Unsettled
<1>3. CASE OtherSettles \/ RestoreSettles \/ AskSettles \/ \E c \in Clients : ResponseSettles(c)
  <2>1. UNCHANGED <<mode, repairs>> /\ appends # <<>> /\ ~Waits("turn") /\ ~Waits("open")
    <3>1. \E who : Waits(who) /\ who # "turn" /\ who # "open"
      BY <1>3, TurnAssumptions DEF OtherSettles, RestoreSettles, AskSettles, ResponseSettles
    <3>2. UNCHANGED <<mode, repairs>>
      BY <1>3 DEF OtherSettles, RestoreSettles, AskSettles, ResponseSettles, opening
    <3> QED
      BY <3>1, <3>2 DEF Waits
  <2>2. Failed \/ (Stored /\ (turn' = turn \/ turn' = [turn EXCEPT !.pc = "waiting"]))
    BY <1>3 DEF OtherSettles, RestoreSettles, AskSettles, ResponseSettles
  <2>3. CASE Stored /\ (turn' = turn \/ turn' = [turn EXCEPT !.pc = "waiting"])
    <3>1. turn' = turn \/ (Working(turn') /\ turn'.call = turn.call)
      BY <2>3, WorkSet
    <3> QED
      BY <2>1, <2>3, <3>1, StoringKeepsSettled DEF Stores
  <2>4. CASE Failed
    <3>1. broken' /\ UNCHANGED log /\ appends' = Tail(appends)
      BY <2>4 DEF Failed
    <3>2. \A r : Mends(appends, r) => Mends(appends', r)
      BY <2>1, <3>1, MendsTail DEF TreeInv, Tips, Waits
    <3> QED
      BY <2>1, <3>1, <3>2 DEF SettleInv, Unsettled
  <2> QED
    BY <2>2, <2>3, <2>4
<1>4. CASE TurnFails
  <2>1. broken' /\ UNCHANGED <<log, mode, repairs>> /\ Waits("turn")
    BY <1>4 DEF TurnFails, opening
  <2>2. mode = "open"
    BY <2>1, TurnAlone
  <2> QED
    BY <2>1, <2>2 DEF SettleInv
<1> QED
    BY <1>1, <1>2, <1>3, <1>4

\* No step leaves a call behind.
LEMMA NextKeepsSettled ==
    ASSUME TreeInv, AskType, WriteInv, SettleInv, [Next]_vars
    PROVE  SettleInv'
BY MovingKeepsSettled, TurnStoredKeepsSettled, OpeningKeepsSettled, OthersKeepSettled DEF Next, Settles

\* What is settled leaves nothing unanswered at the tip.
LEMMA SettledIs ==
    ASSUME TreeInv, WriteInv, SettleInv
    PROVE  SettledBranch
<1> SUFFICES ASSUME mode = "open", turn.pc = "none", appends = <<>>, ~broken, Chain(log)
             PROVE  Unanswered(log, tip, "tool.call", "tool.result") = {}
    BY DEF SettledBranch
<1>1. Lineage(log, tip) = 1..Len(log)
    BY ChainLineage DEF TreeInv, Tips, WriteInv, Modes
<1>2. \A r : ~Unsettled(r)
    BY DEF SettleInv, Working
<1>3. ASSUME NEW k \in 1..Len(log), log[k].type = "tool.call"
      PROVE  \E j \in 1..Len(log) : log[j].type = "tool.result" /\ log[j].ref = log[k].ref
  <2>1. Says(log, "tool.call", log[k].ref)
    BY <1>3 DEF Says
  <2>2. Says(log, "tool.result", log[k].ref)
    BY <1>2, <2>1 DEF Unsettled
  <2> QED
    BY <2>2 DEF Says
<1> QED
    BY <1>1, <1>3 DEF Unanswered

\* SettledBranch: whatever is interrupted, retried, compacted, recovered or restarted, no call
\* of an open session without a turn is left without its result, as long as no append failed
\* and no two took the same parent.
THEOREM SettledHolds == Spec => []SettledBranch
<1> DEFINE I == TreeInv /\ AskType /\ WriteInv /\ SettleInv
<1>1. Init => I
  <2>1. Init => TreeInv /\ AskType
    BY Starts
  <2>2. Init => SettleInv
    BY DEF Init, SettleInv
  <2> QED
    BY <2>1, <2>2, WritesStart
<1>2. I /\ [Next]_vars => I'
    BY NextKeepsTree, NextKeepsAskType, NextKeepsWrites, NextKeepsSettled
<1>3. I => SettledBranch
    BY SettledIs
<1> QED
    BY <1>1, <1>2, <1>3, PTL DEF Spec

-----------------------------------------------------------------------------
(* What a step does to the log and to the turn, as far as calls go.        *)

\* The oldest append is found in the log.
Logs == appends # <<>> /\ log' = Append(log, Head(appends).event)

LogsOther == Logs /\ Head(appends).who # "turn"

Stays ==
    /\ log' = log \/ LogsOther
    /\ turn'.pc = turn.pc /\ turn'.call = turn.call /\ turn'.calls = turn.calls
    /\ turn'.outcome = turn.outcome /\ turn'.plan = turn.plan /\ used'.calls = used.calls
Moves == log' = log /\ (TurnStep \/ RunTurn) /\ (Answering \/ Calling \/ Returning \/ Replies \/ Elsewhere)
Works ==
    /\ log' = log \/ LogsOther
    /\ Working(turn) /\ Working(turn') /\ used'.calls = used.calls
    /\ turn'.call = turn.call /\ turn'.calls = turn.calls
Leaves ==
    /\ log' = log \/ Logs
    /\ turn'.pc \in {"none", "uncompacted", "reply"} /\ used'.calls = used.calls
    /\ turn'.pc = "reply" => turn'.outcome = "error"

\* Failing takes one of the bounded events and leaves the log.
LEMMA FailedCounted ==
    ASSUME AskType, Failed \/ Stored \/ Extra
    PROVE  /\ Failed \/ Extra => used'.calls = used.calls
           /\ Failed => log' = log
BY DEF AskType, Failed, Extra

\* The operations beside the turn leave it alone.
LEMMA OthersStay ==
    ASSUME TreeInv, AskType, WriteInv,
           \/ Steer \/ Interrupt \/ AskTimesOut \/ OtherAppends \/ Restore
           \/ (\E c \in Clients : Respond(c))
           \/ OtherSettles \/ RestoreSettles \/ (\E c \in Clients : ResponseSettles(c))
           \/ UNCHANGED vars
    PROVE  Stays
<1>1. CASE Steer \/ AskTimesOut \/ OtherAppends \/ Restore \/ UNCHANGED vars
           \/ \E c \in Clients : Respond(c)
  <2>1. log' = log /\ turn' = turn /\ (used' = used \/ Extra)
    BY <1>1 DEF Steer, AskTimesOut, OtherAppends, Restore, Respond, NoAppend, Calls, vars
  <2> QED
    BY <2>1, FailedCounted DEF Stays
<1>2. CASE Interrupt
  <2>1. log' = log /\ turn' = [turn EXCEPT !.aborted = TRUE] /\ used' = used
    BY <1>2 DEF Interrupt, NoAppend
  <2> QED
    BY <2>1 DEF Stays, WriteInv, TurnAt
<1>3. CASE OtherSettles \/ RestoreSettles \/ \E c \in Clients : ResponseSettles(c)
  <2>1. \E who : Waits(who) /\ who # "turn"
    BY <1>3, TurnAssumptions DEF OtherSettles, RestoreSettles, ResponseSettles
  <2>2. turn' = turn /\ ((Stored /\ UNCHANGED used) \/ Failed)
    BY <1>3 DEF OtherSettles, RestoreSettles, ResponseSettles
  <2> QED
    BY <2>1, <2>2, FailedCounted DEF Stays, LogsOther, Logs, Waits, Stored
<1> QED
    BY <1>1, <1>2, <1>3

\* Every step, by what it does to the turn.
LEMMA StepKinds ==
    ASSUME TreeInv, AskType, WriteInv, [Next]_vars
    PROVE  Stays \/ Moves \/ Works \/ Leaves \/ TurnStored
<1>1. CASE TurnStep \/ RunTurn
  <2>1. log' = log
    BY <1>1, TurnMoves DEF WriteInv, TurnKeeps
  <2> QED
    BY <1>1, <2>1, CallMoves DEF WriteInv, Moves
<1>2. CASE ToolAsks
  <2>1. turn.pc = "tool" /\ log' = log /\ used' = used /\ turn' = [turn EXCEPT !.pc = "asking"]
    BY <1>2 DEF ToolAsks, Calls
  <2> QED
    BY <2>1 DEF Works, Working, WriteInv, TurnAt
<1>3. CASE AskSettles
  <2>1. turn.pc = "asking" /\ appends # <<>> /\ Head(appends).who # "turn"
    BY <1>3, Present DEF AskSettles, Waits
  <2>2. \/ Stored /\ used' = used /\ turn' = [turn EXCEPT !.pc = "waiting"]
        \/ Failed /\ turn' = [turn EXCEPT !.pc = "tool"]
    BY <1>3 DEF AskSettles
  <2>3. (log' = log \/ Logs) /\ used'.calls = used.calls
    BY <2>1, <2>2, FailedCounted DEF Stored, Logs
  <2>4. turn'.pc \in {"waiting", "tool"} /\ turn'.call = turn.call /\ turn'.calls = turn.calls
    BY <2>2 DEF WriteInv, TurnAt
  <2> QED
    BY <2>1, <2>3, <2>4 DEF Works, Working, LogsOther
<1>4. CASE TurnFails
  <2>1. log' = log /\ used'.calls = used.calls
    BY <1>4, FailedCounted DEF TurnFails
  <2>2. \/ turn' = NoTurn \/ turn' = [turn EXCEPT !.pc = "uncompacted"]
        \/ turn.outcome = "error" /\ turn' = [turn EXCEPT !.pc = "reply", !.plan = NoPlan]
    BY <1>4 DEF TurnFails
  <2>3. /\ turn'.pc \in {"none", "uncompacted", "reply"}
        /\ turn'.pc = "reply" => turn'.outcome = "error"
    BY <2>2, NoTurnTyped DEF WriteInv, TurnAt
  <2> QED
    BY <2>1, <2>3 DEF Leaves
<1>5. CASE Crash
  <2>1. turn'.pc = "none" /\ (log' = log \/ Logs)
    BY <1>5, NoTurnTyped DEF Crash, Logs
  <2>2. used'.calls = used.calls
    BY <1>5 DEF Crash, AskType
  <2> QED
    BY <2>1, <2>2 DEF Leaves
<1>6. CASE Open \/ Recover
  <2>1. log' = log /\ turn' = turn /\ used' = used
    BY <1>6 DEF Open, Recover, Calls
  <2> QED
    BY <2>1 DEF Stays
<1>7. CASE RecoverySettles
  <2>1. /\ appends # <<>> /\ Head(appends).who # "turn" /\ turn' = turn
        /\ (Stored /\ used' = used) \/ Failed
    BY <1>7 DEF RecoverySettles, Waits
  <2> QED
    BY <2>1, FailedCounted DEF Stays, LogsOther, Logs, Stored
<1> QED
    BY <1>1, <1>2, <1>3, <1>4, <1>5, <1>6, <1>7, OthersStay DEF Next, Settles

-----------------------------------------------------------------------------
(* No call id is used twice.                                               *)

OnceIn(q, type) == \A j, k \in 1..Len(q) :
    q[j].type = type /\ q[k].type = type /\ q[j].ref = q[k].ref => j = k

\* The model has asked for the calls that the turn is about to make or makes.
Asked(t) ==
    \/ t.pc \in {"calls", "tool", "asking", "waiting", "result"}
    \/ t.pc = "assistant" /\ t.outcome \notin {"error", "aborted"}

CallInv ==
    /\ OnceIn(log, "tool.call")
    /\ \A r : Says(log, "tool.call", r) => r \in 1..used.calls
    /\ Asked(turn) \/ turn.pc = "call" => turn.call + turn.calls <= used.calls
    /\ Asked(turn) => \A r \in Nat : Says(log, "tool.call", r) => r <= turn.call
    /\ turn.pc = "call" => turn.call > 0 /\ \A r \in Nat : Says(log, "tool.call", r) => r < turn.call
    /\ turn.pc = "reply" => turn.outcome = "error"

\* One more event, of another type or with a reference of its own.
LEMMA OnceAppend ==
    ASSUME NEW q, IsSeq(q), NEW e, NEW type, OnceIn(q, type), e.type = type => ~Says(q, type, e.ref)
    PROVE  OnceIn(Append(q, e), type)
<1> DEFINE a == Append(q, e)
           n == Len(q)
<1>1. /\ n \in Nat /\ Len(a) = n + 1 /\ a[n + 1] = e
      /\ \A i \in 1..n : a[i] = q[i]
    BY Appended
<1> HIDE DEF a
<1>2. ASSUME NEW j \in 1..Len(a), NEW k \in 1..Len(a),
             a[j].type = type, a[k].type = type, a[j].ref = a[k].ref
      PROVE  j = k
  <2>1. j \in 1..n \/ j = n + 1
    BY <1>1
  <2>2. k \in 1..n \/ k = n + 1
    BY <1>1
  <2>3. CASE j \in 1..n /\ k \in 1..n
    BY <1>1, <1>2, <2>3 DEF OnceIn
  <2>4. CASE j \in 1..n /\ k = n + 1
    BY <1>1, <1>2, <2>4 DEF Says
  <2>5. CASE j = n + 1 /\ k \in 1..n
    BY <1>1, <1>2, <2>5 DEF Says
  <2> QED
    BY <2>1, <2>2, <2>3, <2>4, <2>5
<1> QED
    BY <1>2 DEF OnceIn, a

\* Only the turn calls tools; results are its own or of a recovery.
LEMMA HeadCalls ==
    ASSUME WriteInv, TreeInv, appends # <<>>
    PROVE  /\ Head(appends).event.type = "tool.call" =>
                 Head(appends).who = "turn" /\ turn.pc = "call" /\ Head(appends).event.ref = turn.call
           /\ Head(appends).event.type = "tool.result" =>
                 \/ Head(appends).who = "turn" /\ turn.pc = "result" /\ Head(appends).event.ref = turn.call
                 \/ Head(appends).who = "open" /\ mode = "recovering"
<1>1. EntryAt(Head(appends), turn, mode)
    BY Present
<1>2. \A pc : /\ Written(pc) = "tool.call" => pc = "call"
              /\ Written(pc) = "tool.result" => pc = "result"
    BY DEF Written
<1>3. CASE Head(appends).who = "turn" /\ Fits(Head(appends).event.type, Head(appends).event.ref, turn)
    BY <1>2, <1>3 DEF Fits
<1>4. CASE /\ Head(appends).event.type \in RepairTypes
           /\ Head(appends).who = "open" /\ mode = "recovering"
    BY <1>4 DEF RepairTypes
<1>5. CASE Head(appends).event.type \in Beside \cup {"queue.restored", "interaction.requested",
                                                     "interaction.resolved"}
    BY <1>5, TurnAssumptions
<1> QED
    BY <1>1, <1>3, <1>4, <1>5 DEF EntryAt

\* The ids of the log: an id is new when its call is stored.
LEMMA CallStored ==
    ASSUME TreeInv, AskType, WriteInv, CallInv, log' = log \/ Logs, used'.calls \in Nat,
           used'.calls >= used.calls
    PROVE  /\ OnceIn(log', "tool.call")
           /\ \A r : Says(log', "tool.call", r) => r \in 1..used'.calls
<1>1. CASE log' = log
    BY <1>1 DEF CallInv, AskType
<1>2. CASE Logs
  <2>1. /\ Head(appends).event.type = "tool.call" =>
              turn.pc = "call" /\ Head(appends).event.ref = turn.call
        /\ log' = Append(log, Head(appends).event)
    BY <1>2, HeadCalls DEF Logs
  <2>2. turn.call \in Nat /\ turn.calls \in Nat /\ used.calls \in Nat
    BY DEF WriteInv, TurnAt, AskType
  <2>3. turn.pc = "call" => turn.call \in 1..used'.calls /\ ~Says(log, "tool.call", turn.call)
    BY <2>2 DEF CallInv
  <2>4. \A r : Says(log', "tool.call", r) =>
           Says(log, "tool.call", r) \/ (turn.pc = "call" /\ r = turn.call)
    BY <2>1, SaysAppend DEF TreeInv, Tips
  <2>5. OnceIn(log', "tool.call")
    BY <2>1, <2>3, OnceAppend DEF TreeInv, Tips, CallInv
  <2>6. \A r \in 1..used.calls : r \in 1..used'.calls
    BY <2>2
  <2> QED
    BY <2>3, <2>4, <2>5, <2>6 DEF CallInv
<1> QED
    BY <1>1, <1>2

\* What somebody else stores is no call.
LEMMA OtherStored ==
    ASSUME TreeInv, WriteInv, log' = log \/ LogsOther
    PROVE  \A r : Says(log', "tool.call", r) => Says(log, "tool.call", r)
<1>1. CASE LogsOther
  <2>1. Head(appends).event.type # "tool.call"
    BY <1>1, HeadCalls DEF LogsOther, Logs
  <2> QED
    BY <1>1, <2>1, SaysAppend DEF TreeInv, Tips, LogsOther, Logs
<1> QED
    BY <1>1

\* No step uses the id of a call again.
LEMMA NextKeepsCalls ==
    ASSUME TreeInv, AskType, WriteInv, CallInv, [Next]_vars
    PROVE  CallInv'
<1>0. /\ turn.call \in Nat /\ turn.calls \in Nat /\ used.calls \in Nat
      /\ \A r : Says(log, "tool.call", r) => r \in Nat /\ r <= used.calls
    BY DEF WriteInv, TurnAt, AskType, CallInv
<1>1. CASE Stays
  <2>1. (log' = log \/ Logs) /\ (log' = log \/ LogsOther) /\ used'.calls = used.calls
    BY <1>1 DEF Stays, LogsOther
  <2>2. OnceIn(log', "tool.call") /\ \A r : Says(log', "tool.call", r) => r \in 1..used'.calls
    BY <1>0, <2>1, CallStored
  <2>3. \A r : Says(log', "tool.call", r) => Says(log, "tool.call", r)
    BY <2>1, OtherStored
  <2> QED
    BY <1>1, <2>2, <2>3 DEF CallInv, Asked, Stays
<1>2. CASE Works
  <2>1. (log' = log \/ Logs) /\ (log' = log \/ LogsOther) /\ used'.calls = used.calls
    BY <1>2 DEF Works, LogsOther
  <2>2. OnceIn(log', "tool.call") /\ \A r : Says(log', "tool.call", r) => r \in 1..used'.calls
    BY <1>0, <2>1, CallStored
  <2>3. \A r : Says(log', "tool.call", r) => Says(log, "tool.call", r)
    BY <2>1, OtherStored
  <2>4. Asked(turn) /\ turn'.pc \notin {"call", "reply"}
    BY <1>2 DEF Works, Working, Asked
  <2> QED
    BY <1>2, <2>2, <2>3, <2>4 DEF CallInv, Works
<1>3. CASE Leaves
  <2>1. OnceIn(log', "tool.call") /\ \A r : Says(log', "tool.call", r) => r \in 1..used'.calls
    BY <1>0, <1>3, CallStored DEF Leaves
  <2> QED
    BY <1>3, <2>1 DEF CallInv, Asked, Leaves
<1>4. CASE Moves
  <2>1. log' = log
    BY <1>4 DEF Moves
  <2>2. CASE Answering
    <3>1. /\ turn'.pc = "assistant" /\ turn'.call = used.calls /\ turn'.calls \in Nat
          /\ used'.calls = used.calls + turn'.calls
      BY <2>2 DEF Answering
    <3>2. OnceIn(log', "tool.call") /\ \A r : Says(log', "tool.call", r) => r \in 1..used'.calls
      BY <1>0, <2>1, <3>1, CallStored
    <3>3. \A r \in Nat : Says(log', "tool.call", r) => r <= turn'.call
      BY <1>0, <2>1, <3>1
    <3>4. turn'.call + turn'.calls <= used'.calls
      BY <1>0, <3>1
    <3> QED
      BY <3>1, <3>2, <3>3, <3>4 DEF CallInv, Asked
  <2>3. CASE Calling
    <3>1. /\ turn.pc = "calls" /\ turn'.pc = "call" /\ used'.calls = used.calls
          /\ turn'.call = turn.call + 1 /\ turn'.calls = turn.calls - 1
      BY <2>3 DEF Calling
    <3>2. turn.call + turn.calls <= used.calls /\ \A r \in Nat : Says(log, "tool.call", r) => r <= turn.call
      BY <3>1 DEF CallInv, Asked
    <3>3. turn'.call + turn'.calls <= used'.calls /\ turn'.call > 0
      BY <1>0, <3>1, <3>2
    <3>4. \A r \in Nat : Says(log', "tool.call", r) => r < turn'.call
      BY <1>0, <2>1, <3>1, <3>2
    <3> QED
      BY <2>1, <3>1, <3>3, <3>4 DEF CallInv, Asked
  <2>4. CASE Returning
    <3>1. Asked(turn) /\ turn'.pc \notin {"call", "reply"}
      BY <2>4 DEF Returning, Working, Asked
    <3> QED
      BY <2>1, <2>4, <3>1 DEF CallInv, Returning
  <2>5. CASE Replies
    <3>1. turn'.pc = "assistant" /\ turn'.outcome \in {"aborted", "error"} /\ used'.calls = used.calls
      BY <2>5 DEF Replies, CallInv
    <3> QED
      BY <2>1, <3>1 DEF CallInv, Asked
  <2>6. CASE Elsewhere
    BY <2>1, <2>6 DEF CallInv, Asked, Elsewhere, CallPlaces
  <2> QED
    BY <1>4, <2>2, <2>3, <2>4, <2>5, <2>6 DEF Moves
<1>5. CASE TurnStored
  <2>1. /\ Logs /\ turn' = After(turn) /\ used' = used /\ Waits("turn")
    BY <1>5 DEF TurnStored, Stored, Logs, Waits
  <2>2. OnceIn(log', "tool.call") /\ \A r : Says(log', "tool.call", r) => r \in 1..used'.calls
    BY <1>0, <2>1, CallStored
  <2>3. Written(turn.pc) # "none" /\ TurnAt(turn)
    BY <2>1, TurnAlone DEF WriteInv
  <2>4. \A r : Says(log', "tool.call", r) =>
           Says(log, "tool.call", r) \/ (turn.pc = "call" /\ r = turn.call)
    BY <2>1, HeadCalls, SaysAppend DEF Logs, TreeInv, Tips
  <2>5. CASE turn.pc \in {"call", "result", "assistant"}
    <3>1. /\ turn'.call = turn.call /\ turn'.calls = turn.calls /\ turn'.pc \notin {"call", "reply"}
          /\ turn.pc # "call" /\ Asked(turn') => Asked(turn)
      BY <2>1, <2>3, <2>5, AfterCalls DEF Asked
    <3>2. \A r \in Nat : Says(log', "tool.call", r) /\ Asked(turn') => r <= turn.call
      BY <1>0, <2>4, <2>5, <3>1 DEF CallInv
    <3> QED
      BY <2>1, <2>2, <3>1, <3>2 DEF CallInv
  <2>6. CASE turn.pc \notin {"call", "result", "assistant"}
    <3>1. turn.pc \notin CallPlaces
      BY <2>3, <2>6, WrittenIs DEF CallPlaces
    <3>2. turn'.pc \notin CallPlaces /\ (turn'.pc = "reply" => turn'.outcome = "error")
      BY <2>1, <2>3, <3>1, AfterCalls
    <3> QED
      BY <2>2, <3>2 DEF CallInv, Asked, CallPlaces
  <2> QED
    BY <2>5, <2>6
<1> QED
    BY <1>1, <1>2, <1>3, <1>4, <1>5, StepKinds

-----------------------------------------------------------------------------
(* No call is answered twice, and none is answered before it is made.      *)

\* Each result answers an earlier call.
Preceded(l) == \A i \in 1..Len(l) : l[i].type = "tool.result" =>
    \E k \in 1..(i - 1) : l[k].type = "tool.call" /\ l[k].ref = l[i].ref

ResultInv == Chain(log) =>
    /\ OnceIn(log, "tool.result") /\ Preceded(log)
    /\ Working(turn) => Unsettled(turn.call)
    /\ OnceIn(repairs, "tool.result")
    /\ \A r : Says(repairs, "tool.result", r) => Unsettled(r) /\ ~Mends(appends, r)
    /\ \A r : Mends(appends, r) => Unsettled(r)

\* A sequence without its first event.
LEMMA OnceTail ==
    ASSUME NEW q, IsSeq(q), q # <<>>, NEW type, OnceIn(q, type)
    PROVE  /\ OnceIn(Tail(q), type)
           /\ \A r : Says(Tail(q), type, r) => Says(q, type, r)
           /\ Head(q).type = type => Says(q, type, Head(q).ref) /\ ~Says(Tail(q), type, Head(q).ref)
<1> DEFINE a == Tail(q)
           n == Len(a)
<1>1. /\ n \in Nat /\ Len(q) = n + 1 /\ Head(q) = q[1]
      /\ \A i \in 1..n : a[i] = q[i + 1]
    BY Tailed
<1> HIDE DEF a, n
<1>2. \A i \in 1..n : i + 1 \in 1..Len(q) /\ i + 1 # 1 /\ 1 \in 1..Len(q)
    BY <1>1
<1>3. 1 \in 1..Len(q)
    BY <1>1
<1>4. \A j, k \in 1..n : a[j].type = type /\ a[k].type = type /\ a[j].ref = a[k].ref => j = k
  <2> TAKE j, k \in 1..n
  <2> HAVE a[j].type = type /\ a[k].type = type /\ a[j].ref = a[k].ref
  <2>1. q[j + 1].type = type /\ q[k + 1].type = type /\ q[j + 1].ref = q[k + 1].ref
    BY <1>1
  <2>2. j + 1 = k + 1
    BY <1>2, <2>1 DEF OnceIn
  <2> QED
    BY <1>1, <2>2
<1>5. \A r : Says(a, type, r) => Says(q, type, r)
    BY <1>1, <1>2 DEF Says, n
<1>6. Head(q).type = type => Says(q, type, Head(q).ref) /\ ~Says(a, type, Head(q).ref)
    BY <1>1, <1>2, <1>3 DEF Says, OnceIn, n
<1> QED
    BY <1>4, <1>5, <1>6 DEF OnceIn, a, n

\* A result in the queue was there, or is the one that was added.
LEMMA MendsBack ==
    ASSUME NEW q, IsSeq(q)
    PROVE  /\ \A e, r : Mends(Append(q, e), r) =>
                Mends(q, r) \/ (e.who = "open" /\ e.event.type = "tool.result" /\ e.event.ref = r)
           /\ q # <<>> => \A r : Mends(Tail(q), r) => Mends(q, r)
<1>1. ASSUME NEW e, NEW r, Mends(Append(q, e), r)
      PROVE  Mends(q, r) \/ (e.who = "open" /\ e.event.type = "tool.result" /\ e.event.ref = r)
  <2> DEFINE a == Append(q, e)
  <2>1. /\ Len(q) \in Nat /\ Len(a) = Len(q) + 1 /\ a[Len(q) + 1] = e
        /\ \A i \in 1..Len(q) : a[i] = q[i]
    BY Appended
  <2>2. PICK k \in 1..Len(a) : a[k].who = "open" /\ a[k].event.type = "tool.result" /\ a[k].event.ref = r
    BY <1>1 DEF Mends
  <2> HIDE DEF a
  <2>3. k \in 1..Len(q) \/ k = Len(q) + 1
    BY <2>1
  <2> QED
    BY <2>1, <2>2, <2>3 DEF Mends
<1>2. ASSUME q # <<>>, NEW r, Mends(Tail(q), r)  PROVE Mends(q, r)
  <2>1. PICK k \in 1..Len(Tail(q)) :
           Tail(q)[k].who = "open" /\ Tail(q)[k].event.type = "tool.result" /\ Tail(q)[k].event.ref = r
    BY <1>2 DEF Mends
  <2>2. k + 1 \in 1..Len(q) /\ Tail(q)[k] = q[k + 1]
    BY <1>2, Tailed
  <2> QED
    BY <2>1, <2>2 DEF Mends
<1> QED
    BY <1>1, <1>2

\* A log that got one more event.
LEMMA ResultAppend ==
    ASSUME NEW l, IsSeq(l), NEW e, Preceded(l),
           e.type = "tool.result" => Says(l, "tool.call", e.ref)
    PROVE  Preceded(Append(l, e))
<1> DEFINE a == Append(l, e)
           n == Len(l)
<1>1. /\ n \in Nat /\ Len(a) = n + 1 /\ a[n + 1] = e
      /\ \A i \in 1..n : a[i] = l[i]
    BY Appended
<1> HIDE DEF a
<1>2. ASSUME NEW i \in 1..Len(a), a[i].type = "tool.result"
      PROVE  \E k \in 1..(i - 1) : a[k].type = "tool.call" /\ a[k].ref = a[i].ref
  <2>1. CASE i \in 1..n
    <3>1. PICK k \in 1..(i - 1) : l[k].type = "tool.call" /\ l[k].ref = l[i].ref
      BY <1>1, <1>2, <2>1 DEF Preceded
    <3>2. k \in 1..n
      BY <1>1, <2>1
    <3> QED
      BY <1>1, <2>1, <3>1, <3>2
  <2>2. CASE i = n + 1
    <3>1. PICK k \in 1..n : l[k].type = "tool.call" /\ l[k].ref = e.ref
      BY <1>1, <1>2, <2>2 DEF Says
    <3>2. (n + 1) - 1 = n
      BY <1>1
    <3> QED
      BY <1>1, <2>2, <3>1, <3>2
  <2> QED
    BY <1>1, <2>1, <2>2
<1> QED
    BY <1>2 DEF Preceded, a

\* The results of the log: what is stored answers a call that waits for it.
LEMMA ResultStored ==
    ASSUME TreeInv, WriteInv, ResultInv, Chain(log'), log' = log \/ Logs
    PROVE  /\ Chain(log) /\ OnceIn(log', "tool.result") /\ Preceded(log')
           /\ Logs => LET e == Head(appends).event
                      IN \A r : Unsettled(r) /\ ~(e.type = "tool.result" /\ e.ref = r) => Unsettled(r)'
<1>1. CASE log' = log
  <2>1. ~Logs
    <3>1. Logs => Len(log') = Len(log) + 1 /\ Len(log) \in Nat
      BY Appended DEF Logs, TreeInv, Tips
    <3> QED
      BY <1>1, <3>1
  <2> QED
    BY <1>1, <2>1 DEF ResultInv
<1>2. CASE Logs
  <2> DEFINE e == Head(appends).event
  <2>1. log' = Append(log, e) /\ appends # <<>> /\ IsSeq(log) /\ IsSeq(appends)
    BY <1>2 DEF Logs, TreeInv, Tips
  <2>2. /\ Chain(log)
        /\ \A type, r : Says(log', type, r) <=> Says(log, type, r) \/ (e.type = type /\ e.ref = r)
    BY <2>1, ChainStored
  <2>3. e.type = "tool.result" => Unsettled(e.ref)
    <3>1. CASE Head(appends).who = "turn" /\ turn.pc = "result" /\ e.ref = turn.call
      BY <2>2, <3>1 DEF ResultInv, Working
    <3>2. CASE Head(appends).who = "open" /\ e.type = "tool.result"
      <4>1. 1 \in 1..Len(appends) /\ Head(appends) = appends[1]
        BY <2>1, Tailed
      <4>2. Mends(appends, e.ref)
        BY <3>2, <4>1 DEF Mends
      <4> QED
        BY <2>2, <4>2 DEF ResultInv
    <3> QED
      BY <2>1, <3>1, <3>2, HeadCalls
  <2> HIDE DEF e
  <2>4. OnceIn(log', "tool.result")
    BY <2>1, <2>2, <2>3, OnceAppend DEF ResultInv, Unsettled
  <2>5. Preceded(log')
    BY <2>1, <2>2, <2>3, ResultAppend DEF ResultInv, Unsettled
  <2>6. \A r : Unsettled(r) /\ ~(e.type = "tool.result" /\ e.ref = r) => Unsettled(r)'
    BY <2>2 DEF Unsettled
  <2> QED
    BY <2>2, <2>4, <2>5, <2>6 DEF e
<1> QED
    BY <1>1, <1>2

\* Two sequences, one after the other.
LEMMA JoinSays ==
    ASSUME NEW q, NEW s, IsSeq(q), IsSeq(s), NEW type, \A r : ~Says(q, type, r), OnceIn(s, type)
    PROVE  /\ OnceIn(q \o s, type)
           /\ \A r : Says(q \o s, type, r) => Says(s, type, r)
<1> DEFINE a == q \o s
           n == Len(q)
<1>1. /\ n \in Nat /\ Len(s) \in Nat /\ Len(a) = n + Len(s)
      /\ \A i \in 1..Len(a) : a[i] = IF i <= n THEN q[i] ELSE s[i - n]
  <2>1. PICK S : q \in Seq(S)
    BY DEF IsSeq
  <2>2. PICK T : s \in Seq(T)
    BY DEF IsSeq
  <2>3. q \in Seq(S \cup T) /\ s \in Seq(S \cup T)
    BY <2>1, <2>2
  <2> QED
    BY <2>3
<1> HIDE DEF a
<1>2. ASSUME NEW i \in 1..Len(a), a[i].type = type
      PROVE  i - n \in 1..Len(s) /\ a[i] = s[i - n]
  <2>1. i > n
    <3>1. SUFFICES ASSUME i <= n  PROVE FALSE
      BY <1>1
    <3>2. i \in 1..n /\ a[i] = q[i]
      BY <1>1, <3>1
    <3> QED
      BY <1>2, <3>2 DEF Says
  <2> QED
    BY <1>1, <2>1
<1>3. OnceIn(a, type)
  <2> SUFFICES ASSUME NEW j \in 1..Len(a), NEW k \in 1..Len(a),
                      a[j].type = type, a[k].type = type, a[j].ref = a[k].ref
               PROVE  j = k
    BY DEF OnceIn
  <2>1. /\ j - n \in 1..Len(s) /\ a[j] = s[j - n]
        /\ k - n \in 1..Len(s) /\ a[k] = s[k - n]
    BY <1>2
  <2>2. j - n = k - n
    BY <2>1 DEF OnceIn
  <2> QED
    BY <1>1, <2>2
<1>4. \A r : Says(a, type, r) => Says(s, type, r)
  <2> TAKE r
  <2> HAVE Says(a, type, r)
  <2>1. PICK i \in 1..Len(a) : a[i].type = type /\ a[i].ref = r
    BY DEF Says
  <2>2. i - n \in 1..Len(s) /\ a[i] = s[i - n]
    BY <1>2, <2>1
  <2> QED
    BY <2>1, <2>2 DEF Says
<1> QED
    BY <1>3, <1>4 DEF a

\* A recovery answers each call once, and only calls that its log leaves open.
LEMMA RepairsFit ==
    ASSUME NEW l, IsSeq(l), Chain(l), OnceIn(l, "tool.call")
    PROVE  /\ OnceIn(Repairs(l), "tool.result")
           /\ \A r : Says(Repairs(l), "tool.result", r) =>
                 Says(l, "tool.call", r) /\ ~Says(l, "tool.result", r)
<1> DEFINE asked == Unanswered(l, Len(l), "interaction.requested", "interaction.resolved")
           called == Unanswered(l, Len(l), "tool.call", "tool.result")
           questions == Only(Ids(l), asked)
           calls == Only(Ids(l), called)
           unfinished == \E k \in Lineage(l, Len(l)) :
              /\ l[k].type = "compaction.started"
              /\ \A j \in Lineage(l, Len(l)) : j > k =>
                    l[j].type \notin {"context.compacted", "compaction.failed"}
           failure == IF unfinished THEN <<[type |-> "compaction.failed", ref |-> 0]>> ELSE <<>>
           cancels == [n \in 1..Len(questions) |->
                          [type |-> "interaction.resolved", ref |-> l[questions[n]].ref]]
           results == [n \in 1..Len(calls) |-> [type |-> "tool.result", ref |-> l[calls[n]].ref]]
<1>1. CASE l = <<>>
  <2>1. Repairs(l) = <<Root>>
    BY <1>1 DEF Repairs
  <2>2. Len(<<Root>>) = 1 /\ <<Root>>[1].type = "session.created"
    BY DEF Root
  <2>3. \A k \in 1..Len(<<Root>>) : <<Root>>[k].type # "tool.result"
    BY <2>2
  <2> QED
    BY <2>1, <2>3 DEF OnceIn, Says
<1>2. CASE l # <<>>
  <2>1. Lineage(l, Len(l)) = 1..Len(l) /\ Len(l) \in Nat
    BY ChainLineage, Empty
  <2>2. \A i \in called : /\ i \in 1..Len(l) /\ l[i].type = "tool.call"
                          /\ ~Says(l, "tool.result", l[i].ref)
    BY <2>1 DEF Unanswered, Says
  <2>3. /\ Ids(l) \in Seq(1..Len(l)) /\ Ids(l) \in Seq(Nat) /\ Len(Ids(l)) = Len(l)
        /\ \A i, j \in 1..Len(Ids(l)) : i < j => Ids(l)[i] < Ids(l)[j]
    BY <2>1 DEF Ids
  <2>4. questions \in Seq(1..Len(l)) /\ calls \in Seq(1..Len(l))
    <3>1. \A K : Only(Ids(l), K) \in Seq(1..Len(l))
      BY <2>3, OnlyOf
    <3> QED
      BY <3>1
  <2>5. \A j \in 1..Len(calls) : calls[j] \in called
    <3> HIDE DEF called
    <3>1. \A j \in 1..Len(Only(Ids(l), called)) : Only(Ids(l), called)[j] \in called
      BY <2>3, OnlyOf
    <3> QED
      BY <3>1
  <2>6. \A i, j \in 1..Len(calls) : i < j => calls[i] < calls[j]
    <3> HIDE DEF called
    <3>1. \A i, j \in 1..Len(Only(Ids(l), called)) : i < j => Only(Ids(l), called)[i] < Only(Ids(l), called)[j]
      BY <2>3, OnlyRises
    <3> QED
      BY <3>1
  <2>7. Repairs(l) = failure \o cancels \o results
    BY <1>2 DEF Repairs
  <2>8. IsSeq(failure) /\ \A r : ~Says(failure, "tool.result", r)
    <3>1. <<[type |-> "compaction.failed", ref |-> 0]>> \in Seq({[type |-> "compaction.failed", ref |-> 0]})
      OBVIOUS
    <3>2. <<>> \in Seq({})
      OBVIOUS
    <3>3. /\ Len(<<[type |-> "compaction.failed", ref |-> 0]>>) = 1 /\ Len(<<>>) = 0
          /\ <<[type |-> "compaction.failed", ref |-> 0]>>[1].type = "compaction.failed"
      OBVIOUS
    <3>4. failure = <<[type |-> "compaction.failed", ref |-> 0]>> \/ failure = <<>>
      OBVIOUS
    <3> HIDE DEF failure
    <3>5. CASE failure = <<>>
      BY <3>2, <3>3, <3>5 DEF IsSeq, Says
    <3>6. CASE failure = <<[type |-> "compaction.failed", ref |-> 0]>>
      <4>1. Len(failure) = 1 /\ failure[1].type = "compaction.failed"
        BY <3>3, <3>6
      <4>2. \A k \in 1..Len(failure) : failure[k].type # "tool.result"
        BY <4>1
      <4> QED
        BY <3>1, <3>6, <4>2 DEF IsSeq, Says
    <3> QED
      BY <3>4, <3>5, <3>6
  <2>9. Len(questions) \in Nat /\ Len(calls) \in Nat
    BY <2>4
  <2> HIDE DEF questions, calls, called
  <2>10. IsSeq(cancels) /\ (\A r : ~Says(cancels, "tool.result", r)) /\ OnceIn(cancels, "tool.result")
    <3>1. cancels \in Seq({cancels[n] : n \in 1..Len(questions)}) /\ Len(cancels) = Len(questions)
      BY <2>9
    <3>2. \A n \in 1..Len(cancels) : cancels[n].type = "interaction.resolved"
      BY <3>1
    <3> QED
      BY <3>1, <3>2 DEF IsSeq, Says, OnceIn
  <2>11. IsSeq(results) /\ OnceIn(results, "tool.result")
         /\ \A r : Says(results, "tool.result", r) => Says(l, "tool.call", r) /\ ~Says(l, "tool.result", r)
    <3>1. results \in Seq({results[n] : n \in 1..Len(calls)}) /\ Len(results) = Len(calls)
      BY <2>9
    <3>2. \A n \in 1..Len(calls) : results[n].ref = l[calls[n]].ref
      OBVIOUS
    <3> HIDE DEF results
    <3>3. ASSUME NEW j \in 1..Len(calls), NEW k \in 1..Len(calls), results[j].ref = results[k].ref
          PROVE  j = k
      <4>1. calls[j] = calls[k]
        BY <2>2, <2>5, <3>2, <3>3 DEF OnceIn
      <4>2. calls[j] \in Nat /\ calls[k] \in Nat
        BY <2>2, <2>5
      <4>3. ~(j < k) /\ ~(k < j)
        BY <2>6, <4>1, <4>2
      <4>4. j \in Nat /\ k \in Nat
        BY <2>9
      <4> QED
        BY <4>3, <4>4
    <3>4. ASSUME NEW r, Says(results, "tool.result", r)
          PROVE  Says(l, "tool.call", r) /\ ~Says(l, "tool.result", r)
      <4>1. PICK k \in 1..Len(calls) : results[k].ref = r
        BY <3>1, <3>4 DEF Says
      <4>2. calls[k] \in called /\ l[calls[k]].ref = r
        BY <2>5, <3>2, <4>1
      <4> QED
        BY <2>2, <4>2 DEF Says
    <3> QED
      BY <3>1, <3>3, <3>4 DEF IsSeq, OnceIn
  <2> HIDE DEF failure, cancels, results
  <2>12. \A r : ~Says(failure \o cancels, "tool.result", r)
    BY <2>8, <2>10, JoinSays
  <2>13. IsSeq(failure \o cancels)
    <3>1. PICK S : failure \in Seq(S)
      BY <2>8 DEF IsSeq
    <3>2. PICK T : cancels \in Seq(T)
      BY <2>10 DEF IsSeq
    <3>3. failure \o cancels \in Seq(S \cup T)
      BY <3>1, <3>2
    <3> QED
      BY <3>3 DEF IsSeq
  <2>14. /\ OnceIn((failure \o cancels) \o results, "tool.result")
         /\ \A r : Says((failure \o cancels) \o results, "tool.result", r) => Says(results, "tool.result", r)
    BY <2>11, <2>12, <2>13, JoinSays
  <2> QED
    BY <2>7, <2>11, <2>14
<1> QED
    BY <1>1, <1>2

\* The log is as before or got the oldest append.
LEMMA LogSteps ==
    ASSUME TreeInv, AskType, WriteInv, [Next]_vars
    PROVE  log' = log \/ Logs
<1>1. CASE TurnStored
    BY <1>1 DEF TurnStored, Waits, Stored, Logs
<1> QED
    BY <1>1, StepKinds DEF Stays, Moves, Works, Leaves, LogsOther

\* The call that the turn works on has no result yet.
LEMMA WorkStays ==
    ASSUME TreeInv, AskType, WriteInv, CallInv, ResultInv, [Next]_vars, Chain(log')
    PROVE  (Working(turn) => Unsettled(turn.call))'
<1>1. log' = log \/ Logs
    BY LogSteps
<1>2. /\ Chain(log)
      /\ Working(turn) => Unsettled(turn.call)
      /\ Logs => \A r : /\ Unsettled(r)
                        /\ ~(Head(appends).event.type = "tool.result" /\ Head(appends).event.ref = r)
                        => Unsettled(r)'
    BY <1>1, ResultStored DEF ResultInv
<1>3. ASSUME log' = log \/ LogsOther, Working(turn)
      PROVE  Unsettled(turn.call) /\ \A r : r = turn.call => Unsettled(r)'
  <2>1. CASE log' = log
    BY <1>2, <1>3, <2>1 DEF Unsettled
  <2>2. CASE LogsOther
    <3>1. turn.pc # "none"
      BY <1>3 DEF Working
    <3>2. mode = "open" /\ Logs /\ Head(appends).who # "turn" /\ appends # <<>>
      BY <2>2, <3>1, Running DEF LogsOther, Logs
    <3>3. Head(appends).event.type # "tool.result"
      BY <3>2, HeadCalls
    <3> QED
      BY <1>2, <1>3, <3>2, <3>3
  <2> QED
    BY <1>3, <2>1, <2>2
<1>4. CASE Stays
  <2>1. (log' = log \/ LogsOther) /\ turn'.call = turn.call /\ (Working(turn') => Working(turn))
    BY <1>4 DEF Stays, Working
  <2> QED
    BY <1>3, <2>1
<1>5. CASE Works
  <2>1. (log' = log \/ LogsOther) /\ turn'.call = turn.call /\ Working(turn)
    BY <1>5 DEF Works
  <2> QED
    BY <1>3, <2>1
<1>6. CASE Leaves
    BY <1>6 DEF Leaves, Working
<1>7. CASE Moves
  <2>1. CASE Returning
    <3>1. log' = log /\ turn'.call = turn.call /\ Working(turn)
      BY <1>7, <2>1 DEF Moves, Returning, Working
    <3> QED
      BY <1>3, <3>1
  <2>2. CASE Answering \/ Calling \/ Replies \/ Elsewhere
    BY <2>2 DEF Answering, Calling, Replies, Elsewhere, Working, CallPlaces
  <2> QED
    BY <1>7, <2>1, <2>2 DEF Moves
<1>8. CASE TurnStored
  <2>1. Logs /\ turn' = After(turn) /\ Waits("turn")
    BY <1>8 DEF TurnStored, Stored, Logs, Waits
  <2>2. Written(turn.pc) # "none" /\ TurnAt(turn)
    BY <2>1, TurnAlone DEF WriteInv
  <2>3. CASE turn.pc = "call"
    <3>1. turn'.pc = "tool" /\ turn'.call = turn.call
      BY <2>1, <2>2, <2>3, AfterCalls
    <3>2. /\ appends # <<>> /\ log' = Append(log, Head(appends).event)
          /\ Head(appends).event.type = "tool.call" /\ Head(appends).event.ref = turn.call
      BY <2>1, <2>3, Present, WrittenIs DEF Logs, Fits
    <3>3. \A type, r : Says(log', type, r) <=>
             Says(log, type, r) \/ ("tool.call" = type /\ turn.call = r)
      BY <3>2, ChainStored
    <3>4. ~Says(log, "tool.call", turn.call)
      BY <2>2, <2>3 DEF CallInv, TurnAt
    <3>5. ~Says(log, "tool.result", turn.call)
      <4> SUFFICES ASSUME Says(log, "tool.result", turn.call)  PROVE FALSE
        OBVIOUS
      <4>1. PICK i \in 1..Len(log) : log[i].type = "tool.result" /\ log[i].ref = turn.call
        BY DEF Says
      <4>2. PICK k \in 1..(i - 1) : log[k].type = "tool.call" /\ log[k].ref = turn.call
        BY <1>2, <4>1 DEF ResultInv, Preceded
      <4>3. k \in 1..Len(log)
        BY <4>1, <4>2, Empty DEF TreeInv, Tips
      <4> QED
        BY <3>4, <4>2, <4>3 DEF Says
    <3>6. Says(log', "tool.call", turn.call) /\ ~Says(log', "tool.result", turn.call)
      BY <3>3, <3>5
    <3> QED
      BY <3>1, <3>6 DEF Unsettled
  <2>4. CASE turn.pc # "call"
    <3>1. turn.pc \in {"call", "result", "assistant"} \/ turn.pc \notin CallPlaces
      BY <2>2, WrittenIs DEF CallPlaces
    <3>2. ~Working(turn')
      BY <2>1, <2>2, <2>4, <3>1, AfterCalls DEF Working, CallPlaces
    <3> QED
      BY <3>2
  <2> QED
    BY <2>3, <2>4
<1> QED
    BY <1>4, <1>5, <1>6, <1>7, <1>8, StepKinds

\* Only a recovery has repairs, and results of its own on their way.
LEMMA MendsRecover ==
    ASSUME WriteInv, NEW r, Says(repairs, "tool.result", r) \/ Mends(appends, r)
    PROVE  mode = "recovering" /\ turn.pc = "none"
<1>1. mode = "recovering"
  <2>1. CASE Says(repairs, "tool.result", r)
    BY <2>1 DEF WriteInv, Modes, Says
  <2>2. CASE Mends(appends, r)
    BY <2>2, Absent DEF WriteInv, Mends
  <2> QED
    BY <2>1, <2>2
<1> QED
    BY <1>1, NoTurnTyped DEF WriteInv, Modes

\* Whoever appends beside a recovery adds no results to it.
LEMMA OthersMend ==
    ASSUME TreeInv, AskType, WriteInv, [Next]_vars, ~Open, ~Recover, ~RecoverySettles, ~Crash
    PROVE  /\ repairs' = repairs /\ \A r : Mends(appends', r) => Mends(appends, r)
           /\ log' = log \/ (appends # <<>> /\ Head(appends).who # "open")
<1>1. IsSeq(appends)
    BY DEF TreeInv, Tips
<1>2. ASSUME NEW type, NEW ref, NEW who, Enqueue(type, ref, who), who # "open"
      PROVE  \A r : Mends(appends', r) => Mends(appends, r)
  <2> DEFINE e == [event |-> Event(type, ref), who |-> who]
  <2>1. appends' = Append(appends, e) /\ e.who # "open"
    BY <1>2 DEF Enqueue
  <2> HIDE DEF e
  <2> QED
    BY <1>1, <2>1, MendsBack
<1>3. CASE TurnStep \/ RunTurn
  <2>1. TurnKeeps /\ (UNCHANGED appends \/ \E ref : TurnWrites(ref))
    BY <1>3, TurnMoves DEF WriteInv
  <2>2. repairs' = repairs /\ log' = log
    BY <2>1 DEF TurnKeeps
  <2>3. ASSUME NEW ref, TurnWrites(ref)
        PROVE  \A r : Mends(appends', r) => Mends(appends, r)
    BY <1>2, <2>3 DEF TurnWrites, Enqueue
  <2>4. CASE appends' = appends
    BY <2>2, <2>4
  <2> QED
    BY <2>1, <2>2, <2>3, <2>4
<1>4. CASE Steer \/ AskTimesOut \/ Interrupt \/ UNCHANGED vars
  <2>1. repairs' = repairs /\ log' = log /\ appends' = appends
    BY <1>4 DEF Steer, AskTimesOut, Interrupt, NoAppend, opening, vars
  <2> QED
    BY <2>1
<1>5. CASE OtherAppends \/ ToolAsks \/ \E c \in Clients : Respond(c)
  <2>1. repairs' = repairs /\ log' = log
    BY <1>5 DEF OtherAppends, ToolAsks, Respond, Calls, opening
  <2>2. \E type, ref, who : Enqueue(type, ref, who) /\ who # "open"
    BY <1>5, TurnAssumptions DEF OtherAppends, ToolAsks, Respond
  <2> QED
    BY <1>2, <2>1, <2>2
<1>6. CASE Restore
  <2> DEFINE e == [event |-> Event("queue.restored", 0), who |-> "restore",
                   items |-> steering \o followUp]
  <2>1. repairs' = repairs /\ log' = log /\ appends' = Append(appends, e) /\ e.who # "open"
    BY <1>6 DEF Restore, Calls, opening
  <2> HIDE DEF e
  <2> QED
    BY <1>1, <2>1, MendsBack
<1>7. CASE TurnStored \/ OtherSettles \/ RestoreSettles \/ AskSettles \/ \E c \in Clients : ResponseSettles(c)
  <2>1. appends # <<>> /\ Head(appends).who # "open"
    BY <1>7, TurnAssumptions DEF TurnStored, OtherSettles, RestoreSettles, AskSettles, ResponseSettles, Waits
  <2>2. repairs' = repairs /\ appends' = Tail(appends)
    BY <1>7 DEF TurnStored, OtherSettles, RestoreSettles, AskSettles, ResponseSettles, opening, Stored, Failed
  <2> QED
    BY <1>1, <2>1, <2>2, MendsBack
<1>8. CASE TurnFails
  <2>1. repairs' = repairs /\ log' = log /\ appends # <<>>
    BY <1>8 DEF TurnFails, opening, Waits
  <2>2. \/ appends' = Tail(appends)
        \/ \E e : appends' = Append(Tail(appends), e) /\ e.who # "open"
    BY <1>8 DEF TurnFails
  <2>3. IsSeq(Tail(appends))
    BY <1>1, <2>1, Tailed
  <2>4. \A r : Mends(Tail(appends), r) => Mends(appends, r)
    BY <1>1, <2>1, MendsBack
  <2>5. \A e, r : e.who # "open" /\ Mends(Append(Tail(appends), e), r) => Mends(Tail(appends), r)
    BY <2>3, MendsBack
  <2> QED
    BY <2>1, <2>2, <2>4, <2>5
<1> QED
    BY <1>3, <1>4, <1>5, <1>7, <1>8, <1>6 DEF Next, Settles

\* What is left to repair, and what is on its way of it, is one result for each open call.
LEMMA MendsFit ==
    ASSUME TreeInv, AskType, WriteInv, CallInv, ResultInv, [Next]_vars, Chain(log')
    PROVE  /\ OnceIn(repairs', "tool.result")
           /\ (\A r : Says(repairs, "tool.result", r) => Unsettled(r) /\ ~Mends(appends, r))'
           /\ (\A r : Mends(appends, r) => Unsettled(r))'
<1> DEFINE e == Head(appends).event
<1>0. IsSeq(log) /\ IsSeq(appends) /\ IsSeq(repairs)
    BY DEF TreeInv, Tips, WriteInv, Typed
<1>1. log' = log \/ Logs
    BY LogSteps
<1>2. /\ Chain(log)
      /\ Logs => \A r : Unsettled(r) /\ ~(e.type = "tool.result" /\ e.ref = r) => Unsettled(r)'
      /\ log' = log => \A r : Unsettled(r) => Unsettled(r)'
    BY <1>1, ResultStored DEF Unsettled
<1>3. /\ OnceIn(repairs, "tool.result")
      /\ \A r : Says(repairs, "tool.result", r) => Unsettled(r) /\ ~Mends(appends, r)
      /\ \A r : Mends(appends, r) => Unsettled(r)
    BY <1>2 DEF ResultInv
<1> HIDE DEF e
<1>4. OnceIn(<<>>, "tool.result") /\ \A r : ~Says(<<>>, "tool.result", r) /\ ~Mends(<<>>, r)
    BY DEF OnceIn, Says, Mends
<1>5. CASE Open
  <2>1. /\ log' = log /\ appends' = <<>>
        /\ repairs' = Repairs(log) \/ repairs' = repairs
    BY <1>5 DEF Open
  <2>2. /\ OnceIn(Repairs(log), "tool.result")
        /\ \A r : Says(Repairs(log), "tool.result", r) => Unsettled(r)
    BY <1>0, <1>2, RepairsFit DEF CallInv, Unsettled
  <2>3. CASE repairs' = Repairs(log)
    BY <1>2, <1>4, <2>1, <2>2, <2>3
  <2>4. CASE repairs' = repairs
    BY <1>2, <1>3, <1>4, <2>1, <2>4
  <2> QED
    BY <2>1, <2>3, <2>4
<1>6. CASE Recover
  <2>1. (\A r : ~Mends(appends, r)) /\ log' = log
    BY <1>6 DEF Recover, Mends, Calls
  <2>2. CASE repairs # <<>> /\ Enqueue(Head(repairs).type, Head(repairs).ref, "open")
             /\ repairs' = Tail(repairs)
    <3> DEFINE f == [event |-> Event(Head(repairs).type, Head(repairs).ref), who |-> "open"]
    <3>1. /\ appends' = Append(appends, f)
          /\ f.event.type = Head(repairs).type /\ f.event.ref = Head(repairs).ref
      BY <2>2 DEF Enqueue, Event
    <3> HIDE DEF f
    <3>2. /\ OnceIn(repairs', "tool.result")
          /\ \A r : Says(repairs', "tool.result", r) => Says(repairs, "tool.result", r)
          /\ f.event.type = "tool.result" => /\ Says(repairs, "tool.result", f.event.ref)
                                             /\ ~Says(repairs', "tool.result", f.event.ref)
      BY <1>0, <1>3, <2>2, <3>1, OnceTail
    <3>3. \A r : Mends(appends', r) => f.event.type = "tool.result" /\ f.event.ref = r
      BY <1>0, <2>1, <3>1, MendsBack
    <3>4. \A r : Mends(appends', r) => Says(repairs, "tool.result", r) /\ ~Says(repairs', "tool.result", r)
      BY <3>2, <3>3
    <3> QED
      BY <1>2, <1>3, <2>1, <3>2, <3>4
  <2>3. CASE repairs' = repairs /\ appends' = appends
    BY <1>2, <1>3, <2>1, <2>3
  <2> QED
    BY <1>6, <2>2, <2>3 DEF Recover
<1>7. CASE RecoverySettles
  <2>1. appends # <<>> /\ Head(appends).who = "open" /\ appends' = Tail(appends)
    BY <1>7 DEF RecoverySettles, Waits, Stored, Failed
  <2>2. \A r : ~Mends(appends', r)
    <3>1. \A k \in 1..Len(Tail(appends)) : Tail(appends)[k].who # "open"
      BY <1>0, <2>1, EntryGone DEF WriteInv, Patient
    <3> QED
      BY <2>1, <3>1 DEF Mends
  <2>3. CASE repairs' = <<>>
    BY <1>4, <2>2, <2>3
  <2>4. CASE Stored /\ repairs' = repairs
    <3>1. Logs
      BY <2>1, <2>4 DEF Stored, Logs
    <3>2. e.type = "tool.result" => Mends(appends, e.ref)
      <4>1. 1 \in 1..Len(appends) /\ Head(appends) = appends[1]
        BY <1>0, <2>1, Tailed
      <4> QED
        BY <2>1, <4>1 DEF Mends, e
    <3>3. \A r : Says(repairs, "tool.result", r) => Unsettled(r)'
      BY <1>2, <1>3, <3>1, <3>2
    <3> QED
      BY <1>3, <2>2, <2>4, <3>3
  <2> QED
    BY <1>7, <2>3, <2>4 DEF RecoverySettles, opening
<1>8. CASE Crash
  <2>1. repairs' = <<>> /\ appends' = <<>>
    BY <1>8 DEF Crash
  <2> QED
    BY <1>4, <2>1
<1>9. CASE ~Open /\ ~Recover /\ ~RecoverySettles /\ ~Crash
  <2>1. /\ repairs' = repairs /\ \A r : Mends(appends', r) => Mends(appends, r)
        /\ log' = log \/ (appends # <<>> /\ Head(appends).who # "open")
    BY <1>9, OthersMend
  <2>2. ASSUME NEW r, Says(repairs, "tool.result", r) \/ Mends(appends, r)
        PROVE  Unsettled(r)'
    <3>1. Unsettled(r) /\ mode = "recovering" /\ turn.pc = "none"
      BY <1>3, <2>2, MendsRecover
    <3>2. CASE log' = log
      BY <1>2, <3>1, <3>2
    <3>3. CASE Logs /\ appends # <<>> /\ Head(appends).who # "open"
      <4>1. e.type # "tool.result"
        BY <3>1, <3>3, HeadCalls DEF e
      <4> QED
        BY <1>2, <3>1, <3>3, <4>1
    <3> QED
      BY <1>1, <2>1, <3>2, <3>3
  <2> QED
    BY <1>3, <2>1, <2>2
<1> QED
    BY <1>5, <1>6, <1>7, <1>8, <1>9

\* No step answers a call twice or before it is made.
LEMMA NextKeepsResults ==
    ASSUME TreeInv, AskType, WriteInv, CallInv, ResultInv, [Next]_vars
    PROVE  ResultInv'
<1> SUFFICES ASSUME Chain(log')  PROVE ResultInv'
    BY DEF ResultInv
<1>1. OnceIn(log', "tool.result") /\ Preceded(log')
    BY LogSteps, ResultStored
<1>2. (Working(turn) => Unsettled(turn.call))'
    BY WorkStays
<1>3. /\ OnceIn(repairs', "tool.result")
      /\ (\A r : Says(repairs, "tool.result", r) => Unsettled(r) /\ ~Mends(appends, r))'
      /\ (\A r : Mends(appends, r) => Unsettled(r))'
    BY MendsFit
<1> QED
    BY <1>1, <1>2, <1>3 DEF ResultInv

\* A log in which each id is used once and answered once passes the integrity check.
LEMMA VerifiedIs ==
    ASSUME TreeInv, CallInv, ResultInv, Chain(log)
    PROVE  Verified(log)
<1>0. Len(log) \in Nat /\ IsSeq(log)
    BY Empty DEF TreeInv, Tips
<1>1. OnceIn(log, "tool.call") /\ OnceIn(log, "tool.result") /\ Preceded(log)
    BY DEF CallInv, ResultInv
<1>2. ASSUME NEW i \in 1..Len(log)
      PROVE  LET before == Lineage(log, i) \ {i}
                 Alike(type) == {k \in before : log[k].type = type /\ log[k].ref = log[i].ref}
             IN /\ log[i].type = "tool.call" => Alike("tool.call") = {}
                /\ log[i].type = "tool.result" => Alike("tool.call") # {} /\ Alike("tool.result") = {}
  <2>1. i \in 0..Len(log)
    BY <1>0
  <2>2. Lineage(log, i) = 1..i
    BY <1>0, <2>1, ChainLineage
  <2>3. \A k \in (1..i) \ {i} : k \in 1..Len(log) /\ k # i
    BY <1>0
  <2>4. \A k \in 1..(i - 1) : k \in (1..i) \ {i}
    BY <1>0
  <2> QED
    BY <1>1, <2>2, <2>3, <2>4 DEF OnceIn, Preceded
<1> QED
    BY <1>2 DEF Verified

-----------------------------------------------------------------------------
(* Every call follows the answer of the model that asked for it.           *)

\* No other message comes between event n and the answer before it.
Follows(l, n) == \E a \in 1..n :
    /\ l[a].type = "assistant.message"
    /\ \A e \in (a + 1)..n : l[e].type \notin {"user.message", "context.compacted"}

CallsFollow ==
    /\ \A k \in 1..Len(log) : log[k].type = "tool.call" => Follows(log, k - 1)
    /\ turn.pc \in CallPlaces \ {"assistant"} => Follows(log, Len(log))

\* One more event.
LEMMA FollowsAppend ==
    ASSUME NEW l, IsSeq(l), NEW e
    PROVE  /\ \A n \in 0..Len(l) : Follows(l, n) => Follows(Append(l, e), n)
           /\ Follows(l, Len(l)) /\ e.type \notin {"user.message", "context.compacted"}
                 => Follows(Append(l, e), Len(l) + 1)
           /\ e.type = "assistant.message" => Follows(Append(l, e), Len(l) + 1)
<1> DEFINE a == Append(l, e)
           m == Len(l)
<1>1. /\ m \in Nat /\ Len(a) = m + 1 /\ a[m + 1] = e
      /\ \A i \in 1..m : a[i] = l[i]
    BY Appended
<1> HIDE DEF a, m
<1>2. ASSUME NEW n \in 0..m, Follows(l, n)
      PROVE  Follows(a, n)
  <2>1. PICK b \in 1..n : /\ l[b].type = "assistant.message"
                          /\ \A i \in (b + 1)..n : l[i].type \notin {"user.message", "context.compacted"}
    BY <1>2 DEF Follows
  <2>2. b \in 1..m /\ \A i \in (b + 1)..n : i \in 1..m
    BY <1>1, <2>1
  <2> QED
    BY <1>1, <2>1, <2>2 DEF Follows
<1>3. ASSUME Follows(l, m), e.type \notin {"user.message", "context.compacted"}
      PROVE  Follows(a, m + 1)
  <2>1. PICK b \in 1..m : /\ l[b].type = "assistant.message"
                          /\ \A i \in (b + 1)..m : l[i].type \notin {"user.message", "context.compacted"}
    BY <1>3 DEF Follows
  <2>2. \A i \in (b + 1)..(m + 1) : i = m + 1 \/ (i \in (b + 1)..m /\ i \in 1..m)
    BY <1>1, <2>1
  <2>3. b \in 1..(m + 1) /\ a[b] = l[b]
    BY <1>1, <2>1
  <2>4. \A i \in (b + 1)..(m + 1) : a[i].type \notin {"user.message", "context.compacted"}
    BY <1>1, <1>3, <2>1, <2>2
  <2> QED
    BY <2>1, <2>3, <2>4 DEF Follows
<1>4. ASSUME e.type = "assistant.message"
      PROVE  Follows(a, m + 1)
  <2>1. m + 1 \in 1..(m + 1) /\ ((m + 1) + 1)..(m + 1) = {}
    BY <1>1
  <2> QED
    BY <1>1, <1>4, <2>1 DEF Follows
<1> QED
    BY <1>2, <1>3, <1>4 DEF a, m

\* Users and compactions are written by the turn.
LEMMA HeadEnds ==
    ASSUME TreeInv, WriteInv, LogsOther
    PROVE  Head(appends).event.type \notin {"user.message", "assistant.message", "context.compacted", "tool.call"}
<1>1. EntryAt(Head(appends), turn, mode) /\ Head(appends).who # "turn"
    BY Present DEF LogsOther, Logs
<1> QED
    BY <1>1, TurnAssumptions DEF EntryAt, RepairTypes

\* No step puts a message between an answer and its calls.
LEMMA NextKeepsFollows ==
    ASSUME TreeInv, AskType, WriteInv, CallsFollow, [Next]_vars
    PROVE  CallsFollow'
<1> DEFINE e == Head(appends).event
<1>0. IsSeq(log) /\ Len(log) \in Nat
    BY Empty DEF TreeInv, Tips
<1>1. \A k \in 1..Len(log') : log'[k].type = "tool.call" => Follows(log', k - 1)
  <2>1. CASE log' = log
    BY <2>1 DEF CallsFollow
  <2>2. CASE Logs
    <3>1. /\ log' = Append(log, e) /\ Len(log') = Len(log) + 1 /\ log'[Len(log) + 1] = e
          /\ \A i \in 1..Len(log) : log'[i] = log[i]
      BY <1>0, <2>2, Appended DEF Logs
    <3>2. e.type = "tool.call" => turn.pc = "call"
      BY <2>2, HeadCalls DEF Logs
    <3> HIDE DEF e
    <3>3. \A n \in 0..Len(log) : Follows(log, n) => Follows(log', n)
      BY <1>0, <3>1, FollowsAppend
    <3>4. ASSUME NEW k \in 1..Len(log'), log'[k].type = "tool.call"
          PROVE  Follows(log', k - 1)
      <4>1. k \in 1..Len(log) \/ k = Len(log) + 1
        BY <1>0, <3>1
      <4>2. CASE k \in 1..Len(log)
        <5>1. k - 1 \in 0..Len(log) /\ Follows(log, k - 1)
          BY <1>0, <3>1, <3>4, <4>2 DEF CallsFollow
        <5> QED
          BY <3>3, <5>1
      <4>3. CASE k = Len(log) + 1
        <5>1. Follows(log, Len(log)) /\ k - 1 = Len(log) /\ Len(log) \in 0..Len(log)
          BY <1>0, <3>1, <3>2, <3>4, <4>3 DEF CallsFollow, CallPlaces
        <5> QED
          BY <3>3, <5>1
      <4> QED
        BY <4>1, <4>2, <4>3
    <3> QED
      BY <3>4
  <2> QED
    BY <2>1, <2>2, LogSteps
<1>2. ASSUME log' = log \/ LogsOther, turn.pc \in CallPlaces \ {"assistant"}
      PROVE  Follows(log', Len(log'))
  <2>1. Follows(log, Len(log))
    BY <1>2 DEF CallsFollow
  <2>2. CASE LogsOther
    <3>1. /\ log' = Append(log, e) /\ Len(log') = Len(log) + 1
          /\ e.type \notin {"user.message", "context.compacted"}
      BY <1>0, <2>2, Appended, HeadEnds DEF LogsOther, Logs
    <3> HIDE DEF e
    <3> QED
      BY <1>0, <2>1, <3>1, FollowsAppend
  <2> QED
    BY <1>2, <2>1, <2>2
<1>3. CASE Stays
    BY <1>1, <1>2, <1>3 DEF Stays, CallsFollow
<1>4. CASE Works
  <2>1. (log' = log \/ LogsOther) /\ turn.pc \in CallPlaces \ {"assistant"}
    BY <1>4 DEF Works, Working, CallPlaces
  <2> QED
    BY <1>1, <1>2, <2>1 DEF CallsFollow
<1>5. CASE Leaves
    BY <1>1, <1>5 DEF Leaves, CallsFollow, CallPlaces
<1>6. CASE Moves
  <2>1. CASE Calling \/ Returning
    <3>1. log' = log /\ turn.pc \in CallPlaces \ {"assistant"}
      BY <1>6, <2>1 DEF Moves, Calling, Returning, CallPlaces
    <3> QED
      BY <1>1, <1>2, <3>1 DEF CallsFollow
  <2>2. CASE Answering \/ Replies \/ Elsewhere
    BY <1>1, <2>2 DEF CallsFollow, Answering, Replies, Elsewhere
  <2> QED
    BY <1>6, <2>1, <2>2 DEF Moves
<1>7. CASE TurnStored
  <2>1. Logs /\ turn' = After(turn) /\ Waits("turn")
    BY <1>7 DEF TurnStored, Stored, Logs, Waits
  <2>2. Written(turn.pc) # "none" /\ TurnAt(turn) /\ e.type = Written(turn.pc)
    BY <2>1, TurnAlone, Present DEF WriteInv, Fits, Logs
  <2>3. log' = Append(log, e) /\ Len(log') = Len(log) + 1
    BY <1>0, <2>1, Appended DEF Logs
  <2> HIDE DEF e
  <2>4. CASE turn.pc \in {"call", "result", "assistant"}
    <3>1. CASE turn.pc = "assistant"
      BY <1>0, <1>1, <2>2, <2>3, <3>1, FollowsAppend, WrittenIs DEF CallsFollow
    <3>2. CASE turn.pc \in {"call", "result"}
      <4>1. e.type \notin {"user.message", "context.compacted"} /\ Follows(log, Len(log))
        BY <2>2, <3>2, WrittenIs DEF CallsFollow, CallPlaces
      <4> QED
        BY <1>0, <1>1, <2>3, <4>1, FollowsAppend DEF CallsFollow
    <3> QED
      BY <2>4, <3>1, <3>2
  <2>5. CASE turn.pc \notin CallPlaces
    <3>1. turn'.pc \notin CallPlaces
      BY <2>1, <2>2, <2>5, AfterCalls
    <3> QED
      BY <1>1, <3>1 DEF CallsFollow
  <2> QED
    BY <2>2, <2>4, <2>5, WrittenIs DEF CallPlaces
<1> QED
    BY <1>3, <1>4, <1>5, <1>6, <1>7, StepKinds

-----------------------------------------------------------------------------
(* A compaction replaces a prefix of what is visible.                      *)

\* Nothing visible before a replaced event stays.
Prefixed(l, R) ==
    /\ R \subseteq 1..Len(l)
    /\ \A k \in (1..Len(l)) \ R, h \in R :
          l[k].type \in Visible /\ l[h].type \in Visible => h < k

\* The last compaction is one.
Latest(l) ==
    LET last == Compaction(l, 1..Len(l))
    IN last = 0 \/ (last \in 1..Len(l) /\ l[last].type = "context.compacted")

Planned == {"compacting", "summary", "compacted"}

PlanInv ==
    /\ Latest(log)
    /\ Chain(log) => /\ Prefixed(log, Hidden(log, 1..Len(log)))
                     /\ turn.pc \in Planned => Prefixed(log, turn.plan.replaced)

\* The last compaction after one more event.
LEMMA LatestAppend ==
    ASSUME NEW l, IsSeq(l), NEW e, Latest(l)
    PROVE  LET a == Append(l, e)
           IN /\ Latest(a)
              /\ e.type # "context.compacted" =>
                    /\ Compaction(a, 1..Len(a)) = Compaction(l, 1..Len(l))
                    /\ Hidden(a, 1..Len(a)) = Hidden(l, 1..Len(l))
              /\ e.type = "context.compacted" =>
                    /\ Compaction(a, 1..Len(a)) = Len(l) + 1
                    /\ Hidden(a, 1..Len(a)) = e.ref
<1> DEFINE a == Append(l, e)
           n == Len(l)
           all(q) == {k \in 1..Len(q) : q[k].type = "context.compacted"}
<1>1. /\ n \in Nat /\ Len(a) = n + 1 /\ a[n + 1] = e
      /\ \A i \in 1..n : a[i] = l[i]
    BY Appended
<1> HIDE DEF a, n
<1>2. \A q : Compaction(q, 1..Len(q)) =
                IF all(q) = {} THEN 0 ELSE CHOOSE k \in all(q) : \A j \in all(q) : j <= k
    BY DEF Compaction
<1>3. n = Len(l)
    BY DEF n
<1>4. CASE e.type # "context.compacted"
  <2>1. all(a) = all(l)
    BY <1>1, <1>3, <1>4
  <2> HIDE DEF all
  <2>2. Compaction(a, 1..Len(a)) = Compaction(l, 1..Len(l))
    BY <1>2, <2>1
  <2>3. \A i \in 1..n : i \in 1..Len(a)
    BY <1>1
  <2>4. Latest(a) /\ Hidden(a, 1..Len(a)) = Hidden(l, 1..Len(l))
    BY <1>1, <1>3, <2>2, <2>3 DEF Latest, Hidden
  <2> QED
    BY <1>4, <2>2, <2>4 DEF a
<1>5. CASE e.type = "context.compacted"
  <2>1. n + 1 \in all(a) /\ \A j \in all(a) : j <= n + 1 /\ j \in Nat
    BY <1>1, <1>5
  <2> HIDE DEF all
  <2>2. \A k \in all(a) : (\A j \in all(a) : j <= k) => k = n + 1
    BY <1>1, <2>1
  <2>3. (CHOOSE k \in all(a) : \A j \in all(a) : j <= k) = n + 1
    BY <2>1, <2>2
  <2>4. Compaction(a, 1..Len(a)) = n + 1
    BY <1>2, <2>1, <2>3
  <2>5. n + 1 \in 1..Len(a) /\ n + 1 # 0
    BY <1>1
  <2>6. Latest(a) /\ Hidden(a, 1..Len(a)) = e.ref
    BY <1>1, <1>5, <2>4, <2>5 DEF Latest, Hidden
  <2> QED
    BY <1>3, <1>5, <2>4, <2>6 DEF a
<1> QED
    BY <1>4, <1>5

\* A prefix is one of the longer log.
LEMMA PrefixedAppend ==
    ASSUME NEW l, IsSeq(l), NEW e, NEW R, Prefixed(l, R)
    PROVE  Prefixed(Append(l, e), R)
<1> DEFINE a == Append(l, e)
           n == Len(l)
<1>1. /\ n \in Nat /\ Len(a) = n + 1
      /\ \A i \in 1..n : a[i] = l[i]
    BY Appended
<1> HIDE DEF a
<1>2. \A k \in 1..Len(a) : k \in 1..n \/ k = n + 1
    BY <1>1
<1>3. \A h \in R : h \in 1..n /\ h < n + 1 /\ h \in 1..Len(a)
    BY <1>1 DEF Prefixed
<1>4. ASSUME NEW k \in (1..Len(a)) \ R, NEW h \in R, a[k].type \in Visible, a[h].type \in Visible
      PROVE  h < k
  <2>1. CASE k \in 1..n
    BY <1>1, <1>3, <1>4, <2>1 DEF Prefixed
  <2> QED
    BY <1>2, <1>3, <2>1
<1> QED
    BY <1>3, <1>4 DEF Prefixed, a

\* The visible events that R leaves.
Show(l, R) == Only(Ids(l), {k \in (1..Len(l)) \ R : l[k].type \in Visible})

\* They are shown in their order, all of them.
LEMMA ShowIs ==
    ASSUME NEW l, IsSeq(l), NEW R
    PROVE  /\ Ids(l) \in Seq(1..Len(l)) /\ Show(l, R) \in Seq(1..Len(l))
           /\ \A j \in 1..Len(Show(l, R)) :
                 Show(l, R)[j] \in (1..Len(l)) \ R /\ l[Show(l, R)[j]].type \in Visible
           /\ \A i, j \in 1..Len(Show(l, R)) : i < j => Show(l, R)[i] < Show(l, R)[j]
           /\ \A k \in (1..Len(l)) \ R : l[k].type \in Visible =>
                 \E j \in 1..Len(Show(l, R)) : Show(l, R)[j] = k
<1> DEFINE K == {k \in (1..Len(l)) \ R : l[k].type \in Visible}
<1>1. /\ Ids(l) \in Seq(1..Len(l)) /\ Ids(l) \in Seq(Nat) /\ Len(Ids(l)) = Len(l)
      /\ \A i \in 1..Len(l) : Ids(l)[i] = i
      /\ \A i, j \in 1..Len(Ids(l)) : i < j => Ids(l)[i] < Ids(l)[j]
    BY Empty DEF Ids
<1>2. Show(l, R) = Only(Ids(l), K)
    BY DEF Show
<1>3. \A k \in K : k \in (1..Len(l)) \ R /\ l[k].type \in Visible
    OBVIOUS
<1>4. \A k \in (1..Len(l)) \ R : l[k].type \in Visible => k \in K
    OBVIOUS
<1> HIDE DEF K
<1>5. Show(l, R) \in Seq(1..Len(l)) /\ \A j \in 1..Len(Show(l, R)) : Show(l, R)[j] \in K
  <2>1. /\ Only(Ids(l), K) \in Seq(1..Len(l))
        /\ \A j \in 1..Len(Only(Ids(l), K)) : Only(Ids(l), K)[j] \in K
    BY <1>1, OnlyOf
  <2> QED
    BY <1>2, <2>1
<1>6. \A i, j \in 1..Len(Show(l, R)) : i < j => Show(l, R)[i] < Show(l, R)[j]
    BY <1>1, <1>2, OnlyRises
<1>7. \A i \in 1..Len(Ids(l)) : Ids(l)[i] \in K => \E j \in 1..Len(Show(l, R)) : Show(l, R)[j] = Ids(l)[i]
    BY <1>1, <1>2, OnlyHas
<1> QED
    BY <1>1, <1>3, <1>4, <1>5, <1>6, <1>7

\* Under one parent each, what the model is shown is what the last compaction left.
LEMMA GroupsAre ==
    ASSUME NEW l, IsSeq(l), Chain(l)
    PROVE  /\ Lineage(l, Len(l)) = 1..Len(l)
           /\ Groups(l, Len(l)) = Show(l, Hidden(l, 1..Len(l)))
<1>1. Lineage(l, Len(l)) = 1..Len(l)
    BY ChainLineage, Empty
<1> QED
    BY <1>1 DEF Groups, Show

\* A plan replaces a prefix of what is visible, and what was hidden before.
LEMMA PlanPrefixed ==
    ASSUME NEW l, IsSeq(l), Latest(l), NEW H, H = Hidden(l, 1..Len(l)), Prefixed(l, H),
           NEW first \in 2..Len(Show(l, H))
    PROVE  Prefixed(l, {Show(l, H)[n] : n \in 1..(first - 1)} \cup H
                          \cup ({Compaction(l, 1..Len(l))} \ {0}))
<1> DEFINE g == Show(l, H)
           last == Compaction(l, 1..Len(l))
           R == {g[n] : n \in 1..(first - 1)} \cup H \cup ({last} \ {0})
<1>1. /\ g \in Seq(1..Len(l)) /\ Len(g) \in Nat
      /\ \A j \in 1..Len(g) : g[j] \in (1..Len(l)) \ H /\ l[g[j]].type \in Visible
      /\ \A i, j \in 1..Len(g) : i < j => g[i] < g[j]
      /\ \A k \in (1..Len(l)) \ H : l[k].type \in Visible => \E j \in 1..Len(g) : g[j] = k
  <2>1. Show(l, H) \in Seq(1..Len(l))
    BY ShowIs
  <2>2. \A j \in 1..Len(Show(l, H)) :
           Show(l, H)[j] \in (1..Len(l)) \ H /\ l[Show(l, H)[j]].type \in Visible
    BY ShowIs
  <2>3. \A i, j \in 1..Len(Show(l, H)) : i < j => Show(l, H)[i] < Show(l, H)[j]
    BY ShowIs
  <2>4. \A k \in (1..Len(l)) \ H : l[k].type \in Visible =>
           \E j \in 1..Len(Show(l, H)) : Show(l, H)[j] = k
    BY ShowIs
  <2> QED
    BY <2>1, <2>2, <2>3, <2>4
<1>2. last # 0 => last \in 1..Len(l) /\ l[last].type \notin Visible
    BY DEF Latest, Visible
<1> HIDE DEF g, last
<1>3. first \in Nat /\ \A n \in 1..(first - 1) : n \in 1..Len(g) /\ n < first
    BY <1>1 DEF g
<1>4. R \subseteq 1..Len(l)
    BY <1>1, <1>2, <1>3 DEF Prefixed
<1>5. ASSUME NEW k \in (1..Len(l)) \ R, NEW h \in R, l[k].type \in Visible, l[h].type \in Visible
      PROVE  h < k
  <2>1. k \notin H
    BY <1>5
  <2>2. PICK m \in 1..Len(g) : g[m] = k
    BY <1>1, <1>5, <2>1
  <2>3. \A n \in 1..(first - 1) : g[n] # k
    BY <1>5
  <2>4. ~(m < first)
    BY <1>3, <2>2, <2>3
  <2>5. CASE h \in H
    BY <1>5, <2>1, <2>5 DEF Prefixed
  <2>6. CASE h \notin H
    <3>1. PICK n \in 1..(first - 1) : g[n] = h
      BY <1>2, <1>5, <2>6
    <3>2. n < m /\ n \in 1..Len(g)
      BY <1>3, <2>4, <3>1
    <3> QED
      BY <1>1, <2>2, <3>1, <3>2
  <2> QED
    BY <2>5, <2>6
<1> QED
  <2>1. Prefixed(l, R)
    BY <1>4, <1>5 DEF Prefixed
  <2> QED
    BY <2>1 DEF g, last

\* A turn that is at a compaction came to it or plans it now.
LEMMA PlanMoves ==
    ASSUME TurnAt(turn), TurnStep \/ RunTurn, turn'.pc \in Planned
    PROVE  \/ turn.pc \in Planned /\ turn'.plan = turn.plan
           \/ turn'.plan \in Plans
<1>1. ASSUME NEW t, TurnAt(t), t.pc # "none", Compact(t)  PROVE turn'.plan \in Plans
  <2>1. turn'.pc = "compacting"
    BY <1>1, CompactMoves DEF Planned
  <2>2. CASE \E plan \in Plans : turn' = [t EXCEPT !.pc = "compacting", !.plan = plan]
    <3>1. PICK plan \in Plans : turn' = [t EXCEPT !.pc = "compacting", !.plan = plan]
      BY <2>2
    <3>2. turn'.plan = plan
      BY <1>1, <3>1 DEF TurnAt
    <3> QED
      BY <3>2
  <2>3. CASE turn' = IF t.outcome = "error" THEN [t EXCEPT !.pc = "reply"] ELSE NoTurn
    <3>1. turn' = [t EXCEPT !.pc = "reply"] \/ turn' = NoTurn
      BY <2>3
    <3>2. turn'.pc # "compacting"
      BY <1>1, <3>1, NoTurnTyped DEF TurnAt
    <3> QED
      BY <2>1, <3>2
  <2> QED
    BY <1>1, <2>2, <2>3 DEF Compact
<1>2. CASE CompactAtThreshold
  <2>1. TurnAt([turn EXCEPT !.outcome = "none"]) /\ [turn EXCEPT !.outcome = "none"].pc = "model"
    BY <1>2 DEF TurnAt, CompactAtThreshold
  <2> QED
    BY <1>1, <1>2, <2>1 DEF CompactAtThreshold
<1>3. CASE ModelAnswers
  <2>1. CASE turn' = [turn EXCEPT !.pc = "retry"]
    <3>1. turn'.pc = "retry"
      BY <2>1, TurnSet DEF Places
    <3> QED
      BY <3>1 DEF Planned
  <2>2. CASE Compact([turn EXCEPT !.outcome = "error", !.overflowed = TRUE])
    <3>1. /\ TurnAt([turn EXCEPT !.outcome = "error", !.overflowed = TRUE])
          /\ [turn EXCEPT !.outcome = "error", !.overflowed = TRUE].pc = turn.pc
      BY TwiceSet
    <3> QED
      BY <1>1, <1>3, <2>2, <3>1 DEF ModelAnswers
  <2>3. CASE \E outcome, n : turn' = [turn EXCEPT !.pc = "assistant", !.outcome = outcome, !.calls = n,
                                                  !.call = used.calls]
    <3>1. turn'.pc = "assistant"
      BY <2>3 DEF TurnAt
    <3> QED
      BY <3>1 DEF Planned
  <2> QED
    BY <1>3, <2>1, <2>2, <2>3 DEF ModelAnswers
<1>4. CASE Summarized
  <2>1. \A pc : [turn EXCEPT !.pc = pc].plan = turn.plan
    BY DEF TurnAt
  <2>2. turn.pc = "summary" /\ turn'.plan = turn.plan
    BY <1>4, <2>1 DEF Summarized
  <2> QED
    BY <2>2 DEF Planned
<1>5. CASE \/ Resume \/ CallModel \/ Reply \/ NextCall \/ ToolReturns \/ Boundary \/ ContinueQueued
           \/ MissingToolCall \/ AskerGoesOn \/ RunTurn
  <2>1. \A pc : [turn EXCEPT !.pc = pc].pc = pc
    BY DEF TurnAt
  <2>2. CASE Resume \/ Reply \/ ToolReturns \/ Boundary \/ MissingToolCall \/ AskerGoesOn
    BY <2>1, <2>2 DEF Resume, Reply, ToolReturns, Boundary, MissingToolCall, AskerGoesOn, Planned
  <2>3. CASE CallModel
    <3>1. turn'.pc \in {"attempt", "assistant"}
      BY <2>1, <2>3 DEF CallModel, TurnAt
    <3> QED
      BY <3>1 DEF Planned
  <2>4. CASE NextCall
    BY <2>4, CallTyped DEF NextCall, Planned
  <2>5. CASE ContinueQueued \/ RunTurn
    BY <2>5, UserTyped, NoTurnTyped DEF ContinueQueued, RunTurn, Planned
  <2> QED
    BY <1>5, <2>2, <2>3, <2>4, <2>5
<1> QED
    BY <1>2, <1>3, <1>4, <1>5 DEF TurnStep

\* The start of a compaction is stored: it goes on with its plan; no other append leads there.
LEMMA AfterPlans ==
    ASSUME NEW t, TurnAt(t), Written(t.pc) # "none", After(t).pc \in Planned
    PROVE  t.pc = "compacting" /\ After(t).pc = "summary" /\ After(t).plan = t.plan
<1>1. t.pc = "compacting"
  <2>1. CASE t.pc \in {"call", "result", "assistant"}
    BY <2>1, AfterCalls DEF Planned
  <2>2. CASE t.pc \in {"user", "steering", "followUp", "resteered", "retry", "compacted", "error"}
    <3>1. \A pc : [t EXCEPT !.pc = pc].pc = pc /\ [t EXCEPT !.pc = pc, !.plan = NoPlan].pc = pc
      BY DEF TurnAt
    <3> QED
      BY <2>2, <3>1 DEF After, Planned
  <2>3. CASE t.pc = "uncompacted"
    <3>1. After(t) = [t EXCEPT !.pc = "reply", !.plan = NoPlan] \/ After(t) = NoTurn
      BY <2>3 DEF After
    <3>2. [t EXCEPT !.pc = "reply", !.plan = NoPlan].pc = "reply"
      BY DEF TurnAt
    <3>3. After(t).pc \in {"reply", "none"}
      BY <3>1, <3>2, NoTurnTyped
    <3> QED
      BY <3>3 DEF Planned
  <2> QED
    BY <2>1, <2>2, <2>3 DEF Written
<1>2. After(t) = [t EXCEPT !.pc = "summary"]
    BY <1>1 DEF After
<1> QED
    BY <1>1, <1>2, TurnSet DEF Places

\* What is planned, spelled out for a log in which no two appends took the same parent.
LEMMA PlanIs ==
    ASSUME TreeInv, Chain(log), tip = Len(log), NEW plan \in Plans,
           NEW H, H = Hidden(log, 1..Len(log)), NEW g, g = Show(log, H)
    PROVE  \E first \in 2..Len(g) :
              /\ plan.kept = SubSeq(g, first, Len(g))
              /\ plan.replaced = {g[n] : n \in 1..(first - 1)} \cup H
                                    \cup ({Compaction(log, 1..Len(log))} \ {0})
<1>1. Groups(log, tip) = g /\ Lineage(log, tip) = 1..Len(log)
    BY GroupsAre DEF TreeInv, Tips
<1> DEFINE G == Groups(log, tip)
           branch == Lineage(log, tip)
           old(first) == {G[n] : n \in 1..(first - 1)} \cup Hidden(log, branch)
                            \cup ({Compaction(log, branch)} \ {0})
<1>2. PICK first \in 2..Len(G) : plan = [kept |-> SubSeq(G, first, Len(G)), replaced |-> old(first)]
    BY DEF Plans
<1>3. plan.kept = SubSeq(G, first, Len(G)) /\ plan.replaced = old(first)
    BY <1>2
<1> HIDE DEF G, branch
<1>4. G = g /\ branch = 1..Len(log)
    BY <1>1 DEF G, branch
<1> QED
    BY <1>2, <1>3, <1>4

\* No step lets a compaction replace what is not a prefix.
LEMMA NextKeepsPlans ==
    ASSUME TreeInv, AskType, WriteInv, PlanInv, [Next]_vars
    PROVE  PlanInv'
<1> DEFINE e == Head(appends).event
<1>0. IsSeq(log) /\ Latest(log) /\ (log' = log \/ Logs) /\ (Logs => log' = Append(log, e))
    BY LogSteps DEF TreeInv, Tips, PlanInv, Logs
<1>1. Latest(log')
  <2> HIDE DEF e
  <2> QED
    BY <1>0, LatestAppend
<1>2. SUFFICES ASSUME Chain(log')
               PROVE  /\ Prefixed(log', Hidden(log', 1..Len(log')))
                      /\ turn'.pc \in Planned => Prefixed(log', turn'.plan.replaced)
    BY <1>1 DEF PlanInv
<1>3. Chain(log)
  <2>1. CASE log' = log
    BY <1>2, <2>1
  <2>2. CASE Logs
    BY <1>0, <1>2, <2>2, ChainStored
  <2> QED
    BY <1>0, <2>1, <2>2
<1>4. \A R : Prefixed(log, R) => Prefixed(log', R)
  <2> HIDE DEF e
  <2> QED
    BY <1>0, PrefixedAppend
<1>5. /\ Prefixed(log, Hidden(log, 1..Len(log)))
      /\ turn.pc \in Planned => Prefixed(log, turn.plan.replaced)
    BY <1>3 DEF PlanInv
<1>6. Prefixed(log', Hidden(log', 1..Len(log')))
  <2>1. CASE log' = log
    BY <1>5, <2>1
  <2>2. CASE Logs /\ e.type # "context.compacted"
    <3>1. Hidden(log', 1..Len(log')) = Hidden(log, 1..Len(log))
      <4> HIDE DEF e
      <4> QED
        BY <1>0, <2>2, LatestAppend
    <3> QED
      BY <1>4, <1>5, <3>1
  <2>3. CASE Logs /\ e.type = "context.compacted"
    <3>1. Waits("turn")
      BY <2>3, HeadEnds DEF LogsOther, Waits, Logs
    <3>2. turn.pc = "compacted" /\ e.ref = turn.plan.replaced
      <4>1. \A pc : Written(pc) = "context.compacted" => pc = "compacted"
        BY DEF Written
      <4> QED
        BY <2>3, <3>1, <4>1, Present DEF Fits, Logs
    <3>3. Hidden(log', 1..Len(log')) = e.ref
      <4> DEFINE a == Append(log, e)
      <4> HIDE DEF e
      <4>1. Hidden(a, 1..Len(a)) = e.ref
        BY <1>0, <2>3, LatestAppend
      <4> QED
        BY <1>0, <2>3, <4>1
    <3> QED
      BY <1>4, <1>5, <3>2, <3>3 DEF Planned
  <2> QED
    BY <1>0, <2>1, <2>2, <2>3
<1>7. ASSUME turn.pc \in Planned, turn'.plan = turn.plan
      PROVE  Prefixed(log', turn'.plan.replaced)
    BY <1>4, <1>5, <1>7
<1>8. ASSUME turn'.pc \in Planned
      PROVE  Prefixed(log', turn'.plan.replaced)
  <2>1. CASE Stays
    BY <1>7, <1>8, <2>1 DEF Stays
  <2>2. CASE Works \/ Leaves
    BY <1>8, <2>2 DEF Works, Leaves, Working, Planned
  <2>3. CASE Moves
    <3>1. CASE turn'.plan \in Plans
      <4>1. mode = "open" /\ tip = Len(log)
        BY <2>3, TurnMoves, Running DEF WriteInv, Modes, Moves
      <4> DEFINE H == Hidden(log, 1..Len(log))
                 g == Show(log, H)
      <4>2. PICK first \in 2..Len(g) : turn'.plan.replaced =
               {g[n] : n \in 1..(first - 1)} \cup H \cup ({Compaction(log, 1..Len(log))} \ {0})
        BY <1>3, <3>1, <4>1, PlanIs
      <4>3. Prefixed(log, turn'.plan.replaced)
        BY <1>0, <1>5, <4>2, PlanPrefixed
      <4> QED
        BY <1>4, <4>3
    <3> QED
      BY <1>7, <1>8, <2>3, <3>1, PlanMoves DEF Moves, WriteInv
  <2>4. CASE TurnStored
    <3>1. turn' = After(turn) /\ Written(turn.pc) # "none"
      BY <2>4, TurnAlone DEF TurnStored
    <3> QED
      BY <1>7, <1>8, <3>1, AfterPlans DEF WriteInv, Planned
  <2> QED
    BY <2>1, <2>2, <2>3, <2>4, StepKinds
<1> QED
    BY <1>6, <1>8

\* What the projection asks of a log, but for the messages of extensions.
LEMMA ProjectableIs ==
    ASSUME TreeInv, CallsFollow, PlanInv, Chain(log),
           \A k \in 1..Len(log) : log[k].type # "context.extension"
    PROVE  Projectable(log, Len(log))
<1>0. Len(log) \in Nat /\ IsSeq(log)
    BY Empty DEF TreeInv, Tips
<1> DEFINE H == Hidden(log, 1..Len(log))
           g == Show(log, H)
<1>1. Lineage(log, Len(log)) = 1..Len(log) /\ Groups(log, Len(log)) = g
    BY <1>0, GroupsAre
<1>2. Prefixed(log, H)
    BY DEF PlanInv
<1>3. \A j \in 1..Len(g) : g[j] \in (1..Len(log)) \ H /\ log[g[j]].type \in Visible
    BY <1>0, ShowIs
<1> HIDE DEF H, g
<1>4. H \subseteq 1..Len(log) /\ \A j \in 1..Len(g), h \in H : log[h].type \in Visible => h < g[j]
    BY <1>2, <1>3 DEF Prefixed
<1>5. ASSUME NEW k \in 1..Len(log), log[k].type = "tool.call"
      PROVE  \E a \in 1..Len(log) :
                /\ a < k /\ log[a].type = "assistant.message"
                /\ \A e \in 1..Len(log) : a < e /\ e < k =>
                      log[e].type \notin {"user.message", "context.extension", "context.compacted"}
  <2>1. PICK a \in 1..(k - 1) :
           /\ log[a].type = "assistant.message"
           /\ \A e \in (a + 1)..(k - 1) : log[e].type \notin {"user.message", "context.compacted"}
    BY <1>5 DEF CallsFollow, Follows
  <2>2. a \in 1..Len(log) /\ a < k /\ \A e \in 1..Len(log) : a < e /\ e < k => e \in (a + 1)..(k - 1)
    BY <1>0, <2>1
  <2> QED
    BY <2>1, <2>2
<1> QED
    BY <1>1, <1>4, <1>5 DEF Projectable, H

\* ChainReopens: however turns, calls, retries, compactions, interactions, failed appends,
\* crashes and recoveries follow each other, a log in which no two appends took the same
\* parent and no extension sent a message passes what an open requires of it.
THEOREM ChainReopensHolds == Spec => []ChainReopens
<1> DEFINE I == TreeInv /\ AskType /\ WriteInv /\ CallInv /\ ResultInv /\ CallsFollow /\ PlanInv
<1>1. Init => I
  <2> SUFFICES ASSUME Init  PROVE I
    OBVIOUS
  <2>1. TreeInv /\ AskType /\ WriteInv
    BY Starts, WritesStart
  <2>2. /\ log = <<>> /\ appends = <<>> /\ repairs = <<>> /\ turn.pc = "none" /\ Len(<<>>) = 0
      BY NoTurnTyped DEF Init
  <2>3. CallInv /\ ResultInv /\ CallsFollow
    BY <2>2 DEF CallInv, ResultInv, CallsFollow, OnceIn, Says, Mends, Preceded, Asked, Working, CallPlaces
  <2>4. Compaction(log, 1..Len(log)) = 0 /\ Hidden(log, 1..Len(log)) = {}
    BY <2>2 DEF Compaction, Hidden
  <2>5. PlanInv
    BY <2>2, <2>4 DEF PlanInv, Latest, Prefixed, Planned
  <2> QED
    BY <2>1, <2>3, <2>5
<1>2. I /\ [Next]_vars => I'
    BY NextKeepsTree, NextKeepsAskType, NextKeepsWrites, NextKeepsCalls, NextKeepsResults,
       NextKeepsFollows, NextKeepsPlans
<1>3. I => ChainReopens
    BY VerifiedIs, ProjectableIs DEF ChainReopens, Openable
<1> QED
    BY <1>1, <1>2, <1>3, PTL DEF Spec

-----------------------------------------------------------------------------
(* The live history and the one that an open would rebuild.                *)

\* The events that the two have to share: all but the messages of extensions.
Shares(l) == {k \in 1..Len(l) : l[k].type # "context.extension"}

Rebuilt(l) == MessagesFromLineage(l, Len(l))

\* What a longer log makes of sequences of its older events.
LEMMA ShareAppend ==
    ASSUME NEW l, IsSeq(l), NEW e
    PROVE  LET a == Append(l, e)
               n == Len(l)
           IN /\ \A s \in Seq(1..n) : Only(s, Shares(a)) = Only(s, Shares(l))
              /\ \A s \in Seq(1..n) : Only(Append(s, n + 1), Shares(a)) =
                    IF e.type # "context.extension" THEN Append(Only(s, Shares(l)), n + 1)
                    ELSE Only(s, Shares(l))
              /\ e.type # "context.extension" =>
                    \A s \in Seq(1..n) : Only(<<n + 1>> \o s, Shares(a)) = <<n + 1>> \o Only(s, Shares(l))
<1> DEFINE a == Append(l, e)
           n == Len(l)
<1>1. /\ n \in Nat /\ Len(a) = n + 1 /\ a[n + 1] = e
      /\ \A i \in 1..n : a[i] = l[i]
    BY Appended
<1>0. n = Len(l)
    OBVIOUS
<1> HIDE DEF a, n
<1> DEFINE N == 1..(n + 1)
<1>2. \A x \in 1..n : x \in Shares(a) <=> x \in Shares(l)
    BY <1>0, <1>1 DEF Shares
<1>3. n + 1 \in Shares(a) <=> e.type # "context.extension"
    BY <1>1 DEF Shares
<1>4. \A s \in Seq(1..n) : Only(s, Shares(a)) = Only(s, Shares(l))
  <2> DEFINE Z == 1..n
  <2>1. \A M, K, J : \A s \in Seq(M) : (\A x \in M : x \in K <=> x \in J) => Only(s, K) = Only(s, J)
    BY OnlySame
  <2>2. \A x \in Z : x \in Shares(a) <=> x \in Shares(l)
    BY <1>2
  <2> HIDE DEF Z
  <2>3. \A s \in Seq(Z) : Only(s, Shares(a)) = Only(s, Shares(l))
    BY <2>1, <2>2
  <2> QED
    BY <2>3 DEF Z
<1>5. n + 1 \in N /\ \A s \in Seq(1..n) : s \in Seq(N)
    BY <1>1
<1> HIDE DEF N
<1>6. \A s \in Seq(N) : Only(Append(s, n + 1), Shares(a)) =
         IF n + 1 \in Shares(a) THEN Append(Only(s, Shares(a)), n + 1) ELSE Only(s, Shares(a))
  <2>1. \A K : \A s \in Seq(N), x \in N :
           Only(Append(s, x), K) = IF x \in K THEN Append(Only(s, K), x) ELSE Only(s, K)
    BY OnlyAppend
  <2> QED
    BY <1>5, <2>1
<1>7. ASSUME e.type # "context.extension", NEW s \in Seq(1..n)
      PROVE  Only(<<n + 1>> \o s, Shares(a)) = <<n + 1>> \o Only(s, Shares(l))
  <2>1. <<n + 1>> \in Seq(N) /\ <<>> \in Seq(N) /\ s \in Seq(N) /\ <<n + 1>> = Append(<<>>, n + 1)
    BY <1>5
  <2>2. Only(<<n + 1>>, Shares(a)) = <<n + 1>>
    <3>1. Only(Append(<<>>, n + 1), Shares(a)) = Append(Only(<<>>, Shares(a)), n + 1)
      BY <1>3, <1>6, <1>7, <2>1
    <3>2. Only(<<>>, Shares(a)) = <<>>
      BY OnlyNone
    <3> QED
      BY <2>1, <3>1, <3>2
  <2>3. Only(<<n + 1>> \o s, Shares(a)) = Only(<<n + 1>>, Shares(a)) \o Only(s, Shares(a))
    <3>1. \A q, t \in Seq(N) : Only(q, Shares(a)) \in Seq(N) =>
             Only(q \o t, Shares(a)) = Only(q, Shares(a)) \o Only(t, Shares(a))
      BY OnlyConcat
    <3> QED
      BY <2>1, <2>2, <3>1
  <2> QED
    BY <1>4, <2>2, <2>3
<1>8. \A s \in Seq(1..n) : Only(Append(s, n + 1), Shares(a)) =
         IF e.type # "context.extension" THEN Append(Only(s, Shares(l)), n + 1)
         ELSE Only(s, Shares(l))
    BY <1>3, <1>4, <1>5, <1>6
<1> QED
    BY <1>4, <1>7, <1>8 DEF a, n

\* What is visible of a longer log.
LEMMA ShowAppend ==
    ASSUME NEW l, IsSeq(l), NEW e, NEW R, R \subseteq 1..Len(l)
    PROVE  /\ e.type \in Visible => Show(Append(l, e), R) = Append(Show(l, R), Len(l) + 1)
           /\ e.type \notin Visible => Show(Append(l, e), R) = Show(l, R)
<1> DEFINE a == Append(l, e)
           n == Len(l)
<1>1. /\ n \in Nat /\ Len(a) = n + 1 /\ a[n + 1] = e
      /\ \A i \in 1..n : a[i] = l[i]
    BY Appended
<1> HIDE DEF a, n
<1> DEFINE later == {k \in (1..Len(a)) \ R : a[k].type \in Visible}
           now == {k \in (1..Len(l)) \ R : l[k].type \in Visible}
           N == 1..(n + 1)
<1>2. \A x \in 1..n : x \in later <=> x \in now
    BY <1>1 DEF n
<1>3. n + 1 \in later <=> e.type \in Visible
    BY <1>1 DEF n
<1>4. /\ Ids(l) \in Seq(1..n) /\ Ids(l) \in Seq(N) /\ n + 1 \in N
      /\ Ids(a) = Append(Ids(l), n + 1)
    BY <1>1 DEF Ids, n
<1>5. Show(a, R) = Only(Ids(a), later) /\ Show(l, R) = Only(Ids(l), now)
    BY DEF Show
<1> HIDE DEF later, now, N
<1>6. Only(Ids(l), later) = Only(Ids(l), now)
  <2>1. \A Z, J, M : \A s \in Seq(Z) : (\A x \in Z : x \in J <=> x \in M) => Only(s, J) = Only(s, M)
    BY OnlySame
  <2> DEFINE Z == 1..n
  <2>2. Ids(l) \in Seq(Z) /\ \A x \in Z : x \in later <=> x \in now
    BY <1>2, <1>4
  <2> HIDE DEF Z
  <2> QED
    BY <2>1, <2>2
<1>7. Only(Append(Ids(l), n + 1), later) =
         IF n + 1 \in later THEN Append(Only(Ids(l), later), n + 1) ELSE Only(Ids(l), later)
  <2>1. \A M : \A s \in Seq(N), x \in N :
           Only(Append(s, x), M) = IF x \in M THEN Append(Only(s, M), x) ELSE Only(s, M)
    BY OnlyAppend
  <2> QED
    BY <1>4, <2>1
<1> QED
    BY <1>3, <1>4, <1>5, <1>6, <1>7 DEF a, n

\* The history that an open rebuilds from a log in which no two appends took the same parent.
LEMMA RebuiltIs ==
    ASSUME NEW l, IsSeq(l), Chain(l), Latest(l), NEW last, last = Compaction(l, 1..Len(l)),
           NEW g, g = Show(l, Hidden(l, 1..Len(l)))
    PROVE  /\ last = 0 => Rebuilt(l) = g
           /\ last # 0 => Rebuilt(l) = <<last>> \o g
           /\ g \in Seq(1..Len(l)) /\ Rebuilt(l) \in Seq(1..Len(l))
<1>1. Lineage(l, Len(l)) = 1..Len(l) /\ Groups(l, Len(l)) = g
    BY GroupsAre
<1>2. g \in Seq(1..Len(l))
    BY ShowIs
<1>3. Rebuilt(l) = (IF last = 0 THEN <<>> ELSE <<last>>) \o g
    BY <1>1 DEF Rebuilt, MessagesFromLineage
<1>4. <<>> \o g = g
    BY <1>2
<1>5. last # 0 => <<last>> \o g \in Seq(1..Len(l))
    BY <1>2 DEF Latest
<1> QED
    BY <1>2, <1>3, <1>4, <1>5

\* One more event: it is added, or the summary takes the place of what it replaced.
LEMMA RebuiltAppend ==
    ASSUME NEW l, IsSeq(l), NEW e, NEW a, a = Append(l, e), NEW n, n = Len(l),
           Latest(l), Chain(l), Chain(a), Hidden(l, 1..Len(l)) \subseteq 1..n
    PROVE  /\ e.type # "context.compacted" =>
                 Rebuilt(a) = IF e.type \in Visible THEN Append(Rebuilt(l), n + 1) ELSE Rebuilt(l)
           /\ e.type = "context.compacted" /\ e.ref \subseteq 1..n =>
                 Rebuilt(a) = <<n + 1>> \o Show(l, e.ref)
<1>0. IsSeq(a) /\ Latest(a) /\ n \in Nat
    BY Appended, LatestAppend
<1>3. ASSUME NEW R, R \subseteq 1..n
      PROVE  Show(a, R) = IF e.type \in Visible THEN Append(Show(l, R), n + 1) ELSE Show(l, R)
    BY <1>3, ShowAppend
<1>1. CASE e.type # "context.compacted"
  <2>1. /\ Compaction(a, 1..Len(a)) = Compaction(l, 1..Len(l))
        /\ Hidden(a, 1..Len(a)) = Hidden(l, 1..Len(l))
    BY <1>1, LatestAppend
  <2> DEFINE H == Hidden(l, 1..Len(l))
             g == Show(l, H)
             f == Show(a, H)
             last == Compaction(l, 1..Len(l))
  <2>2. f = IF e.type \in Visible THEN Append(g, n + 1) ELSE g
    BY <1>3
  <2>3. /\ last = 0 => Rebuilt(l) = g
        /\ last # 0 => Rebuilt(l) = <<last>> \o g
        /\ g \in Seq(1..n)
    BY RebuiltIs
  <2>4. /\ last = 0 => Rebuilt(a) = f
        /\ last # 0 => Rebuilt(a) = <<last>> \o f
    <3>1. last = Compaction(a, 1..Len(a)) /\ f = Show(a, Hidden(a, 1..Len(a)))
      BY <2>1
    <3> HIDE DEF f, g, last, H
    <3> QED
      BY <1>0, <3>1, RebuiltIs
  <2> HIDE DEF f, g, last, H
  <2>5. <<last>> \o Append(g, n + 1) = Append(<<last>> \o g, n + 1)
    BY <2>3
  <2> QED
    BY <1>1, <2>2, <2>3, <2>4, <2>5
<1>2. CASE e.type = "context.compacted" /\ e.ref \subseteq 1..n
  <2>1. /\ Compaction(a, 1..Len(a)) = n + 1
        /\ Hidden(a, 1..Len(a)) = e.ref
    BY <1>2, LatestAppend
  <2>2. Show(a, e.ref) = Show(l, e.ref)
    <3>1. e.type \notin Visible
      BY <1>2 DEF Visible
    <3> QED
      BY <1>2, <1>3, <3>1
  <2>3. n + 1 # 0
    BY <1>0
  <2>4. Rebuilt(a) = <<n + 1>> \o Show(a, e.ref)
    BY <1>0, <2>1, <2>3, RebuiltIs
  <2> QED
    BY <1>2, <2>2, <2>4
<1> QED
    BY <1>1, <1>2

\* What a plan keeps is what is visible but for what it replaces.
LEMMA PlanShows ==
    ASSUME NEW l, IsSeq(l), Latest(l), NEW H, H = Hidden(l, 1..Len(l)),
           NEW first \in 2..Len(Show(l, H)),
           NEW R, R = {Show(l, H)[n] : n \in 1..(first - 1)} \cup H
                         \cup ({Compaction(l, 1..Len(l))} \ {0})
    PROVE  SubSeq(Show(l, H), first, Len(Show(l, H))) = Show(l, R)
<1> DEFINE g == Show(l, H)
           last == Compaction(l, 1..Len(l))
           K == {k \in (1..Len(l)) \ H : l[k].type \in Visible}
           J == {k \in (1..Len(l)) \ R : l[k].type \in Visible}
<1>1. /\ g \in Seq(1..Len(l)) /\ Len(g) \in Nat
      /\ \A j \in 1..Len(g) : g[j] \in (1..Len(l)) \ H /\ l[g[j]].type \in Visible
      /\ \A i, j \in 1..Len(g) : i < j => g[i] < g[j]
  <2>1. Show(l, H) \in Seq(1..Len(l))
    BY ShowIs
  <2>2. \A j \in 1..Len(Show(l, H)) :
           Show(l, H)[j] \in (1..Len(l)) \ H /\ l[Show(l, H)[j]].type \in Visible
    BY ShowIs
  <2>3. \A i, j \in 1..Len(Show(l, H)) : i < j => Show(l, H)[i] < Show(l, H)[j]
    BY ShowIs
  <2> QED
    BY <2>1, <2>2, <2>3
<1>2. last # 0 => last \in 1..Len(l) /\ l[last].type \notin Visible
    BY DEF Latest, Visible
<1>3. Ids(l) \in Seq(1..Len(l))
    BY ShowIs
<1>4. g = Only(Ids(l), K) /\ Show(l, R) = Only(Ids(l), J)
    BY DEF Show
<1>5. K \cap J = J
    OBVIOUS
<1> HIDE DEF K
<1>6. Show(l, R) = Only(g, J)
  <2>1. \A S, A, B : \A s \in Seq(S) : Only(Only(s, A), B) = Only(s, A \cap B)
    BY OnlyTwice
  <2> HIDE DEF J, g
  <2> QED
    BY <1>3, <1>4, <1>5, <2>1
<1>7. first \in Nat /\ 1 <= first /\ first \in 1..(Len(g) + 1)
      /\ \A n \in 1..(first - 1) : n \in 1..Len(g) /\ n < first
    BY <1>1 DEF g
<1> HIDE DEF g, last
<1>8. \A n \in 1..Len(g) : g[n] \in J <=> first <= n
  <2> TAKE n \in 1..Len(g)
  <2>0. n \in Nat /\ n >= 1
    BY <1>1
  <2>1. R = {g[m] : m \in 1..(first - 1)} \cup H \cup ({last} \ {0})
    BY DEF g, last
  <2>2. CASE n < first
    <3>1. n \in 1..(first - 1)
      BY <1>7, <2>0, <2>2
    <3>2. g[n] \in R
      BY <2>1, <3>1
    <3> QED
      BY <1>7, <2>0, <2>2, <3>2
  <2>3. CASE first <= n
    <3>1. \A m \in 1..(first - 1) : g[m] # g[n]
      <4> TAKE m \in 1..(first - 1)
      <4>1. m \in 1..Len(g) /\ m < n
        BY <1>7, <2>0, <2>3
      <4>2. g[m] < g[n] /\ g[m] \in Nat /\ g[n] \in Nat
        BY <1>1, <4>1
      <4> QED
        BY <4>2
    <3>3. g[n] \in 1..Len(l) /\ g[n] \notin H /\ l[g[n]].type \in Visible /\ ~(g[n] \in {last} \ {0})
      BY <1>1, <1>2
    <3>4. g[n] \notin R
      BY <2>1, <3>1, <3>3
    <3> QED
      BY <2>3, <3>3, <3>4
  <2> QED
    BY <1>7, <2>0, <2>2, <2>3
<1> HIDE DEF J
<1>9. Only(g, J) = SubSeq(g, first, Len(g))
    BY <1>1, <1>7, <1>8, OnlyFrom
<1> QED
    BY <1>6, <1>9 DEF g

\* The events that both have agree.
Agree(l, s, t) == Only(s, Shares(l)) = Only(t, Shares(l))

HistInv ==
    Chain(log) =>
      /\ mode \in {"recovering", "open"} =>
            messages \in Seq(1..Len(log)) /\ Agree(log, messages, Rebuilt(log))
      /\ turn.pc \in Planned =>
            /\ turn.plan.kept \in Seq(1..Len(log))
            /\ Agree(log, turn.plan.kept, Show(log, turn.plan.replaced))

\* One more event that is not a summary is added to both, or shared by none.
LEMMA AgreeAppend ==
    ASSUME NEW l, IsSeq(l), NEW e, NEW a, a = Append(l, e), NEW n, n = Len(l)
    PROVE  /\ \A s \in Seq(1..n) : s \in Seq(1..Len(a)) /\ Append(s, n + 1) \in Seq(1..Len(a))
           /\ \A s, t \in Seq(1..n) : Agree(l, s, t) =>
                 /\ Agree(a, s, t) /\ Agree(a, Append(s, n + 1), Append(t, n + 1))
                 /\ e.type = "context.extension" =>
                       Agree(a, Append(s, n + 1), t) /\ Agree(a, s, Append(t, n + 1))
                 /\ e.type # "context.extension" =>
                       Agree(a, <<n + 1>> \o s, <<n + 1>> \o t)
<1>1. /\ n \in Nat /\ Len(a) = n + 1
    BY Appended
<1>2. \A s \in Seq(1..n) : s \in Seq(1..Len(a)) /\ Append(s, n + 1) \in Seq(1..Len(a))
    BY <1>1
<1>3. \A s \in Seq(1..n) : Only(s, Shares(a)) = Only(s, Shares(l))
    BY ShareAppend
<1>4. \A s \in Seq(1..n) : Only(Append(s, n + 1), Shares(a)) =
                 IF e.type # "context.extension" THEN Append(Only(s, Shares(l)), n + 1)
                 ELSE Only(s, Shares(l))
    BY ShareAppend
<1>5. e.type # "context.extension" =>
         \A s \in Seq(1..n) : Only(<<n + 1>> \o s, Shares(a)) = <<n + 1>> \o Only(s, Shares(l))
    BY ShareAppend
<1>6. ASSUME NEW s \in Seq(1..n), NEW t \in Seq(1..n), Agree(l, s, t)
      PROVE  /\ Agree(a, s, t) /\ Agree(a, Append(s, n + 1), Append(t, n + 1))
             /\ e.type = "context.extension" =>
                   Agree(a, Append(s, n + 1), t) /\ Agree(a, s, Append(t, n + 1))
             /\ e.type # "context.extension" =>
                   Agree(a, <<n + 1>> \o s, <<n + 1>> \o t)
  <2>1. Only(s, Shares(l)) = Only(t, Shares(l))
    BY <1>6 DEF Agree
  <2>2. Agree(a, s, t)
    BY <1>3, <2>1 DEF Agree
  <2>3. Agree(a, Append(s, n + 1), Append(t, n + 1))
    BY <1>4, <2>1 DEF Agree
  <2>4. e.type = "context.extension" => Agree(a, Append(s, n + 1), t) /\ Agree(a, s, Append(t, n + 1))
    BY <1>3, <1>4, <2>1 DEF Agree
  <2>5. e.type # "context.extension" => Agree(a, <<n + 1>> \o s, <<n + 1>> \o t)
    BY <1>5, <2>1 DEF Agree
  <2> QED
    BY <2>2, <2>3, <2>4, <2>5
<1> QED
    BY <1>2, <1>6

Live == {"recovering", "open"}

\* What becomes of the live history: it stays, is rebuilt, gets what the log gets, or a
\* compaction replaces it.
Compacts == TurnStored /\ turn.pc = "compacted"

LEMMA MessageSteps ==
    ASSUME TreeInv, AskType, WriteInv, [Next]_vars, mode' \in Live
    PROVE  \/ log' = log /\ messages' = messages /\ mode \in Live
           \/ log' = log /\ messages' = Rebuilt(log)
           \/ Logs /\ Shown /\ Head(appends).event.type # "context.compacted" /\ mode \in Live
           \/ Compacts
<1>1. CASE TurnStep \/ RunTurn
  <2>1. log' = log /\ messages' = messages /\ mode' = mode
    BY <1>1, TurnMoves DEF WriteInv, TurnKeeps
  <2> QED
    BY <2>1
<1>2. CASE \/ Steer \/ Interrupt \/ AskTimesOut \/ OtherAppends \/ Restore \/ ToolAsks \/ TurnFails
           \/ (\E c \in Clients : Respond(c)) \/ UNCHANGED vars
  <2>1. log' = log /\ messages' = messages /\ mode' = mode
    BY <1>2 DEF Steer, Interrupt, AskTimesOut, OtherAppends, Restore, ToolAsks, TurnFails, Respond,
                NoAppend, Calls, opening, vars
  <2> QED
    BY <2>1
<1>3. CASE \/ OtherSettles \/ RestoreSettles \/ AskSettles \/ RecoverySettles
           \/ \E c \in Clients : ResponseSettles(c)
  <2>1. \E who : Waits(who) /\ who # "turn"
    BY <1>3, TurnAssumptions
       DEF OtherSettles, RestoreSettles, AskSettles, RecoverySettles, ResponseSettles
  <2>2. \/ Stored /\ Shown /\ mode' = mode
        \/ log' = log /\ messages' = messages /\ (mode' = mode \/ mode' = "closed")
    BY <1>3 DEF OtherSettles, RestoreSettles, AskSettles, RecoverySettles, ResponseSettles,
                Failed, opening
  <2>3. CASE Stored /\ Shown /\ mode' = mode
    <3>1. LogsOther
      BY <2>1, <2>3 DEF Waits, Stored, LogsOther, Logs
    <3> QED
      BY <2>3, <3>1, HeadEnds DEF LogsOther
  <2> QED
    BY <2>2, <2>3 DEF Live
<1>4. CASE TurnStored
  <2>1. CASE turn.pc # "compacted"
    <3>1. Logs /\ Shown /\ mode' = mode
      BY <1>4, <2>1 DEF TurnStored, Waits, Stored, Logs, History, opening
    <3>2. Fits(Head(appends).event.type, Head(appends).event.ref, turn)
      BY <1>4, <3>1, Present DEF TurnStored, Logs
    <3>3. \A pc : Written(pc) = "context.compacted" => pc = "compacted"
      BY DEF Written
    <3> QED
      BY <2>1, <3>1, <3>2, <3>3 DEF Fits
  <2> QED
    BY <1>4, <2>1 DEF Compacts
<1>5. CASE Open
    BY <1>5 DEF Open, Rebuilt, Live
<1>6. CASE Recover
    BY <1>6 DEF Recover, Calls, Live
<1>7. CASE Crash
    BY <1>7 DEF Crash, Live
<1> QED
    BY <1>1, <1>2, <1>3, <1>4, <1>5, <1>6, <1>7 DEF Next, Settles

\* Of what the model is shown, only extensions add beside a turn.
LEMMA HeadShows ==
    ASSUME TreeInv, WriteInv, LogsOther, turn.pc # "none", Head(appends).event.type \in Visible
    PROVE  Head(appends).event.type = "context.extension"
<1>1. EntryAt(Head(appends), turn, mode) /\ Head(appends).who # "turn" /\ mode = "open"
    BY Present, Running DEF LogsOther, Logs
<1> QED
    BY <1>1, TurnAssumptions DEF EntryAt, Visible

\* A plan that is being carried out still fits when extensions add to the log.
LEMMA PlanStays ==
    ASSUME NEW l, IsSeq(l), NEW e, e.type \in Visible => e.type = "context.extension",
           NEW R, R \subseteq 1..Len(l), NEW s \in Seq(1..Len(l)), Agree(l, s, Show(l, R))
    PROVE  s \in Seq(1..Len(Append(l, e))) /\ Agree(Append(l, e), s, Show(Append(l, e), R))
<1> DEFINE a == Append(l, e)
           n == Len(l)
           g == Show(l, R)
<1>1. g \in Seq(1..n)
    BY ShowIs
<1>2. /\ e.type \in Visible => Show(a, R) = Append(g, n + 1)
      /\ e.type \notin Visible => Show(a, R) = g
    BY ShowAppend
<1>3. s \in Seq(1..Len(a))
    BY AgreeAppend
<1>4. \A q, t \in Seq(1..n) : Agree(l, q, t) =>
         Agree(a, q, t) /\ (e.type = "context.extension" => Agree(a, q, Append(t, n + 1)))
    BY AgreeAppend
<1> HIDE DEF a, n, g
<1>5. s \in Seq(1..n) /\ Agree(l, s, g)
    BY DEF n, g
<1>6. Agree(a, s, g) /\ (e.type = "context.extension" => Agree(a, s, Append(g, n + 1)))
    BY <1>1, <1>4, <1>5
<1> QED
    BY <1>2, <1>3, <1>6 DEF a

\* The live history and the rebuilt one get the same event.
LEMMA BothAppend ==
    ASSUME NEW l, IsSeq(l), NEW e, e.type # "context.compacted",
           Latest(l), Chain(l), Chain(Append(l, e)), Hidden(l, 1..Len(l)) \subseteq 1..Len(l),
           NEW s \in Seq(1..Len(l)), Agree(l, s, Rebuilt(l)),
           NEW q, q = IF e.type \in Visible THEN Append(s, Len(l) + 1) ELSE s
    PROVE  q \in Seq(1..Len(Append(l, e))) /\ Agree(Append(l, e), q, Rebuilt(Append(l, e)))
<1> DEFINE a == Append(l, e)
           n == Len(l)
           m == Rebuilt(l)
<1>1. m \in Seq(1..n)
    BY RebuiltIs
<1>2. Rebuilt(a) = IF e.type \in Visible THEN Append(m, n + 1) ELSE m
    BY RebuiltAppend
<1>3. s \in Seq(1..Len(a)) /\ Append(s, n + 1) \in Seq(1..Len(a))
    BY AgreeAppend
<1>4. \A x, t \in Seq(1..n) : Agree(l, x, t) =>
         Agree(a, x, t) /\ Agree(a, Append(x, n + 1), Append(t, n + 1))
    BY AgreeAppend
<1> HIDE DEF a, n, m
<1>5. s \in Seq(1..n) /\ Agree(l, s, m)
    BY DEF n, m
<1>6. Agree(a, s, m) /\ Agree(a, Append(s, n + 1), Append(m, n + 1))
    BY <1>1, <1>4, <1>5
<1>7. q = IF e.type \in Visible THEN Append(s, n + 1) ELSE s
    BY DEF n
<1> QED
    BY <1>2, <1>3, <1>6, <1>7 DEF a

\* The summary takes the place of what it replaced in both.
LEMMA BothReplace ==
    ASSUME NEW l, IsSeq(l), NEW e, e.type = "context.compacted", e.ref \subseteq 1..Len(l),
           Latest(l), Chain(l), Chain(Append(l, e)), Hidden(l, 1..Len(l)) \subseteq 1..Len(l),
           NEW s \in Seq(1..Len(l)), Agree(l, s, Show(l, e.ref)),
           NEW q, q = <<Len(l) + 1>> \o s
    PROVE  q \in Seq(1..Len(Append(l, e))) /\ Agree(Append(l, e), q, Rebuilt(Append(l, e)))
<1> DEFINE a == Append(l, e)
           n == Len(l)
           g == Show(l, e.ref)
<1>0. n \in Nat /\ Len(a) = n + 1
    BY Appended
<1>1. g \in Seq(1..n)
    BY ShowIs
<1>2. Rebuilt(a) = <<n + 1>> \o g
    BY RebuiltAppend
<1>3. s \in Seq(1..Len(a))
    BY AgreeAppend
<1>4. \A x, t \in Seq(1..n) : Agree(l, x, t) =>
         (e.type # "context.extension" => Agree(a, <<n + 1>> \o x, <<n + 1>> \o t))
    BY AgreeAppend
<1> HIDE DEF a, n, g
<1>5. s \in Seq(1..n) /\ Agree(l, s, g) /\ q = <<n + 1>> \o s
    BY DEF n, g
<1>6. Agree(a, <<n + 1>> \o s, <<n + 1>> \o g)
    BY <1>1, <1>4, <1>5
<1>7. q \in Seq(1..Len(a))
    BY <1>0, <1>3, <1>5
<1> QED
    BY <1>2, <1>5, <1>6, <1>7 DEF a

\* The plan of a turn is what its new history would be.
LEMMA NextKeepsKept ==
    ASSUME TreeInv, AskType, WriteInv, PlanInv, HistInv, [Next]_vars, Chain(log), Chain(log'),
           turn'.pc \in Planned
    PROVE  /\ turn'.plan.kept \in Seq(1..Len(log'))
           /\ Agree(log', turn'.plan.kept, Show(log', turn'.plan.replaced))
<1> DEFINE e == Head(appends).event
<1>0. IsSeq(log) /\ Latest(log) /\ (Logs => log' = Append(log, e))
    BY DEF TreeInv, Tips, PlanInv, Logs
<1>1. ASSUME turn.pc \in Planned, turn'.plan = turn.plan,
             log' = log \/ (Logs /\ (e.type \in Visible => e.type = "context.extension"))
      PROVE  /\ turn'.plan.kept \in Seq(1..Len(log'))
             /\ Agree(log', turn'.plan.kept, Show(log', turn'.plan.replaced))
  <2> DEFINE R == turn.plan.replaced
             s == turn.plan.kept
  <2>1. R \subseteq 1..Len(log) /\ s \in Seq(1..Len(log)) /\ Agree(log, s, Show(log, R))
    BY <1>1 DEF PlanInv, HistInv, Prefixed
  <2> HIDE DEF R, s, e
  <2>2. log' = log => s \in Seq(1..Len(log')) /\ Agree(log', s, Show(log', R))
    BY <2>1
  <2>3. Logs /\ (e.type \in Visible => e.type = "context.extension")
           => s \in Seq(1..Len(log')) /\ Agree(log', s, Show(log', R))
    BY <1>0, <2>1, PlanStays
  <2>4. s \in Seq(1..Len(log')) /\ Agree(log', s, Show(log', R))
    BY <1>1, <2>2, <2>3 DEF e
  <2> QED
    BY <1>1, <2>4 DEF R, s
<1>2. ASSUME log' = log \/ LogsOther, turn.pc \in Planned, turn'.plan = turn.plan
      PROVE  /\ turn'.plan.kept \in Seq(1..Len(log'))
             /\ Agree(log', turn'.plan.kept, Show(log', turn'.plan.replaced))
  <2>1. turn.pc # "none"
    BY <1>2 DEF Planned
  <2> QED
    BY <1>1, <1>2, <2>1, HeadShows DEF LogsOther
<1>3. CASE Stays
    BY <1>2, <1>3 DEF Stays
<1>4. CASE Works \/ Leaves
    BY <1>4 DEF Works, Leaves, Working, Planned
<1>5. CASE Moves
  <2>1. CASE turn'.plan \in Plans
    <3>1. tip = Len(log) /\ log' = log
      BY <1>5, TurnMoves, Running DEF WriteInv, Modes, Moves
    <3> DEFINE H == Hidden(log, 1..Len(log))
               g == Show(log, H)
               last == Compaction(log, 1..Len(log))
    <3>2. PICK first \in 2..Len(g) :
             /\ turn'.plan.kept = SubSeq(g, first, Len(g))
             /\ turn'.plan.replaced = {g[n] : n \in 1..(first - 1)} \cup H \cup ({last} \ {0})
      BY <2>1, <3>1, PlanIs
    <3>3. turn'.plan.kept = Show(log, turn'.plan.replaced)
      BY <1>0, <3>2, PlanShows
    <3>4. \A R : Show(log, R) \in Seq(1..Len(log))
      BY <1>0, ShowIs
    <3>5. Show(log, turn'.plan.replaced) \in Seq(1..Len(log))
      BY <3>4
    <3> HIDE DEF H, g, last
    <3> QED
      BY <3>1, <3>3, <3>5 DEF Agree
  <2> QED
    BY <1>2, <1>5, <2>1, PlanMoves DEF Moves, WriteInv
<1>6. CASE TurnStored
  <2>1. turn' = After(turn) /\ Written(turn.pc) # "none" /\ Logs
    BY <1>6, TurnAlone DEF TurnStored, Waits, Stored, Logs
  <2>2. turn.pc = "compacting" /\ turn'.plan = turn.plan
    BY <2>1, AfterPlans DEF WriteInv
  <2>3. Written(turn.pc) = e.type
    BY <1>6, <2>1, Present DEF TurnStored, Fits, Logs
  <2>4. e.type = "compaction.started"
    BY <2>2, <2>3 DEF Written
  <2>5. e.type \notin Visible
    BY <2>4 DEF Visible
  <2> QED
    BY <1>1, <2>1, <2>2, <2>5 DEF Planned
<1> QED
    BY <1>3, <1>4, <1>5, <1>6, StepKinds

\* The live history stays the one that would be rebuilt.
LEMMA NextKeepsHistory ==
    ASSUME TreeInv, AskType, WriteInv, PlanInv, HistInv, [Next]_vars
    PROVE  HistInv'
<1> DEFINE e == Head(appends).event
<1>0. IsSeq(log) /\ Latest(log) /\ (log' = log \/ Logs) /\ (Logs => log' = Append(log, e))
    BY LogSteps DEF TreeInv, Tips, PlanInv, Logs
<1>1. SUFFICES ASSUME Chain(log')
               PROVE  /\ mode' \in Live => /\ messages' \in Seq(1..Len(log'))
                                           /\ Agree(log', messages', Rebuilt(log'))
                      /\ turn'.pc \in Planned =>
                            /\ turn'.plan.kept \in Seq(1..Len(log'))
                            /\ Agree(log', turn'.plan.kept, Show(log', turn'.plan.replaced))
    BY DEF HistInv, Live
<1>2. Chain(log)
  <2>1. CASE log' = log
    BY <1>1, <2>1
  <2>2. CASE Logs
    BY <1>0, <1>1, <2>2, ChainStored
  <2> QED
    BY <1>0, <2>1, <2>2
<1>3. Hidden(log, 1..Len(log)) \subseteq 1..Len(log)
    BY <1>2 DEF PlanInv, Prefixed
<1>4. mode \in Live => messages \in Seq(1..Len(log)) /\ Agree(log, messages, Rebuilt(log))
    BY <1>2 DEF HistInv, Live
<1>5. ASSUME mode' \in Live
      PROVE  messages' \in Seq(1..Len(log')) /\ Agree(log', messages', Rebuilt(log'))
  <2>1. CASE log' = log /\ messages' = messages /\ mode \in Live
    BY <1>4, <2>1
  <2>2. CASE log' = log /\ messages' = Rebuilt(log)
    <3>1. Rebuilt(log) \in Seq(1..Len(log))
      BY <1>0, <1>2, RebuiltIs
    <3> QED
      BY <2>2, <3>1 DEF Agree
  <2>3. CASE Logs /\ Shown /\ e.type # "context.compacted" /\ mode \in Live
    <3>1. messages' = IF e.type \in Visible THEN Append(messages, Len(log) + 1) ELSE messages
      BY <2>3 DEF Shown, Pushed
    <3>2. log' = Append(log, e)
      BY <1>0, <2>3
    <3> HIDE DEF e
    <3>3. Chain(Append(log, e))
      BY <1>1, <3>2
    <3>4. /\ messages' \in Seq(1..Len(Append(log, e)))
          /\ Agree(Append(log, e), messages', Rebuilt(Append(log, e)))
      BY <1>0, <1>2, <1>3, <1>4, <2>3, <3>1, <3>3, BothAppend
    <3> QED
      BY <3>2, <3>4
  <2>4. CASE Compacts
    <3>1. /\ Logs /\ turn.pc = "compacted" /\ Waits("turn")
          /\ messages' = <<Len(log) + 1>> \o turn.plan.kept
      BY <2>4 DEF Compacts, TurnStored, History, Waits, Stored, Logs
    <3>2. e.type = "context.compacted" /\ e.ref = turn.plan.replaced
      BY <3>1, Present DEF Fits, Written, Logs
    <3>3. /\ turn.plan.replaced \subseteq 1..Len(log)
          /\ turn.plan.kept \in Seq(1..Len(log))
          /\ Agree(log, turn.plan.kept, Show(log, turn.plan.replaced))
      BY <1>2, <3>1 DEF PlanInv, HistInv, Planned, Prefixed
    <3> DEFINE s == turn.plan.kept
    <3>4. log' = Append(log, e)
      BY <1>0, <3>1
    <3>5. /\ e.ref \subseteq 1..Len(log) /\ s \in Seq(1..Len(log)) /\ Agree(log, s, Show(log, e.ref))
          /\ messages' = <<Len(log) + 1>> \o s
      BY <3>1, <3>2, <3>3
    <3> HIDE DEF e, s
    <3>6. Chain(Append(log, e))
      BY <1>1, <3>4
    <3>7. /\ messages' \in Seq(1..Len(Append(log, e)))
          /\ Agree(Append(log, e), messages', Rebuilt(Append(log, e)))
      BY <1>0, <1>2, <1>3, <3>2, <3>5, <3>6, BothReplace
    <3> QED
      BY <3>4, <3>7
  <2> QED
    BY <1>5, <2>1, <2>2, <2>3, <2>4, MessageSteps
<1> QED
    BY <1>1, <1>2, <1>5, NextKeepsKept

-----------------------------------------------------------------------------
(* The tool calls of the live assistant messages and those of the rebuilt  *)
(* ones.                                                                   *)

\* Assistant message a of log l is given call c when it is rebuilt, hidden or not.
Makes(l, a, c) == \E k \in 1..Len(l) :
    a \in 1..Len(l) /\ l[k].ref = c /\ Asker(l, 1..Len(l), a, k)

\* The last assistant message.
Newest(l, a) == /\ a \in 1..Len(l) /\ l[a].type = "assistant.message"
                /\ \A b \in 1..Len(l) : l[b].type = "assistant.message" => b <= a

\* The live history has assistant message a with call c.
Carries(a, c) == <<a, c>> \in carried

\* The compaction hides message a.
Hides(l, a) == a \in Hidden(l, 1..Len(l))

\* An answer of the model was stored and its calls, their results or both are not.
Outstanding == CallPlaces \ {"assistant"}

\* Calls that the turn is still to record.
Pending(t, c) == c \in Nat /\ (IF t.pc = "call" THEN t.call ELSE t.call + 1) <= c
                 /\ c <= t.call + t.calls

\* Every pair is an earlier event and an id that was given out; an answer on its way has ids
\* of its own; the live history carries what would be rebuilt, of the calls that were
\* recorded; those still to be recorded are carried by the last assistant message alone,
\* which no compaction has hidden.
Paired == \A p \in carried : \E a \in 1..Len(log), c \in 1..used.calls : p = <<a, c>>
Unasked == turn.pc = "assistant" /\ turn.outcome \notin {"error", "aborted"} =>
              \A a, c : Carries(a, c) => c <= turn.call
Matched == mode \in Live => \A a, c :
              (Carries(a, c) /\ Says(log, "tool.call", c)) <=> (Makes(log, a, c) /\ ~Hides(log, a))
Awaited == turn.pc \in Outstanding => \E a :
              /\ Newest(log, a) /\ ~Hides(log, a)
              /\ \A x, c : Pending(turn, c) => (Carries(x, c) <=> x = a)

CarryInv == Chain(log) => Paired /\ Unasked /\ Matched /\ Awaited

\* The rebuilt calls as a relation.
LEMMA MakesIs ==
    ASSUME NEW l
    PROVE  /\ \A a, c : <<a, c>> \in CallsMade(l, 1..Len(l)) <=> Makes(l, a, c)
           /\ \A p \in CallsMade(l, 1..Len(l)) : p = <<p[1], p[2]>>
           /\ \A a, c : Makes(l, a, c) => a \in 1..Len(l) /\ Says(l, "tool.call", c)
<1>1. ASSUME NEW a, NEW c, <<a, c>> \in CallsMade(l, 1..Len(l))
      PROVE  Makes(l, a, c)
  <2>1. PICK p \in (1..Len(l)) \X (1..Len(l)) :
           Asker(l, 1..Len(l), p[1], p[2]) /\ <<a, c>> = <<p[1], l[p[2]].ref>>
    BY <1>1 DEF CallsMade
  <2>2. a = p[1] /\ c = l[p[2]].ref /\ p[1] \in 1..Len(l) /\ p[2] \in 1..Len(l)
    BY <2>1
  <2> QED
    BY <2>1, <2>2 DEF Makes
<1>2. ASSUME NEW a, NEW c, Makes(l, a, c)
      PROVE  <<a, c>> \in CallsMade(l, 1..Len(l))
  <2>1. PICK k \in 1..Len(l) : a \in 1..Len(l) /\ l[k].ref = c /\ Asker(l, 1..Len(l), a, k)
    BY <1>2 DEF Makes
  <2> DEFINE p == <<a, k>>
  <2>2. p \in (1..Len(l)) \X (1..Len(l)) /\ p[1] = a /\ p[2] = k
    BY <2>1
  <2>3. <<a, c>> = <<p[1], l[p[2]].ref>> /\ Asker(l, 1..Len(l), p[1], p[2])
    BY <2>1, <2>2
  <2> HIDE DEF p
  <2> QED
    BY <2>2, <2>3 DEF CallsMade
<1>3. ASSUME NEW p \in CallsMade(l, 1..Len(l))
      PROVE  p = <<p[1], p[2]>>
    BY <1>3 DEF CallsMade
<1>4. \A a, c : Makes(l, a, c) => a \in 1..Len(l) /\ Says(l, "tool.call", c)
    BY DEF Makes, Says, Asker
<1> QED
    BY <1>1, <1>2, <1>3, <1>4

\* One more event: only a call adds to what is made, by the last assistant message.
LEMMA MakesAppend ==
    ASSUME NEW l, IsSeq(l), NEW e, NEW A, A = Append(l, e)
    PROVE  /\ e.type # "tool.call" => \A a, c : Makes(A, a, c) <=> Makes(l, a, c)
           /\ \A x : e.type = "tool.call" /\ Newest(l, x) =>
                 \A a, c : Makes(A, a, c) <=> Makes(l, a, c) \/ (a = x /\ c = e.ref)
           /\ \A x : e.type # "assistant.message" /\ Newest(l, x) => Newest(A, x)
           /\ e.type = "assistant.message" => Newest(A, Len(l) + 1)
<1> DEFINE n == Len(l)
<1>1. /\ n \in Nat /\ Len(A) = n + 1 /\ A[n + 1] = e
      /\ \A i \in 1..n : A[i] = l[i]
    BY Appended
<1>0. n = Len(l)
    OBVIOUS
<1> HIDE DEF n
<1>2. ASSUME NEW a \in 1..n, NEW k \in 1..n
      PROVE  Asker(A, 1..(n + 1), a, k) <=> Asker(l, 1..n, a, k)
  <2>1. \A b \in 1..(n + 1) : b \in 1..n \/ b = n + 1
    BY <1>1
  <2>2. \A b \in 1..n : b \in 1..(n + 1)
    BY <1>1
  <2>3. k < n + 1
    BY <1>1
  <2> QED
    BY <1>1, <2>1, <2>2, <2>3 DEF Asker
<1>3. ASSUME NEW a, NEW k, k \in 1..(n + 1), a \in 1..(n + 1), Asker(A, 1..(n + 1), a, k)
      PROVE  a \in 1..n /\ A[k].type = "tool.call" /\ a < k
    BY <1>1, <1>3 DEF Asker
<1>4. \A a, c : Makes(l, a, c) => Makes(A, a, c)
  <2> SUFFICES ASSUME NEW a, NEW c, Makes(l, a, c)  PROVE Makes(A, a, c)
    OBVIOUS
  <2>1. PICK k \in 1..n : a \in 1..n /\ l[k].ref = c /\ Asker(l, 1..n, a, k)
    BY <1>0 DEF Makes
  <2>2. k \in 1..Len(A) /\ a \in 1..Len(A) /\ A[k].ref = c /\ Asker(A, 1..Len(A), a, k)
    BY <1>1, <1>2, <2>1
  <2> QED
    BY <2>2 DEF Makes
<1>5. ASSUME NEW a, NEW c, Makes(A, a, c)
      PROVE  \/ Makes(l, a, c)
             \/ e.type = "tool.call" /\ c = e.ref /\ a \in 1..n /\ Asker(A, 1..(n + 1), a, n + 1)
  <2>1. PICK k \in 1..(n + 1) : a \in 1..(n + 1) /\ A[k].ref = c /\ Asker(A, 1..(n + 1), a, k)
    BY <1>1, <1>5 DEF Makes
  <2>2. a \in 1..n /\ A[k].type = "tool.call" /\ a < k
    BY <1>3, <2>1
  <2>3. CASE k \in 1..n
    <3>1. l[k].ref = c /\ Asker(l, 1..n, a, k)
      BY <1>1, <1>2, <2>1, <2>2, <2>3
    <3> QED
      BY <1>0, <2>2, <2>3, <3>1 DEF Makes
  <2>4. CASE k = n + 1
    BY <1>1, <2>1, <2>2, <2>4
  <2> QED
    BY <1>1, <2>3, <2>4
<1>6. ASSUME NEW x, Newest(l, x), e.type = "tool.call"
      PROVE  \A a : a \in 1..n /\ Asker(A, 1..(n + 1), a, n + 1) <=> a = x
  <2>1. x \in 1..n /\ l[x].type = "assistant.message"
        /\ \A b \in 1..n : l[b].type = "assistant.message" => b <= x
    BY <1>0, <1>6 DEF Newest
  <2>2. x \in 1..n /\ Asker(A, 1..(n + 1), x, n + 1)
    <3>1. \A b \in 1..(n + 1) : A[b].type = "assistant.message" => b <= x
      <4>1. \A b \in 1..(n + 1) : b \in 1..n \/ b = n + 1
        BY <1>1
      <4> QED
        BY <1>1, <1>6, <2>1, <4>1
    <3> QED
      BY <1>1, <1>6, <2>1, <3>1 DEF Asker
  <2>3. ASSUME NEW a, a \in 1..n, Asker(A, 1..(n + 1), a, n + 1)
        PROVE  a = x
    <3>1. l[a].type = "assistant.message"
      BY <1>1, <2>3 DEF Asker
    <3>2. a <= x
      BY <2>1, <2>3, <3>1
    <3>3. x <= a \/ n + 1 < x
      BY <1>1, <2>1, <2>3 DEF Asker
    <3> QED
      BY <1>1, <2>1, <2>3, <3>2, <3>3
  <2> QED
    BY <2>2, <2>3
<1>7. ASSUME NEW x, Newest(l, x), e.type = "tool.call"
      PROVE  \A a, c : Makes(A, a, c) <=> Makes(l, a, c) \/ (a = x /\ c = e.ref)
  <2>1. \A a : a \in 1..n /\ Asker(A, 1..(n + 1), a, n + 1) <=> a = x
    BY <1>6, <1>7
  <2>2. Makes(A, x, e.ref)
    <3>1. n + 1 \in 1..Len(A) /\ x \in 1..Len(A) /\ A[n + 1].ref = e.ref /\ Asker(A, 1..Len(A), x, n + 1)
      BY <1>1, <2>1
    <3> QED
      BY <3>1 DEF Makes
  <2> QED
    BY <1>4, <1>5, <2>1, <2>2
<1>8. ASSUME NEW x, Newest(l, x), e.type # "assistant.message"
      PROVE  Newest(A, x)
  <2>1. \A b \in 1..(n + 1) : b \in 1..n \/ b = n + 1
    BY <1>1
  <2> QED
    BY <1>0, <1>1, <1>8, <2>1 DEF Newest
<1>9. ASSUME e.type = "assistant.message"
      PROVE  Newest(A, n + 1)
    BY <1>1, <1>9 DEF Newest
<1>10. e.type # "tool.call" => \A a, c : Makes(A, a, c) <=> Makes(l, a, c)
    BY <1>4, <1>5
<1> QED
    BY <1>0, <1>7, <1>8, <1>9, <1>10

\* What becomes of the calls that the live history carries.
Answered == /\ TurnStored /\ turn.pc = "assistant" /\ Logs
            /\ Head(appends).event.type = "assistant.message"
            /\ carried' = carried \cup {<<Len(log) + 1, c>> : c \in ToolCalls(turn)}
Reopened == /\ mode = "closed" /\ log' = log /\ turn' = turn
            /\ carried' = CallsFromLineage(log, Len(log))
Ended == carried' = {} /\ turn' = NoTurn /\ mode' = "closed"
CallsSame ==
    /\ carried' = carried
    /\ log' = log \/ (Logs /\ Head(appends).event.type \notin {"assistant.message", "context.compacted"})
    /\ mode' \in Live => mode \in Live

LEMMA CarriedSteps ==
    ASSUME TreeInv, AskType, WriteInv, [Next]_vars
    PROVE  CallsSame \/ Answered \/ Reopened \/ Compacts \/ Ended
<1>1. CASE TurnStep \/ RunTurn
  <2>1. log' = log /\ carried' = carried /\ mode' = mode
    BY <1>1, TurnMoves DEF WriteInv, TurnKeeps
  <2> QED
    BY <2>1 DEF CallsSame
<1>2. CASE \/ Steer \/ Interrupt \/ AskTimesOut \/ OtherAppends \/ Restore \/ ToolAsks \/ TurnFails
           \/ (\E c \in Clients : Respond(c)) \/ UNCHANGED vars
  <2>1. log' = log /\ carried' = carried /\ mode' = mode
    BY <1>2 DEF Steer, Interrupt, AskTimesOut, OtherAppends, Restore, ToolAsks, TurnFails, Respond,
                NoAppend, Calls, opening, vars
  <2> QED
    BY <2>1 DEF CallsSame
<1>3. CASE \/ OtherSettles \/ RestoreSettles \/ AskSettles \/ RecoverySettles
           \/ \E c \in Clients : ResponseSettles(c)
  <2>1. \E who : Waits(who) /\ who # "turn"
    BY <1>3, TurnAssumptions
       DEF OtherSettles, RestoreSettles, AskSettles, RecoverySettles, ResponseSettles
  <2>2. \/ Stored /\ Shown /\ mode' = mode
        \/ log' = log /\ carried' = carried /\ (mode' = mode \/ mode' = "closed")
    BY <1>3 DEF OtherSettles, RestoreSettles, AskSettles, RecoverySettles, ResponseSettles,
                Failed, opening
  <2>3. CASE Stored /\ Shown /\ mode' = mode
    <3>1. LogsOther
      BY <2>1, <2>3 DEF Waits, Stored, LogsOther, Logs
    <3>2. Head(appends).event.type \notin {"assistant.message", "context.compacted"}
      BY <3>1, HeadEnds
    <3>3. carried' = carried
      BY <2>3, <3>2 DEF Shown
    <3> QED
      BY <2>3, <3>1, <3>2, <3>3 DEF LogsOther, CallsSame
  <2> QED
    BY <2>2, <2>3 DEF Live, CallsSame
<1>4. CASE TurnStored
  <2>1. CASE turn.pc # "compacted"
    <3>1. Logs /\ Shown /\ mode' = mode
      BY <1>4, <2>1 DEF TurnStored, Waits, Stored, Logs, History, opening
    <3>2. Fits(Head(appends).event.type, Head(appends).event.ref, turn)
      BY <1>4, <3>1, Present DEF TurnStored, Logs
    <3>3. \A pc : /\ Written(pc) = "context.compacted" => pc = "compacted"
                  /\ Written(pc) = "assistant.message" => pc = "assistant"
      BY DEF Written
    <3>4. Head(appends).event.type # "context.compacted"
      BY <2>1, <3>2, <3>3 DEF Fits
    <3>5. CASE Head(appends).event.type = "assistant.message"
      <4>1. turn.pc = "assistant"
        BY <3>2, <3>3, <3>5 DEF Fits
      <4>2. carried' = carried \cup {<<Len(log) + 1, c>> : c \in ToolCalls(turn)}
        BY <3>1, <3>5 DEF Shown
      <4> QED
        BY <1>4, <3>1, <3>5, <4>1, <4>2 DEF Answered
    <3>6. CASE Head(appends).event.type # "assistant.message"
      <4>1. carried' = carried
        BY <3>1, <3>6 DEF Shown
      <4> QED
        BY <3>1, <3>4, <3>6, <4>1 DEF CallsSame
    <3> QED
      BY <3>5, <3>6
  <2> QED
    BY <1>4, <2>1 DEF Compacts
<1>5. CASE Open
  <2>1. CASE ~Openable(log) /\ mode' = "unreadable" /\ carried' = carried
    BY <1>5, <2>1 DEF Open, Live, CallsSame
  <2>2. CASE carried' = CallsFromLineage(log, Len(log))
    BY <1>5, <2>2 DEF Open, Reopened
  <2> QED
    BY <1>5, <2>1, <2>2 DEF Open
<1>6. CASE Recover
    BY <1>6 DEF Recover, Calls, Live, CallsSame
<1>7. CASE Crash
    BY <1>7 DEF Crash, Ended
<1> QED
    BY <1>1, <1>2, <1>3, <1>4, <1>5, <1>6, <1>7 DEF Next, Settles

\* The messages of the model that a plan keeps are those that it does not replace.
LEMMA KeptAre ==
    ASSUME NEW l, IsSeq(l), NEW R, NEW s \in Seq(1..Len(l)), Agree(l, s, Show(l, R)),
           NEW a \in 1..Len(l), l[a].type = "assistant.message"
    PROVE  a \in Elements(s) <=> a \notin R
<1> DEFINE K == Shares(l)
           g == Show(l, R)
           N == 1..Len(l)
<1>1. a \in K /\ a \in N
    BY DEF Shares
<1>2. /\ g \in Seq(N)
      /\ \A j \in 1..Len(g) : g[j] \notin R
      /\ a \notin R => \E j \in 1..Len(g) : g[j] = a
    BY ShowIs DEF Visible
<1>3. Only(s, K) = Only(g, K) /\ s \in Seq(N)
    BY DEF Agree
<1> HIDE DEF K, g, N
<1>4. \A q \in Seq(N) : (\E i \in 1..Len(q) : q[i] = a) <=>
                        (\E j \in 1..Len(Only(q, K)) : Only(q, K)[j] = a)
  <2> TAKE q \in Seq(N)
  <2>1. \A S, J : \A t \in Seq(S) : \A i \in 1..Len(t) :
           t[i] \in J => \E j \in 1..Len(Only(t, J)) : Only(t, J)[j] = t[i]
    BY OnlyHas
  <2>2. \A S, J : \A t \in Seq(S) : \A j \in 1..Len(Only(t, J)) :
           \E i \in 1..Len(t) : t[i] = Only(t, J)[j]
    BY OnlyOf
  <2>3. \A i \in 1..Len(q) : q[i] \in K => \E j \in 1..Len(Only(q, K)) : Only(q, K)[j] = q[i]
    BY <2>1
  <2>4. \A j \in 1..Len(Only(q, K)) : \E i \in 1..Len(q) : q[i] = Only(q, K)[j]
    BY <2>2
  <2> QED
    BY <1>1, <2>3, <2>4
<1>5. (\E i \in 1..Len(s) : s[i] = a) <=> (\E i \in 1..Len(g) : g[i] = a)
    BY <1>2, <1>3, <1>4
<1>6. a \in Elements(s) <=> \E i \in 1..Len(s) : s[i] = a
    BY DEF Elements
<1> QED
    BY <1>2, <1>5, <1>6

\* Only an answer of the model opens calls; everything else leaves or closes them.
LEMMA PendingStays ==
    ASSUME TreeInv, AskType, WriteInv, [Next]_vars, turn'.pc \in Outstanding,
           ~(TurnStored /\ turn.pc = "assistant")
    PROVE  turn.pc \in Outstanding /\ \A c : Pending(turn', c) => Pending(turn, c)
<1>0. turn.call \in Nat /\ turn.calls \in Nat
    BY DEF WriteInv, TurnAt
<1>1. CASE Stays
    BY <1>1 DEF Stays, Pending
<1>2. CASE Works
  <2>1. turn.pc \in Outstanding /\ turn.pc # "call" /\ turn'.pc # "call"
    BY <1>2 DEF Works, Working, Outstanding, CallPlaces
  <2> QED
    BY <1>2, <2>1 DEF Works, Pending
<1>3. CASE Leaves
    BY <1>3 DEF Leaves, Outstanding, CallPlaces
<1>4. CASE Moves
  <2>1. CASE Calling
    <3>1. turn.pc = "calls" /\ turn'.pc = "call" /\ turn'.call = turn.call + 1
          /\ turn'.calls = turn.calls - 1
      BY <2>1 DEF Calling
    <3>2. \A c : Pending(turn', c) => Pending(turn, c)
      BY <1>0, <3>1 DEF Pending
    <3> QED
      BY <3>1, <3>2 DEF Outstanding, CallPlaces
  <2>2. CASE Returning
    <3>1. turn.pc \in Outstanding /\ turn.pc # "call" /\ turn'.pc # "call"
      BY <2>2 DEF Returning, Working, Outstanding, CallPlaces
    <3> QED
      BY <2>2, <3>1 DEF Returning, Pending
  <2>3. CASE Answering \/ Replies \/ Elsewhere
    BY <2>3 DEF Answering, Replies, Elsewhere, Outstanding
  <2> QED
    BY <1>4, <2>1, <2>2, <2>3 DEF Moves
<1>5. CASE TurnStored
  <2>1. turn' = After(turn) /\ TurnAt(turn) /\ Written(turn.pc) # "none"
    BY <1>5, TurnAlone DEF TurnStored, WriteInv
  <2>2. turn.pc \in {"call", "result"}
    BY <1>5, <2>1, AfterCalls, WrittenIs DEF Outstanding, CallPlaces
  <2>3. turn'.call = turn.call /\ turn'.calls = turn.calls
    BY <2>1, <2>2, AfterCalls
  <2>4. turn'.pc # "call"
    BY <2>1, <2>2, AfterCalls
  <2>5. \A c : Pending(turn', c) => Pending(turn, c)
    BY <1>0, <2>3, <2>4 DEF Pending
  <2> QED
    BY <2>2, <2>5 DEF Outstanding, CallPlaces
<1> QED
    BY <1>1, <1>2, <1>3, <1>4, <1>5, StepKinds

\* No id is taken back.
LEMMA UsedGrows ==
    ASSUME TreeInv, AskType, WriteInv, [Next]_vars
    PROVE  used'.calls \in Nat /\ used.calls <= used'.calls
<1>0. used.calls \in Nat
    BY DEF AskType
<1>1. CASE Stays \/ Works \/ Leaves
    BY <1>0, <1>1 DEF Stays, Works, Leaves
<1>2. CASE Moves
    BY <1>0, <1>2 DEF Moves, Answering, Calling, Returning, Replies, Elsewhere
<1>3. CASE TurnStored
    BY <1>0, <1>3 DEF TurnStored
<1> QED
    BY <1>1, <1>2, <1>3, StepKinds

\* The calls of an answer are new and within the ids given out.
LEMMA AnswerFresh ==
    ASSUME AskType, WriteInv, CallInv, turn.pc = "assistant", NEW c \in ToolCalls(turn)
    PROVE  /\ turn.outcome \notin {"error", "aborted"}
           /\ c \in 1..used.calls /\ turn.call < c /\ ~Says(log, "tool.call", c)
<1>1. turn.outcome \notin {"error", "aborted"} /\ c \in (turn.call + 1)..(turn.call + turn.calls)
    BY DEF ToolCalls
<1>2. Asked(turn) /\ turn.call \in Nat /\ turn.calls \in Nat /\ used.calls \in Nat
    BY <1>1 DEF Asked, WriteInv, TurnAt, AskType
<1>3. turn.call + turn.calls <= used.calls /\ \A r \in Nat : Says(log, "tool.call", r) => r <= turn.call
    BY <1>2 DEF CallInv
<1> QED
    BY <1>1, <1>2, <1>3

\* What the live history carries after each step, call by call.
LEMMA CarriesNext ==
    ASSUME TreeInv, WriteInv, Chain(log)
    PROVE  /\ CallsSame => \A a, c : Carries(a, c)' <=> Carries(a, c)
           /\ Answered => \A a, c : Carries(a, c)' <=>
                 Carries(a, c) \/ (a = Len(log) + 1 /\ c \in ToolCalls(turn))
           /\ Reopened => \A a, c : Carries(a, c)' <=> Makes(log, a, c) /\ ~Hides(log, a)
           /\ Compacts => \A a, c : Carries(a, c)' <=>
                 Makes(log, a, c) /\ a \in Elements(turn.plan.kept)
           /\ Reopened \/ Compacts => carried' \subseteq CallsMade(log, 1..Len(log))
<1>1. Lineage(log, Len(log)) = 1..Len(log)
    BY GroupsAre DEF TreeInv, Tips
<1>2. CallsSame => \A a, c : Carries(a, c)' <=> Carries(a, c)
    BY DEF CallsSame, Carries
<1>3. Answered => \A a, c : Carries(a, c)' <=>
                 Carries(a, c) \/ (a = Len(log) + 1 /\ c \in ToolCalls(turn))
  <2> SUFFICES ASSUME Answered, NEW a, NEW c
               PROVE  Carries(a, c)' <=> Carries(a, c) \/ (a = Len(log) + 1 /\ c \in ToolCalls(turn))
    OBVIOUS
  <2> DEFINE n == Len(log) + 1
             T == ToolCalls(turn)
  <2>1. carried' = carried \cup {<<n, d>> : d \in T}
    BY DEF Answered
  <2> HIDE DEF n, T
  <2>2. <<a, c>> \in carried' <=> <<a, c>> \in carried \/ (a = n /\ c \in T)
    BY <2>1
  <2> QED
    BY <2>2 DEF n, T, Carries
<1>4. Reopened => carried' = {p \in CallsMade(log, 1..Len(log)) : p[1] \notin Hidden(log, 1..Len(log))}
    BY <1>1 DEF Reopened, CallsFromLineage
<1>5. Reopened => \A a, c : Carries(a, c)' <=> Makes(log, a, c) /\ ~Hides(log, a)
  <2> SUFFICES ASSUME Reopened, NEW a, NEW c
               PROVE  Carries(a, c)' <=> Makes(log, a, c) /\ ~Hides(log, a)
    OBVIOUS
  <2>1. <<a, c>> \in carried' <=> <<a, c>> \in CallsMade(log, 1..Len(log)) /\ a \notin Hidden(log, 1..Len(log))
    BY <1>4
  <2> QED
    BY <2>1, MakesIs DEF Carries, Hides
<1>6. Compacts => carried' = {p \in CallsMade(log, 1..Len(log)) : p[1] \in Elements(turn.plan.kept)}
  <2> SUFFICES ASSUME Compacts
               PROVE  carried' = {p \in CallsMade(log, 1..Len(log)) : p[1] \in Elements(turn.plan.kept)}
    OBVIOUS
  <2>1. carried' = {p \in CallsMade(log, Lineage(log, tip)) : p[1] \in Elements(turn.plan.kept)}
    BY DEF Compacts, TurnStored, History
  <2>2. mode = "open" /\ tip = Len(log)
    BY Running DEF Compacts, WriteInv, Modes
  <2> QED
    BY <1>1, <2>1, <2>2
<1>7. Compacts => \A a, c : Carries(a, c)' <=> Makes(log, a, c) /\ a \in Elements(turn.plan.kept)
  <2> SUFFICES ASSUME Compacts, NEW a, NEW c
               PROVE  Carries(a, c)' <=> Makes(log, a, c) /\ a \in Elements(turn.plan.kept)
    OBVIOUS
  <2>1. <<a, c>> \in carried' <=> <<a, c>> \in CallsMade(log, 1..Len(log)) /\ a \in Elements(turn.plan.kept)
    BY <1>6
  <2> QED
    BY <2>1, MakesIs DEF Carries
<1> QED
    BY <1>2, <1>3, <1>4, <1>5, <1>6, <1>7

\* What a step leaves of the calls that are made, and of what the compaction hides.
LEMMA MadeNext ==
    ASSUME TreeInv, WriteInv, PlanInv, Chain(log)
    PROVE  /\ log' = log => /\ \A a, c : Makes(log', a, c) <=> Makes(log, a, c)
                            /\ \A a : Hides(log', a) <=> Hides(log, a)
                            /\ \A c : Says(log', "tool.call", c) <=> Says(log, "tool.call", c)
           /\ Logs /\ Head(appends).event.type # "tool.call" =>
                 /\ \A a, c : Makes(log', a, c) <=> Makes(log, a, c)
                 /\ \A c : Says(log', "tool.call", c) <=> Says(log, "tool.call", c)
           /\ Logs /\ Head(appends).event.type # "context.compacted" =>
                 \A a : Hides(log', a) <=> Hides(log, a)
           /\ \A a : Hides(log, a) => a \in 1..Len(log)
<1> DEFINE e == Head(appends).event
           A == Append(log, e)
<1>0. IsSeq(log) /\ Latest(log) /\ Hidden(log, 1..Len(log)) \subseteq 1..Len(log)
    BY DEF TreeInv, Tips, PlanInv, Prefixed
<1>1. Logs => log' = A
    BY DEF Logs
<1>2. \A type, r : Says(A, type, r) <=> Says(log, type, r) \/ (e.type = type /\ e.ref = r)
  <2> HIDE DEF e
  <2> QED
    BY <1>0, SaysAppend
<1>3. e.type # "tool.call" => \A a, c : Makes(A, a, c) <=> Makes(log, a, c)
  <2> HIDE DEF e
  <2> QED
    BY <1>0, MakesAppend
<1>4. e.type # "context.compacted" => Hidden(A, 1..Len(A)) = Hidden(log, 1..Len(log))
  <2> HIDE DEF e
  <2> QED
    BY <1>0, LatestAppend
<1> HIDE DEF A
<1>5. Logs /\ e.type # "tool.call" => \A a, c : Makes(log', a, c) <=> Makes(log, a, c)
    BY <1>1, <1>3
<1>6. Logs /\ e.type # "context.compacted" => Hidden(log', 1..Len(log')) = Hidden(log, 1..Len(log))
    BY <1>1, <1>4
<1>7. Logs /\ e.type # "tool.call" => \A c : Says(log', "tool.call", c) <=> Says(log, "tool.call", c)
    BY <1>1, <1>2
<1>8. log' = log => /\ \A a, c : Makes(log', a, c) <=> Makes(log, a, c)
                    /\ Hidden(log', 1..Len(log')) = Hidden(log, 1..Len(log))
                    /\ \A c : Says(log', "tool.call", c) <=> Says(log, "tool.call", c)
    OBVIOUS
<1>9. \A a : Hides(log', a) <=> a \in Hidden(log', 1..Len(log'))
    BY DEF Hides
<1>10. \A a : Hides(log, a) <=> a \in Hidden(log, 1..Len(log))
    BY DEF Hides
<1> QED
    BY <1>0, <1>5, <1>6, <1>7, <1>8, <1>9, <1>10

\* Every pair is of an earlier event and of an id that was given out.
LEMMA NextKeepsPaired ==
    ASSUME TreeInv, AskType, WriteInv, CallInv, Chain(log), Paired, [Next]_vars
    PROVE  Paired'
<1> DEFINE m == Len(log)
           u == used.calls
           v == used'.calls
<1>1. m \in Nat /\ Len(log') \in Nat /\ m <= Len(log') /\ (Logs => Len(log') = m + 1)
  <2>1. IsSeq(log) /\ m \in Nat
    BY Empty DEF TreeInv, Tips
  <2>2. Logs => Len(log') = m + 1
    BY <2>1, Appended DEF Logs
  <2> QED
    BY <2>1, <2>2, LogSteps
<1>2. u \in Nat /\ v \in Nat /\ u <= v
    BY UsedGrows DEF AskType
<1>3. \A p \in carried : \E a \in 1..m, c \in 1..u : p = <<a, c>>
    BY DEF Paired
<1>4. \A r : Says(log, "tool.call", r) => r \in 1..u
    BY DEF CallInv
<1>5. SUFFICES ASSUME NEW p \in carried'
               PROVE  \E a \in 1..Len(log'), c \in 1..v : p = <<a, c>>
    BY DEF Paired
<1> HIDE DEF m, u, v
<1>6. (\E a \in 1..m, c \in 1..u : p = <<a, c>>) => \E a \in 1..Len(log'), c \in 1..v : p = <<a, c>>
  <2>1. (\A a \in 1..m : a \in 1..Len(log')) /\ \A c \in 1..u : c \in 1..v
    BY <1>1, <1>2
  <2> QED
    BY <2>1
<1>7. CASE CallsSame
    BY <1>3, <1>6, <1>7 DEF CallsSame
<1>8. CASE Answered
  <2>1. p \in carried \/ \E c \in ToolCalls(turn) : p = <<m + 1, c>>
    BY <1>8 DEF Answered, m
  <2>2. \A c \in ToolCalls(turn) : c \in 1..u
    BY <1>8, AnswerFresh DEF Answered, u
  <2>3. m + 1 \in 1..Len(log') /\ \A c \in 1..u : c \in 1..v
    BY <1>1, <1>2, <1>8 DEF Answered
  <2> QED
    BY <1>3, <1>6, <2>1, <2>2, <2>3
<1>9. CASE Reopened \/ Compacts
  <2>1. p \in CallsMade(log, 1..Len(log))
    BY <1>9, CarriesNext
  <2>2. p = <<p[1], p[2]>> /\ Makes(log, p[1], p[2])
    BY <2>1, MakesIs
  <2>3. p[1] \in 1..m /\ p[2] \in 1..u
    BY <1>4, <2>2, MakesIs DEF m
  <2> QED
    BY <1>6, <2>2, <2>3
<1>10. CASE Ended
    BY <1>10 DEF Ended
<1> QED
    BY <1>7, <1>8, <1>9, <1>10, CarriedSteps

\* An answer on its way has ids of its own.
LEMMA NextKeepsUnasked ==
    ASSUME TreeInv, AskType, WriteInv, CallInv, Chain(log), Paired, Unasked, [Next]_vars
    PROVE  Unasked'
<1>1. SUFFICES ASSUME turn'.pc = "assistant", turn'.outcome \notin {"error", "aborted"},
                      NEW a, NEW c, Carries(a, c)'
               PROVE  c <= turn'.call
    BY DEF Unasked
<1>2. ~TurnStored
  <2>1. TurnStored => turn' = After(turn) /\ TurnAt(turn) /\ Written(turn.pc) # "none"
    BY TurnAlone DEF TurnStored, WriteInv
  <2>2. TurnStored => After(turn).pc # "assistant"
    <3>1. ASSUME NEW t, TurnAt(t), Written(t.pc) # "none"  PROVE After(t).pc # "assistant"
      <4>1. t.pc \in {"call", "result", "assistant"} \/ t.pc \notin CallPlaces
        BY <3>1, WrittenIs DEF CallPlaces
      <4> QED
        BY <3>1, <4>1, AfterCalls DEF CallPlaces
    <3> QED
      BY <2>1, <3>1
  <2> QED
    BY <1>1, <2>1, <2>2
<1>3. Carries(a, c)
  <2>1. ~Reopened
    <3>1. Reopened => turn.pc # "none" /\ mode = "closed"
      BY <1>1 DEF Reopened
    <3>2. turn.pc # "none" => mode = "open"
      BY Running
    <3> QED
      BY <3>1, <3>2
  <2>2. ~Ended
    BY <1>1, NoTurnTyped DEF Ended
  <2>3. CallsSame
    BY <1>2, <2>1, <2>2, CarriedSteps DEF Answered, Compacts
  <2> QED
    BY <1>1, <2>3, CarriesNext
<1>4. c \in 1..used.calls
  <2>1. PICK x \in 1..Len(log), y \in 1..used.calls : <<a, c>> = <<x, y>>
    BY <1>3 DEF Paired, Carries
  <2> QED
    BY <2>1
<1>5. used.calls \in Nat
    BY DEF AskType
<1>6. CASE Stays
    BY <1>1, <1>3, <1>6 DEF Stays, Unasked
<1>7. CASE Works \/ Leaves
    BY <1>1, <1>7 DEF Works, Leaves, Working
<1>8. CASE Moves
  <2>1. CASE Answering
    BY <1>4, <1>5, <2>1 DEF Answering
  <2>2. CASE Replies
    BY <1>1, <2>2 DEF Replies, CallInv
  <2>3. CASE Calling \/ Returning \/ Elsewhere
    BY <1>1, <2>3 DEF Calling, Returning, Elsewhere, Working, CallPlaces
  <2> QED
    BY <1>8, <2>1, <2>2, <2>3 DEF Moves
<1> QED
    BY <1>2, <1>6, <1>7, <1>8, StepKinds

\* The calls still to be recorded are those of the last assistant message.
LEMMA NextKeepsAwaited ==
    ASSUME TreeInv, AskType, WriteInv, CallInv, PlanInv, Chain(log), Unasked, Awaited, [Next]_vars
    PROVE  Awaited'
<1> DEFINE e == Head(appends).event
<1>0. IsSeq(log) /\ Len(log) \in Nat
    BY Empty DEF TreeInv, Tips
<1>1. SUFFICES ASSUME turn'.pc \in Outstanding
               PROVE  \E a : /\ Newest(log', a) /\ ~Hides(log', a)
                             /\ \A x, c : Pending(turn', c) => (Carries(x, c)' <=> x = a)
    BY DEF Awaited
<1>2. CASE Answered
  <2>1. /\ Logs /\ e.type = "assistant.message" /\ turn.pc = "assistant" /\ turn' = After(turn)
        /\ log' = Append(log, e)
    BY <1>2 DEF Answered, TurnStored, Logs
  <2>2. TurnAt(turn) /\ Written(turn.pc) # "none"
    BY <2>1, WrittenIs DEF WriteInv
  <2>3. /\ turn'.call = turn.call /\ turn'.calls = turn.calls /\ turn'.pc = "calls"
        /\ turn.outcome \notin {"error", "aborted"}
    BY <1>1, <2>1, <2>2, AfterCalls DEF Outstanding, CallPlaces
  <2> DEFINE n == Len(log) + 1
  <2>4. Newest(log', n)
    <3> HIDE DEF e
    <3> QED
      BY <1>0, <2>1, MakesAppend
  <2>5. ~Hides(log', n)
    <3>1. ~(n \in 1..Len(log))
      BY <1>0
    <3>2. e.type # "context.compacted"
      BY <2>1
    <3> QED
      BY <2>1, <3>1, <3>2, MadeNext
  <2>6. ASSUME NEW x, NEW c, Pending(turn', c)
        PROVE  Carries(x, c)' <=> x = n
    <3>1. turn.call \in Nat /\ turn.calls \in Nat
      BY <2>2 DEF TurnAt
    <3>2. c \in Nat /\ turn.call + 1 <= c /\ c <= turn.call + turn.calls
      BY <2>3, <2>6 DEF Pending
    <3>3. c \in ToolCalls(turn)
      BY <2>3, <3>1, <3>2 DEF ToolCalls
    <3>4. ~Carries(x, c)
      <4>1. Carries(x, c) => c <= turn.call
        BY <2>1, <2>3 DEF Unasked
      <4> QED
        BY <3>1, <3>2, <4>1
    <3>5. Carries(x, c)' <=> Carries(x, c) \/ (x = n /\ c \in ToolCalls(turn))
      BY <1>2, CarriesNext
    <3> QED
      BY <3>3, <3>4, <3>5
  <2> QED
    BY <2>4, <2>5, <2>6
<1>3. CASE ~(TurnStored /\ turn.pc = "assistant")
  <2>1. turn.pc \in Outstanding /\ \A c : Pending(turn', c) => Pending(turn, c)
    BY <1>1, <1>3, PendingStays
  <2>2. turn.pc # "none" /\ turn.pc # "compacted" /\ turn'.pc # "none"
    BY <1>1, <2>1 DEF Outstanding, CallPlaces
  <2>3. CallsSame
    <3>1. ~Reopened
      BY <2>2, Running DEF Reopened
    <3>2. ~Ended
      BY <2>2, NoTurnTyped DEF Ended
    <3> QED
      BY <1>3, <2>2, <3>1, <3>2, CarriedSteps DEF Answered, Compacts
  <2>4. PICK a : /\ Newest(log, a) /\ ~Hides(log, a)
                 /\ \A x, c : Pending(turn, c) => (Carries(x, c) <=> x = a)
    BY <2>1 DEF Awaited
  <2>5. Newest(log', a) /\ ~Hides(log', a)
    <3>1. CASE log' = log
      BY <2>4, <3>1, MadeNext
    <3>2. CASE Logs /\ e.type \notin {"assistant.message", "context.compacted"}
      <4>1. log' = Append(log, e) /\ e.type # "assistant.message" /\ e.type # "context.compacted"
        BY <3>2 DEF Logs
      <4>2. Newest(log', a)
        <5> HIDE DEF e
        <5> QED
          BY <1>0, <2>4, <4>1, MakesAppend
      <4>3. ~Hides(log', a)
        BY <2>4, <3>2, <4>1, MadeNext
      <4> QED
        BY <4>2, <4>3
    <3> QED
      BY <2>3, <3>1, <3>2 DEF CallsSame
  <2>6. \A x, c : Carries(x, c)' <=> Carries(x, c)
    BY <2>3, CarriesNext
  <2> QED
    BY <2>1, <2>4, <2>5, <2>6
<1>4. TurnStored /\ turn.pc = "assistant" => Answered
  <2>1. TurnStored /\ turn.pc = "assistant" => Logs /\ Shown
    BY DEF TurnStored, Waits, Stored, Logs, History
  <2>2. TurnStored /\ turn.pc = "assistant" => e.type = "assistant.message"
    BY <2>1, Present, WrittenIs DEF TurnStored, Fits, Logs
  <2> QED
    BY <2>1, <2>2 DEF Shown, Answered
<1> QED
    BY <1>2, <1>3, <1>4

\* Of the calls that were recorded, the live history carries what would be rebuilt.
LEMMA NextKeepsMatched ==
    ASSUME TreeInv, AskType, WriteInv, CallInv, PlanInv, HistInv, Chain(log), Chain(log'),
           Matched, Awaited, [Next]_vars
    PROVE  Matched'
<1> DEFINE e == Head(appends).event
<1>0. IsSeq(log) /\ Len(log) \in Nat
    BY Empty DEF TreeInv, Tips
<1>1. SUFFICES ASSUME mode' \in Live, NEW a, NEW c
               PROVE  (Carries(a, c)' /\ Says(log', "tool.call", c)) <=>
                      (Makes(log', a, c) /\ ~Hides(log', a))
    BY DEF Matched
<1>2. Makes(log, a, c) => Says(log, "tool.call", c) /\ a \in 1..Len(log)
    BY MakesIs
<1>3. CASE CallsSame
  <2>1. mode \in Live /\ (Carries(a, c)' <=> Carries(a, c))
    BY <1>1, <1>3, CarriesNext DEF CallsSame
  <2>2. (Carries(a, c) /\ Says(log, "tool.call", c)) <=> (Makes(log, a, c) /\ ~Hides(log, a))
    BY <2>1 DEF Matched
  <2>3. CASE log' = log
    BY <2>1, <2>2, <2>3, MadeNext
  <2>4. CASE Logs /\ e.type \notin {"assistant.message", "context.compacted", "tool.call"}
    <3>1. /\ Makes(log', a, c) <=> Makes(log, a, c)
          /\ Says(log', "tool.call", c) <=> Says(log, "tool.call", c)
          /\ Hides(log', a) <=> Hides(log, a)
      BY <2>4, MadeNext
    <3> QED
      BY <2>1, <2>2, <3>1
  <2>5. CASE Logs /\ e.type = "tool.call"
    <3>1. turn.pc = "call" /\ e.ref = turn.call /\ log' = Append(log, e)
      BY <2>5, HeadCalls DEF Logs
    <3>2. Pending(turn, turn.call) /\ turn.pc \in Outstanding
      BY <3>1 DEF Pending, Outstanding, CallPlaces, WriteInv, TurnAt
    <3>3. PICK b : Newest(log, b) /\ ~Hides(log, b) /\ \A x : Carries(x, turn.call) <=> x = b
      BY <3>2 DEF Awaited
    <3>4. Makes(log', a, c) <=> Makes(log, a, c) \/ (a = b /\ c = turn.call)
      <4>1. e.type = "tool.call"
        BY <2>5
      <4> HIDE DEF e
      <4>2. Makes(log', a, c) <=> Makes(log, a, c) \/ (a = b /\ c = e.ref)
        BY <1>0, <3>1, <3>3, <4>1, MakesAppend
      <4> QED
        BY <3>1, <4>2
    <3>5. Says(log', "tool.call", c) <=> Says(log, "tool.call", c) \/ c = turn.call
      <4>1. e.type = "tool.call"
        BY <2>5
      <4> HIDE DEF e
      <4>2. Says(log', "tool.call", c) <=> Says(log, "tool.call", c) \/ (e.type = "tool.call" /\ e.ref = c)
        BY <1>0, <3>1, SaysAppend
      <4> QED
        BY <3>1, <4>1, <4>2
    <3>6. Hides(log', a) <=> Hides(log, a)
      BY <2>5, MadeNext
    <3>7. Carries(a, turn.call) <=> a = b
      BY <3>3
    <3> QED
      BY <2>1, <2>2, <3>3, <3>4, <3>5, <3>6, <3>7
  <2> QED
    BY <1>3, <2>3, <2>4, <2>5 DEF CallsSame
<1>4. CASE Answered
  <2>1. /\ Makes(log', a, c) <=> Makes(log, a, c)
        /\ Says(log', "tool.call", c) <=> Says(log, "tool.call", c)
        /\ Hides(log', a) <=> Hides(log, a)
    BY <1>4, MadeNext DEF Answered
  <2>2. Carries(a, c)' <=> Carries(a, c) \/ (a = Len(log) + 1 /\ c \in ToolCalls(turn))
    BY <1>4, CarriesNext
  <2>3. c \in ToolCalls(turn) => ~Says(log, "tool.call", c)
    BY <1>4, AnswerFresh DEF Answered
  <2>4. mode = "open"
    BY <1>4, Running DEF Answered
  <2>5. (Carries(a, c) /\ Says(log, "tool.call", c)) <=> (Makes(log, a, c) /\ ~Hides(log, a))
    BY <2>4 DEF Matched, Live
  <2> QED
    BY <2>1, <2>2, <2>3, <2>5
<1>5. CASE Reopened
  <2>1. Carries(a, c)' <=> Makes(log, a, c) /\ ~Hides(log, a)
    BY <1>5, CarriesNext
  <2>2. /\ Makes(log', a, c) <=> Makes(log, a, c)
        /\ Says(log', "tool.call", c) <=> Says(log, "tool.call", c)
        /\ Hides(log', a) <=> Hides(log, a)
    BY <1>5, MadeNext DEF Reopened
  <2> QED
    BY <1>2, <2>1, <2>2
<1>6. CASE Compacts
  <2>1. Carries(a, c)' <=> Makes(log, a, c) /\ a \in Elements(turn.plan.kept)
    BY <1>6, CarriesNext
  <2>2. Logs /\ turn.pc = "compacted" /\ Waits("turn") /\ log' = Append(log, e)
    BY <1>6 DEF Compacts, TurnStored, Waits, Stored, Logs
  <2>3. e.type = "context.compacted" /\ e.ref = turn.plan.replaced
    BY <2>2, Present DEF Fits, Written, Logs
  <2>4. /\ Makes(log', a, c) <=> Makes(log, a, c)
        /\ Says(log', "tool.call", c) <=> Says(log, "tool.call", c)
    BY <2>2, <2>3, MadeNext
  <2> DEFINE R == turn.plan.replaced
             s == turn.plan.kept
  <2>5. s \in Seq(1..Len(log)) /\ Agree(log, s, Show(log, R))
    BY <2>2 DEF HistInv, Planned
  <2>6. Hides(log', a) <=> a \in R
    <3> DEFINE A == Append(log, e)
    <3>1. Hidden(A, 1..Len(A)) = e.ref
      <4>1. e.type = "context.compacted" /\ Latest(log)
        BY <2>3 DEF PlanInv
      <4> HIDE DEF e
      <4> QED
        BY <1>0, <4>1, LatestAppend
    <3>2. log' = A
      BY <2>2
    <3> HIDE DEF A
    <3>3. Hides(log', a) <=> a \in Hidden(log', 1..Len(log'))
      BY DEF Hides
    <3> QED
      BY <2>3, <3>1, <3>2, <3>3
  <2> HIDE DEF R, s
  <2>7. Makes(log, a, c) => (a \in Elements(s) <=> a \notin R)
    <3>1. Makes(log, a, c) => a \in 1..Len(log) /\ log[a].type = "assistant.message"
      BY DEF Makes, Asker
    <3> QED
      BY <1>0, <2>5, <3>1, KeptAre
  <2> QED
    BY <1>2, <2>1, <2>4, <2>6, <2>7 DEF s
<1>7. CASE Ended
    BY <1>1, <1>7 DEF Ended, Live
<1> QED
    BY <1>3, <1>4, <1>5, <1>6, <1>7, CarriedSteps

\* No step makes the two differ in the calls that were recorded.
LEMMA NextKeepsCarried ==
    ASSUME TreeInv, AskType, WriteInv, CallInv, PlanInv, HistInv, CarryInv, [Next]_vars
    PROVE  CarryInv'
<1>1. SUFFICES ASSUME Chain(log')
               PROVE  Paired' /\ Unasked' /\ Matched' /\ Awaited'
    BY DEF CarryInv
<1>2. Chain(log)
  <2>1. IsSeq(log) /\ (log' = log \/ Logs)
    BY LogSteps DEF TreeInv, Tips
  <2>2. CASE Logs
    BY <1>1, <2>1, <2>2, ChainStored DEF Logs
  <2> QED
    BY <1>1, <2>1, <2>2
<1>3. Paired /\ Unasked /\ Matched /\ Awaited
    BY <1>2 DEF CarryInv
<1> QED
    BY <1>1, <1>2, <1>3, NextKeepsPaired, NextKeepsUnasked, NextKeepsMatched, NextKeepsAwaited

\* The recorded calls that the live history carries are those that an open would rebuild.
LEMMA CarriedAre ==
    ASSUME TreeInv, WriteInv, CarryInv, Chain(log), mode \in Live
    PROVE  {p \in carried : p[2] \in {log[k].ref : k \in {j \in 1..Len(log) : log[j].type = "tool.call"}}}
           = CallsFromLineage(log, tip)
<1> DEFINE recorded == {log[k].ref : k \in {j \in 1..Len(log) : log[j].type = "tool.call"}}
           rebuilt == {p \in CallsMade(log, 1..Len(log)) : p[1] \notin Hidden(log, 1..Len(log))}
<1>1. CallsFromLineage(log, tip) = rebuilt
  <2>1. tip = Len(log)
    BY DEF WriteInv, Modes, Live
  <2>2. Lineage(log, tip) = 1..Len(log)
    BY <2>1, GroupsAre DEF TreeInv, Tips
  <2> QED
    BY <2>2 DEF CallsFromLineage
<1>2. \A c : c \in recorded <=> Says(log, "tool.call", c)
    BY DEF Says
<1>3. \A a, c : (<<a, c>> \in carried /\ c \in recorded) <=> <<a, c>> \in rebuilt
  <2> TAKE a, c
  <2>1. (Carries(a, c) /\ Says(log, "tool.call", c)) <=> (Makes(log, a, c) /\ ~Hides(log, a))
    BY DEF CarryInv, Matched
  <2>2. <<a, c>> \in CallsMade(log, 1..Len(log)) <=> Makes(log, a, c)
    BY MakesIs
  <2>3. <<a, c>> \in rebuilt <=> Makes(log, a, c) /\ ~Hides(log, a)
    BY <2>2 DEF Hides
  <2> HIDE DEF recorded, rebuilt
  <2> QED
    BY <1>2, <2>1, <2>3 DEF Carries
<1>4. \A p \in carried : p = <<p[1], p[2]>>
    BY DEF CarryInv, Paired
<1>5. \A p \in rebuilt : p = <<p[1], p[2]>>
    BY MakesIs
<1> HIDE DEF recorded, rebuilt
<1>6. ASSUME NEW p \in carried, p[2] \in recorded  PROVE p \in rebuilt
    BY <1>3, <1>4, <1>6
<1>7. ASSUME NEW p \in rebuilt  PROVE p \in carried /\ p[2] \in recorded
    BY <1>3, <1>5, <1>7
<1>8. {p \in carried : p[2] \in recorded} = rebuilt
    BY <1>6, <1>7
<1> QED
    BY <1>1, <1>8 DEF recorded

\* HistoryMatches: across turns, tool calls, compactions, failed appends, crashes and
\* recoveries, the history that the model is shown and the one that an open would rebuild
\* from the log share the same events in the same order, and each assistant message has the
\* same calls of those that reached the log, as long as no two appends took the same parent.
THEOREM HistoryHolds == Spec => []HistoryMatches
<1> DEFINE I == TreeInv /\ AskType /\ WriteInv /\ CallInv /\ PlanInv /\ HistInv /\ CarryInv
<1>1. Init => I
  <2> SUFFICES ASSUME Init  PROVE I
    OBVIOUS
  <2>1. TreeInv /\ AskType /\ WriteInv
    BY Starts, WritesStart
  <2>2. log = <<>> /\ mode = "closed" /\ turn.pc = "none" /\ carried = {} /\ Len(<<>>) = 0
    BY NoTurnTyped DEF Init
  <2>3. Compaction(log, 1..Len(log)) = 0 /\ Hidden(log, 1..Len(log)) = {}
    BY <2>2 DEF Compaction, Hidden
  <2>4. PlanInv
    BY <2>2, <2>3 DEF PlanInv, Latest, Prefixed, Planned
  <2>5. HistInv
    BY <2>2 DEF HistInv, Planned
  <2>6. CallInv
    BY <2>2 DEF CallInv, OnceIn, Says, Asked
  <2>7. CarryInv
    BY <2>2 DEF CarryInv, Paired, Unasked, Matched, Awaited, Live, Outstanding, CallPlaces
  <2> QED
    BY <2>1, <2>4, <2>5, <2>6, <2>7
<1>2. I /\ [Next]_vars => I'
    BY NextKeepsTree, NextKeepsAskType, NextKeepsWrites, NextKeepsCalls, NextKeepsPlans,
       NextKeepsHistory, NextKeepsCarried
<1>3. I => HistoryMatches
  <2> DEFINE shared == {k \in 1..Len(log) : log[k].type # "context.extension"}
             recorded == {log[k].ref : k \in {j \in 1..Len(log) : log[j].type = "tool.call"}}
  <2> SUFFICES ASSUME I, mode \in {"recovering", "open"}, Chain(log)
               PROVE  /\ Only(messages, shared) = Only(MessagesFromLineage(log, tip), shared)
                      /\ {p \in carried : p[2] \in recorded} = CallsFromLineage(log, tip)
    BY DEF HistoryMatches
  <2>1. tip = Len(log)
    BY DEF WriteInv, Modes
  <2>2. Only(messages, Shares(log)) = Only(MessagesFromLineage(log, Len(log)), Shares(log))
    BY DEF HistInv, Agree, Rebuilt
  <2>3. {p \in carried : p[2] \in recorded} = CallsFromLineage(log, tip)
    BY CarriedAre DEF Live
  <2> QED
    BY <2>1, <2>2, <2>3 DEF Shares
<1> QED
    BY <1>1, <1>2, <1>3, PTL DEF Spec
=============================================================================
