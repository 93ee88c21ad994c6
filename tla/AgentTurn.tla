----------------------------- MODULE AgentTurn -----------------------------
(***************************************************************************)
(* One agent session while it works (AgentSession in                       *)
(* packages/kernel/src/agent-session.ts, with the tree and the integrity   *)
(* check of session-tree.ts and replay.ts, and the interactions, steering  *)
(* and restore of packages/daemon/src/session-manager.ts): the turn loop,  *)
(* the appends of other operations that run beside it, a process that ends *)
(* at any point, and the recovery of the next open.                        *)
(*                                                                         *)
(* An append takes the tip as its parent when it is called and moves the   *)
(* tip when the log has stored it; the log stores in the order of the      *)
(* calls.  Event ids are positions in the log.  The model, the tools, the  *)
(* extensions and the clients are free to answer in any way the code       *)
(* accepts.  The context an extension contributes to a request, the        *)
(* effects of a tool result and the configuration recorded at an open are  *)
(* further appends of the same kind and are left out.                      *)
(***************************************************************************)
EXTENDS Naturals, Sequences, FiniteSets, Filter

CONSTANTS Messages,    \* user inputs; each one is sent or steered once
          Clients,     \* clients that may answer an interaction
          Kinds,       \* kinds of interactions the tools use
          Beside,      \* types of the events other operations append
          MaxCalls,    \* bound: tool calls
          MaxAsks,     \* bound: interactions
          MaxExtras    \* bound: retries, compactions, appends of other operations, restores,
                       \* process ends and failed appends, together

ASSUME TurnAssumptions ==
    /\ Messages \cap Nat = {}
    /\ Clients \cap {"turn", "open", "other", "restore", "ask"} = {}
    /\ Kinds \subseteq {"user_question", "approval"}
    /\ Beside \subseteq {"extension.state", "context.extension"}
    /\ {MaxCalls, MaxAsks, MaxExtras} \subseteq Nat

VARIABLES log,       \* stored events [type, parent, ref]; parent 0: none
          appends,   \* appends the log has not settled, oldest first
          tip,       \* this.tip
          messages,  \* this.messages: the events the model is shown
          carried,   \* <<event, call>>: the tool calls of the assistant messages among them
          repairs,   \* what the recovery of this open still has to append
          mode,      \* of the session: closed, recovering, open or unreadable
          turn,      \* the turn: where it is, its signal, its model outcome, its compaction
          steering,  \* steeringMessages
          followUp,  \* followUpMessages
          ask,       \* the last interaction and its promise
          input,     \* messages accepted as steering or follow-up in this process
          handed,    \* messages a restore gave back
          won,       \* <<client, interaction>>: answers that were accepted
          used,      \* counters for the bounds
          overtaken, \* a restore crossed the delivery of a queued message
          broken     \* an append of this process failed

vars == <<log, appends, tip, messages, carried, repairs, mode, turn, steering, followUp, ask, input, handed, won,
          used, overtaken, broken>>

queues == <<steering, followUp, input, handed, overtaken>>
opening == <<mode, repairs>>

-----------------------------------------------------------------------------
(* The tree.                                                               *)

\* SessionTree.lineage: the events from the root to event i.
Lineage(l, i) ==
    LET up[k \in 0..Len(l)] == IF k = 0 THEN {} ELSE {k} \cup up[l[k].parent]
    IN up[i]

\* SessionTree.fromEvents: one root, and a parent precedes its children.
TreeWellFormed ==
    \A i \in 1..Len(log) : log[i].parent < i /\ (log[i].parent = 0 => i = 1)

\* verifyToolCallIntegrity: on every branch each result answers exactly one earlier call
\* and no call id is used twice.
Verified(l) ==
    \A i \in 1..Len(l) :
        LET before == Lineage(l, i) \ {i}
            Same(type) == {k \in before : l[k].type = type /\ l[k].ref = l[i].ref}
        IN /\ l[i].type = "tool.call" => Same("tool.call") = {}
           /\ l[i].type = "tool.result" =>
                 Same("tool.call") # {} /\ Same("tool.result") = {}

\* Mutant: only an answer that follows at once counts.
UnansweredNext(l, i, asked, answer) ==
    LET branch == Lineage(l, i)
    IN {k \in branch : l[k].type = asked /\ (k = Len(l) \/ l[k + 1].type # answer)}

\* unansweredInteractions and unansweredToolCalls of the lineage of event i.
Unanswered(l, i, asked, answer) ==
    LET branch == Lineage(l, i)
    IN {k \in branch : /\ l[k].type = asked
                       /\ \A j \in branch : ~(l[j].type = answer /\ l[j].ref = l[k].ref)}

Ids(l) == [k \in 1..Len(l) |-> k]

Visible == {"user.message", "assistant.message", "tool.result", "context.extension"}

\* replacementClosure: the last compaction of the branch hides what it replaced.  A
\* context.compacted event refers to the closure of its replacedEventIds.
Compaction(l, branch) ==
    LET all == {k \in branch : l[k].type = "context.compacted"}
    IN IF all = {} THEN 0 ELSE CHOOSE k \in all : \A j \in all : j <= k

Hidden(l, branch) ==
    LET last == Compaction(l, branch) IN IF last = 0 THEN {} ELSE l[last].ref

\* projectContext: the model-visible events of the lineage of event i.
Groups(l, i) ==
    LET branch == Lineage(l, i)
    IN Only(Ids(l), {k \in branch \ Hidden(l, branch) : l[k].type \in Visible})

\* messagesFromCompactedLineage: the summary of the last compaction goes first.
MessagesFromLineage(l, i) ==
    LET last == Compaction(l, Lineage(l, i))
    IN (IF last = 0 THEN <<>> ELSE <<last>>) \o Groups(l, i)

\* The call event k was asked for by the last assistant message before it.
Asker(l, branch, a, k) ==
    /\ l[a].type = "assistant.message" /\ l[k].type = "tool.call"
    /\ a < k /\ \A b \in branch : l[b].type = "assistant.message" => b <= a \/ k < b

\* The calls that were recorded, each with the event of its assistant message.
CallsMade(l, branch) ==
    {<<p[1], l[p[2]].ref>> : p \in {q \in branch \X branch : Asker(l, branch, q[1], q[2])}}

\* projectContext gives each assistant message its recorded calls; the input of a call, which
\* an extension may have rewritten, is left out.
CallsFromLineage(l, i) ==
    LET branch == Lineage(l, i)
    IN {p \in CallsMade(l, branch) : p[1] \notin Hidden(l, branch)}

\* projectContext throws unless every call follows the assistant message it belongs to
\* without another message in between, and a compaction replaces a prefix of its ancestors.
Projectable(l, i) ==
    LET branch == Lineage(l, i)
        ends == {"user.message", "context.extension", "context.compacted"}
    IN /\ \A k \in {c \in branch : l[c].type = "tool.call"} :
             \E a \in branch : /\ a < k /\ l[a].type = "assistant.message"
                               /\ \A e \in branch : a < e /\ e < k => l[e].type \notin ends
       /\ Hidden(l, branch) \subseteq branch
       /\ \A k \in 1..Len(Groups(l, i)), h \in Hidden(l, branch) :
             l[h].type \in Visible => h < Groups(l, i)[k]

\* What an open requires of the stored events.
Openable(l) == Verified(l) /\ Projectable(l, Len(l))

-----------------------------------------------------------------------------
(* Appends.                                                                *)

\* One of the events that MaxExtras bounds.
Extra == used.extras < MaxExtras /\ used' = [used EXCEPT !.extras = @ + 1]

Event(type, ref) == [type |-> type, parent |-> tip, ref |-> ref]

Enqueue(type, ref, who) == appends' = Append(appends, [event |-> Event(type, ref), who |-> who])

Waits(who) == appends # <<>> /\ Head(appends).who = who

\* The log has stored the oldest append: the caller goes on with it as the new tip.
Stored == /\ log' = Append(log, Head(appends).event)
          /\ tip' = Len(log) + 1
          /\ appends' = Tail(appends)
          /\ UNCHANGED broken

\* outcome.toolCalls: a stream that completed may hold calls although it did not end in
\* tool_use; they are shown and never made.
ToolCalls(t) ==
    IF t.outcome \in {"error", "aborted"} THEN {} ELSE (t.call + 1)..(t.call + t.calls)

Pushed == IF Head(appends).event.type \in Visible THEN Append(messages, Len(log) + 1)
          ELSE messages

\* Mutant: the assistant message goes onto the live history without its calls.
ShownBare == messages' = Pushed /\ UNCHANGED carried

\* Its caller pushes what the model is to see onto the live history, the assistant message
\* with every call of the outcome, before any of them is recorded.
Shown == /\ messages' = Pushed
         /\ carried' = IF Head(appends).event.type = "assistant.message"
                       THEN carried \cup {<<Len(log) + 1, c>> : c \in ToolCalls(turn)}
                       ELSE carried

\* Mutant: the tip moves before the log has stored the event.
FailedBehindTip == /\ Extra
                   /\ appends' = Tail(appends)
                   /\ broken' = TRUE
                   /\ tip' = Len(log) + 1
                   /\ UNCHANGED <<log, messages, carried>>

\* The log rejects the oldest append; its file is as before.
Failed == /\ Extra
          /\ appends' = Tail(appends)
          /\ broken' = TRUE
          /\ UNCHANGED <<log, tip, messages, carried>>

NoAppend == UNCHANGED <<log, appends, tip, messages, carried, broken>>

\* A step that calls append and waits.
Calls == UNCHANGED <<log, tip, messages, carried, broken>>

-----------------------------------------------------------------------------
(* Open.                                                                   *)

NoPlan == [kept |-> <<>>, replaced |-> {}]
NoTurn == [pc |-> "none", aborted |-> FALSE, outcome |-> "none", calls |-> 0, call |-> 0,
           plan |-> NoPlan, overflowed |-> FALSE]
NoAsk == [id |-> 0, listed |-> FALSE, kind |-> "none", resolving |-> FALSE, asker |-> "none"]

\* The event a new log begins with.
Root == [type |-> "session.created", ref |-> 0]

\* Mutant: interactions are cancelled, calls are left as they are.
RepairsWithoutCalls(l) ==
    LET asked == Unanswered(l, Len(l), "interaction.requested", "interaction.resolved")
        questions == Only(Ids(l), asked)
    IN IF l = <<>> THEN <<Root>>
       ELSE [n \in 1..Len(questions) |->
               [type |-> "interaction.resolved", ref |-> l[questions[n]].ref]]

\* The recovery of openOwned: a new log gets its root; in any other an unfinished compaction
\* has failed, unanswered interactions are cancelled, then unanswered calls get an aborted
\* result.
Repairs(l) ==
    LET branch == Lineage(l, Len(l))
        asked == Unanswered(l, Len(l), "interaction.requested", "interaction.resolved")
        called == Unanswered(l, Len(l), "tool.call", "tool.result")
        questions == Only(Ids(l), asked)
        calls == Only(Ids(l), called)
        unfinished == \E k \in branch :
            /\ l[k].type = "compaction.started"
            /\ \A j \in branch : j > k =>
                  l[j].type \notin {"context.compacted", "compaction.failed"}
    IN IF l = <<>> THEN <<Root>>
       ELSE (IF unfinished THEN <<[type |-> "compaction.failed", ref |-> 0]>> ELSE <<>>)
            \o [n \in 1..Len(questions) |->
                  [type |-> "interaction.resolved", ref |-> l[questions[n]].ref]]
            \o [n \in 1..Len(calls) |-> [type |-> "tool.result", ref |-> l[calls[n]].ref]]

\* Mutant: the session takes operations while its recovery is still to come.
OpenAtOnce ==
    /\ mode = "closed" /\ appends = <<>>
    /\ \/ /\ Openable(log)
          /\ mode' = "open" /\ repairs' = <<>>
          /\ tip' = Len(log) /\ messages' = MessagesFromLineage(log, Len(log))
          /\ carried' = CallsFromLineage(log, Len(log))
       \/ /\ ~Openable(log)
          /\ mode' = "unreadable" /\ UNCHANGED <<repairs, tip, messages, carried>>
    /\ broken' = FALSE
    /\ UNCHANGED <<log, appends, turn, ask, won, used, queues>>

\* openOwned and the constructor: the stored log must pass the integrity check, its last
\* event is the tip and its lineage the history.
Open ==
    /\ mode = "closed" /\ appends = <<>>
    /\ \/ /\ Openable(log)
          /\ mode' = "recovering" /\ repairs' = Repairs(log)
          /\ tip' = Len(log) /\ messages' = MessagesFromLineage(log, Len(log))
          /\ carried' = CallsFromLineage(log, Len(log))
       \/ /\ ~Openable(log)
          /\ mode' = "unreadable" /\ UNCHANGED <<repairs, tip, messages, carried>>
    /\ broken' = FALSE
    /\ UNCHANGED <<log, appends, turn, ask, won, used, queues>>

\* One append after the other; extensions are already active beside it.
Recover ==
    /\ mode = "recovering" /\ \A k \in 1..Len(appends) : appends[k].who # "open"
    /\ \/ /\ repairs # <<>>
          /\ Enqueue(Head(repairs).type, Head(repairs).ref, "open")
          /\ repairs' = Tail(repairs) /\ UNCHANGED mode
       \/ /\ repairs = <<>>
          /\ mode' = "open" /\ UNCHANGED <<repairs, appends>>
    /\ Calls /\ UNCHANGED <<turn, ask, won, used, queues>>

\* A failed append rejects the open, which disposes of the extensions.
RecoverySettles ==
    /\ Waits("open")
    /\ \/ Stored /\ Shown /\ UNCHANGED <<opening, used>>
       \/ Failed /\ mode' = "closed" /\ repairs' = <<>>
    /\ UNCHANGED <<turn, ask, won, queues>>

\* The process ends.  Of the append being written either everything or nothing is found
\* in the log at the next open (EventLog); what was in memory is gone.
Crash ==
    /\ mode \in {"recovering", "open"}
    /\ used.extras < MaxExtras
    /\ used' = [used EXCEPT !.extras = @ + 1, !.crashed = TRUE]
    /\ \/ UNCHANGED log
       \/ appends # <<>> /\ log' = Append(log, Head(appends).event)
    /\ appends' = <<>> /\ tip' = 0 /\ mode' = "closed" /\ turn' = NoTurn
    /\ messages' = <<>> /\ carried' = {} /\ repairs' = <<>>
    /\ steering' = <<>> /\ followUp' = <<>> /\ input' = {} /\ handed' = {}
    /\ ask' = [NoAsk EXCEPT !.id = ask.id]
    /\ overtaken' = FALSE /\ broken' = FALSE
    /\ UNCHANGED won

-----------------------------------------------------------------------------
(* The turn.                                                               *)

Fresh == Messages \ ({log[k].ref : k \in {j \in 1..Len(log) : log[j].type = "user.message"}}
                     \cup {appends[k].event.ref : k \in {j \in 1..Len(appends) :
                                              appends[j].event.type = "user.message"}}
                     \cup input \cup handed)

\* runTurn: the turn owns the branch and records its message first.
RunTurn ==
    /\ mode = "open" /\ turn.pc = "none"
    /\ \E m \in Fresh : Enqueue("user.message", m, "turn")
    /\ turn' = [NoTurn EXCEPT !.pc = "user"]
    /\ Calls /\ UNCHANGED <<opening, ask, won, used, queues>>

\* prepareCompaction: a prefix of the visible events is replaced, and no result is kept
\* without its call.
Plans ==
    LET groups == Groups(log, tip)
        branch == Lineage(log, tip)
    IN {[kept |-> SubSeq(groups, first, Len(groups)),
         replaced |-> {groups[n] : n \in 1..(first - 1)} \cup Hidden(log, branch)
                      \cup ({Compaction(log, branch)} \ {0})] :
           first \in {n \in 2..Len(groups) : log[groups[n]].type # "tool.result"}}

\* compactOwned up to compaction.started; the plan is made from the lineage of the tip.
\* A lineage that cannot be projected throws.
Compact(t) ==
    /\ Extra
    /\ \/ /\ Projectable(log, tip) /\ log[tip].type # "context.compacted"
          /\ \E plan \in Plans : turn' = [t EXCEPT !.pc = "compacting", !.plan = plan]
          /\ Enqueue("compaction.started", 0, "turn")
       \/ /\ ~Projectable(log, tip)
          /\ turn' = IF t.outcome = "error" THEN [t EXCEPT !.pc = "reply"] ELSE NoTurn
          /\ UNCHANGED appends

\* The context is over its threshold before a request.
CompactAtThreshold ==
    /\ turn.pc = "model"
    /\ Compact([turn EXCEPT !.outcome = "none"])
    /\ Calls /\ UNCHANGED <<opening, ask, won, queues>>

\* The summary comes back and is recorded, or the failure or the abort is.
Summarized ==
    /\ turn.pc = "summary"
    /\ \/ /\ ~turn.aborted
          /\ Enqueue("context.compacted", turn.plan.replaced, "turn")
          /\ turn' = [turn EXCEPT !.pc = "compacted"]
       \/ /\ Enqueue("compaction.failed", 0, "turn")
          /\ turn' = [turn EXCEPT !.pc = "uncompacted"]
    /\ Calls /\ UNCHANGED <<opening, ask, won, used, queues>>

\* Steering received during the compaction goes before the resumed request.
Resume ==
    /\ turn.pc = "resumed"
    /\ \/ /\ steering # <<>>
          /\ Enqueue("user.message", Head(steering), "turn")
          /\ turn' = [turn EXCEPT !.pc = "resteered"]
       \/ /\ steering = <<>>
          /\ turn' = [turn EXCEPT !.pc = "model"] /\ UNCHANGED appends
    /\ Calls /\ UNCHANGED <<opening, ask, won, used, queues>>

\* modelTurn: no request goes out under an aborted signal.
CallModel ==
    /\ turn.pc = "model"
    /\ \/ /\ ~turn.aborted
          /\ turn' = [turn EXCEPT !.pc = "attempt"] /\ UNCHANGED appends
       \/ /\ turn.aborted
          /\ Enqueue("assistant.message", 0, "turn")
          /\ turn' = [turn EXCEPT !.pc = "assistant", !.outcome = "aborted"]
    /\ Calls /\ UNCHANGED <<opening, ask, won, used, queues>>

\* modelAttempt comes back: a retryable failure is recorded before the next attempt, the
\* first one about the context limit is compacted away, any other outcome becomes the
\* assistant message.  A stream may complete although its signal is aborted.
ModelAnswers ==
    /\ turn.pc = "attempt"
    /\ \/ /\ Extra
          /\ Enqueue("model.retry_scheduled", 0, "turn")
          /\ turn' = [turn EXCEPT !.pc = "retry"]
       \/ /\ ~turn.overflowed
          /\ Compact([turn EXCEPT !.outcome = "error", !.overflowed = TRUE])
       \/ /\ \E outcome \in {"stop", "error", "tool_use"}
                             \cup (IF turn.aborted THEN {"aborted"} ELSE {}),
                n \in 0..2 :
                /\ n > 0 => outcome \notin {"error", "aborted"}
                /\ used.calls + n <= MaxCalls
                /\ used' = [used EXCEPT !.calls = @ + n]
                /\ turn' = [turn EXCEPT !.pc = "assistant", !.outcome = outcome, !.calls = n,
                                        !.call = used.calls]
          /\ Enqueue("assistant.message", 0, "turn")
    /\ Calls /\ UNCHANGED <<opening, ask, won, queues>>

\* The context limit could not be helped: the error becomes the assistant message.
Reply ==
    /\ turn.pc = "reply"
    /\ Enqueue("assistant.message", 0, "turn")
    /\ turn' = [turn EXCEPT !.pc = "assistant"]
    /\ Calls /\ UNCHANGED <<opening, ask, won, used, queues>>

\* executeToolCalls, one call after the other.
NextCall ==
    /\ turn.pc = "calls"
    /\ Enqueue("tool.call", turn.call + 1, "turn")
    /\ turn' = [turn EXCEPT !.pc = "call", !.calls = @ - 1, !.call = @ + 1]
    /\ Calls /\ UNCHANGED <<opening, ask, won, used, queues>>

\* The tool returns, throws, is unknown or was blocked: in every case its result follows.
ToolReturns ==
    /\ turn.pc = "tool"
    /\ Enqueue("tool.result", turn.call, "turn")
    /\ turn' = [turn EXCEPT !.pc = "result"]
    /\ Calls /\ UNCHANGED <<opening, ask, won, used, queues>>

\* The model boundary: steering goes first, a tool round returns to the model, and a
\* follow-up is taken when the turn would end.  The message stays queued until stored.
Boundary ==
    /\ turn.pc = "boundary"
    /\ \/ /\ steering # <<>>
          /\ Enqueue("user.message", Head(steering), "turn")
          /\ turn' = [turn EXCEPT !.pc = "steering"]
       \/ /\ steering = <<>> /\ turn.outcome = "answered"
          /\ turn' = [turn EXCEPT !.pc = "model"] /\ UNCHANGED appends
       \/ /\ steering = <<>> /\ turn.outcome # "answered" /\ followUp # <<>>
          /\ Enqueue("user.message", Head(followUp), "turn")
          /\ turn' = [turn EXCEPT !.pc = "followUp"]
       \/ /\ steering = <<>> /\ turn.outcome # "answered" /\ followUp = <<>>
          /\ turn' = [turn EXCEPT !.pc = "ended"] /\ UNCHANGED appends
    /\ Calls /\ UNCHANGED <<opening, ask, won, used, queues>>

\* The loop of send: input that is still queued starts a turn of its own, with a new
\* signal; the message is taken from the queue before it is recorded.
ContinueQueued ==
    /\ turn.pc = "ended"
    /\ \/ /\ steering \o followUp # <<>>
          /\ Enqueue("user.message", Head(steering \o followUp), "turn")
          /\ turn' = [NoTurn EXCEPT !.pc = "user"]
          /\ IF steering # <<>> THEN steering' = Tail(steering) /\ UNCHANGED followUp
             ELSE followUp' = Tail(followUp) /\ UNCHANGED steering
          /\ UNCHANGED <<input, handed, overtaken>>
       \/ /\ steering \o followUp = <<>>
          /\ turn' = NoTurn
          /\ UNCHANGED <<appends, queues>>
    /\ Calls /\ UNCHANGED <<opening, ask, won, used>>

Shift(queue) == IF queue = <<>> THEN <<>> ELSE Tail(queue)

\* Where the turn goes on when its append is stored; an aborted signal is noticed after a
\* result and leaves the other calls.
After(t) ==
    CASE t.pc \in {"user", "retry", "steering", "followUp"} -> [t EXCEPT !.pc = "model"]
      [] t.pc = "assistant" ->
            [t EXCEPT !.pc = IF t.outcome \in {"error", "aborted"} THEN "ended"
                             ELSE IF t.outcome = "stop" THEN "boundary"
                             ELSE IF t.calls = 0 THEN "missing" ELSE "calls"]
      [] t.pc = "call" -> [t EXCEPT !.pc = "tool"]
      [] t.pc = "result" -> [t EXCEPT !.outcome = "answered",
                                      !.pc = IF t.aborted THEN "model"
                                             ELSE IF t.calls > 0 THEN "calls" ELSE "boundary"]
      [] t.pc = "compacting" -> [t EXCEPT !.pc = "summary"]
      [] t.pc \in {"compacted", "resteered"} -> [t EXCEPT !.pc = "resumed", !.plan = NoPlan]
      [] t.pc = "uncompacted" -> IF t.outcome = "error"
                                 THEN [t EXCEPT !.pc = "reply", !.plan = NoPlan] ELSE NoTurn
      [] OTHER -> [t EXCEPT !.pc = "ended"]

Elements(seq) == {seq[k] : k \in 1..Len(seq)}

\* A compaction replaces the history by what it planned, which it had projected from the
\* lineage; the turn records no call meanwhile.  Any other event is added to the history.
History ==
    \/ /\ turn.pc = "compacted"
       /\ messages' = <<Len(log) + 1>> \o turn.plan.kept
       /\ carried' = {p \in CallsMade(log, Lineage(log, tip)) :
                         p[1] \in Elements(turn.plan.kept)}
    \/ turn.pc # "compacted" /\ Shown

\* Mutant: a queued message leaves its queue only with the next one.
TurnStoredLate ==
    /\ Waits("turn") /\ Stored /\ History
    /\ turn' = After(turn)
    /\ UNCHANGED <<opening, ask, won, used, queues>>

\* The append of the turn is stored; a queued message that was delivered leaves its queue.
TurnStored ==
    /\ Waits("turn") /\ Stored /\ History
    /\ turn' = After(turn)
    /\ steering' = IF turn.pc \in {"steering", "resteered"} THEN Shift(steering) ELSE steering
    /\ followUp' = IF turn.pc = "followUp" THEN Shift(followUp) ELSE followUp
    /\ UNCHANGED <<opening, ask, won, used, input, handed, overtaken>>

\* The append of the turn fails.  A compaction records its failure, and one that was to
\* help a request leaves the error of that request; otherwise runTurn throws and send with it.
TurnFails ==
    /\ Waits("turn")
    /\ Extra /\ broken' = TRUE /\ UNCHANGED <<log, tip, messages, carried>>
    /\ \/ /\ turn.pc = "compacted"
          /\ appends' = Append(Tail(appends), [event |-> Event("compaction.failed", 0),
                                               who |-> "turn"])
          /\ turn' = [turn EXCEPT !.pc = "uncompacted"]
       \/ /\ turn.pc # "compacted"
          /\ appends' = Tail(appends)
          /\ turn' = IF turn.pc \in {"compacting", "uncompacted"} /\ turn.outcome = "error"
                     THEN [turn EXCEPT !.pc = "reply", !.plan = NoPlan] ELSE NoTurn
    /\ UNCHANGED <<opening, ask, won, queues>>

\* tool_use without a tool call is recorded as an error and ends the turn.
MissingToolCall ==
    /\ turn.pc = "missing"
    /\ Enqueue("session.error", 0, "turn")
    /\ turn' = [turn EXCEPT !.pc = "error"]
    /\ Calls /\ UNCHANGED <<opening, ask, won, used, queues>>

\* acceptingQueuedMessages: the turn may still deliver them.
Accepting == turn.pc \notin {"none", "ended"}

Restoring == \E k \in 1..Len(appends) : appends[k].who = "restore"

\* queueInput, steer and followUp: refused while a restore is being recorded.
Steer ==
    /\ mode = "open" /\ Accepting
    /\ ~Restoring   \* queueMutationActive
    /\ \E m \in Fresh : /\ input' = input \cup {m}
                        /\ \/ steering' = Append(steering, m) /\ UNCHANGED followUp
                           \/ followUp' = Append(followUp, m) /\ UNCHANGED steering
    /\ NoAppend /\ UNCHANGED <<opening, turn, ask, won, used, handed, overtaken>>

-----------------------------------------------------------------------------
(* Other operations beside the turn.                                       *)

\* Extension state, and in the same way queue.enqueued, session.renamed and the like; the
\* messages of extensions.  They need a root and take the tip as parent.
OtherAppends ==
    /\ mode \in {"recovering", "open"} /\ tip # 0
    /\ Extra
    /\ \E type \in Beside : Enqueue(type, 0, "other")
    /\ Calls /\ UNCHANGED <<opening, turn, ask, won, queues>>

OtherSettles ==
    /\ Waits("other")
    /\ (Stored /\ Shown /\ UNCHANGED used) \/ Failed
    /\ UNCHANGED <<opening, turn, ask, won, queues>>

Delivering == turn.pc \in {"steering", "followUp", "resteered"}

\* restoreQueue: what is queued now is recorded as handed back ...
Restore ==
    /\ mode = "open"
    /\ ~Restoring   \* queueMutationActive
    /\ Extra
    /\ appends' = Append(appends, [event |-> Event("queue.restored", 0), who |-> "restore",
                                   items |-> steering \o followUp])
    /\ overtaken' = (overtaken \/ Delivering)
    /\ Calls /\ UNCHANGED <<opening, turn, ask, won, steering, followUp, input, handed>>

\* ... and, once that is stored, the queues are cleared; the client may also have asked to
\* interrupt the turn.
RestoreSettles ==
    /\ Waits("restore")
    /\ \/ /\ Stored /\ Shown
          /\ steering' = <<>> /\ followUp' = <<>>
          /\ handed' = handed \cup Elements(Head(appends).items)
          /\ overtaken' = (overtaken \/ Delivering
                                     \/ Head(appends).items # steering \o followUp)
          /\ UNCHANGED <<used, input>>
       \/ Failed /\ UNCHANGED queues
    /\ UNCHANGED <<opening, turn, ask, won>>

-----------------------------------------------------------------------------
(* Interactions.                                                           *)

\* The promise of an interaction is settled once; the entry leaves managed.interactions.
Settle(a, how) == [a EXCEPT !.listed = FALSE, !.asker = IF @ = "waiting" THEN how ELSE @]

\* Mutant: the interaction does not listen to the signal of its turn.
InterruptSignalOnly ==
    /\ mode = "open" /\ turn.pc # "none" /\ ~turn.aborted
    /\ turn' = [turn EXCEPT !.aborted = TRUE]
    /\ NoAppend /\ UNCHANGED <<opening, ask, won, used, queues>>

\* The turn is interrupted: the signal aborts, and with it the interaction it waits for.
Interrupt ==
    /\ mode = "open" /\ turn.pc # "none" /\ ~turn.aborted
    /\ turn' = [turn EXCEPT !.aborted = TRUE]
    /\ ask' = IF ask.listed THEN Settle(ask, "rejected") ELSE ask
    /\ NoAppend /\ UNCHANGED <<opening, won, used, queues>>

\* interact(): a tool asks; the entry is listed before interaction.requested is stored.
ToolAsks ==
    /\ turn.pc = "tool" /\ ~turn.aborted
    /\ ask.id < MaxAsks
    /\ \E kind \in Kinds : ask' = [id |-> ask.id + 1, listed |-> TRUE, kind |-> kind,
                                   resolving |-> FALSE, asker |-> "waiting"]
    /\ Enqueue("interaction.requested", ask.id + 1, "ask")
    /\ turn' = [turn EXCEPT !.pc = "asking"]
    /\ Calls /\ UNCHANGED <<opening, won, used, queues>>

\* A request that cannot be recorded rejects the tool, not the turn.
AskSettles ==
    /\ Waits("ask")
    /\ \/ /\ Stored /\ Shown
          /\ turn' = [turn EXCEPT !.pc = "waiting"]
          /\ UNCHANGED <<ask, used>>
       \/ /\ Failed
          /\ turn' = [turn EXCEPT !.pc = "tool"]
          /\ ask' = Settle(ask, "rejected")
    /\ UNCHANGED <<opening, won, queues>>

\* Mutant: the entry is dropped and its promise forgotten.
AskForgotten ==
    /\ ask.listed /\ ask.kind # "user_question"
    /\ ask' = [ask EXCEPT !.listed = FALSE]
    /\ NoAppend /\ UNCHANGED <<opening, turn, won, used, queues>>

\* Five minutes pass; questions to the user wait for ever.
AskTimesOut ==
    /\ ask.listed /\ ask.kind # "user_question"
    /\ ask' = Settle(ask, "rejected")
    /\ NoAppend /\ UNCHANGED <<opening, turn, won, used, queues>>

\* The tool goes on with the answer or the rejection.
AskerGoesOn ==
    /\ turn.pc = "waiting" /\ ask.asker # "waiting"
    /\ turn' = [turn EXCEPT !.pc = "tool"]
    /\ NoAppend /\ UNCHANGED <<opening, ask, won, used, queues>>

Requested(id) == \E k \in 1..Len(log) :
                    log[k].type = "interaction.requested" /\ log[k].ref = id

\* Mutant: a second answer is recorded while the first one is being stored.
RespondAnyway(c) ==
    /\ mode = "open" /\ Requested(ask.id)
    /\ ask.listed /\ \A k \in 1..Len(appends) : appends[k].who # c
    /\ Enqueue("interaction.resolved", ask.id, c)
    /\ ask' = [ask EXCEPT !.resolving = TRUE]
    /\ Calls /\ UNCHANGED <<opening, turn, won, used, queues>>

\* respondToInteraction: the first answer for a listed interaction is recorded.  A later one
\* waits for it and is refused, as is one for an interaction that is no longer listed: both
\* change nothing.
Respond(c) ==
    /\ mode = "open" /\ Requested(ask.id)
    /\ ask.listed /\ ~ask.resolving
    /\ Enqueue("interaction.resolved", ask.id, c)
    /\ ask' = [ask EXCEPT !.resolving = TRUE]
    /\ Calls /\ UNCHANGED <<opening, turn, won, used, queues>>

\* The answer is stored: its client has won, the asker gets it unless it was settled before;
\* or it fails, and the asker is rejected with it.
ResponseSettles(c) ==
    /\ Waits(c)
    /\ LET id == Head(appends).event.ref
       IN \/ /\ Stored /\ Shown
             /\ ask' = IF ask.id = id THEN Settle(ask, "answered") ELSE ask
             /\ won' = won \cup {<<c, id>>}
             /\ UNCHANGED used
          \/ /\ Failed
             /\ ask' = IF ask.id = id THEN Settle(ask, "rejected") ELSE ask
             /\ UNCHANGED won
    /\ UNCHANGED <<opening, turn, queues>>

-----------------------------------------------------------------------------
Init ==
    /\ log = <<>> /\ appends = <<>> /\ tip = 0 /\ mode = "closed" /\ turn = NoTurn
    /\ messages = <<>> /\ carried = {} /\ repairs = <<>>
    /\ steering = <<>> /\ followUp = <<>> /\ input = {} /\ handed = {}
    /\ ask = NoAsk
    /\ won = {}
    /\ used = [calls |-> 0, extras |-> 0, crashed |-> FALSE]
    /\ overtaken = FALSE /\ broken = FALSE

\* What the session does once it was asked to: it may be delayed, not refused for ever.
TurnStep ==
    \/ CompactAtThreshold \/ Summarized \/ Resume \/ CallModel \/ ModelAnswers \/ Reply
    \/ NextCall \/ ToolReturns \/ Boundary \/ ContinueQueued
    \/ MissingToolCall \/ AskerGoesOn

Settles ==
    \/ RecoverySettles \/ TurnStored \/ TurnFails \/ OtherSettles \/ RestoreSettles
    \/ AskSettles \/ \E c \in Clients : ResponseSettles(c)

Next ==
    \/ Open \/ Recover \/ Crash
    \/ RunTurn \/ Steer \/ Interrupt \/ TurnStep \/ ToolAsks \/ AskTimesOut
    \/ OtherAppends \/ Restore
    \/ (\E c \in Clients : Respond(c))
    \/ Settles

Spec == Init /\ [][Next]_vars

\* The log settles every append, the model and the tools come back to their caller, timers
\* fire.  Users, clients and faults promise nothing.
FairSpec == Spec /\ WF_vars(Settles) /\ WF_vars(TurnStep) /\ WF_vars(AskTimesOut)

-----------------------------------------------------------------------------
(* Properties.                                                             *)

Types == {"session.created", "user.message", "assistant.message", "model.retry_scheduled",
          "session.error", "tool.call", "tool.result", "interaction.requested",
          "interaction.resolved", "queue.restored", "compaction.started", "compaction.failed",
          "context.compacted", "extension.state", "context.extension"}

\* Every variable keeps its kind of value, and the queues hold messages that were accepted.
TypeOK ==
    /\ \A k \in 1..Len(log) : log[k].type \in Types /\ log[k].parent \in Nat
    /\ tip \in 0..Len(log)
    /\ mode \in {"closed", "recovering", "open", "unreadable"}
    /\ turn.pc \in {"none", "user", "model", "retry", "assistant", "calls", "call", "tool",
                    "asking", "waiting", "result", "boundary", "steering", "followUp",
                    "missing", "error", "ended", "attempt", "compacting", "summary",
                    "compacted", "uncompacted", "resumed", "resteered", "reply"}
    /\ Elements(steering) \cup Elements(followUp) \subseteq input
    /\ input \subseteq Messages
    /\ ask.asker \in {"none", "waiting", "answered", "rejected"}

\* The session can be opened again, whatever was running when its process ended.
\* (verifyToolCallIntegrity: unanswered calls at a branch tip are legal)
SessionReopens == mode # "unreadable"

Chain(l) == \A i \in 1..Len(l) : l[i].parent = i - 1

\* A log in which no two appends took the same parent and no extension sent a message can
\* be opened at every moment: no crash, failed append, compaction, recovery or repeated
\* recovery leaves a call answered twice, a result without its call or a compaction of what
\* is not there.
ChainReopens ==
    Chain(log) /\ (\A k \in 1..Len(log) : log[k].type # "context.extension") => Openable(log)

\* The history the model is shown is the one an open would rebuild from the log, across
\* turns, compactions and recoveries, as long as no two appends took the same parent: the
\* same events in the same order, the messages of extensions set aside, and in each
\* assistant message the same tool calls of those that reached the log.  Calls that were
\* asked for and never recorded are in the live history alone.
HistoryMatches ==
    LET shared == {k \in 1..Len(log) : log[k].type # "context.extension"}
        recorded == {log[k].ref : k \in {j \in 1..Len(log) : log[j].type = "tool.call"}}
    IN mode \in {"recovering", "open"} /\ Chain(log) /\ Projectable(log, tip) =>
          /\ Only(messages, shared) = Only(MessagesFromLineage(log, tip), shared)
          /\ {p \in carried : p[2] \in recorded} = CallsFromLineage(log, tip)

\* While no turn runs, no call of an open session is left without a result, whether its turn
\* was interrupted or its process ended, unless an append failed or two took the same parent.
SettledBranch ==
    mode = "open" /\ turn.pc = "none" /\ appends = <<>> /\ ~broken /\ Chain(log) =>
        Unanswered(log, tip, "tool.call", "tool.result") = {}

\* One answer wins: an interaction has at most one client that was told so, and a process
\* records at most one resolution for it.
AnsweredOnce ==
    /\ \A v, w \in won : v[2] = w[2] => v = w
    /\ ~used.crashed =>
          \A i, j \in 1..Len(log) :
             /\ log[i].type = "interaction.resolved" /\ log[j].type = "interaction.resolved"
             /\ log[i].ref = log[j].ref
             => i = j

\* How often message m was delivered.
Count(m) == Cardinality({k \in 1..Len(log) : log[k].type = "user.message" /\ log[k].ref = m})

Underway(m) == \E k \in 1..Len(appends) : appends[k].event.type = "user.message"
                                          /\ appends[k].event.ref = m

\* A steered or follow-up message is in one place: queued or on its way into the log,
\* delivered, or handed back.  It is neither lost nor delivered twice, unless an append
\* failed or a restore crossed its delivery.
SteeringKept ==
    ~broken /\ ~overtaken =>
        \A m \in input :
            LET queued == m \in Elements(steering \o followUp) \/ Underway(m)
            IN Count(m) = IF queued \/ m \in handed THEN 0 ELSE 1

\* An interrupted turn ends, whatever it was doing: the model, a tool, an interaction.
InterruptEnds == turn.aborted ~> ~turn.aborted

\* An interaction that may time out is settled for the tool that waits for it.
AskSettlesEventually ==
    (ask.asker = "waiting" /\ ask.kind # "user_question") ~>
        (ask.asker # "waiting" \/ mode # "open")
=============================================================================
