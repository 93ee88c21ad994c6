------------------------ MODULE CommandJournalProofs ------------------------
(***************************************************************************)
(* Proofs about the command journal for any number of keys, calls, daemon  *)
(* starts and failing appends: its type invariant; that without failing    *)
(* appends an effect begins at most once and no started effect is served   *)
(* as if it had never begun; that two calls that are given an outcome      *)
(* under one key sent the same request and got the same outcome, and that  *)
(* without failing appends every restart can replay the file.  On storage  *)
(* that keeps what it synced the journal is a write-once register per key. *)
(***************************************************************************)
EXTENDS CommandJournal, TLAPS

Up == phase \in {"reconciling", "serving", "stopping"}
Executing == {"effect", "marked", "completing"}

-----------------------------------------------------------------------------
(* The inductive invariant, in parts *)

\* Only a daemon that listens has calls: the others find the chain empty and nothing running.
QuietInv ==
    phase \notin {"serving", "stopping"} =>
        /\ tail = <<>> /\ ~writing
        /\ \A c \in Calls : pc[c] \notin Pending
        /\ \A k \in Keys : running[k] = None

\* A place in the chain belongs to one call, which waits for exactly that operation.
ChainInv ==
    /\ writing => tail # <<>>
    /\ \A i \in 1..Len(tail) :
          pc[tail[i].call] = IF tail[i].op = "accept" THEN "accepting" ELSE "completing"
    /\ \A i, j \in 1..Len(tail) : tail[i].call = tail[j].call => i = j

\* A call that is under way has its request, and an outcome once it settles.
CallInv ==
    \A c \in Calls :
        /\ pc[c] \in Pending => key[c] \in Keys /\ hash[c] \in Hashes
        /\ pc[c] = "completing" => reply[c] \in Outcomes

\* The effect of a key is in the hands of one call, under an accepted entry, and what
\* it leaves is whole unless it is one that lasts.
RunningInv ==
    /\ \A c \in Calls : pc[c] \in Executing => running[key[c]] = c
    /\ \A k \in Keys : running[k] # None => bound[k] # None
    /\ \A c \in Calls : pc[c] = "marked" /\ ~Lasting(key[c]) => evidence[key[c]] \in Results

\* Only a starting daemon reconciles, and it appends what the evidence says.
StartupInv ==
    /\ phase \notin {"reconciling", "corrupt"} => todo = {}
    /\ phase # "reconciling" => recovering = None
    /\ \A k \in todo : bound[k] # None
    /\ recovering # None => recovering \in todo /\ evidence[recovering] \notin Stages

\* The daemon relies on lines that are there, and acceptances name their request.
FileInv ==
    /\ relied <= Len(lines)
    /\ \A i \in 1..Len(lines) : lines[i].type = "accepted" => lines[i].hash \in Hashes

OnRecord(k) == \E i \in 1..relied : IsAcceptanceOf(lines[i], k)

\* Entries stand on acceptances the daemon relies on.
EntryInv ==
    ioFaults = 0 =>
        /\ phase # "down" => ~torn
        /\ writing /\ Head(tail).op = "accept" =>
              /\ lines # <<>>
              /\ IsAcceptanceOf(lines[Len(lines)], key[Head(tail).call])
        /\ \A k \in Keys : bound[k] # None => OnRecord(k)

\* The acceptance being written is the first for its key.
FirstInv ==
    writing /\ Head(tail).op = "accept" => bound[key[Head(tail).call]] = None

\* An entry that nothing runs and recovery has dealt with has no evidence, if recovery has
\* a branch for its method.
OpenInv ==
    ioFaults = 0 =>
        \A k \in Keys :
            (/\ Provable(k) /\ bound[k] # None /\ completion[k] = None
             /\ running[k] = None /\ k \notin todo)
            => evidence[k] = "absent" /\ Kind[k] # "redo"

\* Methods that neither recovery nor a retry after it carries out again.
Once(k) == Kind[k] # "redo" /\ Provable(k)

\* Evidence implies an acceptance on file; a key without an entry, and one whose effect is
\* about to begin, has none; and the effect leaves its first evidence when it begins.
EvidenceInv ==
    ioFaults = 0 /\ ~retracted =>
        /\ \A k \in Keys :
              /\ evidence[k] # "absent" => OnRecord(k)
              /\ Up /\ bound[k] = None => evidence[k] = "absent"
              /\ Once(k) => starts[k] <= 1
              /\ Once(k) /\ evidence[k] = "absent" => starts[k] = 0
        /\ \A c \in Calls : pc[c] = "effect" /\ Once(key[c]) => evidence[key[c]] = "absent"

IInv ==
    /\ TypeOK /\ QuietInv /\ ChainInv /\ CallInv /\ RunningInv
    /\ StartupInv /\ FileInv /\ EntryInv /\ FirstInv /\ OpenInv /\ EvidenceInv

-----------------------------------------------------------------------------
(* The chain, the file and the replay *)

USE JournalAssumption DEF file, entries, startup, chain, calls, effects, history

Places == [op : {"accept", "complete"}, call : Calls]
AwaitedBy(op) == IF op = "accept" THEN "accepting" ELSE "completing"

\* The call at the head of the chain (command-journal.ts, enqueue) is waiting for the
\* operation it queued, and has no second place behind it.
LEMMA ChainHead ==
    ASSUME TypeOK, ChainInv, NEW c \in Calls, NEW op \in {"accept", "complete"}, AtHead(op, c)
    PROVE  /\ pc[c] = AwaitedBy(op)
           /\ tail # <<>>
           /\ Head(tail) = tail[1]
           /\ Tail(tail) \in Seq(Places)
           /\ \A i \in 1..Len(Tail(tail)) :
                 /\ i + 1 \in 1..Len(tail)
                 /\ Tail(tail)[i] = tail[i + 1]
                 /\ Tail(tail)[i].call # c
<1>1. /\ tail \in Seq(Places) /\ tail # <<>>
      /\ Head(tail) = tail[1] /\ tail[1] = [op |-> op, call |-> c] /\ 1 \in 1..Len(tail)
  BY DEF TypeOK, AtHead, Places
<1>2. /\ Tail(tail) \in Seq(Places)
      /\ \A i \in 1..Len(Tail(tail)) : i + 1 \in 1..Len(tail) /\ Tail(tail)[i] = tail[i + 1]
  BY <1>1
<1>3. \A i \in 1..Len(Tail(tail)) : Tail(tail)[i].call # c
  BY <1>1, <1>2 DEF ChainInv
<1>4. pc[c] = AwaitedBy(op)
  BY <1>1 DEF ChainInv, AwaitedBy
<1> QED
  BY <1>1, <1>2, <1>3, <1>4

\* Taking the head off the chain leaves it in order, if no other waiting call moves.
LEMMA ChainPop ==
    ASSUME TypeOK, ChainInv, NEW c \in Calls, NEW op \in {"accept", "complete"}, AtHead(op, c),
           tail' = Tail(tail), ~writing',
           \A d \in Calls \ {c} : pc[d] \in {"accepting", "completing"} => pc'[d] = pc[d]
    PROVE  ChainInv'
<1>1. /\ Tail(tail) \in Seq(Places)
      /\ \A i \in 1..Len(Tail(tail)) :
            i + 1 \in 1..Len(tail) /\ Tail(tail)[i] = tail[i + 1] /\ Tail(tail)[i].call # c
  BY ChainHead
<1>2. \A i \in 1..Len(Tail(tail)) : Tail(tail)[i].call \in Calls
  <2>1. \A i \in 1..Len(Tail(tail)) : Tail(tail)[i] \in Places
    BY <1>1
  <2> QED
    BY <2>1 DEF Places
<1>3. \A i \in 1..Len(Tail(tail)) : pc[Tail(tail)[i].call] = AwaitedBy(Tail(tail)[i].op)
  BY <1>1 DEF ChainInv, AwaitedBy
<1>4. \A i \in 1..Len(Tail(tail)) : pc'[Tail(tail)[i].call] = AwaitedBy(Tail(tail)[i].op)
  BY <1>1, <1>2, <1>3 DEF AwaitedBy
<1>5. \A i, j \in 1..Len(Tail(tail)) : Tail(tail)[i].call = Tail(tail)[j].call => i = j
  BY <1>1 DEF ChainInv
<1> QED
  BY <1>4, <1>5 DEF ChainInv, AwaitedBy

\* Putting a call that holds no place at the end of the chain keeps it in order.
LEMMA ChainPush ==
    ASSUME NEW base \in Seq(Places), NEW c \in Calls, NEW op \in {"accept", "complete"},
           TypeOK,
           \A i \in 1..Len(base) : base[i].call # c /\ pc[base[i].call] = AwaitedBy(base[i].op),
           \A i, j \in 1..Len(base) : base[i].call = base[j].call => i = j,
           tail' = Append(base, [op |-> op, call |-> c]),
           pc' = [pc EXCEPT ![c] = AwaitedBy(op)]
    PROVE  ChainInv'
<1>1. /\ Len(tail') = Len(base) + 1
      /\ tail'[Len(base) + 1] = [op |-> op, call |-> c]
      /\ \A i \in 1..Len(base) : tail'[i] = base[i]
  OBVIOUS
<1>2. \A i \in 1..Len(base) : base[i].call \in Calls
  <2>1. \A i \in 1..Len(base) : base[i] \in Places
    OBVIOUS
  <2> QED
    BY <2>1 DEF Places
<1>3. \A i \in 1..Len(tail') : pc'[tail'[i].call] = AwaitedBy(tail'[i].op)
  BY <1>1, <1>2 DEF TypeOK
<1>4. \A i, j \in 1..Len(tail') : tail'[i].call = tail'[j].call => i = j
  BY <1>1
<1>5. tail' # <<>>
  BY <1>1
<1> QED
  BY <1>3, <1>4, <1>5 DEF ChainInv, AwaitedBy

\* appendSynced adds one line; it is the record itself unless torn bytes precede it.
LEMMA OneLineWritten ==
    ASSUME TypeOK, NEW r \in Records, lines' = Written(r)
    PROVE  /\ lines' \in Seq(Records)
           /\ Len(lines') = Len(lines) + 1
           /\ \A i \in 1..Len(lines) : lines'[i] = lines[i]
           /\ ~torn => lines'[Len(lines')] = r
           /\ lines'[Len(lines')].type = "accepted" => lines'[Len(lines')] = r
<1>1. Garbage \in Records /\ Garbage.type # "accepted"
  BY DEF Garbage, Records
<1> QED
  BY <1>1 DEF TypeOK, Written

\* What an operation hands to appendSynced is a record of the file.
LEMMA RecordsMade ==
    /\ \A k \in Keys, h \in Hashes : Accepted(k, h) \in Records
    /\ \A k \in Keys, o \in Outcomes : Terminal(k, o) \in Records
BY DEF Accepted, Terminal, Records

\* The entry open() rebuilds comes from a line of the file (command-journal.ts, open).
LEMMA Replay ==
    ASSUME TypeOK, FileInv, NEW k \in Keys
    PROVE  /\ ReplayedHash(lines, k) \in Hashes \cup {None}
           /\ ReplayedOutcome(lines, k) \in Outcomes \cup {None}
           /\ ReplayedHash(lines, k) # None <=> \E i \in 1..Len(lines) : IsAcceptanceOf(lines[i], k)
<1>1. \A i \in AcceptanceIn(lines, k) : lines[i].hash \in Hashes
  BY DEF AcceptanceIn, IsAcceptanceOf, FileInv
<1>2. \A i \in TerminalIn(lines, k) : lines[i].outcome \in Outcomes \cup {None}
  <2>1. \A i \in TerminalIn(lines, k) : lines[i] \in Records
    BY DEF TerminalIn, TypeOK
  <2> QED
    BY <2>1 DEF Records
<1>3. None \notin Hashes
  OBVIOUS
<1> QED
  BY <1>1, <1>2, <1>3 DEF ReplayedHash, ReplayedOutcome, AcceptanceIn

\* What StartEffect leaves of the chain.
LEMMA ChainAfterStart ==
    ASSUME NEW rest \in Seq(Places), NEW c \in Calls,
           tail' = rest \/ tail' = Append(rest, [op |-> "complete", call |-> c])
    PROVE  tail' \in Seq([op : {"accept", "complete"}, call : Calls])
<1>1. [op |-> "complete", call |-> c] \in Places
  BY DEF Places
<1>2. Append(rest, [op |-> "complete", call |-> c]) \in Seq(Places)
  BY <1>1
<1>3. tail' \in Seq(Places)
  BY <1>2
<1> QED
  BY <1>3 DEF Places

\* A key on record stays on record while the lines the daemon relies on stay.
LEMMA OnRecordStays ==
    ASSUME TypeOK, relied' \in Nat, relied <= relied',
           \A i \in 1..relied : lines'[i] = lines[i], NEW k, OnRecord(k)
    PROVE  OnRecord(k)'
<1>1. PICK i \in 1..relied : IsAcceptanceOf(lines[i], k)
  BY DEF OnRecord
<1>2. i \in 1..relied' /\ lines'[i] = lines[i]
  BY DEF TypeOK
<1>3. IsAcceptanceOf(lines[i], k)'
  BY <1>1, <1>2 DEF IsAcceptanceOf
<1> QED
  BY <1>2, <1>3 DEF OnRecord

\* open: what replay puts in memory is what the lines say, and every open entry is to be
\* reconciled.
LEMMA OpenKeeps ==
    ASSUME IInv, Open
    PROVE  IInv'
<1> USE DEF IInv, Open
<1>1. TypeOK'
  <2>1. bound' \in [Keys -> Hashes \cup {None}] /\ completion' \in [Keys -> Outcomes \cup {None}]
    BY Replay
  <2>2. synced' \in 0..Len(lines')
    BY DEF TypeOK
  <2>3. phase' \in {"reconciling", "corrupt"}
    OBVIOUS
  <2>4. boots' \in 0..MaxBoots /\ relied' \in Nat
    BY DEF TypeOK
  <2> QED
    BY <2>1, <2>2, <2>3, <2>4 DEF TypeOK
<1>2. QuietInv' /\ ChainInv' /\ CallInv' /\ StartupInv' /\ FileInv' /\ OpenInv'
  BY DEF QuietInv, ChainInv, CallInv, StartupInv, FileInv, OpenInv
<1>3. RunningInv'
  BY DEF RunningInv, QuietInv, TypeOK, Executing, Pending
<1>4. EntryInv'
  BY Replay DEF EntryInv, OnRecord, QuietInv
<1>5. FirstInv'
  BY DEF FirstInv, ChainInv, QuietInv, TypeOK
<1>6. EvidenceInv'
  <2>1. \A k \in Keys : OnRecord(k) => OnRecord(k)' /\ bound'[k] # None
    BY Replay DEF OnRecord, FileInv, TypeOK
  <2>2. UNCHANGED <<evidence, starts, pc, key, ioFaults, retracted>>
    OBVIOUS
  <2> QED
    BY <2>1, <2>2 DEF EvidenceInv
<1> QED
  BY <1>1, <1>2, <1>3, <1>4, <1>5, <1>6

\* start listens when nothing is left to reconcile.
LEMMA ServeKeeps ==
    ASSUME IInv, Serve
    PROVE  IInv'
<1> USE DEF IInv, Serve
<1>1. TypeOK'
  BY DEF TypeOK
<1>2. QuietInv' /\ ChainInv' /\ CallInv' /\ RunningInv' /\ StartupInv' /\ FileInv' /\ EntryInv' /\
      FirstInv' /\ OpenInv' /\ EvidenceInv'
  BY DEF QuietInv, ChainInv, CallInv, RunningInv, StartupInv, FileInv, EntryInv, OnRecord, FirstInv,
     OpenInv, EvidenceInv, Up
<1> QED
  BY <1>1, <1>2

\* reconcile leaves an entry open when recover finds no evidence or knows none for it.
LEMMA ReconcileOpenKeeps ==
    ASSUME IInv, NEW k \in Keys, ReconcileOpen(k)
    PROVE  IInv'
<1> USE DEF IInv, ReconcileOpen
<1>1. TypeOK'
  BY DEF TypeOK
<1>2. QuietInv' /\ ChainInv' /\ CallInv' /\ RunningInv' /\ StartupInv' /\ FileInv' /\ EntryInv' /\
      FirstInv' /\ OpenInv' /\ EvidenceInv'
  BY DEF QuietInv, ChainInv, CallInv, RunningInv, StartupInv, FileInv, EntryInv, OnRecord, FirstInv,
     OpenInv, EvidenceInv, Up
<1> QED
  BY <1>1, <1>2

\* recover gives a started operation its end, or carries it out again.
LEMMA ReconcileActKeeps ==
    ASSUME IInv, NEW k \in Keys, ReconcileAct(k)
    PROVE  IInv'
<1> USE DEF IInv, ReconcileAct
<1>1. TypeOK'
  <2>1. evidence' \in [Keys -> Evidence]
    BY DEF TypeOK, Evidence
  <2> QED
    BY <2>1 DEF TypeOK
<1>2. QuietInv' /\ ChainInv' /\ CallInv' /\ StartupInv' /\ FileInv' /\ EntryInv' /\ FirstInv'
  BY DEF QuietInv, ChainInv, CallInv, StartupInv, FileInv, EntryInv, OnRecord, FirstInv
<1>3. RunningInv'
  BY DEF RunningInv, QuietInv, TypeOK, Executing, Pending
<1>4. OpenInv'
  BY DEF OpenInv, StartupInv, RunningInv, QuietInv, TypeOK, Stages
<1>5. EvidenceInv'
  <2>1. OnRecord(k) \/ ioFaults # 0
    BY DEF StartupInv, EntryInv
  <2>2. \A c \in Calls : pc[c] # "effect"
    BY DEF QuietInv, Pending
  <2>3. \A j \in Keys : j # k => evidence'[j] = evidence[j]
    BY DEF TypeOK
  <2>4. Once(k) => evidence[k] # "absent" /\ evidence'[k] # "absent"
    BY DEF TypeOK, Stages, Once
  <2>5. \A j \in Keys : OnRecord(j)' <=> OnRecord(j)
    BY DEF OnRecord
  <2>6. bound[k] # None
    BY DEF StartupInv
  <2> QED
    BY <2>1, <2>2, <2>3, <2>4, <2>5, <2>6 DEF EvidenceInv, Up
<1> QED
  BY <1>1, <1>2, <1>3, <1>4, <1>5

\* reconcile writes the recovered outcome.
LEMMA ReconcileWriteKeeps ==
    ASSUME IInv, NEW k \in Keys, ReconcileWrite(k)
    PROVE  IInv'
<1> USE DEF IInv, ReconcileWrite
<1>b. Terminal(k, evidence[k]) \in Records
  BY RecordsMade DEF TypeOK, Evidence, Outcomes, Stages
<1>c. /\ lines' \in Seq(Records) /\ Len(lines') = Len(lines) + 1
      /\ \A i \in 1..Len(lines) : lines'[i] = lines[i]
      /\ ~torn => lines'[Len(lines')] = Terminal(k, evidence[k])
      /\ lines'[Len(lines')].type = "accepted" => lines'[Len(lines')] = Terminal(k, evidence[k])
  BY <1>b, OneLineWritten
<1>d. \A j \in Keys : OnRecord(j) => OnRecord(j)'
  <2>1. relied' \in Nat /\ relied <= relied' /\ \A i \in 1..relied : lines'[i] = lines[i]
    BY <1>c DEF FileInv, TypeOK
  <2> QED
    BY <2>1, OnRecordStays
<1>1. TypeOK'
  <2>1. synced' \in 0..Len(lines')
    BY <1>c DEF TypeOK
  <2> QED
    BY <1>c, <2>1 DEF TypeOK
<1>2. QuietInv' /\ ChainInv' /\ CallInv' /\ RunningInv' /\ StartupInv' /\ FirstInv' /\ OpenInv'
  BY <1>c DEF QuietInv, ChainInv, CallInv, RunningInv, StartupInv, FirstInv, OpenInv
<1>3. FileInv'
  <2>1. \A i \in 1..Len(lines') : i \in 1..Len(lines) \/ i = Len(lines')
    BY <1>c DEF TypeOK
  <2>2. lines'[Len(lines')].type = "accepted" => lines'[Len(lines')].hash \in Hashes
    BY <1>c DEF Terminal
  <2>3. relied' <= Len(lines')
    BY <1>c DEF FileInv, TypeOK
  <2> QED
    BY <1>c, <2>1, <2>2, <2>3 DEF FileInv
<1>4. EntryInv'
  BY <1>d DEF EntryInv, QuietInv
<1>5. EvidenceInv'
  BY <1>d DEF EvidenceInv, Up
<1> QED
  BY <1>1, <1>2, <1>3, <1>4, <1>5

\* The recovered outcome is durable and becomes the completion.
LEMMA ReconcileSyncKeeps ==
    ASSUME IInv, NEW k \in Keys, ReconcileSync(k)
    PROVE  IInv'
<1> USE DEF IInv, ReconcileSync
<1>a. phase = "reconciling" /\ k \in todo /\ evidence[k] \in Outcomes /\ None \notin Outcomes
  BY DEF StartupInv, Stages, TypeOK, Evidence, Outcomes, Replies
<1>1. TypeOK'
  BY <1>a DEF TypeOK
<1>2. QuietInv' /\ ChainInv' /\ CallInv' /\ RunningInv' /\ StartupInv' /\ FileInv' /\ FirstInv'
  BY <1>a DEF QuietInv, ChainInv, CallInv, RunningInv, StartupInv, FileInv, FirstInv
<1>3. EntryInv'
  <2>1. \A j \in Keys : OnRecord(j) => OnRecord(j)'
    BY DEF OnRecord, FileInv, TypeOK
  <2> QED
    BY <1>a, <2>1 DEF EntryInv, QuietInv
<1>4. OpenInv'
  BY <1>a DEF OpenInv, StartupInv, RunningInv, QuietInv, TypeOK, Stages
<1>5. EvidenceInv'
  <2>1. \A j \in Keys : OnRecord(j) => OnRecord(j)'
    BY DEF OnRecord, FileInv, TypeOK
  <2> QED
    BY <2>1 DEF EvidenceInv, Up
<1> QED
  BY <1>1, <1>2, <1>3, <1>4, <1>5

\* execute puts a new call behind the chain.
LEMMA SubmitKeeps ==
    ASSUME IInv, NEW c \in Calls, NEW k \in Keys, NEW h \in Hashes, Submit(c, k, h)
    PROVE  IInv'
<1> USE DEF IInv, Submit
<1>1. TypeOK'
  BY DEF TypeOK, Pending, Replies, Evidence, Stages
<1>2. QuietInv' /\ StartupInv' /\ FileInv' /\ OpenInv' /\ EvidenceInv'
  BY DEF QuietInv, StartupInv, FileInv, OpenInv, EvidenceInv, OnRecord, Up
<1>3. ChainInv'
  <2>1. \A i \in 1..Len(tail) : tail[i].call # c /\ pc[tail[i].call] = AwaitedBy(tail[i].op)
    BY DEF ChainInv, AwaitedBy
  <2> QED
    BY <2>1, ChainPush DEF ChainInv, TypeOK, Places, AwaitedBy
<1>4. CallInv'
  BY DEF CallInv, TypeOK, Pending, Outcomes
<1>5. RunningInv'
  BY DEF RunningInv, QuietInv, TypeOK, Executing, Pending
<1>6. EntryInv'
  BY DEF EntryInv, OnRecord, ChainInv, TypeOK
<1>7. FirstInv'
  BY DEF FirstInv, ChainInv, QuietInv, TypeOK
<1> QED
  BY <1>1, <1>2, <1>3, <1>4, <1>5, <1>6, <1>7

\* accept refuses another request under a key that is taken.
LEMMA AcceptConflictKeeps ==
    ASSUME IInv, NEW c \in Calls, AcceptConflict(c)
    PROVE  IInv'
<1> USE DEF IInv, AcceptConflict, AtHead
<1>a. /\ pc[c] = "accepting" /\ key[c] \in Keys /\ hash[c] \in Hashes
      /\ phase \in {"serving", "stopping"} /\ tail # <<>> /\ Head(tail).call = c
      /\ Tail(tail) \in Seq(Places)
  BY ChainHead DEF AwaitedBy, CallInv, Pending, QuietInv
<1>1. TypeOK'
  BY <1>a DEF TypeOK, Pending, Replies, Evidence, Stages
<1>2. QuietInv' /\ CallInv' /\ StartupInv' /\ FileInv' /\ EntryInv' /\ FirstInv' /\ OpenInv' /\
      EvidenceInv'
  BY <1>a DEF QuietInv, CallInv, StartupInv, FileInv, EntryInv, OnRecord, FirstInv, OpenInv,
     EvidenceInv, Up
<1>3. ChainInv'
  <2>1. \A d \in Calls \ {c} : pc[d] \in {"accepting", "completing"} => pc'[d] = pc[d]
    BY DEF TypeOK
  <2> QED
    BY <2>1, ChainPop
<1>4. RunningInv'
  BY <1>a DEF RunningInv, QuietInv, TypeOK, Executing, Pending
<1> QED
  BY <1>1, <1>2, <1>3, <1>4

\* accept replays a completion or joins the running effect.
LEMMA AcceptSettledKeeps ==
    ASSUME IInv, NEW c \in Calls, AcceptSettled(c)
    PROVE  IInv'
<1> USE DEF IInv, AcceptSettled, AtHead
<1>a. /\ pc[c] = "accepting" /\ key[c] \in Keys /\ hash[c] \in Hashes
      /\ phase \in {"serving", "stopping"} /\ tail # <<>> /\ Head(tail).call = c
      /\ Tail(tail) \in Seq(Places)
  BY ChainHead DEF AwaitedBy, CallInv, Pending, QuietInv
<1>1. TypeOK'
  <2>1. completion[key[c]] \in Replies \cup {None}
    BY <1>a DEF TypeOK, Replies
  <2>2. reply' \in [Calls -> Replies \cup {None}]
    BY <2>1 DEF TypeOK
  <2>3. pc' \in [Calls -> Pending \cup {"idle", "answered", "lost"}]
    BY DEF TypeOK, Pending
  <2> QED
    BY <1>a, <2>2, <2>3 DEF TypeOK, Places
<1>2. QuietInv' /\ StartupInv' /\ FileInv' /\ EntryInv' /\ FirstInv' /\ OpenInv'
  BY <1>a DEF QuietInv, StartupInv, FileInv, EntryInv, OnRecord, FirstInv, OpenInv
<1>3. ChainInv'
  <2>1. \A d \in Calls \ {c} : pc[d] \in {"accepting", "completing"} => pc'[d] = pc[d]
    BY DEF TypeOK
  <2> QED
    BY <2>1, ChainPop
<1>4. CallInv'
  <2>1. \A d \in Calls : pc'[d] \in Pending => pc[d] \in Pending
    BY <1>a DEF TypeOK, Pending
  <2>2. \A d \in Calls : pc'[d] = "completing" => pc[d] = "completing" /\ reply'[d] = reply[d]
    BY <1>a DEF TypeOK, Pending
  <2> QED
    BY <2>1, <2>2 DEF CallInv
<1>5. RunningInv'
  BY <1>a DEF RunningInv, QuietInv, TypeOK, Executing, Pending
<1>6. EvidenceInv'
  BY <1>a DEF EvidenceInv, OnRecord, Up, TypeOK
<1> QED
  BY <1>1, <1>2, <1>3, <1>4, <1>5, <1>6

\* accept begins the effect of an entry that nothing runs: it has left no evidence.
LEMMA AcceptOpenEntryKeeps ==
    ASSUME IInv, NEW c \in Calls, AcceptOpenEntry(c)
    PROVE  IInv'
<1> USE DEF IInv, AcceptOpenEntry, StartEffect, AtHead
<1>a. /\ pc[c] = "accepting" /\ key[c] \in Keys /\ hash[c] \in Hashes
      /\ phase \in {"serving", "stopping"} /\ tail # <<>> /\ Head(tail).call = c
      /\ Tail(tail) \in Seq(Places)
  BY ChainHead DEF AwaitedBy, CallInv, Pending, QuietInv
<1>b. running[key[c]] = None /\ bound[key[c]] # None /\ completion[key[c]] = None /\ todo = {}
  BY <1>a DEF StartupInv
<1>1. TypeOK'
  <2>1. /\ running' \in [Keys -> Calls \cup {None}]
        /\ reply' \in [Calls -> Replies \cup {None}]
        /\ pc' \in [Calls -> Pending \cup {"idle", "answered", "lost"}]
    BY <1>a DEF TypeOK, Replies, Outcomes, Pending
  <2>2. tail' \in Seq([op : {"accept", "complete"}, call : Calls])
    <3>1. tail' = Tail(tail) \/ tail' = Append(Tail(tail), [op |-> "complete", call |-> c])
      OBVIOUS
    <3> QED
      BY <1>a, <3>1, ChainAfterStart
  <2> QED
    BY <1>a, <2>1, <2>2 DEF TypeOK
<1>2. QuietInv' /\ StartupInv' /\ FileInv' /\ EntryInv' /\ FirstInv' /\ OpenInv'
  BY <1>a DEF QuietInv, StartupInv, FileInv, EntryInv, OnRecord, FirstInv, OpenInv
<1>3. ChainInv'
  <2>1. CASE phase = "serving"
    <3>1. \A d \in Calls \ {c} : pc'[d] = pc[d]
      BY <2>1 DEF TypeOK
    <3> QED
      BY <2>1, <3>1, ChainPop
  <2>2. CASE phase # "serving"
    <3>1. \A i \in 1..Len(Tail(tail)) :
             /\ i + 1 \in 1..Len(tail) /\ Tail(tail)[i] = tail[i + 1] /\ Tail(tail)[i].call # c
      BY ChainHead
    <3>2. \A i \in 1..Len(Tail(tail)) : pc[Tail(tail)[i].call] = AwaitedBy(Tail(tail)[i].op)
      BY <3>1 DEF ChainInv, AwaitedBy
    <3>3. \A i, j \in 1..Len(Tail(tail)) : Tail(tail)[i].call = Tail(tail)[j].call => i = j
      BY <3>1 DEF ChainInv
    <3>4. /\ tail' = Append(Tail(tail), [op |-> "complete", call |-> c])
          /\ pc' = [pc EXCEPT ![c] = AwaitedBy("complete")]
      BY <2>2 DEF AwaitedBy
    <3>5. TypeOK
      OBVIOUS
    <3> HIDE DEF IInv, AcceptOpenEntry, AtHead, StartEffect
    <3> QED
      BY <1>a, <3>1, <3>2, <3>3, <3>4, <3>5, ChainPush
  <2> QED
    BY <2>1, <2>2
<1>4. CallInv'
  <2>1. \A d \in Calls : pc'[d] \in Pending => pc[d] \in Pending
    BY <1>a DEF TypeOK, Pending
  <2>2. \A d \in Calls : pc'[d] = "completing" =>
           reply'[d] = "failed" \/ (pc[d] = "completing" /\ reply'[d] = reply[d])
    BY <1>a DEF TypeOK, Pending
  <2> QED
    BY <2>1, <2>2 DEF CallInv, Outcomes
<1>5. RunningInv'
  <2>1. \A d \in Calls : d # c /\ pc'[d] \in Executing => pc[d] \in Executing /\ key[d] # key[c]
    BY <1>a, <1>b DEF RunningInv, TypeOK, Executing
  <2>2. \A d \in Calls : pc[d] \in Executing => key[d] \in Keys
    BY DEF CallInv, Executing, Pending
  <2>3. running'[key[c]] = c /\ \A k \in Keys : k # key[c] => running'[k] = running[k]
    BY <1>a DEF TypeOK
  <2>4. \A d \in Calls : pc'[d] \in Executing => running'[key[d]] = d
    BY <2>1, <2>2, <2>3 DEF RunningInv
  <2>5. \A k \in Keys : running'[k] # None => bound'[k] # None
    BY <1>a, <1>b, <2>3 DEF RunningInv, TypeOK
  <2>6. \A d \in Calls : pc'[d] = "marked" => pc[d] = "marked"
    BY <1>a DEF TypeOK
  <2> QED
    BY <2>4, <2>5, <2>6 DEF RunningInv
<1>6. EvidenceInv'
  <2>1. ioFaults = 0 /\ ~retracted /\ Once(key[c]) => evidence[key[c]] = "absent"
    BY <1>a, <1>b DEF OpenInv, Once
  <2>2. \A d \in Calls : d # c => pc'[d] = pc[d]
    BY DEF TypeOK
  <2>3. \A k \in Keys : OnRecord(k) => OnRecord(k)'
    BY DEF OnRecord
  <2> QED
    BY <1>a, <2>1, <2>2, <2>3 DEF EvidenceInv, Up
<1> QED
  BY <1>1, <1>2, <1>3, <1>4, <1>5, <1>6

\* accept writes the first acceptance of a key.
LEMMA AcceptWriteKeeps ==
    ASSUME IInv, NEW c \in Calls, AcceptWrite(c)
    PROVE  IInv'
<1> USE DEF IInv, AcceptWrite, AtHead
<1>a. /\ pc[c] = "accepting" /\ key[c] \in Keys /\ hash[c] \in Hashes
      /\ phase \in {"serving", "stopping"} /\ tail # <<>> /\ Head(tail).call = c
      /\ Tail(tail) \in Seq(Places)
  BY ChainHead DEF AwaitedBy, CallInv, Pending, QuietInv
<1>b. Accepted(key[c], hash[c]) \in Records
  BY <1>a, RecordsMade DEF TypeOK, Evidence, Outcomes, Stages
<1>c. /\ lines' \in Seq(Records) /\ Len(lines') = Len(lines) + 1
      /\ \A i \in 1..Len(lines) : lines'[i] = lines[i]
      /\ ~torn => lines'[Len(lines')] = Accepted(key[c], hash[c])
      /\ lines'[Len(lines')].type = "accepted" => lines'[Len(lines')] = Accepted(key[c], hash[c])
  BY <1>b, OneLineWritten
<1>d. \A j \in Keys : OnRecord(j) => OnRecord(j)'
  <2>1. relied' \in Nat /\ relied <= relied' /\ \A i \in 1..relied : lines'[i] = lines[i]
    BY <1>c DEF FileInv, TypeOK
  <2> QED
    BY <2>1, OnRecordStays
<1>1. TypeOK'
  <2>1. synced' \in 0..Len(lines')
    BY <1>c DEF TypeOK
  <2> QED
    BY <1>a, <1>c, <2>1 DEF TypeOK
<1>2. QuietInv' /\ ChainInv' /\ CallInv' /\ RunningInv' /\ StartupInv' /\ FirstInv' /\ OpenInv'
  BY <1>a, <1>c DEF QuietInv, ChainInv, CallInv, RunningInv, StartupInv, FirstInv, OpenInv
<1>3. FileInv'
  <2>1. \A i \in 1..Len(lines') : i \in 1..Len(lines) \/ i = Len(lines')
    BY <1>c DEF TypeOK
  <2>2. lines'[Len(lines')].type = "accepted" => lines'[Len(lines')].hash \in Hashes
    BY <1>a, <1>c DEF Accepted
  <2>3. relied' <= Len(lines')
    BY <1>c DEF FileInv, TypeOK
  <2> QED
    BY <1>c, <2>1, <2>2, <2>3 DEF FileInv
<1>4. EntryInv'
  <2>1. ioFaults = 0 => IsAcceptanceOf(lines'[Len(lines')], key[c])
    BY <1>a, <1>c DEF EntryInv, IsAcceptanceOf, Accepted
  <2>2. lines' # <<>>
    BY <1>c DEF TypeOK
  <2> QED
    BY <1>a, <1>d, <2>1, <2>2 DEF EntryInv
<1>5. EvidenceInv'
  BY <1>d DEF EvidenceInv, Up
<1> QED
  BY <1>1, <1>2, <1>3, <1>4, <1>5

\* The acceptance is durable: the key gets its entry and its effect begins.
LEMMA AcceptSyncKeeps ==
    ASSUME IInv, NEW c \in Calls, AcceptSync(c)
    PROVE  IInv'
<1> USE DEF IInv, AcceptSync, StartEffect, AtHead
<1>a. /\ pc[c] = "accepting" /\ key[c] \in Keys /\ hash[c] \in Hashes
      /\ phase \in {"serving", "stopping"} /\ tail # <<>> /\ Head(tail).call = c
      /\ Tail(tail) \in Seq(Places)
  BY ChainHead DEF AwaitedBy, CallInv, Pending, QuietInv
<1>b. bound[key[c]] = None /\ running[key[c]] = None /\ todo = {}
  BY <1>a DEF FirstInv, RunningInv, StartupInv
<1>c. bound'[key[c]] = hash[c] /\ hash[c] # None
  BY <1>a DEF TypeOK
<1>d. \A j \in Keys : OnRecord(j) => OnRecord(j)'
  <2>1. relied' \in Nat /\ relied <= relied' /\ \A i \in 1..relied : lines'[i] = lines[i]
    BY DEF FileInv, TypeOK
  <2> QED
    BY <2>1, OnRecordStays
<1>1. TypeOK'
  <2>1. /\ running' \in [Keys -> Calls \cup {None}]
        /\ reply' \in [Calls -> Replies \cup {None}]
        /\ pc' \in [Calls -> Pending \cup {"idle", "answered", "lost"}]
    <3>1. running' \in [Keys -> Calls \cup {None}]
      BY DEF TypeOK
    <3>2. reply' \in [Calls -> Replies \cup {None}]
      BY DEF TypeOK, Replies, Outcomes
    <3>3. pc' \in [Calls -> Pending \cup {"idle", "answered", "lost"}]
      BY DEF TypeOK, Pending
    <3> QED
      BY <3>1, <3>2, <3>3
  <2>2. tail' \in Seq([op : {"accept", "complete"}, call : Calls])
    <3>1. tail' = Tail(tail) \/ tail' = Append(Tail(tail), [op |-> "complete", call |-> c])
      OBVIOUS
    <3> QED
      BY <1>a, <3>1, ChainAfterStart
  <2>3. bound' \in [Keys -> Hashes \cup {None}]
    BY <1>a DEF TypeOK
  <2>4. synced' \in 0..Len(lines') /\ relied' \in Nat
    BY DEF TypeOK
  <2> QED
    BY <2>1, <2>2, <2>3, <2>4 DEF TypeOK
<1>2. QuietInv' /\ StartupInv' /\ FileInv' /\ FirstInv'
  BY <1>a, <1>b, <1>c DEF QuietInv, StartupInv, FileInv, FirstInv
<1>3. ChainInv'
  <2>1. CASE phase = "serving"
    <3>1. \A d \in Calls \ {c} : pc'[d] = pc[d]
      BY <2>1 DEF TypeOK
    <3> QED
      BY <2>1, <3>1, ChainPop
  <2>2. CASE phase # "serving"
    <3>1. \A i \in 1..Len(Tail(tail)) :
             /\ i + 1 \in 1..Len(tail) /\ Tail(tail)[i] = tail[i + 1] /\ Tail(tail)[i].call # c
      BY ChainHead
    <3>2. \A i \in 1..Len(Tail(tail)) : pc[Tail(tail)[i].call] = AwaitedBy(Tail(tail)[i].op)
      BY <3>1 DEF ChainInv, AwaitedBy
    <3>3. \A i, j \in 1..Len(Tail(tail)) : Tail(tail)[i].call = Tail(tail)[j].call => i = j
      BY <3>1 DEF ChainInv
    <3>4. /\ tail' = Append(Tail(tail), [op |-> "complete", call |-> c])
          /\ pc' = [pc EXCEPT ![c] = AwaitedBy("complete")]
      BY <2>2 DEF AwaitedBy
    <3>5. TypeOK
      OBVIOUS
    <3> HIDE DEF IInv, AcceptSync, AtHead, StartEffect
    <3> QED
      BY <1>a, <3>1, <3>2, <3>3, <3>4, <3>5, ChainPush
  <2> QED
    BY <2>1, <2>2
<1>4. CallInv'
  <2>1. \A d \in Calls : pc'[d] \in Pending => pc[d] \in Pending
    BY <1>a DEF TypeOK, Pending
  <2>2. \A d \in Calls : pc'[d] = "completing" =>
           reply'[d] = "failed" \/ (pc[d] = "completing" /\ reply'[d] = reply[d])
    BY <1>a DEF TypeOK, Pending
  <2> QED
    BY <2>1, <2>2 DEF CallInv, Outcomes
<1>5. RunningInv'
  <2>1. \A d \in Calls : d # c /\ pc'[d] \in Executing => pc[d] \in Executing /\ key[d] # key[c]
    BY <1>a, <1>b DEF RunningInv, TypeOK, Executing
  <2>2. \A d \in Calls : pc[d] \in Executing => key[d] \in Keys
    BY DEF CallInv, Executing, Pending
  <2>3. running'[key[c]] = c /\ \A k \in Keys : k # key[c] => running'[k] = running[k]
    BY <1>a DEF TypeOK
  <2>4. \A d \in Calls : pc'[d] \in Executing => running'[key[d]] = d
    BY <2>1, <2>2, <2>3 DEF RunningInv
  <2>5. \A k \in Keys : running'[k] # None => bound'[k] # None
    BY <1>a, <1>b, <1>c, <2>3 DEF RunningInv, TypeOK
  <2>6. \A d \in Calls : pc'[d] = "marked" => pc[d] = "marked"
    BY <1>a DEF TypeOK
  <2> QED
    BY <2>4, <2>5, <2>6 DEF RunningInv
<1>6. EntryInv'
  <2>1. ioFaults = 0 => OnRecord(key[c])'
    BY <1>a DEF EntryInv, OnRecord, TypeOK
  <2>2. \A k \in Keys : k # key[c] => bound'[k] = bound[k]
    BY DEF TypeOK
  <2> QED
    BY <1>a, <1>d, <2>1, <2>2 DEF EntryInv
<1>7. OpenInv'
  BY <1>a, <1>b, <1>c DEF OpenInv, StartupInv, RunningInv, QuietInv, TypeOK, Stages
<1>8. EvidenceInv'
  <2>1. \A k \in Keys : k # key[c] => bound'[k] = bound[k]
    BY DEF TypeOK
  <2>2. ioFaults = 0 /\ ~retracted => evidence[key[c]] = "absent"
    BY <1>a, <1>b DEF EvidenceInv, Up
  <2>3. \A d \in Calls : d # c => pc'[d] = pc[d]
    BY DEF TypeOK
  <2> QED
    BY <1>a, <1>c, <1>d, <2>1, <2>2, <2>3 DEF EvidenceInv, Up
<1> QED
  BY <1>1, <1>2, <1>3, <1>4, <1>5, <1>6, <1>7, <1>8

\* The effect leaves its first evidence, for the first time.
LEMMA MarkKeeps ==
    ASSUME IInv, NEW c \in Calls, Mark(c)
    PROVE  IInv'
<1> USE DEF IInv, Mark
<1>a. /\ key[c] \in Keys /\ hash[c] \in Hashes /\ running[key[c]] = c
      /\ phase \in {"serving", "stopping"} /\ todo = {}
      /\ bound[key[c]] # None
  BY DEF CallInv, Pending, Executing, QuietInv, RunningInv, StartupInv, TypeOK
<1>1. TypeOK'
  BY <1>a DEF TypeOK, Pending, Replies, Evidence, Stages
<1>2. QuietInv' /\ ChainInv' /\ CallInv' /\ StartupInv' /\ FileInv' /\ EntryInv' /\ FirstInv'
  BY <1>a DEF QuietInv, ChainInv, CallInv, StartupInv, FileInv, EntryInv, OnRecord, FirstInv
<1>3. RunningInv'
  <2>1. \A d \in Calls : d # c /\ pc[d] \in Executing => key[d] \in Keys \ {key[c]}
    BY <1>a DEF RunningInv, Executing, CallInv, Pending
  <2>2. \A d \in Calls : d # c => pc'[d] = pc[d]
    BY DEF TypeOK
  <2>3. \A k \in Keys : k # key[c] => evidence'[k] = evidence[k]
    BY DEF TypeOK
  <2>4. ~Lasting(key[c]) => evidence'[key[c]] \in Results
    BY <1>a DEF TypeOK
  <2> QED
    BY <1>a, <2>1, <2>2, <2>3, <2>4 DEF RunningInv, Executing
<1>4. OpenInv'
  <2>1. \A k \in Keys : running[k] = None => evidence'[k] = evidence[k]
    BY <1>a DEF TypeOK
  <2> QED
    BY <2>1 DEF OpenInv
<1>5. EvidenceInv'
  <2>1. \A k \in Keys : k # key[c] => evidence'[k] = evidence[k] /\ starts'[k] = starts[k]
    BY <1>a DEF TypeOK
  <2>2. starts'[key[c]] = starts[key[c]] + 1
    BY <1>a DEF TypeOK
  <2>3. evidence'[key[c]] # "absent"
    BY <1>a DEF TypeOK, Stages
  <2>4. ioFaults = 0 => OnRecord(key[c])
    BY <1>a DEF EntryInv
  <2>5. ioFaults = 0 /\ ~retracted /\ Once(key[c]) => starts[key[c]] = 0
    BY <1>a DEF EvidenceInv
  <2>6. \A d \in Calls : pc'[d] = "effect" => pc[d] = "effect" /\ key[d] \in Keys \ {key[c]}
    BY <1>a DEF TypeOK, RunningInv, Executing, CallInv, Pending
  <2>7. \A k \in Keys : OnRecord(k) <=> OnRecord(k)'
    BY DEF OnRecord
  <2> QED
    BY <1>a, <2>1, <2>2, <2>3, <2>4, <2>5, <2>6, <2>7 DEF EvidenceInv, Up, TypeOK
<1> QED
  BY <1>1, <1>2, <1>3, <1>4, <1>5

\* The effect returns.
LEMMA EffectReturnKeeps ==
    ASSUME IInv, NEW c \in Calls, EffectReturn(c)
    PROVE  IInv'
<1> USE DEF IInv, EffectReturn
<1>a. /\ key[c] \in Keys /\ hash[c] \in Hashes /\ running[key[c]] = c
      /\ phase \in {"serving", "stopping"} /\ todo = {}
      /\ bound[key[c]] # None
  BY DEF CallInv, Pending, Executing, QuietInv, RunningInv, StartupInv, TypeOK
<1>b. PICK r \in Results : /\ evidence' = [evidence EXCEPT ![key[c]] = r]
                           /\ reply' = [reply EXCEPT ![c] = r]
  BY <1>a DEF RunningInv
<1>1. TypeOK'
  <2>1. tail' \in Seq([op : {"accept", "complete"}, call : Calls])
    BY ChainAfterStart DEF TypeOK, Places
  <2>2. evidence' \in [Keys -> Evidence] /\ reply' \in [Calls -> Replies \cup {None}]
    BY <1>b DEF TypeOK, Evidence, Replies, Outcomes
  <2>3. pc' \in [Calls -> Pending \cup {"idle", "answered", "lost"}]
    BY DEF TypeOK, Pending
  <2> QED
    BY <2>1, <2>2, <2>3 DEF TypeOK
<1>2. QuietInv' /\ StartupInv' /\ FileInv' /\ EntryInv' /\ FirstInv'
  BY <1>a DEF QuietInv, StartupInv, FileInv, EntryInv, OnRecord, FirstInv
<1>3. ChainInv'
  <2>1. \A i \in 1..Len(tail) : tail[i].call # c /\ pc[tail[i].call] = AwaitedBy(tail[i].op)
    BY DEF ChainInv, AwaitedBy
  <2>2. tail \in Seq(Places) /\ pc' = [pc EXCEPT ![c] = AwaitedBy("complete")]
    BY DEF TypeOK, Places, AwaitedBy
  <2> QED
    BY <2>1, <2>2, ChainPush DEF ChainInv
<1>4. CallInv'
  <2>1. reply'[c] \in Outcomes /\ \A d \in Calls : d # c => pc'[d] = pc[d] /\ reply'[d] = reply[d]
    BY <1>b DEF TypeOK, Outcomes
  <2> QED
    BY <1>a, <2>1 DEF CallInv
<1>5. RunningInv'
  <2>1. \A d \in Calls : d # c /\ pc[d] \in Executing => key[d] \in Keys \ {key[c]}
    BY <1>a DEF RunningInv, Executing, CallInv, Pending
  <2>2. \A d \in Calls : d # c => pc'[d] = pc[d]
    BY DEF TypeOK
  <2>3. \A k \in Keys : k # key[c] => evidence'[k] = evidence[k]
    BY DEF TypeOK
  <2>4. pc'[c] = "completing"
    BY DEF TypeOK
  <2> QED
    BY <1>a, <2>1, <2>2, <2>3, <2>4 DEF RunningInv, Executing
<1>6. OpenInv'
  <2>1. \A k \in Keys : running[k] = None => evidence'[k] = evidence[k]
    BY <1>a, <1>b DEF TypeOK
  <2> QED
    BY <2>1 DEF OpenInv
<1>7. EvidenceInv'
  <2>1. \A k \in Keys : k # key[c] => evidence'[k] = evidence[k]
    BY <1>a, <1>b DEF TypeOK
  <2>2. evidence'[key[c]] # "absent"
    BY <1>a, <1>b DEF TypeOK, Stages
  <2>3. ioFaults = 0 => OnRecord(key[c])
    BY <1>a DEF EntryInv
  <2>4. \A d \in Calls : pc'[d] = "effect" => pc[d] = "effect" /\ key[d] \in Keys \ {key[c]}
    BY <1>a DEF TypeOK, RunningInv, Executing, CallInv, Pending
  <2>5. \A k \in Keys : OnRecord(k) <=> OnRecord(k)'
    BY DEF OnRecord
  <2> QED
    BY <1>a, <2>1, <2>2, <2>3, <2>4, <2>5 DEF EvidenceInv, Up
<1> QED
  BY <1>1, <1>2, <1>3, <1>4, <1>5, <1>6, <1>7

\* The effect throws.
LEMMA EffectFailKeeps ==
    ASSUME IInv, NEW c \in Calls, EffectFail(c)
    PROVE  IInv'
<1> USE DEF IInv, EffectFail
<1>a. /\ key[c] \in Keys /\ hash[c] \in Hashes /\ running[key[c]] = c
      /\ phase \in {"serving", "stopping"} /\ todo = {}
      /\ bound[key[c]] # None
  BY DEF CallInv, Pending, Executing, QuietInv, RunningInv, StartupInv, TypeOK
<1>1. TypeOK'
  BY <1>a DEF TypeOK, CallInv, StartupInv, Pending, Kinds, Outcomes, Replies, Stages, Evidence,
     Records
<1>2. QuietInv' /\ RunningInv' /\ StartupInv' /\ FileInv' /\ EntryInv' /\ FirstInv' /\ OpenInv' /\
      EvidenceInv'
  BY <1>a DEF QuietInv, RunningInv, StartupInv, FileInv, EntryInv, OnRecord, FirstInv, OpenInv,
     EvidenceInv, Up
<1>3. ChainInv'
  <2>1. \A i \in 1..Len(tail) : tail[i].call # c /\ pc[tail[i].call] = AwaitedBy(tail[i].op)
    BY DEF ChainInv, AwaitedBy
  <2>2. tail \in Seq(Places) /\ pc' = [pc EXCEPT ![c] = AwaitedBy("complete")]
    BY DEF TypeOK, Places, AwaitedBy
  <2> QED
    BY <2>1, <2>2, ChainPush DEF ChainInv
<1>4. CallInv'
  BY <1>a DEF CallInv, TypeOK, Pending, Outcomes
<1> QED
  BY <1>1, <1>2, <1>3, <1>4

\* execute writes the terminal record.
LEMMA CompleteWriteKeeps ==
    ASSUME IInv, NEW c \in Calls, CompleteWrite(c)
    PROVE  IInv'
<1> USE DEF IInv, CompleteWrite, AtHead
<1>a. /\ pc[c] = "completing" /\ reply[c] \in Outcomes /\ key[c] \in Keys /\ hash[c] \in Hashes
      /\ phase \in {"serving", "stopping"} /\ tail # <<>> /\ Head(tail).call = c
      /\ Tail(tail) \in Seq(Places)
  BY ChainHead DEF AwaitedBy, CallInv, Pending, QuietInv
<1>b. Terminal(key[c], reply[c]) \in Records
  BY <1>a, RecordsMade DEF TypeOK, Evidence, Outcomes, Stages
<1>c. /\ lines' \in Seq(Records) /\ Len(lines') = Len(lines) + 1
      /\ \A i \in 1..Len(lines) : lines'[i] = lines[i]
      /\ ~torn => lines'[Len(lines')] = Terminal(key[c], reply[c])
      /\ lines'[Len(lines')].type = "accepted" => lines'[Len(lines')] = Terminal(key[c], reply[c])
  BY <1>b, OneLineWritten
<1>d. \A j \in Keys : OnRecord(j) => OnRecord(j)'
  <2>1. relied' \in Nat /\ relied <= relied' /\ \A i \in 1..relied : lines'[i] = lines[i]
    BY <1>c DEF FileInv, TypeOK
  <2> QED
    BY <2>1, OnRecordStays
<1>1. TypeOK'
  <2>1. synced' \in 0..Len(lines')
    BY <1>c DEF TypeOK
  <2> QED
    BY <1>a, <1>c, <2>1 DEF TypeOK
<1>2. QuietInv' /\ ChainInv' /\ CallInv' /\ RunningInv' /\ StartupInv' /\ FirstInv' /\ OpenInv'
  BY <1>a, <1>c DEF QuietInv, ChainInv, CallInv, RunningInv, StartupInv, FirstInv, OpenInv
<1>3. FileInv'
  <2>1. \A i \in 1..Len(lines') : i \in 1..Len(lines) \/ i = Len(lines')
    BY <1>c DEF TypeOK
  <2>2. lines'[Len(lines')].type = "accepted" => lines'[Len(lines')].hash \in Hashes
    BY <1>a, <1>c DEF Terminal
  <2>3. relied' <= Len(lines')
    BY <1>c DEF FileInv, TypeOK
  <2> QED
    BY <1>c, <2>1, <2>2, <2>3 DEF FileInv
<1>4. EntryInv'
  BY <1>a, <1>d DEF EntryInv, TypeOK
<1>5. EvidenceInv'
  BY <1>d DEF EvidenceInv, Up
<1> QED
  BY <1>1, <1>2, <1>3, <1>4, <1>5

\* The terminal record is durable and everyone who waits is answered.
LEMMA CompleteSyncKeeps ==
    ASSUME IInv, NEW c \in Calls, CompleteSync(c)
    PROVE  IInv'
<1> USE DEF IInv, CompleteSync, Settling, AtHead
<1>a. /\ pc[c] = "completing" /\ reply[c] \in Outcomes /\ key[c] \in Keys /\ hash[c] \in Hashes
      /\ phase \in {"serving", "stopping"} /\ tail # <<>> /\ Head(tail).call = c
      /\ Tail(tail) \in Seq(Places)
  BY ChainHead DEF AwaitedBy, CallInv, Pending, QuietInv
<1>d. \A j \in Keys : OnRecord(j) => OnRecord(j)'
  <2>1. relied' \in Nat /\ relied <= relied' /\ \A i \in 1..relied : lines'[i] = lines[i]
    BY DEF FileInv, TypeOK
  <2> QED
    BY <2>1, OnRecordStays
<1>1. TypeOK'
  <2>1. /\ running' \in [Keys -> Calls \cup {None}]
        /\ completion' \in [Keys -> Outcomes \cup {None}]
    BY <1>a DEF TypeOK
  <2>2. /\ reply' \in [Calls -> Replies \cup {None}]
        /\ pc' \in [Calls -> Pending \cup {"idle", "answered", "lost"}]
    BY <1>a DEF TypeOK, Replies, Pending
  <2>3. tail' \in Seq([op : {"accept", "complete"}, call : Calls])
    BY <1>a DEF Places
  <2>4. synced' \in 0..Len(lines') /\ relied' \in Nat
    BY DEF TypeOK
  <2> QED
    BY <2>1, <2>2, <2>3, <2>4 DEF TypeOK
<1>2. QuietInv' /\ StartupInv' /\ FileInv' /\ FirstInv'
  BY <1>a DEF QuietInv, StartupInv, FileInv, FirstInv
<1>3. ChainInv'
  <2>1. \A d \in Calls \ {c} : pc[d] \in {"accepting", "completing"} => pc'[d] = pc[d]
    BY DEF TypeOK
  <2> QED
    BY <2>1, ChainPop
<1>4. CallInv'
  BY <1>a DEF CallInv, TypeOK, Pending, Outcomes
<1>5. RunningInv'
  <2>1. \A d \in Calls : pc'[d] \in Executing => d # c /\ pc'[d] = pc[d]
    BY DEF TypeOK, Executing
  <2>2. \A d \in Calls : d # c /\ pc[d] \in Executing => key[d] \in Keys \ {key[c]}
    BY <1>a DEF RunningInv, Executing, CallInv, Pending
  <2>3. running'[key[c]] = None /\ \A k \in Keys : k # key[c] => running'[k] = running[k]
    BY <1>a DEF TypeOK
  <2> QED
    BY <2>1, <2>2, <2>3 DEF RunningInv, Executing
<1>6. EntryInv'
  BY <1>a, <1>d DEF EntryInv
<1>7. OpenInv'
  <2>1. completion'[key[c]] # None
    BY <1>a DEF TypeOK, Outcomes, Replies
  <2>2. \A k \in Keys : k # key[c] => completion'[k] = completion[k] /\ running'[k] = running[k]
    BY <1>a DEF TypeOK
  <2> QED
    BY <2>1, <2>2 DEF OpenInv
<1>8. EvidenceInv'
  <2>1. \A d \in Calls : pc'[d] = "effect" => pc[d] = "effect"
    BY DEF TypeOK
  <2> QED
    BY <1>a, <1>d, <2>1 DEF EvidenceInv, Up
<1> QED
  BY <1>1, <1>2, <1>3, <1>4, <1>5, <1>6, <1>7, <1>8

\* A failing append of an acceptance.
LEMMA AppendFaultAcceptKeeps ==
    ASSUME IInv, NEW c \in Calls, AppendFaultAccept(c)
    PROVE  IInv'
<1> USE DEF IInv, AppendFaultAccept, Leftover, AtHead
<1>a. /\ pc[c] = "accepting" /\ key[c] \in Keys /\ hash[c] \in Hashes
      /\ phase \in {"serving", "stopping"} /\ tail # <<>> /\ Head(tail).call = c
      /\ Tail(tail) \in Seq(Places)
  BY ChainHead DEF AwaitedBy, CallInv, Pending, QuietInv
<1>1. TypeOK'
  <2>1. /\ reply' \in [Calls -> Replies \cup {None}]
        /\ pc' \in [Calls -> Pending \cup {"idle", "answered", "lost"}]
    BY <1>a DEF TypeOK, Replies, Pending
  <2>2. tail' \in Seq([op : {"accept", "complete"}, call : Calls])
    BY <1>a DEF Places
  <2>3. synced' \in 0..Len(lines') /\ relied' \in Nat /\ ioFaults' \in 0..MaxIoFaults
    BY DEF TypeOK
  <2>4. torn' \in BOOLEAN
    BY DEF TypeOK
  <2> QED
    BY <2>1, <2>2, <2>3, <2>4 DEF TypeOK
<1>2. QuietInv' /\ CallInv' /\ StartupInv' /\ FileInv' /\ FirstInv'
  BY <1>a DEF QuietInv, CallInv, StartupInv, FileInv, FirstInv
<1>3. ChainInv'
  <2>1. \A d \in Calls \ {c} : pc[d] \in {"accepting", "completing"} => pc'[d] = pc[d]
    BY DEF TypeOK
  <2> QED
    BY <2>1, ChainPop
<1>4. RunningInv'
  BY <1>a DEF RunningInv, QuietInv, TypeOK, Executing, Pending
<1>5. EntryInv'
  BY <1>a DEF EntryInv, OnRecord, ChainInv, TypeOK
<1>6. OpenInv'
  BY <1>a DEF OpenInv, StartupInv, RunningInv, QuietInv, TypeOK, Stages
<1>7. EvidenceInv'
  BY <1>a DEF EvidenceInv, OnRecord, Up, TypeOK
<1> QED
  BY <1>1, <1>2, <1>3, <1>4, <1>5, <1>6, <1>7

\* A failing append of a terminal record.
LEMMA AppendFaultCompleteKeeps ==
    ASSUME IInv, NEW c \in Calls, AppendFaultComplete(c)
    PROVE  IInv'
<1> USE DEF IInv, AppendFaultComplete, Leftover, Settling, AtHead
<1>a. /\ pc[c] = "completing" /\ reply[c] \in Outcomes /\ key[c] \in Keys /\ hash[c] \in Hashes
      /\ phase \in {"serving", "stopping"} /\ tail # <<>> /\ Head(tail).call = c
      /\ Tail(tail) \in Seq(Places)
  BY ChainHead DEF AwaitedBy, CallInv, Pending, QuietInv
<1>1. TypeOK'
  <2>1. /\ running' \in [Keys -> Calls \cup {None}]
        /\ completion' \in [Keys -> Outcomes \cup {None}]
    BY <1>a DEF TypeOK
  <2>2. /\ reply' \in [Calls -> Replies \cup {None}]
        /\ pc' \in [Calls -> Pending \cup {"idle", "answered", "lost"}]
    BY <1>a DEF TypeOK, Replies, Pending
  <2>3. tail' \in Seq([op : {"accept", "complete"}, call : Calls])
    BY <1>a DEF Places
  <2>4. synced' \in 0..Len(lines') /\ relied' \in Nat /\ ioFaults' \in 0..MaxIoFaults
    BY DEF TypeOK
  <2>5. torn' \in BOOLEAN
    BY DEF TypeOK
  <2> QED
    BY <2>1, <2>2, <2>3, <2>4, <2>5 DEF TypeOK
<1>2. QuietInv' /\ StartupInv' /\ FileInv' /\ FirstInv'
  BY <1>a DEF QuietInv, StartupInv, FileInv, FirstInv
<1>3. ChainInv'
  <2>1. \A d \in Calls \ {c} : pc[d] \in {"accepting", "completing"} => pc'[d] = pc[d]
    BY DEF TypeOK
  <2> QED
    BY <2>1, ChainPop
<1>4. CallInv'
  BY <1>a DEF CallInv, TypeOK, Pending, Outcomes
<1>5. RunningInv'
  <2>1. \A d \in Calls : pc'[d] \in Executing => d # c /\ pc'[d] = pc[d]
    BY DEF TypeOK, Executing
  <2>2. \A d \in Calls : d # c /\ pc[d] \in Executing => key[d] \in Keys \ {key[c]}
    BY <1>a DEF RunningInv, Executing, CallInv, Pending
  <2>3. running'[key[c]] = None /\ \A k \in Keys : k # key[c] => running'[k] = running[k]
    BY <1>a DEF TypeOK
  <2> QED
    BY <2>1, <2>2, <2>3 DEF RunningInv, Executing
<1>6. EntryInv'
  BY <1>a DEF EntryInv, OnRecord, ChainInv, TypeOK
<1>7. OpenInv'
  BY <1>a DEF OpenInv, StartupInv, RunningInv, QuietInv, TypeOK, Stages
<1>8. EvidenceInv'
  BY <1>a DEF EvidenceInv, OnRecord, Up, TypeOK
<1> QED
  BY <1>1, <1>2, <1>3, <1>4, <1>5, <1>6, <1>7, <1>8

\* A failing append ends the start.
LEMMA AppendFaultReconcileKeeps ==
    ASSUME IInv, AppendFaultReconcile
    PROVE  IInv'
<1> USE DEF IInv, AppendFaultReconcile, Leftover, Exit
<1>1. TypeOK'
  <2>1. pc' \in [Calls -> Pending \cup {"idle", "answered", "lost"}]
    BY DEF TypeOK, Pending
  <2>2. /\ bound' \in [Keys -> Hashes \cup {None}] /\ completion' \in [Keys -> Outcomes \cup {None}]
        /\ running' \in [Keys -> Calls \cup {None}]
    OBVIOUS
  <2>3. tail' \in Seq([op : {"accept", "complete"}, call : Calls])
    OBVIOUS
  <2>4. ioFaults' \in 0..MaxIoFaults /\ boots' \in 0..MaxBoots
    BY DEF TypeOK
  <2>5. torn' \in BOOLEAN
    BY DEF TypeOK
  <2> QED
    BY <2>1, <2>2, <2>3, <2>4, <2>5 DEF TypeOK
<1>2. QuietInv' /\ ChainInv' /\ CallInv' /\ StartupInv' /\ FileInv' /\ EntryInv' /\ FirstInv' /\
      OpenInv'
  BY DEF QuietInv, ChainInv, CallInv, StartupInv, FileInv, EntryInv, OnRecord, FirstInv, OpenInv
<1>3. RunningInv'
  BY DEF RunningInv, QuietInv, TypeOK, Executing, Pending
<1>4. EvidenceInv'
  BY DEF EvidenceInv, OnRecord, Up, TypeOK
<1> QED
  BY <1>1, <1>2, <1>3, <1>4

\* stop: nothing new begins.
LEMMA BeginStopKeeps ==
    ASSUME IInv, BeginStop
    PROVE  IInv'
<1> USE DEF IInv, BeginStop
<1>1. TypeOK'
  BY DEF TypeOK
<1>2. QuietInv' /\ ChainInv' /\ CallInv' /\ RunningInv' /\ StartupInv' /\ FileInv' /\ EntryInv' /\
      FirstInv' /\ OpenInv' /\ EvidenceInv'
  BY DEF QuietInv, ChainInv, CallInv, RunningInv, StartupInv, FileInv, EntryInv, OnRecord, FirstInv,
     OpenInv, EvidenceInv, Up
<1> QED
  BY <1>1, <1>2

\* finishShutdown.
LEMMA FinishStopKeeps ==
    ASSUME IInv, FinishStop
    PROVE  IInv'
<1> USE DEF IInv, FinishStop, Exit
<1>1. TypeOK'
  <2>1. pc' \in [Calls -> Pending \cup {"idle", "answered", "lost"}]
    BY DEF TypeOK, Pending
  <2>2. /\ bound' \in [Keys -> Hashes \cup {None}] /\ completion' \in [Keys -> Outcomes \cup {None}]
        /\ running' \in [Keys -> Calls \cup {None}]
    OBVIOUS
  <2>3. tail' \in Seq([op : {"accept", "complete"}, call : Calls])
    OBVIOUS
  <2>4. ioFaults' \in 0..MaxIoFaults /\ boots' \in 0..MaxBoots /\ torn' \in BOOLEAN
    BY DEF TypeOK
  <2> QED
    BY <2>1, <2>2, <2>3, <2>4 DEF TypeOK
<1>2. QuietInv' /\ ChainInv' /\ CallInv' /\ StartupInv' /\ FileInv' /\ EntryInv' /\ FirstInv' /\
      OpenInv' /\ EvidenceInv'
  BY DEF QuietInv, ChainInv, CallInv, StartupInv, FileInv, EntryInv, OnRecord, FirstInv, OpenInv,
     EvidenceInv, Up
<1>3. RunningInv'
  BY DEF RunningInv, QuietInv, TypeOK, Executing, Pending
<1> QED
  BY <1>1, <1>2, <1>3

\* A kill loses the memory and keeps the file.
LEMMA KillKeeps ==
    ASSUME IInv, Kill
    PROVE  IInv'
<1> USE DEF IInv, Kill, Exit
<1>1. TypeOK'
  <2>1. pc' \in [Calls -> Pending \cup {"idle", "answered", "lost"}]
    BY DEF TypeOK, Pending
  <2>2. /\ bound' \in [Keys -> Hashes \cup {None}] /\ completion' \in [Keys -> Outcomes \cup {None}]
        /\ running' \in [Keys -> Calls \cup {None}]
    OBVIOUS
  <2>3. tail' \in Seq([op : {"accept", "complete"}, call : Calls])
    OBVIOUS
  <2>4. ioFaults' \in 0..MaxIoFaults /\ boots' \in 0..MaxBoots /\ torn' \in BOOLEAN
    BY DEF TypeOK
  <2> QED
    BY <2>1, <2>2, <2>3, <2>4 DEF TypeOK
<1>2. QuietInv'
  BY DEF QuietInv, Pending
<1>3. ChainInv' /\ CallInv' /\ StartupInv' /\ FileInv' /\ EntryInv' /\ FirstInv' /\ OpenInv' /\
      EvidenceInv'
  BY DEF ChainInv, CallInv, StartupInv, FileInv, EntryInv, OnRecord, FirstInv, OpenInv, EvidenceInv,
     Up
<1>4. RunningInv'
  BY DEF RunningInv, QuietInv, TypeOK, Executing, Pending
<1> QED
  BY <1>1, <1>2, <1>3, <1>4

\* A power loss that takes back no line the daemon relied on keeps every key on record.
LEMMA PowerLossKeeps ==
    ASSUME IInv, PowerLoss
    PROVE  IInv'
<1> USE DEF IInv, PowerLoss, Exit
<1>a. PICK n \in synced..Len(lines) :
         /\ lines' = SubSeq(lines, 1, n) /\ synced' = n /\ relied' = n
         /\ retracted' = (retracted \/ n < relied)
  OBVIOUS
<1>b. n \in Nat /\ n <= Len(lines) /\ Len(lines') = n /\ \A i \in 1..n : lines'[i] = lines[i]
  BY <1>a DEF TypeOK
<1>1. TypeOK'
  <2>1. pc' \in [Calls -> Pending \cup {"idle", "answered", "lost"}]
    BY DEF TypeOK, Pending
  <2>2. /\ bound' \in [Keys -> Hashes \cup {None}] /\ completion' \in [Keys -> Outcomes \cup {None}]
        /\ running' \in [Keys -> Calls \cup {None}]
    OBVIOUS
  <2>3. tail' \in Seq([op : {"accept", "complete"}, call : Calls])
    OBVIOUS
  <2>4. ioFaults' \in 0..MaxIoFaults /\ boots' \in 0..MaxBoots /\ torn' \in BOOLEAN
    BY DEF TypeOK
  <2>5. lines' \in Seq(Records) /\ synced' \in 0..Len(lines') /\ relied' \in Nat
    BY <1>a DEF TypeOK
  <2> QED
    BY <2>1, <2>2, <2>3, <2>4, <2>5 DEF TypeOK
<1>2. QuietInv'
  BY DEF QuietInv, Pending
<1>3. ChainInv' /\ CallInv' /\ StartupInv' /\ FileInv' /\ EntryInv' /\ FirstInv' /\ OpenInv'
  BY DEF ChainInv, CallInv, StartupInv, FileInv, EntryInv, OnRecord, FirstInv, OpenInv
<1>4. RunningInv'
  BY DEF RunningInv, QuietInv, TypeOK, Executing, Pending
<1>5. EvidenceInv'
  <2>1. SUFFICES ASSUME ~retracted, ~(n < relied) PROVE EvidenceInv'
    BY <1>a DEF EvidenceInv, Up, Pending
  <2>2. \A k \in Keys : OnRecord(k) => OnRecord(k)'
    <3>1. relied' \in Nat /\ relied <= relied' /\ \A i \in 1..relied : lines'[i] = lines[i]
      BY <1>a, <1>b, <2>1 DEF TypeOK
    <3> QED
      BY <3>1, OnRecordStays
  <2> QED
    BY <1>a, <2>1, <2>2 DEF EvidenceInv, Up
<1> QED
  BY <1>1, <1>2, <1>3, <1>4, <1>5

-----------------------------------------------------------------------------
(* The theorems *)

\* A machine that never ran the daemon satisfies the invariant.
LEMMA InitInvariant == Init => IInv
<1> SUFFICES ASSUME Init PROVE IInv
  OBVIOUS
<1>1. TypeOK
  <2>1. lines \in Seq(Records) /\ tail \in Seq([op : {"accept", "complete"}, call : Calls])
    BY DEF Init
  <2>2. synced \in 0..Len(lines)
    BY DEF Init
  <2>3. /\ pc \in [Calls -> Pending \cup {"idle", "answered", "lost"}]
        /\ evidence \in [Keys -> Evidence] /\ starts \in [Keys -> Nat]
    BY DEF Init, Evidence, Stages
  <2>4. /\ torn \in BOOLEAN /\ writing \in BOOLEAN /\ retracted \in BOOLEAN
    BY DEF Init
  <2>5. boots \in 0..MaxBoots /\ ioFaults \in 0..MaxIoFaults /\ relied \in Nat
    BY DEF Init
  <2> QED
    BY <2>1, <2>2, <2>3, <2>4, <2>5 DEF Init, TypeOK
<1>2. QuietInv /\ ChainInv /\ CallInv /\ RunningInv
  BY DEF Init, QuietInv, ChainInv, CallInv, RunningInv, Executing, Pending
<1>3. StartupInv /\ FileInv /\ EntryInv /\ FirstInv /\ OpenInv
  BY DEF Init, StartupInv, FileInv, EntryInv, FirstInv, OpenInv
<1>4. EvidenceInv
  BY DEF Init, EvidenceInv, Up
<1> QED
  BY <1>1, <1>2, <1>3, <1>4 DEF IInv

\* Every step of the daemon, its clients, its storage and its crashes keeps the invariant.
LEMMA NextInvariant == IInv /\ [Next]_vars => IInv'
<1> SUFFICES ASSUME IInv, [Next]_vars PROVE IInv'
  OBVIOUS
<1>1. CASE DaemonStep
  BY <1>1, OpenKeeps, ServeKeeps, ReconcileOpenKeeps, ReconcileActKeeps, ReconcileWriteKeeps,
     ReconcileSyncKeeps, AcceptConflictKeeps, AcceptSettledKeeps, AcceptOpenEntryKeeps,
     AcceptWriteKeeps, AcceptSyncKeeps, MarkKeeps, EffectReturnKeeps, EffectFailKeeps,
     CompleteWriteKeeps, CompleteSyncKeeps, FinishStopKeeps
  DEF DaemonStep
<1>2. CASE Environment
  BY <1>2, SubmitKeeps, AppendFaultAcceptKeeps, AppendFaultCompleteKeeps, AppendFaultReconcileKeeps,
     BeginStopKeeps, KillKeeps, PowerLossKeeps
  DEF Environment
<1>3. CASE UNCHANGED vars
  BY <1>3 DEF vars, IInv, TypeOK, QuietInv, ChainInv, CallInv, RunningInv, StartupInv, FileInv,
     EntryInv, FirstInv, OpenInv, EvidenceInv, OnRecord, Up
<1> QED
  BY <1>1, <1>2, <1>3 DEF Next

\* The journal's inductive invariant holds from the first start on.
THEOREM Invariant == Spec => []IInv
BY InitInvariant, NextInvariant, PTL DEF Spec

\* The state of journal, chain and calls has its type (command-journal.ts), for any number
\* of keys, calls, starts and failing appends: what a settled effect or a recovery writes to
\* the file is always a valid record.
THEOREM TypeCorrect == Spec => []TypeOK
<1>1. IInv => TypeOK
  BY DEF IInv
<1> QED
  BY <1>1, Invariant, PTL

\* Retries, joins, crashes and restarts never repeat an effect that recovery can prove or
\* disprove and does not itself redo (execute, reconcile), as long
\* as no append fails and no power loss takes back a line the daemon has relied on.
THEOREM AtMostOnce == Spec => []EffectAtMostOnce
<1>1. IInv => EffectAtMostOnce
  BY DEF IInv, EvidenceInv, EffectAtMostOnce, Once
<1> QED
  BY <1>1, Invariant, PTL

\* A daemon that serves holds no indeterminate operation of a method recovery has a branch
\* for (reconcile, reconcileAcceptedMutation, start): an entry of theirs that nothing runs
\* and that has no outcome has left no trace of its effect.  Of session.compact and the
\* extension methods it says nothing: recovery leaves them open with their evidence.
THEOREM NothingIndeterminate == Spec => []OpenEntriesUnstarted
<1>1. IInv => OpenEntriesUnstarted
  <2> SUFFICES ASSUME IInv, ioFaults = 0, phase = "serving", NEW k \in Keys, Provable(k),
                      bound[k] # None, completion[k] = None, running[k] = None
               PROVE  evidence[k] = "absent" /\ Kind[k] # "redo"
    BY DEF OpenEntriesUnstarted
  <2>1. k \notin todo
    BY DEF IInv, StartupInv
  <2> QED
    BY <2>1 DEF IInv, OpenInv
<1> QED
  BY <1>1, Invariant, PTL

-----------------------------------------------------------------------------
(* What a client of the journal is told.  The invariant relates four things: what a call  *)
(* is told, the entry in memory, the lines the daemon relies on, and the line being       *)
(* written.                                                                               *)

-----------------------------------------------------------------------------
(* The strengthened invariant, in parts *)

\* A call that runs or waits for an effect asks what the entry is bound to, and the entry
\* of a running effect, or one still to be reconciled, has no outcome yet.
MemoryInv ==
    /\ \A c \in Calls : pc[c] \in Executing \cup {"joined"} => hash[c] = bound[key[c]]
    /\ \A c \in Calls : pc[c] \in Executing => completion[key[c]] = None
    /\ \A k \in todo : completion[k] = None
    /\ Up => \A k \in Keys : bound[k] = None => completion[k] = None

\* The call at the head has written its line; so has one for the key.
Writes(op, c) == writing /\ AtHead(op, c)
WritesFor(op, k) == \E c \in Calls : Writes(op, c) /\ key[c] = k

\* The file can be replayed, and every record of a key in it is known to the running
\* daemon or is the line being written.
ReadInv ==
    ioFaults = 0 =>
        /\ phase # "corrupt"
        /\ Readable(lines)
        /\ Up => \A k \in Keys :
              /\ AcceptanceIn(lines, k) # {} => bound[k] # None \/ WritesFor("accept", k)
              /\ TerminalIn(lines, k) # {} =>
                    completion[k] # None \/ WritesFor("complete", k) \/ recovering = k

\* The relied-on lines hold the record, unless torn bytes have spoilt one of them; then no
\* later open gets past it.
Matches(line, r) ==
    /\ line.type = r.type /\ line.key = r.key
    /\ IF r.type = "accepted" THEN line.hash = r.hash ELSE line.outcome = r.outcome
SaysIn(file0, n, r) == \E i \in 1..n : Matches(file0[i], r) \/ file0[i].type = "garbage"
Says(r) == SaysIn(lines, relied, r)

LastIs(file0, r) ==
    file0 # <<>> /\ (Matches(file0[Len(file0)], r) \/ file0[Len(file0)].type = "garbage")

\* Every terminal line names an outcome.
Named(file0) == \A i \in 1..Len(file0) : file0[i].type = "terminal" => file0[i].outcome # None

\* What the line being written will say.
LineInv ==
    /\ Named(lines)
    /\ \A c \in Calls : /\ Writes("accept", c) => LastIs(lines, Accepted(key[c], hash[c]))
                        /\ Writes("complete", c) => LastIs(lines, Terminal(key[c], reply[c]))
    /\ recovering # None => LastIs(lines, Terminal(recovering, evidence[recovering]))

IsTold(c) == pc[c] = "answered" /\ reply[c] \in Outcomes

\* Entries in memory and outcomes already told are what the relied-on lines say.
TellInv ==
    ~retracted =>
        /\ Up => \A k \in Keys :
              /\ bound[k] # None => Says(Accepted(k, bound[k]))
              /\ completion[k] # None => Says(Terminal(k, completion[k]))
        /\ \A c \in Calls : IsTold(c) =>
              /\ key[c] \in Keys
              /\ Says(Accepted(key[c], hash[c]))
              /\ Says(Terminal(key[c], reply[c]))
              /\ Up => bound[key[c]] = hash[c] /\ completion[key[c]] = reply[c]
        /\ AnswersAgree

AnswerInv == MemoryInv /\ ReadInv /\ LineInv /\ TellInv

-----------------------------------------------------------------------------
(* The file *)

\* A record is one of three types and says what it was made to say.
LEMMA RecordFacts ==
    /\ \A k, h : /\ Accepted(k, h).type = "accepted" /\ Accepted(k, h).key = k
                 /\ IsAcceptanceOf(Accepted(k, h), k)
                 /\ Matches(Accepted(k, h), Accepted(k, h))
                 /\ \A l : Matches(l, Accepted(k, h)) <=> IsAcceptanceOf(l, k) /\ l.hash = h
    /\ \A k, o : /\ Terminal(k, o).type = "terminal" /\ Terminal(k, o).key = k
                 /\ IsTerminalOf(Terminal(k, o), k)
                 /\ Matches(Terminal(k, o), Terminal(k, o))
                 /\ \A l : Matches(l, Terminal(k, o)) <=> IsTerminalOf(l, k) /\ l.outcome = o
BY DEF Accepted, Terminal, IsAcceptanceOf, IsTerminalOf, Matches

\* Lines that say something go on saying it while the relied-on ones stay.
LEMMA SaysStays ==
    ASSUME NEW f, NEW g, NEW m \in Nat, NEW n \in Nat, m <= n,
           \A i \in 1..m : g[i] = f[i], NEW r, SaysIn(f, m, r)
    PROVE  SaysIn(g, n, r)
BY DEF SaysIn

\* A prefix of a file that can be replayed can be replayed.
LEMMA ReadablePrefix ==
    ASSUME NEW f \in Seq(Records), Readable(f), NEW n \in 0..Len(f)
    PROVE  Readable(SubSeq(f, 1, n))
<1>1. Len(SubSeq(f, 1, n)) = n /\ \A i \in 1..n : i \in 1..Len(f) /\ SubSeq(f, 1, n)[i] = f[i]
    OBVIOUS
<1>2. \A i \in 1..n : 1..(i - 1) \subseteq 1..n
    OBVIOUS
<1> QED
    BY <1>1, <1>2 DEF Readable

\* A record in its place keeps the file readable: the first acceptance of its key, or
\* the first outcome after one.
LEMMA ReadableAppend ==
    ASSUME NEW f \in Seq(Records), Readable(f), NEW r,
           \/ r.type = "accepted" /\ AcceptanceIn(f, r.key) = {}
           \/ r.type = "terminal" /\ AcceptanceIn(f, r.key) # {} /\ TerminalIn(f, r.key) = {}
    PROVE  /\ Readable(Append(f, r))
           /\ \A k : AcceptanceIn(Append(f, r), k) # {} =>
                        AcceptanceIn(f, k) # {} \/ IsAcceptanceOf(r, k)
           /\ \A k : TerminalIn(Append(f, r), k) # {} =>
                        TerminalIn(f, k) # {} \/ IsTerminalOf(r, k)
<1> DEFINE g == Append(f, r)
           n == Len(f)
<1>1. n \in Nat /\ Len(g) = n + 1 /\ g[n + 1] = r /\ \A i \in 1..n : g[i] = f[i]
    OBVIOUS
<1>2. \A i \in 1..Len(g) : i \in 1..n \/ i = n + 1
    BY <1>1
<1> HIDE DEF g, n
<1>3. \A k : AcceptanceIn(g, k) # {} => AcceptanceIn(f, k) # {} \/ IsAcceptanceOf(r, k)
    BY <1>1, <1>2 DEF AcceptanceIn, n
<1>4. \A k : TerminalIn(g, k) # {} => TerminalIn(f, k) # {} \/ IsTerminalOf(r, k)
    BY <1>1, <1>2 DEF TerminalIn, n
<1>5. Readable(g)
  <2> SUFFICES ASSUME NEW i \in 1..Len(g)
               PROVE /\ g[i].type # "garbage"
                     /\ g[i].type = "accepted" => \A j \in 1..(i - 1) : ~IsAcceptanceOf(g[j], g[i].key)
                     /\ g[i].type = "terminal" =>
                           /\ \E j \in 1..(i - 1) : IsAcceptanceOf(g[j], g[i].key)
                           /\ \A j \in 1..(i - 1) : ~IsTerminalOf(g[j], g[i].key)
    BY DEF Readable
  <2>1. 1..(i - 1) \subseteq 1..n /\ \A j \in 1..(i - 1) : g[j] = f[j]
    BY <1>1
  <2>2. CASE i \in 1..n
    <3>1. g[i] = f[i]
      BY <1>1, <2>2
    <3>2. /\ f[i].type # "garbage"
          /\ f[i].type = "accepted" => \A j \in 1..(i - 1) : ~IsAcceptanceOf(f[j], f[i].key)
          /\ f[i].type = "terminal" =>
                /\ \E j \in 1..(i - 1) : IsAcceptanceOf(f[j], f[i].key)
                /\ \A j \in 1..(i - 1) : ~IsTerminalOf(f[j], f[i].key)
      BY <2>2 DEF Readable, n
    <3> QED
      BY <2>1, <3>1, <3>2
  <2>3. CASE i = n + 1
    <3>1. g[i] = r /\ 1..(i - 1) = 1..n
      BY <1>1, <2>3
    <3>2. /\ \A k : AcceptanceIn(f, k) = {} => \A j \in 1..n : ~IsAcceptanceOf(f[j], k)
          /\ \A k : AcceptanceIn(f, k) # {} => \E j \in 1..n : IsAcceptanceOf(f[j], k)
          /\ \A k : TerminalIn(f, k) = {} => \A j \in 1..n : ~IsTerminalOf(f[j], k)
      BY DEF AcceptanceIn, TerminalIn, n
    <3>3. CASE r.type = "accepted" /\ AcceptanceIn(f, r.key) = {}
      BY <3>1, <3>2, <3>3, <1>1
    <3>4. CASE r.type = "terminal" /\ AcceptanceIn(f, r.key) # {} /\ TerminalIn(f, r.key) = {}
      BY <3>1, <3>2, <3>4, <1>1
    <3> QED
      BY <3>3, <3>4
  <2> QED
    BY <1>2, <2>2, <2>3
<1> QED
    BY <1>3, <1>4, <1>5 DEF g

\* Replaying a readable file gives what a line of it says.
LEMMA ReplaySays ==
    ASSUME NEW f \in Seq(Records), Readable(f)
    PROVE  /\ \A k, h : SaysIn(f, Len(f), Accepted(k, h)) => ReplayedHash(f, k) = h
           /\ \A k, o : SaysIn(f, Len(f), Terminal(k, o)) => ReplayedOutcome(f, k) = o
           /\ \A k : ReplayedHash(f, k) # None => SaysIn(f, Len(f), Accepted(k, ReplayedHash(f, k)))
           /\ \A k : ReplayedOutcome(f, k) # None => SaysIn(f, Len(f), Terminal(k, ReplayedOutcome(f, k)))
<1>1. \A k : \A i, j \in AcceptanceIn(f, k) : i = j
  <2>1. ASSUME NEW k, NEW i \in AcceptanceIn(f, k), NEW j \in AcceptanceIn(f, k)  PROVE ~(i < j)
    <3>1. i \in Nat /\ i >= 1 /\ j \in 1..Len(f) /\ f[j].type = "accepted" /\ f[j].key = k /\ IsAcceptanceOf(f[i], k)
      BY DEF AcceptanceIn, IsAcceptanceOf
    <3>2. i < j => i \in 1..(j - 1)
      BY <3>1
    <3> QED
      BY <3>1, <3>2 DEF Readable
  <2>2. \A k : AcceptanceIn(f, k) \subseteq Nat
    BY DEF AcceptanceIn
  <2>3. \A i, j \in Nat : i < j \/ j < i \/ i = j
    OBVIOUS
  <2> QED
    BY <2>1, <2>2, <2>3, Zenon
<1>2. \A k : \A i, j \in TerminalIn(f, k) : i = j
  <2>1. ASSUME NEW k, NEW i \in TerminalIn(f, k), NEW j \in TerminalIn(f, k)  PROVE ~(i < j)
    <3>1. i \in Nat /\ i >= 1 /\ j \in 1..Len(f) /\ f[j].type = "terminal" /\ f[j].key = k /\ IsTerminalOf(f[i], k)
      BY DEF TerminalIn, IsTerminalOf
    <3>2. i < j => i \in 1..(j - 1)
      BY <3>1
    <3> QED
      BY <3>1, <3>2 DEF Readable
  <2>2. \A k : TerminalIn(f, k) \subseteq Nat
    BY DEF TerminalIn
  <2>3. \A i, j \in Nat : i < j \/ j < i \/ i = j
    OBVIOUS
  <2> QED
    BY <2>1, <2>2, <2>3, Zenon
<1>3. \A i \in 1..Len(f) : f[i].type # "garbage"
    BY DEF Readable
<1>4. ASSUME NEW k, NEW h, SaysIn(f, Len(f), Accepted(k, h))  PROVE ReplayedHash(f, k) = h
  <2>1. PICK i \in AcceptanceIn(f, k) : f[i].hash = h
    BY <1>3, <1>4, RecordFacts DEF SaysIn, AcceptanceIn
  <2> QED
    BY <1>1, <2>1 DEF ReplayedHash
<1>5. ASSUME NEW k, NEW o, SaysIn(f, Len(f), Terminal(k, o))  PROVE ReplayedOutcome(f, k) = o
  <2>1. PICK i \in TerminalIn(f, k) : f[i].outcome = o
    BY <1>3, <1>5, RecordFacts DEF SaysIn, TerminalIn
  <2> QED
    BY <1>2, <2>1 DEF ReplayedOutcome
<1>6. ASSUME NEW k, ReplayedHash(f, k) # None
      PROVE  SaysIn(f, Len(f), Accepted(k, ReplayedHash(f, k)))
  <2>1. PICK i \in AcceptanceIn(f, k) : ReplayedHash(f, k) = f[i].hash
    BY <1>6 DEF ReplayedHash
  <2>2. Matches(f[i], Accepted(k, ReplayedHash(f, k))) /\ i \in 1..Len(f)
    BY <2>1, RecordFacts DEF AcceptanceIn
  <2> QED
    BY <2>2 DEF SaysIn
<1>7. ASSUME NEW k, ReplayedOutcome(f, k) # None
      PROVE  SaysIn(f, Len(f), Terminal(k, ReplayedOutcome(f, k)))
  <2>1. PICK i \in TerminalIn(f, k) : ReplayedOutcome(f, k) = f[i].outcome
    BY <1>7 DEF ReplayedOutcome
  <2>2. Matches(f[i], Terminal(k, ReplayedOutcome(f, k))) /\ i \in 1..Len(f)
    BY <2>1, RecordFacts DEF TerminalIn
  <2> QED
    BY <2>2 DEF SaysIn
<1> QED
    BY <1>4, <1>5, <1>6, <1>7

\* The outcome of a readable file stands behind its acceptance.
LEMMA ReplayOrder ==
    ASSUME NEW f \in Seq(Records), Readable(f), NEW k, TerminalIn(f, k) # {}
    PROVE  AcceptanceIn(f, k) # {}
<1>1. PICK i \in 1..Len(f) : f[i].type = "terminal" /\ f[i].key = k
    BY DEF TerminalIn, IsTerminalOf
<1>2. PICK j \in 1..(i - 1) : IsAcceptanceOf(f[j], k)
    BY <1>1 DEF Readable
<1>3. j \in 1..Len(f)
    OBVIOUS
<1> QED
    BY <1>2, <1>3 DEF AcceptanceIn

-----------------------------------------------------------------------------
(* Memory *)

\* A call under way means that the daemon serves, with its entries reconciled.
LEMMA UnderWay ==
    ASSUME IInv
    PROVE  /\ \A c \in Calls : pc[c] \in Pending =>
                 /\ phase \in {"serving", "stopping"} /\ recovering = None /\ todo = {}
                 /\ key[c] \in Keys /\ hash[c] \in Hashes
           /\ \A c \in Calls : AtHead("accept", c) => pc[c] = "accepting"
           /\ \A c \in Calls : AtHead("complete", c) => pc[c] = "completing"
<1>1. \A c \in Calls : AtHead("accept", c) => pc[c] = "accepting"
    BY ChainHead DEF IInv, AwaitedBy
<1>2. \A c \in Calls : AtHead("complete", c) => pc[c] = "completing"
    BY ChainHead DEF IInv, AwaitedBy
<1>3. \A c \in Calls : pc[c] \in Pending =>
         /\ phase \in {"serving", "stopping"} /\ recovering = None /\ todo = {}
         /\ key[c] \in Keys /\ hash[c] \in Hashes
    BY DEF IInv, QuietInv, StartupInv, CallInv
<1> QED
    BY <1>1, <1>2, <1>3

\* Executing calls of one key are one call.
LEMMA OneRuns ==
    ASSUME IInv, NEW c \in Calls, NEW d \in Calls, pc[c] \in Executing, pc[d] \in Executing, key[c] = key[d]
    PROVE  c = d
BY DEF IInv, RunningInv

\* A daemon that exits keeps nothing in memory and settles no call (exit, stop, kill).
LEMMA ExitForgets ==
    ASSUME IInv, Exit
    PROVE  /\ ~Up' /\ todo' = {} /\ recovering' = None /\ ~writing' /\ phase' = "down" /\ tail' = <<>>
           /\ \A c \in Calls : pc'[c] \notin Pending
           /\ \A c \in Calls : pc'[c] = "answered" => pc[c] = "answered"
           /\ key' = key /\ hash' = hash /\ reply' = reply
<1>1. ~Up' /\ todo' = {} /\ recovering' = None /\ phase' = "down" /\ key' = key /\ hash' = hash /\ reply' = reply
      /\ tail' = <<>>
    BY DEF Exit, Up
<1>2. ~writing'
    BY Zenon DEF Exit
<1>3. \A c \in Calls : pc'[c] \notin Pending /\ (pc'[c] = "answered" => pc[c] = "answered")
    BY DEF Exit, Pending
<1> QED
    BY <1>1, <1>2, <1>3

\* Calls that leave the chain or the effect take nothing with them.
LEMMA MemoryFewer ==
    ASSUME MemoryInv, bound' = bound, completion' = completion, key' = key, hash' = hash,
           todo' \subseteq todo, Up' => Up,
           \A c \in Calls : pc'[c] \in Executing => pc[c] \in Executing,
           \A c \in Calls : pc'[c] = "joined" => pc[c] = "joined"
    PROVE  MemoryInv'
BY DEF MemoryInv

\* Every step keeps what memory holds of the calls under way: a call asks what its
\* entry is bound to, and the entry of a running effect has no outcome (accept, execute).
LEMMA MemoryStep ==
    ASSUME IInv, IInv', MemoryInv, [Next]_vars
    PROVE  MemoryInv'
<1> USE DEF Executing, Pending
<1>t. /\ pc \in [Calls -> Pending \cup {"idle", "answered", "lost"}] /\ key \in [Calls -> Keys \cup {None}]
      /\ hash \in [Calls -> Hashes \cup {None}] /\ bound \in [Keys -> Hashes \cup {None}]
      /\ completion \in [Keys -> Outcomes \cup {None}]
    BY DEF IInv, TypeOK
<1>1. CASE Open
  <2>1. \A c \in Calls : pc'[c] \notin Executing \cup {"joined"}
    BY <1>1 DEF Open, IInv, QuietInv
  <2>2. \A k \in todo' : completion'[k] = None
    BY <1>1 DEF Open
  <2>3. Up' => \A k \in Keys : bound'[k] = None => completion'[k] = None
    <3> SUFFICES ASSUME Up', NEW k \in Keys, bound'[k] = None  PROVE completion'[k] = None
      OBVIOUS
    <3>1. Readable(lines) /\ bound'[k] = ReplayedHash(lines, k) /\ completion'[k] = ReplayedOutcome(lines, k)
      BY <1>1 DEF Open, Up
    <3>2. lines \in Seq(Records) /\ \A i \in AcceptanceIn(lines, k) : lines[i].hash # None
      BY DEF IInv, TypeOK, FileInv, AcceptanceIn, IsAcceptanceOf
    <3>3. AcceptanceIn(lines, k) = {}
      BY <3>1, <3>2 DEF ReplayedHash
    <3>4. TerminalIn(lines, k) = {}
      BY <3>1, <3>2, <3>3, ReplayOrder
    <3> QED
      BY <3>1, <3>4 DEF ReplayedOutcome
  <2> QED
    BY <2>1, <2>2, <2>3 DEF MemoryInv
<1>2. CASE Serve
    BY <1>2, MemoryFewer DEF Serve, Up
<1>3. ASSUME NEW k \in Keys, ReconcileOpen(k)  PROVE MemoryInv'
    BY <1>3, MemoryFewer DEF ReconcileOpen, Up
<1>4. ASSUME NEW k \in Keys, ReconcileAct(k)  PROVE MemoryInv'
    BY <1>4, MemoryFewer DEF ReconcileAct, Up
<1>5. ASSUME NEW k \in Keys, ReconcileWrite(k)  PROVE MemoryInv'
    BY <1>5, MemoryFewer DEF ReconcileWrite, Up
<1>6. ASSUME NEW k \in Keys, ReconcileSync(k)  PROVE MemoryInv'
  <2>1. phase = "reconciling" /\ k \in todo
    BY <1>6 DEF ReconcileSync, IInv, StartupInv
  <2>2. bound[k] # None /\ \A c \in Calls : pc[c] \notin Executing \cup {"joined"}
    BY <2>1 DEF IInv, StartupInv, QuietInv
  <2>3. /\ bound' = bound /\ todo' = todo \ {k} /\ pc' = pc /\ phase' = phase
        /\ \A j \in Keys : j # k => completion'[j] = completion[j]
    BY <1>6, <1>t DEF ReconcileSync
  <2>4. todo \subseteq Keys
    BY DEF IInv, TypeOK
  <2> QED
    BY <2>2, <2>3, <2>4 DEF MemoryInv, Up
<1>7. ASSUME NEW c \in Calls, NEW k \in Keys, NEW h \in Hashes, Submit(c, k, h)  PROVE MemoryInv'
  <2>1. /\ bound' = bound /\ completion' = completion /\ todo' = todo /\ phase' = phase
        /\ pc'[c] = "accepting" /\ \A d \in Calls : d # c => pc'[d] = pc[d] /\ key'[d] = key[d] /\ hash'[d] = hash[d]
    BY <1>7, <1>t DEF Submit
  <2> QED
    BY <2>1 DEF MemoryInv, Up
<1>8. ASSUME NEW c \in Calls, AcceptConflict(c)  PROVE MemoryInv'
  <2>1. \A d \in Calls : pc'[d] = pc[d] \/ pc'[d] = "answered"
    BY <1>8, <1>t DEF AcceptConflict
  <2> QED
    BY <1>8, <2>1, MemoryFewer DEF AcceptConflict, Up
<1>9. ASSUME NEW c \in Calls, AcceptSettled(c)  PROVE MemoryInv'
  <2>1. /\ bound' = bound /\ completion' = completion /\ todo' = todo /\ phase' = phase /\ key' = key /\ hash' = hash
        /\ hash[c] = bound[key[c]]
    BY <1>9 DEF AcceptSettled
  <2>2. \A d \in Calls : pc'[d] = pc[d] \/ (d = c /\ pc'[d] \in {"answered", "joined"})
    BY <1>9, <1>t DEF AcceptSettled
  <2> QED
    BY <2>1, <2>2 DEF MemoryInv, Up
<1>10. ASSUME NEW c \in Calls, AcceptOpenEntry(c)  PROVE MemoryInv'
  <2>1. /\ bound' = bound /\ completion' = completion /\ todo' = todo /\ phase' = phase /\ key' = key /\ hash' = hash
        /\ hash[c] = bound[key[c]] /\ completion[key[c]] = None
    BY <1>10 DEF AcceptOpenEntry
  <2>2. \A d \in Calls : pc'[d] = pc[d] \/ d = c
    BY <1>10, <1>t DEF AcceptOpenEntry, StartEffect
  <2> QED
    BY <2>1, <2>2 DEF MemoryInv, Up
<1>11. ASSUME NEW c \in Calls, AcceptWrite(c)  PROVE MemoryInv'
    BY <1>11, MemoryFewer DEF AcceptWrite, Up
<1>12. ASSUME NEW c \in Calls, AcceptSync(c)  PROVE MemoryInv'
  <2>1. /\ completion' = completion /\ todo' = todo /\ phase' = phase /\ key' = key /\ hash' = hash
        /\ writing /\ tail # <<>> /\ Head(tail) = [op |-> "accept", call |-> c]
    BY <1>12 DEF AcceptSync, AtHead
  <2>2. key[c] \in Keys /\ hash[c] \in Hashes /\ phase \in {"serving", "stopping"}
    BY <1>12, UnderWay DEF AcceptSync
  <2>3. bound[key[c]] = None
    BY <2>1 DEF IInv, FirstInv
  <2>4. /\ bound'[key[c]] = hash[c] /\ \A j \in Keys : j # key[c] => bound'[j] = bound[j]
    BY <1>12, <1>t, <2>2 DEF AcceptSync
  <2>5. completion[key[c]] = None
    BY <2>2, <2>3 DEF MemoryInv, Up
  <2>6. \A d \in Calls : pc'[d] = pc[d] \/ d = c
    BY <1>12, <1>t DEF AcceptSync, StartEffect
  <2>7. \A d \in Calls : pc[d] \in Executing \cup {"joined"} => key[d] \in Keys /\ hash[d] \in Hashes
    BY UnderWay
  <2>8. \A d \in Calls : pc[d] \in Executing \cup {"joined"} => key[d] # key[c]
    BY <2>3, <2>7 DEF MemoryInv
  <2> QED
    BY <2>1, <2>2, <2>4, <2>5, <2>6, <2>7, <2>8 DEF MemoryInv, Up
<1>13. ASSUME NEW c \in Calls, Mark(c)  PROVE MemoryInv'
  <2>1. \A d \in Calls : /\ pc'[d] \in Executing => pc[d] \in Executing
                         /\ pc'[d] = "joined" => pc[d] = "joined"
    BY <1>13, <1>t DEF Mark
  <2> QED
    BY <1>13, <2>1, MemoryFewer DEF Mark, Up
<1>14. ASSUME NEW c \in Calls, EffectReturn(c)  PROVE MemoryInv'
  <2>1. \A d \in Calls : /\ pc'[d] \in Executing => pc[d] \in Executing
                         /\ pc'[d] = "joined" => pc[d] = "joined"
    BY <1>14, <1>t DEF EffectReturn
  <2> QED
    BY <1>14, <2>1, MemoryFewer DEF EffectReturn, Up
<1>15. ASSUME NEW c \in Calls, EffectFail(c)  PROVE MemoryInv'
  <2>1. \A d \in Calls : /\ pc'[d] \in Executing => pc[d] \in Executing
                         /\ pc'[d] = "joined" => pc[d] = "joined"
    BY <1>15, <1>t DEF EffectFail
  <2> QED
    BY <1>15, <2>1, MemoryFewer DEF EffectFail, Up
<1>16. ASSUME NEW c \in Calls, CompleteWrite(c)  PROVE MemoryInv'
    BY <1>16, MemoryFewer DEF CompleteWrite, Up
<1>17. ASSUME NEW c \in Calls, CompleteSync(c)  PROVE MemoryInv'
  <2>1. /\ bound' = bound /\ todo' = todo /\ phase' = phase /\ key' = key /\ hash' = hash
    BY <1>17 DEF CompleteSync
  <2>2. /\ pc[c] = "completing" /\ key[c] \in Keys /\ hash[c] \in Hashes /\ todo = {}
    BY <1>17, UnderWay DEF CompleteSync
  <2>3. \A d \in Calls : pc'[d] \in Executing \cup {"joined"} => pc'[d] = pc[d] /\ d # c
    BY <1>17, <1>t DEF CompleteSync, Settling
  <2>4. \A d \in Calls : pc'[d] \in Executing => key[d] \in Keys /\ key[d] # key[c]
    BY <2>2, <2>3, OneRuns, UnderWay
  <2>5. \A j \in Keys : j # key[c] => completion'[j] = completion[j]
    BY <1>17, <1>t DEF CompleteSync
  <2>6. bound[key[c]] # None
    BY <2>2 DEF MemoryInv
  <2> QED
    BY <2>1, <2>2, <2>3, <2>4, <2>5, <2>6 DEF MemoryInv, Up
<1>18. CASE FinishStop
    BY <1>18, ExitForgets DEF FinishStop, MemoryInv
<1>19. ASSUME NEW c \in Calls, AppendFaultAccept(c)  PROVE MemoryInv'
  <2>1. \A d \in Calls : pc'[d] = pc[d] \/ pc'[d] = "answered"
    BY <1>19, <1>t DEF AppendFaultAccept
  <2> QED
    BY <1>19, <2>1, MemoryFewer DEF AppendFaultAccept, Up
<1>20. ASSUME NEW c \in Calls, AppendFaultComplete(c)  PROVE MemoryInv'
  <2>1. \A d \in Calls : pc'[d] = pc[d] \/ pc'[d] = "answered"
    BY <1>20, <1>t DEF AppendFaultComplete
  <2> QED
    BY <1>20, <2>1, MemoryFewer DEF AppendFaultComplete, Up
<1>21. CASE AppendFaultReconcile
    BY <1>21, ExitForgets DEF AppendFaultReconcile, MemoryInv
<1>22. CASE BeginStop
    BY <1>22, MemoryFewer DEF BeginStop, Up
<1>23. CASE Kill
    BY <1>23, ExitForgets DEF Kill, MemoryInv
<1>24. CASE PowerLoss
    BY <1>24, ExitForgets DEF PowerLoss, MemoryInv
<1>25. CASE UNCHANGED vars
    BY <1>25, MemoryFewer DEF vars, Up
<1> QED
    BY <1>1, <1>2, <1>3, <1>4, <1>5, <1>6, <1>7, <1>8, <1>9, <1>10, <1>11, <1>12, <1>13, <1>14, <1>15, <1>16,
       <1>17, <1>18, <1>19, <1>20, <1>21, <1>22, <1>23, <1>24, <1>25 DEF Next, DaemonStep, Environment

-----------------------------------------------------------------------------
(* The line being written *)

\* The line being written stays the last one while its call keeps the head of the chain.
LEMMA LineFewer ==
    ASSUME LineInv, lines' = lines,
           \A c \in Calls : Writes("accept", c)' => Writes("accept", c) /\ key'[c] = key[c] /\ hash'[c] = hash[c],
           \A c \in Calls : Writes("complete", c)' => Writes("complete", c) /\ key'[c] = key[c] /\ reply'[c] = reply[c],
           recovering' # None => recovering' = recovering /\ evidence'[recovering] = evidence[recovering]
    PROVE  LineInv'
BY DEF LineInv

\* A call that joins the chain behind the head does not touch the line.
LEMMA LineBehind ==
    ASSUME IInv, NEW x, tail' = Append(tail, x), writing' = writing, NEW op, NEW d \in Calls, Writes(op, d)'
    PROVE  Writes(op, d) /\ pc[d] \in {"accepting", "completing"}
<1>1. writing' /\ AtHead(op, d)'
    BY DEF Writes
<1>2. writing
    BY <1>1
<1>3. tail # <<>> /\ tail \in Seq(Places)
    BY <1>2 DEF IInv, ChainInv, TypeOK, Places
<1>4. Head(tail') = Head(tail)
    BY <1>3
<1>5. AtHead(op, d)
    BY <1>1, <1>3, <1>4 DEF AtHead
<1>6. Head(tail) \in Places
    BY <1>3
<1>7. op \in {"accept", "complete"}
    BY <1>5, <1>6 DEF AtHead, Places
<1> QED
    BY <1>2, <1>5, <1>7, UnderWay DEF Writes

\* A record is the last line once it is written, unless torn bytes spoil it.
LEMMA WrittenLast ==
    ASSUME TypeOK, NEW r \in Records, Matches(r, r)
    PROVE  LastIs(Written(r), r)
<1>1. Garbage \in Records /\ Garbage.type = "garbage"
    BY DEF Garbage, Records
<1>2. lines \in Seq(Records)
    BY DEF TypeOK
<1>3. CASE torn
    BY <1>1, <1>2, <1>3 DEF LastIs, Written
<1>4. CASE ~torn
    BY <1>2, <1>4 DEF LastIs, Written
<1> QED
    BY <1>3, <1>4

\* A record in its place does not make a terminal line without an outcome.
LEMMA WrittenNamed ==
    ASSUME TypeOK, Named(lines), NEW r, r.type = "terminal" => r.outcome # None
    PROVE  Named(Written(r))
<1>1. Garbage.type = "garbage"
    BY DEF Garbage
<1>2. lines \in Seq(Records)
    BY DEF TypeOK
<1> DEFINE x == IF torn THEN Garbage ELSE r
<1>3. x.type = "terminal" => x.outcome # None
    BY <1>1
<1> HIDE DEF x
<1>4. /\ Len(Append(lines, x)) = Len(lines) + 1 /\ Append(lines, x)[Len(lines) + 1] = x
      /\ \A i \in 1..Len(lines) : Append(lines, x)[i] = lines[i]
    BY <1>2
<1>5. \A i \in 1..Len(Append(lines, x)) : i \in 1..Len(lines) \/ i = Len(lines) + 1
    BY <1>2, <1>4
<1>6. Named(Append(lines, x))
    BY <1>3, <1>4, <1>5 DEF Named
<1> QED
    BY <1>6 DEF Written, x

\* With no append under way, only a line under reconciliation is spoken of, and it stays.
LEMMA NoLine ==
    ASSUME LineInv, lines' = lines, ~writing',
           recovering' # None => recovering' = recovering /\ evidence'[recovering] = evidence[recovering]
    PROVE  LineInv'
BY LineFewer DEF Writes

\* Every step keeps the line being written as the last one, saying what its call asks
\* for (appendSynced).
LEMMA LineStep ==
    ASSUME IInv, IInv', LineInv, [Next]_vars
    PROVE  LineInv'
<1>t. /\ pc \in [Calls -> Pending \cup {"idle", "answered", "lost"}] /\ key \in [Calls -> Keys \cup {None}]
      /\ hash \in [Calls -> Hashes \cup {None}] /\ reply \in [Calls -> Replies \cup {None}]
      /\ evidence \in [Keys -> Evidence]
    BY DEF IInv, TypeOK
<1>1. CASE Open
    BY <1>1, LineFewer DEF Open, Writes, AtHead
<1>2. CASE Serve
    BY <1>2, LineFewer DEF Serve, Writes, AtHead
<1>3. ASSUME NEW k \in Keys, ReconcileOpen(k)  PROVE LineInv'
    BY <1>3, LineFewer DEF ReconcileOpen, Writes, AtHead
<1>4. ASSUME NEW k \in Keys, ReconcileAct(k)  PROVE LineInv'
    BY <1>4, LineFewer DEF ReconcileAct, Writes, AtHead
<1>5. ASSUME NEW k \in Keys, ReconcileWrite(k)  PROVE LineInv'
  <2>1. /\ phase = "reconciling" /\ evidence[k] \in Outcomes /\ lines' = Written(Terminal(k, evidence[k]))
        /\ recovering' = k /\ evidence' = evidence
    BY <1>5, <1>t DEF ReconcileWrite, Evidence, Stages, Outcomes
  <2>2. ~writing /\ tail = <<>> /\ tail' = tail
    BY <1>5, <2>1 DEF ReconcileWrite, IInv, QuietInv
  <2>3. Terminal(k, evidence[k]) \in Records /\ Matches(Terminal(k, evidence[k]), Terminal(k, evidence[k]))
    BY <2>1, RecordsMade, RecordFacts
  <2>4. LastIs(lines', Terminal(k, evidence[k]))
    BY <2>1, <2>3, WrittenLast DEF IInv
  <2>5. evidence[k] # None
    BY <2>1 DEF Replies
  <2>6. Named(lines')
    BY <2>1, <2>5, RecordFacts, WrittenNamed DEF IInv, LineInv
  <2> QED
    BY <2>1, <2>2, <2>4, <2>6 DEF LineInv, Writes, AtHead
<1>6. ASSUME NEW k \in Keys, ReconcileSync(k)  PROVE LineInv'
    BY <1>6, LineFewer DEF ReconcileSync, Writes, AtHead
<1>7. ASSUME NEW c \in Calls, NEW k \in Keys, NEW h \in Hashes, Submit(c, k, h)  PROVE LineInv'
  <2>1. /\ lines' = lines /\ tail' = Append(tail, [op |-> "accept", call |-> c]) /\ writing' = writing
        /\ recovering' = recovering /\ evidence' = evidence /\ reply' = reply /\ pc[c] = "idle"
        /\ \A d \in Calls : d # c => key'[d] = key[d] /\ hash'[d] = hash[d]
    BY <1>7, <1>t DEF Submit
  <2>2. ASSUME NEW op, NEW d \in Calls, Writes(op, d)'  PROVE Writes(op, d) /\ d # c
    BY <2>1, <2>2, LineBehind
  <2> QED
    BY <2>1, <2>2, LineFewer
<1>8. ASSUME NEW c \in Calls, AcceptConflict(c)  PROVE LineInv'
  <2>1. ~writing'
    BY <1>8 DEF AcceptConflict
  <2> QED
    BY <1>8, <2>1, NoLine DEF AcceptConflict
<1>9. ASSUME NEW c \in Calls, AcceptSettled(c)  PROVE LineInv'
  <2>1. ~writing'
    BY <1>9 DEF AcceptSettled
  <2> QED
    BY <1>9, <2>1, NoLine DEF AcceptSettled
<1>10. ASSUME NEW c \in Calls, AcceptOpenEntry(c)  PROVE LineInv'
  <2>1. ~writing'
    BY <1>10 DEF AcceptOpenEntry
  <2> QED
    BY <1>10, <2>1, NoLine DEF AcceptOpenEntry
<1>11. ASSUME NEW c \in Calls, AcceptWrite(c)  PROVE LineInv'
  <2>1. /\ AtHead("accept", c) /\ lines' = Written(Accepted(key[c], hash[c])) /\ tail' = tail
        /\ recovering' = recovering /\ key' = key /\ hash' = hash
    BY <1>11 DEF AcceptWrite
  <2>2. key[c] \in Keys /\ hash[c] \in Hashes /\ recovering = None
    BY <2>1, UnderWay DEF Pending
  <2>3. Accepted(key[c], hash[c]) \in Records /\ Matches(Accepted(key[c], hash[c]), Accepted(key[c], hash[c]))
    BY <2>2, RecordsMade, RecordFacts
  <2>4. LastIs(lines', Accepted(key[c], hash[c]))
    BY <2>1, <2>3, WrittenLast DEF IInv
  <2>5. \A d \in Calls : AtHead("accept", d)' => d = c
    BY <2>1 DEF AtHead
  <2>6. \A d \in Calls : ~AtHead("complete", d)'
    BY <2>1 DEF AtHead
  <2>7. Named(lines')
    BY <2>1, RecordFacts, WrittenNamed DEF IInv, LineInv
  <2> QED
    BY <2>1, <2>2, <2>4, <2>5, <2>6, <2>7 DEF LineInv, Writes
<1>12. ASSUME NEW c \in Calls, AcceptSync(c)  PROVE LineInv'
  <2>1. ~writing'
    BY <1>12, Zenon DEF AcceptSync
  <2> QED
    BY <1>12, <2>1, NoLine DEF AcceptSync
<1>13. ASSUME NEW c \in Calls, Mark(c)  PROVE LineInv'
  <2>1. recovering = None
    BY <1>13, UnderWay DEF Mark, Pending
  <2> QED
    BY <1>13, <2>1, LineFewer DEF Mark, Writes, AtHead
<1>14. ASSUME NEW c \in Calls, EffectReturn(c)  PROVE LineInv'
  <2>1. recovering = None
    BY <1>14, UnderWay DEF EffectReturn, Pending
  <2>2. /\ lines' = lines /\ tail' = Append(tail, [op |-> "complete", call |-> c]) /\ writing' = writing
        /\ recovering' = recovering /\ key' = key /\ hash' = hash /\ pc[c] = "marked"
        /\ \A d \in Calls : d # c => reply'[d] = reply[d]
    BY <1>14, <1>t DEF EffectReturn
  <2>3. ASSUME NEW op, NEW d \in Calls, Writes(op, d)'  PROVE Writes(op, d) /\ d # c
    BY <2>2, <2>3, LineBehind
  <2> QED
    BY <2>1, <2>2, <2>3, LineFewer
<1>15. ASSUME NEW c \in Calls, EffectFail(c)  PROVE LineInv'
  <2>1. recovering = None
    BY <1>15, UnderWay DEF EffectFail, Pending
  <2>2. /\ lines' = lines /\ tail' = Append(tail, [op |-> "complete", call |-> c]) /\ writing' = writing
        /\ recovering' = recovering /\ key' = key /\ hash' = hash /\ pc[c] \in {"effect", "marked"}
        /\ \A d \in Calls : d # c => reply'[d] = reply[d]
    BY <1>15, <1>t DEF EffectFail
  <2>3. ASSUME NEW op, NEW d \in Calls, Writes(op, d)'  PROVE Writes(op, d) /\ d # c
    BY <2>2, <2>3, LineBehind
  <2> QED
    BY <2>1, <2>2, <2>3, LineFewer
<1>16. ASSUME NEW c \in Calls, CompleteWrite(c)  PROVE LineInv'
  <2>1. /\ AtHead("complete", c) /\ lines' = Written(Terminal(key[c], reply[c])) /\ tail' = tail
        /\ recovering' = recovering /\ key' = key /\ reply' = reply
    BY <1>16 DEF CompleteWrite
  <2>2. key[c] \in Keys /\ reply[c] \in Outcomes /\ recovering = None
    BY <2>1, UnderWay DEF Pending, IInv, CallInv
  <2>3. Terminal(key[c], reply[c]) \in Records /\ Matches(Terminal(key[c], reply[c]), Terminal(key[c], reply[c]))
    BY <2>2, RecordsMade, RecordFacts
  <2>4. LastIs(lines', Terminal(key[c], reply[c]))
    BY <2>1, <2>3, WrittenLast DEF IInv
  <2>5. \A d \in Calls : AtHead("complete", d)' => d = c
    BY <2>1 DEF AtHead
  <2>6. \A d \in Calls : ~AtHead("accept", d)'
    BY <2>1 DEF AtHead
  <2>7. reply[c] # None
    BY <2>2 DEF Replies
  <2>8. Named(lines')
    BY <2>1, <2>7, RecordFacts, WrittenNamed DEF IInv, LineInv
  <2> QED
    BY <2>1, <2>2, <2>4, <2>5, <2>6, <2>8 DEF LineInv, Writes
<1>17. ASSUME NEW c \in Calls, CompleteSync(c)  PROVE LineInv'
  <2>1. ~writing'
    BY <1>17, Zenon DEF CompleteSync
  <2> QED
    BY <1>17, <2>1, NoLine DEF CompleteSync
<1>18. CASE FinishStop
    BY <1>18, ExitForgets, NoLine DEF FinishStop
<1>19. ASSUME NEW c \in Calls, AppendFaultAccept(c)  PROVE LineInv'
  <2>1. ~writing'
    BY <1>19, Zenon DEF AppendFaultAccept
  <2> QED
    BY <1>19, <2>1, NoLine DEF AppendFaultAccept
<1>20. ASSUME NEW c \in Calls, AppendFaultComplete(c)  PROVE LineInv'
  <2>1. ~writing'
    BY <1>20, Zenon DEF AppendFaultComplete
  <2> QED
    BY <1>20, <2>1, NoLine DEF AppendFaultComplete
<1>21. CASE AppendFaultReconcile
    BY <1>21, ExitForgets, NoLine DEF AppendFaultReconcile
<1>22. CASE BeginStop
    BY <1>22, LineFewer DEF BeginStop, Writes, AtHead
<1>23. CASE Kill
    BY <1>23, ExitForgets, NoLine DEF Kill
<1>24. CASE PowerLoss
  <2>1. PICK n \in synced..Len(lines) : lines' = SubSeq(lines, 1, n)
    BY <1>24 DEF PowerLoss
  <2>2. n \in 0..Len(lines) /\ lines \in Seq(Records)
    BY DEF IInv, TypeOK
  <2>3. Len(lines') = n /\ \A i \in 1..n : i \in 1..Len(lines) /\ lines'[i] = lines[i]
    BY <2>1, <2>2
  <2>4. Named(lines')
    BY <2>3 DEF LineInv, Named
  <2> QED
    BY <1>24, <2>4, ExitForgets DEF PowerLoss, LineInv, Writes
<1>25. CASE UNCHANGED vars
    BY <1>25, LineFewer DEF vars, Writes, AtHead
<1> QED
    BY <1>1, <1>2, <1>3, <1>4, <1>5, <1>6, <1>7, <1>8, <1>9, <1>10, <1>11, <1>12, <1>13, <1>14, <1>15, <1>16,
       <1>17, <1>18, <1>19, <1>20, <1>21, <1>22, <1>23, <1>24, <1>25 DEF Next, DaemonStep, Environment

-----------------------------------------------------------------------------
(* The file can be replayed *)

\* The records of a key stay known to the daemon.
LEMMA ReadFewer ==
    ASSUME ReadInv, ioFaults' = ioFaults, lines' = lines, phase # "corrupt" => phase' # "corrupt",
           Up' => /\ Up
                  /\ \A k \in Keys :
                        /\ bound[k] # None \/ WritesFor("accept", k) =>
                              bound'[k] # None \/ WritesFor("accept", k)'
                        /\ completion[k] # None \/ WritesFor("complete", k) \/ recovering = k =>
                              completion'[k] # None \/ WritesFor("complete", k)' \/ recovering' = k
    PROVE  ReadInv'
BY DEF ReadInv

\* The same, when the chain's head and the entries stay.
LEMMA ReadSame ==
    ASSUME ReadInv, ioFaults' = ioFaults, lines' = lines, phase # "corrupt" => phase' # "corrupt",
           Up' => Up, bound' = bound, completion' = completion, recovering' = recovering,
           \A c \in Calls : Writes("accept", c) => Writes("accept", c)' /\ key'[c] = key[c],
           \A c \in Calls : Writes("complete", c) => Writes("complete", c)' /\ key'[c] = key[c]
    PROVE  ReadInv'
<1>1. \A k \in Keys : /\ WritesFor("accept", k) => WritesFor("accept", k)'
                      /\ WritesFor("complete", k) => WritesFor("complete", k)'
    BY DEF WritesFor
<1> QED
    BY <1>1, ReadFewer

\* With nothing being written, the file and the entries stay in step.
LEMMA ReadQuiet ==
    ASSUME ReadInv, ioFaults' = ioFaults, lines' = lines, phase # "corrupt" => phase' # "corrupt",
           Up' => Up, bound' = bound, completion' = completion, recovering' = recovering, ~writing
    PROVE  ReadInv'
BY ReadSame DEF Writes

\* Joining the chain behind the head keeps the head writing.
LEMMA WritesOn ==
    ASSUME IInv, NEW x, tail' = Append(tail, x), writing' = writing, NEW op, NEW d \in Calls, Writes(op, d)
    PROVE  Writes(op, d)' /\ pc[d] \in {"accepting", "completing"}
<1>1. writing /\ AtHead(op, d)
    BY DEF Writes
<1>2. tail # <<>> /\ tail \in Seq(Places)
    BY <1>1 DEF AtHead, IInv, TypeOK, Places
<1>3. Head(tail') = Head(tail) /\ tail' # <<>>
    BY <1>2
<1>4. AtHead(op, d)'
    BY <1>1, <1>3 DEF AtHead
<1>5. op \in {"accept", "complete"}
  <2>1. Head(tail) \in Places
    BY <1>2
  <2> QED
    BY <1>1, <2>1 DEF AtHead, Places
<1> QED
    BY <1>1, <1>4, <1>5, UnderWay DEF Writes

\* The record that a write adds keeps the file readable, and is the only new one.
LEMMA ReadWrite ==
    ASSUME IInv, ReadInv, Up, ioFaults = 0, NEW r, lines' = Written(r),
           \/ r.type = "accepted" /\ AcceptanceIn(lines, r.key) = {}
           \/ r.type = "terminal" /\ AcceptanceIn(lines, r.key) # {} /\ TerminalIn(lines, r.key) = {}
    PROVE  /\ Readable(lines')
           /\ \A k : AcceptanceIn(lines', k) # {} => AcceptanceIn(lines, k) # {} \/ IsAcceptanceOf(r, k)
           /\ \A k : TerminalIn(lines', k) # {} => TerminalIn(lines, k) # {} \/ IsTerminalOf(r, k)
<1>1. ~torn /\ lines \in Seq(Records) /\ Readable(lines)
    BY DEF IInv, EntryInv, TypeOK, ReadInv, Up
<1>2. lines' = Append(lines, r)
    BY <1>1 DEF Written
<1> QED
    BY <1>1, <1>2, ReadableAppend

\* A key whose acceptance is on record has an acceptance line.
LEMMA OnRecordIsIn ==
    ASSUME IInv, NEW k, OnRecord(k)
    PROVE  AcceptanceIn(lines, k) # {}
<1>1. relied <= Len(lines) /\ relied \in Nat /\ Len(lines) \in Nat
    BY DEF IInv, FileInv, TypeOK
<1>2. PICK i \in 1..relied : IsAcceptanceOf(lines[i], k)
    BY DEF OnRecord
<1>3. i \in 1..Len(lines)
    BY <1>1
<1> QED
    BY <1>2, <1>3 DEF AcceptanceIn

\* Every step keeps a file that can be replayed while no append has failed: a record of
\* a key is in memory, or is the line being written (open, appendSynced).
LEMMA ReadStep ==
    ASSUME IInv, IInv', MemoryInv, ReadInv, LineInv, [Next]_vars
    PROVE  ReadInv'
<1>t. /\ pc \in [Calls -> Pending \cup {"idle", "answered", "lost"}] /\ key \in [Calls -> Keys \cup {None}]
      /\ hash \in [Calls -> Hashes \cup {None}] /\ reply \in [Calls -> Replies \cup {None}]
      /\ evidence \in [Keys -> Evidence] /\ bound \in [Keys -> Hashes \cup {None}]
      /\ completion \in [Keys -> Outcomes \cup {None}] /\ ioFaults \in Nat
      /\ lines \in Seq(Records)
    BY DEF IInv, TypeOK
<1>f. ioFaults' = ioFaults + 1 => ReadInv'
    BY <1>t DEF ReadInv
<1>1. CASE Open
  <2> SUFFICES ASSUME ioFaults' = 0  PROVE ReadInv'
    BY DEF ReadInv
  <2>1. Readable(lines) /\ phase' = "reconciling" /\ lines' = lines
    BY <1>1 DEF Open, ReadInv
  <2>2. ASSUME NEW k \in Keys
        PROVE  /\ AcceptanceIn(lines, k) # {} => bound'[k] # None
               /\ TerminalIn(lines, k) # {} => completion'[k] # None
    <3>1. bound'[k] = ReplayedHash(lines, k) /\ completion'[k] = ReplayedOutcome(lines, k)
      BY <1>1 DEF Open
    <3>2. \A i \in AcceptanceIn(lines, k) : lines[i].hash # None
      BY DEF IInv, FileInv, AcceptanceIn, IsAcceptanceOf
    <3>3. \A i \in TerminalIn(lines, k) : lines[i].outcome # None
      BY DEF LineInv, Named, TerminalIn, IsTerminalOf
    <3> QED
      BY <3>1, <3>2, <3>3 DEF ReplayedHash, ReplayedOutcome
  <2> QED
    BY <2>1, <2>2 DEF ReadInv
<1>2. CASE Serve
    BY <1>2, ReadSame DEF Serve, Up, Writes, AtHead
<1>3. ASSUME NEW k \in Keys, ReconcileOpen(k)  PROVE ReadInv'
    BY <1>3, ReadSame DEF ReconcileOpen, Up, Writes, AtHead
<1>4. ASSUME NEW k \in Keys, ReconcileAct(k)  PROVE ReadInv'
    BY <1>4, ReadSame DEF ReconcileAct, Up, Writes, AtHead
<1>5. ASSUME NEW k \in Keys, ReconcileWrite(k)  PROVE ReadInv'
  <2> SUFFICES ASSUME ioFaults' = 0  PROVE ReadInv'
    BY DEF ReadInv
  <2>1. /\ phase = "reconciling" /\ k \in todo /\ recovering = None /\ lines' = Written(Terminal(k, evidence[k]))
        /\ recovering' = k /\ bound' = bound /\ completion' = completion /\ phase' = phase /\ ioFaults = 0
    BY <1>5 DEF ReconcileWrite
  <2>2. Up /\ ~writing /\ k \in Keys /\ bound[k] # None /\ completion[k] = None
    BY <2>1 DEF Up, IInv, QuietInv, StartupInv, MemoryInv
  <2>3. \A j \in Keys : ~WritesFor("accept", j) /\ ~WritesFor("complete", j)
    BY <2>2 DEF WritesFor, Writes
  <2>4. TerminalIn(lines, k) = {}
    <3>1. recovering # k
      BY <2>1, <2>2
    <3> QED
      BY <2>1, <2>2, <2>3, <3>1 DEF ReadInv
  <2>5. AcceptanceIn(lines, k) # {}
    BY <2>1, <2>2, OnRecordIsIn DEF IInv, EntryInv
  <2>6. Terminal(k, evidence[k]).type = "terminal" /\ Terminal(k, evidence[k]).key = k
    BY RecordFacts
  <2>7. /\ Readable(lines')
        /\ \A j : AcceptanceIn(lines', j) # {} => AcceptanceIn(lines, j) # {} \/ IsAcceptanceOf(Terminal(k, evidence[k]), j)
        /\ \A j : TerminalIn(lines', j) # {} => TerminalIn(lines, j) # {} \/ IsTerminalOf(Terminal(k, evidence[k]), j)
    BY <2>1, <2>2, <2>4, <2>5, <2>6, ReadWrite
  <2>8. \A j : ~IsAcceptanceOf(Terminal(k, evidence[k]), j) /\ (IsTerminalOf(Terminal(k, evidence[k]), j) => j = k)
    BY <2>6 DEF IsAcceptanceOf, IsTerminalOf
  <2>9. \A j \in Keys : AcceptanceIn(lines, j) # {} => bound[j] # None
    BY <2>1, <2>2, <2>3 DEF ReadInv
  <2>10. \A j \in Keys : TerminalIn(lines, j) # {} => completion[j] # None
    <3>1. \A j \in Keys : recovering # j
      BY <2>1
    <3> QED
      BY <2>1, <2>2, <2>3, <3>1 DEF ReadInv
  <2> QED
    BY <2>1, <2>7, <2>8, <2>9, <2>10 DEF ReadInv
<1>6. ASSUME NEW k \in Keys, ReconcileSync(k)  PROVE ReadInv'
  <2>1. /\ phase = "reconciling" /\ recovering = k /\ evidence[k] # None
    BY <1>6, <1>t DEF ReconcileSync, IInv, StartupInv, Evidence, Stages, Replies, Outcomes
  <2>2. /\ lines' = lines /\ phase' = phase /\ bound' = bound /\ ioFaults' = ioFaults
        /\ writing' = writing /\ tail' = tail /\ key' = key
        /\ completion'[k] # None /\ \A j \in Keys : j # k => completion'[j] = completion[j]
    BY <1>6, <1>t, <2>1 DEF ReconcileSync
  <2>3. \A j \in Keys : /\ WritesFor("accept", j)' = WritesFor("accept", j)
                        /\ WritesFor("complete", j)' = WritesFor("complete", j)
    BY <2>2 DEF WritesFor, Writes, AtHead
  <2> QED
    BY <2>1, <2>2, <2>3, ReadFewer DEF Up
<1>7. ASSUME NEW c \in Calls, NEW k \in Keys, NEW h \in Hashes, Submit(c, k, h)  PROVE ReadInv'
  <2>1. /\ lines' = lines /\ tail' = Append(tail, [op |-> "accept", call |-> c]) /\ writing' = writing
        /\ phase' = phase /\ bound' = bound /\ completion' = completion /\ recovering' = recovering
        /\ ioFaults' = ioFaults /\ pc[c] = "idle" /\ \A d \in Calls : d # c => key'[d] = key[d]
    BY <1>7, <1>t DEF Submit
  <2>2. ASSUME NEW op, NEW d \in Calls, Writes(op, d)  PROVE Writes(op, d)' /\ d # c
    BY <2>1, <2>2, WritesOn
  <2> QED
    BY <2>1, <2>2, ReadSame DEF Up
<1>8. ASSUME NEW c \in Calls, AcceptConflict(c)  PROVE ReadInv'
    BY <1>8, ReadQuiet DEF AcceptConflict, Up
<1>9. ASSUME NEW c \in Calls, AcceptSettled(c)  PROVE ReadInv'
    BY <1>9, ReadQuiet DEF AcceptSettled, Up
<1>10. ASSUME NEW c \in Calls, AcceptOpenEntry(c)  PROVE ReadInv'
    BY <1>10, ReadQuiet DEF AcceptOpenEntry, Up
<1>11. ASSUME NEW c \in Calls, AcceptWrite(c)  PROVE ReadInv'
  <2> DEFINE r == Accepted(key[c], hash[c])
  <2> SUFFICES ASSUME ioFaults' = 0  PROVE ReadInv'
    BY DEF ReadInv
  <2>1. /\ AtHead("accept", c) /\ ~writing /\ bound[key[c]] = None /\ lines' = Written(r) /\ writing'
        /\ tail' = tail /\ key' = key /\ phase' = phase /\ bound' = bound /\ completion' = completion
        /\ recovering' = recovering /\ ioFaults = 0
    BY <1>11, Zenon DEF AcceptWrite
  <2>2. key[c] \in Keys /\ Up
    BY <2>1, UnderWay DEF Pending, Up
  <2>3. \A j \in Keys : ~WritesFor("accept", j) /\ ~WritesFor("complete", j)
    BY <2>1 DEF WritesFor, Writes
  <2>4. \A j \in Keys : /\ AcceptanceIn(lines, j) # {} => bound[j] # None
                        /\ TerminalIn(lines, j) # {} => completion[j] # None \/ recovering = j
    BY <2>1, <2>2, <2>3 DEF ReadInv
  <2>5. r.type = "accepted" /\ r.key = key[c]
    BY RecordFacts
  <2> HIDE DEF r
  <2>6. /\ Readable(lines')
        /\ \A j : AcceptanceIn(lines', j) # {} => AcceptanceIn(lines, j) # {} \/ IsAcceptanceOf(r, j)
        /\ \A j : TerminalIn(lines', j) # {} => TerminalIn(lines, j) # {} \/ IsTerminalOf(r, j)
    <3>1. AcceptanceIn(lines, r.key) = {}
      BY <2>1, <2>2, <2>4, <2>5
    <3> QED
      BY <2>1, <2>2, <2>5, <3>1, ReadWrite
  <2>7. \A j : ~IsTerminalOf(r, j) /\ (IsAcceptanceOf(r, j) => j = key[c])
    BY <2>5 DEF IsAcceptanceOf, IsTerminalOf
  <2>8. WritesFor("accept", key[c])'
    BY <2>1 DEF WritesFor, Writes, AtHead
  <2>9. \A j \in Keys : AcceptanceIn(lines', j) # {} => bound'[j] # None \/ WritesFor("accept", j)'
    BY <2>1, <2>4, <2>6, <2>7, <2>8
  <2>10. \A j \in Keys : TerminalIn(lines', j) # {} => completion'[j] # None \/ recovering' = j
    BY <2>1, <2>4, <2>6, <2>7
  <2>11. phase' # "corrupt"
    BY <2>1 DEF ReadInv
  <2> QED
    BY <2>6, <2>9, <2>10, <2>11 DEF ReadInv
<1>12. ASSUME NEW c \in Calls, AcceptSync(c)  PROVE ReadInv'
  <2>1. /\ AtHead("accept", c) /\ lines' = lines /\ ioFaults' = ioFaults /\ phase' = phase
        /\ completion' = completion /\ recovering' = recovering
    BY <1>12 DEF AcceptSync
  <2>2. key[c] \in Keys /\ hash[c] \in Hashes
    BY <2>1, UnderWay DEF Pending
  <2>3. /\ bound'[key[c]] = hash[c] /\ hash[c] # None /\ \A j \in Keys : j # key[c] => bound'[j] = bound[j]
    BY <1>12, <1>t, <2>2 DEF AcceptSync
  <2>4. \A j \in Keys : (WritesFor("accept", j) => j = key[c]) /\ ~WritesFor("complete", j)
    BY <2>1 DEF WritesFor, Writes, AtHead
  <2> QED
    BY <2>1, <2>3, <2>4, ReadFewer DEF Up
<1>13. ASSUME NEW c \in Calls, Mark(c)  PROVE ReadInv'
    BY <1>13, ReadSame DEF Mark, Up, Writes, AtHead
<1>14. ASSUME NEW c \in Calls, EffectReturn(c)  PROVE ReadInv'
  <2>1. /\ lines' = lines /\ tail' = Append(tail, [op |-> "complete", call |-> c]) /\ writing' = writing
        /\ phase' = phase /\ bound' = bound /\ completion' = completion /\ recovering' = recovering
        /\ ioFaults' = ioFaults /\ key' = key
    BY <1>14 DEF EffectReturn
  <2>2. ASSUME NEW op, NEW d \in Calls, Writes(op, d)  PROVE Writes(op, d)'
    BY <2>1, <2>2, WritesOn
  <2> QED
    BY <2>1, <2>2, ReadSame DEF Up
<1>15. ASSUME NEW c \in Calls, EffectFail(c)  PROVE ReadInv'
  <2>1. /\ lines' = lines /\ tail' = Append(tail, [op |-> "complete", call |-> c]) /\ writing' = writing
        /\ phase' = phase /\ bound' = bound /\ completion' = completion /\ recovering' = recovering
        /\ ioFaults' = ioFaults /\ key' = key
    BY <1>15 DEF EffectFail
  <2>2. ASSUME NEW op, NEW d \in Calls, Writes(op, d)  PROVE Writes(op, d)'
    BY <2>1, <2>2, WritesOn
  <2> QED
    BY <2>1, <2>2, ReadSame DEF Up
<1>16. ASSUME NEW c \in Calls, CompleteWrite(c)  PROVE ReadInv'
  <2> DEFINE r == Terminal(key[c], reply[c])
  <2> SUFFICES ASSUME ioFaults' = 0  PROVE ReadInv'
    BY DEF ReadInv
  <2>1. /\ AtHead("complete", c) /\ ~writing /\ lines' = Written(r) /\ writing'
        /\ tail' = tail /\ key' = key /\ phase' = phase /\ bound' = bound /\ completion' = completion
        /\ recovering' = recovering /\ ioFaults = 0
    BY <1>16, Zenon DEF CompleteWrite
  <2>2. key[c] \in Keys /\ Up /\ pc[c] = "completing" /\ recovering = None /\ hash[c] \in Hashes
    BY <2>1, UnderWay DEF Pending, Up
  <2>3. \A j \in Keys : ~WritesFor("accept", j) /\ ~WritesFor("complete", j) /\ recovering # j
    BY <2>1, <2>2 DEF WritesFor, Writes
  <2>4. \A j \in Keys : /\ AcceptanceIn(lines, j) # {} => bound[j] # None
                        /\ TerminalIn(lines, j) # {} => completion[j] # None
    BY <2>1, <2>2, <2>3 DEF ReadInv
  <2>5. r.type = "terminal" /\ r.key = key[c]
    BY RecordFacts
  <2>6. bound[key[c]] # None /\ completion[key[c]] = None
    BY <2>2 DEF MemoryInv, Executing
  <2> HIDE DEF r
  <2>7. /\ Readable(lines')
        /\ \A j : AcceptanceIn(lines', j) # {} => AcceptanceIn(lines, j) # {} \/ IsAcceptanceOf(r, j)
        /\ \A j : TerminalIn(lines', j) # {} => TerminalIn(lines, j) # {} \/ IsTerminalOf(r, j)
    <3>1. TerminalIn(lines, r.key) = {}
      BY <2>2, <2>4, <2>5, <2>6
    <3>2. AcceptanceIn(lines, r.key) # {}
      BY <2>1, <2>2, <2>5, <2>6, OnRecordIsIn DEF IInv, EntryInv
    <3> QED
      BY <2>1, <2>2, <2>5, <3>1, <3>2, ReadWrite
  <2>8. \A j : ~IsAcceptanceOf(r, j) /\ (IsTerminalOf(r, j) => j = key[c])
    BY <2>5 DEF IsAcceptanceOf, IsTerminalOf
  <2>9. WritesFor("complete", key[c])'
    BY <2>1 DEF WritesFor, Writes, AtHead
  <2>10. \A j \in Keys : AcceptanceIn(lines', j) # {} => bound'[j] # None
    BY <2>1, <2>4, <2>7, <2>8
  <2>11. \A j \in Keys : TerminalIn(lines', j) # {} => completion'[j] # None \/ WritesFor("complete", j)'
    BY <2>1, <2>4, <2>7, <2>8, <2>9
  <2>12. phase' # "corrupt"
    BY <2>1 DEF ReadInv
  <2> QED
    BY <2>7, <2>10, <2>11, <2>12 DEF ReadInv
<1>17. ASSUME NEW c \in Calls, CompleteSync(c)  PROVE ReadInv'
  <2>1. /\ AtHead("complete", c) /\ lines' = lines /\ ioFaults' = ioFaults /\ phase' = phase
        /\ bound' = bound /\ recovering' = recovering
    BY <1>17 DEF CompleteSync
  <2>2. key[c] \in Keys /\ reply[c] \in Outcomes /\ recovering = None
    BY <2>1, UnderWay DEF Pending, IInv, CallInv
  <2>3. reply[c] # None
    BY <2>2 DEF Replies
  <2>4. /\ completion'[key[c]] # None /\ \A j \in Keys : j # key[c] => completion'[j] = completion[j]
    BY <1>17, <1>t, <2>2, <2>3 DEF CompleteSync
  <2>5. \A j \in Keys : (WritesFor("complete", j) => j = key[c]) /\ ~WritesFor("accept", j)
    BY <2>1 DEF WritesFor, Writes, AtHead
  <2> QED
    BY <2>1, <2>4, <2>5, ReadFewer DEF Up
<1>18. CASE FinishStop
    BY <1>18, ExitForgets, ReadFewer DEF FinishStop
<1>19. ASSUME NEW c \in Calls, AppendFaultAccept(c)  PROVE ReadInv'
    BY <1>19, <1>f DEF AppendFaultAccept
<1>20. ASSUME NEW c \in Calls, AppendFaultComplete(c)  PROVE ReadInv'
    BY <1>20, <1>f DEF AppendFaultComplete
<1>21. CASE AppendFaultReconcile
    BY <1>21, <1>f DEF AppendFaultReconcile
<1>22. CASE BeginStop
    BY <1>22, ReadSame DEF BeginStop, Up, Writes, AtHead
<1>23. CASE Kill
    BY <1>23, ExitForgets, ReadFewer DEF Kill
<1>24. CASE PowerLoss
  <2> SUFFICES ASSUME ioFaults' = 0  PROVE ReadInv'
    BY DEF ReadInv
  <2>1. Readable(lines)
    BY <1>24 DEF PowerLoss, ReadInv
  <2>2. PICK n \in synced..Len(lines) : lines' = SubSeq(lines, 1, n)
    BY <1>24 DEF PowerLoss
  <2>3. n \in 0..Len(lines)
    BY DEF IInv, TypeOK
  <2>4. Readable(lines')
    BY <1>t, <2>1, <2>2, <2>3, ReadablePrefix
  <2>5. ~Up' /\ phase' = "down"
    BY <1>24, ExitForgets DEF PowerLoss
  <2> QED
    BY <2>4, <2>5 DEF ReadInv
<1>25. CASE UNCHANGED vars
    BY <1>25, ReadSame DEF vars, Up, Writes, AtHead
<1> QED
    BY <1>1, <1>2, <1>3, <1>4, <1>5, <1>6, <1>7, <1>8, <1>9, <1>10, <1>11, <1>12, <1>13, <1>14, <1>15, <1>16,
       <1>17, <1>18, <1>19, <1>20, <1>21, <1>22, <1>23, <1>24, <1>25 DEF Next, DaemonStep, Environment

-----------------------------------------------------------------------------
(* What is told *)

\* Nobody is told anything new and no entry changes, while the relied-on lines stay.
LEMMA TellFewer ==
    ASSUME IInv, IInv', TellInv, ~retracted' => ~retracted, relied <= relied',
           \A i \in 1..relied : lines'[i] = lines[i],
           Up' => Up /\ bound' = bound /\ completion' = completion,
           \A c \in Calls : IsTold(c)' => /\ IsTold(c) /\ key'[c] = key[c]
                                          /\ hash'[c] = hash[c] /\ reply'[c] = reply[c]
    PROVE  TellInv'
<1> SUFFICES ASSUME ~retracted'  PROVE TellInv'
    BY DEF TellInv
<1>1. relied \in Nat /\ relied' \in Nat
    BY DEF IInv, TypeOK
<1>2. \A r : SaysIn(lines, relied, r) => SaysIn(lines', relied', r)
    BY <1>1, SaysStays
<1>3. Up' => \A k \in Keys : /\ bound'[k] # None => SaysIn(lines', relied', Accepted(k, bound'[k]))
                             /\ completion'[k] # None => SaysIn(lines', relied', Terminal(k, completion'[k]))
    BY <1>2 DEF TellInv, Says
<1>4. \A c \in Calls : IsTold(c)' =>
         /\ key'[c] \in Keys
         /\ SaysIn(lines', relied', Accepted(key'[c], hash'[c]))
         /\ SaysIn(lines', relied', Terminal(key'[c], reply'[c]))
         /\ Up' => bound'[key'[c]] = hash'[c] /\ completion'[key'[c]] = reply'[c]
    BY <1>2 DEF TellInv, Says
<1>5. AnswersAgree'
    BY DEF TellInv, AnswersAgree, IsTold
<1> QED
    BY <1>3, <1>4, <1>5 DEF TellInv, Says

\* While the daemon is up, what is told is what the entries hold, so it agrees.
LEMMA TellUp ==
    ASSUME Up',
           \A k \in Keys : /\ bound'[k] # None => SaysIn(lines', relied', Accepted(k, bound'[k]))
                           /\ completion'[k] # None => SaysIn(lines', relied', Terminal(k, completion'[k])),
           \A c \in Calls : IsTold(c)' =>
              /\ key'[c] \in Keys /\ hash'[c] # None /\ reply'[c] # None
              /\ bound'[key'[c]] = hash'[c] /\ completion'[key'[c]] = reply'[c]
    PROVE  TellInv'
<1>1. AnswersAgree'
    BY DEF AnswersAgree, IsTold
<1>2. \A c \in Calls : IsTold(c)' =>
         /\ SaysIn(lines', relied', Accepted(key'[c], hash'[c]))
         /\ SaysIn(lines', relied', Terminal(key'[c], reply'[c]))
    BY DEF IsTold
<1> QED
    BY <1>1, <1>2 DEF TellInv, Says

\* The line that was last is relied on once it is synced.
LEMMA LastSays ==
    ASSUME TypeOK, NEW r, LastIs(lines, r)
    PROVE  SaysIn(lines, Len(lines), r)
<1>1. Len(lines) \in 1..Len(lines)
    BY DEF TypeOK, LastIs
<1> QED
    BY <1>1 DEF LastIs, SaysIn

\* Every step keeps what calls are told, the entries in memory and the relied-on lines
\* in agreement (execute, accept, complete, open).
LEMMA TellStep ==
    ASSUME IInv, IInv', MemoryInv, LineInv, TellInv, [Next]_vars
    PROVE  TellInv'
<1>t. /\ pc \in [Calls -> Pending \cup {"idle", "answered", "lost"}] /\ key \in [Calls -> Keys \cup {None}]
      /\ hash \in [Calls -> Hashes \cup {None}] /\ reply \in [Calls -> Replies \cup {None}]
      /\ evidence \in [Keys -> Evidence] /\ bound \in [Keys -> Hashes \cup {None}]
      /\ completion \in [Keys -> Outcomes \cup {None}] /\ relied \in Nat /\ relied <= Len(lines)
      /\ lines \in Seq(Records) /\ Len(lines) \in Nat
  <2>1. TypeOK /\ FileInv
    BY DEF IInv
  <2>2. lines \in Seq(Records) /\ relied <= Len(lines)
    BY <2>1 DEF TypeOK, FileInv
  <2>3. Len(lines) \in Nat
    BY <2>2
  <2> QED
    BY <2>1, <2>2, <2>3 DEF TypeOK
<1>n. None \notin Hashes /\ None \notin Outcomes
    BY DEF Replies
<1>o. {"idempotency_conflict", "internal_error"} \cap Outcomes = {}
    BY DEF Outcomes
<1>e. Exit /\ lines' = lines /\ relied' = relied /\ (retracted' = retracted) => TellInv'
  <2> SUFFICES ASSUME Exit, lines' = lines, relied' = relied, retracted' = retracted  PROVE TellInv'
    OBVIOUS
  <2>1. /\ ~Up' /\ key' = key /\ hash' = hash /\ reply' = reply
        /\ \A c \in Calls : pc'[c] = "answered" => pc[c] = "answered"
    BY ExitForgets
  <2>2. \A c \in Calls : IsTold(c)' => IsTold(c)
    BY <2>1 DEF IsTold
  <2> QED
    BY <1>t, <2>1, <2>2, TellFewer
<1>1. CASE Open
  <2> SUFFICES ASSUME ~retracted'  PROVE TellInv'
    BY DEF TellInv
  <2>1. /\ lines' = lines /\ relied' = Len(lines) /\ pc' = pc /\ key' = key /\ hash' = hash /\ reply' = reply
        /\ ~retracted
    BY <1>1 DEF Open
  <2>2. \A c \in Calls : IsTold(c)' => IsTold(c)
    BY <2>1 DEF IsTold
  <2>3. CASE ~Readable(lines)
    <3>1. ~Up'
      BY <1>1, <2>3 DEF Open, Up
    <3> QED
      BY <1>t, <2>1, <2>2, <3>1, TellFewer
  <2>4. CASE Readable(lines)
    <3>1. Up' /\ \A k \in Keys : bound'[k] = ReplayedHash(lines, k) /\ completion'[k] = ReplayedOutcome(lines, k)
      BY <1>1, <2>4 DEF Open, Up
    <3>2. \A k \in Keys : /\ bound'[k] # None => SaysIn(lines', relied', Accepted(k, bound'[k]))
                          /\ completion'[k] # None => SaysIn(lines', relied', Terminal(k, completion'[k]))
      BY <1>t, <2>1, <2>4, <3>1, ReplaySays
    <3>3. ASSUME NEW c \in Calls, IsTold(c)'
          PROVE  /\ key'[c] \in Keys /\ hash'[c] # None /\ reply'[c] # None
                 /\ bound'[key'[c]] = hash'[c] /\ completion'[key'[c]] = reply'[c]
      <4>1. /\ IsTold(c) /\ key[c] \in Keys /\ SaysIn(lines, relied, Accepted(key[c], hash[c]))
            /\ SaysIn(lines, relied, Terminal(key[c], reply[c]))
        BY <2>1, <2>2, <3>3 DEF TellInv, Says
      <4>2. /\ SaysIn(lines, Len(lines), Accepted(key[c], hash[c]))
            /\ SaysIn(lines, Len(lines), Terminal(key[c], reply[c]))
        BY <1>t, <4>1, SaysStays
      <4>3. ReplayedHash(lines, key[c]) = hash[c] /\ ReplayedOutcome(lines, key[c]) = reply[c]
        BY <1>t, <2>4, <4>2, ReplaySays
      <4>4. reply[c] # None
        BY <4>1, <1>n DEF IsTold
      <4>5. hash[c] # None
        <5>1. PICK i \in 1..Len(lines) : Matches(lines[i], Accepted(key[c], hash[c])) \/ lines[i].type = "garbage"
          BY <4>2 DEF SaysIn
        <5>2. lines[i].type # "garbage"
          BY <2>4 DEF Readable
        <5>3. lines[i].type = "accepted" /\ lines[i].hash = hash[c]
          BY <5>1, <5>2, RecordFacts DEF IsAcceptanceOf
        <5> QED
          BY <5>3, <1>n DEF IInv, FileInv
      <4> QED
        BY <2>1, <3>1, <4>1, <4>3, <4>4, <4>5
    <3> QED
      BY <3>1, <3>2, <3>3, TellUp
  <2> QED
    BY <2>3, <2>4
<1>2. CASE Serve
    BY <1>t, <1>2, TellFewer DEF Serve, Up, IsTold
<1>3. ASSUME NEW k \in Keys, ReconcileOpen(k)  PROVE TellInv'
    BY <1>t, <1>3, TellFewer DEF ReconcileOpen, Up, IsTold
<1>4. ASSUME NEW k \in Keys, ReconcileAct(k)  PROVE TellInv'
    BY <1>t, <1>4, TellFewer DEF ReconcileAct, Up, IsTold
<1>w. ASSUME NEW r, lines' = Written(r)  PROVE \A i \in 1..relied : lines'[i] = lines[i]
  <2>1. \A i \in 1..relied : i \in 1..Len(lines)
    BY <1>t
  <2>2. \A i \in 1..Len(lines) : lines'[i] = lines[i]
    BY <1>t, <1>w DEF Written
  <2> QED
    BY <2>1, <2>2
<1>5. ASSUME NEW k \in Keys, ReconcileWrite(k)  PROVE TellInv'
  <2>1. \A i \in 1..relied : lines'[i] = lines[i]
    BY <1>5, <1>w DEF ReconcileWrite
  <2> QED
    BY <1>t, <1>5, <2>1, TellFewer DEF ReconcileWrite, Up, IsTold
<1>6. ASSUME NEW k \in Keys, ReconcileSync(k)  PROVE TellInv'
  <2> SUFFICES ASSUME ~retracted'  PROVE TellInv'
    BY DEF TellInv
  <2>1. /\ recovering = k /\ lines' = lines /\ relied' = Len(lines) /\ bound' = bound /\ phase' = phase
        /\ pc' = pc /\ key' = key /\ hash' = hash /\ reply' = reply /\ completion'[k] = evidence[k]
        /\ \A j \in Keys : j # k => completion'[j] = completion[j]
        /\ ~retracted
    BY <1>6, <1>t DEF ReconcileSync
  <2>2. phase = "reconciling" /\ k \in todo /\ completion[k] = None
    BY <2>1, <1>n DEF IInv, StartupInv, MemoryInv
  <2>3. Up /\ Up'
    BY <2>1, <2>2 DEF Up
  <2>4. SaysIn(lines', relied', Terminal(k, evidence[k]))
    BY <2>1, <2>2, LastSays DEF LineInv, IInv
  <2>5. \A r : SaysIn(lines, relied, r) => SaysIn(lines', relied', r)
    BY <1>t, <2>1, SaysStays
  <2>6. \A j \in Keys : /\ bound'[j] # None => SaysIn(lines', relied', Accepted(j, bound'[j]))
                        /\ completion'[j] # None => SaysIn(lines', relied', Terminal(j, completion'[j]))
    BY <2>1, <2>3, <2>4, <2>5 DEF TellInv, Says
  <2>7. ASSUME NEW c \in Calls, IsTold(c)'
        PROVE  /\ key'[c] \in Keys /\ hash'[c] # None /\ reply'[c] # None
               /\ bound'[key'[c]] = hash'[c] /\ completion'[key'[c]] = reply'[c]
    <3>1. /\ IsTold(c) /\ key[c] \in Keys /\ bound[key[c]] = hash[c] /\ completion[key[c]] = reply[c]
      BY <2>1, <2>3, <2>7 DEF TellInv, IsTold
    <3>2. reply[c] # None /\ key[c] # k
      BY <2>2, <3>1, <1>n DEF IsTold
    <3>3. hash[c] # None
      BY <2>3, <3>1, <3>2 DEF MemoryInv
    <3> QED
      BY <2>1, <3>1, <3>2, <3>3
  <2> QED
    BY <2>3, <2>6, <2>7, TellUp
<1>7. ASSUME NEW c \in Calls, NEW k \in Keys, NEW h \in Hashes, Submit(c, k, h)  PROVE TellInv'
  <2>1. \A d \in Calls : IsTold(d)' => /\ IsTold(d) /\ key'[d] = key[d]
                                       /\ hash'[d] = hash[d] /\ reply'[d] = reply[d]
    BY <1>7, <1>t DEF Submit, IsTold
  <2> QED
    BY <1>t, <1>7, <2>1, TellFewer DEF Submit, Up
<1>8. ASSUME NEW c \in Calls, AcceptConflict(c)  PROVE TellInv'
  <2>1. \A d \in Calls : IsTold(d)' => IsTold(d) /\ reply'[d] = reply[d]
    BY <1>8, <1>t, <1>o DEF AcceptConflict, IsTold
  <2> QED
    BY <1>t, <1>8, <2>1, TellFewer DEF AcceptConflict, Up
<1>9. ASSUME NEW c \in Calls, AcceptSettled(c)  PROVE TellInv'
  <2> SUFFICES ASSUME ~retracted'  PROVE TellInv'
    BY DEF TellInv
  <2>1. /\ AtHead("accept", c) /\ lines' = lines /\ relied' = relied /\ bound' = bound /\ completion' = completion
        /\ phase' = phase /\ key' = key /\ hash' = hash /\ hash[c] = bound[key[c]] /\ ~retracted
    BY <1>9 DEF AcceptSettled
  <2>2. key[c] \in Keys /\ hash[c] \in Hashes /\ Up /\ Up'
    BY <2>1, UnderWay DEF Pending, Up
  <2>3. \A d \in Calls : IsTold(d)' =>
           \/ IsTold(d) /\ reply'[d] = reply[d]
           \/ d = c /\ completion[key[c]] # None /\ reply'[c] = completion[key[c]]
    BY <1>9, <1>t DEF AcceptSettled, IsTold
  <2>4. ASSUME NEW d \in Calls, IsTold(d)'
        PROVE  /\ key'[d] \in Keys /\ hash'[d] # None /\ reply'[d] # None
               /\ bound'[key'[d]] = hash'[d] /\ completion'[key'[d]] = reply'[d]
    <3>1. CASE IsTold(d) /\ reply'[d] = reply[d]
      <4>1. key[d] \in Keys /\ bound[key[d]] = hash[d] /\ completion[key[d]] = reply[d] /\ reply[d] # None
        BY <2>1, <2>2, <3>1, <1>n DEF TellInv, IsTold
      <4>2. hash[d] # None
        BY <2>2, <4>1 DEF MemoryInv
      <4> QED
        BY <2>1, <3>1, <4>1, <4>2
    <3>2. CASE d = c /\ completion[key[c]] # None /\ reply'[c] = completion[key[c]]
      BY <2>1, <2>2, <3>2, <1>n
    <3> QED
      BY <2>3, <2>4, <3>1, <3>2
  <2>5. \A j \in Keys : /\ bound'[j] # None => SaysIn(lines', relied', Accepted(j, bound'[j]))
                        /\ completion'[j] # None => SaysIn(lines', relied', Terminal(j, completion'[j]))
    BY <2>1, <2>2 DEF TellInv, Says
  <2> QED
    BY <2>2, <2>4, <2>5, TellUp
<1>10. ASSUME NEW c \in Calls, AcceptOpenEntry(c)  PROVE TellInv'
  <2>1. \A d \in Calls : IsTold(d)' => IsTold(d) /\ reply'[d] = reply[d]
    BY <1>10, <1>t DEF AcceptOpenEntry, StartEffect, IsTold
  <2> QED
    BY <1>t, <1>10, <2>1, TellFewer DEF AcceptOpenEntry, Up
<1>11. ASSUME NEW c \in Calls, AcceptWrite(c)  PROVE TellInv'
  <2>1. \A i \in 1..relied : lines'[i] = lines[i]
    BY <1>11, <1>w DEF AcceptWrite
  <2> QED
    BY <1>t, <1>11, <2>1, TellFewer DEF AcceptWrite, Up, IsTold
<1>12. ASSUME NEW c \in Calls, AcceptSync(c)  PROVE TellInv'
  <2> SUFFICES ASSUME ~retracted'  PROVE TellInv'
    BY DEF TellInv
  <2>1. /\ AtHead("accept", c) /\ writing /\ lines' = lines /\ relied' = Len(lines) /\ completion' = completion
        /\ phase' = phase /\ key' = key /\ hash' = hash /\ ~retracted
    BY <1>12 DEF AcceptSync
  <2>2. key[c] \in Keys /\ hash[c] \in Hashes /\ Up /\ Up'
    BY <2>1, UnderWay DEF Pending, Up
  <2>3. bound'[key[c]] = hash[c] /\ \A j \in Keys : j # key[c] => bound'[j] = bound[j]
    BY <1>12, <1>t, <2>2 DEF AcceptSync
  <2>4. bound[key[c]] = None /\ completion[key[c]] = None
    <3>1. bound[key[c]] = None
      BY <2>1 DEF IInv, FirstInv, AtHead
    <3> QED
      BY <2>2, <3>1 DEF MemoryInv
  <2>5. SaysIn(lines', relied', Accepted(key[c], hash[c]))
    BY <2>1, LastSays DEF LineInv, IInv, Writes
  <2>6. \A r : SaysIn(lines, relied, r) => SaysIn(lines', relied', r)
    BY <1>t, <2>1, SaysStays
  <2>7. \A j \in Keys : /\ bound'[j] # None => SaysIn(lines', relied', Accepted(j, bound'[j]))
                        /\ completion'[j] # None => SaysIn(lines', relied', Terminal(j, completion'[j]))
    BY <2>1, <2>2, <2>3, <2>5, <2>6 DEF TellInv, Says
  <2>8. \A d \in Calls : IsTold(d)' => IsTold(d) /\ reply'[d] = reply[d]
    BY <1>12, <1>t DEF AcceptSync, StartEffect, IsTold
  <2>9. ASSUME NEW d \in Calls, IsTold(d)'
        PROVE  /\ key'[d] \in Keys /\ hash'[d] # None /\ reply'[d] # None
               /\ bound'[key'[d]] = hash'[d] /\ completion'[key'[d]] = reply'[d]
    <3>1. /\ key[d] \in Keys /\ bound[key[d]] = hash[d] /\ completion[key[d]] = reply[d]
          /\ reply[d] # None /\ reply'[d] = reply[d]
      BY <2>1, <2>2, <2>8, <2>9, <1>n DEF TellInv, IsTold
    <3>2. key[d] # key[c] /\ hash[d] # None
      BY <2>2, <2>4, <3>1 DEF MemoryInv
    <3> QED
      BY <2>1, <2>3, <3>1, <3>2
  <2> QED
    BY <2>2, <2>7, <2>9, TellUp
<1>13. ASSUME NEW c \in Calls, Mark(c)  PROVE TellInv'
  <2>1. \A d \in Calls : IsTold(d)' => IsTold(d)
    BY <1>13, <1>t DEF Mark, IsTold
  <2> QED
    BY <1>t, <1>13, <2>1, TellFewer DEF Mark, Up
<1>14. ASSUME NEW c \in Calls, EffectReturn(c)  PROVE TellInv'
  <2>1. \A d \in Calls : IsTold(d)' => IsTold(d) /\ reply'[d] = reply[d]
    BY <1>14, <1>t DEF EffectReturn, IsTold
  <2> QED
    BY <1>t, <1>14, <2>1, TellFewer DEF EffectReturn, Up
<1>15. ASSUME NEW c \in Calls, EffectFail(c)  PROVE TellInv'
  <2>1. \A d \in Calls : IsTold(d)' => IsTold(d) /\ reply'[d] = reply[d]
    BY <1>15, <1>t DEF EffectFail, IsTold
  <2> QED
    BY <1>t, <1>15, <2>1, TellFewer DEF EffectFail, Up
<1>16. ASSUME NEW c \in Calls, CompleteWrite(c)  PROVE TellInv'
  <2>1. \A i \in 1..relied : lines'[i] = lines[i]
    BY <1>16, <1>w DEF CompleteWrite
  <2> QED
    BY <1>t, <1>16, <2>1, TellFewer DEF CompleteWrite, Up, IsTold
<1>17. ASSUME NEW c \in Calls, CompleteSync(c)  PROVE TellInv'
  <2> SUFFICES ASSUME ~retracted'  PROVE TellInv'
    BY DEF TellInv
  <2>1. /\ AtHead("complete", c) /\ writing /\ lines' = lines /\ relied' = Len(lines) /\ bound' = bound
        /\ phase' = phase /\ key' = key /\ hash' = hash /\ ~retracted
    BY <1>17 DEF CompleteSync
  <2>2. pc[c] = "completing" /\ key[c] \in Keys /\ hash[c] \in Hashes /\ reply[c] \in Outcomes /\ Up /\ Up'
    BY <2>1, UnderWay DEF Pending, Up, IInv, CallInv
  <2>3. completion'[key[c]] = reply[c] /\ \A j \in Keys : j # key[c] => completion'[j] = completion[j]
    BY <1>17, <1>t, <2>2 DEF CompleteSync
  <2>4. bound[key[c]] = hash[c] /\ completion[key[c]] = None
    BY <2>2 DEF MemoryInv, Executing
  <2>5. SaysIn(lines', relied', Terminal(key[c], reply[c]))
    BY <2>1, LastSays DEF LineInv, IInv, Writes
  <2>6. \A r : SaysIn(lines, relied, r) => SaysIn(lines', relied', r)
    BY <1>t, <2>1, SaysStays
  <2>7. \A j \in Keys : /\ bound'[j] # None => SaysIn(lines', relied', Accepted(j, bound'[j]))
                        /\ completion'[j] # None => SaysIn(lines', relied', Terminal(j, completion'[j]))
    BY <2>1, <2>2, <2>3, <2>5, <2>6 DEF TellInv, Says
  <2>8. \A d \in Calls : IsTold(d)' =>
           \/ IsTold(d) /\ reply'[d] = reply[d]
           \/ /\ pc[d] \in {"completing", "joined"} /\ key[d] = key[c] /\ hash[d] = bound[key[d]]
              /\ reply'[d] = reply[c]
    <3>1. \A d \in Calls : IsTold(d)' =>
             \/ IsTold(d) /\ reply'[d] = reply[d]
             \/ d \in Settling(c) /\ reply'[d] = reply[c]
      BY <1>17, <1>t DEF CompleteSync, IsTold
    <3>2. \A d \in Settling(c) : pc[d] \in {"completing", "joined"} /\ key[d] = key[c]
      BY <2>2 DEF Settling
    <3> QED
      BY <3>1, <3>2 DEF MemoryInv, Executing
  <2>9. ASSUME NEW d \in Calls, IsTold(d)'
        PROVE  /\ key'[d] \in Keys /\ hash'[d] # None /\ reply'[d] # None
               /\ bound'[key'[d]] = hash'[d] /\ completion'[key'[d]] = reply'[d]
    <3>1. CASE IsTold(d) /\ reply'[d] = reply[d]
      <4>1. key[d] \in Keys /\ bound[key[d]] = hash[d] /\ completion[key[d]] = reply[d] /\ reply[d] # None
        BY <2>1, <2>2, <3>1, <1>n DEF TellInv, IsTold
      <4>2. key[d] # key[c] /\ hash[d] # None
        BY <2>2, <2>4, <4>1 DEF MemoryInv
      <4> QED
        BY <2>1, <2>3, <3>1, <4>1, <4>2
    <3>2. CASE key[d] = key[c] /\ hash[d] = bound[key[d]] /\ reply'[d] = reply[c]
      BY <2>1, <2>2, <2>3, <2>4, <3>2, <1>n
    <3> QED
      BY <2>8, <2>9, <3>1, <3>2
  <2> QED
    BY <2>2, <2>7, <2>9, TellUp
<1>18. CASE FinishStop
    BY <1>18, <1>e DEF FinishStop
<1>19. ASSUME NEW c \in Calls, AppendFaultAccept(c)  PROVE TellInv'
  <2>1. \A d \in Calls : IsTold(d)' => IsTold(d) /\ reply'[d] = reply[d]
    BY <1>19, <1>t, <1>o DEF AppendFaultAccept, IsTold
  <2> QED
    BY <1>t, <1>19, <2>1, TellFewer DEF AppendFaultAccept, Up
<1>20. ASSUME NEW c \in Calls, AppendFaultComplete(c)  PROVE TellInv'
  <2>1. \A d \in Calls : IsTold(d)' => IsTold(d) /\ reply'[d] = reply[d]
    BY <1>20, <1>t, <1>o DEF AppendFaultComplete, IsTold
  <2> QED
    BY <1>t, <1>20, <2>1, TellFewer DEF AppendFaultComplete, Up
<1>21. CASE AppendFaultReconcile
    BY <1>21, <1>e DEF AppendFaultReconcile
<1>22. CASE BeginStop
    BY <1>t, <1>22, TellFewer DEF BeginStop, Up, IsTold
<1>23. CASE Kill
    BY <1>23, <1>e DEF Kill
<1>24. CASE PowerLoss
  <2> SUFFICES ASSUME ~retracted'  PROVE TellInv'
    BY DEF TellInv
  <2>1. PICK n \in synced..Len(lines) : lines' = SubSeq(lines, 1, n) /\ relied' = n
                                        /\ retracted' = (retracted \/ n < relied)
    BY <1>24 DEF PowerLoss
  <2>2. ~retracted /\ ~(n < relied)
    BY <2>1, Zenon
  <2>3. n \in 0..Len(lines)
    BY DEF IInv, TypeOK
  <2>4. relied <= relied' /\ \A i \in 1..relied : lines'[i] = lines[i]
    BY <1>t, <2>1, <2>2, <2>3
  <2>5. /\ ~Up' /\ key' = key /\ hash' = hash /\ reply' = reply
        /\ \A c \in Calls : pc'[c] = "answered" => pc[c] = "answered"
    BY <1>24, ExitForgets DEF PowerLoss
  <2>6. \A c \in Calls : IsTold(c)' => IsTold(c)
    BY <2>5 DEF IsTold
  <2> QED
    BY <2>2, <2>4, <2>5, <2>6, TellFewer
<1>25. CASE UNCHANGED vars
    BY <1>t, <1>25, TellFewer DEF vars, Up, IsTold
<1> QED
    BY <1>1, <1>2, <1>3, <1>4, <1>5, <1>6, <1>7, <1>8, <1>9, <1>10, <1>11, <1>12, <1>13, <1>14, <1>15, <1>16,
       <1>17, <1>18, <1>19, <1>20, <1>21, <1>22, <1>23, <1>24, <1>25 DEF Next, DaemonStep, Environment

-----------------------------------------------------------------------------

\* The parts together are an invariant of the journal.
LEMMA AnswerInvariant == Spec => []AnswerInv
<1>1. Init => AnswerInv
  <2> SUFFICES ASSUME Init  PROVE AnswerInv
    OBVIOUS
  <2>1. /\ lines = <<>> /\ phase = "down" /\ todo = {} /\ recovering = None /\ relied = 0
        /\ tail = <<>> /\ ~writing /\ \A c \in Calls : pc[c] = "idle"
    BY DEF Init
  <2>2. MemoryInv
    BY <2>1 DEF MemoryInv, Executing, Up
  <2>3. ReadInv
    BY <2>1 DEF ReadInv, Readable, Up
  <2>4. LineInv
    BY <2>1 DEF LineInv, Writes, Named
  <2>5. TellInv
    BY <2>1 DEF TellInv, IsTold, AnswersAgree, Up
  <2> QED
    BY <2>2, <2>3, <2>4, <2>5 DEF AnswerInv
<1>2. IInv /\ IInv' /\ AnswerInv /\ [Next]_vars => AnswerInv'
    BY MemoryStep, ReadStep, LineStep, TellStep DEF AnswerInv
<1> QED
    BY <1>1, <1>2, Invariant, PTL DEF Spec

\* Two calls that are given an outcome under one key sent the same request and got the
\* same outcome, across retries, joins, failing appends, restarts and reconciliation
\* (execute, accept), for any number of calls and daemon starts.
THEOREM AnswersAgreeHolds == Spec => []AnswersAgree
<1>1. AnswerInv => AnswersAgree
    BY DEF AnswerInv, TellInv, AnswersAgree
<1> QED
    BY <1>1, AnswerInvariant, PTL

\* Without failing appends every restart finds a file it can replay (open, appendSynced).
THEOREM JournalReadableHolds == Spec => []JournalReadable
<1>1. AnswerInv => JournalReadable
    BY DEF AnswerInv, ReadInv, JournalReadable
<1> QED
    BY <1>1, AnswerInvariant, PTL

-----------------------------------------------------------------------------
(* The write-once verdict: without failing appends and retracted lines the *)
(* journal implements WriteOnceVerdict.                                    *)

\* The relied-on lines stay what they are, unless a power loss takes one back.
LEMMA LinesStay ==
    ASSUME IInv, [Next]_vars, ~retracted'
    PROVE  /\ ~retracted
           /\ relied \in Nat /\ relied' \in Nat /\ relied <= relied' /\ relied <= Len(lines)
           /\ \A i \in 1..relied : lines'[i] = lines[i]
<1>t. relied \in Nat /\ relied <= Len(lines) /\ Len(lines) \in Nat /\ lines \in Seq(Records)
      /\ synced \in 0..Len(lines)
    BY DEF IInv, TypeOK, FileInv
<1>1. CASE Open
    BY <1>1, <1>t DEF Open
<1>2. ASSUME NEW r, lines' = Written(r), relied' = relied, retracted' = retracted
      PROVE  /\ ~retracted /\ relied' \in Nat /\ relied <= relied'
             /\ \A i \in 1..relied : lines'[i] = lines[i]
    BY <1>2, <1>t DEF Written
<1>3. CASE \/ \E k \in Keys : ReconcileWrite(k)
           \/ \E c \in Calls : AcceptWrite(c) \/ CompleteWrite(c)
    BY <1>2, <1>3, <1>t DEF ReconcileWrite, AcceptWrite, CompleteWrite
<1>4. CASE \/ \E k \in Keys : ReconcileSync(k)
           \/ \E c \in Calls : AcceptSync(c) \/ CompleteSync(c)
    BY <1>4, <1>t DEF ReconcileSync, AcceptSync, CompleteSync
<1>5. CASE PowerLoss
  <2>1. PICK n \in synced..Len(lines) : lines' = SubSeq(lines, 1, n) /\ relied' = n
                                        /\ retracted' = (retracted \/ n < relied)
    BY <1>5 DEF PowerLoss
  <2>2. ~retracted /\ ~(n < relied)
    BY <2>1, Zenon
  <2>3. n \in 0..Len(lines)
    BY <1>t
  <2> QED
    BY <1>t, <2>1, <2>2, <2>3
<1>6. ASSUME UNCHANGED <<lines, relied, retracted>>
      PROVE  /\ ~retracted /\ relied' \in Nat /\ relied <= relied'
             /\ \A i \in 1..relied : lines'[i] = lines[i]
    BY <1>6, <1>t
<1>7. \/ Open
      \/ \E k \in Keys : ReconcileWrite(k)
      \/ \E c \in Calls : AcceptWrite(c) \/ CompleteWrite(c)
      \/ \E k \in Keys : ReconcileSync(k)
      \/ \E c \in Calls : AcceptSync(c) \/ CompleteSync(c)
      \/ PowerLoss
      \/ UNCHANGED <<lines, relied, retracted>>
    BY DEF Next, DaemonStep, Environment, vars, Serve, ReconcileOpen, ReconcileAct, Submit, AcceptConflict,
       AcceptSettled, AcceptOpenEntry, Mark, EffectReturn, EffectFail, FinishStop, AppendFaultAccept,
       AppendFaultComplete, AppendFaultReconcile, BeginStop, Kill, Exit, StartEffect
<1> QED
    BY <1>t, <1>1, <1>3, <1>4, <1>5, <1>6, <1>7

\* A call that was answered stays answered, with the same answer.
LEMMA AnswerStays ==
    ASSUME IInv, [Next]_vars, NEW c \in Calls, pc[c] = "answered"
    PROVE  pc'[c] = "answered" /\ key'[c] = key[c] /\ hash'[c] = hash[c] /\ reply'[c] = reply[c]
<1>t. /\ pc \in [Calls -> Pending \cup {"idle", "answered", "lost"}] /\ key \in [Calls -> Keys \cup {None}]
      /\ hash \in [Calls -> Hashes \cup {None}] /\ reply \in [Calls -> Replies \cup {None}]
    BY DEF IInv, TypeOK
<1>a. /\ \A d \in Calls : AtHead("accept", d) => d # c
      /\ \A d \in Calls : AtHead("complete", d) => d # c
    BY UnderWay
<1>1. CASE \/ Open \/ Serve \/ BeginStop
           \/ \E k \in Keys : ReconcileOpen(k) \/ ReconcileAct(k) \/ ReconcileWrite(k) \/ ReconcileSync(k)
           \/ \E d \in Calls : AcceptWrite(d) \/ CompleteWrite(d)
           \/ UNCHANGED vars
    BY <1>1 DEF Open, Serve, BeginStop, ReconcileOpen, ReconcileAct, ReconcileWrite, ReconcileSync,
                AcceptWrite, CompleteWrite, vars
<1>2. CASE Exit
    BY <1>2, <1>t DEF Exit, Pending
<1>3. CASE \E d \in Calls, k \in Keys, h \in Hashes : Submit(d, k, h)
    BY <1>3, <1>t DEF Submit
<1>4. ASSUME NEW d \in Calls, AcceptConflict(d) \/ AcceptSettled(d)
      PROVE  pc'[c] = "answered" /\ key'[c] = key[c] /\ hash'[c] = hash[c] /\ reply'[c] = reply[c]
    BY <1>4, <1>t, <1>a DEF AcceptConflict, AcceptSettled
<1>5. ASSUME NEW d \in Calls, AcceptOpenEntry(d) \/ AcceptSync(d)
      PROVE  pc'[c] = "answered" /\ key'[c] = key[c] /\ hash'[c] = hash[c] /\ reply'[c] = reply[c]
    BY <1>5, <1>t, <1>a DEF AcceptOpenEntry, AcceptSync, StartEffect
<1>6. ASSUME NEW d \in Calls, Mark(d) \/ EffectReturn(d) \/ EffectFail(d)
      PROVE  pc'[c] = "answered" /\ key'[c] = key[c] /\ hash'[c] = hash[c] /\ reply'[c] = reply[c]
    BY <1>6, <1>t DEF Mark, EffectReturn, EffectFail
<1>7. ASSUME NEW d \in Calls, CompleteSync(d)
      PROVE  pc'[c] = "answered" /\ key'[c] = key[c] /\ hash'[c] = hash[c] /\ reply'[c] = reply[c]
  <2>1. c \notin Settling(d)
    BY <1>7, UnderWay DEF Settling, CompleteSync
  <2> QED
    BY <1>7, <1>t, <1>a, <2>1 DEF CompleteSync
<1>8. ASSUME NEW d \in Calls, AppendFaultAccept(d) \/ AppendFaultComplete(d)
      PROVE  pc'[c] = "answered" /\ key'[c] = key[c] /\ hash'[c] = hash[c] /\ reply'[c] = reply[c]
  <2>1. CASE AppendFaultAccept(d)
    BY <2>1, <1>t, <1>a DEF AppendFaultAccept
  <2>2. CASE AppendFaultComplete(d)
    <3>1. c \notin Settling(d)
      BY <2>2, UnderWay DEF Settling, AppendFaultComplete
    <3> QED
      BY <2>2, <1>t, <1>a, <3>1 DEF AppendFaultComplete
  <2> QED
    BY <1>8, <2>1, <2>2
<1>9. CASE FinishStop \/ AppendFaultReconcile \/ Kill \/ PowerLoss
    BY <1>2, <1>9 DEF FinishStop, AppendFaultReconcile, Kill, PowerLoss
<1> QED
    BY <1>1, <1>3, <1>4, <1>5, <1>6, <1>7, <1>8, <1>9 DEF Next, DaemonStep, Environment

NoVerdict == [hash |-> None, outcome |-> None]
Verdicts == [hash : Hashes, outcome : Outcomes]
VerdictIn(file0, k) ==
    IF TerminalIn(file0, k) = {} THEN NoVerdict
    ELSE [hash |-> ReplayedHash(file0, k), outcome |-> ReplayedOutcome(file0, k)]

\* A file that can be replayed, in which acceptances name a request and terminal lines an
\* outcome.
Sound(file0) ==
    /\ file0 \in Seq(Records) /\ Readable(file0) /\ Named(file0)
    /\ \A i \in 1..Len(file0) : file0[i].type = "accepted" => file0[i].hash \in Hashes

\* The verdict the first lines of a sound file give a key (open, accept) is the request and
\* the outcome they name, or none.
LEMMA VerdictSays ==
    ASSUME NEW f, Sound(f), NEW n \in 0..Len(f), NEW k
    PROVE  LET v == VerdictIn(SubSeq(f, 1, n), k) IN
           /\ v \in Verdicts \cup {NoVerdict}
           /\ v # NoVerdict => SaysIn(f, n, Accepted(k, v.hash)) /\ SaysIn(f, n, Terminal(k, v.outcome))
           /\ \A h, o : SaysIn(f, n, Accepted(k, h)) /\ SaysIn(f, n, Terminal(k, o))
                        => v = [hash |-> h, outcome |-> o]
<1> DEFINE j == SubSeq(f, 1, n)
<1>1. j \in Seq(Records) /\ Len(j) = n /\ \A i \in 1..n : i \in 1..Len(f) /\ j[i] = f[i]
    BY DEF Sound
<1>2. Readable(j)
    BY ReadablePrefix DEF Sound
<1>3. \A r : SaysIn(j, Len(j), r) <=> SaysIn(f, n, r)
    BY <1>1 DEF SaysIn
<1>4. \A i \in 1..n : /\ j[i].type = "accepted" => j[i].hash \in Hashes
                      /\ j[i].type = "terminal" => j[i].outcome \in Outcomes
  <2>1. \A i \in 1..Len(f) : f[i] \in Records
    BY DEF Sound
  <2>2. \A r \in Records : r.outcome \in Outcomes \cup {None}
    BY DEF Records
  <2> QED
    BY <1>1, <2>1, <2>2 DEF Sound, Named
<1> HIDE DEF j
<1>5. CASE TerminalIn(j, k) = {}
  <2>1. \A o : ~SaysIn(j, Len(j), Terminal(k, o))
    BY <1>2, <1>5, RecordFacts DEF SaysIn, TerminalIn, Readable
  <2> QED
    BY <1>3, <1>5, <2>1 DEF VerdictIn, j
<1>6. CASE TerminalIn(j, k) # {}
  <2>1. AcceptanceIn(j, k) # {}
    BY <1>1, <1>2, <1>6, ReplayOrder
  <2>2. PICK a \in 1..n : j[a].type = "accepted" /\ ReplayedHash(j, k) = j[a].hash
    BY <1>1, <2>1 DEF AcceptanceIn, ReplayedHash, IsAcceptanceOf
  <2>3. PICK t \in 1..n : j[t].type = "terminal" /\ ReplayedOutcome(j, k) = j[t].outcome
    BY <1>1, <1>6 DEF TerminalIn, ReplayedOutcome, IsTerminalOf
  <2>4. ReplayedHash(j, k) \in Hashes /\ ReplayedOutcome(j, k) \in Outcomes
    BY <1>4, <2>2, <2>3
  <2>5. ReplayedHash(j, k) # None /\ ReplayedOutcome(j, k) # None
    BY <2>4 DEF Replies
  <2>6. VerdictIn(j, k) = [hash |-> ReplayedHash(j, k), outcome |-> ReplayedOutcome(j, k)]
    BY <1>6 DEF VerdictIn
  <2>7. VerdictIn(j, k) \in Verdicts
    BY <2>4, <2>6 DEF Verdicts
  <2>8. /\ SaysIn(j, Len(j), Accepted(k, ReplayedHash(j, k)))
        /\ SaysIn(j, Len(j), Terminal(k, ReplayedOutcome(j, k)))
    BY <1>1, <1>2, <2>5, ReplaySays
  <2>9. \A h, o : SaysIn(j, Len(j), Accepted(k, h)) /\ SaysIn(j, Len(j), Terminal(k, o))
                  => ReplayedHash(j, k) = h /\ ReplayedOutcome(j, k) = o
    BY <1>1, <1>2, ReplaySays
  <2> QED
    BY <1>3, <2>6, <2>7, <2>8, <2>9 DEF j
<1> QED
    BY <1>5, <1>6

\* What the verdict register of the promise sees of the journal: the verdicts are those of
\* the relied-on lines, and whoever was told an outcome was told the verdict.
LEMMA ToldVerdicts ==
    IInv /\ AnswerInv /\ ioFaults = 0 /\ ~retracted =>
        /\ Sound(lines) /\ relied \in 0..Len(lines)
        /\ \A k \in Keys : Verdict(k) = VerdictIn(SubSeq(lines, 1, relied), k)
        /\ \A c \in Calls : Told(c) # None =>
              /\ IsTold(c) /\ key[c] \in Keys
              /\ Verdict(key[c]) = [hash |-> hash[c], outcome |-> reply[c]]
              /\ Verdict(key[c]) \in Verdicts
<1> SUFFICES ASSUME IInv, AnswerInv, ioFaults = 0, ~retracted
             PROVE  /\ Sound(lines) /\ relied \in 0..Len(lines)
                    /\ \A k \in Keys : Verdict(k) = VerdictIn(SubSeq(lines, 1, relied), k)
                    /\ \A c \in Calls : Told(c) # None =>
                          /\ IsTold(c) /\ key[c] \in Keys
                          /\ Verdict(key[c]) = [hash |-> hash[c], outcome |-> reply[c]]
                          /\ Verdict(key[c]) \in Verdicts
    OBVIOUS
<1>1. Sound(lines)
    BY DEF Sound, IInv, TypeOK, FileInv, AnswerInv, ReadInv, LineInv
<1>2. relied \in 0..Len(lines)
    BY DEF IInv, TypeOK, FileInv
<1>3. \A k \in Keys : Verdict(k) = VerdictIn(SubSeq(lines, 1, relied), k)
    BY DEF Verdict, VerdictIn, NoVerdict
<1>4. ASSUME NEW c \in Calls, Told(c) # None
      PROVE  /\ IsTold(c) /\ key[c] \in Keys
             /\ Verdict(key[c]) = [hash |-> hash[c], outcome |-> reply[c]]
             /\ Verdict(key[c]) \in Verdicts
  <2>1. IsTold(c)
    BY <1>4 DEF Told, IsTold
  <2>2. /\ key[c] \in Keys /\ SaysIn(lines, relied, Accepted(key[c], hash[c]))
        /\ SaysIn(lines, relied, Terminal(key[c], reply[c]))
    BY <2>1 DEF AnswerInv, TellInv, Says
  <2>3. /\ Verdict(key[c]) = [hash |-> hash[c], outcome |-> reply[c]]
        /\ Verdict(key[c]) \in Verdicts \cup {NoVerdict}
    BY <1>1, <1>2, <1>3, <2>2, VerdictSays
  <2>4. reply[c] # None
    BY <2>1 DEF IsTold, Replies
  <2> QED
    BY <2>1, <2>2, <2>3, <2>4 DEF NoVerdict
<1> QED
    BY <1>1, <1>2, <1>3, <1>4

\* The journal implements a write-once verdict per key (accept, execute, reconcile): on
\* storage that fails no append and takes no relied-on line back, a verdict is never changed,
\* and a client is told once, and told the verdict, for any keys, calls and daemon starts.
THEOREM WriteOnceHolds == ReliableSpec => WriteOnce
<1> DEFINE Reliable == ioFaults = 0 /\ ~retracted
           verdict == [k \in Keys |-> Verdict(k)]
           told == [c \in Calls |-> Told(c)]
<1>1. Init => Promise!Init /\ Reliable
  <2> SUFFICES ASSUME Init  PROVE Promise!Init /\ Reliable
    OBVIOUS
  <2>1. lines = <<>> /\ relied = 0 /\ \A c \in Calls : pc[c] = "idle"
    BY DEF Init
  <2>2. SubSeq(lines, 1, relied) = <<>>
    BY <2>1
  <2>3. \A k \in Keys : Verdict(k) = NoVerdict
    <3>1. \A k : TerminalIn(<<>>, k) = {}
      BY DEF TerminalIn
    <3> QED
      BY <2>2, <3>1, Zenon DEF Verdict, NoVerdict
  <2>4. \A c \in Calls : Told(c) = None
    BY <2>1 DEF Told
  <2>5. Reliable
    BY DEF Init
  <2> QED
    BY <2>3, <2>4, <2>5 DEF Promise!Init, Promise!Undecided, NoVerdict
<1>2. Reliable /\ [Next /\ ioFaults' = 0 /\ ~retracted']_vars => Reliable'
  <2>1. UNCHANGED vars => ioFaults' = ioFaults /\ retracted' = retracted
    BY DEF vars
  <2> QED
    BY <2>1, Zenon
<1>3. ASSUME IInv, AnswerInv, Reliable, IInv', AnswerInv', Reliable',
             [Next /\ ioFaults' = 0 /\ ~retracted']_vars
      PROVE  Promise!Next
  <2>1. [Next]_vars
    BY <1>3
  <2>2. /\ Sound(lines) /\ relied \in 0..Len(lines)
        /\ \A k \in Keys : Verdict(k) = VerdictIn(SubSeq(lines, 1, relied), k)
        /\ \A c \in Calls : Told(c) # None => IsTold(c)
    BY <1>3, ToldVerdicts
  <2>3. /\ Sound(lines') /\ relied' \in 0..Len(lines')
        /\ \A k \in Keys : Verdict(k)' = VerdictIn(SubSeq(lines', 1, relied'), k)
        /\ \A c \in Calls : Told(c)' # None =>
              /\ IsTold(c)' /\ key'[c] \in Keys
              /\ \A k \in Keys : k = key'[c] => /\ Verdict(k)' = [hash |-> hash'[c], outcome |-> reply'[c]]
                                                /\ Verdict(k)' \in Verdicts
    <3>1. (IInv /\ AnswerInv /\ ioFaults = 0 /\ ~retracted =>
            /\ Sound(lines) /\ relied \in 0..Len(lines)
            /\ \A k \in Keys : Verdict(k) = VerdictIn(SubSeq(lines, 1, relied), k)
            /\ \A c \in Calls : Told(c) # None =>
                  /\ IsTold(c) /\ key[c] \in Keys
                  /\ Verdict(key[c]) = [hash |-> hash[c], outcome |-> reply[c]]
                  /\ Verdict(key[c]) \in Verdicts)'
      BY ToldVerdicts, PTL
    <3> QED
      BY <1>3, <3>1
  <2>4. relied \in Nat /\ relied' \in Nat /\ relied <= relied' /\ \A i \in 1..relied : lines'[i] = lines[i]
    BY <1>3, <2>1, LinesStay
  <2>5. ASSUME NEW k \in Keys, Verdict(k) # NoVerdict  PROVE Verdict(k)' = Verdict(k)
    <3>1. PICK v \in Verdicts : /\ v = Verdict(k)
                               /\ SaysIn(lines, relied, Accepted(k, v.hash))
                               /\ SaysIn(lines, relied, Terminal(k, v.outcome))
      BY <2>2, <2>5, VerdictSays
    <3>2. /\ SaysIn(lines', relied', Accepted(k, v.hash))
          /\ SaysIn(lines', relied', Terminal(k, v.outcome))
      BY <2>4, <3>1, SaysStays
    <3>3. VerdictIn(SubSeq(lines', 1, relied'), k) = [hash |-> v.hash, outcome |-> v.outcome]
      BY <2>3, <3>2, VerdictSays
    <3> QED
      BY <2>3, <3>1, <3>3 DEF Verdicts
  <2>6. \A k \in Keys : Verdict(k)' \in Verdicts \cup {NoVerdict}
    BY <2>3, VerdictSays
  <2>7. Promise!Decide
    BY <2>5, <2>6 DEF Promise!Decide, Promise!Decided, Promise!Undecided, Verdicts, NoVerdict
  <2>8. ASSUME NEW c \in Calls
        PROVE  /\ Told(c)' \in [key : Keys, verdict : Verdicts] \cup {None}
               /\ \/ Told(c)' = Told(c)
                  \/ Told(c) = None /\ \E k \in Keys : Told(c)' = [key |-> k, verdict |-> Verdict(k)']
    <3>1. CASE Told(c)' = None /\ Told(c) = None
      BY <3>1
    <3>2. ASSUME Told(c)' # None
          PROVE  /\ Told(c)' \in [key : Keys, verdict : Verdicts]
                 /\ \E k \in Keys : Told(c)' = [key |-> k, verdict |-> Verdict(k)']
      <4>1. Told(c)' = [key |-> key'[c], verdict |-> [hash |-> hash'[c], outcome |-> reply'[c]]]
        BY <3>2 DEF Told
      <4> QED
        BY <2>3, <3>2, <4>1
    <3>3. CASE Told(c) # None
      <4>1. pc[c] = "answered" /\ reply[c] \in Outcomes
        BY <2>2, <3>3 DEF IsTold
      <4>2. pc'[c] = "answered" /\ key'[c] = key[c] /\ hash'[c] = hash[c] /\ reply'[c] = reply[c]
        BY <1>3, <2>1, <4>1, AnswerStays
      <4>3. Told(c)' = Told(c)
        BY <4>1, <4>2 DEF Told
      <4> QED
        BY <3>2, <3>3, <4>3
    <3> QED
      BY <3>1, <3>2, <3>3
  <2>9. Promise!Tell
    BY <2>8 DEF Promise!Tell, Promise!Decided, Verdicts
  <2> QED
    BY <2>7, <2>9 DEF Promise!Next
<1>4. ReliableSpec => Spec
    BY PTL DEF ReliableSpec, Spec
<1>5. ReliableSpec => []IInv /\ []AnswerInv
    BY <1>4, Invariant, AnswerInvariant, PTL
<1>6. ReliableSpec => Promise!Init /\ [][Promise!Next]_<<verdict, told>>
    BY <1>1, <1>2, <1>3, <1>5, PTL DEF ReliableSpec
<1> QED
    BY <1>6, PTL DEF WriteOnce, Promise!Spec

=============================================================================
