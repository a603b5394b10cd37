--------------------------- MODULE SortTest_proofs ---------------------------
(***************************************************************************)
(* Proofs about KeyQueue and SortTest, for every size of the batches and   *)
(* every number of keys and subscribers: first what the two threads of the *)
(* owner do to the keys, then what the subscribers see of them.            *)
(***************************************************************************)
EXTENDS SortTest, SequenceTheorems, TLAPS

(* Concatenation as the swap and the insertion use it.                     *)
LEMMA SwapKeeps ==
  ASSUME NEW S, NEW a \in Seq(S), NEW b \in Seq(S)
  PROVE  (a \o <<>>) \o b = (a \o b) \o <<>>
  OBVIOUS

LEMMA MoveKeeps ==
  ASSUME NEW S, NEW a \in Seq(S), NEW b \in Seq(S), b # <<>>
  PROVE  /\ Append(a, Head(b)) \in Seq(S) /\ Tail(b) \in Seq(S)
         /\ Len(Append(a, Head(b))) = Len(a) + 1
         /\ Append(a, Head(b)) \o Tail(b) = a \o b
  OBVIOUS

LEMMA Joins ==
  ASSUME NEW a \in Seq(Nat), NEW b \in Seq(Nat), NEW g \in Nat, NEW n \in Nat,
         Len(a) = g, Len(b) = n
  PROVE  /\ a \o b \in Seq(Nat) /\ Len(a \o b) = g + n
         /\ \A k \in 1 .. g + n : (a \o b)[k] = IF k <= g THEN a[k] ELSE b[k - g]
<1>1. a \o b \in Seq(Nat) /\ Len(a \o b) = g + n
  OBVIOUS
<1>2. \A k \in 1 .. g + n : (a \o b)[k] = IF k <= g THEN a[k] ELSE b[k - g]
  BY SMTT(30)
<1> QED BY <1>1, <1>2

(* The numbers up to g, and the next n of them after these.                *)
LEMMA CountOn ==
  ASSUME NEW low \in Seq(Nat), NEW g \in Nat, NEW n \in Nat,
         low = [k \in 1 .. g |-> k]
  PROVE  low \o [k \in 1 .. n |-> g + k] = [k \in 1 .. g + n |-> k]
<1> DEFINE new == [k \in 1 .. n |-> g + k]
           all == [k \in 1 .. g + n |-> k]
<1>1. Len(low) = g /\ \A k \in 1 .. g : low[k] = k
  OBVIOUS
<1>2. new \in Seq(Nat) /\ Len(new) = n /\ \A k \in 1 .. n : new[k] = g + k
  OBVIOUS
<1>3. all \in Seq(Nat) /\ Len(all) = g + n /\ \A k \in 1 .. g + n : all[k] = k
  OBVIOUS
<1> HIDE DEF new, all
<1>4. /\ low \o new \in Seq(Nat) /\ Len(low \o new) = g + n
      /\ \A k \in 1 .. g + n : (low \o new)[k] = IF k <= g THEN low[k] ELSE new[k - g]
  BY <1>1, <1>2, Joins
<1>5. \A k \in 1 .. g + n : (low \o new)[k] = all[k]
  BY <1>1, <1>2, <1>3, <1>4
<1>6. low \o new = all
  BY <1>3, <1>4, <1>5, SeqEqual
<1> QED BY <1>6 DEF new, all

-----------------------------------------------------------------------------
(* What the owner's threads keep.                                          *)
USE BatchAssumption

QueueInv == TypeOK /\ KeysInOrder /\ generated <= MaxKeys

(* The steps of the owner's threads, as KeyQueue has them.                 *)
QueueNext ==
  \/ TimeUp \/ Generator \/ TakeKeys \/ Insert \/ Inserted \/ Settle
  \/ Go("start", "check") \/ Go("acquire", "insert") \/ Go("exit", "done")

(* Keys are generated at the tail of the queue, moved from one to the      *)
(* other when the other is empty, and inserted from the head.              *)
LEMMA QueueStep == QueueInv /\ (QueueNext \/ UNCHANGED vars) => QueueInv'
<1> SUFFICES ASSUME QueueInv, QueueNext \/ UNCHANGED vars PROVE QueueInv'
  OBVIOUS
<1> USE DEF queueVars, dataVars
<1>0. /\ TypeOK /\ KeysInOrder /\ generated \in Nat
      /\ queue \in Seq(Nat) /\ other \in Seq(Nat) /\ inserted \in Seq(Nat)
  <2>1. 1 .. generated \subseteq Nat
    BY DEF QueueInv, TypeOK
  <2> QED BY <2>1, SeqMonotonic DEF QueueInv, TypeOK
<1>1. ASSUME UNCHANGED <<queueVars, dataVars>>,
             ownerEnded' \in BOOLEAN, locked' \in BOOLEAN, woken' \in BOOLEAN,
             gen' \in {"check", "fill", "signal", "last", "done"},
             con' \in {"start", "check", "lock", "test", "wait", "blocked", "acquire",
                       "insert", "release", "exit", "done"},
             locked' <=> con' \in {"test", "wait"},
             other # <<>> => con' \in {"acquire", "insert"}
      PROVE  QueueInv'
  BY <1>1 DEF QueueInv, TypeOK, KeysInOrder
<1>2. CASE TimeUp
  BY <1>0, <1>1, <1>2 DEF TimeUp, TypeOK
<1>3. CASE GenCheck \/ GenSignal
  BY <1>0, <1>1, <1>3 DEF GenCheck, GenSignal, CondSignal, TypeOK
<1>4. CASE Fill
  <2> DEFINE n == BatchSize
             new == [k \in 1 .. n |-> generated + k]
  <2>1. n \in Nat /\ generated + n <= MaxKeys
    BY <1>0 DEF BatchSize, QueueInv
  <2>2. /\ queue' = queue \o new /\ generated' = generated + n /\ gen' = "signal"
        /\ UNCHANGED <<other, dataVars, ownerEnded, locked, woken, con>>
    BY <1>4 DEF Fill
  <2> HIDE DEF n
  <2>3. new \in Seq(1 .. generated') /\ 1 .. generated \subseteq 1 .. generated'
    BY <1>0, <2>1, <2>2
  <2>4. queue \in Seq(1 .. generated') /\ other \in Seq(1 .. generated')
        /\ inserted \in Seq(1 .. generated')
    BY <1>0, <2>3, SeqMonotonic DEF TypeOK
  <2>5. queue' \in Seq(1 .. generated')
    BY <2>2, <2>3, <2>4, ConcatProperties
  <2> DEFINE low == inserted \o other
  <2>6. low \in Seq(Nat) /\ low \o queue \in Seq(Nat) /\ new \in Seq(Nat)
    BY <1>0, <2>1
  <2>7. KeysInOrder'
    <3>1. low \o queue = [k \in 1 .. generated |-> k]
      BY <1>0 DEF KeysInOrder
    <3>2. inserted' \o other' = low
      BY <2>2 DEF dataVars
    <3> HIDE DEF low
    <3>3. (low \o queue) \o new = [k \in 1 .. generated + n |-> k]
      BY <1>0, <2>1, <2>6, <3>1, CountOn
    <3>4. (low \o queue) \o new = low \o (queue \o new)
      <4> HIDE DEF new
      <4>1. low \in Seq(Nat) /\ queue \in Seq(Nat) /\ new \in Seq(Nat)
        BY <1>0, <2>6
      <4> QED BY <4>1, SMTT(30)
    <3> QED BY <2>2, <3>2, <3>3, <3>4 DEF KeysInOrder
  <2> QED BY <1>0, <2>1, <2>2, <2>4, <2>5, <2>7 DEF QueueInv, TypeOK
<1>5. CASE ConCheck \/ Lock \/ TestEmpty \/ CondWait \/ WakeUp
  BY <1>0, <1>1, <1>5 DEF ConCheck, Lock, TestEmpty, CondWait, WakeUp, TypeOK
<1>6. CASE TestAndSwap
  <2>1. /\ other = <<>> /\ other' = queue /\ queue' = other
        /\ UNCHANGED <<generated, dataVars>>
    BY <1>0, <1>6 DEF TestAndSwap, Swap, TypeOK
  <2>2. KeysInOrder'
    BY <1>0, <2>1, SwapKeeps DEF KeysInOrder
  <2> QED BY <1>0, <1>6, <2>1, <2>2 DEF TestAndSwap, QueueInv, TypeOK
<1>7. CASE Insert
  <2>1. /\ other # <<>> /\ con = "insert"
        /\ inserted' = Append(inserted, Head(other)) /\ other' = Tail(other)
        /\ UNCHANGED <<queue, generated, settled, ownerEnded, locked, woken, gen, con>>
    BY <1>7 DEF Insert
  <2>2. /\ inserted' \in Seq(1 .. generated') /\ other' \in Seq(1 .. generated')
        /\ Len(inserted') = Len(inserted) + 1 /\ inserted' \o other' = inserted \o other
    BY <1>0, <2>1, MoveKeeps DEF TypeOK
  <2>3. settled' \in 0 .. Len(inserted')
    BY <1>0, <2>1, <2>2 DEF TypeOK
  <2>4. KeysInOrder'
    BY <1>0, <2>1, <2>2 DEF KeysInOrder
  <2> QED BY <1>0, <2>1, <2>2, <2>3, <2>4 DEF QueueInv, TypeOK
<1>8. CASE Inserted \/ Go("start", "check") \/ Go("acquire", "insert") \/ Go("exit", "done")
  BY <1>0, <1>1, <1>8 DEF Inserted, Go, TypeOK
<1>9. CASE Settle
  <2>1. settled' \in 0 .. Len(inserted')
    BY <1>0, <1>9 DEF Settle
  <2> QED BY <1>0, <1>9, <2>1 DEF Settle, QueueInv, TypeOK, KeysInOrder
<1>10. CASE UNCHANGED vars
  BY <1>0, <1>1, <1>10 DEF vars, TypeOK
<1> QED
  BY <1>2, <1>3, <1>4, <1>5, <1>6, <1>7, <1>8, <1>9, <1>10
  DEF QueueNext, Generator, TakeKeys

-----------------------------------------------------------------------------
(* The owner is between the halves only when it has a key to insert.       *)
Halfway == first = Len(inserted) + 1 => con = "insert" /\ other # <<>>

(* The global lock: whoever inserts, publishes or traverses has the        *)
(* semaphore, and what a traversal has read is what there is.              *)
Locked ==
  /\ con = "start" => sem = "missing"
  /\ sync = "glock" /\ con \in {"insert", "release"} => sem = "owner"
  /\ \A s \in Subs : sync = "glock" /\ sub[s] \in {"map", "mapping"} => sem = s
  /\ \A s \in Subs : sync = "glock" /\ sub[s] = "mapping" => query[s][1] = Len(inserted)

(* A snapshot with none of the owner's frames is of one version, and what  *)
(* a traversal of it has read is that version.                             *)
Snapped ==
  \A s \in Subs \ mixed :
    /\ \A h \in Halves : view[s][h] # Live
    /\ view[s][1] = view[s][2]
    /\ sync = "ksnap" /\ sub[s] = "mapping" => query[s][1] = view[s][1]

(* What there is to see of a half only grows: a copy is behind the         *)
(* original, a snapshot behind the last commit, and what was read behind   *)
(* what there is.                                                          *)
Growing ==
  /\ \A h \in Halves : shm[h] <= Written(h)
  /\ \A s \in Subs, h \in Halves : view[s][h] # Live => view[s][h] <= settled
  /\ \A s \in Subs, h \in Halves : query[s][h] <= Seen(s, h)
  /\ \A s \in Subs, h \in Halves : sub[s] \in {"unborn", "open"} => query[s][h] = 0

SortInv == QueueInv /\ SortTypeOK /\ Halfway /\ Locked /\ Snapped /\ Growing

-----------------------------------------------------------------------------
(* The steps of the whole test are, for the keys, those of KeyQueue.       *)
LEMMA StepKind == SortNext => QueueNext \/ UNCHANGED vars
<1>1. Owner => QueueNext \/ UNCHANGED vars
  BY DEF Owner, Keys, Fork, OpenSemaphore, Acquire, InsertFirst, InsertSecond, Release,
         ReleaseLock, ReleaseCommit, SettleWait, CopyFirst, CopySecond, AwaitChild, QueueNext
<1>2. ASSUME NEW s \in Subs, Subscriber(s) \/ SubTimeUp(s) PROVE UNCHANGED vars
  BY <1>2 DEF Subscriber, SubTimeUp, Open, Check, LockSegment, MapCopy, Update, MapFirst,
              MapSecond
<1> QED BY <1>1, <1>2 DEF SortNext, Keys, QueueNext

(* What has been inserted, and what is about to be, has been generated.    *)
LEMMA Lengths ==
  QueueInv => /\ Len(inserted) \in Nat /\ Len(inserted) <= MaxKeys
              /\ other # <<>> => Len(inserted) + 1 <= MaxKeys
<1> SUFFICES ASSUME QueueInv
             PROVE  /\ Len(inserted) \in Nat /\ Len(inserted) <= MaxKeys
                    /\ other # <<>> => Len(inserted) + 1 <= MaxKeys
  OBVIOUS
<1> DEFINE all == [k \in 1 .. generated |-> k]
<1>1. /\ queue \in Seq(Nat) /\ other \in Seq(Nat) /\ inserted \in Seq(Nat)
      /\ generated \in Nat /\ generated <= MaxKeys
  <2>1. 1 .. generated \subseteq Nat
    BY DEF QueueInv, TypeOK
  <2> QED BY <2>1, SeqMonotonic DEF QueueInv, TypeOK
<1>2. Len(all) = generated
  BY <1>1
<1>3. Len(inserted \o other \o queue) = Len(inserted) + Len(other) + Len(queue)
  BY <1>1
<1>4. Len(inserted) + Len(other) + Len(queue) = generated
  BY <1>2, <1>3 DEF QueueInv, KeysInOrder
<1>5. other # <<>> => Len(other) > 0
  BY <1>1
<1> QED BY <1>1, <1>4, <1>5

(* What a step of the whole test does to the rest.                         *)
Rest == Halfway /\ Locked /\ Snapped /\ Growing

LEMMA KeySteps ==
  ASSUME SortInv, QueueInv', Keys(TimeUp) \/ Keys(Generator) \/ Keys(TakeKeys)
  PROVE  SortTypeOK' /\ Rest'
<1> USE DEF Keys, ownVars, subVars, queueVars, dataVars
<1>1. /\ UNCHANGED <<inserted, settled>> /\ UNCHANGED ownVars /\ UNCHANGED subVars
      /\ \/ UNCHANGED <<con, other>>
         \/ con \notin {"start", "insert"} /\ con' \notin {"start", "insert", "release"}
  BY DEF TimeUp, Generator, GenCheck, Fill, GenSignal, TakeKeys, ConCheck, Lock, TestAndSwap,
         TestEmpty, CondWait, WakeUp
<1>2. SortTypeOK'
  BY <1>1 DEF SortInv, QueueInv, SortTypeOK, Value
<1>3. Halfway' /\ Locked'
  BY <1>1 DEF SortInv, Halfway, Locked
<1>4. Snapped' /\ Growing'
  BY <1>1 DEF SortInv, Snapped, Growing, Written, Seen
<1> QED BY <1>2, <1>3, <1>4 DEF Rest

LEMMA OwnerSteps ==
  ASSUME SortInv, QueueInv',
         \/ \E s \in Subs : Fork(s)
         \/ OpenSemaphore \/ Acquire \/ InsertFirst \/ InsertSecond \/ Release \/ AwaitChild
  PROVE  SortTypeOK' /\ Rest'
<1> USE DEF ownVars, subVars, queueVars, dataVars
<1>1. /\ TypeOK' /\ SortTypeOK /\ Halfway /\ Locked /\ Snapped /\ Growing
      /\ Len(inserted) \in Nat /\ settled \in Nat /\ first \in Nat /\ settled <= Len(inserted)
      /\ Len(inserted) <= MaxKeys
      /\ other # <<>> => Len(inserted) + 1 <= MaxKeys
  BY Lengths DEF SortInv, QueueInv, TypeOK, SortTypeOK
<1>2. ASSUME NEW s \in Subs, Fork(s) PROVE SortTypeOK' /\ Rest'
  <2>1. SortTypeOK'
    BY <1>1, <1>2 DEF Fork, vars, SortTypeOK, Value
  <2>2. Halfway' /\ Locked'
    BY <1>1, <1>2 DEF Fork, vars, SortTypeOK, Halfway, Locked
  <2>3. Snapped' /\ Growing'
    BY <1>1, <1>2 DEF Fork, vars, SortTypeOK, Snapped, Growing, Written, Seen
  <2> QED BY <2>1, <2>2, <2>3 DEF Rest
<1>3. CASE OpenSemaphore
  <2>1. SortTypeOK'
    BY <1>1, <1>3 DEF OpenSemaphore, Go, SortTypeOK, Value
  <2>2. Halfway' /\ Locked'
    BY <1>1, <1>3, SubsAssumption DEF OpenSemaphore, Go, SortTypeOK, Halfway, Locked
  <2>3. Snapped' /\ Growing'
    BY <1>1, <1>3 DEF OpenSemaphore, Go, Snapped, Growing, Written, Seen
  <2> QED BY <2>1, <2>2, <2>3 DEF Rest
<1>4. CASE Acquire
  <2>1. SortTypeOK'
    BY <1>1, <1>4 DEF Acquire, Wait, Go, SortTypeOK, Value
  <2>2. Halfway' /\ Locked'
    BY <1>1, <1>4, SubsAssumption DEF Acquire, Wait, Go, SortTypeOK, Halfway, Locked
  <2>3. Snapped' /\ Growing'
    BY <1>1, <1>4 DEF Acquire, Go, Snapped, Growing, Written, Seen
  <2> QED BY <2>1, <2>2, <2>3 DEF Rest
<1>5. CASE InsertFirst
  <2>1. SortTypeOK'
    BY <1>1, <1>5 DEF InsertFirst, vars, SortTypeOK, Value
  <2>2. Halfway' /\ Locked'
    BY <1>1, <1>5 DEF InsertFirst, vars, SortTypeOK, Halfway, Locked
  <2>3. Snapped' /\ Growing'
    BY <1>1, <1>5 DEF InsertFirst, vars, Snapped, Growing, Written, Seen, SortTypeOK, Halves, Value, Live
  <2> QED BY <2>1, <2>2, <2>3 DEF Rest
<1>6. CASE InsertSecond
  <2>1. /\ con = "insert" /\ first = Len(inserted) + 1 /\ Len(inserted') = Len(inserted) + 1
        /\ UNCHANGED <<settled, con>> /\ UNCHANGED ownVars /\ UNCHANGED subVars
    BY <1>1, <1>6 DEF InsertSecond, Insert, SortInv, QueueInv, TypeOK
  <2>2. SortTypeOK'
    BY <1>1, <2>1 DEF SortTypeOK, Value
  <2>3. Halfway' /\ Locked'
    BY <1>1, <2>1, SubsAssumption DEF SortTypeOK, Halfway, Locked
  <2>4. Snapped' /\ Growing'
    BY <1>1, <2>1 DEF Snapped, Growing, Written, Seen, SortTypeOK, Halves, Value, Live
  <2> QED BY <2>2, <2>3, <2>4 DEF Rest
<1>7. CASE Release \/ AwaitChild
  <2>1. /\ UNCHANGED <<inserted, settled>> /\ UNCHANGED ownVars /\ UNCHANGED subVars
        /\ \/ con = "insert" /\ con' = "release" /\ other = <<>> /\ other' = <<>>
           \/ con = "exit" /\ con' = "done"
    BY <1>7 DEF Release, Inserted, AwaitChild, Go
  <2>2. SortTypeOK'
    BY <1>1, <2>1 DEF SortTypeOK, Value
  <2>3. Halfway' /\ Locked'
    BY <1>1, <2>1 DEF Halfway, Locked
  <2>4. Snapped' /\ Growing'
    BY <1>1, <2>1 DEF Snapped, Growing, Written, Seen
  <2> QED BY <2>2, <2>3, <2>4 DEF Rest
<1> QED BY <1>2, <1>3, <1>4, <1>5, <1>6, <1>7

(* The end of a batch, in each of the three ways.                          *)
LEMMA ReleaseSteps ==
  ASSUME SortInv, QueueInv',
         ReleaseLock \/ ReleaseCommit \/ SettleWait \/ CopyFirst \/ CopySecond
  PROVE  SortTypeOK' /\ Rest'
<1> USE DEF ownVars, subVars, queueVars, dataVars
<1>1. /\ TypeOK' /\ SortTypeOK /\ Halfway /\ Locked /\ Snapped /\ Growing
      /\ Len(inserted) \in Nat /\ settled \in Nat /\ first \in Nat /\ settled <= Len(inserted)
      /\ Len(inserted) <= MaxKeys
      /\ other # <<>> => Len(inserted) + 1 <= MaxKeys
  BY Lengths DEF SortInv, QueueInv, TypeOK, SortTypeOK
<1>2. CASE ReleaseLock
  <2>1. /\ sync = "glock" /\ sem = "owner" /\ sem' = "free" /\ con = "release" /\ con' = "check"
        /\ settled' = Len(inserted)
        /\ UNCHANGED <<other, inserted>> /\ UNCHANGED <<sync, first, shm>> /\ UNCHANGED subVars
    BY <1>2 DEF ReleaseLock, Settle, Post
  <2>2. SortTypeOK'
    BY <1>1, <2>1 DEF SortTypeOK, Value
  <2>3. Halfway' /\ Locked'
    BY <1>1, <2>1, SubsAssumption DEF SortTypeOK, Halfway, Locked
  <2>4. Snapped' /\ Growing'
    BY <1>1, <2>1 DEF Snapped, Growing, Written, Seen, SortTypeOK, Halves, Value, Live
  <2> QED BY <2>2, <2>3, <2>4 DEF Rest
<1>3. CASE ReleaseCommit
  <2>1. /\ sync = "ksnap" /\ con = "release" /\ con' = "check" /\ settled' = Len(inserted)
        /\ view' = [s \in Subs |-> [h \in Halves |-> IF view[s][h] = Live THEN settled' ELSE view[s][h]]]
        /\ UNCHANGED <<other, inserted>> /\ UNCHANGED ownVars /\ UNCHANGED <<mixed, sub, ended, query>>
    BY <1>3 DEF ReleaseCommit, Settle
  <2>2. first = Len(inserted)
    BY <1>1, <2>1 DEF SortTypeOK, Halfway
  <2>3. SortTypeOK'
    BY <1>1, <2>1 DEF SortTypeOK, Value
  <2>4. Halfway' /\ Locked'
    BY <1>1, <2>1 DEF Halfway, Locked
  <2>5. Snapped'
    BY <1>1, <2>1 DEF Snapped, Halves
  <2>6. Growing'
    BY <1>1, <2>1, <2>2 DEF Growing, Written, Seen, SortTypeOK, Halves, Value, Live
  <2> QED BY <2>3, <2>4, <2>5, <2>6 DEF Rest
<1>4. CASE SettleWait
  <2>1. /\ sync = "memcpy" /\ con = "release" /\ sem' = "owner"
        /\ UNCHANGED <<con, other, inserted, settled, sync, first, shm>> /\ UNCHANGED subVars
    BY <1>4 DEF SettleWait, Wait, vars
  <2>2. SortTypeOK'
    BY <1>1, <2>1 DEF SortTypeOK, Value
  <2>3. Halfway' /\ Locked'
    BY <1>1, <2>1 DEF Halfway, Locked
  <2>4. Snapped' /\ Growing'
    BY <1>1, <2>1 DEF Snapped, Growing, Written, Seen
  <2> QED BY <2>2, <2>3, <2>4 DEF Rest
<1>5. CASE CopyFirst
  <2>1. /\ sync = "memcpy" /\ shm' = [shm EXCEPT ![1] = first]
        /\ UNCHANGED <<con, other, inserted, settled, sync, sem, first>> /\ UNCHANGED subVars
    BY <1>5 DEF CopyFirst, vars
  <2>2. first \in Value
    BY <1>1 DEF SortTypeOK, Value, Halfway
  <2>3. SortTypeOK'
    BY <1>1, <2>1, <2>2 DEF SortTypeOK
  <2>4. Halfway' /\ Locked'
    BY <1>1, <2>1 DEF Halfway, Locked
  <2>5. Snapped' /\ Growing'
    BY <1>1, <2>1 DEF Snapped, Growing, Written, Seen, SortTypeOK, Halves, Value
  <2> QED BY <2>3, <2>4, <2>5 DEF Rest
<1>6. CASE CopySecond
  <2>1. /\ sync = "memcpy" /\ shm' = [shm EXCEPT ![2] = Len(inserted)] /\ sem' = "free"
        /\ con = "release" /\ con' = "check" /\ settled' = Len(inserted)
        /\ UNCHANGED <<other, inserted, sync, first>> /\ UNCHANGED subVars
    BY <1>6 DEF CopySecond, Settle, Post
  <2>2. SortTypeOK'
    <3>1. Len(inserted) \in Value
      BY <1>1 DEF Value
    <3> QED BY <1>1, <2>1, <3>1 DEF SortTypeOK
  <2>3. Halfway' /\ Locked'
    BY <1>1, <2>1 DEF Halfway, Locked
  <2>4. Snapped' /\ Growing'
    BY <1>1, <2>1 DEF Snapped, Growing, Written, Seen, SortTypeOK, Halves, Value, Live
  <2> QED BY <2>2, <2>3, <2>4 DEF Rest
<1> QED BY <1>2, <1>3, <1>4, <1>5, <1>6

LEMMA SubscriberSteps ==
  ASSUME SortInv, NEW s \in Subs, Subscriber(s) \/ SubTimeUp(s)
  PROVE  /\ SortTypeOK' /\ Rest'
         /\ \A t \in Subs, h \in Halves : query'[t][h] >= query[t][h]
<1> USE DEF ownVars, subVars
<1> DEFINE Later == \A t \in Subs, h \in Halves : query'[t][h] >= query[t][h]
<1>1. /\ TypeOK /\ SortTypeOK /\ Halfway /\ Locked /\ Snapped /\ Growing
      /\ Len(inserted) \in Nat /\ settled \in Nat /\ first \in Nat /\ settled <= Len(inserted)
      /\ Len(inserted) <= MaxKeys /\ first \in Value
  BY Lengths DEF SortInv, QueueInv, TypeOK, SortTypeOK, Halfway, Value
<1>2. TypeOK' /\ UNCHANGED <<con, other, inserted, settled>> /\ UNCHANGED <<sync, first, shm>>
  BY <1>1 DEF Subscriber, SubTimeUp, Open, Check, LockSegment, MapCopy, Update, MapFirst,
         MapSecond, vars, queueVars, dataVars, TypeOK
<1>3. Halfway'
  BY <1>1, <1>2 DEF Halfway
<1>4. CASE Open(s)
  <2>1. /\ sub[s] = "open" /\ UNCHANGED <<sem, mixed, ended, query>>
        /\ \/ UNCHANGED view /\ sub' \in {[sub EXCEPT ![s] = "crashed"], [sub EXCEPT ![s] = "check"]}
           \/ /\ view' = [view EXCEPT ![s] = [h \in Halves |-> settled]]
              /\ sub' = [sub EXCEPT ![s] = "check"]
    BY <1>4 DEF Open, Becomes
  <2>2. /\ sub' \in [Subs -> {"unborn", "open", "check", "update", "map", "mapping", "done", "crashed"}]
        /\ sub'[s] \in {"crashed", "check"} /\ \A t \in Subs \ {s} : sub'[t] = sub[t]
    BY <1>1, <2>1 DEF SortTypeOK
  <2>3. settled \in Value
    BY <1>1 DEF Value
  <2>4. /\ view' \in [Subs -> [Halves -> Value \cup {Live}]]
        /\ \A t \in Subs \ {s} : view'[t] = view[t]
        /\ view'[s] = view[s] \/ \A h \in Halves : view'[s][h] = settled
    BY <1>1, <2>1, <2>3 DEF SortTypeOK
  <2>5. SortTypeOK' /\ Later
    <3>1. Later
      BY <1>1, <2>1 DEF SortTypeOK, Value, Halves
    <3>2. SortTypeOK'
      BY <1>1, <1>2, <2>1, <2>2, <2>4 DEF SortTypeOK
    <3> QED BY <3>1, <3>2
  <2>6. Locked'
    BY <1>1, <1>2, <2>1 DEF SortTypeOK, Locked
  <2>7. Snapped'
    BY <1>1, <1>2, <2>1, <2>2, <2>3, <2>4 DEF Snapped, Halves, Value, Live
  <2>8. Growing'
    <3>1. \A t \in Subs, h \in Halves : view'[t][h] # Live => view'[t][h] <= settled
      BY <1>1, <2>4 DEF Growing
    <3>2. ASSUME NEW t \in Subs, NEW h \in Halves PROVE query[t][h] <= Seen(t, h)'
      <4>1. CASE t = s
        <5>1. query[t][h] = 0
          BY <1>1, <2>1, <4>1 DEF Growing
        <5>2. Seen(t, h)' \in Nat
          BY <1>1, <1>2, <2>4 DEF Seen, Written, SortTypeOK, Value, Live
        <5> QED BY <5>1, <5>2
      <4>2. CASE t # s
        BY <1>1, <1>2, <2>4, <4>2 DEF Growing, Seen, Written
      <4> QED BY <4>1, <4>2
    <3> QED BY <1>1, <1>2, <2>1, <2>2, <3>1, <3>2 DEF Growing, Written
  <2> QED BY <1>3, <2>5, <2>6, <2>7, <2>8 DEF Rest
<1>5. CASE SubTimeUp(s) \/ Check(s) \/ MapCopy(s)
  <2>1. /\ UNCHANGED <<sem, view, mixed, query>>
        /\ \/ UNCHANGED sub /\ ended' = ended \cup {s}
           \/ /\ sub[s] \in {"check", "update"} /\ sub' \in {[sub EXCEPT ![s] = "done"], [sub EXCEPT ![s] = "update"]}
              /\ UNCHANGED ended
           \/ sync = "memcpy" /\ sub[s] = "update" /\ sub' = [sub EXCEPT ![s] = "map"] /\ UNCHANGED ended
    BY <1>5 DEF SubTimeUp, Check, MapCopy, Becomes
  <2>2. SortTypeOK' /\ Later
    <3>1. Later
      BY <1>1, <2>1 DEF SortTypeOK, Value, Halves
    <3>2. SortTypeOK'
      BY <1>1, <1>2, <2>1 DEF SortTypeOK, Value, Halves
    <3> QED BY <3>1, <3>2
  <2>3. Locked'
    BY <1>1, <1>2, <2>1 DEF SortTypeOK, Locked
  <2>4. Snapped' /\ Growing'
    BY <1>1, <1>2, <2>1 DEF Snapped, Growing, Written, Seen, SortTypeOK
  <2> QED BY <1>3, <2>2, <2>3, <2>4 DEF Rest
<1>6. CASE LockSegment(s)
  <2>1. /\ sync = "glock" /\ sub[s] = "update" /\ sem = "free" /\ sem' = s
        /\ sub' = [sub EXCEPT ![s] = "map"] /\ UNCHANGED <<view, mixed, ended, query>>
    BY <1>6 DEF LockSegment, Wait, Becomes
  <2>2. SortTypeOK' /\ Later
    BY <1>1, <1>2, <2>1 DEF SortTypeOK, Value, Halves
  <2>3. Locked'
    BY <1>1, <1>2, <2>1, SubsAssumption DEF SortTypeOK, Locked
  <2>4. Snapped' /\ Growing'
    BY <1>1, <1>2, <2>1 DEF Snapped, Growing, Written, Seen, SortTypeOK
  <2> QED BY <1>3, <2>2, <2>3, <2>4 DEF Rest
<1>7. CASE Update(s)
  <2>1. /\ sync = "ksnap" /\ sub[s] = "update"
        /\ view' = [view EXCEPT ![s] = [h \in Halves |->
                IF settled \in {view[s][h], Written(h)} THEN settled ELSE Live]]
        /\ mixed' = IF \E h \in Halves : view'[s][h] = Live THEN mixed \cup {s} ELSE mixed \ {s}
        /\ sub' = [sub EXCEPT ![s] = "map"] /\ UNCHANGED <<sem, ended, query>>
    BY <1>7 DEF Update, Becomes
  <2>2. SortTypeOK' /\ Later
    BY <1>1, <1>2, <2>1 DEF SortTypeOK, Value, Halves
  <2>3. Locked'
    BY <1>1, <1>2, <2>1 DEF SortTypeOK, Locked
  <2>4. Snapped'
    BY <1>1, <1>2, <2>1 DEF Snapped, SortTypeOK, Halves, Value, Live
  <2>5. Growing'
    BY <1>1, <1>2, <2>1 DEF Growing, Written, Seen, SortTypeOK, Halves, Value, Live
  <2> QED BY <1>3, <2>2, <2>3, <2>4, <2>5 DEF Rest
<1>8. Seen(s, 1) \in Value /\ Seen(s, 2) \in Value
  BY <1>1 DEF SortTypeOK, Seen, Written, Halves, Value
<1>9. CASE MapFirst(s)
  <2>1. /\ sub[s] = "map" /\ sub' = [sub EXCEPT ![s] = "mapping"]
        /\ query' = [query EXCEPT ![s][1] = Seen(s, 1)]
        /\ UNCHANGED <<sem, view, mixed, ended>>
    BY <1>9 DEF MapFirst, Becomes
  <2>2. SortTypeOK'
    BY <1>1, <1>2, <1>8, <2>1 DEF SortTypeOK, Halves
  <2>3. Later
    BY <1>1, <2>1 DEF SortTypeOK, Growing, Halves, Value
  <2>4. Locked'
    <3>1. sync = "glock" => first = Len(inserted)
      BY <1>1, <2>1, SubsAssumption DEF SortTypeOK, Halfway, Locked
    <3>2. Seen(s, 1) = first \/ sync # "glock"
      BY DEF Seen, Written
    <3> QED BY <1>1, <1>2, <2>1, <3>1, <3>2, SubsAssumption DEF SortTypeOK, Locked, Halves
  <2>5. Snapped'
    BY <1>1, <1>2, <2>1 DEF Snapped, Seen, SortTypeOK, Halves
  <2>6. Growing'
    BY <1>1, <1>2, <1>8, <2>1 DEF Growing, Written, Seen, SortTypeOK, Halves, Value, Live
  <2> QED BY <1>3, <2>2, <2>3, <2>4, <2>5, <2>6 DEF Rest
<1>10. CASE MapSecond(s)
  <2>1. /\ sub[s] = "mapping" /\ sub' = [sub EXCEPT ![s] = "check"]
        /\ query' = [query EXCEPT ![s][2] = Seen(s, 2)]
        /\ IF sync = "glock" THEN sem = s /\ sem' = "free" ELSE UNCHANGED sem
        /\ UNCHANGED <<view, mixed, ended>>
    BY <1>10 DEF MapSecond, Post, Becomes
  <2>2. SortTypeOK'
    BY <1>1, <1>2, <1>8, <2>1 DEF SortTypeOK, Halves
  <2>3. Later
    BY <1>1, <2>1 DEF SortTypeOK, Growing, Halves, Value
  <2>4. Locked'
    BY <1>1, <1>2, <2>1, SubsAssumption DEF SortTypeOK, Locked, Halves
  <2>5. Snapped'
    BY <1>1, <1>2, <2>1 DEF Snapped, SortTypeOK, Halves
  <2>6. Growing'
    BY <1>1, <1>2, <1>8, <2>1 DEF Growing, Written, Seen, SortTypeOK, Halves, Value, Live
  <2> QED BY <1>3, <2>2, <2>3, <2>4, <2>5, <2>6 DEF Rest
<1> QED BY <1>4, <1>5, <1>6, <1>7, <1>9, <1>10 DEF Subscriber

-----------------------------------------------------------------------------
LEMMA SortInvInit == SortInit => SortInv
<1> SUFFICES ASSUME SortInit PROVE SortInv
  OBVIOUS
<1>1. /\ inserted = <<>> /\ other = <<>> /\ queue = <<>> /\ generated = 0 /\ settled = 0
      /\ first = 0 /\ sem = "missing" /\ con = "start" /\ gen = "check"
      /\ ownerEnded = FALSE /\ locked = FALSE /\ woken = FALSE
  BY DEF SortInit, Init
<1>2. QueueInv
  <2>1. <<>> \o <<>> \o <<>> = [k \in 1 .. 0 |-> k]
    OBVIOUS
  <2>2. KeysInOrder
    BY <1>1, <2>1 DEF KeysInOrder
  <2>3. /\ queue \in Seq(1 .. generated) /\ other \in Seq(1 .. generated)
        /\ inserted \in Seq(1 .. generated) /\ Len(inserted) = 0
    BY <1>1
  <2>4. settled \in 0 .. Len(inserted)
    BY <1>1, <2>3
  <2>5. ownerEnded \in BOOLEAN /\ locked \in BOOLEAN /\ woken \in BOOLEAN
    BY <1>1
  <2>6. TypeOK
    BY <1>1, <2>3, <2>4, <2>5 DEF TypeOK
  <2> QED BY <1>1, <2>2, <2>6 DEF QueueInv
<1>3. 0 \in Value
  BY DEF Value
<1>4. SortTypeOK
  BY <1>1, <1>2, <1>3 DEF SortInit, SortTypeOK, QueueInv
<1>5. Halfway /\ Locked
  BY <1>1 DEF SortInit, Halfway, Locked
<1>6. Snapped
  BY DEF SortInit, Snapped, Halves, Live
<1>7. Growing
  BY <1>1 DEF SortInit, Growing, Written, Seen, Halves, Live
<1> QED BY <1>2, <1>4, <1>5, <1>6, <1>7 DEF SortInv

(* A step keeps the invariant, and no traversal reads less than the last.  *)
LEMMA SortStep ==
  SortInv /\ [SortNext]_allVars
    => SortInv' /\ \A s \in Subs, h \in Halves : query'[s][h] >= query[s][h]
<1> SUFFICES ASSUME SortInv, [SortNext]_allVars
             PROVE  SortInv' /\ \A s \in Subs, h \in Halves : query'[s][h] >= query[s][h]
  OBVIOUS
<1>1. QueueInv'
  BY StepKind, QueueStep DEF SortInv, allVars
<1>2. ASSUME UNCHANGED query
      PROVE  \A s \in Subs, h \in Halves : query'[s][h] >= query[s][h]
  BY <1>2 DEF SortInv, SortTypeOK, Value
<1>3. CASE Keys(TimeUp) \/ Keys(Generator) \/ Keys(TakeKeys)
  BY <1>1, <1>2, <1>3, KeySteps DEF SortInv, Rest, Keys, subVars
<1>4. CASE \/ \E s \in Subs : Fork(s)
           \/ OpenSemaphore \/ Acquire \/ InsertFirst \/ InsertSecond \/ Release \/ AwaitChild
  <2>1. UNCHANGED query
    BY <1>4 DEF Fork, OpenSemaphore, Acquire, InsertFirst, InsertSecond, Release, AwaitChild, subVars
  <2> QED BY <1>1, <1>2, <1>4, <2>1, OwnerSteps DEF SortInv, Rest
<1>5. CASE ReleaseLock \/ ReleaseCommit \/ SettleWait \/ CopyFirst \/ CopySecond
  <2>1. UNCHANGED query
    BY <1>5 DEF ReleaseLock, ReleaseCommit, SettleWait, CopyFirst, CopySecond, subVars
  <2> QED BY <1>1, <1>2, <1>5, <2>1, ReleaseSteps DEF SortInv, Rest
<1>6. ASSUME NEW s \in Subs, Subscriber(s) \/ SubTimeUp(s)
      PROVE  SortInv' /\ \A t \in Subs, h \in Halves : query'[t][h] >= query[t][h]
  BY <1>1, <1>6, SubscriberSteps DEF SortInv, Rest
<1>7. CASE UNCHANGED allVars
  BY <1>1, <1>2, <1>7
  DEF allVars, ownVars, subVars, vars, queueVars, dataVars, SortInv, QueueInv, SortTypeOK, Halfway,
      Locked, Snapped, Growing, Written, Seen
<1> QED BY <1>3, <1>4, <1>5, <1>6, <1>7 DEF SortNext, Owner

(* The inductive invariant of the sorting test.                            *)
THEOREM SortInvariance == SortSpec => []SortInv
BY SortInvInit, SortStep, PTL DEF SortSpec

(* Type correctness of SortTest, and with it of KeyQueue.                  *)
THEOREM SortTypeCorrect == SortSpec => []SortTypeOK
<1>1. SortInv => SortTypeOK
  BY DEF SortInv
<1> QED BY <1>1, SortInvariance, PTL

(* No key is lost, doubled or overtaken between __generate_keys and        *)
(* sort_tester_insert, for every size of the batches and number of keys.   *)
THEOREM AlwaysKeysInOrder == SortSpec => []KeysInOrder
<1>1. SortInv => KeysInOrder
  BY DEF SortInv, QueueInv
<1> QED BY <1>1, SortInvariance, PTL

(* A traversal under the global lock, or of a snapshot with no frame of    *)
(* the owner's, sees the segment at one time, however many subscribers     *)
(* there are.                                                              *)
THEOREM AlwaysQueryAtOnce == SortSpec => []QueryAtOnce
<1>1. SortInv => QueryAtOnce
  <2> SUFFICES ASSUME SortInv, NEW s \in Subs, sub[s] = "mapping",
                      \/ sync = "glock"
                      \/ sync = "ksnap" /\ s \notin mixed
               PROVE  Seen(s, 2) = query[s][1]
    BY DEF QueryAtOnce
  <2>1. CASE sync = "glock"
    BY <2>1 DEF SortInv, Locked, Seen, Written
  <2>2. CASE sync = "ksnap" /\ s \notin mixed
    BY <2>2 DEF SortInv, Snapped, Seen, Halves
  <2> QED BY <2>1, <2>2
<1> QED BY <1>1, SortInvariance, PTL

(* However the segment is shared, no subscriber sees less of it than in    *)
(* its last traversal.                                                     *)
THEOREM SubscribersNeverOlder == SortSpec => NeverOlder
<1>1. SortInv /\ [SortNext]_allVars
        => [\A s \in Subs, h \in Halves : query'[s][h] >= query[s][h]]_query
  BY SortStep
<1> QED BY <1>1, SortInvariance, PTL DEF SortSpec, NeverOlder
==============================================================================
