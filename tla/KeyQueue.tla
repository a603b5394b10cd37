------------------------------- MODULE KeyQueue -------------------------------
(***************************************************************************)
(* The two threads of the sorting test (sorting_tests/tester.c).  One      *)
(* generates keys into the queue *head; the other swaps the pointers head  *)
(* and otherhead, both under a mutex with a condition variable, then       *)
(* inserts what it got into the data structure in the segment and releases *)
(* it to the readers.  Both stop when the time of the test is up.  How the *)
(* consumer starts, and what it shares with the readers, is in SortTest.   *)
(*                                                                         *)
(* Keys are numbered in the order in which they are generated.             *)
(***************************************************************************)
EXTENDS Integers, Sequences

CONSTANTS First,    \* keys that the first batch has (max_key)
          Batch,    \* keys of every other batch
          MaxKeys   \* bound: keys generated

ASSUME BatchAssumption == First \in Nat \ {0} /\ Batch \in Nat \ {0} /\ MaxKeys \in Nat

VARIABLES
  queue,      \* *head
  other,      \* *otherhead
  generated,  \* keys generated
  inserted,   \* keys inserted into the data structure, in order
  settled,    \* how many of them the last commit published
  ownerEnded, \* __owner_ended(): is the time up?
  locked,     \* does the consumer hold key_queue_lock?
  woken,      \* has the consumer been signalled since it began to wait?
  gen,        \* where the generator is
  con         \* where the consumer is

queueVars == <<queue, other, generated>>
dataVars  == <<inserted, settled>>
vars      == <<queueVars, dataVars, ownerEnded, locked, woken, gen, con>>

TypeOK ==
  /\ queue \in Seq(1 .. generated) /\ other \in Seq(1 .. generated)
  /\ inserted \in Seq(1 .. generated) /\ settled \in 0 .. Len(inserted)
  /\ generated \in Nat
  /\ ownerEnded \in BOOLEAN /\ locked \in BOOLEAN /\ woken \in BOOLEAN
  /\ gen \in {"check", "fill", "signal", "last", "done"}
  /\ con \in {"start", "check", "lock", "test", "wait", "blocked", "acquire", "insert",
              "release", "exit", "done"}
  /\ locked <=> con \in {"test", "wait"}
  /\ other # <<>> => con \in {"acquire", "insert"}

Init ==
  /\ queue = <<>> /\ other = <<>> /\ generated = 0
  /\ inserted = <<>> /\ settled = 0
  /\ ownerEnded = FALSE /\ locked = FALSE /\ woken = FALSE
  /\ gen = "check" /\ con = "start"

(* Time passes.                                                            *)
TimeUp ==
  /\ ~ownerEnded
  /\ ownerEnded' = TRUE
  /\ UNCHANGED <<queueVars, dataVars, locked, woken, gen, con>>

-----------------------------------------------------------------------------
(* __generate_keys                                                         *)
GenCheck ==
  /\ gen = "check"
  /\ gen' = IF ownerEnded THEN "last" ELSE "fill"
  /\ UNCHANGED <<queueVars, dataVars, ownerEnded, locked, woken, con>>

(* The size of the next batch; 0 when the bound is reached, beyond which   *)
(* the generator only goes round and signals.                              *)
BatchSize ==
  LET n == IF generated = 0 THEN First ELSE Batch
  IN  IF generated + n <= MaxKeys THEN n ELSE 0

(* Under the mutex: a batch at the tail of the queue.                      *)
Fill ==
  /\ gen = "fill"
  /\ ~locked
  /\ LET n == BatchSize
     IN  /\ queue' = queue \o [k \in 1 .. n |-> generated + k]
         /\ generated' = generated + n
  /\ gen' = "signal"
  /\ UNCHANGED <<other, dataVars, ownerEnded, locked, woken, con>>

(* pthread_cond_signal: remembered only by a thread that is waiting.       *)
CondSignal == woken' = (woken \/ con = "blocked")

(* Mutant of GenSignal: nobody is woken.                                   *)
GenForgets ==
  /\ \/ gen = "signal" /\ gen' = "check"
     \/ gen = "last" /\ gen' = "done"
  /\ UNCHANGED <<queueVars, dataVars, ownerEnded, locked, woken, con>>

(* After the mutex is released; then the generator sleeps a while.         *)
GenSignal ==
  /\ \/ gen = "signal" /\ gen' = "check"
     \/ gen = "last" /\ gen' = "done"
  /\ CondSignal
  /\ UNCHANGED <<queueVars, dataVars, ownerEnded, locked, con>>

-----------------------------------------------------------------------------
(* __consume_keys_and_update                                               *)
ConCheck ==
  /\ con = "check"
  /\ con' = IF ownerEnded THEN "exit" ELSE "lock"
  /\ UNCHANGED <<queueVars, dataVars, ownerEnded, locked, woken, gen>>

Lock ==
  /\ con = "lock"
  /\ con' = "test"
  /\ locked' = TRUE
  /\ UNCHANGED <<queueVars, dataVars, ownerEnded, woken, gen>>

(* Mutant of Swap: both pointers name the queue of the generator.          *)
SwapAliased == other' = queue /\ UNCHANGED queue

Swap == other' = queue /\ queue' = other

(* The condition of the loop does not hold: swap the queues and unlock.    *)
TestAndSwap ==
  /\ con = "test"
  /\ queue # <<>> \/ ownerEnded
  /\ con' = "acquire"
  /\ Swap
  /\ locked' = FALSE
  /\ UNCHANGED <<generated, dataVars, ownerEnded, woken, gen>>

(* Mutant of CondWait: the mutex is kept.                                  *)
WaitLocked ==
  /\ con = "wait"
  /\ con' = "blocked"
  /\ woken' = FALSE
  /\ UNCHANGED <<queueVars, dataVars, ownerEnded, locked, gen>>

(* It holds: nothing in the queue, and the time was not up.                *)
TestEmpty ==
  /\ con = "test"
  /\ queue = <<>> /\ ~ownerEnded
  /\ con' = "wait"
  /\ UNCHANGED <<queueVars, dataVars, ownerEnded, locked, woken, gen>>

(* pthread_cond_wait: unlocks and blocks, and locks again when it wakes.   *)
CondWait ==
  /\ con = "wait"
  /\ con' = "blocked"
  /\ locked' = FALSE
  /\ woken' = FALSE
  /\ UNCHANGED <<queueVars, dataVars, ownerEnded, gen>>

WakeUp ==
  /\ con = "blocked"
  /\ woken
  /\ con' = "test"
  /\ locked' = TRUE /\ woken' = FALSE
  /\ UNCHANGED <<queueVars, dataVars, ownerEnded, gen>>

(* sort_tester_insert of the first key of *otherhead, and TAILQ_REMOVE.    *)
Insert ==
  /\ con = "insert"
  /\ other # <<>>
  /\ inserted' = Append(inserted, Head(other))
  /\ other' = Tail(other)
  /\ UNCHANGED <<queue, generated, settled, ownerEnded, locked, woken, gen, con>>

(* A step of the consumer that leaves the keys alone.                      *)
Go(from, to) ==
  /\ con = from /\ con' = to
  /\ UNCHANGED <<queueVars, dataVars, ownerEnded, locked, woken, gen>>

Inserted == other = <<>> /\ Go("insert", "release")

(* release: what was inserted is published.                                *)
Settle ==
  /\ con = "release"
  /\ settled' = Len(inserted)
  /\ con' = "check"
  /\ UNCHANGED <<queueVars, inserted, ownerEnded, locked, woken, gen>>

-----------------------------------------------------------------------------
Generator == GenCheck \/ Fill \/ GenSignal

(* The loop of the consumer as far as the queues go.                       *)
TakeKeys == ConCheck \/ Lock \/ TestAndSwap \/ TestEmpty \/ CondWait \/ WakeUp

-----------------------------------------------------------------------------
(* No key is lost, doubled or overtaken by the swap of the queues, which   *)
(* one thread uses with and the other without the mutex: what is inserted, *)
(* in hand and in the queue is what was generated, in order.               *)
KeysInOrder == inserted \o other \o queue = [k \in 1 .. generated |-> k]

(* While the test runs, every key that is generated is published.          *)
KeysPublished ==
  \A k \in 1 .. MaxKeys : generated >= k ~> (settled >= k \/ ownerEnded)
===============================================================================
