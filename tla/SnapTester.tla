------------------------------ MODULE SnapTester ------------------------------
(***************************************************************************)
(* The random test of the snapshot system call                             *)
(* (test_suite/snapshot_system_call: tester.c, subscriber.c, expr.sh).     *)
(* The owner writes to random places of a segment and now and then commits *)
(* and asks a subscriber, over a message queue, to compare one of them.    *)
(* The segment is a SnapStore: subscribers look at it when they are asked, *)
(* which is not while the owner commits.                                   *)
(*                                                                         *)
(* expr.sh removes the semaphore of the last run; the message queues and   *)
(* the file of the segment stay.  A run may be interrupted.                *)
(***************************************************************************)
EXTENDS Integers, Sequences

CONSTANTS Cells, Values,  \* places that are written, and what is written
          NumWrites,      \* num_of_writes
          Frequency,      \* frequency_of_updates
          SwitchAt,       \* 6: the number of writes after which process 1 is asked
          MaxRuns         \* bound: runs of the test

(* num_of_subscribers is 2: the owner asks processes 0 and 1.              *)
Children == {0, 1}
Nobody   == -1

ASSUME TesterAssumption ==
  /\ NumWrites \in Nat \ {0, 1} /\ Frequency \in Nat \ {0}
  /\ SwitchAt \in Nat /\ MaxRuns \in Nat
  /\ 0 \in Values /\ Nobody \notin Cells

VARIABLES
  image, draft,    \* the segment
  runs,            \* runs begun
  owner,           \* where the owner is
  i,               \* its loop variable: of create_processes, then of the writes
  first, written, \* the cell of the first write, and those of all of them
  message,         \* the message that it is about to send
  child,           \* where each subscriber is
  asked,           \* the message that each is working on
  created,         \* which of the queues /mq_0 and /mq_1 exist
  queue,           \* what is in them
  replies,         \* messages in /mq_main_snap_tester
  errors,          \* the subscribers whose error_count is not 0
  stale            \* were there messages in the queues when this run began?

store   == <<image, draft>>
locals  == <<i, first, written, message>>
mqs     == <<created, queue, replies>>
subs    == <<child, asked, errors>>
vars    == <<store, runs, owner, locals, subs, mqs, stale>>

Store == INSTANCE SnapStore WITH Pages <- Cells

Request == [number : Values, cell : Cells]
Exit    == [number |-> 0, cell |-> Nobody]  \* exit_flag
Message == Request \cup {Exit}

TypeOK ==
  /\ Store!TypeOK
  /\ runs \in 0 .. MaxRuns
  /\ owner \in {"none", "fork", "open", "write", "commit", "send", "receive", "done"}
  /\ i \in 0 .. NumWrites
  /\ written \subseteq Cells /\ first \in Cells \cup {Nobody}
  /\ message \in Message
  /\ child \in [Children -> {"none", "new", "loop", "check", "reply", "done", "failed"}]
  /\ asked \in [Children -> Message]
  /\ created \subseteq Children /\ queue \in [Children -> Seq(Message)]
  /\ replies \in Nat
  /\ errors \subseteq Children
  /\ stale \in BOOLEAN

Init ==
  /\ image = [c \in Cells |-> 0] /\ draft = image
  /\ runs = 0 /\ owner = "none" /\ i = 0
  /\ first = Nobody /\ written = {} /\ message = Exit
  /\ child = [c \in Children |-> "none"] /\ asked = [c \in Children |-> Exit]
  /\ created = {} /\ queue = [c \in Children |-> <<>>] /\ replies = 0
  /\ errors = {} /\ stale = FALSE

-----------------------------------------------------------------------------
Ended(c) == child[c] \in {"none", "done", "failed"}

(* The test is begun; randomTest opens the main queue, the semaphore and   *)
(* the segment.                                                            *)
Start ==
  /\ owner \in {"none", "done"} /\ \A c \in Children : Ended(c)
  /\ runs < MaxRuns
  /\ runs' = runs + 1
  /\ owner' = "fork" /\ i' = 0
  /\ first' = Nobody /\ written' = {} /\ message' = Exit
  /\ child' = [c \in Children |-> "none"] /\ errors' = {}
  /\ stale' = (replies > 0 \/ \E c \in Children : queue[c] # <<>>)
  /\ UNCHANGED <<store, asked, mqs>>

(* All processes of the run are killed.  What was not committed is lost.   *)
Interrupt ==
  /\ owner \notin {"none", "done"} \/ \E c \in Children : ~Ended(c)
  /\ owner' = "none" /\ child' = [c \in Children |-> "none"]
  /\ i' = 0 /\ first' = Nobody /\ written' = {} /\ message' = Exit
  /\ asked' = [c \in Children |-> Exit]
  /\ draft' = image
  /\ UNCHANGED <<image, runs, mqs, errors, stale>>

(* create_processes: fork, then open_mqueue, which creates the queue.      *)
Fork ==
  /\ owner = "fork"
  /\ child' = [child EXCEPT ![i] = "new"]
  /\ owner' = "open"
  /\ UNCHANGED <<store, runs, locals, asked, mqs, errors, stale>>

OpenQueue ==
  /\ owner = "open"
  /\ created' = created \cup {i}
  /\ IF i + 1 \in Children THEN owner' = "fork" /\ i' = i + 1
     ELSE owner' = "write" /\ i' = 0
  /\ UNCHANGED <<store, runs, first, written, message, subs, queue, replies, stale>>

(* The condition of the loop of randomTest.                                *)
More == i < NumWrites

(* Nothing is held over a step that another process could see: the         *)
(* semaphore is free whenever its owner is between two steps.  So a write  *)
(* is one step, from sem_wait to sem_post; every Frequency-th one also     *)
(* picks the place that will be compared, and its value.                   *)
Write ==
  /\ owner = "write" /\ More
  /\ \E c \in Cells, v \in Values :
       /\ Store!Write(c, v)
       /\ written' = written \cup {c}
       /\ first' = IF i = 0 THEN c ELSE first
       /\ IF i % Frequency = 0
          THEN \E t \in (IF i \in {0, NumWrites - 1} THEN {first'} ELSE written) :
                 /\ message' = [number |-> draft'[t], cell |-> t]
                 /\ owner' = "commit" /\ UNCHANGED i
          ELSE i' = i + 1 /\ UNCHANGED <<owner, message>>
  /\ UNCHANGED <<runs, subs, mqs, stale>>

(* Mutant of Commit: the commit is forgotten.                              *)
CommitNothing ==
  /\ owner = "commit"
  /\ owner' = "send"
  /\ UNCHANGED <<store, runs, locals, subs, mqs, stale>>

Commit ==
  /\ owner = "commit"
  /\ Store!Publish
  /\ owner' = "send"
  /\ UNCHANGED <<runs, locals, subs, mqs, stale>>

Process == IF i < SwitchAt THEN 0 ELSE 1

(* Mutant of Send: the last request is not waited for.                     *)
SendAndGo ==
  /\ owner = "send"
  /\ queue' = [queue EXCEPT ![Process] = Append(@, message)]
  /\ IF i = NumWrites - 1 THEN owner' = "write" /\ i' = i + 1 ELSE owner' = "receive" /\ i' = i
  /\ UNCHANGED <<store, runs, first, written, message, subs, created, replies, stale>>

Send ==
  /\ owner = "send"
  /\ queue' = [queue EXCEPT ![Process] = Append(@, message)]
  /\ owner' = "receive"
  /\ UNCHANGED <<store, runs, locals, subs, created, replies, stale>>

Receive ==
  /\ owner = "receive" /\ replies > 0
  /\ replies' = replies - 1
  /\ owner' = "write" /\ i' = i + 1
  /\ UNCHANGED <<store, runs, first, written, message, subs, created, queue, stale>>

(* Mutant of KillChildren: only process 0 is told to stop.                 *)
KillFirst ==
  /\ owner = "write" /\ ~More
  /\ queue' = [queue EXCEPT ![0] = Append(@, Exit)]
  /\ owner' = "done"
  /\ UNCHANGED <<store, runs, locals, subs, created, replies, stale>>

KillChildren ==
  /\ owner = "write" /\ ~More
  /\ queue' = [c \in Children |-> Append(queue[c], Exit)]
  /\ owner' = "done"
  /\ UNCHANGED <<store, runs, locals, subs, created, replies, stale>>

-----------------------------------------------------------------------------
Goes(c, pc) == child' = [child EXCEPT ![c] = pc]

(* main of subscriber.c: without its queue, which the owner creates after  *)
(* the fork, it exits.                                                     *)
Open(c) ==
  /\ child[c] = "new"
  /\ Goes(c, IF c \notin created THEN "failed" ELSE "loop")
  /\ UNCHANGED <<store, runs, owner, locals, asked, mqs, errors, stale>>

ReceiveMessage(c) ==
  /\ child[c] = "loop" /\ queue[c] # <<>>
  /\ queue' = [queue EXCEPT ![c] = Tail(@)]
  /\ IF Head(queue[c]) = Exit THEN Goes(c, "done") /\ UNCHANGED asked
     ELSE Goes(c, "check") /\ asked' = [asked EXCEPT ![c] = Head(queue[c])]
  /\ UNCHANGED <<store, runs, owner, locals, created, replies, errors, stale>>

(* sem_wait, a snapshot, the comparison, sem_post.  A snapshot taken while *)
(* the owner has something that is not committed may show either (KSnap).  *)
Compare(c) ==
  /\ child[c] = "check"
  /\ \E v \in {image[asked[c].cell], draft[asked[c].cell]} :
       errors' = IF v # asked[c].number THEN errors \cup {c} ELSE errors
  /\ Goes(c, "reply")
  /\ UNCHANGED <<store, runs, owner, locals, asked, mqs, stale>>

Reply(c) ==
  /\ child[c] = "reply"
  /\ replies' = replies + 1
  /\ Goes(c, "loop") /\ asked' = [asked EXCEPT ![c] = Exit]
  /\ UNCHANGED <<store, runs, owner, locals, created, queue, errors, stale>>

-----------------------------------------------------------------------------
Owner == \/ Fork \/ OpenQueue \/ Write \/ Commit \/ Send \/ Receive \/ KillChildren
Child(c) == Open(c) \/ ReceiveMessage(c) \/ Compare(c) \/ Reply(c)

Next == Start \/ Interrupt \/ Owner \/ \E c \in Children : Child(c)

(* The processes of a run run.  Nobody need begin one, or interrupt it.    *)
Spec == Init /\ [][Next]_vars /\ WF_vars(Owner) /\ \A c \in Children : WF_vars(Child(c))

-----------------------------------------------------------------------------
(* The test says FAILED only of a faulty snapshot: whichever process is    *)
(* asked, and however many commits it has not looked at, it finds what the *)
(* owner wrote, unless messages of an interrupted run are in the queues.   *)
(* (And what is in the queues is messages: TypeOK.)                        *)
Agree == TypeOK /\ (~stale => errors = {})

(* A run that ends leaves no message behind, unless a subscriber had given *)
(* up before, or it found some.                                            *)
LeftClean ==
  /\ owner = "done" /\ ~stale
  /\ \A c \in Children : child[c] = "done"
  => replies = 0 /\ \A c \in Children : queue[c] = <<>>

(* The test comes to its end: the owner waits for no reply, and no         *)
(* subscriber for a message, that will not come.  Not so when a subscriber *)
(* gave up because it was faster than the owner (Open), or when an old     *)
(* message confuses them.                                                  *)
TestEnds ==
  owner = "write" ~> \/ owner \in {"done", "none"} /\ \A c \in Children : Ended(c)
                     \/ stale \/ \E c \in Children : child[c] = "failed"
===============================================================================
