------------------------------- MODULE SortTest -------------------------------
(***************************************************************************)
(* The sorting test as a whole (sorting_tests/tester.c, subscribers.c,     *)
(* lib/memcpy_shm.c, ksnap.c and ksnap_test_sub.c): the owner's two        *)
(* threads (KeyQueue), and subscribers that the owner forks and that       *)
(* traverse the data structure again and again.  Three ways to share the   *)
(* segment are compared:                                                   *)
(*   glock   one mapping, a semaphore around every batch and traversal;    *)
(*   memcpy  the owner copies its segment to a second one; a semaphore is  *)
(*           held for the copy, and by subscribers while they map it;      *)
(*   ksnap   the owner commits, subscribers take snapshots.                *)
(*                                                                         *)
(* The segment has two halves.  An insertion writes one, then the other; a *)
(* traversal reads them in that order.  What is in a half is the number of *)
(* insertions that have been through it.                                   *)
(***************************************************************************)
EXTENDS KeyQueue

CONSTANT Subs  \* the subscribers: sub_number of them

ASSUME SubsAssumption == Subs \cap {"missing", "free", "owner"} = {}

VARIABLES
  sync,   \* options.sync_type
  sem,    \* the semaphore: missing, free, or who has it
  first,  \* the first half of the owner's segment; the second is Len(inserted)
  shm,    \* memcpy: the halves of the second segment
  view,   \* ksnap: the version that a subscriber's snapshot has of each half,
          \* or Live, when it maps the frame that the owner writes to
  mixed,  \* ksnap: the subscribers in whose last snapshot there was such a frame
  sub,    \* where each subscriber is
  ended,  \* __experiment_ended(): the subscribers whose time is up
  query   \* what the traversal of each read

Halves  == {1, 2}
subVars == <<view, mixed, sub, ended, query>>
ownVars == <<sync, sem, first, shm>>
allVars == <<vars, ownVars, subVars>>

Value == 0 .. MaxKeys
Live  == -1

SortTypeOK ==
  /\ TypeOK
  /\ sync \in {"glock", "memcpy", "ksnap"}
  /\ sem \in {"missing", "free", "owner"} \cup Subs
  /\ first \in {Len(inserted), Len(inserted) + 1}
  /\ shm \in [Halves -> Value]
  /\ view \in [Subs -> [Halves -> Value \cup {Live}]] /\ mixed \subseteq Subs
  /\ sub \in [Subs -> {"unborn", "open", "check", "update", "map", "mapping", "done", "crashed"}]
  /\ ended \subseteq Subs
  /\ query \in [Subs -> [Halves -> Value]]

(* run.sh removes the semaphores and segments of earlier runs.             *)
SortInit ==
  /\ Init
  /\ sync \in {"glock", "memcpy", "ksnap"}
  /\ sem = "missing" /\ first = 0
  /\ shm = [h \in Halves |-> 0]
  /\ view = [s \in Subs |-> [h \in Halves |-> 0]] /\ mixed = {}
  /\ sub = [s \in Subs |-> "unborn"] /\ ended = {}
  /\ query = [s \in Subs |-> [h \in Halves |-> 0]]

-----------------------------------------------------------------------------
(* sem_wait and sem_post                                                   *)
Wait(p) == sem = "free" /\ sem' = p
Post(p) == sem = p /\ sem' = "free"

(* The owner's thread, before its loop: ksnap_test_subs_init forks.        *)
Fork(s) ==
  /\ con = "start" /\ sub[s] = "unborn"
  /\ sub' = [sub EXCEPT ![s] = "open"]
  /\ UNCHANGED <<vars, ownVars, view, mixed, ended, query>>

(* open_semaphore and memcpy_shm_open, with the subscribers under way.     *)
OpenSemaphore ==
  /\ \A s \in Subs : sub[s] # "unborn"
  /\ Go("start", "check")
  /\ sem' = "free"
  /\ UNCHANGED <<sync, first, shm, subVars>>

(* Mutant of Acquire: the batch is inserted with no semaphore.             *)
AcquireNothing == Go("acquire", "insert") /\ UNCHANGED <<ownVars, subVars>>

(* acquire                                                                 *)
Acquire ==
  /\ Go("acquire", "insert")
  /\ IF sync = "glock" THEN Wait("owner") ELSE UNCHANGED sem
  /\ UNCHANGED <<sync, first, shm, subVars>>

(* sort_tester_insert, half by half.                                       *)
InsertFirst ==
  /\ con = "insert" /\ other # <<>>
  /\ first = Len(inserted)
  /\ first' = first + 1
  /\ UNCHANGED <<vars, sync, sem, shm, subVars>>

InsertSecond ==
  /\ first = Len(inserted) + 1
  /\ Insert
  /\ UNCHANGED <<ownVars, subVars>>

Release == Inserted /\ UNCHANGED <<ownVars, subVars>>

(* release: sem_post.                                                      *)
ReleaseLock ==
  /\ sync = "glock"
  /\ Settle /\ Post("owner")
  /\ UNCHANGED <<sync, first, shm, subVars>>

(* release: ksnap_settle.  From now on the owner writes to new frames, and *)
(* subscribers that map the old ones keep what was committed.              *)
ReleaseCommit ==
  /\ sync = "ksnap"
  /\ Settle
  /\ view' = [s \in Subs |-> [h \in Halves |-> IF view[s][h] = Live THEN settled' ELSE view[s][h]]]
  /\ UNCHANGED <<ownVars, mixed, sub, ended, query>>

(* release: memcpy_shm_settle, the copy half by half.                      *)
SettleWait ==
  /\ sync = "memcpy" /\ con = "release"
  /\ Wait("owner")
  /\ UNCHANGED <<vars, sync, first, shm, subVars>>

CopyFirst ==
  /\ sync = "memcpy" /\ sem = "owner"
  /\ shm[1] # first
  /\ shm' = [shm EXCEPT ![1] = first]
  /\ UNCHANGED <<vars, sync, sem, first, subVars>>

CopySecond ==
  /\ sync = "memcpy" /\ sem = "owner"
  /\ shm[1] = first
  /\ shm' = [shm EXCEPT ![2] = Len(inserted)]
  /\ Settle /\ Post("owner")
  /\ UNCHANGED <<sync, first, subVars>>

(* wait(&status) returns with the first child that has ended.              *)
AwaitChild ==
  /\ \E s \in Subs : sub[s] \in {"done", "crashed"}
  /\ Go("exit", "done")
  /\ UNCHANGED <<ownVars, subVars>>

-----------------------------------------------------------------------------
Becomes(s, pc) == sub' = [sub EXCEPT ![s] = pc]

(* A subscriber begins.  sem_open without O_CREAT fails when the owner has *)
(* not been there yet, and sem_wait is called with SEM_FAILED all the same.*)
Open(s) ==
  /\ sub[s] = "open"
  /\ \/ sync # "ksnap" /\ sem = "missing" /\ Becomes(s, "crashed") /\ UNCHANGED <<view, mixed>>
     \/ sync = "glock" /\ sem # "missing" /\ Becomes(s, "check") /\ UNCHANGED <<view, mixed>>
     \/ sync = "memcpy" /\ sem = "free" /\ Becomes(s, "check") /\ UNCHANGED <<view, mixed>>
     \/ /\ sync = "ksnap" /\ Becomes(s, "check")
        /\ view' = [view EXCEPT ![s] = [h \in Halves |-> settled]]
        /\ UNCHANGED mixed
  /\ UNCHANGED <<vars, ownVars, ended, query>>

(* Its time passes.                                                        *)
SubTimeUp(s) ==
  /\ sub[s] \notin {"unborn", "crashed"}
  /\ s \notin ended
  /\ ended' = ended \cup {s}
  /\ UNCHANGED <<vars, ownVars, view, mixed, sub, query>>

Check(s) ==
  /\ sub[s] = "check"
  /\ Becomes(s, IF s \in ended THEN "done" ELSE "update")
  /\ UNCHANGED <<vars, ownVars, view, mixed, ended, query>>

(* subscribers_global_locking: sem_wait.                                   *)
LockSegment(s) ==
  /\ sync = "glock" /\ sub[s] = "update"
  /\ Wait(s)
  /\ Becomes(s, "map")
  /\ UNCHANGED <<vars, sync, first, shm, view, mixed, ended, query>>

(* memcpy_shm_client_update: the second segment is mapped, with the        *)
(* semaphore held, and seen through the mapping from then on.              *)
MapCopy(s) ==
  /\ sync = "memcpy" /\ sub[s] = "update"
  /\ sem = "free"
  /\ Becomes(s, "map")
  /\ UNCHANGED <<vars, ownVars, view, mixed, ended, query>>

(* What the owner's mapping has in a half.                                 *)
Written(h) == IF h = 1 THEN first ELSE Len(inserted)

(* Mutant of Update: while the owner writes the file's pages are taken.    *)
UpdateFromFile(s) ==
  /\ sync = "ksnap" /\ sub[s] = "update"
  /\ view' = [view EXCEPT ![s] = [h \in Halves |-> IF first = settled THEN settled ELSE 0]]
  /\ Becomes(s, "map")
  /\ UNCHANGED <<vars, ownVars, mixed, ended, query>>

(* ksnap_update: a snapshot, which maps of what was committed since the    *)
(* last one the frames that the owner maps at this time (KSnap).           *)
Update(s) ==
  /\ sync = "ksnap" /\ sub[s] = "update"
  /\ view' = [view EXCEPT ![s] = [h \in Halves |->
                IF settled \in {view[s][h], Written(h)} THEN settled ELSE Live]]
  /\ mixed' = IF \E h \in Halves : view'[s][h] = Live THEN mixed \cup {s} ELSE mixed \ {s}
  /\ Becomes(s, "map")
  /\ UNCHANGED <<vars, ownVars, ended, query>>

(* What a subscriber reads in a half.                                      *)
Seen(s, h) ==
  CASE sync = "memcpy" -> shm[h]
    [] sync = "ksnap" /\ view[s][h] # Live -> view[s][h]
    [] OTHER -> Written(h)

(* sort_tester_map, half by half; with a lock, sem_post after it.          *)
MapFirst(s) ==
  /\ sub[s] = "map"
  /\ query' = [query EXCEPT ![s][1] = Seen(s, 1)]
  /\ Becomes(s, "mapping")
  /\ UNCHANGED <<vars, ownVars, view, mixed, ended>>

(* Mutant of MapSecond: the semaphore is not posted.                       *)
MapSecondKeep(s) ==
  /\ sub[s] = "mapping"
  /\ query' = [query EXCEPT ![s][2] = Seen(s, 2)]
  /\ Becomes(s, "check")
  /\ UNCHANGED <<vars, ownVars, view, mixed, ended>>

MapSecond(s) ==
  /\ sub[s] = "mapping"
  /\ query' = [query EXCEPT ![s][2] = Seen(s, 2)]
  /\ IF sync = "glock" THEN Post(s) ELSE UNCHANGED sem
  /\ Becomes(s, "check")
  /\ UNCHANGED <<vars, sync, first, shm, view, mixed, ended>>

-----------------------------------------------------------------------------
(* The steps of KeyQueue.                                                  *)
Keys(A) == A /\ UNCHANGED <<ownVars, subVars>>

Owner == \/ Keys(TakeKeys) \/ \E s \in Subs : Fork(s)
         \/ OpenSemaphore \/ Acquire \/ InsertFirst \/ InsertSecond \/ Release
         \/ ReleaseLock \/ ReleaseCommit \/ SettleWait \/ CopyFirst \/ CopySecond
         \/ AwaitChild

Subscriber(s) == \/ Open(s) \/ Check(s) \/ LockSegment(s) \/ MapCopy(s) \/ Update(s)
                 \/ MapFirst(s) \/ MapSecond(s)

SortNext == \/ Keys(TimeUp) \/ Keys(Generator) \/ Owner
            \/ \E s \in Subs : (Subscriber(s) \/ SubTimeUp(s))

(* Threads and processes run, and a subscriber's time passes.  That of the *)
(* owner need never be up.                                                 *)
SortSpec ==
  /\ SortInit /\ [][SortNext]_allVars
  /\ WF_allVars(Keys(Generator)) /\ WF_allVars(Owner)
  /\ \A s \in Subs : (WF_allVars(Subscriber(s)) /\ WF_allVars(SubTimeUp(s)))

-----------------------------------------------------------------------------
(* A traversal under the global lock, and one of a snapshot none of whose  *)
(* frames is the owner's, sees the segment between two insertions, and     *)
(* indeed between two batches.  With memcpy nothing of the kind holds: the *)
(* semaphore is released before the traversal begins.                      *)
QueryAtOnce ==
  \A s \in Subs :
    /\ sub[s] = "mapping"
    /\ \/ sync = "glock"
       \/ sync = "ksnap" /\ s \notin mixed
    => Seen(s, 2) = query[s][1]

(* However the segment is shared, no subscriber sees less of either half   *)
(* than it did in its last traversal.                                      *)
NeverOlder == [][\A s \in Subs, h \in Halves : query'[s][h] >= query[s][h]]_query

(* A subscriber that found the semaphore ends, whoever else competes for   *)
(* it, and with it whatever the owner still does.                          *)
SubscribersEnd == \A s \in Subs : sub[s] = "check" ~> sub[s] = "done"
===============================================================================
