---------------------------- MODULE WaitForCommit ----------------------------
(***************************************************************************)
(* Blocking snapshots of snapshot.c: a subscriber that asks for one too    *)
(* long after the last commit sleeps in wait_for_commit until the owner    *)
(* commits again.  The subscriber's steps are those between which another  *)
(* task can run: it reads the revision number, asks do_snapshot, joins the *)
(* wait queue, and then loops, testing the number, marking itself asleep   *)
(* and calling the scheduler.  The owner increments the number and, later, *)
(* wakes up the queue.                                                     *)
(*                                                                         *)
(* The subscriber only ever compares the revision number with the one it   *)
(* read, so all that is kept of the two is whether they differ (the        *)
(* number's wrap-around after 2^32 commits is left out).                   *)
(***************************************************************************)
CONSTANT Subs        \* the subscribers

VARIABLES pc,        \* where each subscriber is in get_snapshot
          changed,   \* has the revision number moved since it was read?
          queued,    \* is the subscriber in the wait queue snapshot_wq?
          runnable,  \* task state: TASK_RUNNING or, if not, TASK_INTERRUPTIBLE
          mustWake,  \* the owner has incremented, and not called wake_up yet
          overdue    \* history: a commit since the subscriber fell asleep

subVars == <<pc, queued, overdue>>
vars    == <<pc, changed, queued, runnable, mustWake, overdue>>

Places == {"idle", "decide", "enqueue", "test", "mark", "schedule", "asleep", "snapshot"}

(* A subscriber is in the queue exactly while it is in the loop.            *)
TypeOK == /\ pc \in [Subs -> Places]
          /\ changed \in [Subs -> BOOLEAN]
          /\ queued \in [Subs -> BOOLEAN]
          /\ runnable \in [Subs -> BOOLEAN]
          /\ mustWake \in BOOLEAN
          /\ overdue \in [Subs -> BOOLEAN]
          /\ \A s \in Subs : queued[s] <=> pc[s] \in {"test", "mark", "schedule", "asleep"}

Init == /\ pc = [s \in Subs |-> "idle"]
        /\ changed = [s \in Subs |-> FALSE]
        /\ queued = [s \in Subs |-> FALSE]
        /\ runnable = [s \in Subs |-> TRUE]
        /\ mustWake = FALSE
        /\ overdue = [s \in Subs |-> FALSE]

(* s moves from one place of get_snapshot to another.                      *)
Goto(s, from, to) == pc[s] = from /\ pc' = [pc EXCEPT ![s] = to]

-----------------------------------------------------------------------------
(* msync(SNAP_BLOCKING) reaches wait_for_commit, which reads the number.   *)
ReadRevision(s) ==
  /\ Goto(s, "idle", "decide")
  /\ changed' = [changed EXCEPT ![s] = FALSE]
  /\ UNCHANGED <<queued, runnable, mustWake, overdue>>

(* do_snapshot: by policy and the age of the last commit the subscriber    *)
(* takes what is there, or waits; both are possible here.                  *)
DoSnapshot(s) ==
  /\ \/ Goto(s, "decide", "snapshot")
     \/ Goto(s, "decide", "enqueue")
  /\ UNCHANGED <<changed, queued, runnable, mustWake, overdue>>

(* Mutant of AddWaitQueue: the subscriber does not join the queue.         *)
NoAddWaitQueue(s) ==
  /\ Goto(s, "enqueue", "test")
  /\ UNCHANGED <<changed, queued, runnable, mustWake, overdue>>

AddWaitQueue(s) ==
  /\ Goto(s, "enqueue", "test")
  /\ queued' = [queued EXCEPT ![s] = TRUE]
  /\ UNCHANGED <<changed, runnable, mustWake, overdue>>

(* The condition of the loop holds: the owner has not committed.           *)
TestUnchanged(s) ==
  /\ ~changed[s]
  /\ Goto(s, "test", "mark")
  /\ UNCHANGED <<changed, queued, runnable, mustWake, overdue>>

(* It does not: TASK_RUNNING, out of the queue, and on to the snapshot.    *)
TestChanged(s) ==
  /\ changed[s]
  /\ Goto(s, "test", "snapshot")
  /\ queued' = [queued EXCEPT ![s] = FALSE]
  /\ runnable' = [runnable EXCEPT ![s] = TRUE]
  /\ UNCHANGED <<changed, mustWake, overdue>>

(* set_current_state(TASK_INTERRUPTIBLE)                                   *)
MarkInterruptible(s) ==
  /\ Goto(s, "mark", "schedule")
  /\ runnable' = [runnable EXCEPT ![s] = FALSE]
  /\ UNCHANGED <<changed, queued, mustWake, overdue>>

(* schedule(): a task that is still marked goes to sleep.                  *)
Sleep(s) ==
  /\ ~runnable[s]
  /\ Goto(s, "schedule", "asleep")
  /\ overdue' = [overdue EXCEPT ![s] = FALSE]
  /\ UNCHANGED <<changed, queued, runnable, mustWake>>

(* schedule() returns: the task was woken before it slept, or after.       *)
Resume(s) ==
  /\ runnable[s]
  /\ Goto(s, "schedule", "test") \/ Goto(s, "asleep", "test")
  /\ UNCHANGED <<changed, queued, runnable, mustWake, overdue>>

(* A signal makes an interruptible task runnable; the loop does not look   *)
(* at signals, so the task only goes around once more.                     *)
Signal(s) ==
  /\ pc[s] \in {"schedule", "asleep"}
  /\ runnable' = [runnable EXCEPT ![s] = TRUE]
  /\ UNCHANGED <<pc, changed, queued, mustWake, overdue>>

(* The rest of get_snapshot, which is KSnap's.                             *)
TakeSnapshot(s) ==
  /\ Goto(s, "snapshot", "idle")
  /\ UNCHANGED <<changed, queued, runnable, mustWake, overdue>>

-----------------------------------------------------------------------------
(* snapshot_commit, after the new version is in the list: atomic_inc, then *)
(* up() ...                                                                *)
IncRevision ==
  /\ ~mustWake
  /\ mustWake' = TRUE
  /\ changed' = [s \in Subs |-> TRUE]
  /\ overdue' = [s \in Subs |-> pc[s] = "asleep"]
  /\ UNCHANGED <<pc, queued, runnable>>

(* Mutant of WakeUp: only one of those in the queue is woken.              *)
WakeUpOne ==
  /\ mustWake
  /\ mustWake' = FALSE
  /\ LET first == CHOOSE s \in Subs : TRUE
     IN  runnable' = [runnable EXCEPT ![first] = TRUE]
  /\ UNCHANGED <<pc, changed, queued, overdue>>

(* ... and wake_up(&vma->snapshot_wq).                                     *)
WakeUp ==
  /\ mustWake
  /\ mustWake' = FALSE
  /\ runnable' = [s \in Subs |-> runnable[s] \/ queued[s]]
  /\ UNCHANGED <<pc, changed, queued, overdue>>

-----------------------------------------------------------------------------
(* What a subscriber does of itself once it has called.                    *)
SubStep(s) == \/ DoSnapshot(s) \/ AddWaitQueue(s)
              \/ TestUnchanged(s) \/ TestChanged(s)
              \/ MarkInterruptible(s) \/ Sleep(s) \/ Resume(s)
              \/ TakeSnapshot(s)

Next == \/ \E s \in Subs : ReadRevision(s) \/ SubStep(s) \/ Signal(s)
        \/ IncRevision
        \/ WakeUp

Spec == Init /\ [][Next]_vars

(* Runnable tasks run.  WF on IncRevision: the owner goes on committing,   *)
(* as the owners of the tests do until they exit.                          *)
FairSpec == /\ Spec
            /\ \A s \in Subs : WF_vars(SubStep(s))
            /\ WF_vars(IncRevision)
            /\ WF_vars(WakeUp)

-----------------------------------------------------------------------------
Asleep(s) == pc[s] = "asleep" /\ ~runnable[s]

(* A commit wakes whoever is asleep when it comes: while the subscriber    *)
(* still sleeps through a commit made since it fell asleep, the owner's    *)
(* wake_up for it is still to come.  (That it is in the queue is TypeOK.)  *)
WokenByNextCommit ==
  /\ TypeOK
  /\ \A s \in Subs : Asleep(s) /\ overdue[s] => mustWake

(* An owner that goes on committing lets every blocked subscriber through. *)
EventuallyServed == \A s \in Subs : pc[s] # "idle" ~> pc[s] = "snapshot"

(* What the comments say of the loop: it goes around "until someone (the   *)
(* owner) commits", and the owner wakes "anyone that is waiting for a new  *)
(* commit".  So nobody sleeps when there has been a commit since it read   *)
(* the revision number, unless the wake_up is still to come.               *)
NeverSleepsPastCommit == \A s \in Subs : Asleep(s) /\ changed[s] => mustWake
==============================================================================
