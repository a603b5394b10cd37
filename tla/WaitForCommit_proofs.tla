------------------------ MODULE WaitForCommit_proofs ------------------------
(***************************************************************************)
(* Proofs about WaitForCommit for every set of subscribers.  The property  *)
(* is inductive as it stands: its first part, that whoever is in the loop  *)
(* of wait_for_commit is in the wait queue, is what the step WakeUp needs  *)
(* for the second.                                                         *)
(***************************************************************************)
EXTENDS WaitForCommit, TLAPS

(* In the first state nobody is in the loop.                               *)
LEMMA WokenInit == Init => WokenByNextCommit
  BY DEF Init, WokenByNextCommit, TypeOK, Places, Asleep

(* Each step of a subscriber moves it alone, in and out of the queue as it *)
(* enters and leaves the loop; falling asleep clears overdue.              *)
LEMMA SubscriberKeepsWoken ==
  ASSUME WokenByNextCommit, NEW s \in Subs,
         ReadRevision(s) \/ SubStep(s) \/ Signal(s)
  PROVE  WokenByNextCommit'
<1> USE DEF WokenByNextCommit, TypeOK, Places, Asleep, Goto
<1>1. CASE ReadRevision(s)      BY <1>1 DEF ReadRevision
<1>2. CASE DoSnapshot(s)        BY <1>2 DEF DoSnapshot
<1>3. CASE AddWaitQueue(s)      BY <1>3 DEF AddWaitQueue
<1>4. CASE TestUnchanged(s)     BY <1>4 DEF TestUnchanged
<1>5. CASE TestChanged(s)       BY <1>5 DEF TestChanged
<1>6. CASE MarkInterruptible(s) BY <1>6 DEF MarkInterruptible
<1>7. CASE Sleep(s)             BY <1>7 DEF Sleep
<1>8. CASE Resume(s)            BY <1>8 DEF Resume
<1>9. CASE TakeSnapshot(s)      BY <1>9 DEF TakeSnapshot
<1>10. CASE Signal(s)           BY <1>10 DEF Signal
<1> QED
  BY <1>1, <1>2, <1>3, <1>4, <1>5, <1>6, <1>7, <1>8, <1>9, <1>10 DEF SubStep

(* The owner's two halves of a commit: after the increment the wake_up is  *)
(* to come, and the wake_up reaches everyone asleep, for they are queued.  *)
LEMMA OwnerKeepsWoken ==
  ASSUME WokenByNextCommit, IncRevision \/ WakeUp
  PROVE  WokenByNextCommit'
<1>1. CASE IncRevision
  BY <1>1 DEF IncRevision, WokenByNextCommit, TypeOK, Places, Asleep
<1>2. CASE WakeUp
  <2>1. TypeOK'
    BY <1>2 DEF WakeUp, WokenByNextCommit, TypeOK, Places
  <2>2. ASSUME NEW s \in Subs, Asleep(s)' PROVE FALSE
    <3>1. pc[s] = "asleep" /\ queued[s]
      BY <1>2, <2>2 DEF WakeUp, Asleep, WokenByNextCommit, TypeOK
    <3> QED BY <1>2, <2>2, <3>1 DEF WakeUp, Asleep
  <2> QED BY <2>1, <2>2 DEF WokenByNextCommit
<1> QED BY <1>1, <1>2

(* A subscriber that still sleeps through a commit made since it fell      *)
(* asleep is about to be woken, however many subscribers there are and     *)
(* whatever signals they get.                                              *)
THEOREM AlwaysWoken == Spec => []WokenByNextCommit
<1>1. WokenByNextCommit /\ [Next]_vars => WokenByNextCommit'
  <2> SUFFICES ASSUME WokenByNextCommit, [Next]_vars PROVE WokenByNextCommit'
    OBVIOUS
  <2>1. CASE \E s \in Subs : ReadRevision(s) \/ SubStep(s) \/ Signal(s)
    BY <2>1, SubscriberKeepsWoken
  <2>2. CASE IncRevision \/ WakeUp
    BY <2>2, OwnerKeepsWoken
  <2>3. CASE UNCHANGED vars
    BY <2>3 DEF vars, WokenByNextCommit, TypeOK, Asleep
  <2> QED BY <2>1, <2>2, <2>3 DEF Next
<1> QED BY WokenInit, <1>1, PTL DEF Spec
=============================================================================
