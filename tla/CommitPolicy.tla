----------------------------- MODULE CommitPolicy -----------------------------
(***************************************************************************)
(* When snapshot.c commits and when it makes a subscriber wait: do_commit, *)
(* do_snapshot, the subscribers' policies that both consult, and the       *)
(* moving average of the time between snapshot requests.                   *)
(*                                                                         *)
(* Time is counted in microseconds; a timeval is the pair of a second and  *)
(* a microsecond, and a second has Second of them (10^6 in the code).  A   *)
(* timeval that was never set is (0, 0), so the clock starts at Second.    *)
(* unsigned long has the values 0 .. Word - 1.  KSnap has what a commit    *)
(* and a snapshot do, WaitForCommit how a subscriber waits.                *)
(***************************************************************************)
EXTENDS Integers, FiniteSets

CONSTANTS Subs,         \* the subscribers
          Asked,        \* commit intervals that COMMIT_DYN subscribers ask for
          IntervalValues, \* 512: those that an int has room for above the shift
          FlagValues,   \* 2^9 or 2^41: those that an unsigned long has room for
          Unit,         \* 100: microseconds to one of them
          Second,       \* microseconds in a second
          Word,         \* 2^32 or 2^64
          EwmaDefault,  \* ADAPT_EWMA_DEFAULT_US
          MaxTime,      \* bound: the clock
          MaxRefs       \* bound: policies registered with one owner

ASSUME IntervalAssumption == /\ Asked \subseteq Nat /\ Unit \in Nat \ {0}
                             /\ IntervalValues \in Nat \ {0} /\ FlagValues \in Nat \ {0}
                             /\ IntervalValues <= FlagValues /\ IntervalValues * Unit <= Word
ASSUME ClockAssumption == /\ Second \in Nat /\ MaxTime \in Nat /\ Word \in Nat
                          /\ 0 < Second /\ Second <= MaxTime /\ Second < Word
ASSUME EwmaAssumption == EwmaDefault \in 1 .. Word - 1
ASSUME RefsAssumption == MaxRefs \in Nat

Coeff  == 20     \* ADAPT_EWMA_COEFF
Factor == 100    \* ADAPT_EWMA_FACTOR
Age    == 3      \* ADAPT_AGE_FACTOR

VARIABLES
  now,          \* what do_gettimeofday reads
  lastCommit,   \* the owner's last_commit_time
  lastSnapshot, \* the owner's last_snapshot_time
  ewma,         \* the owner's ewma_adapt
  alwaysRefs,   \* the owner's always_ref_count
  adaptRefs,    \* the owner's adapt_ref_count
  prioList,     \* the intervals in the owner's prio_list
  policy,       \* a subscriber's own counts and ewma_adapt, as its policy
  hasCursor,    \* is the subscriber's snapshot_pte_list set?
  waiting       \* when the subscriber began to wait for a commit; 0 if it does not

ownerVars == <<lastCommit, lastSnapshot, ewma, alwaysRefs, adaptRefs, prioList>>
vars      == <<now, ownerVars, policy, hasCursor, waiting>>

Times    == 0 .. MaxTime
Timevals == [sec : Times, usec : 0 .. Second - 1]
Unset    == [sec |-> 0, usec |-> 0]

(* The subscribers in wait_for_commit.                                      *)
Waiters == {s \in Subs : waiting[s] # 0}

(* The policies of a subscriber: none of the flags, COMMIT_ALWAYS,         *)
(* COMMIT_ADAPT, or COMMIT_DYN with an interval.                           *)
Policies == [kind : {"none", "always", "adapt"}] \cup [kind : {"dyn"}, asked : Asked]

(* get_commit_interval shifts the interval within an int.                  *)
Shifted(i) ==
  LET low == i % IntervalValues
  IN  IF 2 * low < IntervalValues THEN low ELSE low - IntervalValues

(* Mutant of Microseconds: init_subscriber shifts by one bit less.         *)
MicrosecondsTwice(i) == ((2 * Shifted(i)) % FlagValues) * Unit % Word

(* What init_subscriber makes of the flags, which mmap takes as an int and *)
(* the kernel as an unsigned long.                                         *)
Microseconds(i) == (Shifted(i) % FlagValues) * Unit % Word

(* Only a subscriber that has a snapshot, and a policy, is made to wait.   *)
TypeOK ==
  /\ now \in Second .. MaxTime
  /\ lastCommit \in Timevals /\ lastSnapshot \in Timevals
  /\ ewma \in 0 .. Word - 1
  /\ alwaysRefs \in 0 .. MaxRefs /\ adaptRefs \in 0 .. MaxRefs
  /\ prioList \subseteq {Microseconds(i) : i \in Asked}
  /\ policy \in [Subs -> Policies]
  /\ hasCursor \in [Subs -> BOOLEAN]
  /\ waiting \in [Subs -> Times]
  /\ \A s \in Waiters : hasCursor[s] /\ policy[s].kind \in {"dyn", "adapt"}

-----------------------------------------------------------------------------
DoGettimeofday == [sec |-> now \div Second, usec |-> now % Second]

(* Mutant of Elapsed: the old time's microseconds are left out.            *)
ElapsedNoBorrow(old, current) ==
  LET secs == (current.sec - old.sec) % Word
  IN  (secs * Second + current.usec) % Word

(* elapsed_time_in_microseconds, in unsigned arithmetic.                   *)
Elapsed(old, current) ==
  LET secs == (current.sec - old.sec) % Word
  IN  (secs * Second - old.usec + current.usec) % Word

(* Mutant of Average: the latest gap has its full weight.                  *)
AverageHeavy(gap, old) == ((Factor * gap + (Factor - Coeff) * old) % Word) \div Factor

(* The new average: 20% of the latest gap, 80% of the old one.             *)
Average(gap, old) == ((Coeff * gap + (Factor - Coeff) * old) % Word) \div Factor

(* Mutant of DoCommit: every interval must have passed, not just one.      *)
DoCommitAll ==
  \/ alwaysRefs = 0 /\ adaptRefs = 0 /\ prioList = {}
  \/ alwaysRefs > 0
  \/ lastCommit.sec = 0
  \/ adaptRefs > 0
  \/ \A interval \in prioList : Elapsed(lastCommit, DoGettimeofday) > interval

(* do_commit: should a commit that the owner asks for be made?             *)
DoCommit ==
  \/ alwaysRefs = 0 /\ adaptRefs = 0 /\ prioList = {}
  \/ alwaysRefs > 0
  \/ lastCommit.sec = 0
  \/ adaptRefs > 0
  \/ \E interval \in prioList : Elapsed(lastCommit, DoGettimeofday) > interval

(* The ewma_adapt of a COMMIT_DYN subscriber.  At 0 it has no policy.      *)
OwnInterval(s) == Microseconds(policy[s].asked)

(* do_snapshot: may a blocking request of s be served at once?             *)
DoSnapshot(s) ==
  \/ policy[s].kind \in {"none", "always"}
  \/ ~hasCursor[s]
  \/ LET elapsed == Elapsed(lastCommit, DoGettimeofday)
     IN  \/ policy[s].kind = "dyn" /\ OwnInterval(s) \in {0} \cup (elapsed + 1 .. Word)
         \/ policy[s].kind = "adapt" /\ elapsed < (ewma * Age) % Word

-----------------------------------------------------------------------------
(* init_snapshot: what a new mapping of the owner starts from.             *)
FreshOwner ==
  /\ lastCommit' = Unset /\ lastSnapshot' = Unset
  /\ ewma' = EwmaDefault
  /\ alwaysRefs' = 0 /\ adaptRefs' = 0 /\ prioList' = {}

Init ==
  /\ now = Second
  /\ lastCommit = Unset /\ lastSnapshot = Unset
  /\ ewma = EwmaDefault
  /\ alwaysRefs = 0 /\ adaptRefs = 0 /\ prioList = {}
  /\ policy = [s \in Subs |-> [kind |-> "none"]]
  /\ hasCursor = [s \in Subs |-> FALSE]
  /\ waiting = [s \in Subs |-> 0]

Tick ==
  /\ now < MaxTime
  /\ now' = now + 1
  /\ UNCHANGED <<ownerVars, policy, hasCursor, waiting>>

(* The owner unmaps the segment and maps it again.  (While a subscriber    *)
(* waits in the old mapping's queue this frees the queue under it; that is *)
(* not modelled.)                                                          *)
InitSnapshot ==
  /\ Waiters = {}
  /\ FreshOwner
  /\ UNCHANGED <<now, policy, hasCursor, waiting>>

(* init_subscriber: s maps the segment with a policy, which is registered  *)
(* with the owner, and never taken back when s goes.  COMMIT_DYN comes     *)
(* before COMMIT_ADAPT and that before COMMIT_ALWAYS.                      *)
InitSubscriber(s, p) ==
  /\ waiting[s] = 0
  /\ p.kind \in {"always", "adapt"} => alwaysRefs + adaptRefs < MaxRefs
  /\ policy' = [policy EXCEPT ![s] = p]
  /\ hasCursor' = [hasCursor EXCEPT ![s] = FALSE]
  /\ alwaysRefs' = IF p.kind = "always" THEN alwaysRefs + 1 ELSE alwaysRefs
  /\ adaptRefs'  = IF p.kind = "adapt" THEN adaptRefs + 1 ELSE adaptRefs
  /\ prioList'   = IF p.kind = "dyn" THEN prioList \cup {Microseconds(p.asked)} ELSE prioList
  /\ UNCHANGED <<now, lastCommit, lastSnapshot, ewma, waiting>>

(* update_master_adapt_ewma: every request, blocking or not, counts.       *)
UpdateMasterAdaptEwma ==
  /\ lastSnapshot' = DoGettimeofday
  /\ ewma' = IF lastSnapshot.sec = 0 THEN ewma
             ELSE Average(Elapsed(lastSnapshot, DoGettimeofday), ewma)

(* get_snapshot that is served at once: it is not SNAP_BLOCKING, or        *)
(* do_snapshot lets it through.  With a committed version in the list the  *)
(* subscriber has a cursor from then on.                                   *)
GetSnapshot(s) ==
  /\ waiting[s] = 0
  /\ UpdateMasterAdaptEwma
  /\ hasCursor' = [hasCursor EXCEPT ![s] = @ \/ lastCommit # Unset]
  /\ UNCHANGED <<now, lastCommit, alwaysRefs, adaptRefs, prioList, policy, waiting>>

(* get_snapshot that blocks; do_snapshot sees the average just updated.    *)
BlockInSnapshot(s) ==
  /\ waiting[s] = 0
  /\ UpdateMasterAdaptEwma
  /\ UNCHANGED <<now, lastCommit, alwaysRefs, adaptRefs, prioList, policy, hasCursor>>
  /\ ~DoSnapshot(s)'
  /\ waiting' = [waiting EXCEPT ![s] = now]

(* msync by the owner when do_commit agrees (when it does not, nothing     *)
(* changes): whoever waits goes on and takes the new version.              *)
SnapshotCommit ==
  /\ DoCommit
  /\ lastCommit' = DoGettimeofday
  /\ waiting' = [s \in Subs |-> 0]
  /\ hasCursor' = [s \in Subs |-> hasCursor[s] \/ waiting[s] # 0]
  /\ UNCHANGED <<now, lastSnapshot, ewma, alwaysRefs, adaptRefs, prioList, policy>>

Next == \/ Tick
        \/ InitSnapshot
        \/ \E s \in Subs : \/ \E p \in Policies : InitSubscriber(s, p)
                           \/ GetSnapshot(s)
                           \/ BlockInSnapshot(s)
        \/ SnapshotCommit

Spec == Init /\ [][Next]_vars

-----------------------------------------------------------------------------
(* What elapsed_time_in_microseconds says of a time that was set is the    *)
(* time that has passed since, across a change of the second too.          *)
ElapsedIsAge ==
  \A old \in {lastCommit, lastSnapshot} :
    old # Unset =>
      Elapsed(old, DoGettimeofday) = now - (old.sec * Second + old.usec)

(* Does the owner still have the policy that s waits by?  It forgets all   *)
(* of them when it maps the segment again, and the subscribers do not.     *)
Registered(s) ==
  \/ policy[s].kind = "dyn" /\ OwnInterval(s) \in prioList
  \/ policy[s].kind = "adapt" /\ adaptRefs > 0

(* What COMMIT_DYN is for: a blocking request that is served at once gets a*)
(* commit younger than the interval the program asked for, unless it is the*)
(* first.  This is claimed of intervals of at least 1 and less than half of*)
(* those that fit: 0 stands for no policy, and greater ones arrive as      *)
(* others, by their sign or by their lost bits.                            *)
ServedIsFresh ==
  \A s \in Subs :
    /\ policy[s].kind = "dyn" /\ hasCursor[s] /\ DoSnapshot(s)
    /\ 0 < policy[s].asked /\ 2 * policy[s].asked < IntervalValues
    => now - (lastCommit.sec * Second + lastCommit.usec) < policy[s].asked * Unit

(* do_commit and do_snapshot agree: a subscriber that do_snapshot sent to  *)
(* wait by a policy that the owner has is let through by the next msync of *)
(* the owner, whatever policies other subscribers have or had and however  *)
(* often the owner started afresh.  (Not in the very microsecond it began  *)
(* to wait: do_snapshot waits from the interval on, and do_commit commits  *)
(* after it.  Who may wait at all is in TypeOK.)                           *)
WaitersAreServed ==
  /\ TypeOK
  /\ \A s \in Waiters : Registered(s) /\ now > waiting[s] => DoCommit

(* The average never leaves the range of what it is an average of: the     *)
(* default and the gaps between requests, none of them longer than the     *)
(* time since the start.                                                   *)
EwmaInRange == ewma <= (IF EwmaDefault > now - Second THEN EwmaDefault ELSE now - Second)
==============================================================================
