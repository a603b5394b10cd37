------------------------- MODULE CommitPolicy_proofs -------------------------
(***************************************************************************)
(* Proofs about CommitPolicy, whose arithmetic is that of unsigned longs,  *)
(* for any number of subscribers, intervals and policies.  The theorems    *)
(* are about runs that are shorter than a word of microseconds.            *)
(***************************************************************************)
EXTENDS CommitPolicy, TLAPS

(* Quotient and remainder.                                                 *)
LEMMA DivMod ==
  ASSUME NEW n \in Int, NEW d \in Int, d > 0
  PROVE  n = d * (n \div d) + (n % d) /\ n \div d \in Int /\ n % d \in 0 .. d - 1
<1>1. n = d * (n \div d) + (n % d)
  OBVIOUS
<1> QED BY <1>1

(* They are the only ones.                                                 *)
LEMMA Remainder ==
  ASSUME NEW q \in Int, NEW d \in Int, d > 0, NEW r \in 0 .. d - 1
  PROVE  (d * q + r) % d = r
  OBVIOUS

(* What is within the word is left alone by unsigned arithmetic, and no    *)
(* result is greater than the exact one.                                   *)
LEMMA ModSmall ==
  ASSUME NEW d \in Int, d > 0, NEW n \in 0 .. d - 1
  PROVE  n % d = n
  OBVIOUS

LEMMA ModLess ==
  ASSUME NEW n \in Nat, NEW d \in Int, d > 0
  PROVE  n % d <= n /\ n \div d \in 0 .. n
<1>1. n \div d >= 0
  OBVIOUS
<1>2. \A q \in Nat : q <= d * q
  OBVIOUS
<1> QED BY <1>1, <1>2, DivMod

(* Multiples of the word that were lost on the way make no difference.     *)
LEMMA ModShift ==
  ASSUME NEW n \in Int, NEW k \in Int, NEW d \in Int, d > 0
  PROVE  (n + k * d) % d = n % d
<1> DEFINE q == n \div d
           r == n % d
<1>1. n = d * q + r /\ q \in Int /\ r \in 0 .. d - 1
  BY DivMod
<1> HIDE DEF q, r
<1>2. n + k * d = d * (q + k) + r /\ q + k \in Int
  BY <1>1
<1>3. (d * (q + k) + r) % d = r
  BY <1>1, <1>2, Remainder
<1> QED BY <1>2, <1>3 DEF r

-----------------------------------------------------------------------------
USE ClockAssumption

(* The microseconds that a timeval stands for.                             *)
Total(t) == t.sec * Second + t.usec

(* A timeval is one that do_gettimeofday returned, or was never set.       *)
Past(t) == t = Unset \/ (t.sec >= 1 /\ Total(t) <= now)

(* Whoever waits by an interval of its own began to when the last commit   *)
(* was that old already.                                                   *)
WaitedLong(s) ==
  /\ waiting[s] <= now
  /\ policy[s].kind = "dyn" => waiting[s] - Total(lastCommit) >= OwnInterval(s)

IInv == /\ TypeOK
        /\ Past(lastCommit) /\ Past(lastSnapshot)
        /\ EwmaInRange
        /\ \A s \in Waiters : WaitedLong(s)

(* do_gettimeofday tells the time.                                         *)
LEMMA Gettimeofday ==
  ASSUME now \in Second .. MaxTime
  PROVE  /\ DoGettimeofday \in Timevals /\ Total(DoGettimeofday) = now
         /\ DoGettimeofday.sec >= 1
<1>1. now = Second * (now \div Second) + (now % Second)
      /\ now % Second \in 0 .. Second - 1 /\ now \div Second \in 0 .. now
  BY DivMod, ModLess
<1>2. now \div Second >= 1
  OBVIOUS
<1> QED BY <1>1, <1>2 DEF DoGettimeofday, Timevals, Times, Total

(* elapsed_time_in_microseconds is the exact difference, modulo the word,  *)
(* though it borrows from neither of its two fields.                       *)
LEMMA ElapsedModWord ==
  ASSUME NEW old \in Timevals, NEW current \in Timevals
  PROVE  Elapsed(old, current) = (Total(current) - Total(old)) % Word
<1> DEFINE a == current.sec - old.sec
           q == a \div Word
           r == a % Word
           n == Total(current) - Total(old)
           m == r * Second - old.usec + current.usec
           k == q * Second
<1>0. /\ old.sec \in Int /\ old.usec \in Int /\ current.sec \in Int /\ current.usec \in Int
  BY DEF Timevals, Times
<1>1. a \in Int /\ a = Word * q + r /\ q \in Int /\ r \in Int
  BY <1>0, DivMod
<1>2. n \in Int /\ n = a * Second - old.usec + current.usec
  BY <1>0 DEF Total
<1>3. Elapsed(old, current) = m % Word
  BY DEF Elapsed
<1>4. m \in Int /\ k \in Int
  BY <1>0, <1>1
<1> HIDE DEF a, q, r, n
<1>5. a * Second = (Word * q) * Second + r * Second
  BY <1>1
<1>6. (Word * q) * Second = (q * Second) * Word
  BY <1>1
<1>7. n = m + k * Word
  BY <1>0, <1>1, <1>2, <1>5, <1>6
<1> HIDE DEF m, k
<1>8. Word \in Int /\ Word > 0
  OBVIOUS
<1>9. (m + k * Word) % Word = m % Word
  BY <1>4, <1>8, ModShift
<1> QED BY <1>3, <1>7, <1>9 DEF n

(* So in a run shorter than the word it is the age of what was set.        *)
LEMMA ElapsedExact ==
  ASSUME MaxTime < Word, now \in Second .. MaxTime, NEW old \in Timevals, Past(old)
  PROVE  /\ Elapsed(old, DoGettimeofday) = now - Total(old)
         /\ Total(old) \in 0 .. now
<1>1. Total(old) \in 0 .. now
  <2>1. old.sec \in Nat /\ old.usec \in Nat
    BY DEF Timevals, Times
  <2>2. old.sec * Second \in Nat
    BY <2>1
  <2>3. old = Unset => Total(old) = 0
    BY DEF Unset, Total
  <2> QED BY <2>1, <2>2, <2>3 DEF Past, Total
<1>2. now - Total(old) \in 0 .. Word - 1
  BY <1>1
<1> QED BY <1>1, <1>2, Gettimeofday, ElapsedModWord, ModSmall
(* An average is not above what it is an average of, whatever is lost in   *)
(* the multiplication.                                                     *)
LEMMA AverageBound ==
  ASSUME NEW gap \in Nat, NEW old \in Nat, NEW limit \in Nat, gap <= limit, old <= limit
  PROVE  Average(gap, old) \in 0 .. limit /\ Average(gap, old) < Word
<1> DEFINE sum == 20 * gap + 80 * old
           low == sum % Word
<1>1. sum \in Nat /\ sum <= 100 * limit
  OBVIOUS
<1>2. low \in 0 .. Word - 1 /\ low <= sum
  <2> HIDE DEF sum
  <2>1. Word \in Int /\ Word > 0
    OBVIOUS
  <2> QED BY <1>1, <2>1, ModLess, DivMod
<1> HIDE DEF sum, low
<1>3. low = 100 * (low \div 100) + (low % 100) /\ low \div 100 \in 0 .. low /\ low % 100 >= 0
  BY <1>1, <1>2, DivMod, ModLess
<1> QED BY <1>1, <1>2, <1>3 DEF Average, Factor, Coeff, sum, low

(* An interval is a word.                                                  *)
LEMMA MicrosecondsTyped ==
  ASSUME NEW i \in Nat
  PROVE  Microseconds(i) \in 0 .. Word - 1
<1> USE IntervalAssumption
<1>1. i % IntervalValues \in Int
  OBVIOUS
<1>2. Shifted(i) \in Int
  BY <1>1 DEF Shifted
<1>3. Shifted(i) % FlagValues \in Int
  BY <1>2
<1>4. (Shifted(i) % FlagValues) * Unit \in Int
  BY <1>3
<1> QED BY <1>4 DEF Microseconds

(* One that is not 0 and fits arrives as it was asked for.                 *)
LEMMA MicrosecondsExact ==
  ASSUME NEW i \in Nat, 0 < i, 2 * i < IntervalValues
  PROVE  Microseconds(i) = i * Unit /\ i * Unit \in 1 .. Word - 1
<1> USE IntervalAssumption
<1>1. i % IntervalValues = i
  BY ModSmall
<1>2. Shifted(i) = i
  BY <1>1 DEF Shifted
<1>3. i % FlagValues = i
  BY ModSmall
<1>4. i * Unit < IntervalValues * Unit /\ i * Unit > 0 /\ i * Unit \in Int
  OBVIOUS
<1>5. i * Unit \in 1 .. Word - 1
  BY <1>4
<1>6. (i * Unit) % Word = i * Unit
  BY <1>5, ModSmall
<1> QED BY <1>2, <1>3, <1>5, <1>6 DEF Microseconds

-----------------------------------------------------------------------------
(* What an owner starts from is long ago.                                  *)
LEMMA UnsetFacts ==
  /\ Unset \in Timevals /\ Past(Unset) /\ Total(Unset) = 0
  BY DEF Unset, Timevals, Times, Past, Total

(* The request that updates the average.                                   *)
LEMMA EwmaStep ==
  ASSUME MaxTime < Word, IInv, UpdateMasterAdaptEwma, UNCHANGED now
  PROVE  /\ lastSnapshot' \in Timevals /\ Past(lastSnapshot)'
         /\ ewma' \in 0 .. Word - 1 /\ EwmaInRange'
<1> USE EwmaAssumption
<1>1. now \in Second .. MaxTime /\ lastSnapshot \in Timevals /\ ewma \in 0 .. Word - 1
  BY DEF IInv, TypeOK
<1>2. lastSnapshot' = DoGettimeofday /\ now' = now
  BY DEF UpdateMasterAdaptEwma
<1>3. lastSnapshot' \in Timevals /\ Past(lastSnapshot)'
  BY <1>1, <1>2, Gettimeofday DEF Past, Total
<1>4. CASE lastSnapshot.sec = 0
  BY <1>1, <1>2, <1>3, <1>4 DEF UpdateMasterAdaptEwma, IInv, EwmaInRange
<1>5. CASE lastSnapshot.sec # 0
  <2> DEFINE gap == Elapsed(lastSnapshot, DoGettimeofday)
             limit == IF EwmaDefault > now - Second THEN EwmaDefault ELSE now - Second
  <2>1. Past(lastSnapshot) /\ lastSnapshot # Unset
    BY <1>5 DEF IInv, Unset
  <2>2. gap = now - Total(lastSnapshot) /\ Total(lastSnapshot) \in 0 .. now
    BY <1>1, <2>1, ElapsedExact
  <2>3. Total(lastSnapshot) >= Second
    <3>1. lastSnapshot.sec \in Nat /\ lastSnapshot.sec >= 1 /\ lastSnapshot.usec \in Nat
      BY <1>1, <2>1 DEF Past, Timevals, Times
    <3>2. lastSnapshot.sec * Second >= Second
      BY <3>1
    <3> QED BY <3>1, <3>2 DEF Total
  <2>4. gap \in Nat /\ limit \in Nat /\ gap <= limit /\ ewma <= limit /\ ewma \in Nat
    BY <1>1, <2>2, <2>3 DEF IInv, EwmaInRange
  <2>5. ewma' = Average(gap, ewma)
    BY <1>5 DEF UpdateMasterAdaptEwma
  <2> HIDE DEF gap
  <2>6. ewma' \in 0 .. limit /\ ewma' < Word
    BY <2>4, <2>5, AverageBound
  <2> QED BY <1>2, <1>3, <2>4, <2>6 DEF EwmaInRange
<1> QED BY <1>4, <1>5

(* Whoever is sent to wait by an interval has waited long.                 *)
LEMMA BlockStep ==
  ASSUME MaxTime < Word, IInv, NEW s \in Subs, BlockInSnapshot(s)
  PROVE  /\ hasCursor[s] /\ policy[s].kind \in {"dyn", "adapt"}
         /\ policy[s].kind = "dyn" => now - Total(lastCommit) >= OwnInterval(s)
<1>1. /\ ~DoSnapshot(s)' /\ UNCHANGED <<now, lastCommit, policy, hasCursor>>
      /\ now \in Second .. MaxTime /\ lastCommit \in Timevals /\ policy[s] \in Policies
  BY DEF BlockInSnapshot, IInv, TypeOK
<1>2. hasCursor[s] /\ policy[s].kind \in {"dyn", "adapt"}
  BY <1>1 DEF DoSnapshot, Policies
<1>3. ASSUME policy[s].kind = "dyn" PROVE now - Total(lastCommit) >= OwnInterval(s)
  <2> DEFINE elapsed == Elapsed(lastCommit, DoGettimeofday)
  <2>1. elapsed = now - Total(lastCommit) /\ Total(lastCommit) \in 0 .. now
    BY <1>1, ElapsedExact DEF IInv
  <2>2. OwnInterval(s) \in 0 .. Word - 1
    <3>1. policy[s].asked \in Nat
      BY <1>1, <1>3, IntervalAssumption DEF Policies
    <3> QED BY <3>1, MicrosecondsTyped DEF OwnInterval
  <2>3. OwnInterval(s) \notin elapsed + 1 .. Word
    BY <1>1, <1>3 DEF DoSnapshot, OwnInterval, DoGettimeofday
  <2> HIDE DEF elapsed
  <2>4. elapsed \in Int /\ OwnInterval(s) <= elapsed
    BY <1>1, <2>1, <2>2, <2>3
  <2> QED BY <2>1, <2>4
<1> QED BY <1>2, <1>3

(* The invariant holds at first.                                           *)
LEMMA InvInit == Init => IInv
<1> SUFFICES ASSUME Init PROVE IInv
  OBVIOUS
<1> USE EwmaAssumption, RefsAssumption DEF Init
<1>1. TypeOK
  BY UnsetFacts DEF TypeOK, Waiters, Policies, Times
<1> QED BY <1>1, UnsetFacts DEF IInv, EwmaInRange, Waiters

(* Every step keeps it, in a run shorter than the word.                    *)
LEMMA InvStep == MaxTime < Word /\ IInv /\ [Next]_vars => IInv'
<1> SUFFICES ASSUME MaxTime < Word, IInv, [Next]_vars PROVE IInv'
  OBVIOUS
<1> USE DEF ownerVars
<1>0. /\ now \in Second .. MaxTime /\ lastCommit \in Timevals /\ lastSnapshot \in Timevals
      /\ \A t \in Timevals : t.sec \in Nat /\ Total(t) \in Int
  BY DEF IInv, TypeOK, Timevals, Times, Total
<1>1. CASE Tick
  <2>1. TypeOK'
    BY <1>1, <1>0 DEF Tick, IInv, TypeOK, Waiters
  <2>2. Past(lastCommit)' /\ Past(lastSnapshot)' /\ EwmaInRange'
    BY <1>0, <1>1, EwmaAssumption DEF Tick, IInv, TypeOK, Past, EwmaInRange, Total, Unset
  <2>3. \A s \in Waiters' : WaitedLong(s)'
    BY <1>0, <1>1 DEF Tick, IInv, TypeOK, Waiters, WaitedLong, OwnInterval, Total, Times
  <2> QED BY <2>1, <2>2, <2>3 DEF IInv
<1>2. CASE InitSnapshot
  <2>1. TypeOK'
    BY <1>2, UnsetFacts, EwmaAssumption, RefsAssumption
    DEF InitSnapshot, FreshOwner, IInv, TypeOK, Waiters
  <2>2. Past(lastCommit)' /\ Past(lastSnapshot)' /\ EwmaInRange'
    BY <1>0, <1>2, UnsetFacts, EwmaAssumption DEF InitSnapshot, FreshOwner, Past, EwmaInRange
  <2> QED BY <1>2, <2>1, <2>2 DEF InitSnapshot, IInv, Waiters
<1>3. ASSUME NEW s \in Subs, NEW p \in Policies, InitSubscriber(s, p) PROVE IInv'
  <2>1. TypeOK'
    <3>1. p.kind = "dyn" => p.asked \in Asked
      BY DEF Policies
    <3>2. prioList' \subseteq {Microseconds(i) : i \in Asked}
      BY <1>3, <3>1 DEF InitSubscriber, IInv, TypeOK
    <3>3. alwaysRefs' \in 0 .. MaxRefs /\ adaptRefs' \in 0 .. MaxRefs
      BY <1>3, RefsAssumption DEF InitSubscriber, IInv, TypeOK
    <3> QED BY <1>3, <3>2, <3>3 DEF InitSubscriber, IInv, TypeOK, Waiters
  <2>2. \A q \in Waiters' : q \in Waiters /\ q # s /\ policy'[q] = policy[q]
    BY <1>3 DEF InitSubscriber, Waiters, IInv, TypeOK
  <2> QED BY <1>3, <2>1, <2>2
      DEF InitSubscriber, IInv, Past, EwmaInRange, WaitedLong, OwnInterval, Total
<1>4. ASSUME NEW s \in Subs, GetSnapshot(s) PROVE IInv'
  <2>1. /\ UpdateMasterAdaptEwma
        /\ UNCHANGED <<now, lastCommit, alwaysRefs, adaptRefs, prioList, policy, waiting>>
    BY <1>4 DEF GetSnapshot
  <2>2. hasCursor' \in [Subs -> BOOLEAN] /\ \A q \in Subs : hasCursor[q] => hasCursor'[q]
    BY <1>4 DEF GetSnapshot, IInv, TypeOK
  <2>3. TypeOK'
    BY <2>1, <2>2, EwmaStep DEF IInv, TypeOK, Waiters
  <2> QED BY <2>1, <2>3, EwmaStep
      DEF IInv, Past, Waiters, WaitedLong, OwnInterval, Total
<1>5. ASSUME NEW s \in Subs, BlockInSnapshot(s) PROVE IInv'
  <2>1. /\ UpdateMasterAdaptEwma /\ waiting' = [waiting EXCEPT ![s] = now]
        /\ UNCHANGED <<now, lastCommit, alwaysRefs, adaptRefs, prioList, policy, hasCursor>>
    BY <1>5 DEF BlockInSnapshot
  <2>2. waiting' \in [Subs -> Times] /\ waiting'[s] = now
        /\ \A q \in Waiters' : q = s \/ (q \in Waiters /\ waiting'[q] = waiting[q])
    <3>1. now \in Times /\ waiting \in [Subs -> Times]
      BY <1>0 DEF IInv, TypeOK, Times
    <3>2. waiting' \in [Subs -> Times] /\ waiting'[s] = now
      BY <2>1, <3>1
    <3>3. \A q \in Subs \ {s} : waiting'[q] = waiting[q]
      BY <2>1, <3>1
    <3> QED BY <3>2, <3>3 DEF Waiters
  <2>3. TypeOK'
    BY <1>5, <2>1, <2>2, EwmaStep, BlockStep DEF IInv, TypeOK, Waiters
  <2>4. ASSUME NEW q \in Waiters' PROVE WaitedLong(q)'
    <3>1. CASE q = s
      BY <1>0, <1>5, <2>1, <2>2, <3>1, BlockStep DEF WaitedLong, OwnInterval, Total
    <3>2. CASE q # s
      BY <2>1, <2>2, <3>2 DEF IInv, WaitedLong, OwnInterval, Total
    <3> QED BY <3>1, <3>2
  <2> QED BY <2>1, <2>3, <2>4, EwmaStep DEF IInv, Past, Total
<1>6. CASE SnapshotCommit
  <2>1. lastCommit' \in Timevals /\ Past(lastCommit)'
    BY <1>0, <1>6, Gettimeofday DEF SnapshotCommit, Past, Total
  <2>2. Waiters' = {}
    BY <1>6 DEF SnapshotCommit, Waiters
  <2>3. TypeOK'
    BY <1>6, <2>1, <2>2 DEF SnapshotCommit, IInv, TypeOK, Times
  <2> QED BY <1>6, <2>1, <2>2, <2>3 DEF SnapshotCommit, IInv, Past, EwmaInRange, Total
<1>7. CASE UNCHANGED vars
  <2>1. TypeOK'
    BY <1>7 DEF vars, IInv, TypeOK, Waiters
  <2> QED BY <1>7, <2>1
      DEF vars, IInv, Past, EwmaInRange, Waiters, WaitedLong, OwnInterval, Total
<1> QED BY <1>1, <1>2, <1>3, <1>4, <1>5, <1>6, <1>7 DEF Next

LEMMA Inductive == MaxTime < Word => (Spec => []IInv)
<1>1. ASSUME MaxTime < Word PROVE IInv /\ [Next]_vars => IInv'
  BY <1>1, InvStep
<1>2. ASSUME MaxTime < Word PROVE Spec => []IInv
  BY <1>1, <1>2, InvInit, PTL DEF Spec
<1> QED BY <1>2

-----------------------------------------------------------------------------
(* What elapsed_time_in_microseconds says of a time is its age, for every  *)
(* length of a second and every pair of times below the word.              *)
THEOREM AlwaysElapsedIsAge == MaxTime < Word => (Spec => []ElapsedIsAge)
<1>1. ASSUME MaxTime < Word PROVE IInv => ElapsedIsAge
  BY <1>1, ElapsedExact DEF IInv, TypeOK, ElapsedIsAge, Total
<1>2. ASSUME MaxTime < Word PROVE Spec => []ElapsedIsAge
  BY <1>1, <1>2, Inductive, PTL
<1> QED BY <1>2

(* The moving average is never above the default and the longest time that *)
(* there has been, whatever the requests and their order.                  *)
THEOREM AlwaysEwmaInRange == MaxTime < Word => (Spec => []EwmaInRange)
<1>1. IInv => EwmaInRange
  BY DEF IInv
<1>2. ASSUME MaxTime < Word PROVE Spec => []EwmaInRange
  BY <1>1, <1>2, Inductive, PTL
<1> QED BY <1>2

(* A COMMIT_DYN subscriber that is served at once gets a commit younger    *)
(* than the interval it asked for, for every interval that fits.           *)
THEOREM AlwaysServedIsFresh == MaxTime < Word => (Spec => []ServedIsFresh)
<1>1. ASSUME MaxTime < Word, IInv PROVE ServedIsFresh
  <2> SUFFICES ASSUME NEW s \in Subs, policy[s].kind = "dyn", hasCursor[s], DoSnapshot(s),
                      0 < policy[s].asked, 2 * policy[s].asked < IntervalValues
               PROVE  now - Total(lastCommit) < policy[s].asked * Unit
    BY DEF ServedIsFresh, Total
  <2> DEFINE asked == policy[s].asked
             elapsed == Elapsed(lastCommit, DoGettimeofday)
  <2>1. asked \in Nat /\ now \in Second .. MaxTime /\ lastCommit \in Timevals
    <3>1. policy[s] \in Policies
      BY <1>1 DEF IInv, TypeOK
    <3> QED BY <1>1, <3>1, IntervalAssumption DEF IInv, TypeOK, Policies
  <2>2. elapsed = now - Total(lastCommit) /\ elapsed \in Int
    BY <1>1, <2>1, ElapsedExact DEF IInv
  <2>3. OwnInterval(s) = asked * Unit /\ OwnInterval(s) \in 1 .. Word - 1
    BY <2>1, MicrosecondsExact DEF OwnInterval
  <2>4. OwnInterval(s) \in {0} \cup (elapsed + 1 .. Word)
    BY DEF DoSnapshot
  <2> HIDE DEF asked, elapsed
  <2>5. elapsed < OwnInterval(s)
    BY <2>2, <2>3, <2>4
  <2> QED BY <2>2, <2>3, <2>5 DEF asked
<1>2. ASSUME MaxTime < Word PROVE Spec => []ServedIsFresh
  BY <1>1, <1>2, Inductive, PTL
<1> QED BY <1>2

(* do_commit lets the next msync through for whoever do_snapshot has sent  *)
(* to wait by a policy that the owner has, for any number of subscribers   *)
(* and policies.                                                           *)
THEOREM AlwaysWaitersServed == MaxTime < Word => (Spec => []WaitersAreServed)
<1>1. ASSUME MaxTime < Word, IInv PROVE WaitersAreServed
  <2> SUFFICES ASSUME NEW s \in Waiters, Registered(s), now > waiting[s] PROVE DoCommit
    BY <1>1 DEF IInv, WaitersAreServed
  <2>1. CASE policy[s].kind = "adapt" /\ adaptRefs > 0
    BY <2>1 DEF DoCommit
  <2>2. CASE policy[s].kind = "dyn" /\ OwnInterval(s) \in prioList
    <3>1. s \in Subs /\ now \in Second .. MaxTime /\ lastCommit \in Timevals
      BY <1>1 DEF IInv, TypeOK, Waiters
    <3>2. /\ Elapsed(lastCommit, DoGettimeofday) = now - Total(lastCommit)
          /\ Total(lastCommit) \in 0 .. now
      BY <1>1, <3>1, ElapsedExact DEF IInv
    <3>3. waiting[s] \in Int /\ waiting[s] - Total(lastCommit) >= OwnInterval(s)
      BY <1>1, <2>2, <3>1 DEF IInv, TypeOK, WaitedLong, Times
    <3>4. policy[s].asked \in Nat
      <4>1. policy[s] \in Policies
        BY <1>1, <3>1 DEF IInv, TypeOK
      <4> QED BY <2>2, <4>1, IntervalAssumption DEF Policies
    <3>5. OwnInterval(s) \in Int
      BY <3>4, MicrosecondsTyped DEF OwnInterval
    <3>6. Elapsed(lastCommit, DoGettimeofday) > OwnInterval(s)
      BY <3>1, <3>2, <3>3, <3>5
    <3> QED BY <2>2, <3>6 DEF DoCommit
  <2> QED BY <2>1, <2>2 DEF Registered
<1>2. ASSUME MaxTime < Word PROVE Spec => []WaitersAreServed
  BY <1>1, <1>2, Inductive, PTL
<1> QED BY <1>2
=============================================================================
