---------------------------- MODULE KSnap_proofs ----------------------------
(***************************************************************************)
(* Proofs about KSnap for every number of pages, subscribers, frames and   *)
(* commits, with or without empty commits and forks of the owner: its      *)
(* inductive invariant, and from it the safety properties.                 *)
(***************************************************************************)
EXTENDS KSnap, TLAPS

USE DEF Frames, Versions, Staged, ownerVars, listVars, WrProtected

(* An entry of any version is an entry for some page and frame.            *)
LEMMA EntryTyped ==
  ASSUME TypeOK, NEW k \in Versions, NEW e \in pteLists[k]
  PROVE  e \in Entries /\ e.page \in Pages /\ e.frame \in Frames
  BY DEF TypeOK, Entries

(* Type correctness is kept by every step.                                 *)
LEMMA TypeStep == TypeOK /\ [Next]_vars => TypeOK'
<1> SUFFICES ASSUME TypeOK, [Next]_vars PROVE TypeOK'
  OBVIOUS
<1> USE BoundsAssumption, HolderAssumption, PointerAssumption
<1>1. ASSUME NEW i \in Pages, NEW v \in Values, DoSnapshotAddPte(i, v)
      PROVE  TypeOK'
  <2>1. [page |-> i, frame |-> ownerPte[i] + 1] \in Entries
    BY <1>1 DEF DoSnapshotAddPte, TypeOK, Entries
  <2>2. pteLists' \in [Versions -> SUBSET Entries]
    BY <1>1, <2>1 DEF DoSnapshotAddPte, TypeOK
  <2>3. memory' \in [Pages -> [Frames -> Values]]
    BY <1>1 DEF DoSnapshotAddPte, TypeOK
  <2> QED
    BY <1>1, <2>2, <2>3 DEF DoSnapshotAddPte, TypeOK
<1>2. ASSUME NEW i \in Pages, NEW v \in Values, StoreInPlace(i, v)
      PROVE  TypeOK'
  BY <1>2 DEF StoreInPlace, TypeOK
<1>3. CASE ForkChildren
  BY <1>3 DEF ForkChildren, TypeOK
<1>4. CASE SnapshotCommit
  <2>1. revision' \in 0 .. MaxCommits /\ revision' = revision + 1
    BY <1>4 DEF SnapshotCommit, TypeOK
  <2>2. pteLists' \in [1 .. Staged + 1 -> SUBSET Entries]
    BY <1>4 DEF SnapshotCommit, TypeOK
  <2>3. /\ writable' \in [Pages -> BOOLEAN]
        /\ pageCache' \in [Pages -> Frames]
        /\ pageTree' \in [Pages -> 0 .. MaxFrame]
    BY <1>4 DEF SnapshotCommit, TypeOK
  <2>4. cursor' \in [Subs -> (0 .. revision') \cup {Wild}]
    BY <1>4, <2>1 DEF SnapshotCommit, TypeOK
  <2> QED
    BY <1>4, <2>1, <2>2, <2>3, <2>4 DEF SnapshotCommit, TypeOK
<1>5. ASSUME NEW s \in Subs, InitSubscriber(s)
      PROVE  TypeOK'
  BY <1>5 DEF InitSubscriber, TypeOK
<1>6. ASSUME NEW s \in Subs, NEW i \in Pages, ReadFault(s, i)
      PROVE  TypeOK'
  BY <1>6 DEF ReadFault, TypeOK
<1>7. ASSUME NEW s \in Subs, GetSnapshot(s)
      PROVE  TypeOK'
  <2>1. todo' \in SUBSET Entries
    BY <1>7 DEF GetSnapshot, Walked, TypeOK
  <2> QED
    BY <1>7, <2>1 DEF GetSnapshot, TypeOK
<1>8. ASSUME NEW s \in Subs, FollowWildCursor(s)
      PROVE  TypeOK'
  BY <1>8 DEF FollowWildCursor, TypeOK
<1>9. ASSUME NEW s \in Subs, NEW e \in todo, CopyPteEntry(s, e)
      PROVE  TypeOK'
  BY <1>9 DEF CopyPteEntry, TypeOK, Entries
<1>10. ASSUME NEW s \in Subs, GetSnapshotEnd(s)
       PROVE  TypeOK'
  <2>1. PICK new \in NewList(s) : cursor' = [cursor EXCEPT ![s] = new]
    BY <1>10 DEF GetSnapshotEnd
  <2>2. new \in (0 .. revision) \cup {Wild}
    BY <2>1 DEF NewList, LastFilled, Filled, Walked, TypeOK
  <2> QED
    BY <1>10, <2>1, <2>2 DEF GetSnapshotEnd, TypeOK
<1>11. CASE UNCHANGED vars
  BY <1>11 DEF vars, TypeOK
<1> QED
  BY <1>1, <1>2, <1>3, <1>4, <1>5, <1>6, <1>7, <1>8, <1>9, <1>10, <1>11
  DEF Next, OwnerNext, SubNext, Walk

(* Type correctness of KSnap.                                              *)
THEOREM TypeCorrect == Spec => []TypeOK
<1>1. Init => TypeOK
  BY BoundsAssumption, HolderAssumption, PointerAssumption DEF Init, TypeOK
<1> QED
  BY <1>1, TypeStep, PTL DEF Spec

-----------------------------------------------------------------------------
(* snapshot_commit replaces exactly the pages with uncommitted changes.    *)
LEMMA ReplacedDirty ==
  ASSUME IInv
  PROVE  Replaced = {i \in Pages : pageCache[i] < ownerPte[i]}
<1>1. StagedPages \subseteq Pages
  <2>1. pteLists[Staged] \subseteq Entries
    BY BoundsAssumption DEF IInv, TypeOK
  <2> QED
    BY <2>1 DEF StagedPages, Entries
<1>2. ASSUME NEW i \in Replaced
      PROVE  i \in Pages /\ pageCache[i] < ownerPte[i]
  <2>1. i \in Pages /\ pageCache[i] # ownerPte[i]
    BY <1>1 DEF Replaced
  <2>2. pageCache[i] <= ownerPte[i] /\ pageCache[i] \in Frames /\ ownerPte[i] \in Frames
    BY <2>1 DEF IInv, OwnerAhead, TypeOK
  <2> QED
    BY <2>1, <2>2, BoundsAssumption
<1>3. ASSUME NEW i \in Pages, pageCache[i] < ownerPte[i]
      PROVE  i \in Replaced
  <2>1. [page |-> i, frame |-> ownerPte[i]] \in pteLists[Staged]
    BY <1>3 DEF IInv, StagedComplete
  <2>2. i \in StagedPages
    BY <2>1 DEF StagedPages
  <2>3. pageCache[i] # ownerPte[i]
    BY <1>3, BoundsAssumption DEF IInv, TypeOK
  <2> QED
    BY <2>2, <2>3 DEF Replaced
<1> QED
  BY <1>2, <1>3

(* What snapshot_commit does to the lists: every entry of a committed or   *)
(* staged version survives unless its page is replaced, and a replaced     *)
(* page has its new frame's entry in the version just committed.           *)
LEMMA CommitLists ==
  ASSUME IInv, SnapshotCommit
  PROVE  /\ \A k \in Versions : \A e \in pteLists[k] :
              e.page \notin Replaced => e \in pteLists'[k]
         /\ \A i \in Replaced : [page |-> i, frame |-> ownerPte[i]] \in pteLists'[Staged]
         /\ \A k \in Versions : pteLists'[k] \subseteq pteLists[k]
         /\ pteLists'[Staged + 1] = {}
         /\ revision \in Nat /\ revision' = revision + 1
<1>1. revision \in Nat /\ revision' = revision + 1
  BY BoundsAssumption DEF IInv, TypeOK, SnapshotCommit
<1>2. pteLists' = [k \in 1 .. Staged + 1 |->
                     IF k = Staged + 1 THEN {} ELSE {e \in pteLists[k] : ~DeleteOldPte(e)}]
  BY DEF SnapshotCommit
<1>3. \A k \in Versions : pteLists'[k] = {e \in pteLists[k] : ~DeleteOldPte(e)}
  BY <1>1, <1>2
<1>4. pteLists'[Staged + 1] = {}
  BY <1>1, <1>2
<1>5. ASSUME NEW i \in Replaced
      PROVE  [page |-> i, frame |-> ownerPte[i]] \in pteLists'[Staged]
  <2> DEFINE e == [page |-> i, frame |-> ownerPte[i]]
  <2>1. i \in Pages /\ pageCache[i] < ownerPte[i]
    BY ReplacedDirty
  <2>2. e \in pteLists[Staged]
    BY <2>1 DEF IInv, StagedComplete
  <2>3. pageTree[i] = 0 \/ pageTree[i] = pageCache[i]
    BY <2>1 DEF IInv, TreeNotDangling
  <2>4. pageTree[i] # ownerPte[i]
    BY <2>1, <2>3, BoundsAssumption DEF IInv, TypeOK
  <2>5. ~DeleteOldPte(e)
    BY <2>4 DEF DeleteOldPte
  <2> QED
    BY <1>1, <1>3, <2>2, <2>5
<1> QED
  BY <1>1, <1>3, <1>4, <1>5 DEF DeleteOldPte

-----------------------------------------------------------------------------
(* The invariant holds initially.                                          *)
LEMMA IInvInit == Init => IInv
<1> SUFFICES ASSUME Init PROVE IInv
  OBVIOUS
<1>1. TypeOK
  BY BoundsAssumption, HolderAssumption, PointerAssumption DEF Init, TypeOK
<1>2. OwnerAhead /\ WritableUncommitted /\ StagedComplete
  BY DEF Init, OwnerAhead, WritableUncommitted, StagedComplete
<1>3. TreeNotDangling
  BY DEF Init, TreeNotDangling
<1>4. SubsBehindOwner /\ NoLostUpdate /\ WalkComplete
  BY HolderAssumption DEF Init, SubsBehindOwner, NoLostUpdate, WalkComplete
<1> QED
  BY <1>1, <1>2, <1>3, <1>4 DEF IInv

(* A write fault: the new frame and its entry arrive together.             *)
LEMMA AddPteStep ==
  ASSUME IInv, TypeOK', NEW i \in Pages, NEW v \in Values, DoSnapshotAddPte(i, v)
  PROVE  IInv'
<1> DEFINE copy == ownerPte[i] + 1
           new  == [page |-> i, frame |-> copy]
<1>1. /\ ownerPte' = [ownerPte EXCEPT ![i] = copy]
      /\ writable' = [writable EXCEPT ![i] = TRUE]
      /\ pteLists' = [pteLists EXCEPT ![Staged] = @ \cup {new}]
      /\ UNCHANGED <<pageCache, revision, pageTree, subPte, cursor, sema, todo>>
  BY DEF DoSnapshotAddPte
<1>2. /\ ownerPte \in [Pages -> Frames] /\ pageCache \in [Pages -> Frames]
      /\ subPte \in [Subs -> [Pages -> 0 .. MaxFrame]]
      /\ writable \in [Pages -> BOOLEAN]
      /\ revision \in Nat
      /\ pteLists \in [Versions -> SUBSET Entries]
      /\ MaxFrame \in Nat
  BY BoundsAssumption DEF IInv, TypeOK
<1>3. /\ pteLists'[Staged] = pteLists[Staged] \cup {new}
      /\ \A k \in 1 .. revision : pteLists'[k] = pteLists[k]
  BY <1>1, <1>2
<1>4. OwnerAhead'
  BY <1>1, <1>2 DEF IInv, OwnerAhead
<1>5. WritableUncommitted'
  <2>1. \A j \in Pages : j # i => writable'[j] = writable[j] /\ ownerPte'[j] = ownerPte[j]
    BY <1>1, <1>2
  <2>2. pageCache'[i] < ownerPte'[i]
    BY <1>1, <1>2 DEF IInv, OwnerAhead
  <2> QED
    BY <1>1, <2>1, <2>2 DEF IInv, WritableUncommitted
<1>6. StagedComplete'
  <2>1. ASSUME NEW j \in Pages, pageCache'[j] < ownerPte'[j]
        PROVE  [page |-> j, frame |-> ownerPte'[j]] \in pteLists'[Staged]
    <3>1. CASE j = i
      BY <1>1, <1>2, <1>3, <3>1
    <3>2. CASE j # i
      BY <1>1, <1>2, <1>3, <2>1, <3>2 DEF IInv, StagedComplete
    <3> QED
      BY <3>1, <3>2
  <2>2. ASSUME NEW e \in pteLists'[Staged]
        PROVE  e.frame \in pageCache'[e.page] + 1 .. ownerPte'[e.page]
    <3>1. CASE e = new
      BY <1>1, <1>2, <3>1 DEF IInv, OwnerAhead
    <3>2. CASE e \in pteLists[Staged]
      <4>1. e.page \in Pages /\ e.frame \in Frames
        BY <1>2, <3>2 DEF Entries
      <4>2. e.frame \in pageCache[e.page] + 1 .. ownerPte[e.page]
        BY <3>2 DEF IInv, StagedComplete
      <4> QED
        BY <1>1, <1>2, <4>1, <4>2
    <3> QED
      BY <1>3, <3>1, <3>2
  <2> QED
    BY <1>1, <2>1, <2>2 DEF StagedComplete
<1>7. TreeNotDangling'
  BY <1>1, <1>2, <1>3 DEF IInv, TreeNotDangling
<1>8. SubsBehindOwner'
  BY <1>1, <1>2 DEF IInv, SubsBehindOwner
<1>9. NoLostUpdate'
  BY <1>1, <1>3 DEF IInv, NoLostUpdate, Walked
<1>10. WalkComplete'
  BY <1>1 DEF IInv, WalkComplete
<1> QED
  BY <1>4, <1>5, <1>6, <1>7, <1>8, <1>9, <1>10 DEF IInv

(* A commit: what was replaced has its entry in the version just           *)
(* committed, which every cursor still has ahead of it.                    *)
LEMMA CommitStep ==
  ASSUME IInv, TypeOK', SnapshotCommit
  PROVE  IInv'
<1>1. /\ sema = None
      /\ writable'  = [i \in Pages |-> writable[i] /\ i \notin StagedPages]
      /\ pageCache' = [i \in Pages |-> IF i \in Replaced THEN ownerPte[i] ELSE pageCache[i]]
      /\ pageTree'  = [i \in Pages |-> IF i \in Replaced THEN ownerPte[i] ELSE pageTree[i]]
      /\ UNCHANGED <<ownerPte, memory, subPte, cursor, sema, todo>>
  BY DEF SnapshotCommit
<1>2. /\ ownerPte \in [Pages -> Frames] /\ pageCache \in [Pages -> Frames]
      /\ pageTree \in [Pages -> 0 .. MaxFrame]
      /\ subPte \in [Subs -> [Pages -> 0 .. MaxFrame]]
      /\ cursor \in [Subs -> (0 .. revision) \cup {Wild}]
      /\ pteLists \in [Versions -> SUBSET Entries]
      /\ MaxFrame \in Nat /\ revision \in Nat
  BY BoundsAssumption DEF IInv, TypeOK
<1>3. Replaced = {i \in Pages : pageCache[i] < ownerPte[i]}
  BY ReplacedDirty
<1>4. \A i \in Pages : pageCache'[i] = ownerPte[i]
  BY <1>1, <1>2, <1>3 DEF IInv, OwnerAhead
<1>5. OwnerAhead'
  BY <1>1, <1>2, <1>4 DEF OwnerAhead
<1>6. WritableUncommitted'
  <2>1. ASSUME NEW i \in Pages, writable'[i]
        PROVE  FALSE
    <3>1. writable[i] /\ i \notin StagedPages
      BY <1>1, <2>1
    <3>2. i \in Replaced
      BY <1>3, <3>1 DEF IInv, WritableUncommitted
    <3> QED
      BY <3>1, <3>2 DEF Replaced
  <2> QED
    BY <2>1 DEF WritableUncommitted
<1>7. StagedComplete'
  <2>1. pteLists'[Staged'] = {}
    BY CommitLists
  <2>2. \A i \in Pages : ~(pageCache'[i] < ownerPte'[i])
    BY <1>1, <1>2, <1>4
  <2> QED
    BY <2>1, <2>2 DEF StagedComplete
<1>8. TreeNotDangling'
  <2> SUFFICES ASSUME NEW i \in Pages
               PROVE  IF pageTree'[i] = 0
                      THEN pageCache'[i] = 1
                      ELSE /\ pageTree'[i] = pageCache'[i]
                           /\ \E k \in 1 .. revision' :
                                [page |-> i, frame |-> pageTree'[i]] \in pteLists'[k]
    BY DEF TreeNotDangling
  <2>1. CASE i \in Replaced
    <3>1. pageTree'[i] = ownerPte[i] /\ pageCache'[i] = ownerPte[i] /\ ownerPte[i] # 0
      BY <1>1, <1>2, <2>1
    <3>2. Staged \in 1 .. revision'
      BY <1>2, CommitLists
    <3>3. [page |-> i, frame |-> ownerPte[i]] \in pteLists'[Staged]
      BY <2>1, CommitLists
    <3> QED
      BY <3>1, <3>2, <3>3
  <2>2. CASE i \notin Replaced
    <3>1. pageTree'[i] = pageTree[i] /\ pageCache'[i] = pageCache[i]
      BY <1>1, <2>2
    <3>2. CASE pageTree[i] = 0
      BY <3>1, <3>2 DEF IInv, TreeNotDangling
    <3>3. CASE pageTree[i] # 0
      <4> DEFINE e == [page |-> i, frame |-> pageTree[i]]
      <4>1. PICK k \in 1 .. revision : e \in pteLists[k]
        BY <3>3 DEF IInv, TreeNotDangling
      <4>2. k \in Versions /\ k \in 1 .. revision'
        BY <1>2, <4>1, CommitLists
      <4>3. e \in pteLists'[k]
        <5>1. e.page \notin Replaced
          BY <2>2
        <5> HIDE DEF e
        <5> QED
          BY <4>1, <4>2, <5>1, CommitLists
      <4>4. pageTree[i] = pageCache[i]
        BY <3>3 DEF IInv, TreeNotDangling
      <4> QED
        BY <3>1, <3>3, <4>2, <4>3, <4>4
    <3> QED
      BY <3>2, <3>3
  <2> QED
    BY <2>1, <2>2
<1>9. SubsBehindOwner'
  BY <1>1 DEF IInv, SubsBehindOwner
<1>10. NoLostUpdate'
  <2> SUFFICES ASSUME NEW s \in Subs, NEW i \in Pages,
                      cursor[s] # Wild, subPte[s][i] \in 1 .. pageCache'[i] - 1
               PROVE  \E k \in Walked(s)' : \E e \in pteLists'[k] : e.page = i
    BY <1>1 DEF NoLostUpdate
  <2>1. Walked(s) \cup {Staged} \subseteq Walked(s)'
    BY <1>1, <1>2, CommitLists DEF Walked
  <2>2. CASE i \in Replaced
    BY <2>1, <2>2, CommitLists
  <2>3. CASE i \notin Replaced
    <3>1. subPte[s][i] \in 1 .. pageCache[i] - 1
      BY <1>1, <2>3
    <3>2. PICK k \in Walked(s) : \E e \in pteLists[k] : e.page = i
      BY <1>1, <3>1, HolderAssumption DEF IInv, NoLostUpdate
    <3>3. PICK e \in pteLists[k] : e.page = i
      BY <3>2
    <3>4. e \in pteLists'[k]
      BY <1>2, <2>3, <3>2, <3>3, CommitLists DEF Walked
    <3> QED
      BY <2>1, <3>2, <3>3, <3>4
  <2> QED
    BY <2>2, <2>3
<1>11. WalkComplete'
  BY <1>1, HolderAssumption DEF WalkComplete
<1> QED
  BY <1>5, <1>6, <1>7, <1>8, <1>9, <1>10, <1>11 DEF IInv

-----------------------------------------------------------------------------
(* The subscribers' steps leave the owner, the lists and the caches alone. *)
LEMMA ListsUntouched ==
  ASSUME IInv, UNCHANGED <<ownerVars, listVars>>
  PROVE  (OwnerAhead /\ WritableUncommitted /\ StagedComplete /\ TreeNotDangling)'
<1>1. OwnerAhead' /\ WritableUncommitted'
  BY DEF IInv, OwnerAhead, WritableUncommitted
<1>2. StagedComplete'
  BY DEF IInv, StagedComplete
<1>3. TreeNotDangling'
  BY DEF IInv, TreeNotDangling
<1> QED
  BY <1>1, <1>2, <1>3

(* A fresh mapping maps nothing, so nothing of it can be outdated.         *)
LEMMA InitSubscriberStep ==
  ASSUME IInv, NEW s \in Subs, InitSubscriber(s)
  PROVE  (SubsBehindOwner /\ NoLostUpdate /\ WalkComplete)'
<1>1. /\ subPte' = [subPte EXCEPT ![s] = [i \in Pages |-> 0]]
      /\ cursor' = [cursor EXCEPT ![s] = 0]
      /\ UNCHANGED <<ownerPte, pageCache, revision, pteLists, sema, todo>>
      /\ sema # s
  BY DEF InitSubscriber
<1>2. /\ ownerPte \in [Pages -> Frames] /\ pageCache \in [Pages -> Frames]
      /\ subPte \in [Subs -> [Pages -> 0 .. MaxFrame]]
      /\ cursor \in [Subs -> (0 .. revision) \cup {Wild}]
      /\ MaxFrame \in Nat
  BY BoundsAssumption DEF IInv, TypeOK
<1>3. \A i \in Pages : subPte'[s][i] = 0
  BY <1>1, <1>2
<1>4. \A t \in Subs : t # s => subPte'[t] = subPte[t] /\ cursor'[t] = cursor[t]
  BY <1>1, <1>2
<1>5. SubsBehindOwner'
  BY <1>1, <1>2, <1>3, <1>4 DEF IInv, SubsBehindOwner
<1>6. NoLostUpdate'
  BY <1>1, <1>3, <1>4 DEF IInv, NoLostUpdate, Walked
<1>7. WalkComplete'
  BY <1>1, <1>4 DEF IInv, WalkComplete
<1> QED
  BY <1>5, <1>6, <1>7

(* A read fault maps the committed frame, which is up to date.             *)
LEMMA ReadFaultStep ==
  ASSUME IInv, NEW s \in Subs, NEW i \in Pages, ReadFault(s, i)
  PROVE  (SubsBehindOwner /\ NoLostUpdate /\ WalkComplete)'
<1>1. /\ subPte' = [subPte EXCEPT ![s][i] = pageCache[i]]
      /\ UNCHANGED <<ownerPte, pageCache, revision, pteLists, cursor, sema, todo>>
  BY DEF ReadFault
<1>2. /\ ownerPte \in [Pages -> Frames] /\ pageCache \in [Pages -> Frames]
      /\ subPte \in [Subs -> [Pages -> 0 .. MaxFrame]]
      /\ MaxFrame \in Nat
  BY BoundsAssumption DEF IInv, TypeOK
<1>3. subPte'[s][i] = pageCache[i]
  BY <1>1, <1>2
<1>4. \A t \in Subs, j \in Pages : <<t, j>> # <<s, i>> => subPte'[t][j] = subPte[t][j]
  BY <1>1, <1>2
<1>5. SubsBehindOwner'
  <2> SUFFICES ASSUME NEW t \in Subs, NEW j \in Pages
               PROVE  subPte'[t][j] <= ownerPte[j]
    BY <1>1 DEF SubsBehindOwner
  <2>1. CASE t = s /\ j = i
    BY <1>3, <2>1 DEF IInv, OwnerAhead
  <2>2. CASE <<t, j>> # <<s, i>>
    BY <1>4, <2>2 DEF IInv, SubsBehindOwner
  <2> QED
    BY <2>1, <2>2
<1>6. \A t \in Subs, j \in Pages :
        subPte'[t][j] \in 1 .. pageCache[j] - 1 => subPte[t][j] \in 1 .. pageCache[j] - 1
  BY <1>2, <1>3, <1>4
<1>7. NoLostUpdate'
  BY <1>1, <1>6 DEF IInv, NoLostUpdate, Walked
<1>8. WalkComplete'
  BY <1>1, <1>6 DEF IInv, WalkComplete
<1> QED
  BY <1>5, <1>7, <1>8

(* get_snapshot begins: what NoLostUpdate says is in the lists is what the *)
(* walk will copy.                                                         *)
LEMMA GetSnapshotStep ==
  ASSUME IInv, NEW s \in Subs, GetSnapshot(s)
  PROVE  (SubsBehindOwner /\ NoLostUpdate /\ WalkComplete)'
<1>1. /\ sema = None /\ sema' = s
      /\ todo' = UNION {pteLists[k] : k \in Walked(s)}
      /\ UNCHANGED <<ownerPte, pageCache, revision, pteLists, subPte, cursor>>
  BY DEF GetSnapshot
<1>2. SubsBehindOwner'
  BY <1>1 DEF IInv, SubsBehindOwner
<1>3. NoLostUpdate'
  BY <1>1, HolderAssumption DEF IInv, NoLostUpdate, Walked
<1>4. WalkComplete'
  <2> SUFFICES ASSUME NEW i \in Pages,
                      cursor[s] # Wild, subPte[s][i] \in 1 .. pageCache[i] - 1
               PROVE  \E e \in todo' : e.page = i
    BY <1>1 DEF WalkComplete
  <2>1. PICK k \in Walked(s) : \E e \in pteLists[k] : e.page = i
    BY <1>1, HolderAssumption DEF IInv, NoLostUpdate
  <2> QED
    BY <1>1, <2>1
<1> QED
  BY <1>2, <1>3, <1>4

(* A subscriber that dies in the kernel maps what it mapped.               *)
LEMMA FollowWildCursorStep ==
  ASSUME IInv, NEW s \in Subs, FollowWildCursor(s)
  PROVE  (SubsBehindOwner /\ NoLostUpdate /\ WalkComplete)'
<1>1. /\ sema = None /\ sema' = s /\ cursor[s] = Wild
      /\ UNCHANGED <<ownerPte, pageCache, revision, pteLists, subPte, cursor, todo>>
  BY DEF FollowWildCursor
<1>2. SubsBehindOwner'
  BY <1>1 DEF IInv, SubsBehindOwner
<1>3. NoLostUpdate'
  BY <1>1, HolderAssumption DEF IInv, NoLostUpdate, Walked
<1>4. WalkComplete'
  BY <1>1 DEF WalkComplete
<1> QED
  BY <1>2, <1>3, <1>4

(* A copied page is up to date; the entries of the others are still to do. *)
LEMMA CopyPteEntryStep ==
  ASSUME IInv, NEW s \in Subs, NEW e \in todo, CopyPteEntry(s, e)
  PROVE  (SubsBehindOwner /\ NoLostUpdate /\ WalkComplete)'
<1>1. /\ sema = s /\ todo' = todo \ {e}
      /\ subPte' = [subPte EXCEPT ![s][e.page] = ownerPte[e.page]]
      /\ UNCHANGED <<ownerPte, pageCache, revision, pteLists, cursor, sema>>
  BY DEF CopyPteEntry
<1>2. /\ ownerPte \in [Pages -> Frames] /\ pageCache \in [Pages -> Frames]
      /\ subPte \in [Subs -> [Pages -> 0 .. MaxFrame]]
      /\ MaxFrame \in Nat
      /\ e.page \in Pages
  BY BoundsAssumption DEF IInv, TypeOK, Entries
<1>3. /\ subPte'[s][e.page] = ownerPte[e.page]
      /\ \A j \in Pages : j # e.page => subPte'[s][j] = subPte[s][j]
      /\ \A t \in Subs : t # s => subPte'[t] = subPte[t]
  BY <1>1, <1>2
<1>4. SubsBehindOwner'
  BY <1>1, <1>2, <1>3 DEF IInv, SubsBehindOwner
<1>5. NoLostUpdate'
  BY <1>1, <1>3 DEF IInv, NoLostUpdate, Walked
<1>6. WalkComplete'
  <2> SUFFICES ASSUME NEW i \in Pages,
                      cursor[s] # Wild, subPte'[s][i] \in 1 .. pageCache[i] - 1
               PROVE  \E g \in todo' : g.page = i
    BY <1>1 DEF WalkComplete
  <2>1. i # e.page
    BY <1>2, <1>3 DEF IInv, OwnerAhead
  <2>2. PICK g \in todo : g.page = i
    BY <1>1, <1>3, <2>1 DEF IInv, WalkComplete
  <2> QED
    BY <1>1, <2>1, <2>2
<1> QED
  BY <1>4, <1>5, <1>6

(* get_snapshot ends: with nothing left to copy no page is outdated, so    *)
(* wherever the cursor goes nothing is missed.                             *)
LEMMA GetSnapshotEndStep ==
  ASSUME IInv, NEW s \in Subs, GetSnapshotEnd(s)
  PROVE  (SubsBehindOwner /\ NoLostUpdate /\ WalkComplete)'
<1>1. /\ sema = s /\ sema' = None /\ cursor[s] # Wild /\ todo = {}
      /\ UNCHANGED <<ownerPte, pageCache, revision, pteLists, subPte, todo>>
      /\ \E new \in NewList(s) : cursor' = [cursor EXCEPT ![s] = new]
  BY DEF GetSnapshotEnd
<1>2. SubsBehindOwner'
  BY <1>1 DEF IInv, SubsBehindOwner
<1>3. \A i \in Pages : subPte[s][i] \notin 1 .. pageCache[i] - 1
  BY <1>1 DEF IInv, WalkComplete
<1>4. \A t \in Subs : t # s => cursor'[t] = cursor[t]
  BY <1>1 DEF IInv, TypeOK
<1>5. NoLostUpdate'
  BY <1>1, <1>3, <1>4 DEF IInv, NoLostUpdate, Walked
<1>6. WalkComplete'
  BY <1>1, HolderAssumption DEF WalkComplete
<1> QED
  BY <1>2, <1>5, <1>6

(* Every step keeps the invariant.                                         *)
LEMMA IInvStep == IInv /\ [Next]_vars => IInv'
<1> SUFFICES ASSUME IInv, [Next]_vars PROVE IInv'
  OBVIOUS
<1>0. TypeOK'
  BY TypeStep DEF IInv
<1>1. ASSUME NEW i \in Pages, NEW v \in Values, DoSnapshotAddPte(i, v)
      PROVE  IInv'
  BY <1>0, <1>1, AddPteStep
<1>2. CASE UNCHANGED <<ownerPte, listVars, subPte, cursor, sema, todo>> /\ UNCHANGED writable
  <2>1. SubsBehindOwner' /\ NoLostUpdate' /\ WalkComplete'
    BY <1>2 DEF IInv, SubsBehindOwner, NoLostUpdate, Walked, WalkComplete
  <2>2. OwnerAhead' /\ WritableUncommitted' /\ StagedComplete' /\ TreeNotDangling'
    BY <1>2 DEF IInv, OwnerAhead, WritableUncommitted, StagedComplete, TreeNotDangling
  <2> QED
    BY <1>0, <2>1, <2>2 DEF IInv
<1>3. ASSUME NEW i \in Pages, NEW v \in Values, StoreInPlace(i, v)
      PROVE  IInv'
  BY <1>2, <1>3 DEF StoreInPlace
<1>4. CASE ForkChildren
  <2>1. /\ UNCHANGED <<ownerPte, listVars, subPte, cursor, sema, todo>>
        /\ \A i \in Pages : ~writable'[i]
    BY <1>4 DEF ForkChildren
  <2>2. SubsBehindOwner' /\ NoLostUpdate' /\ WalkComplete'
    BY <2>1 DEF IInv, SubsBehindOwner, NoLostUpdate, Walked, WalkComplete
  <2>3. OwnerAhead' /\ WritableUncommitted' /\ StagedComplete' /\ TreeNotDangling'
    BY <2>1 DEF IInv, OwnerAhead, WritableUncommitted, StagedComplete, TreeNotDangling
  <2> QED
    BY <1>0, <2>2, <2>3 DEF IInv
<1>5. CASE SnapshotCommit
  BY <1>0, <1>5, CommitStep
<1>6. ASSUME NEW s \in Subs, SubNext(s)
      PROVE  IInv'
  <2>1. UNCHANGED <<ownerVars, listVars>>
    BY <1>6 DEF SubNext, Walk, InitSubscriber, ReadFault, GetSnapshot, FollowWildCursor,
                CopyPteEntry, GetSnapshotEnd
  <2>2. (SubsBehindOwner /\ NoLostUpdate /\ WalkComplete)'
    BY <1>6, InitSubscriberStep, ReadFaultStep, GetSnapshotStep, FollowWildCursorStep,
       CopyPteEntryStep, GetSnapshotEndStep DEF SubNext, Walk
  <2> QED
    BY <1>0, <2>1, <2>2, ListsUntouched DEF IInv
<1>7. CASE UNCHANGED vars
  BY <1>2, <1>7 DEF vars
<1> QED
  BY <1>1, <1>3, <1>4, <1>5, <1>6, <1>7 DEF Next, OwnerNext

(* The inductive invariant of KSnap.                                       *)
THEOREM Invariance == Spec => []IInv
BY IInvInit, IInvStep, PTL DEF Spec

-----------------------------------------------------------------------------
(* Whatever a lagging subscriber misses is still in a version ahead of its *)
(* cursor: delete_old_pte never unlinks the last entry of an update that   *)
(* somebody has not seen.                                                  *)
THEOREM NoUpdateLost == Spec => []NoLostUpdate
BY Invariance, PTL DEF IInv

(* snapshot_page_tree never holds an entry that was freed.                 *)
THEOREM TreeSound == Spec => []TreeNotDangling
BY Invariance, PTL DEF IInv

(* A subscriber that is up to date maps the committed frame of every page  *)
(* without uncommitted changes.                                            *)
THEOREM SnapshotsExact == Spec => []SnapshotExact
<1>1. IInv => SnapshotExact
  <2> SUFFICES ASSUME IInv, NEW s \in Subs, NEW i \in Pages,
                      sema # s, cursor[s] # Wild, Filled(s) = {}, Clean(i)
               PROVE  subPte[s][i] \in {0, pageCache[i]}
    BY DEF SnapshotExact
  <2>1. subPte[s][i] \in 0 .. MaxFrame /\ pageCache[i] \in Frames /\ MaxFrame \in Nat
    BY BoundsAssumption DEF IInv, TypeOK
  <2>2. subPte[s][i] <= pageCache[i]
    BY DEF IInv, SubsBehindOwner, Clean
  <2>3. subPte[s][i] \notin 1 .. pageCache[i] - 1
    BY DEF IInv, NoLostUpdate, Filled
  <2> QED
    BY <2>1, <2>2, <2>3
<1> QED
  BY <1>1, Invariance, PTL

(* The frames that are or were committed never change.                     *)
THEOREM CommittedFramesFrozen == Spec => ImageFrozen
<1> DEFINE Frozen == \A i \in Pages : \A f \in 1 .. pageCache[i] : memory'[i][f] = memory[i][f]
<1>1. IInv /\ [Next]_vars => Frozen
  <2> SUFFICES ASSUME IInv, [Next]_vars, NEW j \in Pages, NEW f \in 1 .. pageCache[j]
               PROVE  memory'[j][f] = memory[j][f]
    OBVIOUS
  <2>1. /\ ownerPte \in [Pages -> Frames] /\ pageCache \in [Pages -> Frames]
        /\ memory \in [Pages -> [Frames -> Values]]
        /\ MaxFrame \in Nat
    BY BoundsAssumption DEF IInv, TypeOK
  <2>2. f \in Frames
    BY <2>1
  <2>3. ASSUME NEW i \in Pages, NEW v \in Values, DoSnapshotAddPte(i, v)
        PROVE  memory'[j][f] = memory[j][f]
    <3>1. memory' = [memory EXCEPT ![i][ownerPte[i] + 1] = v]
      BY <2>3 DEF DoSnapshotAddPte
    <3>2. i = j => f # ownerPte[i] + 1
      BY <2>1 DEF IInv, OwnerAhead
    <3> QED
      BY <2>1, <2>2, <3>1, <3>2
  <2>4. ASSUME NEW i \in Pages, NEW v \in Values, StoreInPlace(i, v)
        PROVE  memory'[j][f] = memory[j][f]
    <3>1. memory' = [memory EXCEPT ![i][ownerPte[i]] = v] /\ writable[i]
      BY <2>4 DEF StoreInPlace
    <3>2. pageCache[i] < ownerPte[i]
      BY <3>1 DEF IInv, WritableUncommitted
    <3>3. i = j => f # ownerPte[i]
      BY <2>1, <3>2
    <3> QED
      BY <2>1, <2>2, <3>1, <3>3
  <2>5. CASE UNCHANGED memory
    BY <2>5
  <2> QED
    BY <2>3, <2>4, <2>5
    DEF Next, OwnerNext, SubNext, Walk, ForkChildren, SnapshotCommit, InitSubscriber, ReadFault,
        GetSnapshot, FollowWildCursor, CopyPteEntry, GetSnapshotEnd, vars
<1> QED
  BY <1>1, Invariance, PTL DEF Spec, ImageFrozen

(* No step but a fresh mapping takes a subscriber to an older frame.       *)
THEOREM SubscribersNeverBack == Spec => NeverBack
<1> DEFINE Forward == \A s \in Subs, i \in Pages :
                        subPte'[s][i] # 0 => subPte'[s][i] >= subPte[s][i]
<1>1. IInv /\ [Next]_vars => Forward
  <2> SUFFICES ASSUME IInv, [Next]_vars, NEW t \in Subs, NEW j \in Pages, subPte'[t][j] # 0
               PROVE  subPte'[t][j] >= subPte[t][j]
    OBVIOUS
  <2>1. /\ ownerPte \in [Pages -> Frames] /\ pageCache \in [Pages -> Frames]
        /\ subPte \in [Subs -> [Pages -> 0 .. MaxFrame]]
        /\ MaxFrame \in Nat
    BY BoundsAssumption DEF IInv, TypeOK
  <2>2. ASSUME NEW s \in Subs, InitSubscriber(s)
        PROVE  subPte'[t][j] >= subPte[t][j]
    BY <2>1, <2>2 DEF InitSubscriber
  <2>3. ASSUME NEW s \in Subs, NEW i \in Pages, ReadFault(s, i)
        PROVE  subPte'[t][j] >= subPte[t][j]
    BY <2>1, <2>3 DEF ReadFault
  <2>4. ASSUME NEW s \in Subs, NEW e \in todo, CopyPteEntry(s, e)
        PROVE  subPte'[t][j] >= subPte[t][j]
    <3>1. subPte' = [subPte EXCEPT ![s][e.page] = ownerPte[e.page]]
      BY <2>4 DEF CopyPteEntry
    <3>2. subPte[t][j] <= ownerPte[j]
      BY DEF IInv, SubsBehindOwner
    <3> QED
      BY <2>1, <3>1, <3>2
  <2>5. CASE UNCHANGED subPte
    BY <2>1, <2>5
  <2> QED
    BY <2>2, <2>3, <2>4, <2>5
    DEF Next, OwnerNext, SubNext, Walk, DoSnapshotAddPte, StoreInPlace, ForkChildren,
        SnapshotCommit, GetSnapshot, FollowWildCursor, GetSnapshotEnd, vars
<1> QED
  BY <1>1, Invariance, PTL DEF Spec, NeverBack

-----------------------------------------------------------------------------
(* Two properties hold of an owner that behaves as the tests' owners do.   *)

(* An owner that commits only what it has written: the latest committed    *)
(* version has an entry, and a walker's cursor is not there yet.           *)
LatestFilled == revision > 0 => pteLists[revision] # {}
WalkerBehind == \A s \in Subs : sema = s => revision > 0 /\ cursor[s] # revision

CursorInv == IInv /\ CursorInList /\ LatestFilled /\ WalkerBehind

(* delete_old_pte takes nothing from the version that is being committed,  *)
(* for no entry of it is in the radix tree yet.                            *)
LEMMA StagedKept ==
  ASSUME IInv, SnapshotCommit
  PROVE  pteLists'[Staged] = pteLists[Staged]
<1>1. revision \in Nat /\ Staged \in Versions
  BY BoundsAssumption DEF IInv, TypeOK
<1>2. pteLists' = [k \in 1 .. Staged + 1 |->
                     IF k = Staged + 1 THEN {} ELSE {e \in pteLists[k] : ~DeleteOldPte(e)}]
  BY DEF SnapshotCommit
<1>3. ASSUME NEW e \in pteLists[Staged] PROVE ~DeleteOldPte(e)
  <2>1. e.page \in Pages /\ e.frame \in Frames
    BY <1>1, EntryTyped DEF IInv
  <2>2. e.frame \in pageCache[e.page] + 1 .. ownerPte[e.page]
    BY DEF IInv, StagedComplete
  <2>3. pageTree[e.page] = 0 \/ pageTree[e.page] = pageCache[e.page]
    BY <2>1 DEF IInv, TreeNotDangling
  <2>4. pageCache[e.page] \in Frames /\ MaxFrame \in Nat
    BY <2>1, BoundsAssumption DEF IInv, TypeOK
  <2> QED BY <2>1, <2>2, <2>3, <2>4 DEF DeleteOldPte
<1>4. pteLists'[Staged] = {e \in pteLists[Staged] : ~DeleteOldPte(e)}
  BY <1>1, <1>2
<1> QED BY <1>3, <1>4

LEMMA CursorStep == ~MayCommitClean /\ CursorInv /\ [Next]_vars => CursorInv'
<1> SUFFICES ASSUME ~MayCommitClean, CursorInv, [Next]_vars PROVE CursorInv'
  OBVIOUS
<1>0. IInv /\ IInv' /\ TypeOK
  BY IInvStep DEF CursorInv, IInv
<1>1. /\ revision \in Nat /\ Wild \notin Int /\ None \notin Subs
      /\ cursor \in [Subs -> (0 .. revision) \cup {Wild}]
      /\ pteLists \in [Versions -> SUBSET Entries]
  BY <1>0, BoundsAssumption, PointerAssumption, HolderAssumption DEF TypeOK
<1> SUFFICES (CursorInList /\ LatestFilled /\ WalkerBehind)'
  BY <1>0 DEF CursorInv
<1>2. ASSUME NEW i \in Pages, NEW v \in Values, DoSnapshotAddPte(i, v) \/ StoreInPlace(i, v)
      PROVE  (CursorInList /\ LatestFilled /\ WalkerBehind)'
  <2>1. UNCHANGED <<revision, cursor, sema>>
    BY <1>2 DEF DoSnapshotAddPte, StoreInPlace
  <2>2. \A k \in 1 .. revision : pteLists'[k] = pteLists[k]
    BY <1>1, <1>2 DEF DoSnapshotAddPte, StoreInPlace
  <2> QED BY <1>1, <2>1, <2>2 DEF CursorInv, CursorInList, LatestFilled, WalkerBehind
<1>3. CASE ForkChildren
  BY <1>3 DEF ForkChildren, CursorInv, CursorInList, LatestFilled, WalkerBehind
<1>4. CASE SnapshotCommit
  <2>1. revision' = Staged /\ UNCHANGED cursor /\ sema' = None /\ pteLists[Staged] # {}
    BY <1>4 DEF SnapshotCommit
  <2>2. pteLists'[Staged] # {}
    BY <1>0, <1>4, <2>1, StagedKept
  <2> QED BY <1>1, <2>1, <2>2 DEF CursorInv, CursorInList, LatestFilled, WalkerBehind
<1>5. ASSUME NEW s \in Subs, InitSubscriber(s) \/ \E i \in Pages : ReadFault(s, i)
      PROVE  (CursorInList /\ LatestFilled /\ WalkerBehind)'
  BY <1>1, <1>5
  DEF InitSubscriber, ReadFault, CursorInv, CursorInList, LatestFilled, WalkerBehind
<1>6. ASSUME NEW s \in Subs, GetSnapshot(s)
      PROVE  (CursorInList /\ LatestFilled /\ WalkerBehind)'
  BY <1>6 DEF GetSnapshot, CursorInv, CursorInList, LatestFilled, WalkerBehind
<1>7. ASSUME NEW s \in Subs PROVE ~FollowWildCursor(s)
  BY <1>1 DEF FollowWildCursor, CursorInv, CursorInList
<1>8. ASSUME NEW s \in Subs, \E e \in todo : CopyPteEntry(s, e)
      PROVE  (CursorInList /\ LatestFilled /\ WalkerBehind)'
  BY <1>8 DEF CopyPteEntry, CursorInv, CursorInList, LatestFilled, WalkerBehind
<1>9. ASSUME NEW s \in Subs, GetSnapshotEnd(s)
      PROVE  (CursorInList /\ LatestFilled /\ WalkerBehind)'
  <2>1. revision > 0 /\ cursor[s] # revision /\ cursor[s] \in 0 .. revision
    BY <1>9 DEF GetSnapshotEnd, CursorInv, CursorInList, WalkerBehind
  <2>2. revision \in Filled(s)
    BY <1>1, <2>1 DEF Filled, Walked, CursorInv, LatestFilled
  <2>3. NewList(s) \subseteq 0 .. revision
    BY <1>1, <2>2 DEF NewList, LastFilled, Filled, Walked
  <2>4. /\ \E new \in 0 .. revision : cursor' = [cursor EXCEPT ![s] = new]
        /\ sema' = None /\ UNCHANGED <<revision, pteLists>>
    BY <1>9, <2>3 DEF GetSnapshotEnd
  <2> QED BY <1>1, <2>4 DEF CursorInv, CursorInList, LatestFilled, WalkerBehind
<1>10. CASE UNCHANGED vars
  BY <1>10 DEF vars, CursorInv, CursorInList, LatestFilled, WalkerBehind
<1> QED
  BY <1>2, <1>3, <1>4, <1>5, <1>6, <1>7, <1>8, <1>9, <1>10 DEF Next, OwnerNext, SubNext, Walk

(* As long as the owner never commits with nothing written, new_list is    *)
(* always set: a subscriber's cursor is NULL or a committed version, and   *)
(* nobody dies in get_snapshot.                                            *)
THEOREM CursorsInList == ~MayCommitClean => (Spec => []CursorInList)
<1>1. Init => CursorInv
  BY IInvInit, HolderAssumption DEF Init, CursorInv, CursorInList, LatestFilled, WalkerBehind
<1>2. ASSUME ~MayCommitClean PROVE CursorInv /\ [Next]_vars => CursorInv'
  BY <1>2, CursorStep
<1>3. CursorInv => CursorInList
  BY DEF CursorInv
<1>4. ASSUME ~MayCommitClean PROVE Spec => []CursorInList
  BY <1>1, <1>2, <1>3, <1>4, PTL DEF Spec
<1> QED BY <1>4

(* An owner that does not fork: the slot of a staged page is writable, so  *)
(* it is not staged twice, and what is committed is in the radix tree.     *)
StagedWritable == \A e \in pteLists[Staged] : writable[e.page]
StagedOnce     == \A e, g \in pteLists[Staged] : e.page = g.page => e = g
TreeHasAll     == \A k \in 1 .. revision : \A e \in pteLists[k] : e.frame = pageTree[e.page]

EntryInv == IInv /\ StagedWritable /\ StagedOnce /\ TreeHasAll /\ OneEntryPerPage

(* A first write fault on a page since the last commit.                    *)
LEMMA EntryAddPteStep ==
  ASSUME EntryInv, NEW i \in Pages, NEW v \in Values, DoSnapshotAddPte(i, v)
  PROVE  (StagedWritable /\ StagedOnce /\ TreeHasAll /\ OneEntryPerPage)'
<1> DEFINE new == [page |-> i, frame |-> ownerPte[i] + 1]
<1>0. TypeOK /\ revision \in Nat
  BY BoundsAssumption DEF EntryInv, IInv, TypeOK
<1>1. /\ pteLists'[Staged] = pteLists[Staged] \cup {new} /\ new.page = i
      /\ \A k \in 1 .. revision : pteLists'[k] = pteLists[k]
      /\ UNCHANGED <<revision, pageTree>>
  BY <1>0 DEF DoSnapshotAddPte, TypeOK
<1>2. ~writable[i] /\ writable'[i] /\ \A j \in Pages : writable[j] => writable'[j]
  BY <1>0 DEF DoSnapshotAddPte, TypeOK
<1>3. \A e \in pteLists[Staged] : e.page \in Pages /\ e.page # i
  BY <1>0, <1>2, EntryTyped DEF EntryInv, StagedWritable
<1> HIDE DEF new
<1>4. StagedWritable'
  BY <1>1, <1>2, <1>3 DEF EntryInv, StagedWritable
<1>5. StagedOnce'
  BY <1>1, <1>3 DEF EntryInv, StagedOnce
<1> QED BY <1>1, <1>4, <1>5 DEF EntryInv, TreeHasAll, OneEntryPerPage

(* A commit: what it replaces leaves the older versions.                   *)
LEMMA EntryCommitStep ==
  ASSUME EntryInv, SnapshotCommit
  PROVE  (StagedWritable /\ StagedOnce /\ TreeHasAll /\ OneEntryPerPage)'
<1>0. IInv /\ TypeOK /\ revision \in Nat /\ revision' = Staged
  BY BoundsAssumption DEF EntryInv, IInv, TypeOK, SnapshotCommit
<1>1. pteLists'[Staged'] = {}
  BY <1>0, CommitLists
<1>2. pteLists'[Staged] = pteLists[Staged]
  BY <1>0, StagedKept
<1>3. \A k \in 1 .. revision : pteLists'[k] = {e \in pteLists[k] : ~DeleteOldPte(e)}
  BY <1>0 DEF SnapshotCommit
<1>4. ASSUME NEW e \in pteLists'[Staged]
      PROVE  e.page \in Replaced /\ e.frame = pageTree'[e.page]
  <2>1. e.page \in Pages /\ e.frame \in Frames /\ e \in pteLists[Staged]
    BY <1>0, <1>2, EntryTyped
  <2>2. pageCache[e.page] < ownerPte[e.page]
    <3>1. e.frame \in pageCache[e.page] + 1 .. ownerPte[e.page]
      BY <1>0, <2>1 DEF IInv, StagedComplete
    <3>2. pageCache[e.page] \in Int /\ ownerPte[e.page] \in Int
      BY <1>0, <2>1, BoundsAssumption DEF TypeOK
    <3> QED BY <2>1, <3>1, <3>2, BoundsAssumption
  <2>3. e.page \in Replaced
    BY <1>0, <2>1, <2>2, ReplacedDirty
  <2>4. [page |-> e.page, frame |-> ownerPte[e.page]] \in pteLists[Staged]
    BY <1>0, <2>1, <2>2 DEF IInv, StagedComplete
  <2>5. e.frame = ownerPte[e.page]
    <3> DEFINE g == [page |-> e.page, frame |-> ownerPte[e.page]]
    <3>1. g.page = e.page /\ g.frame = ownerPte[e.page] /\ g \in pteLists[Staged]
      BY <2>4
    <3> HIDE DEF g
    <3>2. e = g
      BY <2>1, <3>1 DEF EntryInv, StagedOnce
    <3> QED BY <3>1, <3>2
  <2> QED BY <2>1, <2>3, <2>5 DEF SnapshotCommit
<1>5. ASSUME NEW k \in 1 .. revision, NEW e \in pteLists'[k]
      PROVE  /\ e \in pteLists[k] /\ e.page \notin Replaced
             /\ e.frame = pageTree'[e.page]
  <2>1. e \in pteLists[k] /\ ~DeleteOldPte(e) /\ k \in Versions
    BY <1>0, <1>3
  <2>2. e.frame = pageTree[e.page] /\ e.page \in Pages
    BY <1>0, <2>1, EntryTyped DEF EntryInv, TreeHasAll
  <2>3. e.page \notin Replaced
    BY <2>1, <2>2 DEF DeleteOldPte
  <2> QED BY <2>1, <2>2, <2>3 DEF SnapshotCommit
<1>6. \A k \in 1 .. revision' : k = Staged \/ k \in 1 .. revision
  BY <1>0
<1>7. StagedWritable' /\ StagedOnce'
  BY <1>1 DEF StagedWritable, StagedOnce
<1>8. TreeHasAll'
  BY <1>4, <1>5, <1>6 DEF TreeHasAll
<1>9. OneEntryPerPage'
  <2> SUFFICES ASSUME NEW j \in 1 .. revision', NEW k \in 1 .. revision',
                      NEW e \in pteLists'[j], NEW g \in pteLists'[k],
                      e.page = g.page, e.page \in Pages
               PROVE  j = k /\ e = g
    BY DEF OneEntryPerPage
  <2>1. CASE j = Staged /\ k = Staged
    BY <1>2, <2>1 DEF EntryInv, StagedOnce
  <2>2. CASE j # Staged /\ k # Staged
    BY <1>5, <1>6, <2>2 DEF EntryInv, OneEntryPerPage
  <2>3. CASE (j = Staged) # (k = Staged)
    BY <1>4, <1>5, <1>6, <2>3
  <2> QED BY <2>1, <2>2, <2>3
<1> QED BY <1>7, <1>8, <1>9

LEMMA EntryStep == ~MayFork /\ EntryInv /\ [Next]_vars => EntryInv'
<1> SUFFICES ASSUME ~MayFork, EntryInv, [Next]_vars PROVE EntryInv'
  OBVIOUS
<1>0. IInv /\ IInv'
  BY IInvStep DEF EntryInv
<1> SUFFICES (StagedWritable /\ StagedOnce /\ TreeHasAll /\ OneEntryPerPage)'
  BY <1>0 DEF EntryInv
<1>1. CASE \E i \in Pages, v \in Values : DoSnapshotAddPte(i, v)
  BY <1>1, EntryAddPteStep
<1>2. CASE SnapshotCommit
  BY <1>2, EntryCommitStep
<1>3. CASE UNCHANGED <<writable, revision, pteLists, pageTree>>
  BY <1>3 DEF EntryInv, StagedWritable, StagedOnce, TreeHasAll, OneEntryPerPage
<1>4. CASE UNCHANGED vars
  BY <1>3, <1>4 DEF vars
<1> QED
  BY <1>1, <1>2, <1>3, <1>4
  DEF Next, OwnerNext, SubNext, Walk, StoreInPlace, ForkChildren, InitSubscriber, ReadFault,
      GetSnapshot, FollowWildCursor, CopyPteEntry, GetSnapshotEnd

(* As long as the owner does not fork while it has written, the committed  *)
(* versions have one entry per page between them: delete_old_pte is enough *)
(* to keep the list minimal.                                               *)
THEOREM EntriesUnique == ~MayFork => (Spec => []OneEntryPerPage)
<1>1. Init => EntryInv
  BY IInvInit
  DEF Init, EntryInv, StagedWritable, StagedOnce, TreeHasAll, OneEntryPerPage
<1>2. ASSUME ~MayFork PROVE EntryInv /\ [Next]_vars => EntryInv'
  BY <1>2, EntryStep
<1>3. EntryInv => OneEntryPerPage
  BY DEF EntryInv
<1>4. ASSUME ~MayFork PROVE Spec => []OneEntryPerPage
  BY <1>1, <1>2, <1>3, <1>4, PTL DEF Spec
<1> QED BY <1>4
==============================================================================
