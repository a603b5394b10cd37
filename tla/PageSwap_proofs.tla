--------------------------- MODULE PageSwap_proofs ---------------------------
(***************************************************************************)
(* Proofs about PageSwap for every number of pages, readers, faults and    *)
(* commits.  The inductive invariant says for each page how far the loop   *)
(* of snapshot_commit has got with it: a staged page is first writable and *)
(* unknown to anyone else, then write-protected, then in the radix tree,   *)
(* and only then in the page cache.                                        *)
(***************************************************************************)
EXTENDS PageSwap, TLAPS

(* Staged pages whose entry is in the radix tree already.                  *)
InTree(i)      == /\ i \in Staged /\ pc # "user" /\ i \notin todo
                  /\ i = page => pc \notin {"lookup", "delete", "insert"}

LoopPlace  == /\ pc # "user" => revision < MaxCommits
              /\ AtPage => page \in Staged /\ page \notin todo

(* What is staged is writable until the loop comes to it, and nothing else.*)
Protected  == \A i \in Pages : writable[i] <=> i \in Staged /\ (pc = "user" \/ i \in todo)

(* What anyone else has of a page is an older frame of the owner's, if it  *)
(* is one at all, until the page is published; then it may be the same.    *)
Used(i)     == {cache[i]} \cup {readerPte[r][i] : r \in Readers}
Older(f, i) == f # NoPage /\ f.owners =>
                 IF Unpublished(i) THEN f.data < slot[i] ELSE f.data <= slot[i]
Frames      == \A i \in Pages : \A f \in Used(i) : Older(f, i)

(* The radix tree has the only entry of a page, the staged one apart.      *)
Tree       == \A i \in Pages :
                IF InTree(i)
                THEN pageTree[i] = revision + 1 /\ entries[i] = {revision + 1}
                ELSE entries[i] \ {revision + 1} = {pageTree[i]} \ {0}

Disk       == CleanIsOnDisk /\ \A i \in Pages : dirty[i] => cache[i] # NoPage

(* Nothing in memory or on disk is newer than what is committed; and it is *)
(* what is committed, but for the page in the gap and for missed ones.     *)
NoneNewer  == \A i \in Pages : /\ file[i] <= Committed(i)
                               /\ cache[i] # NoPage => cache[i].data <= Committed(i)
Current(i) == i \notin missed /\ ~InGap(i) => Given(i) = Committed(i)
Image      == NoneNewer /\ \A i \in Pages : Current(i)

IInv == TypeOK /\ LoopPlace /\ Protected /\ Frames /\ Tree /\ Disk /\ Image
-----------------------------------------------------------------------------
USE FaultAssumption, PageAssumption

(* The disjuncts of Next, one by one.                                      *)
LEMMA Steps ==
  ASSUME [Next]_vars
  PROVE  \/ \E i \in Pages : DoSnapshotAddPte(i) \/ WriteBack(i) \/ Evict(i)
         \/ SnapshotCommit
         \/ \E i \in todo : WrProtect(i)
         \/ Lookup \/ DeletePage \/ RetryInsert \/ InsertPage \/ EndCommit
         \/ \E r \in Readers : Munmap(r) \/ \E i \in Pages : ReadFault(r, i)
         \/ UNCHANGED vars
  BY DEF Next, Loop

(* A page in memory is told from an empty slot.                            *)
LEMMA InMemoryFacts ==
  /\ \A f \in InMemory : f # NoPage /\ f.data \in Contents /\ f.owners \in BOOLEAN
  /\ TypeOK => \A i \in Pages : OwnersFrame(i) \in InMemory
  BY DEF InMemory, OwnersFrame, TypeOK

(* Type correctness is kept by every step; the type of what is left of the *)
(* loop needs the place that the loop is at.                               *)
LEMMA TypeStep == TypeOK /\ LoopPlace /\ Disk /\ [Next]_vars => TypeOK'
<1> SUFFICES ASSUME TypeOK, LoopPlace, Disk, [Next]_vars PROVE TypeOK'
  OBVIOUS
<1> USE DEF ownerVars, listVars, loopVars
<1>1. ASSUME NEW i \in Pages, DoSnapshotAddPte(i) PROVE TypeOK'
  BY <1>1 DEF DoSnapshotAddPte, TypeOK, Staged, Contents
<1>2. ASSUME NEW i \in Pages, WriteBack(i) PROVE TypeOK'
  <2>1. cache[i].data \in Contents
    BY <1>2, InMemoryFacts DEF WriteBack, Disk, TypeOK
  <2> QED BY <1>2, <2>1 DEF WriteBack, TypeOK, Staged
<1>3. ASSUME NEW i \in Pages, Evict(i) PROVE TypeOK'
  BY <1>3 DEF Evict, TypeOK, Staged
<1>4. CASE SnapshotCommit
  BY <1>4 DEF SnapshotCommit, TypeOK, Staged
<1>5. ASSUME NEW i \in todo, WrProtect(i) PROVE TypeOK'
  BY <1>5 DEF WrProtect, TypeOK, Staged
<1>6. CASE Lookup
  BY <1>6 DEF Lookup, TypeOK, Staged
<1>7. ASSUME DeleteOldPte, UNCHANGED <<revision, todo, page>>, AtPage
      PROVE  /\ entries' \in [Pages -> SUBSET (1 .. revision' + 1)]
             /\ pageTree' \in [Pages -> 0 .. revision' + 1]
             /\ todo' \in SUBSET Staged' /\ page' \in Pages
  BY <1>7 DEF DeleteOldPte, TypeOK, Staged, LoopPlace
<1>8. CASE DeletePage
  BY <1>7, <1>8 DEF DeletePage, TypeOK, AtPage
<1>9. CASE RetryInsert
  <2>1. CASE InsertPte
    BY <1>9, <2>1 DEF RetryInsert, InsertPte, TypeOK, Staged
  <2>2. CASE DeleteOldPte /\ UNCHANGED pc
    BY <1>7, <1>9, <2>2 DEF RetryInsert, TypeOK, AtPage
  <2> QED BY <1>9, <2>1, <2>2 DEF RetryInsert, InsertOrRetry
<1>10. CASE InsertPage
  BY <1>10, InMemoryFacts DEF InsertPage, TypeOK, Staged
<1>11. CASE EndCommit
  <2>1. revision' \in 0 .. MaxCommits
    BY <1>11 DEF EndCommit, TypeOK, LoopPlace
  <2> QED BY <1>11, <2>1 DEF EndCommit, TypeOK, Staged
<1>12. ASSUME NEW r \in Readers, Munmap(r) PROVE TypeOK'
  BY <1>12 DEF Munmap, TypeOK, Staged
<1>13. ASSUME NEW r \in Readers, NEW i \in Pages, ReadFault(r, i) PROVE TypeOK'
  <2> DEFINE found == IF cache[i] = NoPage
                      THEN [data |-> file[i], owners |-> FALSE] ELSE cache[i]
  <2>1. found \in InMemory
    BY DEF InMemory, TypeOK
  <2>2. cache' = [cache EXCEPT ![i] = found] /\ readerPte' = [readerPte EXCEPT ![r][i] = found]
    BY <1>13 DEF ReadFault
  <2> HIDE DEF found
  <2>3. /\ cache' \in [Pages -> InMemory \cup {NoPage}]
        /\ readerPte' \in [Readers -> [Pages -> InMemory \cup {NoPage}]]
    BY <2>1, <2>2 DEF TypeOK
  <2> QED BY <1>13, <2>3 DEF ReadFault, TypeOK, Staged
<1>14. CASE UNCHANGED vars
  BY <1>14 DEF vars, TypeOK, Staged
<1> QED
  BY <1>1, <1>2, <1>3, <1>4, <1>5, <1>6, <1>8, <1>9, <1>10, <1>11, <1>12, <1>13, <1>14, Steps

(* The loop commits below the bound and stays at the page it has taken.    *)
LEMMA PlaceStep == TypeOK /\ LoopPlace /\ Tree /\ [Next]_vars => LoopPlace'
<1> SUFFICES ASSUME TypeOK, LoopPlace, Tree, [Next]_vars PROVE LoopPlace'
  OBVIOUS
<1> USE DEF LoopPlace, AtPage, Staged, ownerVars, listVars, loopVars
<1>1. ASSUME NEW i \in Pages, DoSnapshotAddPte(i) \/ WriteBack(i) \/ Evict(i)
      PROVE  LoopPlace'
  BY <1>1 DEF DoSnapshotAddPte, WriteBack, Evict
<1>2. CASE SnapshotCommit
  BY <1>2 DEF SnapshotCommit
<1>3. ASSUME NEW i \in todo, WrProtect(i) PROVE LoopPlace'
  BY <1>3 DEF WrProtect, TypeOK
<1>4. CASE Lookup
  BY <1>4 DEF Lookup
<1>5. ASSUME DeleteOldPte, UNCHANGED <<revision, todo, page>>, pc \in {"delete", "insert"}
      PROVE  revision' + 1 \in entries'[page]
  <2>1. pageTree[page] # revision + 1
    BY <1>5 DEF Tree, InTree, TypeOK
  <2> QED BY <1>5, <2>1 DEF DeleteOldPte, TypeOK
<1>6. CASE DeletePage
  BY <1>5, <1>6 DEF DeletePage
<1>7. CASE RetryInsert
  BY <1>5, <1>7 DEF RetryInsert, InsertOrRetry, InsertPte
<1>8. CASE InsertPage
  BY <1>8 DEF InsertPage
<1>9. CASE EndCommit
  BY <1>9 DEF EndCommit
<1>10. ASSUME NEW r \in Readers, Munmap(r) \/ \E i \in Pages : ReadFault(r, i)
       PROVE  LoopPlace'
  BY <1>10 DEF Munmap, ReadFault
<1>11. CASE UNCHANGED vars
  BY <1>11 DEF vars
<1> QED
  BY <1>1, <1>2, <1>3, <1>4, <1>6, <1>7, <1>8, <1>9, <1>10, <1>11, Steps

(* Dirty pages are pages, and clean ones are on disk.                      *)
LEMMA DiskStep == TypeOK /\ Disk /\ [Next]_vars => Disk'
<1> SUFFICES ASSUME TypeOK, Disk, [Next]_vars PROVE Disk'
  OBVIOUS
<1> USE DEF Disk, CleanIsOnDisk, TypeOK, ownerVars, listVars, loopVars
<1>1. ASSUME NEW i \in Pages, DoSnapshotAddPte(i) PROVE Disk'
  BY <1>1 DEF DoSnapshotAddPte
<1>2. ASSUME NEW i \in Pages, WriteBack(i) PROVE Disk'
  BY <1>2 DEF WriteBack
<1>3. ASSUME NEW i \in Pages, Evict(i) PROVE Disk'
  BY <1>3 DEF Evict
<1>4. CASE SnapshotCommit \/ Lookup \/ RetryInsert \/ EndCommit
  BY <1>4 DEF SnapshotCommit, Lookup, RetryInsert, EndCommit
<1>5. ASSUME NEW i \in todo, WrProtect(i) PROVE Disk'
  BY <1>5 DEF WrProtect
<1>6. CASE DeletePage
  BY <1>6 DEF DeletePage
<1>7. CASE InsertPage
  BY <1>7, InMemoryFacts DEF InsertPage
<1>8. ASSUME NEW r \in Readers, Munmap(r) PROVE Disk'
  BY <1>8 DEF Munmap
<1>9. ASSUME NEW r \in Readers, NEW i \in Pages, ReadFault(r, i) PROVE Disk'
  <2> DEFINE read == [data |-> file[i], owners |-> FALSE]
  <2>1. read \in InMemory /\ read.data = file[i]
    BY DEF InMemory
  <2>2. cache' = [cache EXCEPT ![i] = IF cache[i] = NoPage THEN read ELSE cache[i]]
    BY <1>9 DEF ReadFault
  <2> HIDE DEF read
  <2> QED BY <1>9, <2>1, <2>2 DEF ReadFault
<1>10. CASE UNCHANGED vars
  BY <1>10 DEF vars
<1> QED
  BY <1>1, <1>2, <1>3, <1>4, <1>5, <1>6, <1>7, <1>8, <1>9, <1>10, Steps

(* A page is writable until the loop comes to it and no longer.            *)
LEMMA ProtectedStep ==
  TypeOK /\ LoopPlace /\ Protected /\ [Next]_vars => Protected'
<1> SUFFICES ASSUME TypeOK, LoopPlace, Protected, [Next]_vars PROVE Protected'
  OBVIOUS
<1> USE DEF Protected, Staged, TypeOK, ownerVars, listVars, loopVars
<1>1. ASSUME NEW i \in Pages, DoSnapshotAddPte(i) PROVE Protected'
  BY <1>1 DEF DoSnapshotAddPte
<1>2. ASSUME NEW i \in Pages, WriteBack(i) \/ Evict(i) PROVE Protected'
  BY <1>2 DEF WriteBack, Evict
<1>3. CASE SnapshotCommit
  BY <1>3 DEF SnapshotCommit
<1>4. ASSUME NEW i \in todo, WrProtect(i) PROVE Protected'
  BY <1>4 DEF WrProtect
<1>5. CASE Lookup \/ InsertPage
  BY <1>5 DEF Lookup, InsertPage
<1>6. ASSUME DeleteOldPte, UNCHANGED <<ownerVars, revision, todo, page>>, AtPage,
             pc' # "user"
      PROVE  Protected'
  <2>1. \A i \in Pages : writable[i] => i # page
    BY <1>6 DEF LoopPlace, AtPage
  <2> QED BY <1>6, <2>1 DEF DeleteOldPte, AtPage
<1>7. CASE DeletePage
  BY <1>6, <1>7 DEF DeletePage, AtPage
<1>8. CASE RetryInsert
  <2>1. CASE InsertPte
    BY <1>8, <2>1 DEF RetryInsert, InsertPte
  <2>2. CASE DeleteOldPte /\ UNCHANGED pc
    BY <1>6, <1>8, <2>2 DEF RetryInsert, AtPage
  <2> QED BY <1>8, <2>1, <2>2 DEF RetryInsert, InsertOrRetry
<1>9. CASE EndCommit
  BY <1>9 DEF EndCommit
<1>10. ASSUME NEW r \in Readers, Munmap(r) \/ \E i \in Pages : ReadFault(r, i)
       PROVE  Protected'
  BY <1>10 DEF Munmap, ReadFault
<1>11. CASE UNCHANGED vars
  BY <1>11 DEF vars
<1> QED
  BY <1>1, <1>2, <1>3, <1>4, <1>5, <1>7, <1>8, <1>9, <1>10, <1>11, Steps

(* What is older than an unpublished page is older than a published one.   *)
LEMMA OlderKept ==
  ASSUME TypeOK, NEW i \in Pages, slot'[i] = slot[i], Unpublished(i)' => Unpublished(i),
         NEW f \in InMemory \cup {NoPage}, (f # NoPage /\ ~f.owners) \/ Older(f, i)
  PROVE  Older(f, i)'
<1>1. slot[i] \in Int /\ (f # NoPage => f.data \in Int)
  BY InMemoryFacts DEF TypeOK, Contents
<1> QED BY <1>1 DEF Older

(* Apart from a write fault, a step that unpublishes no page and brings    *)
(* into the page cache or a page table only a frame that was there before, *)
(* or one that is not the owner's, keeps Frames.                           *)
LEMMA OnlyKnownFrames ==
  ASSUME TypeOK, TypeOK', Frames, slot' = slot,
         \A i \in Pages : Unpublished(i)' => Unpublished(i),
         \A i \in Pages : \A f \in Used(i)' : f \in Used(i) \/ f = NoPage \/ ~f.owners
  PROVE  Frames'
<1> SUFFICES ASSUME NEW i \in Pages, NEW f \in Used(i)' PROVE Older(f, i)'
  BY DEF Frames
<1>1. f \in InMemory \cup {NoPage}
  BY DEF Used, TypeOK
<1>2. CASE f = NoPage
  BY <1>2 DEF Older
<1>3. CASE f # NoPage
  BY <1>1, <1>3, OlderKept DEF Frames
<1> QED BY <1>2, <1>3

(* Every step keeps the frames of unpublished pages from everyone else.    *)
LEMMA FramesStep ==
  TypeOK /\ TypeOK' /\ LoopPlace /\ Protected /\ Frames /\ [Next]_vars => Frames'
<1> SUFFICES ASSUME TypeOK, TypeOK', LoopPlace, Protected, Frames, [Next]_vars
             PROVE  Frames'
  OBVIOUS
<1> USE DEF ownerVars, listVars, loopVars
<1>1. ASSUME NEW i \in Pages, DoSnapshotAddPte(i) PROVE Frames'
  <2> SUFFICES ASSUME NEW j \in Pages, NEW f \in Used(j)' PROVE Older(f, j)'
    BY DEF Frames
  <2>1. f \in Used(j) /\ f \in InMemory \cup {NoPage} /\ Older(f, j)
    BY <1>1 DEF DoSnapshotAddPte, Used, Frames, TypeOK
  <2>2. CASE j = i
    <3>1. slot[i] \in Int /\ slot'[i] = slot[i] + 1 /\ (f # NoPage => f.data \in Int)
      BY <1>1, <2>1, InMemoryFacts DEF DoSnapshotAddPte, TypeOK, Contents
    <3> QED BY <2>1, <2>2, <3>1 DEF Older
  <2>3. CASE j # i
    <3>1. slot'[j] = slot[j] /\ (Unpublished(j)' => Unpublished(j))
      BY <1>1, <2>3 DEF DoSnapshotAddPte, TypeOK, Unpublished, Staged, AtPage
    <3> QED BY <2>1, <3>1, OlderKept
  <2> QED BY <2>2, <2>3
<1>2. ASSUME NEW i \in Pages, WriteBack(i) \/ Evict(i) PROVE Frames'
  BY <1>2, OnlyKnownFrames DEF WriteBack, Evict, TypeOK, Unpublished, Staged, AtPage, Used
<1>3. CASE SnapshotCommit
  BY <1>3, OnlyKnownFrames DEF SnapshotCommit, Unpublished, Staged, AtPage, Used
<1>4. ASSUME NEW i \in todo, WrProtect(i) PROVE Frames'
  BY <1>4, OnlyKnownFrames DEF WrProtect, Unpublished, Staged, AtPage, Used
<1>5. CASE Lookup
  BY <1>5, OnlyKnownFrames DEF Lookup, Unpublished, Staged, AtPage, Used
<1>6. ASSUME DeleteOldPte PROVE \A i \in Pages : entries'[i] \subseteq entries[i]
  BY <1>6 DEF DeleteOldPte, TypeOK
<1>7. CASE DeletePage
  <2>1. \A i \in Pages : cache'[i] \in {cache[i], NoPage}
    BY <1>7 DEF DeletePage, TypeOK
  <2> QED BY <1>6, <1>7, <2>1, OnlyKnownFrames DEF DeletePage, Unpublished, Staged, AtPage, Used
<1>8. CASE RetryInsert
  BY <1>6, <1>8, OnlyKnownFrames
  DEF RetryInsert, InsertOrRetry, InsertPte, Unpublished, Staged, AtPage, Used
<1>9. CASE InsertPage
  <2>1. \A i \in Pages : Unpublished(i)' => Unpublished(i) /\ i # page
    BY <1>9 DEF InsertPage, LoopPlace, Unpublished, Staged, AtPage
  <2>2. CASE cache[page] # NoPage
    BY <1>9, <2>1, <2>2, OnlyKnownFrames DEF InsertPage, Used
  <2>3. CASE cache[page] = NoPage
    <3> SUFFICES ASSUME NEW i \in Pages, NEW f \in Used(i)' PROVE Older(f, i)'
      BY DEF Frames
    <3>1. CASE f \in Used(i)
      <4>1. f \in InMemory \cup {NoPage} /\ Older(f, i)
        BY <3>1 DEF Used, Frames, TypeOK
      <4>2. slot' = slot
        BY <1>9 DEF InsertPage
      <4> QED BY <2>1, <4>1, <4>2, OlderKept
    <3>2. CASE f \notin Used(i)
      <4>1. i = page /\ f = OwnersFrame(page) /\ slot' = slot
        BY <1>9, <2>3, <3>2 DEF InsertPage, Used, TypeOK
      <4>2. f.data = slot[i] /\ slot[i] \in Int
        BY <4>1 DEF OwnersFrame, TypeOK, Contents
      <4> QED BY <2>1, <4>1, <4>2 DEF Older
    <3> QED BY <3>1, <3>2
  <2> QED BY <2>2, <2>3
<1>10. CASE EndCommit
  <2>1. Staged' = {}
    BY <1>10 DEF EndCommit, Staged, TypeOK
  <2> QED BY <1>10, <2>1, OnlyKnownFrames DEF EndCommit, Unpublished, Used
<1>11. ASSUME NEW r \in Readers, Munmap(r) PROVE Frames'
  <2>1. \A i \in Pages, q \in Readers : readerPte'[q][i] \in {readerPte[q][i], NoPage}
    BY <1>11 DEF Munmap, TypeOK
  <2> QED BY <1>11, <2>1, OnlyKnownFrames DEF Munmap, Unpublished, Staged, AtPage, Used
<1>12. ASSUME NEW r \in Readers, NEW i \in Pages, ReadFault(r, i) PROVE Frames'
  <2> DEFINE read  == [data |-> file[i], owners |-> FALSE]
             found == IF cache[i] = NoPage THEN read ELSE cache[i]
  <2>1. ~read.owners /\ found \in {read, cache[i]}
    OBVIOUS
  <2>2. cache' = [cache EXCEPT ![i] = found] /\ readerPte' = [readerPte EXCEPT ![r][i] = found]
    BY <1>12 DEF ReadFault
  <2> HIDE DEF found, read
  <2>3. /\ \A j \in Pages : cache'[j] \in {cache[j], read}
        /\ \A j \in Pages, q \in Readers : readerPte'[q][j] \in {readerPte[q][j], read, cache[j]}
    BY <2>1, <2>2 DEF TypeOK
  <2>4. UNCHANGED <<slot, entries, revision, pc, todo, page>>
    BY <1>12 DEF ReadFault
  <2> QED BY <2>1, <2>3, <2>4, OnlyKnownFrames DEF Unpublished, Staged, AtPage, Used
<1>13. CASE UNCHANGED vars
  BY <1>13, OnlyKnownFrames DEF vars, Unpublished, Staged, AtPage, Used
<1> QED
  BY <1>1, <1>2, <1>3, <1>4, <1>5, <1>7, <1>8, <1>9, <1>10, <1>11, <1>12, <1>13, Steps

(* The page that the loop looks up is not the owner's yet: the loop never  *)
(* goes past a page that it has not inserted.                              *)
LEMMA NotCachedYet ==
  ASSUME TypeOK, LoopPlace, Frames, pc = "lookup"
  PROVE  cache[page] # OwnersFrame(page)
<1>1. Older(cache[page], page) /\ Unpublished(page)
  BY DEF Frames, Used, TypeOK, LoopPlace, AtPage, Unpublished
<1>2. /\ OwnersFrame(page) # NoPage /\ OwnersFrame(page).owners
      /\ OwnersFrame(page).data = slot[page] /\ slot[page] \in Int
  BY InMemoryFacts DEF OwnersFrame, TypeOK, Contents
<1> QED BY <1>1, <1>2 DEF Older

(* Outside the loop no staged page is in the tree, in it those it has left *)
(* are; a page is deleted, perhaps twice, before it is inserted.           *)
LEMMA TreeStep ==
  TypeOK /\ LoopPlace /\ Frames /\ Tree /\ [Next]_vars => Tree'
<1> SUFFICES ASSUME TypeOK, LoopPlace, Frames, Tree, [Next]_vars PROVE Tree'
  OBVIOUS
<1> USE DEF Tree, InTree, Staged, ownerVars, listVars, loopVars
<1>1. ASSUME NEW i \in Pages, DoSnapshotAddPte(i) PROVE Tree'
  BY <1>1 DEF DoSnapshotAddPte, TypeOK
<1>2. ASSUME NEW i \in Pages, WriteBack(i) \/ Evict(i) PROVE Tree'
  BY <1>2 DEF WriteBack, Evict
<1>3. CASE SnapshotCommit
  BY <1>3 DEF SnapshotCommit
<1>4. ASSUME NEW i \in todo, WrProtect(i) PROVE Tree'
  BY <1>4 DEF WrProtect, LoopPlace, AtPage, TypeOK
<1>5. CASE Lookup
  BY <1>5, NotCachedYet DEF Lookup
<1>6. ASSUME DeleteOldPte, UNCHANGED <<revision, todo, page>>,
             pc \in {"delete", "insert"}, pc' = "insert"
      PROVE  Tree'
  <2>1. page \in Staged /\ page \in Pages /\ page \notin todo
    BY <1>6 DEF LoopPlace, AtPage, TypeOK
  <2>2. entries[page] \ {revision + 1} = {pageTree[page]} \ {0}
    BY <1>6, <2>1
  <2>3. pageTree[page] # revision + 1 /\ revision + 1 # 0
    BY <2>2 DEF TypeOK
  <2>4. entries'[page] \ {revision + 1} = {} /\ pageTree'[page] = 0
    BY <1>6, <2>1, <2>2 DEF DeleteOldPte, TypeOK
  <2>5. \A i \in Pages \ {page} : entries'[i] = entries[i] /\ pageTree'[i] = pageTree[i]
    BY <1>6 DEF DeleteOldPte, TypeOK
  <2> QED BY <1>6, <2>4, <2>5
<1>7. CASE DeletePage
  BY <1>6, <1>7 DEF DeletePage
<1>8. CASE RetryInsert
  <2>1. CASE InsertPte
    <3>1. page \in Staged /\ page \in Pages /\ page \notin todo
      BY <1>8 DEF RetryInsert, LoopPlace, AtPage, TypeOK
    <3>2. entries[page] = {revision + 1}
      BY <1>8, <2>1, <3>1 DEF RetryInsert, InsertPte
    <3>3. /\ pageTree'[page] = revision + 1
          /\ \A i \in Pages \ {page} : pageTree'[i] = pageTree[i]
          /\ UNCHANGED <<entries, revision, todo, page>> /\ pc = "insert" /\ pc' = "cache"
      BY <1>8, <2>1, <3>1 DEF RetryInsert, InsertPte, TypeOK
    <3>4. \A i \in Pages \ {page} : InTree(i)' <=> InTree(i)
      BY <3>3
    <3> QED BY <3>1, <3>2, <3>3, <3>4
  <2>2. CASE DeleteOldPte /\ UNCHANGED pc
    BY <1>6, <1>8, <2>2 DEF RetryInsert
  <2> QED BY <1>8, <2>1, <2>2 DEF RetryInsert, InsertOrRetry
<1>9. CASE InsertPage
  BY <1>9 DEF InsertPage
<1>10. CASE EndCommit
  <2>1. \A i \in Pages : i \in Staged => InTree(i)
    BY <1>10 DEF EndCommit
  <2>2. \A i \in Pages : ~InTree(i)'
    BY <1>10 DEF EndCommit
  <2>3. ASSUME NEW i \in Pages
        PROVE  entries[i] \ {revision' + 1} = {pageTree[i]} \ {0}
    <3>1. revision \in Nat /\ revision' = revision + 1 /\ entries[i] \subseteq 1 .. revision + 1
      BY <1>10 DEF EndCommit, TypeOK
    <3>2. revision' + 1 \notin entries[i]
      BY <3>1
    <3> QED BY <2>1, <3>1, <3>2
  <2> QED BY <1>10, <2>2, <2>3 DEF EndCommit
<1>11. ASSUME NEW r \in Readers, Munmap(r) \/ \E i \in Pages : ReadFault(r, i)
       PROVE  Tree'
  BY <1>11 DEF Munmap, ReadFault
<1>12. CASE UNCHANGED vars
  BY <1>12 DEF vars
<1> QED
  BY <1>1, <1>2, <1>3, <1>4, <1>5, <1>7, <1>8, <1>9, <1>10, <1>11, <1>12, Steps

-----------------------------------------------------------------------------
(* Only the insertion of a page changes what is committed.                 *)
LEMMA CommittedKept ==
  ASSUME TypeOK, LoopPlace, Protected, Frames, Tree, [Next]_vars, ~InsertPage, NEW i \in Pages
  PROVE  Committed(i)' = Committed(i)
<1> USE DEF ownerVars, listVars, loopVars
<1> USE DEF Committed, Unpublished, AtPage, Staged
<1>1. ASSUME NEW j \in Pages, DoSnapshotAddPte(j) PROVE Committed(i)' = Committed(i)
  <2>1. slot[i] \in Int /\ slot'[i] = IF i = j THEN slot[i] + 1 ELSE slot[i]
    BY <1>1 DEF DoSnapshotAddPte, TypeOK, Contents
  <2>2. CASE i # j
    BY <1>1, <2>1, <2>2 DEF DoSnapshotAddPte, TypeOK
  <2>3. CASE i = j
    <3>1. i \notin Staged
      BY <1>1, <2>3 DEF DoSnapshotAddPte, Protected
    <3>2. i \in Staged' /\ pc' = "user"
      BY <1>1, <2>3 DEF DoSnapshotAddPte, TypeOK
    <3> QED BY <2>1, <2>3, <3>1, <3>2
  <2> QED BY <2>2, <2>3
<1>2. ASSUME NEW j \in Pages, WriteBack(j) \/ Evict(j) PROVE Committed(i)' = Committed(i)
  BY <1>2 DEF WriteBack, Evict
<1>3. CASE SnapshotCommit
  BY <1>3 DEF SnapshotCommit
<1>4. ASSUME NEW j \in todo, WrProtect(j) PROVE Committed(i)' = Committed(i)
  BY <1>4 DEF WrProtect
<1>5. CASE Lookup
  BY <1>5, NotCachedYet DEF Lookup
<1>6. ASSUME DeleteOldPte, UNCHANGED <<slot, revision, todo, page>>,
             pc \in {"delete", "insert"}, pc' = "insert"
      PROVE  Committed(i)' = Committed(i)
  <2>1. pageTree[page] # revision + 1
    BY <1>6 DEF Tree, InTree, TypeOK, LoopPlace
  <2>2. i \in Staged' <=> i \in Staged
    BY <1>6, <2>1 DEF DeleteOldPte, TypeOK
  <2> QED BY <1>6, <2>2
<1>7. CASE DeletePage
  BY <1>6, <1>7 DEF DeletePage
<1>8. CASE RetryInsert
  <2>1. CASE InsertPte
    BY <1>8, <2>1 DEF RetryInsert, InsertPte
  <2>2. CASE DeleteOldPte /\ UNCHANGED pc
    BY <1>6, <1>8, <2>2 DEF RetryInsert
  <2> QED BY <1>8, <2>1, <2>2 DEF RetryInsert, InsertOrRetry
<1>9. CASE EndCommit
  <2>1. i \notin Staged'
    BY <1>9 DEF EndCommit, TypeOK
  <2> QED BY <1>9, <2>1 DEF EndCommit
<1>10. ASSUME NEW r \in Readers, Munmap(r) \/ \E j \in Pages : ReadFault(r, j)
       PROVE  Committed(i)' = Committed(i)
  BY <1>10 DEF Munmap, ReadFault
<1>11. CASE UNCHANGED vars
  BY <1>11 DEF vars
<1> QED
  BY <1>1, <1>2, <1>3, <1>4, <1>5, <1>7, <1>8, <1>9, <1>10, <1>11, Steps

(* The owner's page that the loop inserts is what is committed from then   *)
(* on.  A page that stays in its place is older, and is missed.            *)
LEMMA InsertCommits ==
  ASSUME TypeOK, LoopPlace, Image, InsertPage
  PROVE  Image'
<1>1. /\ pc = "cache" /\ pc' = "loop" /\ page \in Staged /\ page \notin todo /\ page \in Pages
      /\ UNCHANGED <<slot, file, entries, revision, todo, page>>
  BY DEF InsertPage, LoopPlace, AtPage, TypeOK, ownerVars, listVars
<1>2. slot[page] \in Int /\ Committed(page) = slot[page] - 1 /\ Committed(page)' = slot[page]
  BY <1>1 DEF Committed, Unpublished, AtPage, Staged, TypeOK, Contents
<1>3. \A i \in Pages \ {page} : Committed(i)' = Committed(i)
  BY <1>1 DEF Committed, Unpublished, AtPage, Staged
<1>4. /\ cache' = [cache EXCEPT ![page] = IF @ = NoPage THEN OwnersFrame(page) ELSE @]
      /\ missed' = IF cache[page] = NoPage THEN missed \ {page} ELSE missed \cup {page}
  BY <1>1 DEF InsertPage, TypeOK
<1>5. /\ \A i \in Pages \ {page} : cache'[i] = cache[i] /\ (i \in missed' <=> i \in missed)
      /\ cache'[page] = (IF cache[page] = NoPage THEN OwnersFrame(page) ELSE cache[page])
      /\ page \in missed' <=> cache[page] # NoPage
  BY <1>1, <1>4 DEF TypeOK
<1>6. OwnersFrame(page).data = slot[page] /\ OwnersFrame(page) # NoPage
  BY <1>1, InMemoryFacts DEF OwnersFrame
<1>7. ASSUME NEW i \in Pages \ {page}
      PROVE  /\ file'[i] <= Committed(i)'
             /\ cache'[i] # NoPage => cache'[i].data <= Committed(i)'
             /\ Current(i)'
  BY <1>1, <1>3, <1>5 DEF Image, NoneNewer, Current, Given, InGap
<1>8. /\ file'[page] <= Committed(page)'
      /\ cache'[page] # NoPage => cache'[page].data <= Committed(page)'
  <2>1. /\ file[page] \in Int /\ file[page] <= slot[page] - 1
        /\ cache[page] # NoPage => cache[page].data \in Int /\ cache[page].data <= slot[page] - 1
    BY <1>1, <1>2, InMemoryFacts DEF Image, NoneNewer, TypeOK, Contents
  <2> QED BY <1>1, <1>2, <1>5, <1>6, <2>1
<1>9. Current(page)'
  BY <1>1, <1>2, <1>5, <1>6 DEF Current, Given
<1> QED BY <1>1, <1>7, <1>8, <1>9 DEF Image, NoneNewer

(* What readers are given stays what is committed: what is evicted is on   *)
(* disk, and what is read is from there.                                   *)
LEMMA ImageStep ==
  ASSUME TypeOK, LoopPlace, Protected, Frames, Tree, Disk, Image, [Next]_vars
  PROVE  Image'
<1> USE DEF ownerVars, listVars, loopVars
<1>1. CASE InsertPage
  BY <1>1, InsertCommits
<1>2. CASE ~InsertPage
  <2>1. \A i \in Pages : Committed(i)' = Committed(i)
    BY <1>2, CommittedKept
  <2>2. /\ file \in [Pages -> Contents] /\ cache \in [Pages -> InMemory \cup {NoPage}]
        /\ dirty \in [Pages -> BOOLEAN]
        /\ \A f \in InMemory : f # NoPage
    BY InMemoryFacts DEF TypeOK
  <2> DEFINE Kept(i) == /\ file'[i] <= Committed(i)'
                        /\ cache'[i] # NoPage => cache'[i].data <= Committed(i)'
                        /\ Current(i)'
  <2> SUFFICES ASSUME NEW i \in Pages PROVE Kept(i)
    BY DEF Image, NoneNewer
  <2> DEFINE Same == Committed(i)
  <2>3. /\ Committed(i)' = Same /\ file[i] <= Same /\ (cache[i] # NoPage => cache[i].data <= Same)
        /\ i \notin missed /\ ~InGap(i) => Given(i) = Same
    BY <2>1 DEF Image, NoneNewer, Current
  <2> HIDE DEF Same
  <2>4. ASSUME UNCHANGED <<file, cache, missed>>, InGap(i) => InGap(i)' PROVE Kept(i)
    BY <2>3, <2>4 DEF Current, Given
  <2> USE DEF InGap
  <2>5. ASSUME NEW j \in Pages, DoSnapshotAddPte(j) PROVE Kept(i)
    BY <2>4, <2>5 DEF DoSnapshotAddPte
  <2>6. ASSUME NEW j \in Pages, WriteBack(j) PROVE Kept(i)
    <3>1. UNCHANGED <<cache, missed, pc, page>> /\ dirty[j]
      BY <2>6 DEF WriteBack
    <3>2. file'[i] = IF i = j THEN cache[i].data ELSE file[i]
      BY <2>2, <2>6 DEF WriteBack
    <3>3. cache[j] # NoPage
      BY <3>1 DEF Disk
    <3> QED BY <2>3, <3>1, <3>2, <3>3 DEF Current, Given
  <2>7. ASSUME NEW j \in Pages, Evict(j) PROVE Kept(i)
    <3>1. UNCHANGED <<file, missed, pc, page>> /\ ~dirty[j] /\ cache[j] # NoPage
      BY <2>7 DEF Evict
    <3>2. cache'[i] = IF i = j THEN NoPage ELSE cache[i]
      BY <2>2, <2>7 DEF Evict
    <3>3. file[j] = cache[j].data
      BY <3>1 DEF Disk, CleanIsOnDisk
    <3> QED BY <2>3, <3>1, <3>2, <3>3 DEF Current, Given
  <2>8. CASE SnapshotCommit
    BY <2>4, <2>8 DEF SnapshotCommit
  <2>9. ASSUME NEW j \in todo, WrProtect(j) PROVE Kept(i)
    BY <2>4, <2>9 DEF WrProtect
  <2>10. CASE Lookup
    BY <2>4, <2>10 DEF Lookup
  <2>11. CASE DeletePage
    <3>1. UNCHANGED <<file, missed, page>> /\ pc' = "insert" /\ pc = "delete"
      BY <2>11 DEF DeletePage
    <3>2. cache'[i] = IF i = page THEN NoPage ELSE cache[i]
      BY <2>2, <2>11 DEF DeletePage
    <3> QED BY <2>3, <3>1, <3>2 DEF Current, Given
  <2>12. CASE RetryInsert
    BY <2>4, <2>12 DEF RetryInsert, InsertOrRetry, InsertPte
  <2>13. CASE EndCommit
    BY <2>4, <2>13 DEF EndCommit
  <2>14. ASSUME NEW r \in Readers, Munmap(r) PROVE Kept(i)
    BY <2>4, <2>14 DEF Munmap
  <2>15. ASSUME NEW r \in Readers, NEW j \in Pages, ReadFault(r, j) PROVE Kept(i)
    <3> DEFINE read == [data |-> file[j], owners |-> FALSE]
    <3>1. read \in InMemory /\ read.data = file[j]
      BY <2>2 DEF InMemory
    <3>2. cache' = [cache EXCEPT ![j] = IF cache[j] = NoPage THEN read ELSE cache[j]]
      BY <2>15 DEF ReadFault
    <3> HIDE DEF read
    <3>3. cache'[i] = IF i = j /\ cache[i] = NoPage THEN read ELSE cache[i]
      BY <2>2, <3>2
    <3>4. UNCHANGED <<file, missed, pc, page>>
      BY <2>15 DEF ReadFault
    <3>5. Given(i)' = Given(i)
      BY <2>2, <3>1, <3>3, <3>4 DEF Given
    <3> QED BY <2>2, <2>3, <3>1, <3>3, <3>4, <3>5 DEF Current
  <2>16. CASE UNCHANGED vars
    BY <2>4, <2>16 DEF vars
  <2> QED
    BY <1>2, <2>5, <2>6, <2>7, <2>8, <2>9, <2>10, <2>11, <2>12, <2>13, <2>14, <2>15, <2>16, Steps
<1> QED BY <1>1, <1>2

-----------------------------------------------------------------------------
(* The invariant holds at first and every step keeps it.                   *)
LEMMA Inductive == Spec => []IInv
<1>1. Init => IInv
  <2> SUFFICES ASSUME Init PROVE IInv
    OBVIOUS
  <2>1. TypeOK /\ LoopPlace /\ Protected /\ Tree
    BY InMemoryFacts DEF Init, TypeOK, LoopPlace, AtPage, Protected, Tree, InTree, Staged,
       Contents, InMemory, OwnersFrame
  <2>2. Disk
    BY DEF Init, Disk, CleanIsOnDisk, OwnersFrame
  <2>3. ASSUME NEW i \in Pages, NEW f \in Used(i) PROVE Older(f, i)
    <3>1. f \in {NoPage, OwnersFrame(i)} /\ ~Unpublished(i) /\ OwnersFrame(i).data <= slot[i]
      BY DEF Init, Used, Unpublished, Staged, OwnersFrame
    <3> QED BY <3>1 DEF Older
  <2>4. Image
    BY InMemoryFacts DEF Init, Image, NoneNewer, Current, Given, InGap, Committed, Unpublished,
       Staged, OwnersFrame
  <2> QED BY <2>1, <2>2, <2>3, <2>4 DEF Frames, IInv
<1>2. IInv /\ [Next]_vars => IInv'
  BY TypeStep, PlaceStep, ProtectedStep, FramesStep, TreeStep, DiskStep, ImageStep DEF IInv
<1> QED BY <1>1, <1>2, PTL DEF Spec

(* However the commit of a page races with readers and reclaim, no frame   *)
(* that the owner can write is in the page cache or a reader's page table. *)
THEOREM AlwaysPublishedReadOnly == Spec => []PublishedReadOnly
<1>1. IInv => PublishedReadOnly
  <2> SUFFICES ASSUME IInv, NEW i \in Pages, writable[i], NEW f \in Used(i)
               PROVE  f # OwnersFrame(i)
    BY DEF IInv, PublishedReadOnly, Used
  <2>1. Older(f, i) /\ Unpublished(i)
    BY DEF IInv, Frames, Protected, Unpublished
  <2>2. /\ OwnersFrame(i) # NoPage /\ OwnersFrame(i).owners
        /\ OwnersFrame(i).data = slot[i] /\ slot[i] \in Int
    BY InMemoryFacts DEF IInv, OwnersFrame, TypeOK, Contents
  <2> QED BY <2>1, <2>2 DEF Older
<1> QED BY <1>1, Inductive, PTL

(* Between commits the one committed entry of a page is that of the radix  *)
(* tree, however often retry_insert went around.                           *)
THEOREM AlwaysTreeHasOnlyEntry == Spec => []TreeHasOnlyEntry
<1>1. IInv => TreeHasOnlyEntry
  BY DEF IInv, Tree, InTree, TreeHasOnlyEntry
<1> QED BY <1>1, Inductive, PTL

(* A clean page in the cache is the page on disk, at each point of the     *)
(* swap of a commit and of what the rest of the kernel does meanwhile.     *)
THEOREM AlwaysCleanIsOnDisk == Spec => []CleanIsOnDisk
<1>1. IInv => CleanIsOnDisk
  BY DEF IInv, Disk
<1> QED BY <1>1, Inductive, PTL

(* Whoever maps a page in the middle of a commit, or after it, is given    *)
(* what was committed of it, page by page, and nothing uncommitted ever,   *)
(* for every number of pages, of readers and of commits: see               *)
(* PublishedByPage for the two cases in which it may be older.             *)
THEOREM AlwaysPublishedByPage == Spec => []PublishedByPage
<1>1. IInv => PublishedByPage
  <2> SUFFICES ASSUME IInv, NEW i \in Pages
               PROVE  IF i \in missed \/ InGap(i)
                      THEN Given(i) \in 0 .. Committed(i) ELSE Given(i) = Committed(i)
    BY DEF PublishedByPage
  <2>1. file[i] \in Nat /\ (cache[i] # NoPage => cache[i].data \in Nat) /\ Committed(i) \in Int
    BY InMemoryFacts DEF IInv, TypeOK, Contents, Committed
  <2>2. Given(i) \in Nat /\ Given(i) <= Committed(i)
    BY <2>1 DEF IInv, Image, NoneNewer, Given
  <2> QED BY <2>1, <2>2 DEF IInv, Image, Current
<1> QED BY <1>1, Inductive, PTL
=============================================================================
