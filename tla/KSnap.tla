-------------------------------- MODULE KSnap --------------------------------
(***************************************************************************)
(* The snapshot segments of snapshotKernelModule/snapshot.c: one owner     *)
(* that writes a privately mapped file and commits with msync, and         *)
(* subscribers that map the file read-only and fetch snapshots with msync. *)
(*                                                                         *)
(* A page holds one value.  The frames that ever back page i are numbered  *)
(* 1, 2, ... in the order they are allocated: 1 is the page read from the  *)
(* file, each later one a copy made by a write fault of the owner.  A      *)
(* frame is only ever mapped at its own page (page->index), so a page      *)
(* table, and the page cache, is a function from pages to frame numbers;   *)
(* 0 is an empty page table slot.                                          *)
(*                                                                         *)
(* The circular version list with its sentinel is the function pteLists    *)
(* on 1 .. revision + 1: the oldest version first, the staged              *)
(* (uncommitted) one last.  A NULL pte_list and an empty one are treated   *)
(* alike by the code and are both {}.                                      *)
(***************************************************************************)
EXTENDS Integers, FiniteSets

CONSTANTS Pages,          \* the pages of the segment
          Values,         \* what a page may contain
          Subs,           \* the subscribers
          None,           \* no holder of the semaphore
          Wild,           \* a pointer that is no committed version of the list
          MaxFrame,       \* bound: frames allocated for one page
          MaxCommits,     \* bound: commits of the owner
          MayCommitClean, \* may the owner call msync with nothing written?
          MayFork         \* may the owner fork while it has the segment mapped?

ASSUME BoundsAssumption == MaxFrame \in Nat /\ MaxFrame >= 1 /\ MaxCommits \in Nat
ASSUME HolderAssumption == None \notin Subs
ASSUME PointerAssumption == Wild \notin Int
ASSUME UsageAssumption == MayCommitClean \in BOOLEAN /\ MayFork \in BOOLEAN

VARIABLES
  ownerPte,   \* the frame each slot of the owner's page table points to
  writable,   \* is that slot writable?
  memory,     \* the contents of every frame
  pageCache,  \* mapping->page_tree of the file
  revision,   \* revision_number: commits so far
  pteLists,   \* the version list: the pte entries of each version
  pageTree,   \* snapshot_page_tree: frame of the entry it points to, 0 if none
  subPte,     \* the page tables of the subscribers
  cursor,     \* vma->snapshot_pte_list of a subscriber: 0 is NULL
  sema,       \* holder of rwsem_snapversionlist
  todo        \* entries the holder has still to copy

ownerVars == <<ownerPte, writable, memory>>
listVars  == <<pageCache, revision, pteLists, pageTree>>
vars      == <<ownerVars, listVars, subPte, cursor, sema, todo>>

Frames  == 1 .. MaxFrame
Entries == [page : Pages, frame : Frames]

(* The version at the head of the list, where faults are recorded.         *)
Staged == revision + 1

(* Versions are never freed: the list holds every one since init_snapshot. *)
Versions == 1 .. Staged

TypeOK ==
  /\ ownerPte  \in [Pages -> Frames]
  /\ writable  \in [Pages -> BOOLEAN]
  /\ memory    \in [Pages -> [Frames -> Values]]
  /\ pageCache \in [Pages -> Frames]
  /\ revision  \in 0 .. MaxCommits
  /\ pteLists  \in [Versions -> SUBSET Entries]
  /\ pageTree  \in [Pages -> 0 .. MaxFrame]
  /\ subPte    \in [Subs -> [Pages -> 0 .. MaxFrame]]
  /\ cursor    \in [Subs -> (0 .. revision) \cup {Wild}]
  /\ sema      \in Subs \cup {None}
  /\ todo      \in SUBSET Entries

(* init_snapshot: the owner has mapped the file and read every page of it  *)
(* (the tests note that a write "won't work without the read first"); the  *)
(* list is the sentinel and one staged version; every subscriber has a     *)
(* fresh mapping.                                                          *)
Init ==
  /\ ownerPte  = [i \in Pages |-> 1]
  /\ writable  = [i \in Pages |-> FALSE]
  /\ \E file \in [Pages -> Values] : memory = [i \in Pages |-> [f \in Frames |-> file[i]]]
  /\ pageCache = [i \in Pages |-> 1]
  /\ revision  = 0
  /\ pteLists  = [k \in {1} |-> {}]
  /\ pageTree  = [i \in Pages |-> 0]
  /\ subPte    = [s \in Subs |-> [i \in Pages |-> 0]]
  /\ cursor    = [s \in Subs |-> 0]
  /\ sema      = None
  /\ todo      = {}

-----------------------------------------------------------------------------
(* The owner's memory accesses.  None of them takes the semaphore.         *)

(* A store to a page whose slot is write-protected: the kernel copies the  *)
(* frame, points the slot at the copy, and calls do_snapshot_add_pte,      *)
(* which links an entry for the slot into the staged version.              *)
DoSnapshotAddPte(i, v) ==
  /\ ~writable[i]
  /\ ownerPte[i] < MaxFrame
  /\ LET copy == ownerPte[i] + 1
     IN  /\ ownerPte' = [ownerPte EXCEPT ![i] = copy]
         /\ memory'   = [memory EXCEPT ![i][copy] = v]
         /\ pteLists' = [pteLists EXCEPT ![Staged] = @ \cup {[page |-> i, frame |-> copy]}]
  /\ writable' = [writable EXCEPT ![i] = TRUE]
  /\ UNCHANGED <<pageCache, revision, pageTree, subPte, cursor, sema, todo>>

(* A store to a page that is already writable: no fault, nothing recorded. *)
StoreInPlace(i, v) ==
  /\ writable[i]
  /\ memory' = [memory EXCEPT ![i][ownerPte[i]] = v]
  /\ UNCHANGED <<ownerPte, writable, listVars, subPte, cursor, sema, todo>>

(* The owner forks subscribers while it has the segment mapped: the kernel *)
(* write-protects the private pages the child shares, staged ones too.     *)
ForkChildren ==
  /\ MayFork
  /\ \E i \in Pages : writable[i]
  /\ writable' = [i \in Pages |-> FALSE]
  /\ UNCHANGED <<ownerPte, memory, listVars, subPte, cursor, sema, todo>>

-----------------------------------------------------------------------------
(* snapshot_commit: msync by the owner.                                    *)

(* The pages with an entry in the staged version.                          *)
StagedPages == {e.page : e \in pteLists[Staged]}

(* The pages whose slot points to a frame that is not the cached one: the  *)
(* frame replaces the cached one.  A second entry for the same slot finds  *)
(* the frame cached already.                                               *)
Replaced == {i \in StagedPages : pageCache[i] # ownerPte[i]}

(* Mutant of WrProtected: the write protection is not put back.            *)
NotProtected == writable

(* The owner's slots after the commit has write-protected them.            *)
WrProtected == [i \in Pages |-> writable[i] /\ i \notin StagedPages]

(* Mutants of DeleteOldPte: nothing is unlinked; every entry for the page  *)
(* is, the new one too; the entry just inserted is, in place of the old.   *)
DeleteNone(e)   == FALSE
DeleteByPage(e) == e.page \in Replaced
DeleteNew(e)    == e.page \in Replaced /\ e.frame = ownerPte[e.page]

(* delete_old_pte: the entry that the radix tree has for a replaced page   *)
(* is unlinked from whatever version it is in, and freed.                  *)
DeleteOldPte(e) == e.page \in Replaced /\ e.frame = pageTree[e.page]

(* The whole of snapshot_commit when do_commit lets it run (when it does   *)
(* not, nothing changes).  The owner's stores and faults cannot come in    *)
(* between, it is the caller; snapshots are kept out by the semaphore.     *)
(* Read faults are not: the page cache is changed page by page, without a  *)
(* lock on it, which is what PageSwap is about.  Here it is one step.      *)
(* The version just committed keeps its entries, the staged one is new.    *)
SnapshotCommit ==
  /\ sema = None
  /\ revision < MaxCommits
  /\ MayCommitClean \/ pteLists[Staged] # {}
  /\ writable'  = WrProtected
  /\ pageCache' = [i \in Pages |-> IF i \in Replaced THEN ownerPte[i] ELSE pageCache[i]]
  /\ pageTree'  = [i \in Pages |-> IF i \in Replaced THEN ownerPte[i] ELSE pageTree[i]]
  /\ pteLists'  = [k \in 1 .. Staged + 1 |->
                     IF k = Staged + 1 THEN {} ELSE {e \in pteLists[k] : ~DeleteOldPte(e)}]
  /\ revision'  = revision + 1
  /\ UNCHANGED <<ownerPte, memory, subPte, cursor, sema, todo>>

-----------------------------------------------------------------------------
(* The subscribers.                                                        *)

(* A new mapping of the segment (init_subscriber), in place of an old one  *)
(* if there was one: nothing is mapped and the cursor is NULL.             *)
InitSubscriber(s) ==
  /\ sema # s
  /\ subPte' = [subPte EXCEPT ![s] = [i \in Pages |-> 0]]
  /\ cursor' = [cursor EXCEPT ![s] = 0]
  /\ UNCHANGED <<ownerVars, listVars, sema, todo>>

(* A read, or MAP_POPULATE, of a page that is not mapped yet: the kernel   *)
(* maps the frame that the page cache has.  (That it may have an older one *)
(* than was committed, after an insertion that failed, is in PageSwap.)    *)
ReadFault(s, i) ==
  /\ sema # s
  /\ subPte[s][i] = 0
  /\ subPte' = [subPte EXCEPT ![s][i] = pageCache[i]]
  /\ UNCHANGED <<ownerVars, listVars, cursor, sema, todo>>

(* Mutant of Walked: the version next to the cursor is passed over.        *)
WalkedFromSecond(s) == {k \in 1 .. revision : k > cursor[s] + 1}

(* The versions that the walk of get_snapshot visits: from the cursor, or  *)
(* from the oldest if that is NULL, up to the staged version.              *)
Walked(s) == {k \in 1 .. revision : k > cursor[s]}

(* get_snapshot takes the semaphore and starts to walk.  It returns at     *)
(* once, changing nothing, while there is no committed version, or if the  *)
(* cursor is the last committed one.                                       *)
GetSnapshot(s) ==
  /\ sema = None
  /\ revision > 0
  /\ cursor[s] # Wild
  /\ cursor[s] # revision
  /\ sema' = s
  /\ todo' = UNION {pteLists[k] : k \in Walked(s)}
  /\ UNCHANGED <<ownerVars, listVars, subPte, cursor>>

(* last_committed_version_list follows a cursor that points nowhere: the   *)
(* process faults inside the kernel and dies holding the semaphore.        *)
FollowWildCursor(s) ==
  /\ sema = None
  /\ revision > 0
  /\ cursor[s] = Wild
  /\ sema' = s
  /\ UNCHANGED <<ownerVars, listVars, subPte, cursor, todo>>

(* Mutant of CopyPteEntry: the frame recorded at the fault is mapped.      *)
CopyRecorded(s, e) ==
  /\ sema = s
  /\ e \in todo
  /\ subPte' = [subPte EXCEPT ![s][e.page] = e.frame]
  /\ todo'   = todo \ {e}
  /\ UNCHANGED <<ownerVars, listVars, cursor, sema>>

(* copy_pte_entry maps, for one entry, the frame that the owner's slot     *)
(* points to at that moment.  The walk takes the entries in list order;    *)
(* here any order is allowed.                                              *)
CopyPteEntry(s, e) ==
  /\ sema = s
  /\ e \in todo
  /\ subPte' = [subPte EXCEPT ![s][e.page] = ownerPte[e.page]]
  /\ todo'   = todo \ {e}
  /\ UNCHANGED <<ownerVars, listVars, cursor, sema>>

(* Mutant of Filled: a version with a single entry is taken for empty.     *)
FilledTwice(s) == {k \in Walked(s) : Cardinality(pteLists[k]) > 1}

(* The visited versions that had entries; new_list is the newest of them.  *)
Filled(s)     == {k \in Walked(s) : pteLists[k] # {}}
LastFilled(s) == {k \in Filled(s) : \A j \in Filled(s) : j <= k}

(* What the cursor is set to.  new_list has no initial value: if no        *)
(* visited version had entries the cursor becomes whatever was in the      *)
(* variable, NULL or an older pointer into the list or anything else.      *)
NewList(s) == IF Filled(s) = {} THEN (0 .. revision) \cup {Wild} ELSE LastFilled(s)

(* The walk is over: the cursor moves and the semaphore is released.       *)
GetSnapshotEnd(s) ==
  /\ sema = s
  /\ cursor[s] # Wild
  /\ todo = {}
  /\ \E new \in NewList(s) : cursor' = [cursor EXCEPT ![s] = new]
  /\ sema' = None
  /\ UNCHANGED <<ownerVars, listVars, subPte, todo>>

-----------------------------------------------------------------------------
OwnerNext == \/ \E i \in Pages, v \in Values : DoSnapshotAddPte(i, v) \/ StoreInPlace(i, v)
             \/ ForkChildren
             \/ SnapshotCommit

(* What a subscriber does inside get_snapshot once it has the semaphore.   *)
Walk(s) == (\E e \in todo : CopyPteEntry(s, e)) \/ GetSnapshotEnd(s)

SubNext(s) == \/ InitSubscriber(s)
              \/ \E i \in Pages : ReadFault(s, i)
              \/ GetSnapshot(s)
              \/ FollowWildCursor(s)
              \/ Walk(s)

Next == OwnerNext \/ \E s \in Subs : SubNext(s)

Spec == Init /\ [][Next]_vars

(* The kernel finishes a walk it has begun; a subscriber keeps asking for  *)
(* snapshots, and as down() queues its callers it gets its turn however    *)
(* often others take the semaphore.  Nothing makes the owner write or      *)
(* commit.                                                                 *)
FairSpec == Spec /\ \A s \in Subs : WF_vars(Walk(s)) /\ SF_vars(GetSnapshot(s))

-----------------------------------------------------------------------------
(* A page whose owner's slot and cached frame are the same has no          *)
(* uncommitted changes.                                                    *)
Clean(i) == ownerPte[i] = pageCache[i]

(* No update is lost (snapshot_commit and delete_old_pte against the walk  *)
(* of get_snapshot): if a subscriber still maps an older frame than the    *)
(* committed one, a version its next walk visits has an entry for the      *)
(* page, however many later commits moved entries from version to version. *)
NoLostUpdate ==
  \A s \in Subs, i \in Pages :
    /\ sema # s
    /\ cursor[s] # Wild
    /\ subPte[s][i] \in 1 .. pageCache[i] - 1
    => \E k \in Walked(s) : \E e \in pteLists[k] : e.page = i

(* A subscriber that has walked everything there is maps exactly the       *)
(* committed frame of every page the owner has not touched since: what the *)
(* random test checks when it compares a value with the owner's.           *)
SnapshotExact ==
  \A s \in Subs :
    sema # s /\ cursor[s] # Wild /\ Filled(s) = {}
      => \A i \in Pages : Clean(i) => subPte[s][i] \in {0, pageCache[i]}

(* The entry that snapshot_page_tree has for a page is linked into a       *)
(* committed version, and is the one of the cached frame: delete_old_pte   *)
(* never unlinks a freed entry.                                            *)
TreeNotDangling ==
  \A i \in Pages :
    IF pageTree[i] = 0
    THEN pageCache[i] = 1
    ELSE /\ pageTree[i] = pageCache[i]
         /\ \E k \in 1 .. revision : [page |-> i, frame |-> pageTree[i]] \in pteLists[k]

(* delete_old_pte keeps the committed versions minimal: over all of them   *)
(* at most one entry for a page, so a walk copies each page once.          *)
OneEntryPerPage ==
  \A i \in Pages, j, k \in 1 .. revision :
    \A e \in pteLists[j], g \in pteLists[k] :
      e.page = i /\ g.page = i => j = k /\ e = g

(* A committed frame is never written again: the write protection that     *)
(* snapshot_commit puts back holds for every frame the page cache has or   *)
(* ever had, whatever faults and forks come in between.                    *)
ImageFrozen ==
  [][\A i \in Pages : \A f \in 1 .. pageCache[i] : memory'[i][f] = memory[i][f]]_vars

(* A snapshot never takes a subscriber back: a page it has mapped is only  *)
(* ever remapped to a newer frame, unless it maps the segment afresh.      *)
NeverBack ==
  [][\A s \in Subs, i \in Pages :
       subPte'[s][i] # 0 => subPte'[s][i] >= subPte[s][i]]_vars

-----------------------------------------------------------------------------
(* The inductive invariant behind the safety properties above.             *)

(* The owner's frame is the cached one or newer.                           *)
OwnerAhead == \A i \in Pages : pageCache[i] <= ownerPte[i]

(* A slot is writable only if its frame is newer than the cached one.      *)
WritableUncommitted == \A i \in Pages : writable[i] => pageCache[i] < ownerPte[i]

(* The staged version has the owner's frame of every page with uncommitted *)
(* changes, and only frames that were never committed.                     *)
StagedComplete ==
  /\ \A i \in Pages :
       pageCache[i] < ownerPte[i] => [page |-> i, frame |-> ownerPte[i]] \in pteLists[Staged]
  /\ \A e \in pteLists[Staged] : e.frame \in pageCache[e.page] + 1 .. ownerPte[e.page]

(* No subscriber maps a frame that the owner does not have yet.            *)
SubsBehindOwner == \A s \in Subs, i \in Pages : subPte[s][i] <= ownerPte[i]

(* During a walk, an outdated page of the walker is among those to copy.   *)
WalkComplete ==
  \A s \in Subs, i \in Pages :
    sema = s /\ cursor[s] # Wild /\ subPte[s][i] \in 1 .. pageCache[i] - 1
      => \E e \in todo : e.page = i

IInv == /\ TypeOK
        /\ OwnerAhead
        /\ WritableUncommitted
        /\ StagedComplete
        /\ TreeNotDangling
        /\ SubsBehindOwner
        /\ NoLostUpdate
        /\ WalkComplete

-----------------------------------------------------------------------------
(* A commit reaches every subscriber that keeps asking: it never stays     *)
(* behind a frame that was once the committed one, nor waits for ever for  *)
(* the semaphore.                                                          *)
CommitSeen ==
  \A s \in Subs, i \in Pages : \A f \in Frames :
    pageCache[i] = f ~> (subPte[s][i] = 0 \/ subPte[s][i] >= f)

(* What the comment at line 275 promises: the staged version is the        *)
(* "uncommitted stuff", and no subscriber maps it.                         *)
Isolation == \A s \in Subs, i \in Pages : subPte[s][i] <= pageCache[i]

(* What the comment at line 395 relies on: a subscriber's "previous ptr    *)
(* into the list" is NULL or a committed version of the list.              *)
CursorInList == \A s \in Subs : cursor[s] \in 0 .. revision
==============================================================================
