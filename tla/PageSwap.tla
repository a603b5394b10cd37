------------------------------- MODULE PageSwap -------------------------------
(***************************************************************************)
(* The loop of snapshot_commit at the grain of its page cache operations.  *)
(* The commit takes the old page of each staged entry out of the page      *)
(* cache and puts the owner's page in, without tree_lock, while the rest   *)
(* of the kernel goes on using the page cache: readers fault pages in,     *)
(* dirty pages are written back, clean ones that nobody maps are evicted.  *)
(*                                                                         *)
(* The contents of page i are numbered by the owner's write faults on it;  *)
(* 0 is what the file has at first.  A page in memory has such contents    *)
(* and is either a frame of the owner or was read from the file.  KSnap    *)
(* has the version list's readers and in-place stores; neither changes     *)
(* anything here.  (There the commit is one step.)                         *)
(***************************************************************************)
EXTENDS Integers

CONSTANTS Pages,      \* the pages of the segment
          Readers,    \* processes that map the file and read it
          NoPage,     \* an empty slot of the page cache or of a page table
          MaxFaults,  \* bound: write faults on one page
          MaxCommits  \* bound: commits

ASSUME FaultAssumption == MaxFaults \in Nat /\ MaxCommits \in Nat

VARIABLES
  slot,       \* contents of the owner's frame of each page
  writable,   \* is the owner's page table slot writable?
  cache,      \* mapping->page_tree
  dirty,      \* is the cached page tagged dirty?
  file,       \* what is on disk
  readerPte,  \* the page tables of the readers
  entries,    \* versions that have a pte entry for the page
  pageTree,   \* snapshot_page_tree: the version of the entry, 0 if none
  revision,   \* revision_number
  pc,         \* where the owner is: in its program, or in snapshot_commit
  todo,       \* entries of the staged version not reached yet, as pages
  page,       \* the page that the loop is at
  missed      \* history: pages whose last insertion found the slot taken

ownerVars  == <<slot, writable>>
listVars   == <<entries, pageTree, revision>>
loopVars   == <<pc, todo, page>>
vars       == <<ownerVars, cache, dirty, file, readerPte, listVars, loopVars, missed>>

Contents == 0 .. MaxFaults
InMemory == [data : Contents, owners : BOOLEAN]

ASSUME PageAssumption == NoPage \notin InMemory

(* The frame that the owner's slot of page i points to.                    *)
OwnersFrame(i) == [data |-> slot[i], owners |-> TRUE]

Staged == {i \in Pages : revision + 1 \in entries[i]}

TypeOK ==
  /\ slot \in [Pages -> Contents] /\ writable \in [Pages -> BOOLEAN]
  /\ cache \in [Pages -> InMemory \cup {NoPage}] /\ dirty \in [Pages -> BOOLEAN]
  /\ file \in [Pages -> Contents]
  /\ readerPte \in [Readers -> [Pages -> InMemory \cup {NoPage}]]
  /\ revision \in 0 .. MaxCommits
  /\ entries \in [Pages -> SUBSET (1 .. revision + 1)]
  /\ pageTree \in [Pages -> 0 .. revision + 1]
  /\ pc \in {"user", "loop", "lookup", "delete", "insert", "cache"}
  /\ todo \in SUBSET Staged /\ page \in Pages
  /\ todo # {} => pc # "user"
  /\ missed \subseteq Pages

(* The owner has mapped the file and read every page of it.                *)
Init ==
  /\ slot = [i \in Pages |-> 0] /\ writable = [i \in Pages |-> FALSE]
  /\ cache = [i \in Pages |-> OwnersFrame(i)] /\ dirty = [i \in Pages |-> FALSE]
  /\ file = [i \in Pages |-> 0]
  /\ readerPte = [r \in Readers |-> [i \in Pages |-> NoPage]]
  /\ revision = 0
  /\ entries = [i \in Pages |-> {}] /\ pageTree = [i \in Pages |-> 0]
  /\ pc = "user" /\ todo = {} /\ page \in Pages /\ missed = {}

-----------------------------------------------------------------------------
(* A write fault of the owner: a new frame, recorded in the staged version *)
(* by do_snapshot_add_pte.                                                 *)
DoSnapshotAddPte(i) ==
  /\ pc = "user"
  /\ ~writable[i]
  /\ slot[i] < MaxFaults
  /\ slot' = [slot EXCEPT ![i] = @ + 1]
  /\ writable' = [writable EXCEPT ![i] = TRUE]
  /\ entries' = [entries EXCEPT ![i] = @ \cup {revision + 1}]
  /\ UNCHANGED <<cache, dirty, file, readerPte, pageTree, revision, loopVars, missed>>

(* msync by the owner, with something to commit: down() and into the loop. *)
SnapshotCommit ==
  /\ pc = "user"
  /\ Staged # {}
  /\ revision < MaxCommits
  /\ pc' = "loop"
  /\ todo' = Staged
  /\ UNCHANGED <<ownerVars, cache, dirty, file, readerPte, listVars, page, missed>>

(* Mutant of WrProtect: the slot stays writable.                           *)
ClearOnly(i) ==
  /\ pc = "loop" /\ i \in todo
  /\ pc' = "lookup" /\ page' = i /\ todo' = todo \ {i}
  /\ UNCHANGED <<ownerVars, cache, dirty, file, readerPte, listVars, missed>>

(* The next entry: its slot is cleared and set again, write-protected.     *)
WrProtect(i) ==
  /\ pc = "loop" /\ i \in todo
  /\ pc' = "lookup" /\ page' = i /\ todo' = todo \ {i}
  /\ writable' = [writable EXCEPT ![i] = FALSE]
  /\ UNCHANGED <<slot, cache, dirty, file, readerPte, listVars, missed>>

(* Mutant of Lookup: any page in the slot is taken for the owner's.        *)
LookupAny ==
  /\ pc = "lookup"
  /\ pc' = IF cache[page] = NoPage THEN "insert" ELSE "loop"
  /\ UNCHANGED <<ownerVars, cache, dirty, file, readerPte, listVars, todo, page, missed>>

(* page_test is what the page cache has for the page, perhaps nothing.     *)
Lookup ==
  /\ pc = "lookup"
  /\ pc' = CASE cache[page] = OwnersFrame(page) -> "loop"
             [] cache[page] = NoPage -> "insert"
             [] OTHER -> "delete"
  /\ UNCHANGED <<ownerVars, cache, dirty, file, readerPte, listVars, todo, page, missed>>

(* delete_old_pte: the entry that the radix tree has, if any, is unlinked. *)
DeleteOldPte ==
  /\ pageTree' = [pageTree EXCEPT ![page] = 0]
  /\ entries' = [entries EXCEPT ![page] = @ \ {pageTree[page]}]

(* The slot of the page cache is emptied, whatever is in it by now.        *)
DeletePage ==
  /\ pc = "delete"
  /\ pc' = "insert"
  /\ cache' = [cache EXCEPT ![page] = NoPage]
  /\ dirty' = [dirty EXCEPT ![page] = FALSE]
  /\ DeleteOldPte
  /\ UNCHANGED <<ownerVars, file, readerPte, revision, todo, page, missed>>

InsertPte ==
  /\ pageTree[page] = 0
  /\ pc' = "cache"
  /\ pageTree' = [pageTree EXCEPT ![page] = revision + 1]
  /\ UNCHANGED entries

(* Mutants of InsertOrRetry: an entry that is in the way is overwritten;   *)
(* it is tried again without deleting it.                                  *)
Overwrite ==
  /\ pc' = "cache"
  /\ pageTree' = [pageTree EXCEPT ![page] = revision + 1]
  /\ UNCHANGED entries
RetryOnly == InsertPte \/ (pageTree[page] # 0 /\ UNCHANGED <<pc, pageTree, entries>>)

(* Into the radix tree; if there is an entry it is deleted, and again.     *)
InsertOrRetry == InsertPte \/ (pageTree[page] # 0 /\ DeleteOldPte /\ UNCHANGED pc)

RetryInsert ==
  /\ pc = "insert"
  /\ InsertOrRetry
  /\ UNCHANGED <<ownerVars, cache, dirty, file, readerPte, revision, todo, page, missed>>

(* Mutant of InsertPage: the page is not tagged dirty.                     *)
InsertClean ==
  /\ pc = "cache"
  /\ pc' = "loop"
  /\ cache' = [cache EXCEPT ![page] = IF @ = NoPage THEN OwnersFrame(page) ELSE @]
  /\ missed' = IF cache[page] = NoPage THEN missed \ {page} ELSE missed \cup {page}
  /\ UNCHANGED <<ownerVars, dirty, file, readerPte, listVars, todo, page>>

(* Into the page cache, dirty; the result of the insertion is not looked   *)
(* at, and if there is a page in the slot it stays.  (The tag is set on    *)
(* the slot, but PG_dirty on the owner's page: only that is written back.) *)
InsertPage ==
  /\ pc = "cache"
  /\ pc' = "loop"
  /\ IF cache[page] = NoPage
     THEN /\ cache' = [cache EXCEPT ![page] = OwnersFrame(page)]
          /\ dirty' = [dirty EXCEPT ![page] = TRUE]
          /\ missed' = missed \ {page}
     ELSE missed' = missed \cup {page} /\ UNCHANGED <<cache, dirty>>
  /\ UNCHANGED <<ownerVars, file, readerPte, listVars, todo, page>>

(* The end: a new staged version, the revision number, up().               *)
EndCommit ==
  /\ pc = "loop" /\ todo = {}
  /\ pc' = "user"
  /\ revision' = revision + 1
  /\ UNCHANGED <<ownerVars, cache, dirty, file, readerPte, entries, pageTree, todo, page, missed>>

-----------------------------------------------------------------------------
(* The rest of the kernel.                                                 *)

(* A reader touches a page it has not mapped: it maps the cached page; if  *)
(* there is none the page is read from the file into the cache first.      *)
ReadFault(r, i) ==
  /\ readerPte[r][i] = NoPage
  /\ LET found == IF cache[i] = NoPage THEN [data |-> file[i], owners |-> FALSE] ELSE cache[i]
     IN  /\ cache' = [cache EXCEPT ![i] = found]
         /\ readerPte' = [readerPte EXCEPT ![r][i] = found]
  /\ UNCHANGED <<ownerVars, dirty, file, listVars, loopVars, missed>>

Munmap(r) ==
  /\ readerPte' = [readerPte EXCEPT ![r] = [i \in Pages |-> NoPage]]
  /\ UNCHANGED <<ownerVars, cache, dirty, file, listVars, loopVars, missed>>

WriteBack(i) ==
  /\ dirty[i]
  /\ file' = [file EXCEPT ![i] = cache[i].data]
  /\ dirty' = [dirty EXCEPT ![i] = FALSE]
  /\ UNCHANGED <<ownerVars, cache, readerPte, listVars, loopVars, missed>>

(* Reclaim of a clean page that is in no page table.                       *)
Evict(i) ==
  /\ cache[i] # NoPage
  /\ ~dirty[i]
  /\ cache[i] # OwnersFrame(i)
  /\ \A r \in Readers : readerPte[r][i] # cache[i]
  /\ cache' = [cache EXCEPT ![i] = NoPage]
  /\ UNCHANGED <<ownerVars, dirty, file, readerPte, listVars, loopVars, missed>>

-----------------------------------------------------------------------------
Loop == \/ \E i \in todo : WrProtect(i)
        \/ Lookup
        \/ DeletePage
        \/ RetryInsert
        \/ InsertPage
        \/ EndCommit

Next == \/ \E i \in Pages : DoSnapshotAddPte(i) \/ WriteBack(i) \/ Evict(i)
        \/ SnapshotCommit
        \/ Loop
        \/ \E r \in Readers : Munmap(r) \/ \E i \in Pages : ReadFault(r, i)

Spec == Init /\ [][Next]_vars

(* The owner's process runs on once it is inside msync.                    *)
FairSpec == Spec /\ WF_vars(Loop)

-----------------------------------------------------------------------------
(* What others can read the owner cannot write: at no point of a commit is *)
(* a frame in the page cache, or in a reader's page table, that the owner  *)
(* has writable.  The order of the loop, write-protect and then insert,    *)
(* makes it so.  (What is left of the loop, todo, is in TypeOK.)           *)
PublishedReadOnly ==
  /\ TypeOK
  /\ \A i \in Pages :
       writable[i] => /\ cache[i] # OwnersFrame(i)
                      /\ \A r \in Readers : readerPte[r][i] # OwnersFrame(i)

(* delete_old_pte and retry_insert leave one entry per page: outside of a  *)
(* commit the only committed version with an entry for a page is the one   *)
(* in the radix tree, even if the page cache had no page for the commit    *)
(* to delete.                                                              *)
TreeHasOnlyEntry ==
  pc = "user" => \A i \in Pages :
    entries[i] \ {revision + 1} = {pageTree[i]} \ {0}

(* Reclaim loses nothing: a cached page without the dirty tag is on disk   *)
(* as it is, whatever was swapped in, written back, evicted or read again. *)
CleanIsOnDisk ==
  \A i \in Pages : cache[i] # NoPage /\ ~dirty[i] => file[i] = cache[i].data

(* The loop of a commit, and the retry in it, come to an end.              *)
CommitEnds == pc # "user" ~> pc = "user"

(* The loop is at a page that it has taken from what was to do.            *)
AtPage == pc \in {"lookup", "delete", "insert", "cache"}

(* Staged pages that the loop has not put into the page cache yet.         *)
Unpublished(i) == i \in Staged /\ (pc = "user" \/ i \in todo \/ (AtPage /\ i = page))

(* What was committed last of page i, as far as the loop has come.         *)
Committed(i) == IF Unpublished(i) THEN slot[i] - 1 ELSE slot[i]

(* What a process that maps page i now is given.                           *)
Given(i) == IF cache[i] = NoPage THEN file[i] ELSE cache[i].data

(* The loop has found the slot of the page empty, or emptied it.           *)
InGap(i) == i = page /\ pc \in {"insert", "cache"}

(* A commit publishes its pages one by one, for nothing keeps readers away *)
(* from the page cache while the loop is under way.  Whoever maps a page,  *)
(* in the middle of a commit too, is given what was committed last of it,  *)
(* the pages that the loop has passed new and the others old, whatever is  *)
(* written back, evicted and read again meanwhile.  Two cases are apart: a *)
(* page in the gap between deletion and insertion, and one whose insertion *)
(* was missed because a reader had filled the gap.  Of these a reader may  *)
(* be given something older, but even then nothing that is not committed.  *)
PublishedByPage ==
  \A i \in Pages : IF i \in missed \/ InGap(i)
                   THEN Given(i) \in 0 .. Committed(i)
                   ELSE Given(i) = Committed(i)

(* "Here we also update the page cache", says snapshot_commit: after it,   *)
(* the page cache has what was committed, and whatever is written back,    *)
(* evicted and read again, a reader that maps a page now is given that.    *)
CacheIsCommitted ==
  pc = "user" => \A i \in Pages : Given(i) = Committed(i)
==============================================================================
