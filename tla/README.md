# BitsDB in TLA+

BitsDB is a graph store whose writers and readers share memory. Its heart is a
Linux kernel module, `snapshotKernelModule/snapshot.c`, that gives readers
*snapshots* of a memory-mapped file: the **owner** maps the file privately and
writes to it, and commits what it wrote with `msync`; **subscribers** map the
file read-only and, with `msync`, move to the latest committed version. Around
it there are a test library and test programs, and, from an earlier stage of the
project, a graph server, its client library and the collections they keep in
shared memory.

This directory holds the TLA+ modules that model the program, the TLC
configurations that check them on small instances, and proofs checked by TLAPS.
`PROJECT.json` relates definitions to source lines and lists runs, mutants,
hazards, findings and theorems.

    tlc -config MCKSnapSafety.cfg MCKSnap      # one run
    tlapm KSnap_proofs.tla                     # the proofs of one component

## 1. Inventory

### A. The snapshot kernel module (`snapshotKernelModule/snapshot.c`)

*State.* On the owner's vma: `snapshot_pte_list`, a list of versions, each with
a list of page table entries changed in that version (the newest version is
*staged*, that is, not committed); `snapshot_page_tree`, a radix tree from page
index to the latest committed entry of the page; `snapshot_wq`, the wait queue;
`revision_number`; the registered policies (`always_ref_count`,
`adapt_ref_count`, `prio_list`), two time stamps and a moving average. On a
subscriber's vma: a cursor into the version list and its own policy. Global:
the semaphore `rwsem_snapversionlist`. Outside the module, and changed by it:
page tables and the page cache (`mapping->page_tree`).

*Operations.* `init_snapshot` and `init_subscriber` (called from `mmap`),
`do_snapshot_add_pte` (from the owner's write fault), `snapshot_msync`, which is
`get_snapshot` for a subscriber and `snapshot_commit` for an owner.

*Hard.* Commits, snapshots, write faults and read faults of different processes
interleave under a semaphore that only some of them take; subscribers lag behind
by any number of commits while commits move entries out of the versions they
have still to walk; blocking requests sleep on a hand-written wait loop; whether
to commit and whether to wait are decided in two places from two copies of the
policies.

*Correct when.* Published pages never change under a reader; a commit is walked
whole; no update is lost however far a subscriber lags; nobody goes back to an
older page; a subscriber with nothing left to fetch sees exactly what was
committed; the lists and trees never refer to freed entries; the semaphore is
released; whoever waits is woken, and is waited for by a commit that is made.

### B. Linked lists (`coreShared/linkedList.c`)

A doubly linked list with `head`, `tail`, `length`. Operations: add at the end,
remove a node, find, free. Correct when it is a sequence at all times.
Sequential; the hard part is the removal of the last node and what a caller does
while it iterates.

### C. The graph server (`core/server.c`, `coreShared/message.c`)

A `select` loop over client sockets. Per client: a header once received, the
payload, a reply to send. Requests: create a graph, insert vertices, insert a
neighbour. Hard: clients interleave, messages arrive in pieces, a client may
close at any point. Correct when each request is
executed once and answered to its sender, and a client that goes does not affect
the others.

### D. The graph and its lock (`core/graph.c`, `graphShared/`)

One global graph: an array of vertices and lists of neighbours in two shared
segments, guarded by a named semaphore that clients take to copy them.
Correct when a client copies a state between two operations of the server. Hard:
the repair of a semaphore found at 0, the death of a holder.

### E. The client library (`clientLibrary/`)

`sendMessage` and its replies, `graph_getSnapShot` (a copy of the shared
segments under the semaphore), attributes (arrays indexed like the vertices),
JSON parsing.

### F. Collections (`collections/`, `coreShared/shmUtility.c`)

`Collection`: a free list in the header of a mapped file. `Array`: slots in it,
resized when full. `Lists`: linked lists in slots of an array. Correct when no
slot is handed out twice, freed slots are not iterated over, and resizing keeps
the contents.

### G. Object slabs (`core/objectSlab.c`)

The predecessor of `Array`: append-only, resized by a fixed increment.

### H. The snapshot test library (`snapshotKernelModule/tests_ksnap/lib`)

`ksnap_open/update/settle` (mmap and msync), forked owners and subscribers, and
`memcpy_shm`, a copy under a named semaphore that the snapshots are compared to.

### I. The sorting tests (`tests_ksnap/sorting_tests`)

A producer thread fills a queue of keys under a mutex and condition variable,
the consumer swaps it with a second queue, inserts the keys in a red-black tree
(`rbtree.c`, from Linux, `rbtdata.c`) or list (`list.c`) kept in the segment, and
commits, or copies the segment, or releases a lock. Forked subscribers traverse the
structure meanwhile. Hard: the swap, what a traversal sees, the start and the end of
the run, and the tree. Correct when no key is lost, a traversal sees one moment and
never an older one than before, and all processes end.

### J. Other

`test_suite/snapshot_system_call`: an owner that writes at random and asks
subscribers, over message queues, to compare what a snapshot has. Correct when it
reports failures of the module and none of its own, and ends. `tests`, `snapshotKernelModule/tests` (older copies of the test
programs), deployment scripts, `*.c~` back-ups, `ftrace.c` (writes marks into the
kernel trace).

### Interaction

    owner process                     subscriber processes
      store ──fault──► do_snapshot_add_pte        load ──fault──► page cache
      msync ─────────► snapshot_commit            msync ────────► get_snapshot
                          │  page cache, version list, radix tree   │
                          ├──── semaphore rwsem_snapversionlist ────┤
                          └──── revision_number, wait queue ────────┘
      graph client ◄── TCP ──► server ── graph.c ── collections ── shared memory
            └───────────── named semaphore ────────────┘

## 2. Modules

| module | models | kind |
|---|---|---|
| `KSnap` | A: faults, commits and snapshots | component |
| `MCKSnap` | `KSnap` on small instances, with symmetry | model checking |
| `KSnap_proofs` | theorems about `KSnap` | proofs |
| `WaitForCommit` | A: blocking requests and the wait queue | component |
| `WaitForCommit_proofs` | theorems about `WaitForCommit` | proofs |
| `CommitPolicy` | A: when to commit, when to wait, the time arithmetic | component |
| `CommitPolicy_proofs` | theorems about `CommitPolicy` | proofs |
| `PageSwap` | A: one commit's swap of pages, against read faults | component |
| `PageSwap_proofs` | theorems about `PageSwap` | proofs |
| `LinkedList` | B: what the list operations do to the pointers | operators, used by `Server` |
| `Graph` | D: the graph under insertions | operators, used by `Server` |
| `Server` | C, D, and the requests and copies of E: the select loop, its clients, the semaphore | component, composes `LinkedList` and `Graph` |
| `MCServer` | `Server` with two different clients | model checking |
| `Server_proofs` | theorems about `Server` and `LinkedList` | proofs |
| `Array` | F: free list, array, resize | component |
| `Lists` | F: lists in the slots of an array, extends `Array` | component |
| `Attributes` | E, F: an array written by index | component |
| `KeySet` | what the sorting test's tree promises: a set of keys | abstract specification |
| `RbTree` | I: the red-black tree, one pass of a loop at a time | component, refines `KeySet` |
| `SortedList` | I: the other data structure of the sorting test | component |
| `Containers` | one of `Lists`, `Attributes`, `RbTree` and `SortedList` | model checking |
| `Containers_proofs` | theorems about `Attributes`, `Array`, `Lists` and `RbTree` | proofs |
| `KeyQueue` | I: the two threads of the sorting test | component |
| `SortTest` | H, I: the sorting test with its subscribers, extends `KeyQueue` | component |
| `SortTest_proofs` | theorems about `SortTest` and `KeyQueue` | proofs |
| `SnapStore` | a segment to processes that look at it only between two commits | abstract specification, used by `SnapTester` |
| `SnapTester` | J: the random test and its message queues, on a `SnapStore` | component |
| `SnapTester_proofs` | theorems about `SnapTester` | proofs |

### `KSnap`

A page holds one value. The frames that ever back page *i* are numbered 1, 2, ...
in the order in which write faults allocate them, so a page table and the page
cache are functions from pages to numbers, and "newer" is "greater". This is
sound because a frame is only ever mapped at its own page (`page->index`), and it
lets the properties speak of versions of a page without histories.

| variable | code |
|---|---|
| `ownerPte`, `writable` | the owner's page table slots |
| `memory` | what is in the frames |
| `pageCache` | `mapping->page_tree` |
| `revision`, `pteLists` | `revision_number`; the version list, its sentinel left out, oldest first. The list never shrinks, so its length is `revision + 1` and the last element is the staged version |
| `pageTree` | `snapshot_page_tree`; an entry is identified by its page and the frame its slot had when it was last committed |
| `subPte`, `cursor` | a subscriber's page table and its `vma->snapshot_pte_list` |
| `sema`, `todo` | who is inside `get_snapshot`, and the entries it has still to copy |

Decisions worth knowing:

- *A commit is one step.* The owner's process is inside `msync`, so its own
  stores and faults cannot come in between; `get_snapshot` is kept out by the
  semaphore. What does come in between is a subscriber's read fault: the pages
  are swapped one by one and nothing locks the page cache meanwhile. `PageSwap`
  has that grain. So nothing is said in `KSnap` about how a commit looks to
  a process that reads the page cache during it. Its properties are about walks,
  which take frames from the owner's page table and versions under the
  semaphore, and about the owner's stores. Only where a subscriber maps a page by
  a read fault (`ReadFault`), and has not walked the page since, do
  `SnapshotExact` and `NoLostUpdate` rest on the page cache having what was
  committed, which finding 3 says may fail for a page whose insertion was missed.
- *A snapshot is many steps*: down, one step per entry, up. The owner stores and
  faults between any two, as it takes no semaphore. Entries are copied in any
  order, where the code takes list order: a superset of its behaviours.
- A commit that `do_commit` declines changes nothing, and is a stuttering step;
  when it declines is `CommitPolicy`'s subject.
- `Wild` stands for the uninitialised `new_list` when it is neither NULL nor a
  committed version of the list. The value is chosen freely, as the C standard
  and a stack slot allow.
- `ForkChildren` is what the test library does between write and commit
  (`ksnap_test_sub.c`): fork write-protects the private pages. A fault that then
  finds it is the only user of the frame would write in place; as the child keeps
  the frame mapped for a while the model always copies.
- The owner reads every page before it writes it: the write fault calls the
  module with a page that is mapped already (`tester.c` notes that the write
  "won't work without the read first").
- Left out: reference counts, the reverse map, dirty tags and write-back, memory
  reclaim, allocation failure, several owners or owner threads.

### `WaitForCommit`

`wait_for_commit` step by step: read the revision number, ask `do_snapshot`, join
the queue, test, mark, schedule. The owner's increment and its `wake_up` are two
steps with anything in between. The revision number is abstracted to *has it
changed since this subscriber read it*.

### `CommitPolicy`

`do_commit`, `do_snapshot`, the counts and list that `init_subscriber` registers
with the owner, `elapsed_time_in_microseconds` and the moving average, with a
clock that ticks. `Second`, `Word` and the default average are parameters, so
that a run of a dozen microseconds crosses several seconds. Intervals are taken
as they arrive in the kernel.

### `PageSwap`

The loop of `snapshot_commit` with one page-cache or radix-tree operation per
step. Each page is looked up, its old entry deleted from the version list, the
old page from the page cache, the new entry and the new page inserted. Other
tasks run in between: a read fault that puts a page into the cache (from the
file, when the slot is empty), unmapping, write-back and reclaim. These belong to
the kernel and are modelled from how `snapshot.c` depends on them (`external`).

- A page's content is the number of the write that made it, so that "what was
  last committed" is a number per page.
- Read faults may fall anywhere, inside a commit too, where they break
  `CacheIsCommitted` (finding 3). The slot of a page is empty before its insertion
  because the loop has deleted the old page (586), or because that was evicted.
- `missed` is a history variable: the pages whose last insertion found the slot
  taken. `PublishedByPage` is claimed of the others.
- The page that is deleted may be freed while the loop still uses it; the model
  does not follow freed pages.
- Fairness: `WF(Loop)` only. The owner inside `msync` runs on; nobody has to fault.

### `Server`, `Graph` and `LinkedList`

A connection is named by its client and the number of the request, and gives its
name to the node in `clientList`. A visit of the loop to one client is a step:
`recv` of a header or a payload, or the removal. A request that was read is
served in further steps, as clients that copy the graph take the semaphore and
open the segments in between: `graph_init` first removes the segments
(`ReadPayload`) and later makes new ones (`InitGraph`); an insertion first waits
(`LockGraph`).

| variable | code |
|---|---|
| `clientList`, `tmpNode` | the list of clients and where the loop is; `LinkedList` keeps the pointers of freed nodes, as `free` does at least in part |
| `readset`, `rdyset`, `header` | the sets of `select`; who has a `messageHeader` |
| `serving` | where the server is in a request |
| `graph`, `segments` | `mainGraph`, and whether its segments can be opened |
| `lock`, `inside`, `posts` | the named semaphore, who has waited for it, and how often `graph_init` posted it for somebody else |
| `inbox`, `reply`, `socket`, `at` | the connections, and the request a client is at |
| `copying`, `dead` | clients in `graph_getSnapShot`; clients that died |

- The semaphore outlives all processes: a run begins with 1 or, after a run in
  which its holder died, with 0.
- A client may die at any time of a request or a copy (`Die`), and dies of a copy
  that finds no segment (`MapNothing`), with the semaphore.
- A second neighbour of a vertex is looked up by the address of a function of the
  C library (`graph.c:83`). There is no memory, or no valid object, and then
  `isValid` is given `NULL` (`list.c:23`): the server dies either way
  (`AddFurtherNeighbor`), and no request is answered with `OP_FAILED`.
- `KeepsNext` chooses the allocator: the loop reads `next` of a node it has just
  freed, which may be intact or end the server.
- Header and payload arrive whole, as they do on a loopback connection. Rounds of
  `select` that find nothing to read are left out: they change nothing.
- Fairness: the server's loop and, of a client, only the call it is in. A client
  need not make another request, and nobody need die.

### `Array`, `Lists` and `Attributes`

An array in slots: the header, the pointers of the free list in the objects, and
which objects the callers have; what they store is left out. `AddWithResize` loses
everything in memory, because the mapping is private and nothing writes it back.
Slot 0 is handed to nobody, but `array_getById` finds it, and the tests of
`collections/main.c` remove it: it counts as in use at first (`Init`).
`RemoveObject` may be called again
for a slot that is free, as the code's check of `isValid` invites; the check
passes for the last slot of the free list, which links it to itself, and the next
removal undoes that. `FreeListSound` says that this is all that happens.

`Lists` adds the pointers of one list and a caller that does what
`test_lists_removeObjects` does: it fills the list, then removes objects in one
loop, each while the loop stands on it. It never removes two in a row: the second
would be unlinked through the freed slot of the first. Before there is a list
other callers use the array, so that the slots of the list come from a free list
of any shape or from a mapping that has grown. `Array` is checked as a part of
`Lists`.

`Attributes` is the array that is written by index: a client's attribute of its
vertices. A file is parsed object by object; other clients' vertices take indices
at any time. Numbers of the file are in halves, as the parser makes an int of a
number with a fraction before it is stored (`Truncate`, `jsonProcessing.c:39`), so
that 2.5 is found as 2 and -2.5 as -2: `AttributesFound` promises the whole part and
no more. A whole number is stored at another index (`jsonProcessing.c:36`), over what
may be another vertex's, and numbers beyond an int, whose conversion is undefined, are
left out. The property is claimed until a file has a whole number or the array grows.
What an index past the end leads to is a copy to `NULL` (`Fault`);
what one past the mapping leads to depends on where the page ends, and is either a
fault or a resize. `array_getObjectFromIndex` has no `return` statement; the build
has no optimisation (`collections/Makefile`), and its caller gets the result of the
call inside it.

### `RbTree`, `KeySet` and `SortedList`

`RbTree` has the nodes' children, parents and colours, and a call as a sequence of
steps: the descent of a search, the placing of a node, and each pass through the
loops of `rb_insert_color` and `__rb_erase_color`. A node is named by its key. The
mirrored halves of the code are one definition with a side as its parameter. This
grain lets `RedBlack` say what is true between two passes (a red-black tree but for
one place) and not only of the result; `CallsEnd` says that the loops end, under
`WF(Step)`. `ImplementsKeySet` maps the tree to the set of its keys: the step in
which a call takes effect is the abstract insertion or deletion, all others
stutter. An insertion of a key that is there deletes it, as `rbtdata.c` does.

`SortedList` keeps only the length and the direction, as no call looks at a key.

### `KeyQueue` and `SortTest`

`KeyQueue` has the generator and the consumer of `tester.c`: queues, mutex,
condition variable, `__owner_ended`. Keys are numbered in the order of their
generation. When the bound on keys is reached the generator goes round without a
key, and still signals. Spurious wake-ups are left out: the test is in a loop.

`SortTest` extends it with the way the consumer shares what it inserts, and with
the subscribers: the fork before the semaphore is created, acquisition and release
for each of the three kinds of sharing, and the subscribers' loops. The segment has
two halves that are written and read one after the other, the least that can show
a mixture of two moments. A half holds the number of insertions it has been
through, so that "older" is "less". A snapshot takes of a half what was committed,
unless the owner has written that half since: then it is given the owner's frame
(finding 1) and sees every later store, until the commit that write-protects it.

Fairness: threads and processes run, and a subscriber's time passes. The owner's
need not, so that `KeysPublished` is not true merely because the test ends. The
semaphore is not fair, and no strong fairness is assumed of it: the owner holds it
only while it has keys, and those it gets are bounded (the generator of the code
sleeps between two batches, for the same effect).

### `SnapTester`

`randomTest` and its subscribers over POSIX message queues: requests to
`/mq_0` and `/mq_1`, replies to one queue. The segment is a `SnapStore`: a commit
is one step, which is right for subscribers that look only when asked and an owner
that asks only between two `msync`s and waits for the answers (messages of an
interrupted run, for which nothing is claimed, may break this). Except
that a subscriber that looks while the owner has something uncommitted may see
either (finding 1); the test never lets it. A run may be interrupted; queues and
what is in them stay (`expr.sh` removes only the semaphore), and `stale` says that
a run began with such messages. Fairness: the processes of a run run.

## 3. Properties and runs

| run | expects | shows |
|---|---|---|
| `ksnap_safety` | pass `IInv`, `NoLostUpdate`, `SnapshotExact`, `TreeNotDangling`, `ImageFrozen`, `NeverBack` | A subscriber that lags up to three commits behind, empty ones among them, and an owner that may fork: no update is lost, what was walked is exactly what was committed, committed frames are never written, and nobody is taken back. |
| `ksnap_live` | pass `CursorInList`, `OneEntryPerPage`, `CommitSeen` | Two subscribers and an owner that commits only after writing and does not fork: cursors stay in the list, the committed versions hold one entry per page, every commit reaches every subscriber that keeps asking. |
| `ksnap_isolation` | violation `Isolation` | A snapshot maps what the owner's slot points to now, so a subscriber that lags behind is given an uncommitted frame. |
| `wait` | pass `WokenByNextCommit`, `EventuallyServed` | Two blocking subscribers: a commit wakes whoever sleeps when it comes, and with an owner that goes on committing every call returns. |
| `wait_lost_wakeup` | violation `NeverSleepsPastCommit` | A commit between the test of the loop and set_current_state is missed: the subscriber sleeps although the revision number has changed. |
| `policy` | pass `WaitersAreServed`, `ServedIsFresh`, `ElapsedIsAge`, `EwmaInRange` | Two subscribers of any policy and an owner that may start afresh, over more than a second: whoever waits by a policy that the owner has is let through by its next msync, whoever does not wait gets a commit as young as it asked for, ages are right across a change of the second, and the average stays within the gaps it averages. |
| `page_swap` | pass `PublishedReadOnly`, `TreeHasOnlyEntry`, `CleanIsOnDisk`, `PublishedByPage`, `CommitEnds` | Two pages swapped into the page cache while another task faults pages in and out: what is in the cache and mapped by the owner is read-only, the radix tree refers to the one entry of a page, reclaim loses nothing, whoever maps a page at any point of the commit is given what was last committed of it unless the loop has it in the gap or missed its insertion, and the loop ends. |
| `page_swap_hole` | violation `CacheIsCommitted` | The slot of a page is empty before the insertion of its new page, because the loop has deleted the old one or because that was evicted before the commit; a read fault then puts the page of the file back, the insertion fails, and the committed page is never published. |
| `server` | pass `ListSound`, `OneInside`, `InsertedKept`, `ListedServed` | A client process with three requests, insertions of vertices or neighbours, and one that initialises the graph, copies it and may die at any time; a freed node whose pointer may or may not be readable, and a semaphore that may be left at 0 by an earlier run: the list that the loop walks has only open connections, nobody copies while the server inserts, what was inserted is found again, and who is in the list is served. |
| `containers` | pass `ContainersTypeOK`, `FreeListSound`, `LoopSeesAll`, `RedBlack`, `AttributesFound`, `CallsEnd`, `ImplementsKeySet` | One of four containers. An array with a list in it: objects, and slot 0, are removed and added again while the array grows twice, and a loop removes the object it stands on, never two in a row; no slot is lost or handed out twice, the loop misses nothing and the list is what was not removed. A client's attributes in an array by index, while others insert vertices: each vertex has the whole part of its number, and the client dies only at a gap or the end of the array. A red-black tree of up to eight keys, one pass of a loop at a time: the walks agree, the tree is red-black but for the place at work, calls end, and it implements a set. The list of the sorting test, for any room it may have. |
| `sort_test` | pass `SortTypeOK`, `KeysInOrder`, `QueryAtOnce`, `KeysPublished`, `NeverOlder`, `SubscribersEnd` | The owner's two threads and a forked subscriber, with each of the three ways to share the segment: no key is lost or overtaken, a traversal under the lock or of a snapshot is of one moment, nobody goes back to less, keys are published and the subscriber ends. |
| `snap_tester` | pass `Agree`, `LeftClean`, `TestEnds` | Two runs of the random test, the first of which may be interrupted anywhere: a subscriber disagrees only after messages of an interrupted run, a run that ends leaves none, and it ends unless a subscriber was faster than the owner. |

Most modules' type invariants are conjuncts of the invariant that leans on them
(`TypeOK` of `WokenByNextCommit`, `WaitersAreServed`, `PublishedReadOnly`, `ListSound`,
`Agree` and, for `KSnap`, `IInv`).

What the main properties of `KSnap` are about:

- `NoLostUpdate` is the subtle one. `delete_old_pte` removes the entry of an older
  version as soon as the page is committed again. A subscriber whose cursor is in
  between must still find the page: it does, because the new entry is in a later
  version, and cursors only stand at versions that were visited. `SnapshotExact`
  is the other half: nothing left to walk means nothing outdated.
- `ImageFrozen` is why readers need no locks at all: `pte_wrprotect` at commit and
  nothing else stands between the owner and the published frames.
- `NeverBack` holds although the copy takes the owner's *current* frame, because
  of it: the frame recorded in the entry may be older than what the subscriber
  already maps (the mutant that copies it is caught when a fork is allowed).
- `TreeNotDangling` and `OneEntryPerPage` are memory safety of the lists.
- `CommitSeen` is liveness, under the fairness below: of the walk, and of the
  semaphore, which it would not outlive if somebody kept it.

Of the other components: `WokenByNextCommit` bounds what finding 2 can cost;
`WaitersAreServed` relates two copies of the policies; `TreeHasOnlyEntry` and
`PublishedReadOnly` are what the loop of a commit needs at every point at which
another task can look, and `CleanIsOnDisk` what lets the kernel reclaim pages
meanwhile. `PublishedByPage` is what a commit is to a process that maps pages: not
one step, but each page old until the loop has passed it and new from then on. It
is not claimed of a page in the gap between deletion and insertion, nor of one
whose last insertion failed because a reader had filled the gap (the history
variable `missed`, which nothing else reads); of these it says that a reader gets
something older but never anything that is not committed. Finding 3 is what it
costs. `ServedIsFresh` is what a policy is for, from the program's number through
the flags of `mmap` and the unsigned arithmetic to the decision; `ListSound`
holds of the server's list in spite of its tail pointer, and `ListedServed` is what
a client can count on all the same; `OneInside` says when the semaphore excludes,
and `InsertedKept` when the graph keeps what it acknowledged; `AttributesFound`
also says what kills a client that adds attributes: a gap, or the end of the array;
`RedBlack` and `ImplementsKeySet` are about the middle of a call on the tree, as
readers would see it, and about its result; `KeysInOrder` is about a pointer swap that two threads rely
on; `QueryAtOnce`, `NeverOlder` and `SubscribersEnd` compare what the three kinds of
sharing give to a reader; `Agree` and `LeftClean` are the random test's own
soundness.

Bounds. `MaxFrame` bounds the write faults of each page, `MaxCommits` the
commits. Two pages are needed for a version with a subset of the pages; three
frames for an entry that a commit replaces while a subscriber still stands before
it; three commits in `ksnap_safety` for a subscriber that is several versions
behind, empty versions and forks in between. Contention for the semaphore needs
the two subscribers of `ksnap_live`; subscribers meet nowhere else, and the
proofs are for any number. Pages, values and subscribers are interchangeable in
the specification and the properties, which allows symmetry in the safety run;
the liveness run does not use it.

`ksnap_live` leaves out empty commits, after which `CursorInList` is false and a
subscriber may die holding the semaphore, and forks, after which one version may
hold two entries of a page: `OneEntryPerPage` is a property of owners that do not
fork. The bounds of the other components: `policy` seven microseconds with four
to a second, so that ages cross one second and almost two, and an int with room for
eight intervals, so that 5 is one that arrives with its sign; `page_swap` two pages,
two faults and two commits, so that a page is replaced while another is still
old. `server` has a client with three requests, which makes a list with a middle, as
its next connection may be accepted before its last one is taken off, and one that
initialises, copies and may die, which is all that contention for the semaphore
needs; arrays of three slots grow with the second neighbour's list. `containers`:
three sizes of the mapping and lists of up to four objects; trees of up to eight
keys, which is where every case of both recolouring loops occurs, and a second pass
of the one of `rb_insert_color`. (A further pass of `__rb_erase_color` needs ten
keys; trees of twelve were simulated, 1.8 million states, with no error.) Attributes of six vertices in an array of four, which grows
at the fourth. `sort_test`: a first batch of two keys and two more, so that there is
a batch in hand while another is generated, and one subscriber; with two of them,
who share nothing but the semaphore, the safety properties were checked as well, on
2.7 million states, which is too many for the liveness. `snap_tester`: five writes,
the first, third and fifth of which are compared, by process 0 and then by process 1,
in two runs.

`CHECK_DEADLOCK FALSE` is set where the system may stop: in `ksnap_safety`, where
a subscriber can die holding the semaphore; when the clock of `CommitPolicy`
ends; when the clients of `Server`, the loop of `Lists`, the processes of `SortTest`
or the runs of `SnapTester` have ended.

Fairness. `WF(Walk)`: a process inside the kernel finishes its walk.
`SF(GetSnapshot)`: subscribers of the tests ask in a loop, and `down()` queues its
callers in order, so one that keeps asking is served however often the semaphore
is taken in between. Nothing is assumed of the owner there. In `WaitForCommit`
runnable tasks run, and the owner goes on committing, as the owners of the tests
do until they exit; `EventuallyServed` is false of an owner that stops.

## 4. What is proved

Every safety invariant that a passing run checks is also a theorem, for all values of
the constants, and so are the action properties and the refinement
(`ImplementsKeySet`); only liveness is not. The proofs about a component are in a
module named after it.

| module | theorems | of | inductive invariant |
|---|---|---|---|
| `KSnap_proofs` | `TypeCorrect`, `Invariance` | `TypeOK`, `IInv` | `IInv` (in `KSnap`) |
| | `NoUpdateLost`, `TreeSound`, `SnapshotsExact` | `NoLostUpdate`, `TreeNotDangling`, `SnapshotExact` | |
| | `CommittedFramesFrozen`, `SubscribersNeverBack` | `ImageFrozen`, `NeverBack` | |
| | `CursorsInList` | `CursorInList`, of an owner that commits only after writing | + `~MayCommitClean` |
| | `EntriesUnique` | `OneEntryPerPage`, of an owner that does not fork | + `~MayFork` |
| `WaitForCommit_proofs` | `AlwaysWoken` | `WokenByNextCommit` | itself |
| `PageSwap_proofs` | `AlwaysPublishedReadOnly`, `AlwaysTreeHasOnlyEntry`, `AlwaysCleanIsOnDisk`, `AlwaysPublishedByPage` | `PublishedReadOnly`, `TreeHasOnlyEntry`, `CleanIsOnDisk`, `PublishedByPage` | `LoopPlace`, `Protected`, `Frames`, `Tree`, `Disk`, `Image` |
| `CommitPolicy_proofs` | `AlwaysElapsedIsAge`, `AlwaysEwmaInRange`, `AlwaysServedIsFresh`, `AlwaysWaitersServed` | `ElapsedIsAge`, `EwmaInRange`, `ServedIsFresh`, `WaitersAreServed` | `Past`, `EwmaInRange`, `WaitedLong` |
| `SortTest_proofs` | `SortTypeCorrect`, `AlwaysKeysInOrder`, `AlwaysQueryAtOnce`, `SubscribersNeverOlder` | `SortTypeOK`, `KeysInOrder`, `QueryAtOnce`, `NeverOlder` | `SortInv` |
| `Server_proofs` | `AlwaysOneInside`, `AlwaysInsertedKept`, `AlwaysListSound` | `OneInside`, `InsertedKept`, `ListSound` | `Accepting`, `Serving`, `Semaphore`, `Sequential`, `AllKept`, `ListInv` |
| `SnapTester_proofs` | `AlwaysAgree`, `AlwaysLeftClean` | `Agree`, `LeftClean` | `Queues`, `Truth`, `Place` |
| `Containers_proofs` | `AlwaysAttributesFound` | `AttributesFound` | `AttributesInv` (with `Numbers`) |
| | `AlwaysFreeListSound` | `FreeListSound` | `ArrayInv` (a `Chain`) |
| | `AlwaysLoopSeesAll` | `LoopSeesAll` | `ListsInv` (`Forward`, `Backward`, `Loop`) |
| | `AlwaysRedBlack`, `TreeIsKeySet` | `RedBlack`, `ImplementsKeySet` | `TreeInv` (`Places`, `Standing`) |
| | `AlwaysContainersTypeOK` | `ContainersTypeOK` | the three above, and `ListTypeOK` |

Assumed are only the named assumptions on the constants. `MaxTime < Word`, a
hypothesis of the theorems about `CommitPolicy`, says that a run is shorter than a
word of microseconds (2^64 in the code); without it an age is the age modulo the
word. `~MayCommitClean` and `~MayFork` exclude two things that the owner may do and
that break these two properties (section 5); the other theorems are about all owners.

**The snapshot kernel module.** None of the safety invariants of `KSnap` is
inductive alone; `IInv` adds

- `OwnerAhead` and `WritableUncommitted`: a slot is writable only while its frame
  is newer than the cached one. This makes `ImageFrozen` true of each store.
- `StagedComplete`: the staged version has the owner's frame of every changed
  page and nothing that was committed. This is what a commit turns into entries
  of a committed version, hence `TreeNotDangling` and `NoLostUpdate` after it.
- `TreeNotDangling`: what `delete_old_pte` removes is the entry of a replaced
  page, so its page is in the version being committed (lemma `ReplacedDirty`);
  `CommitLists` says what is left of each version.
- `SubsBehindOwner`: no subscriber maps a frame the owner does not have yet; with
  it a copy of the owner's current frame never goes back (`NeverBack`).
- `WalkComplete`: `NoLostUpdate` for the one subscriber that is inside a walk,
  with `todo` in place of the versions still to be visited. It holds because the
  semaphore excludes commits during a walk.

In `PageSwap` a page is first writable and known to nobody else, then
write-protected, then in the radix tree, and only then in the page cache; the
invariant says for each page how far the loop has got with it. `Frames` carries
`PublishedReadOnly`: what others have of a page is *older* than the owner's frame
until the page is published, and at most as new after that. `PublishedByPage` follows
from `Image`: what the cache and the disk have of a page, as far as the loop has come,
is its committed contents or, in the gap and after a missed insertion, not newer. In `CommitPolicy` the
subtraction of two time stamps borrows from neither field; `ElapsedModWord` shows that
what it loses are multiples of the word. `WaitersAreServed` needs that whoever waits
by its own interval began to when the commit was that old already (`WaitedLong`),
because the two sides compare differently.

**The server.** `ListSound` needs the strongest invariant here: some sequence of open
connections is the list (`Linked`), the loop's node is one of them, the tail pointer,
where it is one of them, is the last, and a node that was not accepted yet has no
pointers (`Fresh`). `OneInside` needs that the value of the semaphore and the
processes inside add up to one until a `graph_init` posts it too often. `InsertedKept`
needs that a client makes its requests one after the other (`Sequential`), and that
the server does nothing for a connection after its reply.

**The tests.** `KeysInOrder` is inductive once the place of each thread is known
(`QueueInv`). `QueryAtOnce` needs what a subscriber has seen of each half of the
segment, whose halves only grow (`Growing`, `Seen`). `Agree` needs that there is one
message at most, for the process that is asked, and that it is true of the segment.

**The collections.** `ArrayInv` has the free list as a sequence of different slots
(`Chain`), each of which points to the next; the last may point to itself, as the code
leaves it when a slot is freed a second time. In a list the forward pointers are always
right (`Forward`). The pointers back are right for the members that the loop has still
to come to, except for the one after an object it has just removed (`Backward`), and
that is why `list_removeObject` may be called in a loop only on the object that the
loop stands on. `AttributesFound` follows from the number of objects in the array
being one more than the number of vertices that have a value, as long as the client
lives (`Numbers`), and from what truncation does to a number (`Truncated`).

**The red-black tree.** `TreeInv` says that there are, for the tree as it stands, a set
`sub[x]` of the nodes below each node x and a number `bh[x]` of black nodes below it.
Both are given node by node, and so without recursion:

- `Shape`: below x are x and what is below its children; the smaller keys are on the
  left and the greater ones on the right; and each child points back to its parent.
- `Height`: `bh` is the same on both sides of every node, where the pointer that lacks
  a black node counts for one more.
- `Reds`: no red node is below a red one, but for the node the loop stands at.

`Standing` says which of the three has a hole in each place of a call (`Sound` has the
hole as parameters), and that a search goes towards its key (`Descended`). The proof
follows the code:

1. A rotation is a `Swing` of three subtrees about two nodes (`Pivots`, `Swings`); it
   keeps `Shape` (`RotateShape`) and exchanges the heights of the two nodes
   (`SwapHeight`, `EvenHeight`).
2. From these come the passes of the two loops (`InsertColorPass`, `EraseColorPass`).
   The recolouring of a red sibling is a step of its own, after which
   the sibling is black (`RedSibling`), and the parent is then below it
   (`AwayErase`); that a sibling is always there is because it is one black node
   higher (`SiblingBlack`).
3. A node with two children is erased in two steps: its successor n takes its place,
   key, colour and pointers (`InnerSubstituted`), and what was n's place is spliced
   out (`SpliceSound`) as that of a node with one child is (`EraseOuterSound`).
4. `TreeStep` puts the actions together: each keeps `TreeInv` and adds the key of the
   call, takes it out, or leaves the keys alone (`Alters`). The last is what the
   refinement of `KeySet` needs.
5. `RedBlack` is about walks. A map `Listing`s what is below the root in ascending order
   (`WalkFacts`), `rb_first` and `rb_last` go to its ends (`FirstNodeFacts`), and
   `rb_next` and `rb_prev` go to the neighbour, upwards if there is nothing below on
   that side (`NextNodeFacts`); the number of black nodes on any path is
   that of the root (`BlacksFacts`).

The proof needs no bound on the tree; `MaxKey` steps are enough for every walk because
no subtree has more nodes than there are keys (`Sizes`).

**Walks.** The walks of `ListSound`, `FreeListSound`, `RedBlack` and others are recursive
functions over a number of steps. tlapm has no induction over an operator, but the set
of steps at which such a function differs from what it should be has a smallest member
(lemma `Smallest`, from the well-foundedness of the naturals), which gives the
contradiction that induction would. In a tree the node with the fewest below it takes
its place (`Lowest`); and that such a function exists at all, which
TLC sees by evaluating it, is lemma `Iterates`.

**Only model-checked.** The liveness properties (`CallsEnd`, that the loops end,
`EventuallyServed` and the others): they need fairness and `ENABLED`, for
which the provers have no rules.

## 5. Findings

Each of these is a run that is expected to fail, as the code does not do what its
comment says.

1. `Isolation` (`ksnap_isolation`). `copy_pte_entry` reads the owner's slot, which
   after a further write points to an uncommitted copy; the snapshot is not of any
   version.
2. `NeverSleepsPastCommit` (`wait_lost_wakeup`). The wait loop tests before it marks
   itself; a commit in between is slept through. The next commit repairs it
   (`WokenByNextCommit` holds).
3. `CacheIsCommitted` (`page_swap_hole`). The slot of a page in the page cache can
   be empty when the loop comes to the unchecked insertion of the new page: the
   loop's own deletion of the old page empties it, and so does the reclaim of the
   old page before the commit (TLC's trace has the second; the first gives a
   trace of the same length). A read fault in the gap puts the file's page back,
   and the commit of the page is lost.

Other properties are stated with a condition, because the code does not give them
without it. The models have the behaviour; no run is spent on it:

- *An owner that commits with nothing written* (`tests/master.c` does). The walk
  over empty versions stores the uninitialised `new_list` as the cursor
  (`NewList`), and the next one follows it holding the semaphore
  (`FollowWildCursor`). `CursorInList` is checked without such commits, and
  `NoLostUpdate` speaks of cursors that are not `Wild`.
- *An owner that maps the segment again* forgets its subscribers' policies.
  `WaitersAreServed` speaks of those it has (`Registered`).
- *Intervals of 256 and more*, and multiples of 512, reach the kernel as other
  intervals (`Microseconds`). `ServedIsFresh` speaks of those that fit.
- *The server's list.* After the removal of the last of several nodes the tail is a
  freed node, and the next client is linked behind it, in no list: it waits for its
  reply for ever. `ListedServed` speaks of the clients in the list.
- *A client that dies with the semaphore* stops the server's next insertion
  (`LockGraph`). `ListedServed` is claimed as long as nobody did.
- *The semaphore is posted for somebody else* when `graph_init` finds it at 0
  (`InitGraph`). `OneInside` ends there.
- *A second initialisation of the graph* removes the first one's vertices, where a
  comment promises an error. `InsertedKept` ends there.
- *A resize of an array* loses what is in memory, as the mapping is private. The
  list of `Lists` has room, and `InsertedKept` and `AttributesFound` speak of the
  time before.
- *Attributes and gaps.* An index past the end gives `NULL`, to which the attribute
  is copied (`Fault`); a whole number is stored at its place in the file, and a
  number with a fraction is cut down to a whole one first (`Truncate`).
  `AttributesFound` says what is left.
- *The last of several free slots* counts as in use (`IsValid`) and can be freed
  again. `FreeListSound` says that the free list survives it.
- *The removal of an object from a list* leaves `listHeader.tail`, or `prev` of its
  neighbour, at the freed slot. `Lists` has the caller for whom this does no harm.
- *The sorting test.* The last signal of the generator may fall between the
  consumer's test and its wait, and then the consumer waits for ever (`CondWait`);
  a subscriber that is faster than the owner finds no semaphore (`Open`); a copy is
  read after its semaphore is posted; the list with no room (`Huh`). `KeysPublished`,
  `SubscribersEnd` and `QueryAtOnce` speak of the rest.
- *The random test.* A subscriber that is faster than the owner gives up, and the
  owner waits for its reply for ever; messages of an interrupted run confuse the next
  one. `TestEnds`, `Agree` and `LeftClean` speak of the others.

## 6. Not modelled, and the plan

Not modelled, and why: object slabs (nothing calls them); the text of JSON and of
options, statistics, `ftrace`, deployment (no state to speak of); test programs that
are straight lines of calls; reference counts, the reverse map and allocation
failure in the kernel module; several owners of a file, of which the code takes the
first mapping it finds.

Parts of modelled components that are left out, and what stands in the way:

1. *An owner that maps the segment again* (`KSnap`). A subscriber's cursor then
   points into a list whose entries point to page tables that are gone; what
   `copy_pte_entry` reads there is not defined by anything in the code.
   `CommitPolicy` has what the policies make of it.
2. *An owner with two threads* (`KSnap`), a fault of one in the commit of the other.
   The programs here commit from one thread.
3. *A server that is started again, and messages in pieces* (`Server`). A client
   library remembers its graph for the life of its process, so that the first
   request after a restart ends the server; this needs no search to be seen.
4. *Removals from a list in any order* (`Lists`): pointers at freed slots make
   every walk after some of them a walk of another list.
5. *`PageSwap` in one model with `KSnap`.* The commit of `KSnap` is not an abstraction
   of the loop, as read faults tell them apart; what a subscriber that both walks and
   faults ends up with after a missed insertion would need both in one module.

Proofs to come: the safety that is left is in definitions no run has a property for
yet. Abstract specifications of the array (a set of slots) and of the list (a sequence),
with `ArrayInv` and `ListsInv` as the invariants of their refinements.
