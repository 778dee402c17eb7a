# Verification of OpenVDB as packaged by this overlay

The repository is a Gentoo overlay. Its programs are package recipes, with one
exception: `media-gfx/openvdb/files` holds the source of OpenVDB twice, 6.0.0
in `a` and 7.0.0 in `b`. The package `openvdb-7.0.0-r2.ebuild` builds 7.0.0 with
`OPENVDB_ABI_VERSION_NUMBER=7`, so the modules here are about the tree `b`. All
paths below are relative to `media-gfx/openvdb/files/b/openvdb`.

OpenVDB is a C++ library for sparse volumes: a grid is a tree of nodes whose
leaves hold arrays of voxels, and for point grids arrays of attributes. Its
concurrency comes from Intel TBB.

## Inventory

| component | state | operations | what makes it correct | status |
|---|---|---|---|---|
| `io::Queue` (`io/Queue.cc`) | task count, capacity, status registry, notifiers and their mutex | write, status, (de)register notifiers, set capacity, destroy | no task beyond the capacity, no outcome lost, nobody called after deregistration, nothing used after destruction, every call returns | modelled |
| `tree::LeafBuffer` (`tree/LeafBuffer.h`) | a union of array and file information, the out-of-core flag, a spin mutex | construct, copy, assign, swap, fill, read, write, attach to a file, load | the union is read as what it is, readers see whole contents, nothing leaks | modelled |
| `tree::Tree`, `RootNode`, `InternalNode`, `LeafNode` | a table of tiles and nodes per level, value and child masks | set, modify, fill, add, steal, prune, voxelize, clip, topology, merge, combine | the tree is a map from coordinates to values and states, whatever its shape | partly |
| `tree::ValueAccessor`, registry of `Tree` | cached node pointers; a registry in the tree | cached get and set, clear, attach, release | what is read through a cache is what the tree holds; no cached pointer outlives its node | modelled |
| `points::AttributeSet`, `AttributeArray`, `StreamCompression` | arrays that sets share; uniform flag, out-of-core flag, page handle; pages | get, set, fill, collapse, expand, compact, copy on write, read, load | each leaf has values of its own; no access meets an array that is not loaded | partly |
| `tree::LeafManager`, `NodeManager` | linear arrays of leaf pointers, auxiliary buffers | rebuild, swap, sync, remove | arrays agree with the tree they were made from | not modelled |
| `util::PagedArray` | page table, size, growth mutex | push back, resize, shrink, merge | every value pushed is stored once | not modelled |
| `io::Archive`, `File`, `Stream`, `MappedFile` | open stream, grid descriptors, a mapping shared by unloaded leaves | open, read, write, close, copy, notify | a grid read lazily equals the grid written | not modelled |
| type registries | maps under a mutex | register, unregister, create | a registered type can be created | not modelled |
| `util::NodeMask` | bits | set, toggle, find next | `findNextOn` finds the next | not modelled |
| tools, math, points tools | none that outlives a call | numerical algorithms | floating-point results | not modelled |
| command line, viewer, Python | user interface | | | not modelled |
| OpenVDB 6.0.0 (`../../a`), ebuilds, scripts | | | | not modelled |

How they interact: `io::Queue` runs `Archive::write()` on TBB workers. `File`
reads a grid by building a `Tree`; each `LeafNode::readBuffers()` attaches its
`LeafBuffer` to the `MappedFile`, and any thread that first reads a voxel, often
through a `ValueAccessor`, makes the buffer load itself. A tree clears the
accessors in its registry before it deletes nodes, or should. A point leaf holds
an `AttributeSet` next to its voxels, whose arrays share pages of the same
mapped file and load themselves in the same way, and which copies of a leaf
share until one of them writes.

The hard parts are the interleavings (a count incremented after the fact, a flag
read without its mutex, a registry entry erased by two parties), what an
exception leaves behind in the middle of a handler, caches of pointers into a
structure that others rework, and long sequences of legal calls that meet an
object in a state nobody thought of. `PROJECT.json` lists them as hazards, each
at its line.

## Modules

| module | models |
|---|---|
| `TaskLedger` | abstract: what `io::Queue` promises for each task: accepted, completed once, told consistently, forgotten only when told |
| `IoQueue`, `IoQueueProofs`, `IoLedgerProofs` | `io/Queue.cc`, step by step; theorems |
| `BufferContents` | abstract: a leaf buffer has one content, which a call changes all at once when it ends, or not if it throws |
| `LeafBuffer`, `MCLeafBuffer`, `LeafBufferProofs`, `LeafHeapProofs`, `LeafContentsProofs` | `tree/LeafBuffer.h` and the delayed loading of `LeafNode::readBuffers()`; a view of its state; theorems |
| `Voxels` | voxels and the functors on them, for the next two |
| `VoxelMap` | abstract: a tree is a map from coordinates to voxels, and what each call does to it |
| `VoxelTree`, `MCVoxelTree`, `VoxelTreeProofs` | `tree/Tree.h`, `RootNode.h`, `InternalNode.h`, `LeafNode.h`; an instance; theorems |
| `TreeAccessor`, `MCTreeAccessor`, `TreeAccessorProofs` | `tree/ValueAccessor.h` and the registry of `tree/Tree.h`; an instance; theorems |
| `PointValues` | abstract: each leaf has attribute values of its own, a call takes effect on them at once or throws |
| `PointAttributes`, `MCPointAttributes`, `PointAttributesProofs` | `points/AttributeSet.cc`, `points/AttributeArray.h`, `points/StreamCompression.cc`; an instance and a second start; theorems |

The modules meet where the code does. `VoxelTree` has the values and takes a
call as one step; `TreeAccessor` has the places of the nodes, and whether a write
creates one is left open, so that it covers every run of `VoxelTree`.
`LeafBuffer` and `PointAttributes` are below both: what a leaf does when it is
read, by several threads.

### IoQueue

A client thread runs `writeGridVec()` and `enqueue()` (`pc`), workers run
`OutputTask::execute()` with `setStatusWithNotification()` (`wpc`), pollers run
`status()` (`rpc`); notifiers come and go at any time. One step is one access to
shared state, except where a lock makes several accesses one: an entry of the
concurrent hash map is locked by its accessor, so `status()` holds the entry it
has found until it has erased it (`EntryFree`), and the notifier mutex is held
over the whole loop (`mNotifierMutex`). The fields of the model carry the names
of the fields of `Queue::Impl`; the rest is the threads' control state and four
history variables (`outcome`, `notified`, `polled`, `returned`).

- `enqueue()`: `BeginWrite` takes the ID, `CheckCapacity` and `WakeUp` are the
  loop, `TimeOut` the exception out of it, then `SetPending`, `Spawn` and
  `CountAndReturn` in the order of the code, the count last.
- `execute()`: `StartTask`, `EndWrite` with either outcome, `SetFinal`,
  `LockNotifiers`, `CallNotifier` once per notifier, `UnlockNotifiers`,
  `EraseStatus`, `Uncount`; `NotifierThrows` leaves after the mutex is released
  and skips the rest, as the exception does.
- `BeginDestroy` and `FinishDestroy` are the destructor. Its caller has no other
  call in progress, except that tasks still run.

Time is abstract: a sleeping producer may find its time expired whenever it
wakes, which covers every value of the timeout. `Archive::write()` is an
outcome. One producer: `mNextId` and `mCapacity` are plain integers. The files,
the log messages and the ID type's width are left out.

Because the count is changed last, two expectations of its users fail in the
model's behaviours. A poller may have every outcome while `empty()` is still
false, which `unittest/TestFile.cc:2422` asserts it is not. And a notifier may
hear of a task before `write()` has returned its ID (`io/Queue.cc:308`), although
the example in `io/Queue.h:81-86` looks the ID up in what the writer filed.

### LeafBuffer

A thread enters a call (`BeginAt`, `BeginData`, `BeginSet`, `BeginAssign`,
`BeginConstruct`) and then takes its steps: the loading (`CheckInCore`, `Lock`,
`Recheck`, `TakeInfo`, `AllocateForLoad`, `ReadValues`, `ClearFlag`, `Unlock`,
`LoadThrows`), the access (`Access`, `Store`, `LockNew`, `NewArray`) or the copy
(`DropOwn`, `Decide`, `CopyFlag`, `CopyInfo`, `CopyCells`). Operations that have
their buffer for themselves by the library's rules (construction, destruction,
`fill`, `swap`, `allocate`, attaching to a file) are single steps. The 512
values of a buffer are one abstract content; `Garbage` is what a new array
holds. `wild` records that a pointer of the union was followed as what it is
not: the program's behaviour is then undefined and the model stops. `logical` is
the content that the operations called so far should have given the buffer.

`BufferContents` is what the users see of it: the calls the threads are in and
the content of each buffer. It is implemented (`KeepsContents`) with
`ContentOf`, the content of the file while the flag is set and of the array when
it is not, `Unallocated` if there is no array, and `None` for a buffer into which
a copy is being made.

A buffer made with `PartialCreate` has no array until somebody allocates one, and
`setValue()` (`LeafBuffer.h:237`) and `fill()` (line 270) ignore what is written to
it (`Overwritten`). `LeafNode::setValueOn()`, `setValueOff()` and `setValueOnly()`
(`LeafNode.h:419-422`, `1101-1106`, `1126-1129`) call `setValue()` without
`allocate()`, so any buffer may be written to in the model; `BufferContents` says
that the write has no effect there, and the run `LeafBufferSet` holds the code
against the comment of line 116, which says that it has.

Who may call what when is the usual rule for C++ objects: const members beside
const members, anything else alone. The constant `Uses` widens that by what the
code does not exclude but does not survive either. `"loadFails"`, reading that
throws, is on in the run. The other three are off and no run shows what they
lead to; they are what the theorems assume, `Unshared` (not the first) and
`Sensible` (not the others):

- `"copyShared"`: a buffer copied while others read it. The copy constructor
  (`LeafBuffer.h:217`) takes the flag and then the union; a load in between makes
  the copy call an array a `FileInfo`.
- `"fillLazy"`: `fill()` on a buffer that is attached to a file and not loaded.
  `fill()` (line 270) detaches it and then finds no array to fill.
- `"copyEmpty"`: assignment from a buffer that was never allocated. `operator=`
  (line 254) copies nothing, and the target keeps what it held or becomes empty.

### VoxelTree

The state is `tree`: the background and the root table, whose entries are
absent, a tile or an internal node; the slots of that hold tiles or leaves; a
leaf maps offsets to voxels. A voxel is a value and an active state. The masks
of the nodes are the sets of slots they stand for, so a node is a function and
each function of `VoxelTree` is one member function of one node class, with the
name of its level in front: `LeafFill`, `InternalFill`, `RootFill`. `InternalNode`
is one template for all its levels, and the model has one of them. A call of
`Tree` is one step that sets `tree` and notes in `call` what was asked, which is
all that `VoxelMap` gets to see of it. 30 operations are there: the writes and
modifications, sparse and dense filling, voxelizing, pruning, touching, clipping,
clearing, adding leaves, nodes and tiles, stealing one node or a level, setting
the background with and without updating the nodes, the three topology
operations, merging under the three policies, and the two ways of combining,
with and without pruning.

`VoxelMap` says of every call which voxels it changes and to what. Where the
result depends on where the nodes are, the map leaves a choice, and each is a
place where the code does not do quite what one would say:

- `ModifyBoth`: see the run `VoxelTreeModify` below.
- `Taken`, in `Merge`: `RootNode::merge()` hands the two backgrounds to
  `InternalNode::merge()` in the opposite order (`RootNode.h:2971`). The map is told
  where two internal nodes meet (`turned`): there a voxel of a stolen leaf that has
  this tree's background gets the other's, everywhere else the conversion goes the
  right way round.
- `Combine`: where a tile of this tree meets a node of the other, `SwappedCombineOp`
  (`Types.h:662`) drops the state that the functor of `combineExtended()` has set,
  and the union of the two states takes its place. The map is told where that is
  (`lost`), and that the functor's voxel is the result everywhere else. `Tree.h:783`
  documents that it always is: the run `VoxelTreeCombine`.
- The backgrounds are combined with the active states that the last pair of tiles
  left in the arguments (`RootNode.h:3211`). Nothing is documented of these states
  and the map leaves them open; where neither tree has an entry (`bare`), the result
  is the new background.
- `Narrow`: topology intersection and difference give an inactive voxel its old
  value or the background, depending on whether a branch was deleted.
- `SetBackgroundOnly`: without the update of the nodes, unwritten voxels change
  and background tiles do not.

### TreeAccessor

The other side of the same tree: where there are nodes (`nodes`, places made of
a tree, a root key and a slot), which trees exist, the registry of each tree
(the two sets of the code, `mAccessorRegistry` and `mConstAccessorRegistry`, are
told apart by `ConstAccessors`), and the accessors, each with its two cached keys
and pointers. A pointer is the place of a node, `Freed` or `Away` (stolen by the
caller). The actions are the construction, copying, assignment and destruction
of accessors, `clear()`, `eraseNode()`, reads, probes and writes through them
with exactly what is cached on the way (`Accessed` starts at the lowest cached
node that covers the coordinate, as the code does), `addLeaf()` and `addTile()`;
and the calls of a tree, with `clearAllAccessors()` where the code calls it and
without where it does not, merging and combining of two trees, and the
destruction of a tree under living accessors. `tile` is a history variable for
one property.

`Careful` is what `Tree.h:631` makes unnecessary and the code needs: that no
caller deletes, with `addTile()`, `addLeaf()` or `combine()`, a node that an
accessor caches. A tile put through an accessor at the level of a cached
internal node itself does nothing (`InternalNode.h:1435` returns, where
`ValueAccessor.h:1867` has started from the cached node); this is in `AddTile`.

### PointAttributes

One attribute of several leaves. `mAttrs` says which array each set holds (a
`shared_ptr`; holders are counted by asking), `array` and `page` are the fields
of the arrays and pages, and each has its mutex. Threads enter calls
(`BeginRead`, `BeginWrite`) and take steps: copying a shared array first
(`CopyLock`, `CopyFlags`, `CopyHandle`, `CopyData`, `Assign`: the base class
takes the flags and the handle, then the derived class the data), loading
(`CheckInCore`, `Lock`, `Recheck`, then the page: `CheckPage`, `LockPage`,
`RecheckPage`, `AllocatePage`, `ReadPage`, then `CopyOut` and `ClearFlag`;
`LoadThrows` releases both locks and changes nothing else), and the access. The
content of a page is the slice each handle leads to. The union of page handle and
number of bytes is `mPageHandle`; destroying the number as a handle and following
a null pointer set `wild`, after which the model stops.

Leaves are created, copied (sharing), given another set's array, dropped at any
time, also in the middle of reading, and read from a file in the three passes of
`PointDataLeafNode::readBuffers()`: `ReadMetadata`, `ReadSizes`, `ReadDelayed`, or
`ReadPlain` without pages. The rule for callers is again const beside const on
one set; two sets that share an array know nothing of each other.

Facts of the code that shape the model:

- `Page::mInfo` is a plain `unique_ptr` read without the mutex (`buffer()`,
  `StreamCompression.cc:299`); loads are taken in program order.
- `collapse()` and `expand()` do not load the array; they are modelled for
  callers whose handle has loaded it. Called directly on a uniform array that is
  out of core they follow the null `mData` (the assertion of
  `AttributeArray.h:790`).
- Without Blosc, `writeMetadata()` records a size of 0 bytes for an array that is
  out of core (`AttributeArray.h:1893`, 1321); writing is not in the model.
- `operator=` of the typed array (lines 1208-1229) is never instantiated.
- A const handle kept while its set is made unique may be left with an array
  nobody holds; handles do not outlive the call in the model.

## Runs

| run | question | outcome |
|---|---|---|
| `IoQueue` | count, admission, outcomes, deregistration, destruction; whom waiting threads wait for; do writers and the destructor come back; is the ledger implemented | holds |
| `IoQueueThrowHang` | does the destructor come back when a notifier throws | no |
| `LeafBuffer` | union, contents, heap, mutex, returning calls, over all states of two buffers and with failing loads; is loading invisible | holds |
| `LeafBufferSet` | does what `setValue()` was given arrive | no |
| `LeafBufferLoadFails` | do the assertions of `doLoad()` hold after a failed load | no |
| `VoxelTree` | does every call on every tree implement the map, do idle writes and pruning leave the right nodes | holds |
| `VoxelTreeModify` | is a functor on value and state always applied | no |
| `VoxelTreeCombine` | does `combineExtended()` keep the state its functor sets | no |
| `TreeAccessor` | are caches and registries right, given careful callers; do tiles replace leaves | holds |
| `TreeAccessorStale` | are accessors cleared whenever a node is deleted, as `Tree.h:631` says | no |
| `PointAttributes` | is every access to a loaded array of its own, does every leaf keep values of its own | holds |
| `PointAttributesLive` | are mutexes taken in one order and released, pages used only when complete, also when loading throws | holds |

What the failing runs show, under "findings" in `PROJECT.json` with the lines:

- `IoQueueThrowHang`: an exception of a notifier passes the decrement of the
  count, and `~Queue()` waits for ever.
- `LeafBufferSet`: `setValue()` on a buffer without an array does nothing, and its
  callers in `LeafNode` do not allocate one.
- `LeafBufferLoadFails`: when reading throws, the `FileInfo` is gone and the flag
  still set; the next access takes an array for a `FileInfo`.
- `VoxelTreeModify`: `modifyValueAndActiveState()` tries the functor on the
  opposite of a tile's state; one that toggles the state looks idle and is lost.
- `VoxelTreeCombine`: where a tile of this tree meets a node of the other, the
  functor's active state is replaced by the union of the two states.
- `TreeAccessorStale`: `addTile()`, `addLeaf()` and `combine()` delete nodes that
  registered accessors go on caching.

Every property of a passing run has a mutant in `PROJECT.json`: a definition of
the model changed as a plausible defect of the code would change it, which the
run then refutes. Several modules keep such variants next to the definition they
replace.

### Bounds

- `IoQueue`: two tasks, two workers, a poller, two notifiers that may throw,
  capacities 0 and 2 at construction and 1 and 2 through `setCapacity()`. The queue
  fills, blocks and drains with one task counted late beside one running; a defect
  in the counting needs two tasks, and two notifiers let one be removed between the
  calls of another. The safety theorems are about any number of each.
  `IoQueueThrowHang` has one worker and one notifier.
- `LeafBuffer`: two threads and two buffers are enough for a race of two loaders,
  of a loader with a copier, and for each pair of states of the union; a third
  thread would only wait. Two contents, one of them `Zero`, tell stale from fresh.
  The view `StateInUse` forgets the arguments of calls that are over and the
  contents of arrays, files and buffers that are gone. One thread and one buffer
  are enough for the two failing runs.
- `VoxelTree`: one root key, two slots, leaves of two voxels, values -1, 0, 1
  (`setBackground()` negates); boxes of consecutive voxels cover a leaf, half of
  it or more; the other trees of binary operations have each kind of entry on
  each level. Keys do not interact except through the background and the leftover
  states of `combine()`. Every tree that calls can build is reached (the view
  `TreeOnly` forgets which call it was; the properties of steps are evaluated on
  each step).
- `TreeAccessor`: two trees, two accessors, three leaf regions of which two share
  an internal node, so that a cached node covers one neighbour and not another.
  In `TreeAccessorStale` one accessor is const.
- `PointAttributes`: two threads, two sets, three arrays (one more than sets, for
  the copy being made), one page, two elements, two values, so that uniform and
  not, equal and unequal are told apart. `PointAttributesLive` starts from leaves
  read from one page of a mapped file, which share an array or not (`InitRead`,
  a state `PointAttributes` reaches), and lets one load throw; with `MaxFailures`
  bounded, loading is eventually successful if it is tried often enough, but the
  properties do not depend on that.

Symmetry is used for safety and for properties of single steps only, never where
liveness is checked; the view of `LeafBuffer`, where it is, leaves out only what no
later step and no property reads. Deadlock is checked where nothing stops for good.
`CHECK_DEADLOCK FALSE` is said where the destructor may wait for ever behind a
throwing notifier, where the model stops after a wrong pointer, and for
`TreeAccessor`, where all trees and accessors may be gone.

### Fairness

A thread that runs is scheduled again: weak fairness of the steps of a call in
progress, of a worker and of the destructor. TBB runs tasks given to
`task::enqueue()` without anybody waiting for them, so a spawned task finds a
worker. `TimeOut` gets strong fairness: the loop of `enqueue()` reads the clock
in every round, and the clock passes any limit; it is enabled once a round, not
continuously. Nobody is obliged to begin a call, and no fairness is assumed of
spin mutexes. A leaf buffer is loaded once, after which nobody asks for its
mutex; when loading fails each time, some thread gets the mutex each time and
returns: `CallReturns`. An attribute array is copied under its mutex as often as
sets share it, so a call may wait for ever for a mutex that others go on taking;
what the code does guarantee, and `MutexReleased` says, is that whoever holds it
releases it, although the mutex of a page is taken under it.

Each of these liveness properties has a safety half that needs no fairness, and
that is proved: `WaitsForWork`, `MutexHeldInside` and `LockOrder` say that whoever
waits, waits for a thread that can go on.

## Proofs

All theorems are about every value of the constants that satisfies the
assumption of the module. Assumptions on the constants say that sets are of the
right type and that null, garbage and the like are none of the things they stand
beside.

**`IoQueueProofs`**, for any number of workers, pollers, tasks and notifiers, all
capacities, with or without throwing notifiers: `TypeSafe`, `CountSafe`,
`FreedSafe`, `RemovalSafe`, `OutcomeSafe`, `AdmitSafe`, and `NoDeadlock` if there is a
worker at all. The inductive invariant `Inv` adds to the properties:

- `ClientOK`, the client's local task is new until it is spawned; without it
  `Spawn` could re-run a task and the count would be off;
- `WorkerOK`, a busy worker runs a task of its own, so `Uncount` removes exactly
  one element from `Unfinished`;
- `RoomOK`, between the look at the capacity and the hand-over the queue only
  shrinks, which gives `AdmitWithinCapacity`;
- `FreedOK`, from `mNumTasks <= 0`, `CountExact` and no producer in `enqueue()`;
- `MutexOK`, the iteration over the notifiers is under the mutex, which gives
  `NoCallAfterRemoval`;
- `StatusOK` and `KnownOK`, from `SetFinal` on the outcome is on file or known,
  and at the erase it has been told: `OutcomeNotLost`.

`NoDeadlock` needs `ProgressOK` besides: a running task has a worker, the notifier
mutex is held by a worker among its notifiers, also past an exception, and a
destructor has no `status()` call beside it. So while a task is unfinished some
worker can take a step, unless a poller is about to give back its entry; and
a destructor waits for a worker that can go on, or behind a notifier that threw.
That exception is the run `IoQueueThrowHang`.

**`IoLedgerProofs`** proves the steps of the refinement of `TaskLedger`,
`QueueKeepsLedger`: the queue starts as the ledger does and each step of a client,
worker, notifier or `status()` call accepts, completes, tells or forgets one task,
or is not to be seen. It needs one more invariant, `RegistryOK`: an entry is
`"PENDING"` exactly from `SetPending` to `SetFinal`, although two threads write it.
That every accepted task is completed, the other half of `LedgerSpec`, rests on
fairness.

**`LeafBufferProofs`**, for any number of threads and buffers. Four invariants are
built on one another, each of which costs an assumption on the callers:

- `Core`, no assumption, also past an undefined access: `TypeSafe`; `MutexInside`,
  a mutex is held inside its critical section only, also after an exception;
  `LoadExclusive`, one loader at a time.
- `Inv`, assuming `Unshared`: which combinations of flag and union occur and who
  may see them: in core and not an info, out of core and an info (or the array of
  a failed load), being loaded by the one holder of the mutex, or the unfinished
  target of a copy. It is what the others rest on.
  `UnionSafe` follows from it: a step that follows the union as what it is not
  finds the leavings of a failed load (`FollowsUnion`).
- `UnionOK`, assuming `Regular` (`Unshared`, and files can be read): `NeverWild`, no
  step does at all. Without the second part that is false, as the run
  `LeafBufferLoadFails` shows.
- `HeldOK` (the array or the file holds `logical`) and `SourceOK` (the source of a
  copy does not change under it), assuming `Unshared` and `Sensible`:
  `ReadsCorrect`. It holds also when loads fail, since a thread whose load has
  failed does not come to read.

**`LeafHeapProofs`**: `NothingLeaks`, for finitely many threads and buffers that
are `Unshared`: as long as no pointer is followed as what it is not, the counts of
arrays and `FileInfo`s are those of their holders (`HeapOK`), and a buffer that is
not alive holds nothing (`DeadOK`), also when loads fail. Each step moves at most
one of each, so the counts follow the sets of holders.

**`LeafContentsProofs`**: `ContentsKept`, the refinement of `BufferContents`,
assuming `Unshared` and `Sensible`. Every step of the model is the begin of a
call, its end with its whole effect (which is none for a write to a buffer without
an array), its end by an exception without any, an operation of an owner, or not
to be seen. The eight steps of loading are not to be seen, because the content
moves from file to array in `ClearFlag` alone, and by then the array holds what the
file does; nor are the steps of a copy, whose target has no content until the last.

**`VoxelTreeProofs`**, for any keys, slots, offsets, values, regions, functors and
other trees: `TypeCorrect`, `TreeImplementsMap` (the refinement of `VoxelMap`),
`QuietWrites`, `PruneIsComplete`. `TypeOK` is inductive, there is no other
invariant: every well-formed tree can be met. The work is in the functions. Each
has a lemma that says what it returns in terms of the voxels of its node, first
for leaves, then for slots and internal nodes, then for root entries and the
table; each call then has a lemma (`WriteAnswered`, `MergeAnswered`, ...) that the
map's specification of the call allows exactly that result. Where a tile and a
node change places (`Swapped`) and where the conversion goes backwards (`Turned`)
are shown to be the only places where combining and merging depend on the nodes.

**`TreeAccessorProofs`**, for any number of trees, accessors, keys and slots.
Whatever callers do: `TypeSafe`, `RegistrySafe`, `AddTileSafe`. The invariant `TInv`
adds to types and registries that a cached key is that of the region of the
cached node (`KeysMatch`), which stays so when nodes are deleted, stolen or moved
to another tree under the accessor: a write through a cache may then end up in
another tree, but not outside of all of them, and `addTile()` puts its tile where
it has removed the leaf. `CacheSafe` assumes `Careful`, without which it is false
(the run `TreeAccessorStale`): `TypeOK`, `RegistryExact` and `CachedOnPath` are then
inductive together, as a tree clears what its registry holds, so every accessor
that caches its nodes must be in it, and an accessor that is not cleared can only
cache nodes of other trees.

**`PointAttributesProofs`**, for any number of threads, leaves, arrays, pages,
elements and values and any number of failed loads: `TypeCorrect`, `NeverWild`,
`AccessIsSafe`, `CopyOnWrite`, `PagesComplete`, `LocksOrdered`, and `ValuesAreOwn`, the
refinement of `PointValues`. The invariant:

- `CallOK`, a thread works on the array its set holds, and that is not being read
  from a file; `ExclusionOK`, a writing thread is alone with its set; `UniqueOK`,
  past the copying its set is the only holder;
- `NewOK`, a copy being made is nobody else's; `MutexOK`, the steps under a mutex
  are those of its holder;
- `HeldOK`, the fields of an array that is held fit together: out of core with a
  page handle and no data, or in core with data, or being read;
- `PageOK`, a page is complete exactly when nothing remains to be read, or its
  loader is at work; `LoadOK`, what a loading thread has found stays so;
- `CopyOK`, flags, handle and data of a copy are of one moment: this is where the
  lock of the source is needed.

`LocksOrdered` rests on its converse, `HolderOK`: whoever holds a mutex is inside
the statements it guards, and holds one page at most. The order is array before
page, so nobody waits in a circle, however many arrays share a page.

The refinement maps an array to the values it stands for (`ContentOf`, through
the page handle if it is out of core). Every step then is the begin of a call, its
effect, its failure, the appearance, copying or end of a leaf, or not to be seen:
copying on write, loading and compaction change no values.

TLC checked the invariants on small instances before they were proved. Every
safety property of a passing run is a theorem. Checked by TLC only: liveness
(`WriteReturns`, `DestructorUnblocked`, `CallReturns`, `MutexReleased`, the completion
of every accepted task in `LedgerSpec`), since the prover does not reason about
fairness; of each the safety half named under Fairness, or `QueueKeepsLedger`, is
proved.

## Not modelled

- `LeafBuffer<bool>` is a bit mask without loading or allocation.
- Memory ordering is taken as sequentially consistent: the flags are TBB atomics
  with release and acquire semantics on the paths that matter, and the unlocked
  reads of the unions come after them. Allocation does not fail.
- Of the tree: `clipUnallocatedNodes()` (`Tree.h:1765`), pruning with a tolerance
  above zero (which compares values in their arithmetic), copying between value
  types, iterators, serialisation, and the read-only counts and bounding boxes.
- `LeafManager` and `NodeManager`: arrays of pointers that are valid until the
  tree changes, which the header leaves to the caller; between two changes they
  are parallel loops over distinct leaves.
- `util::PagedArray` has no client in the library, only `unittest/TestUtil.cc`.
- `io::Archive`, `File`, `Stream`, `MappedFile`: formats and system calls. Their
  concurrent part, delayed loading from a file that may fail, is in `LeafBuffer`
  and `PointAttributes`. `createBuffer()` (`io/Archive.cc:550`) writes
  `mLastWriteTime` from each thread that loads, to the same value unless the file
  has changed.
- Of the points: attribute descriptors and groups, appending and dropping
  attributes, strided access, the codecs, writing pages (`PagedOutputStream`),
  and streaming handles that collapse an array on destruction.
- The type registries hold one mutex from the first to the last statement of
  every call. `NodeMask` is bit tricks without state of its own; `VoxelTree` uses
  masks as the sets they stand for.
- Math, tools and the point algorithms are floating-point code without state
  that outlives a call; command-line programs, viewer and Python module are user
  interfaces; the older copy of the library and the package recipes are not
  programs of this system.
