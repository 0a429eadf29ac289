# Networked-File-System: a TLA+ development

The repository holds the parts of a networked file system, written as C++
headers under `src/SRC_FS_MERGE/LIBS`. The headers have no callers: `CORE`
holds include lists, and `main` is empty. The specifications here therefore
describe what each class does for *any* program that uses it within its
documented contract. The `Makefile` builds with `g++ -std=c++14 -ggdb`, without
`NDEBUG`, so every failed `assert` ends the process.

## The parts of the system

| part | state it keeps | operations | what is hard |
|---|---|---|---|
| `debug_status` (`defs_debug.h`) | return code, message table | `setReturnCode`, getters | every class derives from it; an illegal code aborts; codes of a class start at 2500, callers pass 0..n |
| `handler_callback` (`defs_handler.h`) | a stored function, its unbound pointer, whether it is parameter free | `setFunction`, `setBoundOrFreeFunction`, `setParameters`, `run` | the order of the setters decides whether the pointer is initialised |
| `scheduler_runslice` (`defs_scheduler.h`) | two lists of handlers, a lookup, a mode, a credit for the priority list | enqueue, update, move, remove, mode, `run`, `clean` | handlers run inside `run()` and may use the scheduler; the lookup and the lists must agree |
| `scheduler_interrupt` (`defs_scheduler.h`) | eight queues, a map of callbacks, nine mutexes | register, update, remove, the signal handler, `toggleHandlerSignaling`, `clean` | signals, locks; its constructor always aborts |
| `concurrency_manager` (`defs_concurrency.h`) | task queue, stack of dead ids, counters, exit flags, common variables | enqueue, forward, force, run, set/end tasks, enlist/remove/lock a variable | threads, a wait in `join()` between reading and popping the back of the queue, destructors of copies with side effects |
| `network_instance` (`defs_network.h`) | two descriptors, three flags, a size buffer | set parameters, accept, start, terminate, send, receive | descriptors after termination, short reads |
| `file_descriptor` (`defs_file.h`) | a stream, its mode | read, write, repurpose | reopening an open stream |
| `debug_logger` (`defs_debug.h`) | a `file_descriptor` | `log`, mode changes | every `log` ends in `write_newline`, whose two asserts exclude each other |
| `filesystem_head` (`defs_filesystem.h`) | the recorded directory, a `stat` buffer | change, list, make, remove, create, get, delete | recorded against real working directory, stale `stat` results |
| tree (`defs_internal.h`) | nodes, a current node, an offset, foreign lookups, a `filesystem_head` | set the offset, step, change path, kill, look up, clean | parent pointers that are never set, iteration over copies, a head that works on the real disk |
| `encryption_offline` (`defs_encryption.h`) | maps of keys, ivs and secrets by address | set, wipe, encrypt, decrypt | two maps that must agree, the search for a tag |
| `encryption_networked`, `encryption_libraries` (`defs_encryption.h`) | RSA keys, flags | load, encrypt, decrypt | the flags never become true |
| revisioning, time, CORE | none of their own | stubs, formatting, includes | nothing |

`debug_status` is the base class of all managers; `scheduler_runslice` and
`scheduler_interrupt` store `handler_callback`s; `debug_logger` and
`filesystem_head` own a `file_descriptor`; the tree owns a `filesystem_head`.
There are no other interactions in the code.

## The modules

| module | models |
|---|---|
| `DebugStatus` | `debug_status`. A module of a derived class EXTENDS it. `process` says whether an assert failed (`"aborted"`) or the program left the defined behaviour of C++ (`"undefined"`); both are final. |
| `HandlerCallback` | `handler_callback` as a record and operators on it; `Indeterminate` is the value of the pointer that no constructor sets. |
| `RunsliceScheduler` | `scheduler_runslice`: one action per public operation. `run` ends at the call of the handler and pushes a frame; `callbackReturns` is the rest of `runOperationInline` and of `run()`. |
| `Registry` | the abstract specification of its registration interface: a partial map. |
| `ConcurrencyManager` | `concurrency_manager` with the threads that call it. `runTask` ends at `join()`; `joinReturns` is the rest. `forceTasks` and `setAllTasks` are a call, a number of `runTask`s and `callReturns`. |
| `FileDescriptor` | `file_descriptor` as a record and operators on it: what a call makes of the object and of the node of the disk it works on. |
| `FileLifecycle` | a program, or a `debug_logger`, that keeps one `file_descriptor`, with the disk. |
| `FilesystemHead` | `filesystem_head` with a tree of files and the process's working directory; uses `FileDescriptor` for the files it creates and reads. |
| `TreeFilesystem` | `internal_unbalanced_tree` and `internal_unbalanced_tree_filesystem`, composed with `FilesystemHead`, which it EXTENDS: each step of the tree contains the action of the head it calls. |
| `NetworkInstance` | some `network_instance`s of one process, each on its thread, with the descriptor table they share, other files of the process, and the peers. |
| `Connections` | the abstract specification of what the instances promise one another: each has at most one connection, which it alone opens and closes. |
| `EncryptionOffline` | `encryption_offline`: the three maps. |
| `TagSearch` | `getTagOffsetAndSplice` of `encryption_offline`, which it EXTENDS: one call, a step for every turn of its loop. |
| `MCRunsliceScheduler`, `MCConcurrencyManager`, `MCEncryptionOffline` | instances for TLC. |
| `ListLemmas` | lemmas on lists and minima that several proofs use. |
| `RunsliceSchedulerProofs`, `RunsliceRegistryProofs` | the invariants of the scheduler; that it implements `Registry`. |
| `ConcurrencyManagerProofs` | the theorems about the concurrency manager. |
| `FileLifecycleProofs` | the theorems about the file descriptor. |
| `FilesystemProofs` | the theorems about `filesystem_head` and the tree that moves with it. |
| `NetworkInstanceProofs` | the theorems about network instances. |
| `EncryptionOfflineProofs` | the theorems about the maps of keys and the search for the tag. |

Definitions have the names of the members and functions they stand for.
An operator that is commented as a *mutant* of another is a plausible slip in
the code; no specification uses it. It is there to show that a property would
catch the slip when the mutant takes the other's place.

### RunsliceScheduler

* The two `list`s are sequences with the front first. `emplace_front` is
  `Cons`, `find_if` finds the first entry of an identifier (0 for `end()`).
* `unordered_map<int,bool>` is a total function to `"none"`, `"priority"`,
  `"normal"`.
* `runOperationInline` takes the list **by value**: its `pop_back` and
  `emplace_front` change a copy. What it still reads of that copy after the
  handler is in the frame (`id`, `persist`), with the branch of `run()` that
  called it (`only`). The model hence never rotates a queue and never removes a
  one-shot entry, as the code does not.
* `run()` reads the mode anew after the handler: `NextRunsLast`.
* A failed operation passes the raw enumerator to `setReturnCode`: 0 and 1 are
  accepted (and mean "OK" and "Allocation failed"), 2 and 3 abort.
* `updateRegistrationParametersOnly` only forwards to `updateRegistrationParameters`
  with a null function and is that action with `NullPtr`.
* `enqueueRegistrationParameters` is not called with a null function: its
  comment makes that the caller's fault, and `bind` would store a null call.

### ConcurrencyManager

* Operations other than `runTask` are single steps. The class has no lock for
  them, so a program that overlaps two of them has a data race and no
  behaviour of its own; a program that serialises them is what is modelled.
  While a caller waits in `join()` other threads, the joined one included, use
  the operations in `DuringCalls`.
* A task is copied into the queue and the local one destroyed. The effects of
  that destructor are part of `enqueueTask`: the count of running tasks loses
  one, the access counts just taken are given back, a permanent task trips the
  assert unless the exit flag is set, a reoccuring task recurses without end
  (`"undefined"`: the stack is exhausted).
* `short` counters wrap (`Short`); `HalfShort` is 2^15 in the build and small
  in the runs so that wrapping happens.
* `list::sort` with the comparison of `forwardTasks`, which is not an order, is
  modelled by what libstdc++'s merge sort makes of it (`Forwarded`): the place
  of each task is one more than the number of tasks the sort puts before it
  (`SortedBefore`, `SortedPlace`), which is what the proofs reason about.
* A common variable that is erased while tasks point to it makes them `stale`;
  using or destroying a stale task is `"undefined"`. `removeCommonVariable` then
  clears a flag in the node it has just freed: the step erases the variable or is
  `"undefined"`.
* `getCommonVariableLock` and `enlistCommonVariable` only hand out a pointer to
  the lock (`pointers`); taking and giving back the lock are steps of the program
  (`lockCommonVariable`, `releaseCommonVariable`, external). Once the variable is
  removed the pointers dangle, and taking the lock through one is `"undefined"`.
* `enlistCommonVariable` is modelled as it reads. It cannot be instantiated
  (`atomic_flag` is not assignable), so the runs with `Lookups` non-empty show
  what the class does once that line compiles.
* There is one manager. The flag and three counters are static, so two managers
  would share them.

### FileDescriptor and FileLifecycle

* `file_name` and `file_mode` are what the object was last told, `opened` and
  `flags` what its `fstream` has open. `getFileDescriptor` never closes, and
  `fstream::open` of an open stream fails and keeps the file, so the two differ
  after any `modifyMode` or `repurpose` of an open stream.
* Writes are buffered (`pending`) and reach the file when the buffer is full
  (`flush`, at any time), when a reader positions the stream, or when the object
  is destroyed. An abort loses them.
* The readers take the size of the array they allocate from `tellg()`. In the
  fail state that is -1, and of a directory a number beyond all memory:
  `new[]` throws, nobody catches it, the process is `"aborted"`. Reading a
  stream that is open for writing sets the fail state unless the file is empty.
* `write_newline` asserts `is_string` and `is_write`, which no mode gives, so it
  and `debug_logger::log`, which ends in it, always abort.
* `operator>>` reads into a pointer that was never set: `"undefined"`.

### FilesystemHead

* A path is the sequence of its names; `.` and `..` are not used. The recorded
  directory (`filesystem_current_directory`) is absolute. `changeDirectory` and
  `getFile` go by it; the other operations hand a relative path to the system,
  which goes by the working directory.
* The wrapper of `chdir` has the result type `bool`: success, 0, is `FALSE`.
  Hence a successful change sets the error code and records nothing, and a
  failed one records the directory.
* `setRoot` moves only to a root that ends in a delimeter; the root `/` itself
  becomes the empty string, to which `chdir` fails. Its result for that case and
  for a root without delimeter is the one the code computes.
* `stepBackDirectory` hands an absolute path to `changeDirectory`, which appends
  it to the recorded directory. With more steps than names its unsigned index
  passes 0: `"undefined"`.
* The result of `stat` is ignored: when it fails the buffer keeps what an earlier
  call left, or what it was constructed with, which is any type. A listing
  leaves the type of its last entry, in an order the system chooses.
* Error codes are passed without their offset: 0 and 1 are accepted, 2 to 4
  abort. `removeDirectory` of its default `./` always fails, and hence aborts.
* `createFile` opens its file for reading, and its write fails unnoticed.

### TreeFilesystem

* No node is ever given a name or a parent. A node is entered only by the name
  `""`, which finds the first child, so the nodes that can be reached are a
  chain: `internal_children[k]` are the children of the k-th node, each known by
  its `is_directory`, and `internal_heap_pointer` is the place of the current
  node in the chain. `is_directory` of the head is never initialised.
* Every step that moves contains the action of the `filesystem_head`: a step
  forward is `changeDirectory` and `moveDown`. `pathChangeInline` splits at white
  space and goes on while `stepForwardDirectory` returns false, that is, while
  the process moves; its only effects on the tree are new children.
* `setRoot` returns true when the process could not go there, so the object is
  armed for offsets that do not exist, and for the root `/`, which becomes the
  empty string.
* `updateRepresentation` iterates over a vector that is gone, `clean` of a node
  with children goes through pointers to copies that are gone, and `removeNode`
  off the head follows the null parent: `"undefined"`.
* The operations that change nothing (`serializeRequest`, `getForeignLookup` and
  the like) appear as the abort of their assert (`Unarmed`).

### NetworkInstance

* `kernel` is the table of descriptors, `socket` and `accept` take the lowest
  free one, and `terminateConnection` closes numbers, whatever they are by then.
  `acceptConnection` ends at `accept()`; `accepted` is the rest. Other instances,
  peers and files of the process act in between.
* Every failure but that of a name lookup passes a code of two or more and ends
  the process; what the call assigned before is not kept. `setParameters` sets a
  code in any case: 0, "OK", when all went well.
* A stream is a sequence of bytes: digits, the bytes that pad a header, data.
  `sprintf` and `atoi` are modelled by what they do to the buffer; what was in it
  stays behind the new text. `read` returns any number of the bytes that wait.
  The sizes of header and buffer keep their order, the header being longer than
  the buffer (256 and 6 bytes in the code), which is an overflow whenever more
  bytes arrive than the buffer holds.
* `setParameters` on an established instance loses its connection. Whether a
  program does that is the constant `Reparameterise`, a guard of the action that
  the code does not have; with TRUE the invariant of connections and the
  refinement do not hold, but still no other instance is to blame (`OnlyItsInstanceLosesAConnection`, which is proved).
* `terminateConnection` is one step, although other threads run between its two
  `close`s and before its flag is cleared. The flag is read by the instance's own
  thread only. Other threads see that the first number is free and the second not
  yet; that is what they see as well when the step has been taken and another file
  of the process has the second number, which `OpenFile` and `CloseFile` allow: in
  either case they are not given the number, and `bind` and `connect` refuse it.
* `sendToConnection` writes more bytes than the buffer has; the bytes past it are
  padding in the model, as nothing is said of them but that they are no payload.
* `Connections` sees of an instance the descriptor of its connection, if the
  instance is established (`connection`), and of the kernel which descriptors are
  connected (`open`). Everything else, stale numbers included, is a stutter.

### EncryptionOffline

* The asserts on `key` and `iv` compare pointers with a literal and never fail;
  the one on the address does.
* `AESEncrypt` has the tag written through a pointer that was never set
  (`"undefined"`). In `AESDecrypt` a stray semicolon ends the test of
  `EVP_DecryptInit_ex`, so the code 4 is always passed and the process ends. The
  two `Default` wrappers call each the other operation.
* `paired` is a history of the arguments of `setKeys`.
* `AESDecrypt` never gets as far as the search for the tag, which is hence a
  specification of its own (`TagSearch`), with the indices of the code:
  `compareByte` is a turn of the loop, `loopEnds` its last test, which may still
  decrement `size`, and what follows it. A search that fails passes an illegal
  code and ends the process.

## What the runs check

| run | result | shows |
|---|---|---|
| `runslice` | pass | `TypeOK`; `LookupBacked`: each identifier of the lookup has an entry in the list it names, on which the unchecked `find_if`s rest; `NeverUndefined`; `PriorityCreditNeverAccrues`: the counter that should give the priority list a turn is always 0; `ArgumentsBindKnownFunction`: replaced arguments are bound to a function that was registered; `ImplementsRegistry`: with stale entries in the lists, the registrations still behave as a map |
| `runslice_turns` | violation | `EveryHandlerGetsItsTurn`: round robin starves a registered handler |
| `concurrency_tasks` | pass | `TypeOK`; `CountMatchesQueue`; `IdLedger`: no id is shared or lost while ids of tasks still being joined are reused; `FlagIsHeldByOneJoin`; with nobody reordering during a call, `QueueGrowsAtTheFront`: what happens during a join only adds tasks in front, and `StartedTaskLeavesQueue`: the task popped after the join is the one that was started |
| `concurrency_moves_on` | violation | `LoserMovesOn`: a caller that finds `runTask` taken by another one does not move on; reporting the failure ends the process |
| `concurrency_reorder` | violation | `StartedTaskLeavesQueue`: reordering during a join drops a task that never ran |
| `files` | pass | `TypeOK`; `GoodStreamIsTheNamedFile`: a stream that is not in the fail state is the file and mode the object names; `BufferReachesItsFile`: what is buffered reaches the file that was open when it was written, also across a `repurpose` |
| `filesystem` | pass | `TypeOK`: every node stays in a directory, the process never stands in a directory that was removed, only legal codes are set |
| `filesystem_reports` | violation | `SuccessMeansDone`: `changeDirectory` and `stepBackDirectory` report success when the process did not move, `createFile` when there is no file; each of the three parts fails by itself |
| `tree` | pass | `TreeTypeOK`; `NullParentIsNeverFollowed`: killing nodes never reaches the null parent, since only the head can pass for a file |
| `network` | pass | `TypeOK`; `EstablishedOwnsItsConnection`: although terminated instances stay ready with stale numbers, an established one sends to a connected socket no other established one holds; `ImplementsConnections`: a step opens or closes at most one connection, that of the instance that takes it |
| `network_receive` | violation | `ReceiveReturnsThePayload`: with a whole message waiting, the call overflows the buffer or returns something else |
| `encryption` | pass | `TypeOK`; `KeysComeInPairs`: key and iv of an address were given by one call; `TagIsFound`: what the search finds follows a delimeter, and an unambiguous tag that `insertTag` appended to a ciphertext that is not empty is found, whatever newlines and delimeters the ciphertext has; `SearchEnds` (liveness) |

A violation run states what a comment, an assert or a table of the code says;
`PROJECT.json` quotes the line with each finding.

The models also have behaviours that no run singles out: a one-shot handler is
called again after it left the lookup, since its entry stays in the list;
`run()` of an empty scheduler aborts, its error code being 2 or above; a
reoccuring task exhausts the stack in `enqueueTask`; the count of running tasks
falls by one with every task queued, so the recommended number of threads is
exceeded, until the short wraps and a ready task is refused on an idle machine.

### Where the code and its comments disagree

Five disagreements are runs that end in a violation. The others below were met
while modelling; the models do what the code does, no property of a passing run
states it as if it were intended, and each is given with the line that says
otherwise. Paths are under `src/SRC_FS_MERGE/LIBS`.

| the comment | the code |
|---|---|
| `defs_scheduler.h:186`, `:217`: a slice algorithm, `round_robin` | the rotation changes a copy: run `runslice_turns` |
| `defs_concurrency.h:381`, `:472`: the next task | a task reordered to the back during a join is dropped: run `concurrency_reorder` |
| `defs_concurrency.h:17` "Instead of waiting, MOVE ON", `:479` "If a task was ready and ran" | every failed `runTask` passes an illegal code and ends the process: run `concurrency_moves_on` |
| `defs_filesystem.h:263` "If the directory has changed or a change was not required", `:308`, `:532` "If the file was successfully created" | the result of `chdir` is inverted, and no file is ever created or written: run `filesystem_reports` |
| `defs_network.h:245-247` "The payload received" | run `network_receive` |
| `defs_debug.h:140` "This allows the child to create its own error messages if needed" | all classes pass enumerators without the offset of 2500, so 0 and 1 become "OK" and "Allocation failed", the others abort, and no message of a class's own table is ever reported (`concurrency_moves_on` is one outcome) |
| `defs_concurrency.h:340` "If the task ought to be run as a primary task", `:444` "start primary tasks" | a permanent task aborts in `enqueueTask` unless an exit flag is set, and is never started then: theorem `PermanentTasksNeverStart` |
| `defs_concurrency.h:281` "remove common variable by lookup if not in use" | the destructor of `enqueueTask`'s local task gives the access counts back, so a variable is removed under queued tasks; a thread that was given the lock's pointer (`:313-317`) keeps it when the variable is removed; and line 303 writes through the iterator that was just erased |
| `defs_file.h:211` "Change the file and maintain the output mode", `:225` "Repurpose the object to a wholly differing output file" | the open stream is not closed, so `open` fails, the old file stays open and the object is in the fail state from then on |
| `defs_filesystem.h:360` "If the function was able to step forward into a specified directory" | inverted as well; a failed change is recorded, and the next ones are built on a path that is not there, until `makeDirectory` creates it or another operation records a directory anew |
| `defs_internal.h:604` "If the offset was able to set or be created" | the object is armed when `setRoot` could not move the process |
| `defs_internal.h:928` "If the system moved downwards", `:954` "If the path was changed to" | both go by the inverted results of the head; `pathChange` goes on while `stepForwardDirectory` returns false |
| `defs_internal.h:807` "Kill the current directory if it is not the top", `:840` "Kill the specified child under the current parent directory" | `rmdir` is asked for `./`, `unlink` for an empty name, and a child is never found by its name: nothing on the disk is killed, and in the tree only the children of a head that passes for a file |
| `defs_encryption.h:559` "note these keys should cycle often" | `emplace` does not replace: a key stays until it is wiped |
| `defs_encryption.h:964` "Splice the memory with a null terminator and return the tag offset pointer" | no terminator is written; a delimeter at the very start (an empty ciphertext) is overlooked, as the loop does not read the first byte; of a tag that begins with a newline that byte is taken for the delimeter's. These are the two cases `TagIsFound` leaves out, with tags that hold a delimeter themselves |

### Bounds

`runslice` has two identifiers, two entries in both lists together, an argument
list and one handler under way: a stale one-shot entry and a live registration
of the same or of the other identifier coexist, and every operation happens
inside a handler. Callables are interchangeable: one is enough beside the null
pointer. Every property of the run is a theorem for all bounds, more entries and
deeper nesting included.

`concurrency_tasks` has two callers, two tasks (one joined and one waiting or
queued during the join), a common variable that all of them use, one detached
thread at a time and a short with six values, so that it wraps. Here too every
property is a theorem for all bounds. `concurrency_moves_on` has the two callers
and no operation of others during a call.

A bound that is reached disables the operation that would exceed it
(`MaxEntries`, `MaxDepth`, `MaxTasks`, `MaxThreads`, `MaxLength`, `MaxRecorded`,
`MaxChildren`, `MaxLevels`, `MaxInbox`); nothing else depends on them. Two
guards without a counterpart in the code are no bounds but assumptions on the
program that uses a class: `DuringCalls` of `ConcurrencyManager` (what threads do
during a call) and `Reparameterise` of `NetworkInstance` (whether `setParameters`,
which has no check for it, is called on an established instance). Deadlock is not
checked: an aborted process stops.

`files` has two files, each missing, a directory, empty or with one chunk, and
up to three chunks in a file and its buffer (`MaxLength`): old content, a
flushed and a buffered chunk. Two files are enough for a stream to be open on
one and told the other. `filesystem` starts from every well-formed tree of
depth two (`MaxDepth`) over two names, in which a directory, a sibling and their
children differ; recorded paths have up to three names (`MaxRecorded`), one
more than any directory that exists. `filesystem_reports` needs one name and depth
one.

`tree` starts from every tree of depth one over two names, so that a token moves
the process or does not; two children and a chain of three nodes let the current
node leave the head twice. `network` has two instances and three descriptors: a
server that holds two and a client, a stale number that is another's socket, and
a full table. `MaxInbox` is one header there, as ownership does not depend on the
bytes; `network_receive` has one instance and room for whole messages.
`encryption` has one address beside the startup address and two keys: a
pair that is set over another, in each order of wiping; and ciphertexts of up to
seven bytes (`MaxCiphertext`): two delimeters apart, overlapping, and at either
end. The search does not read the maps, so TLC interleaves the operations on them
with the search of the empty ciphertext only.

### Fairness

`EveryHandlerGetsItsTurn` is checked under the strongest scheduling the program can give, `run()` is called again and again and
handlers return (`FairSpec`), and is violated even so. `SearchEnds` assumes that
the loop goes on (`MCSpec`): it is sequential code that waits for nothing.

## What is proved

**The scheduler.** `RunsliceSchedulerProofs` proves, for all sets of identifiers, callables and
arguments and all bounds, that the specification implies each invariant of the
run `runslice`: `TypeCorrect`, `LookupIsBacked`,
`NeverLeavesDefinedBehaviour`, `PriorityQueueHasNoTurn`,
`ArgumentsAreBoundToAFunction`. The assumptions are `HandlerAssumption` (the null
pointer and the indeterminate value are no callables) and `BoundsAssumption`.

The argument is one inductive invariant, `IInv`. `LookupBacked` says that every
`find_if` on the way to an update or removal succeeds, which is why no step
reaches `"undefined"`; conversely the registered identifiers having entries is
why `run()` never takes `back()` of an empty list: with a non-empty lookup one
of the two lists is non-empty, and the credit being 0 (`PriorityCreditNeverAccrues`)
decides which list is run. Removal takes out the *first* entry of an
identifier, so the proof also needs that the entries of the other identifiers
survive `RemoveAt` (`ListLemmas`). `SoundHandler` is carried along for the
handlers: a handler that is not parameter free has its function in the unbound
pointer.

`RunsliceRegistryProofs` proves the refinement, `SchedulerImplementsRegistry`
(`Spec => R!Spec` under the mapping `registrations`). The refinement needs `LookupBacked` and, for each
operation, what it does to the *first* entry of every identifier, the one
`find_if` finds: an entry put at the front is the first of its own identifier and
hides no other (`FirstCons`), and taking out a first entry uncovers a stale one only of an
identifier that is just leaving the lookup, or is put back at once.

**The concurrency manager.** `ConcurrencyManagerProofs` proves, for all callers,
common variables, kinds of tasks, widths of a short and bounds, and for whatever
operations other threads use during a call, `TypeCorrect`, `CountIsQueueLength`
and `FlagIsMutex`. `ConcurrencyAssumption`
says that a short holds 1 (`1 < HalfShort`) and more tasks than may
be queued. The inductive invariant is `TypeOK`, the bound on the queue, and that
at most one caller waits in `join()`, with the flag, and with the count one less
than the queue.

Two more theorems need a hypothesis on what other threads do *during* a call.
`PermanentTasksNeverStart` says how far a defect goes (see the table above) and
assumes that no permanent task is queued then. The
strengthening `Stranded` says that with a permanent task in the queue the exit
flag is set, nobody waits in `join()` and no `setAllTasks` is past its last
`runTask`, where it would clear the flags. `IdsAreKept` assumes that nobody
reorders the back of the queue then (`DuringCalls \cap Reordering = {}`; the run
`concurrency_reorder` shows what happens otherwise). Its ledger says that the ids
of the waiting tasks and of the stack are `1 .. n` where n is their number;
`forwardTasks` keeps it since `SortedPlace` is a renumbering (`SortedPlaces`).
`IdsAreUnique` is what follows by counting: n entries that hold n ids hold each
once.

Under the same hypothesis two theorems are about the pop after the join.
`JoinsSeeTheQueueGrow` says that from any state of a join to the next the queue
is the old one with tasks put in front of it (`Grown`). `JoinTakesOffItsTask` rests
on it: the id a caller waits for is that of the last task (`StartedTaskIsLast`),
from the step that starts the join (`WaitStep` says that there is no other way to
come to wait) to the one that ends it. The run `concurrency_reorder` is the
counterexample without the hypothesis.

**The file descriptor.** `FileLifecycleProofs` proves, for all names, data and
bounds, `TypeCorrect`, `GoodStreamsAreFaithful` and the action property
`NoBufferIsLost`. The assumptions are `FileAssumption` (no file is
called like the closed stream, and a missing file, a directory and the contents
of a regular file are told apart) and `LifecycleAssumption`. The inductive
invariant adds `BufferHasFile` to the properties: data is buffered only by a
stream that is open for writing, so writing the buffer out always extends a
regular file. `ReopenIsSound` is the heart of the argument: whatever an object
was told, `getFileDescriptor` either opens exactly that or changes nothing on the
disk and sets the fail state, which only opening a closed stream clears.

**The file system and its tree.** `FilesystemProofs` proves, for all names, data,
depths and bounds, `TypeCorrect` of `FilesystemHead`, and `TreeTypeCorrect` and
`ParentIsSafe` of the composition. `FilesystemAssumption` says that a missing node,
a directory and the contents of a file are told apart. `TypeOK` is inductive by
itself: it contains that the tree is well formed and that the process stands in a
directory. The tree adds that every node but the head is a directory, and that
the nodes form a chain that contains the current one (`Chain`), which is why
`removeNode` finds its file only at the head.

**The network.** `NetworkInstanceProofs` proves, for any number of instances, any
table of descriptors and any sizes, `TypeCorrect`, also with `Reparameterise`, and
under `~ Reparameterise` the invariant of connections, `EstablishedIsOwner`.
`NetworkAssumption` says that the table is not empty
and that the header is longer than the buffer. The inductive invariant is
`Ownership`. `EstablishedOwnsItsConnection` is not inductive: `terminateConnection`
of a server closes its listening socket as well, so the proof needs that a server,
waiting or established, listens on its own socket (`ServerListens`,
`ServersApart`). Then what two established instances hold differs by number or by
what the kernel has there, and a stale number can at most be a fresh socket:
`bind` and `connect` refuse all others.

`InstancesImplementConnections` is the refinement, under the same condition:
`accepted` and `startConnection` are `Establish`, `terminateConnection` of an
established instance is `Terminate`, and every other step is a stutter. It needs
`Ownership` where a step works on a number the instance has kept: the second
descriptor that `terminateConnection` of a server closes is a listening socket and
no connection, and a waiting server listens on its own socket.
`ConnectionsAreLostByTheirInstance` has no condition: with `Reparameterise` two
instances may hold one descriptor, so `Ownership` is of no use. It needs only
that an instance that waits in `accept()` is a server that is not established
(`WaitingIsServer`): a step that is not its own then neither changes what an
instance holds nor makes a connection of something nobody asked for.

**The keys.** `EncryptionOfflineProofs` proves, for all addresses, keys and
secrets, `TypeCorrect` and `KeysAndIvsBelongTogether`. `EncryptionAssumption` says that no key or secret is the
absent value and that no address is empty. `TypeOK` and `KeysComeInPairs` are
inductive together: a pair that was given has neither part absent, so a key is
present exactly when its iv is, and the two `emplace`s set both or neither.

**The search for the tag.** `SearchIsCorrect` proves `TagIsFound`
for ciphertexts of any length, from `SearchAssumption` (`MaxCiphertext` is a
number). What the loop computes is an induction over its turns, which the
invariant `SearchInv` carries: while the search goes on no delimeter starts further on than the one that is
being matched would (`NoneFurtherOn`), the bytes of it that are matched are those
that follow the index (`MatchedBytesFollow`), and a delimeter that is matched does
not start at the first byte, which the loop never reads (`FirstByteUnread`). What
it finds is hence the last delimeter not at the very start (`LastDelimeterFound`),
and that is the one `insertTag` wrote when the ciphertext is not empty and the tag
is unambiguous (`TagFollowsItsDelimeter`).

## What is only model-checked

* `SearchEnds`, and that `EveryHandlerGetsItsTurn` fails: liveness
  under fairness is out of the prover's reach;
* the five violations, which are single behaviours.

Every other property of a passing run is a theorem. One theorem,
`PermanentTasksNeverStart`, is about a consequence of a defect that no run checks;
one, `ConnectionsAreLostByTheirInstance`, is about a case that no run has: programs that
set parameters anew on established instances (`Reparameterise` is FALSE in the
runs).

## What is not modelled

* `scheduler_interrupt`: its constructor asserts `test_and_set()` of a clear
  flag, which is false, so the process ends; without asserts it dereferences the
  null result of `function::target`. No object of it is ever alive, and there is
  no reachable behaviour to model.
* `encryption_networked`: no statement sets `encryption_local_private_key_loaded`
  or `encryption_remote_public_key_loaded` to true, and `initRSA` has no caller.
  Every RSA operation fails its first assert; the key buffers are written and
  never read. `encryption_libraries`: `encryption_is_init` is never set, so the
  destructor always aborts.
* In `encryption_offline`: base64 and SHA, which are OpenSSL calls that keep no
  state.
* The vendored `EXT_LIBS`: OpenSSL and others make up some 367,000 of the 373,000
  lines of the repository and are not the system's own logic. What the system's
  headers (5,855 lines under `LIBS`, a good part of them comments and
  declarations) do of their own is modelled.
* The stubs of `defs_revisioning.h`, the formatting of `defs_time.h`, the include
  lists of `CORE`.
* The time stamps of `debug_logger`, and what readers and listings return.

## Plan

1. `RunsliceScheduler` with its theorems and `ConcurrencyManager` (done).
2. `FileDescriptor`, `FileLifecycle` with its theorems and `FilesystemHead`
   (done).
3. `NetworkInstance`, `TreeFilesystem`, and `EncryptionOffline` with its theorems
   (done).
4. Proofs: the refinement of `Registry`, the concurrency manager, the file system
   with its tree, and the network (done).
5. Proofs: the search for the tag, the refinement of `Connections`, what holds of
   instances that are reparameterised, and what a join does to the queue (done).
6. Left: weaker hypotheses for the concurrency manager (an `IdLedger` that allows
   `forwardTasks` during a call as long as the back of the queue stays).
