# Verification of the Blocks runtime (libclosure-74)

TLA+ models of `src/runtime.cpp` and `src/Block_private.h` (the reference count of Blocks
and `__block` variables, copying and releasing them, the entry points that
compiler-generated helpers call, descriptors, callbacks, signed pointers), of the tables in
`src/include/objc-shared-cache.h` and of the checks in `src/include/os/assumes.h`. TLC
checks small instances; TLAPS proves the results listed under *Proved* for every value of
the constants.

## The system

A Block literal is a struct on the stack of the function that evaluates it: `isa`, a
`flags` word, an invoke function, a descriptor, the captured variables. `_Block_copy`
moves it to the heap; `_Block_release` gives it back. A variable qualified by `__block`
is a struct of its own, a *byref*, that every Block capturing it points to; copying the
first such Block moves the byref to the heap and leaves a `forwarding` pointer on the
stack. The copy and dispose helpers of a descriptor, written by the compiler, call
`_Block_object_assign` and `_Block_object_dispose` for each captured field, which call
`_Block_copy`, `_Block_byref_copy`, `_Block_release` and `_Block_byref_release` again.
Objects are retained and released through callbacks that the Objective-C runtime or
CoreFoundation installs. Apart from all this stands the shared cache: a builder computes a
perfect hash of selectors or class names and writes a table into a section of libobjc,
in which libobjc later looks names up.

| component | state | operations | hard behaviour | correct when |
|---|---|---|---|---|
| Reference count (`runtime.cpp` 55-128) | low 16 bits of `flags` | `latching_incr_int`, `latching_incr_int_not_deallocating`, `latching_decr_int_should_deallocate` | compare-and-swap races, the latch at `0xfffe`, underflow, use while dying | no reference is lost, one disposal, the other flags survive |
| Block copy and release (234-318, 435-464) | `flags`, `isa`, fields | `_Block_copy`, `_Block_release` | nesting, `malloc` failing half way, order of `isa` and fields | count = owners; a heap Block points at no stack |
| `__block` variables (327-419) | `forwarding`, `flags`, the value | `_Block_byref_copy`, `_Block_byref_release`, access through `forwarding` | publication before payload, check then act, threads sharing the variable; parts at moving offsets | one home, one value, freed after last use; every word arrives |
| Compiler entry points (586-689) | none | `_Block_object_assign`, `_Block_object_dispose` | two switches that must agree | what assign takes dispose gives back |
| Weak support (471-480) | the count | `_Block_tryRetain`, `_Block_isDeallocating` | race with the last release | succeeds exactly while alive |
| Object callbacks (138-157) | three function pointers | `_Block_use_RR2` | three stores; registered while Blocks exist | who retained releases |
| Descriptor accessors (165-199, 489-539) | flags, as the runtime changes them | `Block_size`, `_Block_signature`, `_Block_layout`, ... | optional parts at moving offsets, one word with two meanings | the right word, or NULL |
| Pointer authentication (`Block_private.h` 24-205) | signed pointers in Blocks, descriptors, byrefs | the accessor macros, `completeReadFn`, `prepareWrite` and others | `memmove` carries a signature of the old address | every pointer in use authenticates where it is |
| Shared-cache tables (`objc-shared-cache.h`) | `tab`, `tabh`, the section | `make_perfect` and what it calls, `write`, `byteswap`, the lookups | search that is given up and resumed, sections of any size, stale slots, byte order | perfect hash, no store outside the section, exact lookups |
| Assertions (`os/assumes.h`) | a callback, `errno` | `os_assumes`, `os_assert` and variants | a callback that returns | only failed assertions end the program |
| Class symbols (`data.c`) | constant | none | none | |
| Tests (`objectTests`, `RewriterBlockTest`) | their variables | programs over the above | a queue racing the function that enqueues | they end and their checks hold |

Not components with behaviour: build files, and the system headers of other projects
vendored under `src/include`. `PROJECT.json` lists every part with its reason, and every
hazard at its line.

## Modules

| module | what it is |
|---|---|
| `LatchingCount` | the flags word of one heap object and the three loops, one load or compare-and-swap per step |
| `AtomicCount` | abstract: references are taken and dropped in one step |
| `LatchingCountProofs` | the theorems about `LatchingCount` |
| `FieldFlags` | the `flags` argument of the entry points and both switches |
| `Assertions` | the checks of `os/assumes.h` and what follows when they fail |
| `FieldFlagsProofs` | the theorems about both |
| `BlockRuntime` | copy, release, byref copy and release, helpers, by several threads over one memory |
| `BlockRuntimeCalls` | the inductive invariant of `BlockRuntime`, and that the calls of `_Block_copy`, `_Block_byref_copy` and `_Block_byref_release` keep it |
| `BlockRuntimeInvariant` | that helpers, `_Block_release` and the program keep it |
| `BlockRuntimeProofs` | the theorems that follow |
| `AllocatedVariables` | abstract: what `BlockSpec.rtf` line 247 promises of `__block` variables |
| `ByrefMove`, `ByrefMoveProofs` | one `__block` variable, any number of threads and Blocks; safety and the refinement of `AllocatedVariables`, proved |
| `ByrefLayout` | the words of one `__block` variable and which of them move |
| `BlockDescriptor` | the descriptor's parts and accessors over all flags, on stack and heap |
| `ObjectCallbacks` | `_Block_use_RR2` racing copies and disposals |
| `PointerAuth` | signing, authentication and re-signing |
| `BlockPartsProofs` | the theorems about these three and `ByrefLayout` |
| `PerfectHash` | `make_perfect`, `findhash`, `inittab`, `perfect`, `augment`, `apply` |
| `Permutation`, `Scramble` | `permute` and `scrambleinit` |
| `Lookup8`, `Mix64` | how `lookup8` takes in a key; `mix64` on words of any width |
| `HashFunctions` | `Lookup8` and `Mix64` with their parameters |
| `StringTable` | `objc_stringhash_t`, `objc_selopt_t`: write, lookups |
| `ClassTable` | `objc_clsopt_t`: write, duplicates, byteswap, lookups; extends `StringTable` |
| `SharedCache` | `PerfectHash` composed with `ClassTable`: the builder and the tables written from its result |
| `SharedCacheProofs` | the theorems about `PerfectHash`, `StringTable`, `ClassTable`, their composition, `Lookup8` and `Mix64` |
| `ObjectTests` | test programs as scripts over `BlockRuntime` |
| `MC...` | small instances: `MCLatchingCount`, `MCFieldFlags`, `MCBlockRuntime`, `MCBlockParts`, `MCSharedCache` |

`BlockRuntime` extends `FieldFlags`. It changes a count in one step, which is what
`AtomicCount` allows and `LatchingCount` is proved to implement; that is why the threads
of `BlockRuntime` and `ByrefMove` need no compare-and-swap of their own. Their counts stay
far below the latch, which belongs to `LatchingCount`.

`MCBlockParts` and `MCSharedCache` hold several specifications that share no state. Their
variable `part` is chosen in the initial state; the specification it names runs and the
others stay in one initial state. A property of a part is thus about the behaviours of that
part, at the cost of the sum, not the product, of their sizes.

### LatchingCount and the code

`flags` is a record of `low`, the 16-bit field `BLOCK_REFCOUNT_MASK | BLOCK_DEALLOCATING`,
and `high`, everything above it, so that an addition that overflowed the field would be
seen as a carry into `BLOCK_NEEDS_FREE` and its neighbours (`Plus2`, `Minus2`, `Minus1`).
`op[t]` is the loop thread `t` is in and `old[t]` its `old_value`. An early return happens
in the step of the load, for nothing shared is touched after it; otherwise the load is
followed by a successful compare-and-swap (`Swap`) or by `SwapFails`, which goes round the
loop. The return values are ignored by the callers, except `should_deallocate`, which starts
the disposal.

Around the loops stand the callers. `refs` is the set of references the program owns. A
caller releases a reference once, keeps the one it copies from until the copy has returned
(the pairing rule of `Block.h`), and calls `_Block_tryRetain` only in the weak subsystem's
exclusion zone (`Block_private.h` 481-487): the Objective-C callback that clears weak
references waits for tries under way. While the dispose helper runs it may copy and release
the dying Block, and even release it once too often; the deallocating bit exists for this
and `DisposedOnce` shows that it suffices.

### BlockRuntime and the code

`mem[a]` is the cell at address `a`: a Block, a byref or free memory. A Block's `where`
stands for `BLOCK_NEEDS_FREE` and `BLOCK_IS_GLOBAL`, `lit` for its descriptor, `fields` for
the captured variables that need help, `count` and `dying` for the count and the
deallocating bit. `stack[t]` holds one frame per call of the runtime that thread `t` is in;
the innermost frame is first. Its `fn` is the function, and for a byref copy `pc` says how
far it has come. A step is one access to shared memory:

| code | actions |
|---|---|
| `_Block_copy` | `CopyNull`, `CopyHeap`, `CopyGlobal`, `CopyStackFails`, `CopyStack`, then the copy helper, then `CopyDone` (isa last) |
| `_Block_object_assign` | `AssignInPlace` (object: retain; otherwise nothing), `AssignBlockOrByref` (calls and stores the result) |
| `_Block_byref_copy` | `ByrefCopyFirst` (test, malloc, count 2), `ByrefPublish`, `ByrefPayload`; or `ByrefCopyAgain`, `ByrefIncrement`; then `ByrefCopyReturn`, which reads `forwarding` again |
| `_Block_release` | `ReleaseNothing`, `ReleaseShared`, `ReleaseLast`, the dispose helper, `ReleaseDone` |
| `_Block_object_dispose` | `DisposeInPlace`, `DisposeBlockOrByref` |
| `_Block_byref_release` | `ByrefReleaseLoad` (follows `forwarding`), `ByrefReleaseShared`, `ByrefReleaseLast`, `ByrefReleaseDone` |

The program is external: `CopyBlock`, `CopyNested` (a Block's body copies a Block of its own
that captures the same things, by an `Inner` literal in the body's frame), `WriteVariable`,
`DropBlock`, `CloseScope` (the compiler disposes of each `__block` variable at the end of its
scope, in any order) and `LeaveFrame` (the frame's memory goes away). `busy` is the
program's own discipline: a variable is not released while another call reads it. malloc
hands out the lowest free address, so freed memory is reused at once and a dangling pointer
meets its new contents. A `__block` variable's value is 0, 1 or, until the payload is moved,
`Garbage`. Its `byref_keep` and `byref_destroy` helpers move the value and own nothing: with
`BLOCK_BYREF_CALLER` the switches store the bare pointer and dispose of nothing
(`FieldFlags`, kind `"pointer"`).

### ByrefMove and the code

The same two functions, for one variable, in a form that can be proved about. A heap Block
is reduced to its field (`field[h]`), filled by `Return` when its copy helper gets the
result and emptied by `DisposeBlock`; a thread is in one call at a time (`pc`, `arg`, `for`,
`using`). `First`, `Publish`, `Payload`, `Again`, `Increment`, `Return` are the steps of
`_Block_byref_copy`, `Load`, `Shared`, `Last`, `FreeCopy` those of `_Block_byref_release`.
The program is that of `BlockRuntime` without shared frames: only the thread that declared
the variable copies what is on its stack, Block bodies on any thread copy what they hold.
`Scope` is the owner of the reference that the source calls "one for stack".

### The parts of a Block

- `BlockDescriptor` lets a Block with any flags a compiler emits be copied, retained,
  released and freed, and asks every accessor in every state. A read beyond the parts that
  exist answers `Beyond`.
- `ObjectCallbacks` splits `_Block_use_RR2` into its three stores. Blocks are copied (assign
  reads `retain`), disposed of (`release`), destructed and freed by any thread in between.
  Two history variables say what may go wrong: `mixed`, that the last registration met
  another under way, and, for each Block, `disturbed`, that it met another's registration
  or was copied in the middle of one or while `mixed`. The code pairs the callbacks of all
  other Blocks, and of no more.
- `PointerAuth` gives every function pointer the address it was signed for. Freed memory
  keeps its bits, `memmove` copies them, `ResignInvoke` is line 284 of `_Block_copy`.
- `ByrefLayout` moves one variable word by word; the layout is a number of four bits that the
  code tests as one (line 367), so `STRONG` and `UNRETAINED` variables take the branch.

### The shared-cache tables

`PerfectHash` keeps `keyAt` (`tabh`), `tab`, the lists of keys of each `b` and the sizes.
`lookup8` is any function of the keys for each salt, so collisions of every kind happen.
`augment`'s rollback and the transitive closure cannot be reached: line 1036 limits the
water to the root's own entry. `StringTable` and `ClassTable` model the section as offsets,
sizes in bytes as in the structs, and what the section held before (`Stale`). A write
proceeds in the order of the code, each return an action, with what was written before it.
`SharedCache` gives the second the hash that the first has found. `Lookup8` tracks which
byte lands at which shift of which word; `Mix64` runs the twelve rows, and `trail` keeps the
words before each of them.

### ObjectTests

A script is a sequence of operations for each thread (`Copy`, `Release`, `Set`, `Expect`,
...). Their calls run step by step in `BlockRuntime`. `recursive-block.c` is in the list with
what really happens; see *Findings*.

## Runs

| run | instance | question |
|---|---|---|
| `latch` | 3 threads, 4 references, 1 of the helper's, latch at 3, fair | do the loops count exactly, whatever the interleaving, keep returning, and free what nobody references? |
| `field_flags` | 256 arguments; sequences of checks with and without a crash callback | do the two switches balance; what ends the program? |
| `block_nested` | 1 thread; `outer` captures `inner` and `bx`, `inner` captures `bx` and an object | do counts equal owners inside nested helpers? |
| `block_threads` | 2 threads, 3 variables, one `__block` variable | the same while copies, writes, releases and the end of the scope interleave; does the variable behave as allocated storage? |
| `block_mixed` | 1 thread, failing malloc, two `__block` variables (one `__weak`), a global Block, an object | does partial failure leak or over-release? |
| `block_progress` | 2 fair threads, 2 variables | do calls return, is the variable freed after last use? |
| `block_parts` | the five specifications above: all flags; 2 registrars, 2 Blocks; 2 heap Blocks and a byref; layouts of up to 3 words; `ByrefMove` with 2 threads, 3 Blocks | does each part keep its promise in behaviours of its own? |
| `shared_cache` | up to 5 keys, tables of up to 8 slots, 5 strings, 9 sets of classes, 6 section sizes; keys of up to 100 bytes; 4096 triples; up to 65536 slots | is the hash perfect, the write within the section, each lookup exact? |
| `object_tests` | 17 test programs, one with a dispatch queue | do they end, with the checks they make? |
| `block_apply` | 2 threads that invoke the same literal | violation: see *Findings* |
| `block_documented` | the helper of `BlockImplementation.txt` 2.3.3 | violation: see *Findings* |
| `string_table_single` | a table of one string | violation: see *Findings* |

What the main properties say:

- `CountExact`, `TryRetainExact`, `LatchIsForever`, `DisposedOnce`, `HighBitsKept`,
  `NoUseAfterFree`: the life of one counted object under contention; `ImplementsAtomicCount`
  sums it up as a refinement.
- `Accounting`: in every state, in the middle of any copy or release, the count of each heap
  cell is the number of variables, fields, running calls and stack variables that stand for
  a reference, captured objects likewise, and at the end nothing is left.
- `MemorySafe`: types, nothing dangles, and a Block whose `isa` says malloc refers to no
  stack memory.
- `OneVariable`, `ForwardingStable`: a `__block` variable moves once, to one place, everyone
  sees one value, and the assertion of line 405 holds.
- `ActAsAllocated`, `VariableAllocated`: the program's view (values of variables, which
  variables or Blocks hold them) is a behaviour of `AllocatedVariables`, which has neither
  stack nor heap. `VariableSafe` is `Accounting`, `MemorySafe` and `OneVariable` for the one
  variable of `ByrefMove`.
- `AnswersAsEmitted`, `HelpersPair`, `ReleasedByRetainer`, `Authenticates`, `CopyComplete`:
  one for each part of a Block. `ReleasedByRetainer` lets any registrars register at any
  time: a Block's object is released, and the Block destructed, by whoever retained, unless
  the Block lived through another's registration, or was copied in the middle of one or after
  two that overlapped.
- `IsPerfect`, `MappingExact`: the hash that is found, and the tables in the middle of the
  search. `LookupExact`, `WithinSection`, `ClassesExact`, `EverythingSwappedOnce`: what is
  written and read back, for every string, written or not. `EveryByteOnce`, `Reversible`, `Permutes`: the pure functions.

### Bounds

- `BLOCK_REFCOUNT_MASK = 6` puts the latch at three references, below the four references of
  the instance, so latching, releases of a latched object and the approach from both sides
  occur. The proofs are for every even mask, `0xfffe` included.
- Three threads suffice for one thread to lose its compare-and-swap to a second while a third
  disposes; two interleave every pair of calls in `BlockRuntime`.
- `HeapSize` is at least the number of cells that can be alive at once: for each variable the
  Blocks that copying the largest literal makes, one heap copy for each `__block` variable,
  and with two threads one Block being disposed of while its variable is filled again. No
  malloc waits for memory, so malloc fails only where `MallocFails` says so. In
  `block_apply` the extra cell holds the second copy of the variable.
- One value bit per `__block` variable distinguishes a missed write from the last one.
- `ByrefMove` with three Blocks has one to copy from, one being filled and one being
  disposed of at once; its theorems have no bound.
- Hash values are chosen so that pairs collide and part at each size of the tables
  (`MCSharedCache`); three scramble values cannot always part them, so tables must grow.
  Sections are those one byte short of, and just enough for, the header, the names and the
  classes. 100 bytes are four rounds of `lookup8` and every tail.
- Loops of test programs run two or three times.

Runs allow the system to stop (`CHECK_DEADLOCK FALSE`): a program may release what it has and
call no more, a table is finished, a test ends. What must not stop is stated as liveness.

### Fairness

`FairSpec` in `LatchingCount` and `BlockRuntime` is weak fairness of the runtime's steps of
each thread, and of nothing else. Code in the runtime takes no lock and never waits, so a
thread inside it can always go on and a preemptive scheduler eventually lets it. Programs owe
nothing: no copy, release or write is fair. `Reclaimed` and `EventuallyRecovered` therefore
speak of objects that nobody refers to any more. `TestSpec` of `ObjectTests` adds fairness of
the test program's own operations, for a test is a program that runs to its end.

## Findings

1. `block_apply`. `_Block_byref_copy` tests the count behind `src->forwarding` and publishes
   its copy without synchronisation (335-351). Two threads that copy Blocks capturing the
   same variable while it is on the stack can make two heap copies; both return the second
   one (392), whose count of two stands for one Block and the stack. Once the scope and one
   Block are gone it is freed while the other Block uses it. The run has the threads invoke one
   literal, as `src/objectTests/rdar6405500.c` does through `dispatch_apply`. All other runs
   have the `__block` variable's first move done by the thread that declared it.
2. `block_documented`. `BlockImplementation.txt` 372 and 377 show helpers that pass
   `BLOCK_FIELD_IS_BYREF | BLOCK_BYREF_CALLER`. Neither switch has that label: nothing is
   copied and the heap Block keeps its pointer into the stack.
3. `string_table_single`. For one string the shift of `hash()` is 64
   (`objc-shared-cache.h` 1335, 175), which C++ leaves undefined; where the value is left as
   it is, `write()` stores outside the table.

Seen while modelling, without a run of their own:

- `objc-shared-cache.h` 716 and 1119 call the perfect hash minimal; values go up to the next
  power of two, and twice that when the search fails (1024, 1333).
- A lookup in a zeroed header (no strings at all) indexes arrays that have no elements (198,
  251); a header from `OPT_INITIALIZER` has four slots (capacity 4, mask 3) and is safe. Who
  looks names up is outside this repository.
- `getClassAndHeader` says "0/NULL/NULL: not found" (357), but for a string of the table that
  is no class's name, and for `""` in an empty slot, it answers 1 with pointers to the
  table's `zero` (369-374): `write()` fills every entry with the offset of `zero` and the
  lookup does not look for it. `ClassesExact` states what it does, for every string.
- `recursive-block.c` line 37 calls a Block through a `__block` variable that still points
  into a dead frame: `_Block_object_assign` neither copies nor retains a Block inside a byref
  (638-643), as `BlockSpec.rtf` line 304 says of `__block` variables. `TestsPass` has this call
  as the one check that fails.

## Proved

| module | theorems | for every | inductive invariant |
|---|---|---|---|
| `LatchingCountProofs` | `TypeCorrectness`, `CountIsExact`, `DeallocatingBitIsExact`, `DisposedAtMostOnce`, `HighBitsAreKept`, `NoUseAfterFreeHolds`, `LastReferenceIsGone`, `LatchedForever`, `TryRetainIsExact`, `Refinement` | set of threads, finite set of references, even mask of at least 4 | `Inv` |
| `ByrefMoveProofs` | `VariableIsSafe`, `VariableRefinement` | set of threads with a main thread, finite set of Blocks | `IInv` |
| `FieldFlagsProofs` | `EveryHelperBalances`, `AllFlagsBalance`, `AssertionsStop` | argument; sequence of checks | none needed; `CheckInv` |
| `BlockPartsProofs` | `AccessorsAnswer`, `HelpersArePaired` | Block emitted, any bound on its count | `DescriptorInv` |
| | `ReleasesReachRetainer`, `CallbacksStayTogether` | registrars and Blocks | `CallbacksInv` |
| | `PointersAuthenticate`, `NoPointerTraps` | objects and functions | `AuthInv` |
| | `ByrefCopyIsComplete` | size of the payload, contents of the new memory | `ByrefInv` |
| `SharedCacheProofs` | `FoundIsPerfect`, `TabhMirrorsTab`, `SaltStaysGood`, `MappingIsExact` | keys, hash, sizes | `BuilderInv`, `TailInv` |
| | `StaysWithinSection`, `LookupsAreExact` | sets of strings but singletons (`NoSingleString`, finding 3), hash, section, check bytes | `StringInv` |
| | `ClassLookupsAreExact`, `SwapsEveryWordOnce`, `SharedTableIsExact` | the same; sets of classes | `SharedInv` |
| | `BytesTakenOnce` | length of the key | `HashInv` |
| | `MixingIsReversible` | width of the words, given `MixingAssumption` | `MixInv` |
| `BlockRuntimeInvariant` | `InvariantHolds` | finite sets of threads, variables and `__block` variables, size of the heap, set of literals that capture each other to any depth, malloc that fails or not; `~SharedFrame` (finding 1) and `WellCaptured` | `IInv` |
| `BlockRuntimeProofs` | `ReferencesAreAccounted` | the same | `IInv` |
| | `MemoryIsSafe` | the same | `IInv`, `NestInv`, `DyingInv` |
| | `VariableIsOne`, `ForwardingIsStable` | the same | `IInv`, `VariableInv` |
| | `ActsAsAllocated` | the same, and a malloc that succeeds (`~MallocFails`) | `IInv`, `VariableInv`, `HomesInv`, `CapturedInv` |

None of the invariants is inductive alone.

- `LatchingCount`: `CountExact` needs to know that the word a thread compares against was
  neither latched nor, for a try, dying (`OldInv`): otherwise a successful swap could leave
  the latch. `DisposedOnce` needs `PhaseInv`, which ties the phase to the deallocating bit and
  to who may still own references, and `CallsInv`, which says that a reference being released
  is owned and being released by nobody else.
- `ByrefMove`: that the count is the number of owners says nothing of *who* they are.
  `CallsApart` and `CallWellFormed` say that an owner is in one call at most and what the call
  works on, so that a release gives back a reference of its own (`DecrementsOwn`); `Alone`
  says that until the copy is complete only the declaring function is there, which is
  why publishing before the payload is harmless and no second copy is made (`FirstIsFirst`);
  `OwnersLive` says that a copy with an owner has not been freed (`ForwardsToLive`). The last
  release finds itself the only owner (`LastIsLast`), which is also why it may be mapped to
  `Recover` in the refinement.
- `BlockRuntime`: a count is a sum (`Owners`) over variables, fields, calls and stack
  variables, so each step is a statement about which of them changes hands. Four things make
  that inductive. `Withholds`: a field counts from the moment the copy helper has filled it to
  the moment the dispose helper has dealt with it, so a Block in the middle of a helper owns
  some of its fields. `CopyHelperInv`: a Block that is being made has a count of one, is known
  to its one call only (`Unshared`), and its remaining fields are those of the original.
  `CallsInv`: what is dying has no owner (`Unowned`) and is disposed of by one call, so its
  memory is not handed out meanwhile. `Borrowed`: a Block that a thread copies from, or whose
  body it runs, stays in a variable that the thread has in use, hence nothing the call reaches
  can go.
  For the end of the story, `StorageRecovered`, the literals' rank is needed: in a heap that
  nobody refers to from outside, a Block of highest rank would have to be in a field of a
  Block of higher rank (`Ascent`). For `MemorySafe` `NestInv` says who called a dispose
  helper, so that literals get lower towards the inner calls (`DeeperIsLower`); with it, the
  bound that `TypeOK` puts on nesting follows for a stack of any depth. `DyingInv` says that
  a finished Block keeps clear of stacks while it is disposed of. For `OneVariable`,
  `VariableInv` says that a copy being moved is owned by its move and its stack variable and
  nobody else (a count of two, `FreshIsAlone`), that another copy cannot be made while the
  stack variable owns one, and that the value is on the stack until the payload has moved:
  nobody can write in between, because whoever writes has the variable from the scope, whose
  thread is in the move, or from a field, and no field has it yet (`WriteIsOne`).
- `ActAsAllocated` is a refinement of `AllocatedVariables`, where a variable has a value until
  neither the scope nor a held Block, whose literal captured it directly or through other
  literals (`Reaches`), can use it. What is at the end of a
  path of captures is a solution of that recursion, so one unfolding of it may be used
  (`ReachesIs`), and no more is needed: a Block that is not being made
  or disposed of has all that it captured (`CapturedInv`), so if one lacked a `__block`
  variable that it reaches, one of lowest rank among those would have captured a Block that
  lacks it too, of a lower rank (`HeldReaches`). Who writes has the variable from the scope
  or from a held Block (`WriterHolds`). `HomesInv` says that a
  variable has one place, from the stack to the end of its heap copy, and has its value
  there. Program steps map to steps of `AllocatedVariables`, the step that ends the last use
  to `Recover`, and the rest to stutters.
- `ObjectCallbacks`: the history is turned into the state it implies. Unless `mixed`, one
  registrar at most is storing, what it stored so far is its own, and between registrations
  the callbacks agree (`OneAtATime`); while a Block is not `disturbed` nobody but its
  retainer is storing and all three callbacks are the retainer's (`Undisturbed`).
- `PointerAuth`: pointers are sealed for the place they are in, except that of a Block between
  its `memmove` and line 284, whose source still lives.
- `ByrefLayout`: the words copied so far are those of the parts that the steps so far are
  about, each at the offset at which the original has it; lines 367-373 reach the layout word
  only where there is one.
- `Assertions`: `failures`, the codes of the checks that failed, is what the log holds, or the
  log and the code about to be logged, whatever happened to `errno` in between (`CheckInv`).
- `PerfectHash`: the salt separates in every state in which `perfect` may be called again
  (`SaltInv`); `tabh` is what the chosen values say, both ways (`MappedInv`, `TabhInv`). That
  `tabq` suffices is a count: a value enters one `b` at most, and each `b` once, because the
  water mark of its first value keeps the later ones out (`ExploredOnce`); the list's own `b`
  is never among them (`HitsMapped`). So there are at most `blen - 1` of them, the root and
  the value that is applied.
- `StringTable`: each slot is that of a string written so far, or empty (`SlotInv`).
- `ClassTable`: the entry of a name is in one of three states (`EntryNone`, `EntryOne`,
  `EntryMany`), and which of them depends on all classes of the name, also those whose own
  turn has not come; it holds of every name that the lookup finds, written or not, and a
  slot is found by one name only; the classes of a name that is finished stay where its entry points,
  though the array behind the table grows. `byteswap` depends on its order: what bounds
  a loop is swapped after it (`SwappedBy`).
- `Lookup8`: what was added is the places of the bytes taken so far (`HashInv`), and different
  bytes have different places (`PlacesApart`).
- `Mix64`: a row changes one word with the two others, which are still there to undo it
  (`RowUndone`); `trail` is a history variable.
- `SharedCache`: either the builder runs and nothing is written, or it has returned and the
  invariants of the writer hold. The step between them (`TakeResultStep`) is where
  `IsPerfect` is what `StringInv` needs of the hash.

The assumptions are those at the head of each module, which TLC evaluates on its instances;
four hypotheses of theorems are not among them, because an instance violates each on purpose:
`NoSingleString` (`string_table_single`), `~SharedFrame` (`block_apply`), `WellCaptured`
(`block_documented`) and, of `ActsAsAllocated` alone, `~MallocFails` (`block_mixed`). The
last one is needed: where the copy of a captured Block fails, the field is NULL and keeps
nothing, so a variable goes although a Block that should reach it is still held. TLC
finds that behaviour when it checks `ActAsAllocated` on the instance of `block_mixed`.
`WellCaptured` is what a compiler emits: a field's flags say what the field is, and a literal
captures only literals evaluated before it, so captures have a rank.
The instances of all other runs of `BlockRuntime` satisfy it. Some of the assumptions
say something of the code's surroundings. `ClassAssumption` (`ClassTable`): offsets of classes
are even, which is why the code can keep its duplicate flag in the low bit
(`objc-shared-cache.h` 330-338), and no class lies in the table's own header, where the
offset that means "none" points. `WordsAssumption` (`MCBlockParts`): what malloc returns is
told apart from the words of the original. `SizeAssumption` (`PerfectHash`): lengths of
tables are powers of two, closed under doubling up to the largest. `MixingAssumption`
(`HashFunctions`) is arithmetic: an exclusive or undoes itself, and powers of two are
positive. TLC evaluates it for words of four bits.

Model-checked only:

- `ObjectTests`: its programs are the instances.
- Liveness (`LockFree`, `Reclaimed`, `CallsReturn`, `EventuallyRecovered`, `TestsPass`).
- `Permutes`: that `x + (x << c)` and `x ^ (x >> c)` permute the numbers of `nbits` bits is
  number theory and an induction over the bits, which the provers do not have. TLC evaluates
  the whole of `scramble[]` for every size of table up to 2^16 slots.

## Not modelled

- More than half of the lines of C and C++ in the repository are system headers vendored
  under `src/include` (`mach`, `System`, `auto_zone.h`, `os` but for `assumes.h` and others):
  declarations, and inline accessors that nothing in this program calls. They have no
  behaviour here. The files with the program's own logic (`runtime.cpp`, `Block_private.h`,
  `objc-shared-cache.h`, `os/assumes.h`) are covered almost to the last function.
- The failure of the unchecked malloc at line 339: a NULL dereference ends the process.
- The Objective-C side: the callbacks' own work, the table of weak references, layout strings,
  the `.m` tests, ARC. C tests that only compile, or count allocations over long loops.
- Weak memory ordering: a step is sequentially consistent. `_Block_byref_copy` publishes with
  plain stores; a machine that reorders them can only be seen by the program of
  `block_apply`, which is broken already.
- `duplicateCount` lies behind the class offsets and is read before it is set; the model
  starts from a section of zeros there, which the builder outside `src/` provides.
- Termination of `findhash`: keys whose 64-bit hashes collide under every salt keep it
  looking for ever, and the model, which leaves the hash open, has such behaviours.
- The rollback and the transitive closure of `augment`: unreachable.

## Plan

Nothing of the program's own logic is left without a model. What could follow: the invariants
of `BlockRuntime` without `~SharedFrame` but with one thread at most in the first move of a
variable; three threads in `BlockRuntime` when TLC can afford them.
