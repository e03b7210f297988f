# Verification of the jsx engine

jsx is a small shell (`src/src_jsx`) around an embedded JavaScript engine of
the SpiderMonkey 1.5/1.6 family (`src/src_js`, `src/include`). This directory
holds TLA+ models of the engine's parts, the TLC configurations that check them
on small instances, and proofs, checked by TLAPS, of what matters most.
`PROJECT.json` maps every definition to the lines it models.

The build (`src/CMakeLists.txt`) is 32-bit and does not define `JS_THREADSAFE`:
`jsgc.c`, `jscntxt.c` and the rest are compiled for one thread. `jslock.c`, the
request model and the sharing of scopes are the same sources' optional threaded
configuration. `ThinLock`, `ScopeShare` and `GcRequest` model the code under
`#ifdef JS_THREADSAFE`; all other modules model the shipped configuration.

## Inventory

| Part | Sources | State | Operations | What is hard |
|---|---|---|---|---|
| Heap | `jsgc.c` | cells with a flag byte, arenas, freelist, roots and locks tables, `gcLevel`, `gcPoke` | allocate, root, lock, collect | finalizers run inside the sweep, restarts, accounting |
| Contexts | `jscntxt.c` | `rt->state`, `rt->contextList`, requests | create, destroy, iterate | threads meet while the runtime launches and lands |
| Requests | `jsapi.c` | `requestCount`, `requestDepth` | begin, end, yield, suspend | they wait for the collector, which waits for them |
| Local roots | `jscntxt.c` | chunks of roots, `rootCount`, `scopeMark` | enter, leave, forget, push, mark | chunk boundaries, nested scopes, 16-bit counts |
| Locks | `jslock.c` | lock words, fat locks, owner contexts of scopes | lock, unlock, claim and share scopes | lost wakeups, recycled fat locks, deadlock avoidance |
| Arena pools | `jsarena.c` | chains of arenas, a global free list | allocate, grow, mark, release | marks across arenas, oversized blocks |
| Hash tables | `jsdhash.c`, `jshash.c` | probe sequences, removed sentinels, chains | add, remove, enumerate, resize | enumeration with removal, shrinking |
| Atoms | `jsatom.c` | the atom table and flags | atomize, pin, mark, sweep | atoms held by a suspended compile |
| Scopes | `jsscope.c` | the shared property tree, scope tables | add, change, remove, clear | deletions in the middle of a chain |
| Objects | `jsobj.c`, `jsinterp.h` | slots, the property cache, the resolving table | get, set, define, delete, clear | hooks that change the object under the caller |
| Functions | `jsfun.c` | the frame, its arguments and Call objects | call, reflect, assign, delete, leave | what is reflected lazily and copied at the end |
| Interpreter | `jsinterp.c` | operand stack, scope chain, exception | call, return, throw | unwinding on every path |
| Compiler, decompiler | `jsscan.c`, `jsparse.c`, `jsemit.c`, `jsopcode.c` | token ring, tree, bytecode, notes | parse, fold, emit, patch jumps, print | folding and printing that keep the meaning |
| Regular expressions | `jsregexp.c` | program, backtrack state | compile, match | backtracking against its definition |
| Strings | `jsstr.c` | buffers, dependent strings | concatenate, slice, flatten, finalize | buffers that change owner |
| Arrays | `jsarray.c` | the length above the indices | reverse, sort, splice and the like | getters, setters and comparators that fail |
| Debugger | `jsdbgapi.c` | traps, watchpoints | set, clear, trigger | removed while their handler runs |
| Library | `jsnum.c`, `jsdate.c`, `jsfile.c` and others | none of their own | conversions, calendars, files | boundary values |
| Shell | `src_jsx` | error reporter, options | `load`, `print`, `system` | error paths |

What calls what: the interpreter and the library allocate through
`js_AllocGCThing`, which pushes a local root when a scope is open and else sets
`cx->newborn`; allocation at the limit calls `js_GC`, which marks roots, locks,
frames, newborns and local roots of every context, sweeps with finalizers, and
rebuilds the freelist. Finalizers call back into roots and locks, and may call
`js_GC`. `js_DestroyContext` of the last context collects and takes the runtime
down. In a threaded build the collector first waits for the requests of other
threads, which wait for it; scopes are protected by thin locks, or by none
while one context owns them. Objects keep their properties in scopes, scopes in
the property tree, and both in double-hash tables when they grow; names are
atoms. The property cache remembers what a lookup found. The compiler turns
source into bytecode with notes, from which the decompiler prints it again.

## Modules

| Module | Models | Correspondence |
|---|---|---|
| `GcHeap` | `jsgc.c`; the ends of `jscntxt.c` that collect | one action per operation; the mark phase is one action since nothing else runs meanwhile; the sweep is one action per cell and one per object finalizer, for finalizers call out |
| `LocalRootScopes` | the promise of `jsapi.h` 581-629 | a stack of scopes, each a sequence of things |
| `LocalRoots` | the local root stack of `jscntxt.c` | chunks as a sequence of functions, oldest first; one action per API call; implements `LocalRootScopes` |
| `GcRequest` | requests, contexts and the collector on `rt->gcLock` | what one thread does between taking and leaving the lock, or a wait, is a step; reads without the lock are steps of their own |
| `ThinLock` | `jslock.c` 710-1024 | a program counter per thread; a compare-and-swap, a lock or a wait is a step |
| `ScopeShare` | `ClaimScope`, `js_LockObj`, `JS_EndRequest`'s sharing | what is done under `rt->gcLock` is a step; a thin lock is a mutex |
| `KeySet` | what a hash table promises | a set of keys; an add may fail; an enumeration may remove |
| `DHash` | `jsdhash.c` | the entry store with sentinels and collision flags; one action per call and per step of an enumeration; implements `KeySet` |
| `HashChain` | `jshash.c` | operators on a table value: chains of keys with move to front |
| `Atoms` | `jsatom.c`, the collector's part of it | the atom table over `HashChain`; an atomization stops where a collection may run |
| `OrderedProps` | what a scope promises | an ordered map from ids to attributes |
| `PropTree` | `jsscope.c` | tree nodes, lines, tables; one action per call with the scope locked; implements `OrderedProps` |
| `ArenaPool` | `jsarena.c` | chains of arenas and the free list; one action per macro or call |
| `Watch` | watchpoints of `jsdbgapi.c` | the stack of handlers and setters that run inside one another |
| `NativeObjects` | properties of native objects, `jsobj.c` | a call is a record; where it runs a hook it waits on a stack, and the hook may make any call |
| `Activation` | what a function's call promises | cells, elements of `arguments`, its length and callee |
| `Frames` | `jsfun.c`, the frame of `js_Invoke` | frame slots, reflected slots, the bitmap and flags; implements `Activation` |
| `Strings` | string representation, `jsstr.c` | cells, buffers with an owner, what native code keeps |
| `Regexp` | `jsregexp.c` | one step is one turn of the loop of the parser or of the matcher |
| `Unwind` | statements of control in `jsemit.c` and `jsinterp.c` | programs compiled to code with try notes, then run an opcode at a time |
| `Compiler` | expressions in `jsparse.c`, `jsemit.c` | operators: parse, fold, generate |
| `Decompiler` | expressions in `jsopcode.c` | operators: the stack of strings |
| `Interp` | expressions in `jsinterp.c` | an opcode at a time on symbolic values, with a trace of effects |
| `Expressions` | the reference meaning of an expression | operators on its tree |
| `Arrays` | `jsarray.c` | a method is a plan of moves; each move may fail |
| `ThinLockInv`, `ScopeShareInv`, `GcRequestInv` | | inductive invariants |
| `...Proofs` | | theorems, one module per component |
| `MC...` | | instances for TLC |

In `GcHeap`, `type`, `lockBits`, `mark` and the complement of `live` are the
fields of the flag byte; `carved` is what lies below `a->avail`; `freeList` is
`rt->gcFreeList`; `slots` are an object's references or a dependent string's
base; `reached` is a history variable that only properties read. `Holdable`,
what the program can still name, restricts the program's own steps: it cannot
use a pointer it has lost. Where `GcHeap` has one context and marks exactly,
`GcRequest` has many threads and only walks the context list: the second
justifies the first one's assumption that nobody runs beside a collection
(`GcRunsAlone`, `IteratorSafe`). In the same way `ThinLock` justifies the mutex
that `ScopeShare` makes of a thin lock, and `ScopeShare` the calls with the
scope locked of `PropTree` and `NativeObjects`; `DHash` justifies the functions
that stand for tables in `PropTree`.

The abstract specifications are `LocalRootScopes`, `KeySet`, `OrderedProps` and
`Activation`. Each is a `PROPERTY` of a run (`ImplementsScopes`,
`DHashIsKeySet`, `ScopesAreOrderedMaps`, `ActivationsOutliveFrames`) under a
refinement mapping in the detailed module. For `Regexp`, `Unwind` and the
expressions the reference is a recursive definition of what the source means,
which shares nothing with the code's machine.

The definitions whose comment begins "Mutant" are faulty variants of a
definition; nothing uses them. Each property is violated when one replaces the
definition it varies.

## Runs

A run may hold several parts that share no variable: a behaviour chooses one and
stays with it, so its states are the sum of the parts' states, not the product.

| Run | Shows | Bounds |
|---|---|---|
| `GcHeap` | no dangling thing, exact accounting, locks and lock bits in step, all old garbage collected | 3 cells in 2 arenas, 1 root address, 2 lock values below stuck (the code has 7), `gcLevel` up to 2; the two cells of one arena are interchangeable |
| `GcHeapLive` | the inductive invariant, the heap limit, collections end | limit 2 of 3 cells, 1 value in frames, 2 references per object, `gcLevel` up to 3 |
| `Contexts` | local roots refine `LocalRootScopes`, free chunks and mark exactly; a waiting collector starts; activations refine `Activation` | chunks of 3 and a count that wraps at 9, 3 things, scopes entered below 3 roots; 2 threads, requests 2 deep; 1 formal, 2 actual arguments, 1 variable |
| `Locks` | exclusion, the code's assertions, fat-lock recycling, no lost wakeup, progress of waiters; scopes held by one, claims that end | 4 threads, 2 locks of a bucket, 2 fat locks; 3 contexts, objects and scopes, locks 2 deep |
| `GcRequest` | exact request count, the collector alone, safe iteration, the life cycle | 3 threads with a context each, requests 2 deep, `gcLevel` up to 2; threads are interchangeable with their contexts |
| `Engine` | eleven parts, below | below |
| `GcHeapShutdown`, `GcHeapDependent`, `LocalRootsDeep`, `WatchSetter`, `SetterSlots`, `GuardFinally` | one disagreement each, below | 2 cells; scopes entered below 6 roots; 2 watched properties; the objects of `Engine`; 2 programs |

Three cells let an arena hold a live and a dead cell beside another that is
freed; chunks of three entries have a first, an inner and a last entry, and three
chunks have a middle one; three threads let one collect while one joins and a
third enters or leaves; four threads on two locks give two waiters and a woken
thread on one beside contention on the other. The bounds appear in guards under
the names `MaxLocks`, `MaxLevel`, `MaxStack`, `MaxSlots`, `MaxDepth`, `MaxNest`
and `EnterBelow`; all but the last bound what an embedder does, not what the
code tests. `EnterBelow` keeps the part to scopes entered in the first chunk,
where the code is right.

The parts of `Engine`:

| Part | Property | Bounds, and why they are enough |
|---|---|---|
| double hashing | `DHashIsKeySet` | 5 keys, tables from 4 entries, hashes that collide on the first and on all probes: sentinels, growth, shrinking and compression occur |
| atoms | `AtomsExact` | 4 keys, two in one chain, one pinned, one interned, 2 suspended compiles |
| property tree | `ScopesAreOrderedMaps` | 2 scopes, 3 ids, 2 attributes, 5 nodes, 6 calls: forks, middle deletes, a table and the sweep occur |
| arenas | `AllocationsHeld` | arenas of 2 units, allocations to 4, 3 held, 1 mark: an oversized allocation is grown, freed and marked over |
| watchpoints | `WatchingSound` | 2 properties, 3 watchpoints, 3 calls inside one another |
| objects | `CacheExact`, `SlotsExact`, `ResolvingExact` | an object with hooks and its prototype, 2 ids that share a cache entry, 4 calls, 3 pending |
| strings | `TextsNeverChange` | 4 cells, 3 buffers, 1-bit start and 2-bit length of a dependent string, 4 calls: both representations overflow |
| regular expressions | `MatchesExact` | 257 patterns, 3,860 cases: every operator under every quantifier before what makes it give back |
| ways out | `UnwindsExactly` | 993 functions, 3,874 programs: every exit from every pair of nested statements, those of try with every combination of catch, guarded catch and finally, but for the disagreements and departures below |
| expressions | `PrintsWhatItMeans`, `RunsAsWritten`, `DepthBounds` | 3,266 sources: every operator inside every other, with and without parentheses |
| arrays | `ArrayMethodsExact` | arrays to 4 elements with holes, sorts to 6, every method, a failure at every move |

### Fairness

- `GcHeap` (`FairSpec`, run `GcHeapLive`): weak fairness of the collector's own
  steps. `js_GC` runs on the calling thread and nobody else runs meanwhile.
  `GcTerminates` holds with `MaxLevel` bounding what one finalizer asks for, and
  no bound on how many ask.
- `ThinLock` (`LocksSpec`, run `Locks`): weak fairness of the steps of a thread
  that has called `js_Lock`, and of its `js_Unlock`; spurious wakeups end.
  Nothing is assumed of the order in which threads get a mutex, so a waiter may
  starve while others keep getting locks, and `WaitersProgress` says just that it
  waits for ever in no other case.
- `GcRequest` (`ContextsSpec`, run `Contexts`): weak fairness of a thread inside
  the engine, and requests end (strong fairness of the calls that end them, since
  a thread may call other functions in between): a request is a bounded piece of
  work of the embedder.

## Disagreements found

1. `GcHeapShutdown`: the loop "Iterate until no finalizer removes a GC root or
   lock" in `js_DestroyContext` never iterates, because `js_GC` clears `gcPoke`
   when it returns and not, as `jsgc.h` 184-186 asks, early.
2. `GcHeapDependent`: a locked dependent string does not keep its base; once it
   is reachable again, marking meets a freed cell, which `js_MarkGCThing`
   asserts cannot be.
3. `LocalRootsDeep`: the mark of a scope entered after 64 local roots is an
   index within the chunk; leaving the scope drops roots of outer scopes.
4. `WatchSetter`: a property whose last watchpoint goes keeps the setter
   `js_watch_set`, which then finds no watchpoint and asserts that this cannot
   happen.
5. `SetterSlots`: after a setter or a getter `js_SetProperty` and
   `js_GetProperty` check that the property's slot is below `freeslot`, not
   that the property is still there: the value goes into the slot of another
   one that the hook defined.
6. `GuardFinally`: a guard that fails last jumps past the instruction that
   resets the stack: the finally block runs with the catch clause's object
   below its return address, and on the scope chain.

### Departures the runs leave out

Each is what the code does, met while modelling; the models either leave the
case out, by the guard or the condition named, or keep it where no property
speaks of it.

- `GcRequest`: `js_GC` reads `rt->state` before it takes the lock and not again
  (`jsgc.c` 1069), and may collect on a runtime that another thread has taken
  down since, which `jscntxt.c` 187-189 says it does not.
- `LocalRoots`: `js_MarkLocalRoots` marks the innermost scope's roots only
  (`jscntxt.c` 622), while `jsapi.h` 575-589 promises the outer scopes' as well;
  `InnermostMarked` speaks of the innermost scope.
- `ScopeShare`: `ClaimScope` lets another context claim the outer scope of
  `js_SetProtoOrParent` while its owner waits inside `ClaimScope` with no
  request; the slot functions (`jslock.c` 568) do not test `OBJ_SCOPE` again
  after a claim; `JS_EndRequest` drops a listed scope that only the list holds
  without waking anybody.
- `Atoms`: in a `JS_THREADSAFE` build the `goto out` of `js_AtomizeString` and
  `js_AtomizeDouble` skips setting the flags asked for.
- `PropTree`: a failure in the loop that forks a line leaves table entries off
  the line (`torn`); with duplicate formals `CreateScopeTable` lets the older one
  win; a failed root leaves a `propertyTreeHash` entry without a child; an
  `InsertPropertyTreeChild` that fails in the sweep leaves a dangling parent.
- `DHash`: when the hook `initEntry` fails over a removed entry, `removedCount`
  is one too low (`jsdhash.c` 539-548); every table of the engine passes NULL
  for that hook, and the model has none.
- `ArenaPool`: an oversized allocation does not own its arena, as `jsarena.c` 291
  and 372 have it, when that came from the free list with room to spare
  (`jsarena.c` 180-188). What shares the arena is lost when the allocation is
  grown or freed, and the model holds it no more: `AllocationsHeld` promises
  nothing for it, and says that nothing else is lost; `JS_ArenaFreeAllocation` of an
  allocation that is not oversized and not the last of its arena runs off the
  end of the chain and is left out.
- `Watch`: nothing keeps a handler from unwatching its property twice, which
  frees the watchpoint under `js_watch_set`: `WatchpointsHeld` counts the times a
  watchpoint was cleared and promises nothing for a second time, and what the
  call then does to freed memory (undefined) is left out; a watch after an
  unwatch inside the handler is lost; the branch for the last property of
  `js_ChangeScopePropertyAttrs` does not wrap the setter.
- `NativeObjects`: a call goes on with a property that its hook has deleted or
  replaced. What it then stores is marked (`Astray`), and so is what it tells the
  cache (`stray`); `SlotsExact` and `CacheExact` except these, whose harm is the
  fifth disagreement. The entry that stays in the cache when an `addProperty`
  hook fails is marked too; while `addProperty` runs for a property defined again
  the cache has the old one (the exception in `CacheExact`). A property that a
  collection in the hook frees is read as it was, and a store beyond the slots
  changes nothing. `js_DeleteProperty` of an alias frees the original's slot;
  `js_SetAttributes` drops `JSPROP_GETTER` and `JSPROP_SETTER`.
- `Strings`: when `js_NewString` fails after the left buffer was grown, the
  shrunk buffer ends in the right operand's first character and not in the zero
  of `jsstr.h` 61-65; callers are taken to root the operands.
- `Frames`: `js_PutArgsObject` (`jsfun.c` 256) leaves an element of `arguments`
  that was reflected before with the value of that time, although the argument
  changed since and the element showed it while the frame lived: after `function
  f(a) { var r = arguments; r[0]; a = 2; return r; }` element 0 of `f(1)` is 1.
  `Activation` leaves open what such an element shows. `JSOP_ARGSUB` answers undefined beyond the frame's arguments even
  where `arguments[i]` was assigned; `js_PutArgsObject` brings a deleted length or
  callee back as undefined; negative indices reach the tiny ids.
- `Regexp`: the matcher's `result` is stale after an empty alternative
  (`/(?:){2}/`, `/(|a){2}/`, `/(?=)/`); minimal quantifiers save no captures;
  captures of an earlier turn are left over (`/(?:(a)|b){2}/` on "ab").
- `Unwind` (`Disputed`): the scope chain is not restored when an exception leaves
  a `with`; an exception caught inside `finally` replaces the pending one; a
  `finally` that takes back a `return` leaves the value set. A guard that fails
  under a finally block (`GuardFails`) is left to the run `GuardFinally`. Behind
  such a guard the stack depth the generator keeps is one too deep from the
  second catch clause on (`jsemit.c` 3378 adds to what 3460 has added): a try
  statement in that clause raises the stack to it, and the end of the clause
  takes a slot nobody pushed for its With object.
- `Expressions` (`DisputedNode`): `- -a` prints as `--a`, `1 .x` as `1.x`;
  constants -0, NaN and infinity print as other programs; an assignment to a
  constant prints only its right side; `delete f()` compiles to true without the
  call; `new a()()`, `(a.b)(x)` get the wrong `this`; `typeof` of a parenthesised
  last name hides that it is unresolved.
- The emitter's span dependencies are not modelled; reading them showed that a
  known offset out of range with no jump before it stays truncated, against
  `jsemit.c` 279-282, and that `BuildSpanDepTable` meets opcodes whose length in
  `js_CodeSpec` is -1.

## Proofs

Every theorem holds for all values of its module's constants: any finite sets
of cells, threads, contexts or objects, any depth, any sizes. The assumptions
are the ones named in the modules, which TLC evaluates on the runs' instances.

| Module | Theorems | Invariant |
|---|---|---|
| `HeapAndCallsProofs`, cells | `TypeCorrect`, `HeapInvariant`, `NeverDangling`, `LocksNeverPart`, `AllGarbageCollected`, `AccountsKept`, `LimitKept` | `HeapInv`, the accounts |
| `LocksProofs`, thin locks | `TypeCorrect`, `LockInvariant`, `Exclusion`, `AssertsHold`, `FatLocks`, `WakeInvariant`, `NoneForgotten` | `LockInv`, `WakeInv` |
| `LocksProofs`, scopes | `ShareInvariant`, `HoldersCorrect`, `ClaimsCorrect` | `ShareInv` |
| `GcRequestProofs` | `RequestInvariant`, `RequestCountCorrect`, `GcRunsAloneCorrect`, `IteratorCorrect`, `LifecycleCorrect` | `RequestInv` |
| `StacksProofs`, local roots | `RootsInvariant`, `ChunksCorrect`, `ScopesCorrect`, `MarkingCorrect` | `RootsInv` |
| `StacksProofs`, arena pools | `PoolInvariant`, `AllocationsCorrect` | `PoolInv` |
| `HeapAndCallsProofs`, activations | `FramesInvariant`, `ActivationsCorrect` | `FramesInv` |
| `HeapAndCallsProofs`, watchpoints | `WatchInvariant`, `WatchingCorrect` | `WatchInv` |
| `NativeObjectsProofs` | `ObjectsInvariant`, `CacheCorrect`, `SlotsCorrect`, `ResolvingCorrect` | `ObjectsInv` |
| `TablesProofs`, double hashing | `TableInvariant`, `TableCorrect` | `DHInv` |
| `TablesProofs`, atoms | `AtomsInvariant`, `AtomsCorrect` | `AtomsInv` |
| `PropTreeProofs` | `PropTreeInvariant`, `OrderedMapsCorrect`, `OrderedMapsRefined` | `PropTreeInv` |
| `StringsProofs` | `StringsInvariant`, `TextsCorrect` | `StringsInv` |

`ScopesCorrect`, `ActivationsCorrect`, `TableCorrect` and `OrderedMapsRefined`
are refinements, one for each abstract specification: every step of the detailed specification is a step, or a stutter, of the abstract one.
`LockInv`, `WakeInv` and `HeapInv` are properties of the runs. The other
invariants were checked by TLC on the instances of their runs before they were
proved; a copy of the configuration with the invariant repeats that.

### The heap

`HeapInvariant` and what follows from it assume that dependent strings are not
among the locked types; the run `GcHeapDependent` is the counterexample without
it; so do `AccountsKept` (`HeapAccounting`) and `LimitKept` (`WithinMaxBytes`).
`TypeCorrect` needs `HeapAssumption` alone.

`NoDangling` is not inductive: that what is reachable is live after a sweep step
needs to know that a reachable cell the sweep has not passed carries its mark.
`SweepInv` says so: before the sweep no mark is left, and during it the cells
still to be swept that the roots lead to are marked. Finalizers only take roots
and locks away, which can only shrink what is reachable, so the marks stay
enough. The steps that add references take them from `Holdable`; the lemmas on
`Reach` show that this adds nothing but the new reference's own closure. Locked
strings are leaves (`LeavesInv`): a sweep may pass them unmarked because nothing
hangs off them, which is just where dependent strings fail.

### Thin locks

From `ThinLockAssumption` alone. `MutualExclusion` needs to know that the lock
word names whoever is inside (`WordInv`). What `js_Dequeue` asserts needs more: a
wait bit must come with a fat lock. It does not always, because the last thread
to leave a fat lock gives it back while the word may still carry the bit; but
that thread then has the global lock until it has stored the word (`WaitInv`),
and whoever asserts has the global lock itself (`PlaceInv`). `FatInv` counts: the
proof that the last one to leave leaves nobody behind is an argument about
cardinalities (`RelockCount`, `RelockLast`).

`NoLostWakeup` as stated is too weak to be kept: the thread about to notify must
do so on the fat lock the sleeper is on, and nobody may notify between the
moment a thread is counted and the moment it sleeps. `SleepInv` states the
first. `BedInv` states the second: a thread on its way to sleep still has the
bit set, or the thread that cleared it is stopped before `slock`, which the one
going to sleep holds until it does (`HandInv`). This is why `js_SuspendThread`
takes `slock` before it lets go of the global lock; the mutant of `WakeInv`
takes that order away. A woken thread that leaves others asleep carries the wait
bit in `me`, and the invariant follows it there (`WakerActs`).

### Scopes that are shared

From `ScopeShareAssumption`. `HoldersHold` follows once it is known for every
context where it stands in `js_LockObj` and what it then holds (`Holds`), and
that a scope is owned or locked but never both (`OwnedNotLocked`). `ClaimsEnd`
says that no set of contexts waits only for itself. A new waiter joins only if
`WillDeadlock` is false, which follows the chain from the scope's owner through
what each owner waits for; the invariant says that each waiter waits for exactly
one scope with an owner other than itself, so that the chain is the only one a
closed set could be made of. The invariant also shows that `WillDeadlock`'s loop
ends.

### Requests and the collector

`RequestCountExact` is an equation of `requestCount` with the contexts in
requests, less what the collector has set aside (`requestDebit`). To keep it, one
has to know of every thread where it is: before or after which of the two
additions, and whether its context is on the list. `RequestInv` has the list (the
links agree, and there is one ring: any set that holds the header and is closed
under `next` holds every context on it), the place of each thread
(`Entering`, `Staying`, `Leaving` and so on), its depth, the counts with their
debits, and how `rt->state` goes with the list; and what is left of the iterator's
walk stays within contexts on the list and those that left it while their threads
still wait for the collector, so that none of it is freed (`IterInv`). The
counts are cardinalities; each step changes one context's share. `GcRunsAlone`
then follows: the collector goes on when the count is 0, and nobody can begin.

### Local roots

Under the hypothesis `FirstChunk`: chunks have more than one entry, and scopes
are entered while the roots are in the first chunk. Without it the refinement is
false: the run `LocalRootsDeep` is the counterexample. `RootsInv` says that
chunks are exactly as many as `rootCount` needs, that `scopeMark` and the marks
saved in entries lead from each scope to the one around it, and that the scopes'
starts can be counted from the oldest. The refinement maps the stack of chunks to
a sequence of scopes, the n-th being what lies between the n-th start and the
next; each call changes one scope of the sequence. `MarkingCorrect` needs that
the walk goes down one chunk for each boundary crossed, for every number of
boundaries; that is an induction, made with the least counterexample (below).

### Arena pools

From `ArenaPoolAssumption`: finitely many pools, each with arenas of at least one
unit, and `First` is no address malloc returns. `AllocationsHeld` says nothing of
marks, and a release truncates the chain where the newest mark points, so it is
not inductive. `PoolInv` adds four things for each pool. A mark divides the
allocations (`Divides`): those it counts lie below it, the ones after it above,
and every arena up to the mark's began with an allocation that it counts; marks
are in order (`Older`). Hence a release cuts just what came since, finds the
mark's arena in the chain, and leaves the older marks true (`ReleaseKeeps`). A
chain holds each arena once and each began with an allocation still held
(`Chained`), which is why no arena is found empty; the room an arena was
reclaimed with is bounded (`Begins`), so that what lies behind its first
allocation is never oversized, and the oversized one that is grown or freed
begins its arena (`OversizedBegins`). What shares that arena is lost with it
(`Evicted`): no mark counts it (`MarkedOutside`), and what is kept keeps its order
(`KeptCounts`). An arena with a header has the address before it at
`back`; `Realloc`, which changes that address, and `JS_ArenaFreeAllocation`,
which takes an arena out, tell it to the arena after it, whose size they read
off its cursor (`NextFixed`, `RestMended`). And an arena is in one list or malloc's
(`Listed`), so that a step of one pool leaves the others alone
(`PoolSteps`). The lemmas are about sequences without repetition: appending,
cutting, taking out or replacing an element, and what that does to the order of
the rest. `Grow` is safe only for what is newer than every mark: the guard
`NewerThanMarks` is used just where a moved allocation would leave the part a
mark kept.

### Activations

`FramesInv` has types, that an object not made has nothing reflected, and when
the name `arguments` has a slot of its own. The refinement goes action by action:
each lemma (`GetElemLooks`, `SetByNameAssigns`, `LeaveLeaves` and so on) says
which abstract step a concrete one is, whatever was reflected, deleted or
overridden before. What an element shows when the frame goes is left open in the
abstract specification where it was seen before (a departure, above).

### Watchpoints

`WatchInv` says that a listed watchpoint's references are one for the list plus
one for each call that runs under it, less the times it was cleared; that one
under way is listed or was cleared twice; and that of a property at most one
watchpoint is listed. No action has a guard that keeps a script from clearing.

### Objects

`ObjectsInv` (in `NativeObjectsProofs`) has a part for each variable. `CacheExact`
alone is not inductive: an entry must lie at the place of its own object and id,
or the removal that is to take it out looks elsewhere, and while a sweep runs the
cache is empty and off, or the object that gets a dead one's cell would inherit
its entries (`EntrySound`, `CacheSound`). `SlotsExact` needs that slots lie
between the reserved ones and `freeslot` and that each property is under its own
id (`SlotsSound`), and both that the calls that wait are what the program makes
(`Waits`).
The lemmas are about small steps on a state: storing
in a slot, adding, changing or removing a property, filling the cache, waiting
for a hook and ceasing to wait. `LookUp` along the prototypes and `FindProperty`
along the scope chain, with their hooks, are shown to keep the invariant for
chains of any length. Nothing is assumed of what a hook does to the property its
call has found: a waiting call's property may be gone or be another one's in its
place, and the lemmas for stores and for what the cache is told have a case for
that, which is where `Astray` and `stray` come from.

### Scopes and the property tree

From `PropTreeAssumption`. `LinesExact` holds of each scope, but it is not
inductive, for it says nothing of the tree off the scopes' lines, nor which nodes
count. `PropTreeInv` says of the tree that its parent links are a forest: some
ranking puts every parent before its kids, so that lines end, and nodes in use
have parents in use (`TreeOK`). Of each scope that was not torn it says that there
is a set `C` of nodes that it counts (`Counts`): they are on its line with
distinct ids, its table, if it has one, finds exactly them, the last property is
one of them, there are `entryCount` of them, and the line holds others only
while the flag says so.

The list an enumeration sees is then the pairs of `C` along the line
(`PairsAt`); taking a node out of `C` is `Without`, adding one at the end is
`With`. A call changes the tree only by adding nodes (`Extends`), which leaves the
lines of the other scopes alone, and this is why sharing is harmless. The fork
is a loop over the nodes that count, with several outcomes at each; what holds
after `n` turns (`Way`) is that the fork's line so far lists the first `n` pairs,
and that the table finds the nodes of the fork for these and the old ones for the
rest. At the end the two lines list the same. If a turn fails, the table may be
left with nodes off the line: that is a scope torn, which the abstract
specification gives up as well (`Lose`); of every other failure `FailSound` says
that the scope is sound and lists what it did, or the same with the overwritten
property moved to the end or lost. The sweep only loses nodes no scope counts
(`Shrinks`), and gives a dead node's kids to its parent, so that every line keeps
its nodes that count, in their order, however many of those between them go.

### Double-hash tables

From `DHashAssumption`: the smallest table has at least four entries, the
largest is bigger and fits the hash code. The refinement maps the table to the
set of keys that live entries hold. What makes it true is that a search ends at
the right place, and the invariant says so for every key that is in: each entry
its probes pass before it reaches its own is not free, and carries the collision
flag, so that removing what is there leaves a sentinel and not a hole. Growth,
shrinking and compression rebuild the table by adding key after key; the proof
is about what one such addition keeps, and there are always free entries left,
because the load stays below the size. That a probe sequence meets every entry
before it repeats, and so that a search in a table that is not full ends, rests
on the second hash being odd and the size a power of two (`OddStaysOff`,
`ProbesDiffer`, `ProbesCover`).

### Atoms

From `HashChainAssumption` (a hash code has `HashBits` bits, and the smallest
table no more buckets than there are codes) and `AtomsAssumption`, whose only
demand of weight is that there is no memory for so many atoms that a table of
`2 ^ HashBits` buckets, 2^32 in the code, would be overloaded: `RawAdd` does not
look, and its `shift` would wrap. A chain keeps each key of its bucket
once (`Shaped`), from which the enumeration, all chains joined, meets every key
once (`EntriesAre`, over `FlattenIs`); what a lookup moves to the front, a growth
or a shrinking to other chains, and a sweep out of them is told by one lemma each
(`FoundFirstIs`, `RehashedIs`, `RawAddIs`, `EnumerateIs`), and that a table never
shrinks below its first size by `ShrunkIs`. `AtomsInv` adds to `AtomsExact` that
`gcKeepAtoms` counts the compilations under way, so that a collection that keeps
only what is marked finds none, and that an atomization under way means that the
names are pinned. The step that matters is the last ditch collection: it keeps
all atoms, so the table is the very one it was (`EnumerateIs`, third part), and
`hep` is still the place of the new entry.

### Strings

From `StringsAssumption`, which asks nothing of the masks or the recursion limit
but that they are numbers. `TextsNeverChange` is not inductive: it speaks of the
strings the program holds, while the characters a step moves also belong to
strings that only others lead to. `StringsInv` says that there is one text for
every live string, on which the cells agree (`Means`): a flat string's text is at
the start of its buffer, which no other flat string owns; a dependent one lies
within its base, its text is that stretch of the base's, and its length fits the
field whenever it does not start where the base does; and the bases go down in
some order, which is why following them ends. What the program holds and the
remembered bytes are those texts (`Told`), and a pointer that native code keeps
goes into the buffer of an immutable string it holds (`KeptStays`). The lemmas on
chains (`ChainLeads`, `OwnerIs`) show that the characters found at the end of any
chain are the text, however long it is. `MinimizedMeans` then shows that giving
every string on the way the last base changes no text: also where a prefix
becomes a stretch, whose length might not have fitted, but does, because some
base before was a stretch of at least that length. `HandedOverMeans` is the
concatenation in place, after which the order of bases is a new one. A
collection frees what no held string leads to; a base is marked with what
depends on it, so no live string loses its base.

### What is only model-checked, and why

- Liveness (`GcTerminates`, `WaitersProgress`, `GcStarts`): it rests on fairness
  and `ENABLED`, which are out of the prover's reach.
- `Regexp`, `Unwind`, `Compiler`, `Decompiler`, `Interp`, `Expressions`: their
  recursive operators are out of the provers' reach.
- `Arrays`: no proof.

Induction with a predicate as a parameter is not available to the provers. What
can be had is the first-order form: every non-empty set of numbers has a least
element (`SmallestExists` in the modules that need it, from `WFMin` of the library), so
a claim about all numbers is proved by looking at the least one for which it
fails.

## Not modelled

- In the heap: the sweep of atoms, property tree and script filenames, external
  string finalizers, statistics, `TOO_MUCH_GC` builds; doubles stand with
  strings, as leaves.
- The failure of `js_PushLocalRoot` inside `js_AllocGCThing`, which leaves a
  fresh cell's flag byte unwritten: it needs the heap and the local roots in one
  model.
- In the requests: `JS_YieldRequest`, `JS_SuspendRequest`, a thread in requests
  on several contexts, contexts that change threads.
- In the locks: initialization, destruction, the platform's compare-and-swap.
- In the tables: creation and destruction, meters, `JS_DHashTableSetAlphaBounds`,
  `JS_CompactArenaPool`.
- In objects: sealed scopes, aliases, sharp variables, non-native objects,
  `js_SetProtoOrParent`, the methods of `Object`; traps of the debugger; Function objects and their methods.
- In the compiler: the scanner, statements and functions other than `Unwind`'s,
  `switch`, span dependencies, the encoding of notes.
- Numbers, dates, `Math`, exceptions' objects, XDR, files, the network, `printf`,
  digit conversion, the thin entry points of the public API, the shell: they hold
  no state of their own, or depend on the platform, or compute over doubles and
  text, of which a search over a few values says little.
- The floating-point library is vendored; `js.c`, `orig_jsfile.c`, the SAP, ODBC,
  SQLite and process bindings are not in the build.

These make up most of the lines under `src/`; what is mapped is the engine's
control: the collector, threads, tables, properties, calls and unwinding.

## Plan

1. Done: the core (`GcHeap`, `ThinLock`, `LocalRoots`, `GcRequest`), the sharing
   of scopes, the data structures over abstract ones, objects and watchpoints,
   activations, expressions and statements of control, regular expressions,
   strings and arrays; proofs for thirteen of the models above.
2. To prove: the plans of `Arrays` and its heap sort.
3. To model: traps, `JS_YieldRequest` and `JS_SuspendRequest`, the emitter's span
   dependencies, `switch`.
