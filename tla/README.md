# PothosPython: specification, model checking and proofs

PothosPython joins two worlds that each have their own threads, their own way to
fail and their own way to own objects: the C++ framework Pothos and the CPython
interpreter. This directory has TLA+ models of the code that joins them, TLC
instances that check the models, and TLAPS proofs of their main properties.

## The system

| part | state it keeps | operations | talks to |
|---|---|---|---|
| scope guards (`PyObjectUtils.hpp`) | `_s`, what the constructor found | construct, destruct | CPython's lock and thread states |
| object references (`PyObjectRef`, `PyObjectUtils.hpp`) | `obj` | copy, assign, `newRef`, destruct | reference counts |
| python handles (`PythonHandle.cpp`) | `obj`, `ref`, `env` | `call`, `compareTo`, `hashCode`, `toString`, `getClassName` | Python code; C++ holders by `shared_ptr` |
| python environment (`PythonProxy.cpp`) | none of its own; the interpreter wrapper is a process-wide singleton | `makeHandle`, `getHandle`, `findProxy`, `convertObjectToProxy`, `convertProxyToObject`, `serialize`, `deserialize` | converters, the managed environment |
| converters (`PythonConvert.cpp`, `FrameworkTypes.cpp`) | none | one function for each pair of types | C API, `getHandle`, `makeHandle` |
| Python module (`Pothos/*.cpp`) | statics: environment and two conversion functions | methods of `Proxy`, `ProxyCall`, `ProxyEnvironment` | handles of any environment |
| block adapter (`PythonBlock.cpp`, `Pothos/Block.py`) | `_block` on each side, weak from C++ to Python | `work`, `activate`, `deactivate`, `propagateLabels`, opaque calls | worker threads; the Python block |
| configuration loader (`PythonConfLoader.cpp`) | plugin registry entries, `sys.path` | load a file, make a block | environment, registry |
| Python wrappers, logger, information | none, or a table | forward calls | `Proxy` objects |

What is hard about it:

* **The lock.** A thread may enter a function with the interpreter lock held, not
  held, or held by an outer frame of its own, because calls nest in both
  directions: Python calls a native method, which calls a python proxy, which
  runs Python code. Every handler takes and releases the lock by scope guards,
  and exceptions close guards as well.
* **Waiting.** A script that commits a topology waits for worker threads, which
  need the lock to run Python blocks.
* **Ownership.** Objects are owned by Python's counters, by `PyObjectRef`s and by
  `shared_ptr`s at once; handles die on whatever thread lets go last.
* **Failure.** C++ exceptions, NULL results and the thread's error indicator
  have to be turned into each other at every change of language.
* **Values.** Integers change width and sign on their way.
* **Start and end.** The interpreter may be there already, two threads may be
  the first, an import may fail, plugins may be removed while other threads use
  them, and exit() runs what was registered in reverse order.
* **Two owners.** A Python block and the native block in the topology refer to
  each other; either may lose its last owner while the other is being called.

What makes each part correct, and the lines where it may go wrong, is the list
"hazards" of `PROJECT.json`.

## Modules

| module | models | state and actions |
|---|---|---|
| `GilGuards` | `PyGilStateLock`, `PyThreadStateLock` | `guards[t]`: the guards open on `t`, with what `_s` of each remembers. `Ensure`/`Release` and `Save`/`Restore` are the constructors and destructors; `Park`/`Unpark` the evaluation loop's release of the lock; `counter` is CPython's `gilstate_counter` |
| `GilGuardsProofs` | | its theorems |
| `BridgeCode` | every function of the repository that opens a guard, and their callers | each of 50 functions is the sequence of its operations on the lock, its calls, early returns and throws, in program order, and its `try` block |
| `Bridge` | threads that run `BridgeCode` | `stack[t]`: frames with a position and the guards they opened. One action per kind of operation; `Leave` unwinds by return or exception; `SubmitJob` ... `FinishWork` are the worker threads; the model ends where an exception comes to the interpreter (`Ended`) |
| `BridgeProofs` | | its theorems, and that it implements `GilGuards` |
| `HandleRefs` | `PyObjectRef`, `PythonProxyHandle`, `PyObjectToProxy`, `ProxyToPyObject`, the owners inside `call()` | `own[k]`: the object owner `k` has a reference to; `rc`: its counter; `hold`: who shares a handle. `CallLocate` ... `DropAttr` are the steps of `call()`, `CallBox` ... `DropBox` those on a result that holds a proxy, `AccessStart` ... `AccessEnd` the accessors `get:` and `set:` |
| `HandleRefsProofs` | | its theorems |
| `CallErrors` | how failures cross between C++ and Python | `stack`: nested calls; `err`: the error indicator; `reply`: what the innermost frame is given; `CallRefuse` is what `call()` throws before it runs anything |
| `CallErrorsProofs` | | its theorems |
| `IntConvert` | the integer converters | a value that goes back and forth, with the value it was meant to be |
| `IntConvertProofs` | | its theorems |
| `EnvLifecycle` | the factory of the environment and the interpreter wrapper (`PythonProxy.cpp`), the initialisation of the module and its plugin events (`PothosModule.cpp`), the end of the process | `pc[t]`: where a thread is in the factory, in the import, or in a conversion; `wrapper`, `module`, `fcn`, `registry`: what others see of it; `atExit`: what `exit()` will run. `EnterWrapper` ... `FinishImport` are the factory's steps, `HandleReset`/`HandleUnregister` the plugin event |
| `ConfLoader` | `PythonConfLoader.cpp`, on the threads of `EnvLifecycle` | `registered[e]`: the file whose loader registered entry `e`; `load`: the load that goes on; `job[t]`: the block factory that `t` is in. `StartLoad`, `RegisterEntry`, `EndLoad` are the loader; `IndexPath`, `AddPath` the two calls on `sys.path` |
| `ConfLoaderProofs` | | its theorems about the entries |
| `EnvLifecycleProofs` | | theorems about both: the factory, the import, the removals, the paths |
| `BlockAdapter` | `PythonBlock.cpp` and `Block.py` | `py`, `nat`, `link`: both blocks and the weak reference; `stack[t]`: a thread's calls from one block to the other. Every change of an owner is followed by the destruction of what has none (`Settle`) |
| `ContainerRefs` | the converters of tuples, lists, sets, dicts and arrays | `rc`, and who owns the elements: variables, the container, the loop's copy, the handle that is being inserted, the C++ container, the new Python container; `vrc` and `values` are the same of the values of a dict. `MeanwhileStep` is another thread of the script |
| `BlockCalls` | a call of a block with data | composes the two: the worker's call in `opaqueCallHandler()` goes on when the conversion of its arguments or its result is over |
| `BlockCallsProofs` | | theorems about the conversions and about the lives of the two blocks |

`MC*` modules hold the instances. The modules stand on each other as follows.
`Bridge` implements `GilGuards` (`ImplementsGilGuards`: the guards open in all
frames of a thread are its stack of `GilGuards`), so what is proved of the guards
holds of the functions. `HandleRefs` takes from `Bridge` that a thread has the
lock in each step that touches a counter (`ApiUnderGil`), and where it does not
(`IncrefUnderGil` is false) it splits the increment into a load and a store.
`CallErrors` is about one thread, whose calls `Bridge` interleaves.
`ConfLoader` runs on the threads of `EnvLifecycle`: a factory of a block calls
the factory of the environment and may be the first to import the module, and
its steps on `sys.path` are calls of proxies, between which other threads get
the lock. `BlockCalls` joins `BlockAdapter` and `ContainerRefs`.

Definitions that begin with `Bug` are what a plausible mistake would make of the
definition that follows them. They are used nowhere in the specifications; the
list "mutants" of `PROJECT.json` says which property each of them violates.

## What the runs check

| run | question | states | bounds |
|---|---|---|---|
| `gil_guards` | do nested guards keep the lock exclusive and restore what they found? | 21 568 | a script thread, the embedding thread, a framework thread; 5 guards on each |
| `bridge_script` | a script uses every function of the module on native objects, which use every operation of python proxies and wait for a worker that runs Python blocks: is Python touched under the lock only, and where may an exception get out? | 410 370 | script and worker; optional calls up to a stack of 4 frames |
| `bridge_live` | a C++ program runs Python code that calls native methods which wait for a worker: is Python touched under the lock only, and does every call return? | 133 026 | host and worker; depth 4; `ProxyCall_call()` and `call()` of proxies |
| `handle_refs` | are the counts exact and the objects alive, whoever drops them? | 947 555 | 2 threads, 2 objects, 3 handles, 3 proxies, 2 references of Python |
| `int_convert` | do integers keep their value? | 716 | types of 2 to 5 bits in the place of 8 to 64 |
| `environment` | who gets an environment too early, what do a removal and a failed load leave behind, does every factory return? | 1 333 235 | 2 threads, 2 calls of the factory by each, 2 loads, 4 files with 5 entries and 2 directories |
| `block_calls` | do both blocks live as long as they are called and no longer, and do conversions take and release each reference once? | 1 708 778 | a block, a script thread and a worker, calls up to 6 frames, 4 names, 3 objects |
| `errors` | is every failure reported where it belongs, refusals of `call()` and a missing method called by a framework thread included? | 1 434 | 4 calls within each other |

Why the bounds are enough: two threads are what a race on one lock, one counter
or one handle takes; five guards give every nesting of the two kinds with one
more around it; a depth of four frames gives Python to native to Python to
native. The functions below that depth make no optional call, but mandatory
calls go as deep as they need (conversions, handles). In `bridge_live` the host
calls a proxy, whose Python code calls a native method, which waits for the
worker, which needs the lock for its Python block: four frames are what that
takes. The thread of a script differs from it in having no native frame below
its Python code; that its waits are without the lock is checked in
`bridge_script`. The comparison of keywords, and elements of elements of
containers, need a frame more than `bridge_script` has and are left to the
proof. Two objects distinguish an argument from a result and let memory be used
again. Integer conversions depend only on the order of the widths and on the
halves of the ranges, which the small types keep; every value of every type is
tried. The other data models, those where `long` has 32 bits, differ in the
widths only, for which there is a proof. Symmetry in `handle_refs` is over
objects and handles, which no property names.

`environment` starts in a process that Python started or a C++ program, with the
`Pothos` package complete, broken or missing, and with or without the helpers in
the registry. Two threads give each race of the factory; with two calls each, a
thread comes back after a failure. The four files are one that loads, one that
claims the other's factory after registering one of its own, one with a
documented factory that cannot be registered, and one that is not in the format.
`block_calls` has names that Python defines, that the native block answers, both
and neither; six frames let a name that neither knows go from one to the other
twice before the limit. Two of its objects are equal to `compareTo()`, one of
them raises when it is compared, the third is unhashable.

What `bridge_script` shows of exceptions: they come to the interpreter from three
places at most (`EscapesOnlyUnprotected`), the native `toString()` and
`getClassName()` of a proxy and the conversion of the keywords of
`ProxyEnvironment(...)`, of which a comment says that it "should not throw"
(`ProxyEnvironmentType.cpp`, line 20). What happens then is not defined; in the
model the process ends there (`Ended`), which is why the run does not ask for
deadlocks.

What `environment` shows of the start: a thread that asks for an environment
while another makes the first one gets one whose module is not imported
(`PythonProxy.cpp`, line 150), and so does one that asks again after a failed
import. `UnreadyOnlyIfRaced` says that there is no other way, and
`DiesOnlyAfterRemoval` that once the import is through a conversion ends the
process only when a helper of the module was removed; both leave open what
happens before. What is left of a removal is nothing (`RemovalLeavesNothing`),
except in two windows of the initialisation (`missed`): the helper went before
the module listened for events, or the removal was over, its converter taken
from a registry that did not have it yet, before
`registerPothosModuleConverters()` registered that converter, which then stays
(`PothosModule.cpp`, lines 89 to 93). `sys.path` may get a directory once per
thread (`PathGrowthBounded`), since the loader looks and then appends. A load
that fails at an entry that is taken, or at one whose path or description
throws, leaves the entries before it registered for ever, and its file never
loads again (`LeftoversStay`; `EntriesAccounted` says whose the entries are).

What `block_calls` shows: neither block dies while a call of it runs; the only
way to end the process is to let go of the Python object while the topology
still runs its native block, since the weak reference is then dead and the
message about it is made of a null string (`DiesOnlyForsaken`). A set of which
`compareTo()` cannot tell the elements apart loses them. A dict with such keys
becomes a map that has one of the keys with the value of another, a pair that the
dict need not have had: `d[key] = val` keeps the key that is there and replaces its
value. `Snapshot` says that all other elements, keys and values are those of one
moment. An exception of a comparison leaks the rest of the copied set
(`leaked` in `CountsBalance`; the copy itself is never released).

The runs that end in a violation show where the code disagrees with what the
repository says; each has an entry under "findings".

* `bridge_incref`: `ProxyToPyObject()` takes a new reference with the lock let
  go. `HandleRefs` shows what follows: `CountExact` and `AliveWhileOwned` hold
  only of objects outside `torn`, those that have lost no update.
* `int_vectors`: vectors of unsigned 64 bit integers become negative in Python.
* `errors_missing`: a call of a missing method leaves the error indicator set.
* `errors_blank`: an exception without a text is taken for success.

### Fairness

`bridge_live` and `environment` assume some. In the first every thread is
scheduled, strongly (`SF`), because a thread that waits for the lock is enabled
only while the lock is free; nothing is assumed once an exception has come to
the interpreter, for which nothing is defined and where the model ends
(`Ended`). CPython's lock hands itself over on request (the switch interval), so
a thread that wants the lock gets it if it comes free again and again, and the
evaluation loop gives it up again and again. The code of the repository is
sequential between those points, so no other fairness is needed. The framework's
worker threads run whenever there is something to do. In `environment` a thread
that is in a factory goes on if it can (`WF`): what stops it there, another
thread's initialisation or import, comes once and ends, so that it is enabled
from then on. Nothing is assumed of threads that load, remove or end the
process.

### Assumptions on code outside of the repository

* CPython: the lock, `PyGILState_*`, `PyEval_*Thread`, the check of results
  against the error indicator, the way counters work.
* Python code calls what the method tables and type slots of the module offer,
  native code what a proxy or an environment offers (`CallsAssumption` of
  `BridgeCode`); which of them a program uses is a parameter.
* Native methods may call python proxies they were given, wait for a worker, and
  throw `Pothos::Exception`. Native functions that the module calls with the lock
  held (`hashCode`, `compareTo`, `findProxy`, making an environment, `toString`,
  `getClassName`, destructors) are taken not to wait for a worker, a hazard listed
  without a property. They may throw, `getName` and destructors excepted.
* A framework thread swallows what a block throws.
* There are finitely many threads, and only the constructor of `Block` calls
  `_setPyBlock` by name.
* Threads of the library exist once it is loaded, so in a process of Python only
  from the import on. `exit()` comes when no thread makes an environment.
* Whoever called the loader removes the entries that it returned. The topology
  lets a block go when it does not run. It may or may not own the Python block.
* While a worker converts data, the script's thread is not in a call of the
  block; the other threads of the script change the container and their variables.
* The containers that go to Python hold proxies of the python environment.
* Python's recursion limit comes before the end of the C stack.

## What is proved

All proofs are for any number of threads, objects, handles, guards, files and
nested calls, under the `ASSUME`s of the modules, which say no more than which
functions may be called (`CallsAssumption`), that special values differ from the
others, that the integer types have the order of their widths, and, where owners or
threads are counted, that they are finitely many. Every
invariant and every action property that a passing run checks has a theorem.

* **`GilGuardsProofs`.** The inductive invariant is `TypeOK`, `GilFollowsGuards`
  (the thread whose innermost guard is inside, and is not parked, holds the lock,
  nobody else), `GuardsNest` (what a guard remembers is what the guards below it
  say) and `CounterCountsGuards`. None of them is inductive alone: closing a
  guard puts back what it remembers, which is right only if it nests, and a
  release leaves a thread state alive only if the counter counts the guards.
  `SavedStateAlive` and the action property `CloseRestores` follow, and that no two
  threads are inside at once.
* **`BridgeProofs`.** `TypeOK`, `ApiUnderGil`, `NoWaitHoldingGil`,
  `EscapesOnlyUnprotected`, and that `Bridge` implements `GilGuards`, for any
  depth of calls and whichever functions are called. None of the invariants is
  inductive, because what a function may assume of the lock depends on who called
  it. The proof therefore first looks at the text of each of the 50 functions
  alone: `CodeSound` says, for each place in it, which guard is open there (no
  function has two open at once), on which side of the lock each operation and
  each callee belongs, and that an exception leaves only functions of `Throwers`,
  and one that Python calls only from the three places of `Unprotected`. The
  inductive invariant `BInv` says that each frame of a stack has the guards that
  its place says and was called on the side that it needs (`StacksOK`), and that
  the lock is with the one thread whose stack says so (`GilOK`); `JobsOK` gives
  the queues of the workers their types. The implementation follows: the guards of
  all frames, put one after the other (`FlattenSeq`), are a stack of `GilGuards`,
  and every step of `Bridge` pushes one, pops one, parks, or leaves it as it is.
  `FlattenSeq` is recursive; that its recursion has one result is proved here by
  the least-number principle (lemma `NatMin`), since the induction theorems of the
  library cannot be used.
* **`HandleRefsProofs`.** The inductive invariant adds to `CountExact` and
  `HandleLifetime` what each step of `call()` owns (`CallBalanced`), since the
  count of an object is the size of the set of its owners and every step moves
  one owner, those of the accessors and of a result that holds a proxy included.
  `AliveWhileOwned` follows from the count.
* **`IntConvertProofs`.** Under `Fits` (Python's integers are within 64 bits; the
  elements of vectors are within the type they are cast to) conversions keep the
  value and the type, for all widths. `int_vectors` shows what breaks the second
  half of `Fits`. What breaks the first is a Python integer that 64 bits do not hold,
  which `convertPyLongToLongLong()` (`PythonConvert.cpp`, line 133) masks to another
  number; it has no run.
* **`EnvLifecycleProofs`.** `TypeOK`, `RemovalLeavesNothing`, `DeinitBeforeFinalise`,
  `PathGrowthBounded`, and the action properties `UnreadyOnlyIfRaced` and
  `DiesOnlyAfterRemoval`, for any threads, files, directories and loads. The
  inductive invariant `LifeInv` joins what the properties need of each other:
  * `WrapperOK`: the interpreter is what the wrapper made of it; one thread at
    most makes it, and `sys.path` is empty before.
  * `ImportOK`: one thread at most imports, and as long as the process lives there
    is one if the module says so. The exception is needed: a thread may end the
    process in the middle of an import.
  * `ExitOK`: `exit()` has the wrapper's end below the library's. This is
    `DeinitBeforeFinalise` with the reason for it, the order of registration; the
    wrapper comes first since no import begins before it is made.
  * `RemovalOK`: converters are registered only after the listener, so that each
    removal that can be heard is; and a converter is left only of a helper that is in
    `missed`. This is the order in `registerPothosModuleConverters()`, with the window
    that it leaves.
  * `ReadyOK`: as long as no helper was removed, each step of the initialisation
    leaves behind what the conversions use.
  * `PathOK`: the times that a directory is in `sys.path` and the threads that are
    about to append it are together no more than the threads. The count of the
    list alone is not inductive, since a thread that has looked appends whatever
    others have done meanwhile.
* **`ConfLoaderProofs`.** For any files, entries and threads: `EntriesAccounted`
  and the action property `LeftoversStay`. The inductive invariant adds that the entries a file
  has while it is loaded are those of `load.done` or still to come in `load.todo`:
  a load that is tried again after a failure meets its own entries and fails too,
  so a load never succeeds with entries that are on no list.
* **`BlockCallsProofs`.** For any objects: `CountsBalance`, `AliveWhileConverted`
  and `Snapshot`. The inductive invariant (`CRInv`) says what is in use at each
  point of a conversion and how the loop's copy and the elements still to come
  belong together (the copy of a set is what is left, the items of a dict stay),
  and what the C++ container still lacks (`Progress`). Counts alone are not
  inductive: an insertion that drops its handle is right only if that handle was
  not there before, and one that replaces a value is right only if that value was.
  For any names and any limit of the recursion: `TypeOK`, `LiveDuringCalls`,
  `BlocksFreed` and `DiesOnlyForsaken`. Their invariant says of each thread's
  stack which owner its calls rest on (`StacksOK`, `BlocksOK`): the script's calls
  begin with one whose frame owns the Python block, the worker's run while the
  topology has the native one. From that follows what is alive: the Python block
  if and only if it has an owner of its own (the native one has a weak reference),
  the native block if the Python one lives or it has another owner.
* **`CallErrorsProofs`.** Under `Reporting` (operations and methods that report
  errors, exceptions with a text, missing methods only at the bottom of a stack
  whose thread state goes with it) `TypeOK`, `ErrorIffNull` and `AnswersTrue` hold
  for any depth of calls. `AnswersTrue` is about what has run: `CallRefuse`, by
  which `call()` throws before that, has its own step and only `TypeOK` and
  `ErrorIffNull` speak of it; `getattr` turns an exception into a callable. The
  inductive invariant joins the first two and says that no blank error is pending:
  `TypeOK` alone is not inductive, since what an operation answers depends on the
  indicator, and the indicator follows from the kind of reply that the innermost
  frame, whose kind alternates, can be given. The runs `errors_missing` and
  `errors_blank` each drop one part of `Reporting`.

Only model-checked: liveness (`CallsReturn`, `FactoriesReturn`), which needs
fairness and `ENABLED` and is beyond the prover. That `bridge_incref`,
`int_vectors`, `errors_missing` and `errors_blank`
end in a violation is what TLC finds on the instance.

## What is not modelled

* The contents of strings, bytes, floats and complex numbers: copies without
  state. Logging, the JSON of the interpreter's description, the build.
* The Python wrappers of ports, labels and topologies: they forward calls.
* The attributes of `Proxy` objects (`Proxy_getattr` and `Proxy_setattr` look on
  the Python side first): one actor, one step each way.
* The view that `convertBufferChunkToNumpyArray()` makes of a buffer: it owns
  nothing by design, so that every use after the buffer went is wrong.
* `hashCode()`, `toString()` and the methods without a `try` block are in
  `CallErrors` but in none of its checked instances: they do not report failures,
  and nothing in the repository says that they do.

## Plan

1. The modules above, and their proofs: done.
2. Abstract specifications of what single components promise, with their
   refinements: an object that is alive while someone holds it (`HandleRefs`), an
   environment that is made once and handed out ready (`EnvLifecycle`).
3. The hazards of `PROJECT.json` without a property: those where native code is
   called with the lock held need assumptions on native code that nothing in the
   repository states; those of values (`hashCode()`, `str()`) need Python objects
   that fail when they are described.
