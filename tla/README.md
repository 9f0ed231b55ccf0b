# Lirien in TLA+

Lirien compiles decorated Python functions ahead of their first call. The
Python side (`python/lirien`) extracts source text and type layouts and calls
`verify_and_compile` in the bridge (`crates/lirien-bridge`). The bridge looks
for a cached result; otherwise `lirien-ir` lowers the AST to SSA and optimises
it, `lirien-verify` has Z3 discharge the obligations, and `lirien-backend`
turns the SSA into machine code with Cranelift.

This directory holds TLA+ models of that pipeline, TLC configurations that
check them on small instances, and TLAPS proofs. `PROJECT.json` maps every
definition to the source lines it models, lists the runs with their
properties, and for each property a plausible bug that the run detects.

    tlc -workers 2 -config MCCompileCache_session.cfg MCCompileCache
    tlapm CompileCacheProofs.tla

## The system

| Component | State it keeps | Operations | Interacts with |
|---|---|---|---|
| Bridge (`bridge/mod.rs`) | none of its own | `verify_and_compile`: L1 lookup, `.lir` load, `transform`, `verify`, save, link, register | everything below |
| L1 native-code cache (`cache.rs`) | `NATIVE_CODE_CACHE`: key to pointer, registered entries, dependencies | lookup, store, invalidate | registry |
| `.lir` directory (`cache.rs`) | files shared by all processes, `flock` locks, modification times | `load_ir`, `save_ir`, `invalidate`, `evict_lru` | other processes |
| Cache key (`compute_hash_full`) | none | hash of source, flag and five layout maps | names the `.lir` file and the L1 entry |
| Registry (`registry.rs`) | `GLOBAL_REGISTRY`: name to code and signature | register, get | verifier (signatures), backend (addresses), dependencies |
| SSA builder (`lirien-ir/builder`) | per function: blocks, definitions by variable and block, incomplete phis, sealed blocks, loop and try stacks | one visitor per statement and expression | registry (types of callees) |
| Optimizer | the function | type propagation, folding, fusion, dead code | edges kept by the builder |
| Interval analysis | ranges, block narrowings | rounds over the blocks, at most 50 | verifier asserts its result |
| Verifier | solver, path conditions, thread-local caches by function name | one encoding per instruction | registry, intervals, Z3 |
| Cranelift backend | JIT module, values, blocks with parameters | one lowering per instruction | registry (addresses) |
| Runtime lists and strings (`cranelift/mod.rs`, `types/memory.py`) | headers and blocks on the heap, made by two allocators | create, append, get, set, length, drop; concatenate, slice | Python objects and compiled code on the same header |
| Data: layouts, builder, verifier and backend | bytes of arrays, structs, enumerations; registers of tuples | load, store, slice, copy, extract | ctypes on the Python side |
| Python decorators (`decorators.py`, `ast_transformers.py`) | a cache of specializations or overloads for each function; names made of keys | match arguments, choose an overload, specialize callees first, compile, fall back | bridge; registry and verifier by name |

### What is hard about it

* **Two caches in front of a proof.** What a cached function's proof assumed of
  its callees must still be so when it is reused, although callees are
  redefined between calls, in this process or in another one, and results
  travel through files. Keys must tell requests apart and be independent of
  `HashMap` order.
* **Concurrency and failure.** Python's GIL serialises the calls of one
  process: the bridge never releases it. Processes share the directory.
  `save_ir` truncates a file when it opens it, before it has the lock; files
  are removed by path while others have them open; a process may die anywhere;
  eviction lists, then looks, then removes, without a lock.
* **Order of construction.** The builder seals blocks while it is still
  discovering predecessors, unrolls loops and prunes branches on types that
  carry values; each phi must end up with one operand for each jump.
* **Three walks over one graph.** Optimizer, analysis and verifier follow the
  recorded edges, the backend passes one argument for each phi operand.
* **Exceptions without unwinding.** An exception is a number in memory that
  every call site looks at. The visitor's stack decides where it goes, handlers
  reset it, and a function that is left with one returns a dummy.
* **A fixed point with a bound.** The analysis widens, narrows and stops after
  50 rounds; the verifier asserts what it ends with.
* **One formula for all runs.** The verifier turns a function with loops into
  one formula without them, assumes contracts where they hold and asks for
  them where they must; compiled code runs without any check. What is
  assumed, when it is asked, and what is asked of it decide whether the
  verdict means anything.

* **One object, many descriptions.** A struct has a layout for ctypes, one for
  the builder, one for the backend's registers and one for the verifier. The
  formula has an array for each *name* of an object; the object is one.
  Slices carry offset and stride in maps beside the value.
* **Names made of types.** A generic function is compiled once for each key,
  under a name that spells the key and forgets some of it. Names are how calls
  are linked and how the verifier finds what it remembers of a function.
  Specializations are made within one another, and errors pass through them.
* **Two owners of one list.** Python and compiled code append to one header,
  each with its own allocator, and compiled code runs without the
  interpreter's lock.

`PROJECT.json` lists these as hazards, each at its line, with the properties
that cover it or the reason why none does.

## The modules

    VerifiedRegistry   what a caller may rely on, without caches
      ^ implemented by
    CompileCache       L1 cache, .lir files, locks, crashes, linking
      <- CompileCacheProofs
      <- MCCompileCache
    CacheEviction      size and age of the files
      <- CacheEvictionProofs, MCCacheEviction
    CacheKey           what the key distinguishes   <- CacheKeyProofs

    PyValues           Python's operators and outcomes
      <- PyLang        the Python subset and its meaning
    SsaBlocks          a function in SSA form and how it grows
      <- SsaBuilder    (with PyLang) the visitors
    Intervals          operations on intervals; machine arithmetic
      <- IntervalPaths <- IntervalPathsProofs, MCIntervalPaths
      <- IntervalAnalysis (with SsaBlocks)
    Optimizer          (SsaBlocks, PyValues, Intervals) folding, dead code
      <- LoweredCode   the machine that runs lowered blocks; well-formed code
      <- CompiledRun   optimise, call, run block by block
           <- CompiledRunProofs
           <- CompiledCall (with SsaBuilder, IntervalAnalysis) <- MCCompiledCall
      LoweredCode <- Verifier (with SsaBuilder, IntervalAnalysis)
           <- VerifiedCall <- MCVerifiedCall

    StructLayout       where fields lie              <- StructLayoutProofs
      <- DataLayout    types, sizes, offsets
      <- MemoryBuilder <- MemoryMachine <- MemoryFormula \
    TypedMemory        what data means in Python         - MemoryCall <- MCMemoryCall

    GrowableLists      what a list promises
      ^ implemented by
    ListRuntime        headers, blocks, two allocators, threads
      <- ListRuntimeProofs, MCListRuntime

    Decorators         generic and overloaded functions, their keys and names
      <- DecoratorsProofs, MCDecorators

### CompileCache

`registry`, `l1`, `dir`, `content` are `GLOBAL_REGISTRY`, `NATIVE_CODE_CACHE`
and the cache directory (names to inodes, inodes to content, so that removal
and recreation under one path is what it is on Unix). `bound` is what Python
last got for a name. `pc`, `key`, `fd`, `bytes`, `ir` are a process's place in
the call and its local variables. Each action is the code between two points at
which another process can interfere: opening, locking, reading, deciding,
building and proving, opening with truncation, locking, writing, evicting,
linking. `LoadError`, `SaveError`, `ParseError`, `BuildError`, `CompileError`
and `LinkPanic` are the error paths, each with the invalidations that path
makes (a panic in the JIT makes none), and `Crash` ends a process at any step.

A *view* gives the contract a proof used for each callee, `NoSig` for a callee
without a signature. `linked` gives the contracts of the functions the call
sites were linked to. The main properties relate the two.

The solver is the relation `Provable` between definitions and views, and the
signature a definition gets is the function `ContractOf` of its definition,
mode and view: arbitrary in the proofs, given in `MCCompileCache`. Hashes are
injective here. A function stands for itself together with its lambdas.

### CacheEviction

The write of `save_ir` and `evict_lru`, with listing, `metadata()` of each
file, summing, and each removal as a step of its own. A handle to a removed
file is told from one to its successor of the same name (`holders`). What fails is an
action: `PartialWrite` (`write_all` fails, or the process dies in it, and leaves
some of the bytes), `SaveError`, `ListError`, `RemoveError`, and `Crash` at any
other step; the first two and the last are followed by no eviction.
(`metadata()` of a file that exists is taken to succeed.) `debt` and `alone` are
history variables. The first says that a write or an eviction has failed or died
since some process last listed the directory; the second which process has had
the directory to itself since it opened its file, without a failure. `WithinLimit`
is promised without `debt` only: `save_ir` evicts after a successful write, so
that the part of a file is above the limit until the next one.

### CacheKey

A behaviour is a session: change one thing, call again. The five maps are
hashed in the order of the code, each sorted by key, each process meeting the
keys in an order of its own. The key is the sequence of strings fed to SeaHash,
which is taken to be injective on such sequences; within one build, version
and build hash are equal and left out. `sort()` is a permutation that puts the
keys in ascending order; that there is one, and that it leads to one sequence
wherever it starts, is proved.

### PyLang, SsaBlocks, SsaBuilder, Optimizer, LoweredCode, CompiledRun, CompiledCall

`PyLang` gives statements their Python meaning as a small-step machine, with the
operators and outcomes of `PyValues`. `SsaBlocks` and `SsaBuilder` are
`CFGBuilder`: the instructions, blocks and edges in the first, which the
optimiser and the machine need too, and the visitors in the second. Each visitor
is an operator from builder to builder; `ReadVarRecursive`, `AddPhiOperands` and `Seal` are the on-the-fly SSA
construction, `Unroll` and `VisitRange` the two ways to compile a counted loop,
`IfOn` prunes. `pick` resolves the one place where `HashMap` order matters. Arithmetic has the type
of its left operand, the value of a `Literal` included, as in `build_binop`.
Asserts become contracts: leading ones preconditions, those before a `return`
postconditions, those at the head of a loop invariants.
`tries` is `try_stack`. `VisitRaise` stores the number and goes to the innermost
dispatch, or returns a dummy; `VisitCall` calls a registered function of one
integer and looks at the number afterwards (`CheckException`); `VisitTry` builds
body, else, the chain of tests and handlers (`Dispatch`), and what leads outwards.
In `PyLang` the callee is a set of arguments for which it raises, and raises what.
`Optimizer` folds constants, in the order of blocks and with the wrapping of a
release build, and removes dead code. `LoweredCode` is the backend
and the machine: phis as block parameters, comparisons as masks, `sdiv` with
its traps, asserts as nothing, the exception in `exc`, and `Outcome`, which is the
check of the Python wrapper (`ffi.py`). `WellFormed` is the form that lowering
relies on: edges as the jumps say (`TracksEdges`), one terminator, at the end
(`EndsAtLast`), one operand of each phi for each jump (`PhisMatch`), strict SSA
(`DefinedOnce`, `DefinedBefore`, with `Dominators`).
`CompiledRun` is one function after it has been built: `CompileTo` optimises it,
`BeginCall` starts a call, `Advance` runs one lowered block, `Finish` ends the
call. It runs the code as it was built beside the optimised code, for
`RunsAlike` to compare the two; `SpecRun` takes the functions and the arguments
as parameters. `CompiledCall` gives it functions made of Python programs: each of
its steps is a step of `CompiledRun` (`Compile`, `Call`, `Execute`, `GoOn`) or
leaves it alone (`Verify`: the facts from the interval analysis), and the result
of a call is compared with Python's.

### Intervals, IntervalAnalysis, IntervalPaths

`Intervals` holds the operations of `ops.rs`, `narrowing.rs` and `types.rs` on
intervals with infinite bounds. `IntervalAnalysis` is the fixed point over a
function's blocks, as the code runs it. `IntervalPaths` takes the opposite
view: one way through a function, values and intervals side by side, which
isolates whether each operation is right from what the fixed point does with
stale entries.

### Verifier, VerifiedCall

`Verifier` is `verify_with_context`. The formula has a Boolean for each block
and edge and a bit vector for each value; with one entry, each model of it
makes true the blocks of one way from the entry, and gives values to their
instructions. `Walks` enumerates those ways: `WalkBlock` translates a block,
`WalkInst` and `WalkArith` an instruction, and a walk ends at a return or with
the edge back to a header, whose phis are told of the edges that enter the loop
only. `ok` collects what has been asserted of the walk, so that a division is
checked with what has been asserted by then, and the deferred checks
(`NotPreserved`, `PostconditionFails`) with everything, invariants and
interval facts included (`Models`). `Verdict` is the sequence of checks.

`VerifiedCall` compiles and verifies a function and, if it is accepted, calls
it with every argument. `broken` records what the verifier relies on and the
call does not keep:

| in `broken` | the verifier takes it that | source |
|---|---|---|
| `precondition` | the caller met the preconditions | `verifier/mod.rs:536` |
| `integer` | sums, products and negations do not wrap | `binary.rs:35` |
| `condition` | a condition is 0 or 1 | `control_flow.rs:24` |
| `assert` | an assert within the function holds | `verifier/mod.rs:426` |
| `invariant` | an invariant holds where a header is entered | `verifier/mod.rs:596` |
| `trip` | the first trip of a loop stands for all | `control_flow.rs:115` |
| `interval` | values lie in their ranges and narrowed intervals | `verifier/intervals.rs:16` |

`NoDivisionByZero`, `PostconditionsHold` and `InvariantKept` say that this list
is complete: as long as a call keeps to it, the verdict is right. `AlarmIsReal`
is the other direction: a loop-free function is refused only if some call that
meets its preconditions traps or breaks a postcondition. `DivisionsSafe` keeps
of the list what a user is told to see to.

### StructLayout, DataLayout, MemoryBuilder, MemoryMachine, MemoryFormula, TypedMemory, MemoryCall

The second language of the project: straight-line functions on arrays, slices,
buffers, tensors, structs, typed dicts, tuples, named tuples, pointers,
enumerations, strings and lists.

* `StructLayout`: the offsets and the size that sizes and alignments of fields
  lead to.
* `DataLayout`: types, `Size`, `Align`, `OffsetOf`, the registers of a
  flattened value and the verifier's leaves, each as its own part of the code
  computes it.
* `MemoryBuilder`: the visitors of `access.rs`, `assignments.rs`,
  `literals.rs` and of constructors in `calls.rs`, from builder to builder,
  refusals included, then dead code elimination. (`auto_load` does nothing and
  is left out.)
* `MemoryMachine`: what each instruction is lowered to, run on blocks whose
  bytes remember which value they are a part of, so that a load which does not
  fit a store finds `Junk`. The maps of `CodegenContext` (`array_strides`,
  `buffer_lengths`, `tensor_dims`, `unpacked_values`) are fields of the machine.
* `MemoryFormula`: `init_values`, `translate` and the checks of
  `verifier/memory.rs` and `tuples.rs`. An array is what was stored over a
  constant (`root`); a *world* gives values to the constants that were asked
  for. `Verdict` checks each access in every world, as the solver does.
* `TypedMemory`: what the source means, on trees, without addresses.
* `MemoryCall`: builds, verifies, calls, and runs machine, formula and meaning
  side by side. `Follow` keeps the worlds that agree with what the run has
  seen.

`doubts` is a history variable: what the run did that the verifier takes no
account of. The names are in `MemoryMachine`:

| doubt | what happened | source |
|---|---|---|
| `stale` | a read through one name after a store through another | `verifier/memory.rs:280` |
| `width` | a value stored in a place of another width (`b[i] = 5` of an i32), stored in a list or appended to it | `lower/storage.rs:60`, `lower/memory.rs:188`, `348` |
| `unsized` | an element of an array whose type has no length | `verifier/memory.rs:238` |
| `end` | a slice that goes on behind what it is cut from | `access.rs:304` |
| `restride` | a slice of a slice with a step | `lower/memory.rs:694` |
| `rebased` | a slice with a step after a store through it | `lower/memory.rs:673` |
| `unchecked` | `p.val = x` of a pointer that may be null | `assignments.rs:324` |
| `offset` | a struct in a struct, an element of a tuple, a payload: the formula is that of the whole | `verifier/memory.rs:764` |
| `aggregate` | a struct stored in a field | `verifier/memory.rs:772` |
| `untagged` | the payload of a variant that is not there | `lower/memory.rs:916` |
| `payload` | a payload that is read where another would be written | `lower/memory.rs:842` |
| `text` | bounds of a string's slice beyond it | `cranelift/mod.rs:409` |

`InBounds` and `FormulaFollows` say that this list is complete, and each entry
is needed: without it one of the properties fails in this run.
`SameAsReference` needs four of them only (`Misread`): after the others the
machine does what the source means.

### GrowableLists, ListRuntime

`GrowableLists` is a set of sequences. `ListRuntime` has the header `{data, len,
cap}` and the block of each list, who allocated them, the Python objects that
refer to a header (`owns`, `buffers`), the calls in progress on each thread and
the addresses of elements that were handed out. `PyAppend`, `PyGet`, ... are the
methods of class `List`; `BeginAppend` and `EndAppend` are
`lirien_list_append`, in two steps because no lock is held; `NativeGet`, ... the
other entry points; `Enter` and `Return` hand a list over. Steps that C or Rust
give no meaning (`UseFreed`, `Race`, `ForeignRealloc`, `StaleView`, `Panic`) are
actions that set `broken` and end the behaviour; the abstract specification
calls that `chaos`. `polite` is a history variable: every step so far kept to
the rules in its `Rules(...)`. `PoliteIsSafe` says that the rules are enough.

### Decorators

A program is a call graph of generic functions, overloaded functions with their
overloads, which of them are strict, and the values they are called with. An
overload is the type of its parameter, the predicate (`pred`), the predicate it
*shows* (`text`) and what it returns. The key of an overloaded function holds the
text that `_clean_lambda_source` finds, which is the first lambda on the line
of the source, or `None`; so the two can differ. A predicate with a name that is not
defined admits everything (`decorators.py:552`).
`cache` is the dictionary of each decorated function, `registry` the names in
`GLOBAL_REGISTRY`, `memo` what `is_reachable` and `get_cached_instruction` keep
for the last function name (two thread-local caches, cleared by the same test
and taken as one), `open` the calls of `_specialize` that are on the stack, each
with the calls in its body that are still to be visited.
`CallGeneric` and `CallOverloaded` are `__call__`, `Visit` is one call node of
`EllipsisExpander`, `Compile`, `CompileError` and `Panic` the outcomes of
`verify_and_compile`, of which only the outcome is modelled here. `Redefine` is
a `def` or `class` statement that is run again: the function has a new, empty
cache, registry and memo keep the old name. `meaning` is which definition a name
stands for, `unwound` a history variable.

Compiled code is a record of what the compilation looked at: the definition and
the types it is `of`, what the verifier had `checked`, the `layouts` of the
classes, and what its calls are linked to (`links`).

A name is the flat sequence of *parts* that underscores divide, as it is after
everything but letters and digits has become an underscore and these have been
merged and stripped (`decorators.py:333`, `:602`): those of the function's own name,
then those of each word (`PartsOf`, `Words`, `NameOf`). Two specializations share a
name in one of two ways, and `Namesakes` is these two:

* word by word (`SameWords`): words differ in underscores (classes `S` and `_S`), in the
  sign of a number (`x > 1` and `x > -1`), in the dimensions of a shape (all but how
  many), in which class had the name, in the operator of a predicate, or in the
  definition of the function, or a class is called as something else is written
  (`Alike`);
* the same parts are divided otherwise into a function and words, as in `add_f64` for
  one f64 and `add` for two.

`LinkedToItsOwn` and `VerifiedAsItself` fail if names forget anything else, or if a
key is used where a name belongs. In `RunsWhatIsAskedFor`, overloads of one type
and return type that show the same predicate are one function, since they have
one key; what it runs is then verified and compiled as the first of them that was called.
Left out is that overloads are matched without regard to the case of type names
(`decorators.py:527`); one name that is not defined (`LIMIT`) stands for all.

## The runs

| Run | Question | Instance |
|---|---|---|
| `cache_session` | Do redefinitions, failed builds, hits in both caches and restarts leave code linked to a contract its proof did not use? Is a file what it says of itself? Is the registry that of a system without caches? | one process, callee g with two definitions of different contracts, caller f with two definitions |
| `cache_locks` | Does a proof request ever get unproved code? Is a file what it says of itself under truncation before locking, removal by path, failures and deaths? Does every call return? | two processes, one function no proof accepts, with and without `verify` |
| `cache_unproved` (violation) | Did a proof see the contract of every callee? | one process, caller built before its callee |
| `eviction` | Is the directory within its limit when all are done; is only what is too much evicted? | two processes, three names, sizes 1 and 2, limit 2; every call may fail or be cut short |
| `key_edits` | Do equal requests share a key, and different ones not? | two sources, three strings, two classes or aliases of at most one field |
| `ssa_programs` | Does compiled code return what Python returns, is the SSA well formed on the way, as it is built and as it is optimised, and do both do the same? | 4749 functions, 378 of them with `raise`, `try` or calls; arguments 0..2 |
| `verified_calls` | Is the verdict of the verifier right of every call that keeps to what it relies on? Is what it refuses wrong? | 5328 functions: a precondition or none, straight, with an if, or with a while and an invariant or none; two arguments of -3..2 |
| `verify_divisions` (violation) | Does no accepted function divide by zero? | a loop that counts the divisor down |
| `interval_paths` | Does each operation keep values in their intervals? | two values of integers -3..2 |
| `lists` | Is every list the sequence of what was put into it, whoever grows it? Are the rules of use enough? | two lists, two blocks, two objects, two threads, at most two elements |
| `memory_calls` | Does an accepted function stay within its objects? Has the formula a world for every run? Does the call do what the source means? | 90 functions, each with all arguments and aliases that tell them apart |
| `decorators` | Does a call run what it was made for? Is code linked to and verified as what its name stands for? Does specialization end? | 79 programs: two generic functions that call each other or themselves, a chain of three, two type variables, functions and classes whose names run together, overloads, some with one name or one key; strict or not; values whose keys or names meet; a function or a class defined twice |

### Bounds, and why they are enough

* Two processes: the code treats them alike, and what one can do to another
  goes through a file. Two processes already read, truncate, remove and
  recreate one path in every order. Three inodes let a file be removed and
  recreated while two handles to earlier ones are open.
* Two contracts and a second definition of the callee with the other one are
  the least that makes a recorded dependency stale. The second definition of g
  is recursive, since a function's own name is a dependency that its link
  does not use.
* Files of sizes 1 and 2 with limit 2 and three names: one file fits with
  another, or not, or two must go, and the first byte of the larger file is a
  part of it. `MaxClock` bounds the time stamps; 1 gives
  older, newer and equal files.
* `MaxLayouts` and `MaxFields` in `CacheKey`: two neighbouring map entries and
  one field each, enough to shift strings from an entry to the next.
* The functions of `MCCompiledCall` have three variables and at most two
  nested control statements with an if inside, which gives each visitor every
  other one as its context (a loop left from an if, an inner loop left, an
  outer loop continued). `Fuel` bounds the Python steps of a call that is
  compared and `BlocksPerStep` the blocks the compiled code may run for each:
  code that runs on where Python stops exhausts it and differs.
  Functions with exceptions have a `try` whose body raises, calls or returns,
  one or two handlers for one class, several or all of them that return, raise or
  call, with and without an else (that calls), inside of a second `try` or not, and
  in or around a loop that they leave: each place an exception can come from
  meets each place it can go to.
* The functions of `MCVerifiedCall` have two parameters, one if or one while,
  and a division, an assert or an assignment in each place, so that every
  contract meets every way. `MaxInt` = 2 lets every argument and every model of
  the formula be enumerated, with sums that wrap within a few steps.
  `MaxBlocks` lets a loop go round four times.
* `MaxInt` = 100 in the functions of `MCCompiledCall` is out of reach of their values, so no
  operation wraps (in `verified_calls` they do, and `OptimisedRunsAlike` is about any
  width); in `interval_paths` it is 2 (integers -3..2), the least
  width at which the special case for `x - 1` of an `x >= 2` differs from the
  general one, and every bound meets every overflow.

* `lists`: the first capacity is 1 instead of 4, so that two elements need two
  growths, one from nothing and one that moves. Two blocks are what a list has
  while it moves, and what two lists have. One value is enough to see a cell
  that was not copied, since empty cells differ from it.
* `decorators`: two functions and two values are the least for which one
  specialization is found where another is asked for, three functions give a
  callee that is reached on two ways. `MaxVersion` = 2: a name has an old and a
  new meaning. Keys are finite, so caches and `open` are, without a bound.
* `memory_calls`: arrays and strings of up to three elements, a tensor of two by
  three, constants of the formula in -1..3: below, at and above each bound.
  Each function has one to four statements, which is what it takes to read
  after a store through another name or to cut a slice again. Element 0 of a
  tensor is the only one that straight-line code can prove to exist, since its
  dimensions are known to be positive and no more.

Deadlock is checked in every run but `interval_paths`, where a way ends at the
first operation that wraps; `verified_calls`, where a refused function is
never called; `memory_calls`, where a function that is refused is never called
and a call ends; and `lists`, where a step without a meaning is the last one.
Symmetry is used only for sets of processes, files, inodes, registers, list
headers, blocks, objects and threads, and not with liveness. (`ImplementsLists`
is a safety property, and its step condition does not tell the names apart.)

### Fairness

`CallReturns` assumes `WF(Working(p))` and `SF(Locking(p))` for each process. A
process that is in a call is a running thread and takes its next step; `flock`
queues its waiters, so that a lock which is free again and again is granted.
Nothing is assumed that makes Python call, an operation fail, or a process die,
and a failing operation is not needed for a call to return. The other runs
check safety and use no fairness.

### What the passing runs leave out on purpose

Some inputs are excluded because the code is known to treat them otherwise.
They are listed as hazards without a property, or here:

* a range known to be empty: unrolled to no iteration, its exit is never
  linked (`statements.rs:755`), so the function is refused as reading an
  unbound variable. `NoFalseUnbound` is violated by such functions;
* `and`/`or` in the condition of a `while`: the branch is emitted where the
  condition ends, its edges are recorded from the header (`statements.rs:400`).
  `EdgesTracked` is violated;
* statements after `break`, `continue` or `return` in one list: they are
  visited as well and follow the terminator. `LeavesAtLast` is violated;
* a loop variable read behind its loop, or assigned in the body: a counted
  loop that is not unrolled counts in the user's own variable;
* a `Literal` parameter that is negated, or is the left operand of arithmetic: the
  result has its type, value included (`binary.rs:98`, `expressions/mod.rs:46`, `442`),
  and branches are pruned and loops unrolled on it. It is the right operand
  (`1 - x`, `range(0, 3 - x)`) in the functions of the run. `LiteralHolds` and
  `SameResult` are violated by the others;
* `raise` without a class in a handler: the handler has already stored 0
  (`statements.rs:2176`), so the function returns a dummy as if it were its
  result; a `try` whose body neither raises nor calls, and one that no way
  reaches the end of: dispatch or merge block have no predecessors, and a
  variable read there counts as unbound; a class the code does not know in an
  `except`, for which the builder panics (`statements.rs:2159`);
* `not` of an integer (a bitwise complement), and `and`/`or` of a comparison
  and an integer (the backend takes values of one type).

* in `verified_calls`: functions with two loops or a loop in a loop, whose
  formulas have more models than walks; a division in a block that is
  translated before a block on a way to it; swaps in loops with invariants
  (`verifier/mod.rs:615` replaces one phi after the other in the text); integers
  as conditions, which the verifier does not read as predicates
  (`(= v true)` of `statements.rs:406`); leading asserts of loops that are
  unrolled, which are dropped (`statements.rs:725`);
* a class that becomes another kind of class with the same fields: nothing in
  the hash tells the five maps apart (`cache.rs:279`), and the key stays.
  `EditChangesKey` is violated once such edits are allowed.

Eviction by several processes at once removes more than is too much, and a
reader that finds a file corrupt may remove the good one written since: both
cost a rebuild. The part of a file that a failed write leaves may exceed the limit until
the next save. `NoNeedlessEviction` and `NewestKept` are stated of a process
that is alone with the directory.

## What disagrees with its documentation

* `cache_unproved`: dependencies are recorded for callees that are registered
  when the file is saved, before linking. A caller whose callee is not there
  yet is saved as verified with no dependency; its linking panics, the file
  stays, and a later call loads and links it without a proof, whatever the
  callee requires. `ProvedAgainstLinked` fails; `LinkedAsAssumed`, which
  excepts such callees, holds and is proved.
* Not a run, but a configuration beside the runs (`MCCompiledCall_literal.cfg`,
  which TLC ends with `LiteralHolds` violated): a unary operator gives its result the type of its operand,
  arithmetic that of its left operand (`x - 1` of an `x: Literal[1]` has the type
  `Literal[1]`), and a phi that of its first operand, or in an unsealed block of the
  definition the `HashMap` yields first, the value of a `Literal` type included;
  branches are pruned and loops unrolled on it.
* Likewise (`MCCompiledCall_ranges.cfg`, `RangesHold`): an inherited narrowing is entered once and never updated, so
  the counter of `for i in range(0, y)` ends with the range [0, 1], which the
  verifier asserts.
* `_get_specialized_name` calls its names "stable, unique" (`decorators.py:296`).
  They are shared by the functions that `Namesakes` lists (shapes of one rank,
  numbers and predicates of either sign, classes `S` and `_S`, `add_f64` for an f64 and
  `add` for two), which are registered
  in each other's place, linked in each other's place, and verified with what
  is remembered of each other. `:param strict` (`decorators.py:690`) promises to
  fall back to Python: not when a callee's panic passes, or the error of a
  strict callee, which leave `None` in the callee's cache to be called next
  (`unwound` in `RunsWhatIsAskedFor`).
* Likewise (`MCDecorators_bases.cfg`, `MatchedByBaseType`): a test says that "Currently
  Lirien matches overloads based on base type names" (`test_overloading.py:184`).
  `_match_overload` also evaluates predicates (`decorators.py:547`): `check(-10)` of that
  very program is answered by the second overload. The two have different keys only if
  their lambdas stand on different lines, as they do there; the function of two overloads
  on one line, or of one that has two refined parameters on a line, is keyed, named
  and verified (`ast_transformers.py:251`) with the first predicate of the line.
* `verify_divisions`: a loop's phis are told only of the edges that enter it, so
  that code behind a loop that is always entered seems unreachable.
  `assert y > 0; while y > 0: y = y - 1; return x // y` is accepted and divides
  by zero. For the same reason, and because an assert within a function and an
  invariant on entry are assumed before their own deferred check, these checks
  cannot fail (`trip`, `assert` and `invariant` above).

## The proofs

`CompileCacheProofs` is about any number of processes, inodes, names,
definitions and contracts, any call graph and any `Provable` and `ContractOf`
of the right type (`CacheAssumption`; the special values are not ordinary
ones).

* `TypeCorrect`: `Spec => []TypeOK`, one case per action.
* `InductiveInvariant`: `Spec => []IInv`. `LinkedAsAssumed` speaks of finished
  code only and is not inductive: a step that loads or links has to know what
  the IR, the bytes and the file it came from say. `IInv` follows a contract
  through all of them: what a file or a buffer records is what the proof used
  (`FilesRecorded`, `BytesRecorded`); an IR about to be compiled was proved
  under the signatures registered now (`BuiltUnderCurrent`), one about to be
  saved exactly so (`UnsavedIsExact`); code in the L1 cache and in the registry
  is consistent (`L1Consistent`, `RegistryConsistent`). Actions that only lose
  information share one lemma (`LosingStep`); `CallHit`, `Read`, `LoadHit`,
  `Build`, `Write` and `Compile` have their own.
* `ContractsFollowCode`: `Spec => []LinkedAsAssumed`.
* `ImplementsVerifiedRegistry`: `Spec => RefinesVerifiedRegistry`. `CallHit` and
  `Compile` bind, `Crash` exits, every other step stutters.

It goes on with names and files.

* `NamesMeanOneThing` (`Spec => []OneMeaning`): registry and pointers change
  together or not at all.
* `EntersLinkedToCurrent` (`Spec => BoundToCurrent`): only `CallHit` and
  `Compile` register; the first has just compared dependencies, the second has
  looked the addresses up, and `IInv` says that the entries they use are those
  the code was made with.
* `KeysAreServed`: `Spec => []FInv`, where `FInv` is `IInv /\ Serves`.
  `DiskFaithful` speaks of a file by its key, but `Write` goes through a file
  descriptor: it has to be known under which path the descriptor was opened and
  what that path is now. `OnePath` says that an inode, by its names in the
  directory and by the open descriptors of all processes, is of one key, which
  removal by path and creation of a new file under the same path keep.
  `FilesServe`, `BytesServe`, `IRsServe` and `L1Serves` then follow the key from
  inode to bytes to IR to native code.
* `ProofOnRequest` (`[]VerifiedIsProved`) and `FilesAreFaithful`
  (`[]DiskFaithful`) follow: a key contains source and mode, and `IInv` says what
  was proved.

`CacheEvictionProofs` is about any number of processes and files, sizes and any
limit (`EvictionAssumption`). `TotalSize` counts bytes, one element for each, so
that sums of sizes are cardinalities of sets and need no recursion:
`MoreIsLarger` and `DroppedIsSmaller` are all the arithmetic there is.

* `EvictionKeepsLimit`: `Spec => []WithinLimit`. The invariant (`SomeoneIs`) is
  that the directory is within the limit, or some process is *responsible*: it
  has written and not yet listed; or all bytes in the directory are in files it
  has still to look at or has seen no smaller (`Covers`), and what it has seen
  exceeds the limit by at most what it is going to remove. A failure of a write, a listing
  or a removal sets `debt`, which promises nothing until a process lists and is then
  responsible for all there is (`FaultTypes` keeps the types). A write makes the
  writer responsible, whoever was before. A removal by anybody keeps a process
  responsible, since it only removes bytes; so does the removal of a file that
  has come back under its name. A process that ends its eviction hands over to
  nobody, because then the directory is within the limit.
* `EvictsOnlyOverLimit` and `EvictsOldestFirst` (`NoNeedlessEviction`,
  `NewestKept`): a process that is alone knows names, sizes and times of all
  files, and what it has still to remove is what is too much (`AloneInv`). The
  file that is next in its order is then the oldest there is.

`CacheKeyProofs` is about any sources, names and bounds (`KeyAssumption`).

* `EqualRequestsMeet`: `Spec => SameRequestSameKey`. `Sorted` chooses a
  permutation; `SortingExists` shows that there is one to choose, which puts
  each key where its rank says (the number of keys up to it), and
  `AscendingByRank` that in ascending order the key at a place has that rank. So
  two orders of iteration lead to one sequence (`SortForgetsOrder`). The
  invariant is that the key is the hash of the request for some order.
* `EditsMissTheCaches`: `Spec => EditChangesKey`. The strings are hashed without
  separators between entries, so an edit could be compensated elsewhere. It is
  not, because an entry's place among the sorted keys does not depend on what
  it holds (`SortedInsert`), and its strings come between the same strings
  whatever they are (`EntryComesBetween`, from `InsertedBetween` about
  `FlattenSeq`). So a new or missing entry changes the number of strings, a
  redefined one leaves different strings between equal ones, and a renamed one
  changes how often its old name occurs (`NewEntryShows`, `FieldsShow`,
  `NameShows`). What happens in one map is not made up for by the others, which
  are the same before and after (`OneMapShows`). `FlattenSeq` is a recursive
  function: facts about it come from `CountingUp`, induction on the members of
  a set, which the least element of a set of naturals gives.

`StructLayoutProofs` is about any number of fields, of any sizes and any of the
alignments `Type::align` gives.

* `LayoutIsSound`: each field is aligned wherever the struct is as its strictest
  field demands, no field reaches into the next, all lie within the size of the
  struct, and that size keeps an array of them aligned. `Offsets` is a recursive
  function; that there is one (`OffsetsExist`) and that the fields behind a
  field stay behind it is induction with `CountingUp`, again. `DataLayout` takes
  its offsets and extents from here. `MCMemoryCall` runs them with real types; that
  builder, verifier and machine, which nest such types, agree on them remains
  model-checked.

`IntervalPathsProofs` is about integers of any width (`MaxIntAssumption`), any
refinements (`RefinementsAssumption`) and any number of values.

* Each operation has a lemma that its interval contains its results: `AddRight`,
  `SubRight`, `NegateRight`, `MulRight` (from `Monotonic`, `ProductBetween` and
  `Extremes`: a product is extreme at corners), `SquareRight`, `AbsoluteRight`,
  `JoinRight`, `MeetRight`, `WidenRight`, `ClampRight`, and `WhenTrueRight` and
  `WhenFalseRight` for the narrowings.
* `TypeCorrect` and `IntervalsRight` (`Spec => []InRange`) follow from
  `TypeOK /\ InRange`, which is inductive: each step uses the lemma of its
  operation. `TypeOK` is proved and not repeated in the run.

`ListRuntimeProofs` is about any number of headers, blocks, objects, threads and
values, any first capacity and any bound on lengths (`ListConstants`).

* `TypeCorrect`, `CapacityCorrect` and `ViewsCorrect`: `TypeOK`,
  `CapacityIsSize` and `ViewsInBounds`, from the inductive `Shape`, which adds
  what they need of each other: a thread in the middle of an append has room
  for its item, the buffers an object keeps are its own, the address of an
  element is that of an element as long as it is current, and what is named
  exists. The many actions are first reduced to a few effects on memory
  (`Effects`, `Origins`), so that each conjunct is proved once per effect.
* `PoliteCorrect`: `Spec => []PoliteIsSafe`. `PoliteInv` adds to `Shape` what
  order the rules keep: no polite list is dangling, shared between calls, or
  viewed across a growth. `OrderIsSound` shows that it excludes each step
  without a meaning.

* `ListsAreSequences`: `Spec => ImplementsLists`, that is, lists are the
  sequences of `GrowableLists`. A list's sequence is read off its block up to
  its length. From `Shape` each step is one of four: it leaves all sequences
  alone (`UntouchedKeeps`), relocates a block with what is in it
  (`RelocatesKeeps`), changes one list as the operation says (`TouchesOne` with
  `AddIs`, `SetIs`, `NewIs`), or has no meaning, which is the abstract `chaos`.
  Growing and moving a block in the middle of an append is a stutter.

`CompiledRunProofs` is about the optimiser and the machine: any functions in the
form of `WellFormed`, whatever their number of blocks, instructions, values and
loops, any arguments, any bound on the blocks of a call and integers of any width
(`MaxIntAssumption`).

* `OptimisedRunsAlike`: `SpecRun(functions, calls, left) => []RunsAlike`. Neither
  the code as it was built nor the optimised code gets stuck; block by block they
  take the same way with the same exception and the same result, until the
  code that was built traps, which an eliminated division does not.
* `OptimisedEdgesTracked`, `OptimisedLeavesAtLast`, `OptimisedPhiPerEdge`,
  `OptimisedStrictSsa`: optimised functions have the form of those that were
  built, as the later passes demand.

The hypothesis is `Sound(functions)`: what was built without an error is
`WellFormed`. These are the four invariants on the form, taken together; TLC
checks them of every function that the programs of `ssa_programs` build (`Form`
asks for `built` as well as for `fn`), so that the runs discharge for their programs
what the theorems assume. The proof goes as follows.

* `ClosureIsLeast`: `Closure`, a recursive function, is the least set that no
  step leaves, by well-founded induction on what has not been seen.
  From that, `DominatorsAlongEdges` (what dominates the target of a jump, the
  target excepted, dominates its source), `ReachedAlongEdges` and `OperandsLive`
  (operands of what is kept are live).
* `FoldsInOrder` unfolds `FoldLeft` into one state per instruction, for the four
  operators that lists are folded with. `RetainIs` counts: of each instruction
  that is kept it says which place it has in what is left.
* `NeverStuck`: between blocks a machine has the values of the blocks that
  dominate the next one and those the phis there ask for (`Between`); within a block,
  besides, those of the instructions so far (`Inside`). Strict SSA, by
  `DominatorsAlongEdges`, keeps it so: no lookup fails, and a block has a way out.
* `ConstantsJustified`: `fold_constants` reads constants in the order of blocks,
  whatever the control flow, and one map serves for all. Since each value is
  defined once (`OneDefinition`), a constant is what the one instruction that
  defines it computes from other constants, wrapping included. So where a
  machine has a value, it has the constant (`Agree`), and a folded block does
  exactly what the original one does (`FoldBlock`).
* `EliminateBlock`: the machine without dead code has fewer values and those it has
  are the same (`Follows`); none of them is dead (`Clean`). A step that is
  kept finds its operands, because they are live; one that is not changes
  only what nobody reads. Phis are eliminated on the way into a block
  (`IntoFollows`).
* `FoldWellFormed` and `EliminateWellFormed` keep the form, so that all of
  it applies to the optimised function too.
* `Alongside`, the inductive invariant, puts these side by side: the function
  that was built is well-formed, the other is `Optimize` of it, both machines are
  `Between` blocks of their functions, and `Beside` relates them.

`CompiledCall` itself builds its functions with recursive visitors and is out of
the prover's reach, but each of its actions is one of `CompiledRun` or leaves
its variables alone, so that what is shown of `SpecRun` applies to it.

`DecoratorsProofs` is about any functions, call graphs, overloads, values and
classes (`ProgramAssumption`: calls go to generic functions, values are values, every type
variable has a place in the order of names, an overload without a predicate shows
none), whatever the parts of names are (`PartsOf`).

* `InductiveInvariant`: `Spec => []IInv`. `Shape` types the stack and the caches.
  `NamesTrue` says that what the registry or the memo has under a name has that
  name; `NamesTell`, that functions of one name are namesakes: if their parts are
  divided alike, each word tells what it spells up to `Alike` (`WordsTell`, with `SpelledTyped`
  for what there is to spell);
  so that what is linked or used in a proof is what was asked for, up to
  namesakes, in all that is in a cache (`CacheRight`). `InnerMarked` says that
  every specialization but the outermost has its place in the cache, which is
  what ends a recursion.
* `SpecializationEnds`, `CallsGoByName` and `ProofsGoByName` are the three
  properties of the run that follow.
* `CallsRunTheirOwn`: `Spec => []RunsWhatIsAskedFor`, from `CallInv`. The answer
  to a call is what the cache holds when the call is over, possibly after many
  nested specializations. `CacheFits` says that each place of each cache holds
  code of the present definition for that very key, or `Python` in a function
  that may fall back, or `Hole` only while a specialization of it is open or
  after an error has unwound one. For an overload that key is what it shows, hence
  `ShownAlike`. `AskedFor` ties the outermost open
  specialization to the arguments of the call.

Only model-checked:

* what `SsaBuilder` makes of a program: that it is well-formed (the hypothesis
  `Sound`), returns what Python returns (`SameResult`), refuses no bound
  variable (`NoFalseUnbound`) and seals no block early (`SealedMeansKnown`).
  The visitors are recursive in the program, and the prover does not read a
  module with recursive operators, nor prove what a recursive definition
  computes by induction on its data;
* `AnalysisSettles`: that 50 rounds are enough is so of these programs, not of all;
* `NoDivisionByZero`, `PostconditionsHold`, `InvariantKept`, `AlarmIsReal` of
  `Verifier` and `InBounds`, `FormulaFollows`, `SameAsReference` of the modules of
  `memory_calls`: they quantify over walks and worlds that recursive operators
  enumerate;
* `CallReturns`: liveness under fairness is out of the prover's reach.

## Not modelled

* **Float rounding, unsigned types, several widths**: the SSA models have one
  width (`MaxInt`), which the values of `ssa_programs` do not reach, Python's
  integers being unbounded; interval bounds are integers and not `f64`. Constants
  above 2^53 are out of the models. Folding overflows as in a release build; a
  debug build panics.
* **Type propagation and tensor fusion**: straight-line code has its types from
  the builder (strings that are added excepted), and there are no tensor
  operations.
* **Functions as values, calls of other signatures than one integer, SIMD, tensor operations and
  methods, intrinsics** in builder and backend.
* Of data: branches between accesses (values on memory are straight-line code),
  floats, optionals, enumerations and sized arrays inside of structs, structs
  inside of tuples, buffers in tuples, returns of structs through a hidden
  argument, a composite stored through a pointer (of which the verifier asserts
  that it was there all along), comparison of strings; typed dicts that are
  copied in and back, boxes of numbers that are copied in.
* **Of exceptions**: the name of `except ... as`, `raise` without a class, calls
  inside of expressions, and what the verifier makes of the exception (a store to
  it is recorded whatever the path, `verifier/memory.rs:946`). `finally` is
  refused by the builder.
* **The verifier's encoding of calls, floats and `match`**. Its caches by
  function name are taken to be fresh in `Verifier`; whose they are is what
  `Decorators` is about. Z3 decides every
  question; a timeout is an error like any other. That an index is not checked
  for being negative if its interval is not (`verifier/memory.rs:1104`) changes
  no verdict as long as the interval is right, which `InRange` is about.
* **Refinement parser** (the text; what a predicate means is in `Verifier`),
  **AST transformers** but for the calls they specialize: pure conversions.
* Of the decorators: functions as arguments, ellipses and symbolic expressions
  in annotations, methods, functions without type variables (compiled when they
  are decorated), several threads.
* **Tensor fusion, metadata, capture analysis, diagnostics**: see the plan.
* **Liveness analysis**: its result is not read.

## Plan

Done: the cache pipeline with its proofs, eviction, key, control flow and
exceptions from Python to lowered code, interval operations with their proofs, the
verifier's formula for integer functions, lists at run time with their proofs,
data from layout to machine and formula, and the decorators with their proofs;
proofs of what files hold, of eviction, of keys, of layouts, and of the optimiser.

Next, in this order:

1. Lambdas: registered one by one before their function (`bridge/mod.rs:149`).
2. Integers of several widths in `CompiledCall`; calls with their
   preconditions in `Verifier`; branches in `MemoryBuilder`; the
   exception in the verifier's memory.
3. Tensor operations and fusion; the diagnostics stacks.
