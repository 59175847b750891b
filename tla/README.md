# wasigoc in TLA+

wasigoc compiles Go++ (a restricted Go) to C++ for `wasm32-wasip1`, or for a native
host. What can go wrong silently is mostly in the runtime that every generated program
includes, `src/src/runtime.hpp`: a cooperative scheduler over C++ coroutines, channels
and select, host calls that complete later, a mark-sweep heap, and
`defer`/`panic`/`recover`. On top of it stands a Go library of its own, `src/stdlib`,
written for this compiler and not taken from Go's. This directory holds TLA+ models of
the runtime, of the module loader and of the library's algorithms, TLC configurations
for small instances, and theorems checked by TLAPS. Paths below start at the
repository's copy in `src/`.

1. [Inventory](#inventory)
2. [Modules and code](#modules-and-code)
3. [Runs](#runs)
4. [Findings](#findings)
5. [Fairness](#fairness)
6. [Proofs](#proofs)
7. [Known divergences without a run](#known-divergences-without-a-run)
8. [Not modelled](#not-modelled)
9. [Plan](#plan)

## Inventory

Execution model, which all runtime modules share: generated code runs on **one OS
thread** (`docs/language.md`: one thread, no data races). A goroutine is atomic between
two suspension points; it suspends at a channel operation that has to wait, a select, a
`co_await` of an asynchronous function, and a host call. The interleavings are therefore
those of the runqueue, of the host that answers from another thread or process, of
`poll()`, and of closures that a synchronous function pumps with a nested scheduler
loop. `Heap` alone is meant for several threads and has a mutex.

| component | state | operations | talks to | what is hard | what makes it correct |
|---|---|---|---|---|---|
| Scheduler (`Scheduler`, `go`, `run`) | runqueue `ready`, counter `parked` | enqueue, dispatch, exit or deadlock verdict | resumes frames; channels and completions enqueue | a second entry in the queue resumes a finished coroutine; the verdict comes from a counter | each goroutine in one place; the count is right; the verdict is |
| Chan, GSelect | buffer, `closed`, two deques of waiters; shared `cancelled`/`winner` cells of a select | send, receive, close, select, default | writes into the awaiter of the other side, enqueues it | stale waiters of selects that took another case; refill order; close with every kind of waiter | FIFO, nothing lost or duplicated, nobody waits where a communication is possible |
| Task, TaskT | coroutine frames, `detached`, `continuation` | create, detach, await, transfer, destroy | the run loop owns what it dequeued; `~Task` looks at the frame again | symmetric transfer bypasses the loop; temporaries outlive the frame | one resumer, no access after destroy, right VThread |
| gocvm::CallAsync, RunUntil | `pending_async_calls`, `async_results`, `current_vthread()` | submit, drain, block, resume, nested loop | `AsyncHostBridge` | answers in any order, several at once, unknown ones; loops inside loops | each answer reaches its caller; a deadlock report means the innermost loop has nothing left to do |
| WasigocvmNetBridge | `socks_`, `pending_`, `completions_`, `host_wait_ids_` | ten topics, `pump`, `PollOne`, `WaitOne` | sockets, a control connection | descriptor reuse, failures and closes with requests parked, timeouts | a request is in one place and is answered |
| defer, panic, recover; `gocvm::Call` | chains of `PanicFrame`s, `DeferList`s, `ErrorState` | emitted code of a function with defers | scheduler, bridge | frames stay linked across suspensions; closures as goroutines of their own | chains and recovers stay within a goroutine |
| Oilpan-lite heap | `objects_`, `roots_`, colours | Make, Persistent, Member, Collect | - | roots kept up to date by hand; cycles; unrooted objects | no dangling pointer; exactly the garbage goes |
| Module loader, driver | merged set, loading stack, graph; header files | depth-first load, header loop, output | file system | diamonds, cycles, name collisions, failures half way | dependency order, no repetition, headers complete |
| Code generator | types, flags, output text | AST to C++ | parser, loader | which functions become coroutines (a fixpoint over names) | - |
| Lexer, parser | position | text to tokens to tree | - | semicolon insertion | - |
| slices, strings, maps; interfaces, `Any` | values | Go's value semantics in C++ | - | aliasing on append, WriteGuard | - |
| database/sql | open driver connections, statements, rows, transactions | Query, Exec, Prepare, Begin, Next, Scan, Close, in any order | a driver that may fail at each call | what a failing path has opened already | what is taken from the driver is given back once |
| archive/tar, archive/zip | the entry that is being written or read, offsets, padding | NewWriter, Create, Write, Close; Next, Read | a file, possibly cut short | padding, partial reads, offsets known late | what was written is read back |
| container/*, sort | links, lengths, heap order | list, ring and heap operations, sorts | the caller's Less and Swap | two lists that share no element, changes of inner elements | refinement of sequences; order and nothing lost |
| strings, path/filepath, net/url | - | Split, Trim, Clean, Rel, Parse, escapes | - | empty, adjacent and overlapping parts | laws that tie the functions together |
| regexp, regexp/syntax | position, continuation | parse, match, find, replace, split | - | nested stars, empty matches | matches what the pattern denotes |
| text/scanner, text/template, html/template, encoding/json, encoding/csv | position, nesting | scan, parse, execute, marshal, read | reflection over structs | one character ahead, nesting by recursion | text reads back; nesting is accepted exactly |
| math/big, go/constant | limbs and sign; tagged values | arithmetic, text | - | limbs at their limit, signs | the integers |
| compress/*, hash/*, crypto digests | dictionary, code width, block buffer | Write, Close, Read; Sum | - | tables that are one step apart, padding at the edge of a block | inverse of the writer; independence of the cut into writes |
| image/* | pixels, tables, predictors | encode, decode, draw | compress, hash | restarts, filters, interlacing | inverse of the encoder |
| go/scanner, parser, printer, types | position; interned types | scan, parse, print, check | - | precedence, braces, keys made of names | print and parse are inverse; a body is accepted exactly when it has a typing |
| context, sync; net, os, syscall | context tree, lock words; descriptors | - | channels, gocvm | cancellation that does not reach children, a Mutex that never waits | - |
| the rest of `src/stdlib` | - | tables, stubs, wrappers | - | - | - |

The hazards, each at its line of the source with the properties that cover it or the
reason why none does, are in `PROJECT.json` under "hazards".

## Modules and code

Two naming conventions hold everywhere. A definition keeps the source's name where there
is one. A definition `X_Fault`, where `Fault` says what is wrong, stands before `X` and
is `X` with a plausible fault (a dropped guard, an off-by-one, a missing reset); no
specification uses it. Each property of a passing run has one: put in the place of `X`,
it makes TLC report exactly that property violated, which shows that the property can
see the fault.

```
runtime and compiler

GoChannel   <== implements == ChanSched  <-- MCChanSched, ChanSchedProofs
AsyncBridge <== implements == NetBridge  <-- NetBridgeProofs
AsyncCalls  (the scheduler's side of AsyncBridge)  <-- AsyncCallsProofs
TaskFrames  <-- TaskFramesProofs         PanicDefer <-- PanicDeferProofs
GcHeap      <-- GcHeapProofs             ModuleLoader <-- MCModuleLoader, ModuleLoaderProofs

library, state machines: MCMachines, MachinesProofs

SeqList <== implements == LinkedList     SqlDb     Archives

library, functions: MCLibrary

Lzw (with gif)   Bzip2   Jpeg   Png --> Flate --> Hashes --> BlockDigest
Images   Numbers   Sorting   Strings   Paths
Regexp   RegexpSyntax   Encodings   TextScanner   Template
GoTypes --> GoPrinter --> GoParser --> GoScanner
```

The runtime modules look at one scheduler from several sides, each with the detail of
one part and the others reduced to what it needs. `ChanSched` has channels and treats a
called function as a trip through the runqueue. `TaskFrames` has the frames and reduces
a channel to "parked, later woken". `AsyncCalls` has host calls and nested loops.
`PanicDefer` has the panic chains and leaves the choice of the next goroutine open; it
indexes chains by goroutine, which is what `VThreadIsOwn` of `AsyncCalls` justifies. One
product of everything would have the same hazards and no instance that can be checked.

**ChanSched** (`runtime.hpp`: `Scheduler`, `go`, `run`, `Chan`, `GSelect`). The client
is the most general program: the running goroutine picks any operation on any channel.
`await_ready` and `await_suspend` of one operation are one action, as nothing runs in
between. `SendNow`, `SendPark`, `SendOnClosed`, `RecvNow`, `RecvPark`, `Close`,
`CloseOfClosed`, `SelectNow`, `SelectOnClosed`, `SelectDefault`, `SelectPark`, `Go`,
`CallTask`, `Finish` are what generated code does; `Resume`, `ResumeOnClosed` and
`Drained` are the loop. The waiter deques keep their cancelled entries exactly as the
code does: a pop loop drops the ones it meets (`FirstLive`, `After`), a case that finds
nothing has emptied the deque of them. Select tries its cases in order and each try
drains a deque (`RecvsAfter`, `SendsAfter`). `parked` is decremented where the code does
it: by the completer for a plain waiter, by `await_resume` for a select. Values are
named by the operation that sends them.

**GoChannel** is what one channel promises, without waiters, cells or a scheduler: a
FIFO of offers whose first `Capacity` entries are accepted, a FIFO of requests, pairs in
those orders. `ChannelsKeepPromise` maps each channel to it: the offers are the buffer and then
the live senders, the requests are the live receivers. `LiveOps` says who these are: the
operations at the live positions of a deque, in their order. What an action of
`GoChannel` does to the selects that took another case is the relation `LeavesOut`: what
is left of a queue, in order, when some of its elements are taken out.

**TaskFrames** (`Task`, `TaskT`, `FinalAwaiter`, `destroy_if_owned`, `go`,
`Scheduler::run`). `Await` detaches the callee, remembers the caller as continuation and
puts the callee on the runqueue with the caller's VThread; `Return` transfers straight
to the continuation, so that the loop's handle is the callee's; `AfterResume` destroys
that handle if it is done. `EndExpr` is the end of a full expression, where `~Task` of
every temporary reads `promise().detached`. A full expression may hold several
`co_await`s, and what `~Task` reads of a frame that the loop has destroyed meanwhile is
chosen freely: `twice` has the frames that it then destroys again. `earlier` is a history
variable: the temporaries a frame held when it last suspended with them behind it.

**AsyncCalls** (`gocvm::CallAsync`, `drain_async_completions`, `apply_completion`,
`block_until_async_completion`, `Scheduler::run`, `RunUntil`,
`DeferList::AsyncImpl::run`). `loops` is the C++ stack of scheduler loops, each with the
VThread it restores and the closure it waits for. The bridge behind it is external: it
answers accepted requests in any order, at once or later, and may add completions with
unknown ids. A loop tests one flag only, that of the closure it was entered for
(`Inner`); the design log (`docs/design-log.md`) says that `RunUntil` stops as soon as
that one flag flips. The flag of an outer closure may therefore be set while the inner
loop, with an empty queue, reports a deadlock, and `DeadlockIsReal` claims `~FlagSet` of
the innermost loop only.

**AsyncBridge** is the promise the scheduler relies on: ids are new, each is completed
once and handed out once. **NetBridge** (`wasigocvm_net.hpp`) is shown to implement it.
Each `do_*` function is an action; `Pump` is the call of `poll()`, which may report any
set of parked entries and always those whose descriptor is closed; `ResumeOne` resumes
one reported entry, in any order, as `pending_` is an unordered map. Descriptors are the
smallest free number, so that a closed one is reused at once. `HostCall`,
`HostSendFails`, `HostRead` are the control connection with its sentinel id
`kHostReadId`. System calls may succeed, block or fail at every point.

**PanicDefer** (what `cpp_generator.cc` emits for `defer`, `panic`, `recover`, `go` and
`return`, and `PanicFrame`, `DeferList`, `ErrorState`, `BridgeScope` of `runtime.hpp`).
A goroutine is a stack of activations; one that has a defer owns a `PanicFrame`, linked
into the chain of its VThread, or into the thread's flat chain if `main` is no
coroutine. `RunSync`, `RunAwait` and `RunPumped` are the three ways in which a deferred
closure runs: called, awaited on the same goroutine, or spawned and pumped by a nested
loop. An asynchronous function that leaves by a plain `return` without named results
does not reach `RunAllAwait`, so its closures are pumped by `~DeferList`; an
asynchronous func literal declares no `PanicFrame` at all.

**GcHeap** (`Heap`, `Visitor`, `Member`, `Persistent`). Steps under `Heap::mu()` are
atomic, `Collect` is a begin, one step per marked object, and a sweep; other threads may
do what needs no lock in between. `Shared` says which unlocked operations programs with
several threads use: `{}` is the documented discipline.

**ModuleLoader** (`LoadModuleGraph`, `LoadResolved` and `main()` after argument
parsing). A file's imports are chosen when it is parsed, so every import relation is
explored. Every reason to fail is one of `OpenFails`, `ImportFails`, `GenerateFails`.
`disk` is whose text each header name holds.

### The library

The library's packages come in two kinds. Those that keep state between calls are
modules with variables and one action per method, composed by **MCMachines**, whose
`unit` says which package a behaviour calls. Those that compute a result are modules of
operators, one per function of the source, instantiated by **MCLibrary** and checked on
every input up to a bound. A loop over a byte or a token is a fold or a recursive
operator, with the order of its tests as in the source; bytes, bits and tokens are
numbers and short sequences.

**LinkedList** (`container/list`): elements with `next`, `prev` and `list` fields over
any number of lists. Every method that changes something is an action, the argument an
element of any list, not one that `Init` left behind; `CallIsAbstract` says what each
call does to the sequences of **SeqList**.

**SqlDb** (`database/sql`): the driver's connections, statements, rows and transactions
as the package sees them, each call of the driver able to fail. Whether a driver has
the fast paths `Execer` and `Queryer` is chosen at the start.

**Archives** (`archive/zip`, `archive/tar`): the writers with the entry under
construction and the bytes counted so far, the central directory written by `Close`, the
tar reader with what is left of an entry and its padding. A file is a sequence of
records with their offsets (zip), or of bytes in blocks (tar, block size a constant),
where what the reader is given may end at any byte. Every write of `finishCurrent`,
`WriteHeader` and both `Close`s may fail and leave some of its bytes in the file
(`FinishFails`, `CloseFails`, `PaddingFails`, `HeaderFails`, `CloseWriterFails`), which
neither writer counts; `zipTorn` and `tarTorn` remember that. As a bound, no further
write fails then. A short write of an entry's content to a tar file is counted, and is
`WriteData` of fewer bytes.
`SumBefore` adds up lengths: the positions in both files are such sums.

**Lzw**, **Flate**, **Bzip2** (`compress/*`, with `image/gif`'s blocks and interlacing in
`Lzw`): bit readers and writers, dictionaries, Huffman tables built in the source's own
way, block transforms. Widths, windows and block sizes are constants.
**Hashes** and **BlockDigest** (`hash/*`, `crypto/*`): words are sets of bits, so that
CRCs and FNV are computed as they are; the digests keep their padding, block buffer and
length, over a compression function that only records what it absorbs.
**Images**, **Png**, **Jpeg** (`image`, `color`, `draw`, `png`, `jpeg`): jpeg with its
markers, tables, baseline scans, restarts and inverse transform; the run's pictures
have a constant brightness per block, so that the transform meets its constant term only.
**Numbers** (`math/big`, `go/constant`): limbs of `LimbDigits` decimal
digits for limbs of 32 bits; integers of `IntBits` bits and floats with `MantissaBits`.
**Sorting**, **Strings**, **Paths**, **Regexp**, **RegexpSyntax**, **Encodings**,
**TextScanner**, **Template**: `sort`, `container/heap` and `ring`, `strings`,
`path/filepath` with `net/url`, both regular expression packages, `encoding/json` and
`encoding/csv`, the text scanner, and `text/template` with `html/template` as its
escaping variant.
**GoScanner**, **GoParser**, **GoPrinter**, **GoTypes** (`go/*`): the second Go front end
that the library carries; types live in a table under the key they are interned with.

The lines each definition stands for are in `PROJECT.json` under "map". Byte constants and
record constructors of the library modules have no entry of their own: the operation
that uses them has those lines.

## Runs

State counts are distinct states, rounded; a violation run stops at the counterexample.
`module_loader` does not check for deadlock, as `main()` returns and nothing follows, and
neither do `library` and `machines`, whose behaviours end at the bound of their inputs.
The other models stutter explicitly when the program has ended (`Halted`, `Returned`,
`Quiet`), so that a state where the code would be stuck is reported.

| run | instance | states | shows |
|---|---|---|---|
| `chan_sched` | 3 goroutines of 2 operations, an unbuffered and a capacity-1 channel, four two-case selects, symmetric in the two spawned goroutines | 457,000 | scheduler and channel invariants; each channel implements `GoChannel` |
| `task_frames` | 5 frames, up to 3 `co_await`s per full expression | 482,000 | ownership of frames |
| `async_calls` | 3 goroutines of 2 operations, one nested loop, one unknown completion | 294,000 | answers reach their callers, a loop that reports a deadlock has nothing left to do, every call returns |
| `net_bridge` | 4 requests of all topics, 2 descriptors, a write of length 2, one idle pump | 135,000 | requests in one place, handle table, `AsyncBridge`, answers to socket requests |
| `panic_defer` | 3 goroutines, 4 activations deep, 4 live activations and deferred calls, 2 defers per list | 635,000 | chains, recover, closures inside their functions, `ErrorState` |
| `gc_heap` | 3 objects, 2 Persistents, 2 threads, `Shared = {}` | 19,000 | no dangling pointer, roots, exact sweeps |
| `module_loader` | entry and 3 packages of up to 2 imports, two with one header name | 69,000 | order, no repetition, cycles, headers, termination |
| `machines` | 4 elements on 2 lists; 2 connections, statements and rows, 1 transaction; 2 zip entries of up to 2 chunks, tar files of up to 8 bytes before the last entry in blocks of 3, failing writes that leave 0 or 1 byte | 1,004,000 | lists are sequences, the database gives back what it takes, archives read back |
| `library` | every word over a unit's alphabet up to its length (table below) | 359,000 | the laws of the library's functions |
| `chan_close` | as `chan_sched` | - | violation: a delivered send panics |
| `net_bridge_hang` | one host request, a silent host | - | violation: a request that never ends |
| `panic_defer_recover` | depth 3, one defer per list | - | violation: a deferred `recover()` finds nothing |

Properties and why the bounds let the interesting cases happen:

* `chan_sched`. `WaitersConsistent` has five parts. `OnePlace`, `WaitersAreParked` and
  `NoLostWaiter` are about the cells that a select leaves behind: a completion never
  writes through an awaiter that is gone, nothing is enqueued twice, no case a goroutine
  waits for is forgotten. `ParkedCount` and `WinnerCommitted` tie the counter and the
  winner cell to what the goroutines are doing. `DeadlockVerdict` does so for the
  verdict. `NoMissedRendezvous`: nobody waits where a communication is possible.
  `ChannelsKeepPromise` is the refinement. Two
  operations each let a goroutine lose a select and come back to a channel where its old
  waiter still is; three goroutines let two of them meet while a third is cancelled;
  capacity 1 gives full, empty and refill; one list has both directions of one channel.
  No action depends on a fourth goroutine or a third channel: waiters interact on a
  deque in pairs.
* `task_frames`. `OneResumer`: a frame that is not executing is in exactly one of the
  runqueue, a parked awaiter, and a callee's continuation. `FramesConsistent`: handles
  that are followed are alive (`HandlesAreAlive`), the VThread is the goroutine's
  (`VThreadFollows`), `~Task` finds the frame of every temporary that its full expression
  did not keep over a further suspension (`TemporariesLive`). For those it kept the code
  may read a destroyed frame, and the run reaches that: the model then lets `~Task` find
  anything, and destroying a frame twice ends the behaviour (`Undefined`). Five frames
  allow a chain of four calls, or three in one expression beside a spawned goroutine
  that itself awaits.
* `async_calls`. `CallsConsistent`: `AnswersAreFetched` follows an answer from host to
  bridge to `async_results` to the awaiter; `VThreadIsOwn`: whatever loop resumes a goroutine,
  `current_vthread()` is its own. `DeadlockIsReal`: a loop reports a deadlock only when
  nobody is runnable, no host call is out, and the closure that this loop waits for is
  not done. `CallReturns` is a liveness property. One nested loop is enough for an outer goroutine to become runnable, or its
  call to be answered, while an inner loop pumps.
* `net_bridge`. `RequestsConsistent` (`RequestInOnePlace`, `HandlesMatchDescriptors`,
  `ParkedOnOwnSocket`) is about closing, failing and timing out with requests parked and
  descriptors reused: two descriptors allow a socket next to the control connection and
  a reuse of either.
  `MaxIdle = 1` stands for the 100 idle pumps of `WaitOne`; the count decides when a
  timeout may come, not what it does. `BridgePromise` is the refinement of
  `AsyncBridge`; `SocketRequestAnswered` the part of the liveness claim that holds.
* `panic_defer`. `ChainsConsistent`: a chain links exactly the goroutine's live frames
  although goroutines suspend with frames linked (`ChainIsOwnFrames`), and `ErrorState`
  follows the bridge's calls (`ErrorStateFollows`). `RecoverIsLocal`,
  `DeferRunsInItsFunction`. Depth 4 holds a function, its closure,
  and what that calls; `MaxLive` bounds the whole. `PanicDeferAssumption` asks for
  `MaxDepth >= 2`: a function with a deferred call keeps room above it for that call, as
  the C++ stack of a program that has not overflowed does.
* `gc_heap`. Three objects make cycles, self references and garbage that points at live
  objects; two threads let one work while the other marks. With `Shared = {"make"}` or
  `{"member"}` the same instance violates `HeapClosed`, the latter also `SweepIsExact`:
  the discipline is needed.
* `module_loader`. Three packages and the entry give diamonds, cycles of any length up
  to four, imports of the entry, duplicate imports, and two packages that write one
  header. `OutputConsistent`, with `HeadersComplete`, says what the code guarantees in
  that case, no more.
* `machines`. `ListRefines`: two lists and four elements let one list be asked to
  remove an element of the other or to insert beside it, in every order of calls. `DbReleases`: rows
  over a statement that the package prepared itself, over one of the client's, and over
  none, each closed early, late, twice or after the transaction. `ArchivesReadBack`:
  sizes 0, below, at and above a block, reads that leave a rest, a name that is the
  beginning of another, a tar file cut at every byte; every write of both writers failing,
  with retries. A failing write leaves nothing or one byte; the property speaks of the
  behaviours in which those that failed left nothing, see below for the others.
* `library`. A behaviour of `MCLibrary` picks a unit and then extends a word by one
  symbol at a time; a law says what holds of the unit and the word. The laws are action
  properties over the word that a step leads to. (As invariants they would say the same,
  but when TLC counts evaluations it unfolds the calls below an invariant, which for a
  recursive-descent parser has no end.)

| unit | a word is | property | bound, and what it reaches |
|---|---|---|---|
| huffman | code lengths | `HuffmanDecodes` | 5 symbols of length up to 3: every complete code, with absent symbols |
| lzw, flate, bzip2 | bytes | `CompressedReadsBack` | 12 bytes over codes of at most 4 bits: the width grows twice and the dictionary fills and is cleared; overlapping copies in a window of 5; runs of up to 7 for the run stages, blocks split in two |
| rect, filter | corners of two rectangles; two rows of pixels | `PicturesReadBack` | empty, nested, disjoint; five filters with one and two bytes per pixel |
| png, gif, jpeg | pixels, brightness of blocks | `PicturesReadBack` | every width of 4 pixels; 9 interlaced rows; 3 blocks with a restart after 2 |
| digest | sizes of successive writes | `DigestsStream` | 3 writes that end before, at and after the edge of a block of 64, 128 or 136 bytes |
| big, const | integers | `ArithmeticIsExact` | up to three limbs and every sign; all pairs of 6-bit constants |
| sort, ring | keys; pairs of elements | `SortsHeapsAndRings` | 7 elements of 3 keys; two links over 4 elements |
| string, path | characters | `StringsAndPathsAgree` | 6 characters with overlapping separators, dots and slashes |
| regexp | fragments of a pattern | `RegexpFindsLeftmost` | 5 fragments on all texts of up to 3 bytes: nested stars, empty bodies, alternatives in repetition |
| json, text, csv, url, scan | tokens, bytes or pieces | `TextsReadBack` | 4 to 6 symbols with quotes, escapes, line ends and half characters |
| template | fragments | `TemplatesNest` | 6 fragments: three nested ifs, else in every place |
| expr, body | pieces of an expression; lines of a body | `PrintedSourceParsesBack` | 4 pieces over six precedences and brackets; 3 lines with if, else, switch, range |
| body, type | lines; pieces of a type | `TypesAreExact` | 3 bindings and blocks; types three levels deep |

What a law excepts is a behaviour of the code that differs from the law, and is listed
under [Known divergences](#known-divergences-without-a-run).

## Findings

Each violation run checks what a comment or a document says, and TLC finds a behaviour
of the model in which the code does otherwise.

* `chan_close` (`PanickingSendWasNotDelivered`): `SendAwaiter::await_resume` looks at
  `closed` when the sender is resumed. A send whose value was received before the close
  panics nevertheless.
* `net_bridge_hang` (`EveryRequestAnswered`): with a silent host the only parked entry
  is the sentinel; the timeout completes that one, which nobody waits for, and the
  request stays in `host_wait_ids_` for ever.
* `panic_defer_recover` (`DeferRecovers`): `recover()` in a deferred closure that has a
  defer of its own asks that closure's frame, and in a pumped closure another
  goroutine's chain. It returns nothing and the process aborts.

## Fairness

* `AsyncCalls`: `WF_vars(Guest)`, the guest's thread keeps running (each of its steps is
  an ordinary instruction sequence), and `WF_vars(HostAnswers)`, the host answers what
  it accepted. The second is an assumption about the host, and without it `CallReturns`
  is not to be expected: `WaitOne` may block.
* `NetBridge`: `WF_vars(Serve)`, the thread keeps running. Nothing is assumed of network
  or host, `poll()` may report nothing for ever; what holds, holds because of the
  timeout.
* `ModuleLoader`: `WF_vars(Work)`; the compiler runs until it returns. Failures are not
  fair, they need not happen.
* `ChanSched`, `TaskFrames`, `PanicDefer`, `GcHeap`, `MCMachines` and `MCLibrary` are
  checked for safety only and use no fairness. No liveness of channels is claimed:
  programs may deadlock, and the code has no fairness between goroutines beyond the FIFO
  runqueue.

## Proofs

All theorems hold for every value of the constants under the named assumptions of the
modules. These say that bounds are natural numbers, that `None` is no goroutine, frame,
object or package, that `Main` and `Entry` are in their sets, and:

* `ChanSchedAssumption`: finitely many goroutines, natural capacities, select lists of
  cases, none of which repeats a case. `TaskFramesAssumption`, `AsyncCallsAssumption` and
  `PanicDeferAssumption`: finitely many frames or goroutines; `MaxDepth >= 2`.
* `GcHeapAssumption` names what threads may share; the theorems assume `Disciplined`.
* `NetBridgeAssumption`: a write has at least one byte, and `Topics` are among those of the bridge.
* `LinkedListAssumption`: finitely many elements, and `Nil` is no element and no list.
  `ZipAssumption`: names and chunks are sequences. `TarAssumption`: a block has at least
  one byte, and `AtEnd`, which stands for `io.EOF` among the results, is not a name.
* `ModuleLoaderAssumption`: files are sequences of imports, every package has a header
  name, not necessarily one of its own.

**ChanSchedProofs.** `TypeCorrect == Spec => []TypeOK`, action by action: the two
completion paths and the ways of trying an operation are lemmas that all actions share.
`NoCommunicationMissed == Spec => []NoMissedRendezvous`: the conjuncts of that property
are inductive together with `TypeOK`, channel by channel (`Rdv(c)`). The argument: a
step either only removes live waiters (pop loops, cancellation through the shared cell,
`close`), or adds one right after a readiness check on that channel failed; a taken
buffer slot is refilled if a live sender exists. The conjuncts lean on each other: a
receive that empties a buffer relies on the senders' condition, a send that fills it on
the receivers'.
`WaitersAgree == Spec => []WaitersConsistent` rests on the invariant `Placed`: it names
the place of each goroutine (`OnePlace`), ties live waiters to the goroutines that wait
and these to a live waiter for every case (`LiveWait`, `CasesWait`, over `Queues`), and
adds what the property itself does not say. `CellsAreOld`: a set cell belongs to an
operation that is no longer waited for, otherwise a pop loop could drop the waiter
of somebody who sleeps. `OnlyWaiter`: a goroutine has at most one live waiter on
a queue, otherwise completing it would leave a live waiter of an awaiter that is gone.
`AwaitersInUse`: an awaiter exists only from the suspension to the resumption. Every
step is one of three kinds: nobody starts or stops waiting; a set of goroutines is woken
(at most one by `try_send` and `try_recv`, all live waiters by `close`), with `parked`
lowered by the plain ones among them; one goroutine parks, behind everyone on each queue
of its cases. `VerdictCorrect == Spec => []DeadlockVerdict` follows from `Placed`,
`NoMissedRendezvous` and `VerdictSeen` (what the loop saw when it ended still holds): if
the runqueue is empty and nobody runs, whoever is not done is parked, and is counted.
`ChannelsImplementPromise == Spec => ChannelsKeepPromise` is the refinement. The deques
hold cancelled waiters that `GoChannel` has never heard of, so its queues are selections
of positions, and the first lemmas are about those: a set of positions has exactly one
increasing enumeration (`OrderedExists`, `OrderedUnique`), and `OpsAt`, which reads a
queue along it, commutes with appending, dropping the front, and removing positions.
On these stand two facts about the steps that `Placed` already tells apart: waking a set
of goroutines takes exactly their operations out of every queue, which is `LeavesOut`
(`WokenLeave`), and parking appends one operation (`ParkAppends`). Then every action is
given the one action of `GoChannel` that it is on each channel: the channel operated on
sees an `Offer`, `Meet`, `Take`, `Request`, `OfferAndRequest` or `CloseChan`, every other
channel on which a woken select waited sees a `Withdraw`, the rest stutter. `TypeOK`,
`Placed` and `NoMissedRendezvous` are all needed: that `Meet` pairs with the head of the
requests needs the buffer to be empty when a receiver waits, and that `Withdraw` leaves
accepted values alone needs live senders only behind a full buffer.

**GcHeapProofs.** `HeapClosed` is not inductive, as a sweep keeps what is black and
nothing says that this is closed. `Invariant` adds `RootsInvariant` (`roots_` has no
entry twice and is the set of non-null Persistents), `RawInvariant` (an unrooted result
of `Make` belongs to the one thread that runs) and `MarkInvariant` (during a collection
the roots' targets and the targets of black objects are black or grey, and what is
coloured is reachable). Theorems, under `Disciplined`: `InvariantHolds`,
`NoDanglingPointer`, `RootsAreThePersistents`, `CollectIsExact` (the sweep keeps exactly
the reachable objects, by double inclusion: black is closed and holds the targets, hence
contains the least such set), `TypeCorrect`, which needs the same invariant (that the
target of a Member stays an object of the heap is `HeapClosed`), and `MarkingEnds` (each step of the mark loop blackens a
live object that was not black; with finitely many live objects the loop ends).

**ModuleLoaderProofs.** `DependenciesFirst` needs to know, when a package is finished,
that all it imports is merged. `StackInvariant`: what an unfinished package has
collected is merged, or is the package above it on the stack. `CollectedIsPrefix`,
`Untouched`, `MergedIsGraph` and `StackIsPath` connect that to the imports. `DiskInvariant`
says of the second half of `main()` that nothing is written before the graph is loaded,
and then the headers of the first `written` packages and no others: together with
`DependenciesFirst` that is `HeadersComplete`. Theorems: `InvariantHolds`,
`GraphIsOrdered`, `NothingTwice`, `ReportedCycleIsOne`, `OutputComplete`.

**TaskFramesProofs.** Theorems, for any number of `co_await`s in a full expression:
`InvariantHolds`, `EveryFrameHasItsResumer`, `HandlesAgreeWithFrames`. `OneResumer` and
`FramesConsistent` say nothing about why a goroutine's root frame, which `vt` and every
queued entry point at, outlives the frames that work for it. `Placed` and `Once` put
each unfinished frame in exactly one place; `Rooted` says that frames on one chain of
continuations share one root; `Chains` says that no set of unfinished frames is closed
under continuations, so that following them from any frame leads to one without a
continuation, which is the root. So while a frame works, the root is suspended in a
call, does not return and is not destroyed. `Held` says which temporaries `~Task` finds:
one that a frame `f` made since it last suspended is awaited by `f`, and unfinished, or
finished while `f` itself executes; the loop destroys only when control returns to it, so
that frame is there. A temporary in `earlier` may have lost its frame; what `~Task` then
reads is free, and if it destroys the frame again the model stops, so the theorems say
what holds up to that point. `Chains` is the conjunct a reader might not expect: it is
kept because a step adds only the continuation of a new frame, which no continuation
names yet.

**AsyncCallsProofs.** `CallsStayConsistent` and `NoFalseDeadlock`. The property says
that the goroutine that executes has its own VThread; why it does is `VThreads`: every
place that remembers a VThread across a suspension (queue entry, pending call, parked
waiter, caller of `RunUntil`) remembers its goroutine's own. `Requests` says that no two
goroutines hold one request id and that every id in use was given out, which is why a
new id cannot clash and an answer is one's own; `Queue` ties `pc` to the runqueue both
ways, so that a loop that finds it empty knows that nobody is runnable; `Nesting` makes
the C++ stack of loops one `RunUntil` per nested goroutine above `Scheduler::run`.
`StopSaw` keeps what the loop saw when it reported the deadlock. Ids range over all
positive numbers, as in the code up to their width.

**NetBridgeProofs.** `RequestsStayConsistent`, and `KeepsThePromise == Spec =>
BridgePromise`, the refinement of `AsyncBridge`. `Places` restates `RequestInOnePlace`
as a partition of `1..nextId`. `ParkedOnOwnSocket` is not inductive: a failing connect
erases a handle and closes its descriptor, so nobody else may be parked there. That is
`Private` (the control connection's handle and the handle of an unfinished connect are
not yet known to the guest, hence nothing of the guest's is parked on them) with
`SentinelReadsHost`. `HostOwesWaiting`: what the host still owes on the present
connection waits in `host_wait_ids_`, else a reply could complete a request twice. A
step then is one of three kinds, a submission, a step inside `pump` or `PollOne` that
hands nothing out (`Keeps`), a hand-out, and each maps to `AsyncBridge`.

**PanicDeferProofs.** `ChainsStayConsistent`, `DeferredFindTheirFunction`,
`RecoverStaysLocal`. `Chains` strengthens `ChainIsOwnFrames` to the `prev` link of every
frame: popping a frame restores the head from that field, so it must name the next frame
inside. `Owners` says of every deferred closure where its function is, under it on the
stack or waiting for it in a `RunUntil`; it is stable because of `Nesting`: whoever waits
in a loop does not execute and is in one loop only, so that it cannot leave before the
goroutine it pumps for. `Activations` says who may have deferred calls.

**MachinesProofs.** `EverythingReleased == SqlSpec => []DbReleases`, for any bounds, any
sequence of calls and any failures of the driver. `DriverObjectsReleased` says that an
open statement of the package's own has open rows; to know that closing these rows
closes it once, `Owned` says that rows own a statement of the package's, alone, and
have been closed as often as it has, and `Released` that a statement nobody owns has
been closed. `Connected` and `Transacted` are the conjuncts of `OneConnection` with their
types. `MCMachines` checks the same `DbReleases`, in a behaviour that may also call the
other packages.

`ListsAreSequences == ListSpec => ListRefines` is the refinement of `SeqList`. The
sequence of a list is what `Met` meets along `next`. `IsList(l, s)` says that `s` is that
sequence: no element twice, neighbours linked in both directions, `head`, `tail` and `n`
those of `s`, and the elements whose `list` field names the list exactly those of `s`.
The invariant is that every list has such an `s`; that the field tells the elements is
what makes `Remove` of an element of another list, and an insertion beside one, do
nothing. The elements that an `Init` left behind are set aside, as the package does not
clear their field (see below). `WalksAre` proves that `Met` along `next`
is `s` and along `prev` its reverse. A call then either leaves a list `Apart`, or links
an element in, or takes one out; what that does to `s` is stated for every position.

`ArchivesReadTheirOwn == ArchivesSpec => []ArchivesReadBack` has an invariant for each
package, both about positions, and both only as long as no failed write has left bytes
(`~zipTorn`, `~tarTorn`): from then on positions and counters differ, and the property is
silent. Calls that fail before, at any write, keep the invariants. `ZipInvariant`: until `Close` has succeeded, `written` is
the length of the file and every entry but the current one is `Put`: its local header,
name and data stand next to each other where its `offset` says. Calls that fail only
add pieces that no entry names. `Whole` says where the directory is after the one
successful `Close`; that `NewReader`, which steps from a header by its own length and
that of its name, meets all of it is `Positions`. `PieceAt` asks for a length, as an
empty name begins where the next piece does; of the pieces with a length no two begin
at one place (`StartIsOne`).

`TarInvariant`: each entry is `Laid` where the sizes and paddings before it end
(`Laying`); the tape ends one padding short of the next header, or at it when a failed
call has padded already (`Writing`), or is whole
entries and two blocks of zeros, as far as it goes (`Sealed`); and what was returned is
what was given, with the reader in the content of the last one, so that
`at + remain + padLeft` is the next header (`Reading`). That is why it does not matter
how much of a content is read, or where the file was cut.

`Met`, `SumBefore` and `HeaderStarts` are recursive functions. What they compute is
proved without an induction theorem: a set of counterexamples that is not empty has a
least one (`Least`), and the step from the number before it refutes that.

**Only model-checked**: the liveness properties (`CallReturns`, `SocketRequestAnswered`,
`Terminates`), as liveness under fairness and ENABLED are out of the prover's reach, and
the laws of the library, which are about what recursive operators over words, trees and
bits compute: the prover does not take RECURSIVE operators, and the induction theorems
of its library have an operator as a parameter, which the provers cannot instantiate. These are
checked up to the bounds. Every other property of a passing run is a theorem. No module with a theorem, nor one
that it uses, declares a RECURSIVE operator: the transitive closure in `GcHeap` is a
least closed set, and `LiveOps` reads a deque along an enumeration of its live positions.

## Known divergences without a run

Met while reading, and either modelled but contradicted by no sentence of the
repository, or outside the models.

Runtime and compiler:

* A select that is parked on a send and woken by `close()` goes on as if that case had
  sent; the value is gone and nothing panics (`ChanSched`, `SelectOnClosed` panics only
  when the channel is closed before the select parks).
* In `f() + g()` with two asynchronous calls in one full expression, the first `Task`
  temporary outlives its frame, and `destroy_if_owned` reads the promise of a destroyed
  frame and may destroy it again (`TaskFrames`, `EndExpr` and `Undefined`).
* A program whose `main` has returned while another goroutine is parked ends with a
  deadlock report (`Drained` after `Finish(Main)`); in Go it exits.
* A goroutine that ends through a symmetric transfer is never destroyed, as the loop's
  handle is its callee's: a leak (`TaskFrames`).
* While a nested `RunUntil` waits, the goroutine below it cannot run, even when what it
  waits for arrives; if the closure needs it, a deadlock is reported.
* A failed send on the control connection closes it without clearing `host_read_buf_`:
  half a reply left there is put before the first reply of the next connection. The bytes
  of a reply are not modelled.
* The idle timeout of `WaitOne` picks an arbitrary entry of an unordered map, and a
  large write that progresses without finishing looks idle.
* An asynchronous function with defers and no named results that leaves by `return`
  pumps its deferred closures from a destructor.
* `panic()` inside a bridge stashes and aborts in any case; `ErrorState::kRecovered` is
  never set.
* `DeriveGenFilename` folds in one parent directory: `a/x/y` and `b/x/y` write the same
  header.
* `WriteFile` does not look at the stream after writing; `InternalParentDir` takes the
  first `/internal/` of a path.
* `current_has_defers_` of the generator is not restored after a func literal with a
  defer.

Library, where the laws of `library` and `machines` make an exception:

* `lzw` with order MSB: some inputs do not read back (`litWidth` 2, bytes 0, 1 give
  "invalid code"); `CompressedReadsBack` is about LSB.
* `filepath.Rel(".", "a")` is `../a`.
* JSON and templates format a number whose fraction rounds up to 1 without the carry.
* The CSV record of one empty field is written as a blank line, which the reader skips.
* A URL text that begins with `://` does not read back; `- -x` is printed as `--x`.
* `regexp.Split` stops at the first empty match.
* An `else` without a body leaves no trace in the tree of `text/template/parse`.

Library, outside the laws:

* `database/sql`: `driver.ErrSkip` is an ordinary error; `DB.Exec` during a `Tx` runs
  inside it; `DB.Close` leaves transactions and statements on a closed connection;
  `Rows.Scan` after `Close` gives the last row; a `uint` above the range of `int64` wraps.
* `archive/zip`: a write to an entry after the next was created is lost; a second
  `Close`, or `Create` after it, puts wrong offsets in the file. A write that fails short
  is not counted in `written`: when the call is made again and succeeds, every later
  offset is wrong although `Close` returns nil (`Archives`, behind `zipTorn`).
  `archive/tar`: padding or a header written short shifts what follows by the bytes it
  left, in the same way (`tarTorn`); the size
  in a header is not compared with what is written, names are cut at 100 bytes, octal
  fields overflow, and a file cut short looks like a clean end.
* `list.Init` leaves the old elements' `list` field, so that a later `Remove` of one
  damages the list.
* `regexp/syntax` negates unsorted ranges wrongly (`\S` contains the tab), and the two
  parsers disagree after `(?`.
* `go/parser` reads a parameter `name []T` as an instantiation, loops on an unterminated
  `import (`; `go/printer` drops a single named result; `go/types` ignores the
  underlying type of a name that is interned already, and has no block scopes;
  `go/constant` compares integers through float64.
* `compress/gzip`, `zlib` and `flate` accept input that is cut short, gzip ignores its
  length field and flate the complement of a stored length. `png` panics on a short row;
  `jpeg` takes a short table definition as none and a component twice in one scan;
  `draw.Draw` does not move the source point when it clips.
* `context`: cancelling a parent does not close its children's `Done`
  (`stdlib/context/context.go:81`); `sync.Mutex.Lock` never waits
  (`stdlib/sync/sync.go:12`), `WaitGroup.Wait` returns at once, and `Once.Do` returns to a
  second caller while the first is suspended inside it.

## Not modelled

* **Lexer, parser, most of the code generator**: sequential functions from text to text.
  `PanicDefer` models the part of the generator whose output has protocol state.
* **Slices, strings, maps, interfaces, `Any`**: sequential value types; aliasing and the
  WriteGuard are in the plan.
* **Threads on channels**: `Chan` has a mutex and `GSelect` a lock order, but generated
  programs have one thread; a threaded version is in the plan.
* **Values**: what is sent, awaited or answered is an identity, never bytes. Frames on
  the control connection are whole.
* **`context` and `sync`**: what can go wrong in them are goroutines that interleave at
  suspensions inside a critical section; listed as hazards, in the plan.
* **Ciphers, ed25519, rand**: number theory and bit mixing that TLC cannot explore in an
  interesting range.
* **`math`, `strconv`, `unicode`, `time`, `fmt`-like packages, `text/tabwriter`**: tables
  and conversions without state; `bytes`, `slices`, `maps`, `path` and `go/format` repeat
  or compose code that is modelled.
* **`net`, `os`, `syscall`, os files, argument parsing**: pure I/O over the modelled
  bridge, except `net/url`.
* **A select that names one channel twice in the same direction**: `ChanSched` parks one
  waiter per case, channel and direction, and `ChanSchedAssumption` leaves such lists out.
* **64-bit ids and counters**: bounded far below their widths.

## Plan

Done first, because everything else stands on it: scheduler and channels (`ChanSched`,
`GoChannel`, `ChanSchedProofs`). Then the frames under them, the host calls beside them,
the bridge that answers, the panic chains across them, the heap, and the loader; then
the library, machines and functions; then the proofs, of the safety invariants and of
the three refinements.

Left, in this order:

1. Proofs: that `AsyncCalls` uses the bridge only as `AsyncBridge` allows, so that the two
   theorems about host calls compose; lemmas about the library's operators that need no
   induction (`ByteOf` and `ShiftRight` of `Hashes`), and as recursive functions, with
   the least counterexample, those that run over a sequence once (`ring`, the run stages
   of `Bzip2`).
2. Models: the bytes of the control connection (see `host_read_buf_` above); `context` and
   `sync`; `Slice` append, copy and `slice3` with `Map`'s WriteGuard; channels and select
   with several threads and their locks; `AnalyzeAsync`, the fixpoint that decides which
   functions are coroutines.
