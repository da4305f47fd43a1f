# A verification development of ps5-homebrew-lab

TLA+ models of the parts of this repository where order, failure and stale
state matter, the TLC configurations that check them, and machine-checked
proofs of what matters most. File names below are relative to
`projects/prospero-win/` unless they say otherwise.

    tlc -workers 2 -config MCX86Engine.cfg MCX86Engine     # one check
    tlapm X86Engine_proofs.tla                             # one proof module

## 1. Inventory

`prospero-win` runs 32-bit Windows programs on the console: it maps a PE image,
translates guest x86 to host code block by block (no interpreter), and serves
Win32 calls from a portable core with native backends. `logging_server`
(`projects/logging_server`) carries the logs of console programs to a
development machine. `legacy` holds the native titles that drive the GPU and
the display without the runtime. The rest is an SDK, tools and research notes.

| Component | State it keeps | Operations | What makes it correct |
|---|---|---|---|
| Translation engine, cache (`src/pw_x86_engine.c`, `src/pw_x86_cache.c`) | open-addressed table of blocks, append-only arena, page protection, link slots in each entry, generation | step, reset, set chaining | lookups find exactly the live block of a PC; link slots never lead anywhere else; only sealed pages run; a chain comes back; counts are exact |
| Block translator (`src/pw_x86_block.c`) | register contract and dirty mask, deferred flags | translate; chain, dynamic and fault exits of the emitted code | every read of a register or flag sees its latest value; the dispatcher sees a canonical state |
| WinMM adapter (`src/pw_win32.c`) | `PwWaveOut`: open, paused, prepared headers; flags in guest memory | the `waveOut` calls, the completion pump | a buffer is owned by guest or backend, never both, and comes back once |
| PS5 audio backend (`native/pw_audio_ps5.c`) | block queue, completion ring, generation, worker thread | open, submit, poll, control, close | the promise of `PwWin32Services` under every interleaving with the worker |
| Runtime loop (`native/runtime_main.c`) | guest state, exit conditions, saved registry generation | pump, dispatch, step, save, tear down | any error aborts; teardown terminates |
| Guest calls (`src/pw_guest_call.c`) | callback frames | begin, finish, callback enter and leave | nested callbacks restore flags and return address |
| Guest heap (`src/pw_guest_heap.c`) | ordered block table | alloc, free, realloc | blocks tile the region; a failed call changes nothing |
| Registry and persistence (`src/pw_registry*.c`, `native/pw_state_ps5.c`) | keys; a file replaced by rename | set, query, save, load | a crash leaves the old or the new file |
| Loader and mapping (`src/pw_loader.c`, `src/pw_map.c`) | module table, mappings, protections | load, order, finalize, release | dependencies initialise first; partial failure is released |
| ps5log client (`projects/logging_server/client/ps5log.h`) | socket, stdio redirection, sequence number | open, write, capture, release, close | records are numbered in order; redirection is undone |
| ps5log server (`projects/logging_server/server/ps5logd.py`) | open runs per session, files | feed, close, finalize, prune | a manifest that says complete is complete |
| Guest x87 unit (`src/pw_x87.c`, `src/pw_guest_fp.c`) | eight registers, tags, TOP, control and status word | execute, `_controlfp`, three msvcrt imports | an instruction completes or changes nothing; TOP always moves by what the guest thinks |
| USER32 (`src/pw_user32.c`, `src/pw_win32.c`) | windows, classes, menus, queue, suspended calls | create, show, destroy, dispatch, paint, and the returns of callbacks | handles stay unique and no reference dangles, however callbacks nest |
| GDI (`src/pw_gdi.c`) | contexts, surfaces in one block of pixels, palettes | get and release, select, create, resize, delete | surfaces are apart, selections counted; pixels are kept exactly for windows that exist |
| PE image (`src/pe_*.c`, `src/pw_import_bind.c`) | headers, plan, mapping | parse, plan, map, relocate, bind | no number of the file leads outside the mapping |
| Gate title (`native/main.c`, `src/pw_gate.c`) | report lines, counts, probes' pages | load, record, protect, release, exit | the exit record says what happened |
| Presenter (`native/pw_videoout_ps5.c`, `native/pw_agc_ps5.c`) | staging buffer, two scanout buffers, command buffer, fence | present, close | a frame is whole whenever it is on the screen |
| Runtime start and teardown (`native/runtime_main.c`) | what the process has acquired | acquire, undo, tear down | all is given back, users before what they use |
| Native AGC titles (`legacy/apps/agc-native-sce/stage_[bc]_main.cpp`) | GPU memory, command buffers, fences, flip events | acquire, compose, submit, poll, park, scrub, release | nothing is given back that the GPU or the display may touch |
| File services, profiles, CRT text, tools | — | — | see *Not modelled* |

How they interact: `runtime_main.c` loops on one guest thread. Each turn it
pumps audio completions into guest memory, tries the Win32 adapter at the
guest's program counter, and otherwise takes one engine step. The step may run
many translated blocks (chaining) and returns at a safepoint, an unlinked exit,
a dynamic target or a fault; the adapter and callbacks read and write only the
canonical `PwX86State`. The only second thread is the audio worker, which
shares one mutex and one condition variable with the guest thread and never
touches guest memory.

A Win32 call that calls back (`CreateWindowExA`, `DispatchMessageA`,
`UpdateWindow`, `_initterm`) leaves a record in the host and returns into guest
code, which may make any call again; a token as return address brings the host
back to the innermost record. The presenter's GPU and display run on their own,
ordered only by the packets of the command buffer. The ps5log client is linked
into each title and talks to one server through one socket at a time.

Hard parts, listed at their lines under `hazards` in `PROJECT.json`:

- *partial failure* — publish before seal, close before check, a full table
  after the copy, failing guards in the middle of a block;
- *stale state* — `last_exit_slot` across resets, register copies and pending
  flags across linked exits, completions of an earlier audio generation;
- *interleaving* — the worker in output, unlocked, while the guest thread
  resets, closes or tears down;
- *liveness* — a fully linked guest loop, a worker asleep on its condition;
- *limits* — cache, arena, completion ring, message queue, chain quantum, and
  every table of the guest's windows, surfaces and heap blocks;
- *crash and restart* — the registry's file across kills and power losses;
- *an unreliable peer* — log records lost, cut, repeated or late, and runs
  finalized or pruned meanwhile; a GPU and a display that lag behind;
- *re-entrance* — window procedures that create and destroy windows;
- *numbers from outside* — sizes and addresses of an image in 32-bit sums.

## 2. Modules

| Module | Models | State | Actions |
|---|---|---|---|
| `X86Engine` | engine, cache, exits of a block | `table` (entries with their link slots), `cursor`, `generation`, `prot`, `sealed`, `failed`, `eip`, `last` (`last_exit_slot`), the running block and the step's counters | one per path through `pw_x86_engine_step` (`StepHit`, `StepUntranslated`, `StepNoRoom`, `StepUnwritable`, `StepTableFull`, `StepSealFails`, `StepCompiles`), one per way emitted code leaves a block (`ExitDynamic`, `ExitSafepoint`, `ExitUnlinked`, `ExitLinked`, `Fault`), the three outcomes of `pw_x86_engine_reset`, `SetChaining`, `SetEip` |
| `X86Regs` | register residency | contract, dirty mask, which copies are the latest | entries, linked exits, and instruction classes by how they touch the register file |
| `X86Flags` | liveness and deferred flags | the block, which copies of each flag are the latest, `known_mask` | instruction classes by what they do to flags, exits, faults |
| `AudioPs5` | audio backend and worker | queue, ring, generation, worker's place and its block, device handle | one operator per critical section; its calls take their result as a parameter |
| `WaveOut` | adapter, pump and loop, composed with `AudioPs5` | `PwWaveOut`, header flags in guest memory, messages, which call the guest thread is in | one per adapter call and outcome; `Next` interleaves them with the worker |
| `AudioService` | the promise in `src/pw_win32.h:93-98` | accepted and returned tokens | abstract specification; `WaveOut` implements it through `ServiceContract` |
| `Ps5LogWire` | socket and network | what is sent and not read, the state of each socket, faults so far | `NetReset`, `PowerLoss`; short and failed sends are part of the client's actions, datagram loss and reordering of the server's |
| `Ps5LogClient` | `client/ps5log.h` | `g`, what fd 1 and 2 refer to | one per call of the API |
| `Ps5LogServer` | `server/ps5logd.py` | sessions, line buffers, runs, logs and manifests on disk | one per callback of the selector loop |
| `Ps5Log` | the three together | — | `Next`, fairness, properties |
| `HeapService` | the promise in `src/pw_guest_heap.h` | allocations and their contents | abstract specification; `GuestHeap` implements it through `HeapContract` |
| `GuestHeap` | `src/pw_guest_heap.c` and the calls that reach it | block table, bytes | alloc, calloc, free, realloc, and a guest that writes |
| `StateStore` | registry, its image and its file | keys, values, generation, the file and its temporary | registry calls, one action per system call of a save, start, kill, outage |
| `GuestWindows` | `src/pw_user32.c` and the callbacks of `src/pw_win32.c` | windows, classes, menus, queue, suspended calls | one per call that changes something, one per return of a callback |
| `Gdi` | `src/pw_gdi.c` | contexts, surfaces, palettes | operators, used by `Desktop` |
| `Desktop` | the calls that span both | — | composes `GuestWindows` and `Gdi` |
| `Loader` | `src/pw_loader.c`, `src/pw_map.c`, VM backend and file provider | modules, edges, order, reservations, page access, open files, mappings left by refusals that are ignored | operators, one per module, import or visit |
| `Gate` | `native/main.c`, `src/pw_gate.c`, probes | report, the records it owes, counts, exit record | the title from start to exit, over `Loader` |
| `Presenter` | present, copy and flip, with GPU and display | command buffer, fence, staging and scanout buffers, flips | one per step of present, `Gpu` and `Vblank` |
| `TitleRuntime` | acquisition and teardown of `native/runtime_main.c` | what is held and what is to do | acquire, fail, undo, give back, over `Presenter` |
| `AgcStage` | the native AGC titles | acquisitions, flips built and sent, fences, events, the screen | one per step of `main`, the GPU's, the display's and the watchdog's |
| `PeImage` | parse, plan, map, relocate, bind | headers, plan, mapping, slots | one per section, block, entry and import |
| `X87` | the x87 unit | registers, tags, TOP, flags, pending traps | one per instruction, import and `_controlfp` |
| `Services` | the single-threaded parts above | `subject` | each behaviour runs one of them |
| `X86Engine_proofs`, `X86Regs_proofs`, `X86Flags_proofs`, `WaveOut_proofs`, `Ps5Log_proofs`, `Titles_proofs`, `Desktop_proofs`, `Services_proofs` | — | — | theorems |
| `MC*` | — | — | constants for TLC |

Correspondence worth knowing when reading them:

- *A guest program is a constant* (`Blocks`): what translating at each address
  yields. One instruction is one address, so that blocks overlap as they do in
  the code (a loop head inside a longer block). A block's register contract is
  a name; only equality of contracts matters to the engine.
- *Step is not atomic.* `StepHit` and `StepCompiles` end at the call of
  generated code, each executed block is one more action, and exits and faults
  return. Nothing else runs meanwhile: the guest thread is inside the call.
  `compile` is one action because nothing can interleave with it, and has one
  action for each failure in its order.
- *A code address* in a link slot is the block's offset with the kind of entry
  point (`canonical`, `chain`, `stub`, `reconcile`).
- *A register or flag value* is abstracted to whether a copy is the latest one;
  this is all "no update is lost" needs, and makes the check complete over
  values. The translator emits straight-line code, so the mask it tracks while
  emitting is the mask while the code runs, except across linked exits, where
  `DirtyAtEntry` and `known` are what the code assumes.
- `X86Flags` merges flags treated alike into one (`Z` stands for ZF, SF and PF)
  and instructions of the same class into one representative.
- In `AudioPs5` a block is its token, generation and submission; samples are
  left out. `unplayed` and `latest` are history variables for the properties.

- *`ps5log`.* Text is tokens: a body (HELLO, record with its number, BYE, raw)
  and the newline after it, so that a line may be cut, glued to the next or
  arrive in pieces. A `recv` of several lines is several reads with nothing in
  between, which `_read_tcp` allows. `lost` of a run is a history variable.
- *`StateStore`.* A file is whether it exists, is whole and is safe from an
  outage. A rename may be undone by an outage until the next save; what was
  not synced may then hold anything. `acked` is the history of reported saves.
  The teardown tries one last save and goes on whether it worked or not
  (`native/runtime_main.c:617-619`); `closing` is what it reports.
- *`Loader`, `Gate`.* A refused call costs one of `faults`. Where the code looks
  at the result, the refusal is an outcome of its own; where it does not (a
  trim in `src/pw_vm_posix.c:77-80`, a file or a low page given up), the
  mapping stays and `ignored` counts it. `owed` is the history of the records
  that tell all of a run.
- *`X86Regs`.* The forms that work on `PwX86State` whatever is resident are
  `RawPartialWrite` (SETcc, 16-bit immediate ALU, and byte ALU between
  registers, which reads its source raw as well), `RawCompare` (byte CMP, both
  operands) and `ByteStore` (the address is kept in a register that may be
  resident).
- *`GuestHeap`.* Bytes hold a tag, so that moving the wrong bytes shows; the
  refinement mapping `Contents` is what the guest may read.
- *`GuestWindows`.* A call that changes nothing is no action; one the adapter
  answers with a status other than `PW_OK` ends the title (`Ends`). `Scenes`
  bounds a behaviour to the groups of calls that interact. `issued` is the
  history of handles a call returned, `passed` of those a window procedure was
  given before that, in WM_NCCREATE and WM_CREATE.
- *`Presenter`, `AgcStage`.* The GPU executes packets in order, each when its
  condition holds; the display makes a flip at any later time. This is what the
  comments at the packets state, and all that is assumed.
- *`PeImage`.* A word of 16 values and pages of 4, so that every wrap the
  32-bit code could meet is met. What the file says is chosen as it is read.
- *`X87`.* A register holds zero, a finite value or a special one; whether a
  result is exact is a choice. A trap or a refusal ends the guest, as the
  runtime does.
- *`Services`* is a sum, not a product: the parts share no variable and no
  thread, so a behaviour of one is a behaviour of all with the others still.

Hazard constants. Where the code has a defect (section 5), a property would
fail for every later question too. A Boolean constant then separates "the code
in the situations where it is right" from the one situation where it is not:
`CallerRetries`, `RawHazard`, `MulHazard`, `TrapHazard` and `ClosesPrepared`,
and, with no violation run (section 5), `CaptureHazard`, `EmptyKey` and
`EarlyExit`.
The handlers are the same either way; the constant only says whether the caller,
guest program or allocator meets the situation. The passing run has it FALSE,
the violation run TRUE. `GuestRewrites` is FALSE in both: a guest that writes a
header it has already queued breaks the Win32 contract, and the adapter does
not check.

## 3. Runs

| Run | Question | Result |
|---|---|---|
| `x86_engine` | `CacheSound`: found, unique, no shared bytes. `LinkSound`: every link slot leads to its own stub or the live block of its target. `RunsSealed`: W^X and own slots. `ChainBounded`. `RetiredExact`: counts at every exit, and at faults of the dispatched block. `FollowsGuest`: control passes only where the guest program says, skipping loads only under equal contracts | passes |
| `x86_engine_poison` | a failed seal stops the engine until a reset | violated |
| `x86_engine_retired` | a fault reports the exact retired prefix | violated |
| `x86_regs` | `OperandsCurrent`: operands read at their latest value. `CanonicalCurrent`: the dispatcher sees all. `CleanIsCanonical`: a clean register may skip its spill | passes |
| `x86_regs_raw` | the same with SETcc, byte ALU (its source too) and 16-bit immediate ALU on dirty registers, and byte stores over a resident one | violated |
| `x86_flags` | `NoStaleRead`: lazy equals eager. `FlagsReturned`: the dispatcher's flags. `DeadIsOverwritten`: what the liveness pass promises | passes |
| `x86_flags_mul` | the same when MUL meets pending flags | violated |
| `x86_flags_trap` | the same when DIV or x87 traps over dropped flags | violated |
| `wave_out` | `TokensAccounted`: INQUEUE exactly while the token is held once. `DeviceOwned`: no close under output. `RingHasRoom`: no completion is dropped. `ServiceContract`: implements `AudioService`, where blocks have no order. `DoneMeansPlayed`. `BuffersComplete` and `TeardownFinishes` | passes |
| `wave_out_close` | the adapter's open device is open in the backend when the guest closes with a header prepared | violated |
| `ps5log` | `CompleteIsComplete`: a manifest without gaps from 1 to its BYE has every record, once, whole, in order. `GapsCoverLoss`: a loss between two records is in a listed gap. `StreamContiguous`: TCP loses nothing in the middle, nor before a BYE, of whose number a BYE that breaks off shows what is left. `StdioRestored`: no descriptor outlives its channel. `ManifestsMatchLogs`: logs and manifests go in pairs. `RunsFinalized` (liveness) | passes |
| `services` | `HeapContract`: implements `HeapService`. `StateSurvives`: a start after any crash finds the last saved state or the one before, and a teardown that reports success kept the last. `WindowsSound`, `SurfacesSound`: handles, references and pixels under nested callbacks. `GateHonest`: the exit record and the report, what is left, the order, the protections. `RuntimeSound`: teardown in order and exhaustive, whole frames. `StageSound`: GPU memory retained. `ImageSound`: nothing outside the mapping, binding all or none. `X87Precise`: an instruction completes or changes nothing | passes |

Bounds, and why they are enough:

- `x86_engine`: five blocks for three cache entries, all probes colliding on
  two start slots; an arena of two pages of four bytes, so blocks share pages,
  cross them and run out of room; a loop that links to itself, one entered in
  its middle, a conditional, dynamic exits, and faults at the first and at a
  middle instruction; two contracts; two generations, because a slot or lookup
  of generation g can only go wrong against g+1; a quantum of three, which lets
  two transitions happen before the safepoint. Nearly 10^6 distinct states.
- `x86_regs`: four registers for three host registers, so one is always left
  out; every contract with at most three of them, and every sequence of blocks
  and instructions, with no bound on either.
- `x86_flags`: all blocks of at most four instructions from twelve classes, and
  unbounded chains of them. Four is a producer, something in between, a
  barrier, and a reader; the code's limit is 32.
- `wave_out`: two headers, three queued blocks, submissions of at most two
  blocks, three submissions, two generations, a message queue of one. A reused
  header, a full queue, a partial fit, a completion across a reset and a full
  message queue all occur. The completion ring has as many slots as there are
  headers, a tighter fit than the 64 slots for 32 headers in the code. `MaxSubmits` and `MaxGeneration` bound
  counters that are 64 and 32 bits wide in the code.

- `ps5log`: two connections so that a new run meets an old one, two runs with
  one kept so that pruning takes an open one's log, two or three records (a
  first, a middle and a last one to lose), one fault of the network in each
  behaviour and unbounded reordering within it. `Limits` gives each kind of
  behaviour (off, TCP with two sessions, TCP with captured prints, UDP) its own
  bounds. About 535,000 states. `Radix` is 2,
  where the code's numbers are decimal: the number 2 of a BYE can then lose a
  digit and still be a number, as 10 can in the code.
- `services`, heap: eight bytes in granules of two over three table entries: a
  first fit, a gap too small, merges on both sides and a split without a free
  entry. Registry: two keys, two slots, two changes, two starts, a crash at
  every step. Windows: two windows, a queue of two, creations two deep, one to
  four objects by scene; surfaces of two sizes in three units of pixels, so
  that a resize has no room. Gate: eight programs with cycles, shared, missing
  and repeated imports, one too deep and one with too many modules, three
  refusals anywhere, those that the code ignores included, and a report that overflows. Title: three frames over two
  buffers, two refusals. Stage: the five builds, three frames in two slots.
  Image: one section free between fixed ones, two relocation blocks and
  imports. x87: three registers, five masks, four instructions, enough to fill,
  overflow, empty and underflow the stack. About 177,000 states.

Deadlock is not checked in the runs of `X86Engine`, `WaveOut`, `Ps5Log` and
`Services`: the engine's caller stops after an error, the runtime ends by
teardown or abort, a console without power and a server that has read all of it
have nothing left to do, and each part of `Services` comes to its end or its
bound. The runs of `X86Regs` and `X86Flags` check it.

Every property has a seeded bug, an operator placed before the one it replaces
(`LinkToChainEntry`, `TouchedFirst`, `SpilledNone`, ...), under which TLC reports
the property violated; `PROJECT.json` pairs them.

### Fairness

`WaveOut` and `Ps5Log` state some. In `Ps5Log` it is `WF_serverVars(Serve)`: the
selector loop of `ps5logd.py` runs, reports what is ready and lets time pass for
silent datagram sessions; nothing is assumed of client, network or power.
`RunsFinalized` is therefore about the server alone, and excepts a TCP peer that
froze with its socket open, which the code has no timeout for.

In `WaveOut`, `WF_vars(Worker)`: the thread is scheduled and
`sceAudioOutOutput`, a blocking call of one block's duration, returns, with or
without error. `WF_vars(Pump)`, `WF_vars(Call)`: the loop of
`native/runtime_main.c` pumps at every turn and each guest call or engine step
returns, which for the engine is `ChainBounded`. `WF_vars(CloseReturns)`,
`WF_vars(ExitJoined)`: a call under way returns; `pthread_join` does once the
worker has exited. A spurious wake-up (`WorkerWakes`) is allowed and not fair,
so that `BuffersComplete` and `TeardownFinishes` rest on the broadcasts of the
code alone; the seeded bugs of both drop one broadcast. Nothing is assumed of what
the guest does: it may never write, reset or close.

## 4. Proofs

For every value of the constants within their ASSUMEs, checked by tlapm to the
last leaf.

**`X86Engine_proofs`** — any guest program, hash, cache size, arena, page size,
quantum and number of generations: `TypeCorrect`, `CacheAlwaysSound`,
`LinksAlwaysSound`, `ChainsAlwaysBounded`, `AlwaysRunsSealed`,
`RetiredAlwaysExact` and `AlwaysFollowsGuest`; `AlwaysRunsSealed` and
`AlwaysFollowsGuest` for callers that stop after an error (`CallerRetries =
FALSE`, which the violation run shows is needed). None of the properties is inductive alone. `IInv` adds:

- `TableOK`, a predicate of a *table value*, so that it can be cited of the
  table half-way through a step, after publishing and before linking. It
  carries the probe-chain fact the code depends on and never states: every slot
  probed before a used entry is used, which makes "found" and "unique" survive
  later publications in an append-only table; and that the code ranges are
  apart and below the cursor.
- `LinksIn` (unless the engine has failed), `LinkSound` of a table value. Its
  preservation has three cases, as in the code: forward links of the new entry,
  backward links of the old ones (`LinkAllOK`), and the late resolution of
  `last_exit_slot` (`ResolvedOK`). The last needs no fact about how old the
  slot is: the code checks target and `linked` again, and that is enough.
- `PagesSealed`, that every page with published code is RX unless the engine
  has failed; the lemma `NewPagesTouched` is the page arithmetic of
  `protection`.
- `Running`: budget plus transitions never exceed the quantum, the count kept
  by the code is the real one while running, and the dispatched entry is the
  running one before the first transition. The last conjunct is the exact
  reason why `RetiredExact` holds there and not after a link.
- `Stopped`, that a failed engine is not entered by a caller that stops.

The step lemma is split as the module is: `StepPreserves` (dispatcher),
`CodePreserves` (exits and faults), `OwnerPreserves` (resets and setters).

**`X86Regs_proofs`** — any finite set of registers and any number of host
registers: `OperandsAlwaysCurrent`, `CanonicalAlwaysCurrent`,
`CleanAlwaysCanonical`, `TypeCorrect`, assuming `RawHazard = FALSE`: the forms that
bypass residency meet no dirty operand, source or destination, and a byte store no
resident register it overwrites. The
invariant is the conjunction of the four properties: `CleanIsCanonical` is
what makes the spill of only the dirty registers enough for the other two, and
`TypeOK` bounds the dirty mask by the residents, without which a spill would
have nothing to store.

**`X86Flags_proofs`** — blocks of any length over the instruction classes:
`FlagsTyped`, `NeverStale`, `FlagsAlwaysReturned`, assuming `MulHazard` and
`TrapHazard` FALSE (section 5 shows both are needed), and
`DeadAlwaysOverwritten` with no assumption. They rest on what the backward pass
computes, a recursive function over the block. The lemma `Least`, that a
nonempty set of naturals has a least element, stands in for induction: the
shortest suffix on which no such function exists, or on which it says
something wrong, contradicts itself. So `LiveIs` gives the recursion equation of
`Live`, and `DeadUntil` that a flag dead at an instruction stays unread until
one overwrites it. `FlagsInv` is then a short invariant: the current copy of
each live flag is where the emitter thinks it is, in the snapshot for those in
`known` and in the canonical word for the others.

**`WaveOut_proofs`** — any tokens, queue, ring and order of calls:
`TypeCorrect` and `DeviceAlwaysOwned`; for a guest that leaves queued headers
alone (`GuestRewrites = FALSE`), `TokensAlwaysAccounted`, `DoneAlwaysMeansPlayed` and
`ServiceKept`, the refinement of `AudioService`; and, for such a guest and a ring of
as many slots as there are headers, `RingAlwaysHasRoom`. `AudioService` keeps sets
of tokens: that blocks are played in the order written is not stated.
Three invariants, each over the one before:

- `TypeInv`. `OwnedInv` adds to `DeviceOwned` that output happens only while
  the backend is open, and that it is closed between the unlock of
  `waveOutClose` and `sceAudioOutClose`, where the worker may run but can no
  longer take a block. `Shape`: what is queued is of the current generation.
  `Turns`: an error is never cleared. `Counted`: the blocks left of each
  submission are counted, which bounds ring and queue together.
- `TokenInv`. `Once`: over worker, queue, ring and the completions on their way
  to the guest a token is held once, and its header is marked. `Accounted`: a
  marked header is held somewhere, until an error.
- `PlayInv`. `Ordered` and `Exact` relate ring, worker and queue to the history
  of what was accepted, which is what a step of `AudioService` is about.

**`Ps5Log_proofs`** — any limits, any failure of sends, connections and power,
any order of calls, reads and datagrams. `StdioAlwaysRestored`, assuming
`CaptureHazard = FALSE`: the invariant `Redirected` says that what is
redirected leads to the channel, can be put back, and is recorded as active,
which is what makes a release reach it. `LogTyping`, `GapsAlwaysCoverLoss` and
`ManifestsAlwaysMatch` need no assumption but that a behaviour has at least as
many runs as stream connections (`ServerAssumption`: otherwise the bound would
stop a read half-way) and that the set of limits is finite. Client and server are
written as functions of a world, and each function has a lemma that it keeps
the invariant of a world; an action then only puts the world back in its
variables. The server's invariant `Sound` adds to the types:

- `Sessions`: a session's run is open and its own; over TCP a connection has
  one run in its life, so the bound on runs is never met.
- `Covers`: the last number observed is in the log, and every number missing
  below the greatest one and after the first is in a gap. A number that arrives
  late lowers `last`, and the gap that opens then covers what the next one
  skips again; this is why it holds in any order.
- `Paired`: logs on disk are distinct runs, an open run has its log unless it
  was pruned, and an ended run has both or neither. `Pruned` keeps it because
  it takes the log and the manifest of the same runs.

`close_all` goes through the sessions one by one, a recursive function; again
the least session that would break the invariant contradicts itself.

The module also proves, under the same assumptions,
`StreamAlwaysContiguous` and `CompleteAlwaysComplete`. A `Place` is how far a
reader of a stream has come: the number of the last record, and whether nothing
numbered may follow, after a BYE or a record that breaks off. `Reads(T, s, u)`:
the tokens T lead from place s to place u, each record being the next, each
HELLO naming the next and each BYE that counts naming the last, or, if it broke
off, one of what its number may have been cut to (`Shortened`, closed under losing
one more digit; `Names`). `StreamInv`
adds to the store:

- `Fine`: the first record, the BYE and the HELLO a manifest speaks of are in
  its log; over UDP every datagram is whole and, while no gap is seen, the
  numbers go up by one. That is all UDP allows, and with a BYE seen, a first
  record 1 and a last one equal to the BYE it is enough.
- `Right`: over TCP, what the server has written of a connection, what it has
  read and not written, and what is in flight, one after another, can be read
  from some place on; for the channel the client has open, it ends at the
  client's own count (`Flow`). A socket not yet used left no trace (`Unused`).

An action of the server moves tokens from one of the three to the next, or
drops a newline; one of the network keeps a prefix of what is in flight, and the
end is then no longer open; one of the client adds a token that may stand where
the count is. Sends that break off, the release of a capture and the restart of
the count by `ps5log_init` each have a lemma of their own.

**`Titles_proofs`** — the native title, the gate it may be started from, and
the images it loads.

- `RuntimeAlwaysSound`, with `FramesAlwaysWhole` for its conjunct about
  pictures, for any number of frames, any lag of GPU and display, any call
  refused. `FramesInv` says for each rest of the command buffer what the display
  shows and what flip is on its way: the buffer the GPU is about to copy into is
  neither shown nor waiting to be. `HoldingInv` says that what is held is what a
  start-up would have acquired up to some point, in its order, less what was
  given back, so that users go before what they use.
- `GateAlwaysHonest`, for any programs, any imports (cycles included), any
  bounds and any calls refused. The invariant has four arguments. *Spans and
  mappings*: every span is of the root or of a module the registry owns, every
  mapping of a module it maps or of a refused release (`GtFiles`, `GtMaps`), so
  a registry that is empty leaves nothing but refusals. *Accounts*
  (`GtAccount`): what was refused and what was ignored are together no more than
  the refused calls (`GtLeft`); the report has the records owed so far unless some
  are missed, and only a full report misses any, so an exit record, for which
  there was room, means that none is (`GtTold`). *Resolution*
  (`GtResolved`): up to the import the cursor is at, edges are the imports of
  the modules before it and no others, depths grow with the index and an edge
  goes at most one deeper; when the cursor has passed the last module this is
  `Closed`. *Order*: the modules being visited are a path of imports that reach
  one another (`GtTrails`), and an import already passed over is listed or is
  on that path (`GtSeen`). When a visit ends, each import of the module is
  therefore listed before it or reaches it, which is a cycle. The order ends
  with every module in it since a list without repetitions, as long as the
  registry, has all its numbers. `Reaches(i, j)` is "every set closed under
  imports that has i has j", which needs no recursion over the modules.
  `GtRights` carries what a finalized page was given; that no page has a right
  of no section rests on a lemma about the runs of pages with equal rights.
- `ImageAlwaysSound` and `ImageTyping`, for any file: `PeImageAssumption` gives
  headers and sections any numbers of the width they have (`FileHeaders`), and
  asks only that pages divide the range of a word. `PeInv` says what the checks
  establish for what comes after them: what the plan has of each section is
  what the file holds (`PeFits`), sections follow one another behind the headers
  and end at `previous_end` (`PePlan`), and the end fits in the image; the rest
  of a relocation block is bounded by what is left of its directory. Each
  touch, read and slot is then inside because one check, made once, bounds it;
  the arithmetic is over naturals with the overflow of each `uint32_t` sum
  as a case of its own (`AlignUp`, `SpanOk`).

- `TitleTyping` and `GateTyping`, from `PresenterAssumption`, `TitleAssumption`
  and `GateAssumption`: the bounds of a behaviour are numbers, and the report
  has a line. In a teardown what bounds the list of closes is that it names a
  part once (`OneEach`) and never again one whose close was refused
  (`TitleBounds`); in the gate registry, files in memory, refusals and the
  report stay within theirs, and what is counted is a number, edges being finite
  (`GtBounds`).

**`Desktop_proofs`** — `WindowsAlwaysSound`, `SurfacesAlwaysSound` and
`DesktopTyping`, for any classes, sizes, capacities of the tables and scenes
(`WindowsAssumption`, `GdiAssumption`, `DesktopAssumption`), and any nesting of
creations, dispatches, updates and initializers.

- The windows: `WnInv`. The handles of windows, menus and cursors are all
  different (`WnDistinct`) and below the next one to be issued, as are those the
  guest was ever given (`WnBelow`). A creation that fails lowers
  `next_object` again when its handles are the last, which a handle the guest
  holds must not be among: those of a creation under way no call has returned,
  and one that a procedure was passed and no call returned names no window that
  is found (`WnHidden`); and the creations under way are the slots being created, each
  with its handle (`WnCreating`). What names a window names one
  that is there (`WnNames`), and keeps doing so in whatever callback the window
  is destroyed, because destruction takes messages, focus and items with it.
- The surfaces: `GdInv`. They lie apart in the pixels (`SfPlaces`), an owner
  has one target and a bitmap a handle of its own (`SfNamed`), a context's slot
  holds what it stands for (`DcHolds`), and the counts of selections are
  the cardinalities they stand for (`DcCounts`, `DcPalettes`), which a change of
  selection moves by one at two places.
- Together: `DkInv` adds that a target is a window's that exists and has its
  size (`DkTargets`), and that the context a painting window remembers was given
  out, and is its own if it is still there (`DkDcs`): a context's handle is not
  issued again, so one released behind the window's back stays unknown.

**`Services_proofs`** — `StateAlwaysSurvives`, for any number of slots, any
paths, names and values, and `StageAlwaysSound`, for any set of builds and any
number of frames, and `FpAlwaysPrecise`, for any number of registers and any
masks. `HeapServes`, the refinement of `HeapService`, with `HeapAlwaysValid` and
`HeapTyping`, for any heap of whole granules, any length of the block table, any
requests (zero and those that no heap can hold included) and any writes of the
guest into what it was given. `PartsAlwaysSound` says all of these, and those of
`Titles_proofs` and `Desktop_proofs`, of the composition, in which one part
runs and the others rest, and with them `ServicesTypeOK` as a whole (`PartsInv`
puts the invariants of the parts side by side).

- The registry: `StateInv` says that an image saved can be decoded and holds
  each key once (`ImageOk`), that a registry has each value under a live key
  (`RegOk`), that what is being written is the image of the registry, and that
  the file at rest is whole, safe, and one that was acknowledged (`Kept`). A
  crash can then only leave such a file. A teardown that reports success has just
  saved the registry or had nothing new to save. `Decoded` gives a registry back with
  the same keys in the same places, which is why the next start is one too. It
  assumes `EmptyKey = FALSE`: with the empty key of section 5 the next start
  does refuse the file.
- The native titles: `StageOutstanding` says the events to be read, the flips
  on their way and the command buffers of the GPU are, one after another, the
  buffers sent and not retired, and that the fence of each that the GPU has is
  up; since two in a row never share a slot, a fence that is down
  (`StageWaiting`) means the oldest is done. So when the title goes to give
  back nothing is in flight, and the event it reads is that of the frame it
  waits for. `DisplayClosedFirst` is the fact about the order of release that
  keeps the screen on mapped memory. It assumes `EarlyExit = FALSE`, the case of
  section 5 in which the watchdog ends "E" with a flip in flight.
- The x87 unit: `X87Inv` says that registers and tags tell the same and that
  what pends is raised and not masked. `FpPrecise` is what one instruction may
  come to; there is a lemma for each form, and under it lemmas on what a push, a
  pop and a write do to TOP, to the tags and to the number of registers in use
  (`FpPush`, `FpPopped`, `FpCounts`), and on what the arithmetic may yield by
  class. The subtle case is the fault with its exception masked
  (`FpRespond`): TOP must move although no register is filled or emptied.

- The heap: `HpInv` says that the blocks follow one another from the first byte
  to the last in whole granules, each in use holding at least what was asked for
  (`HpTable`), and that no two free blocks touch (`HpSpaced`). What the guest
  sees is then a matter of two facts of each call: which block in use it adds,
  takes away or replaces (`HpMore`, `HpFewer`, `HpOther`), and which bytes stay
  (`HpStill`) or come along (`HpCopied`). The subtle case is `free`: between
  marking the block and merging, free blocks touch at up to two places
  (`HpSpacedBut`), and each merge takes one away (`HpMergedFree`). A `realloc` that
  shrinks gives the rest to the free block behind it, to an entry of its own, or
  keeps it when the table is full (`HpShrunk`); one that grows in place takes all
  of the free block first (`HpMergedUsed`) and then shrinks. That
  `pw_guest_heap_validate` never fails (`HeapAlwaysValid`) follows, so the early
  return it guards in each call is never taken.

Every invariant and action property of a passing run is thus a theorem, under
the assumptions named. What is only model-checked is liveness
(`BuffersComplete`, `TeardownFinishes`, `RunsFinalized`), which is out of the
prover's reach, with fairness and ENABLED. The library's induction theorems are too, since they take
an operator as a parameter; where induction is needed a least counterexample
is used instead, which costs a definition of the counterexamples each time.

## 5. Findings

Each is a violation run, and a behaviour of the C code as it stands.

1. `x86_engine_poison` — `engine->failed` is set and never tested by a step;
   after a failed seal the published block is dispatched on the next step.
2. `x86_engine_retired` — the partial count of a fault uses the dispatched
   entry, wrong after a linked transition.
3. `x86_regs_raw` — four instruction forms bypass the resident registers: SETcc
   and 16-bit immediate ALU as they update a part, byte ALU between registers
   also as it reads, a byte store as it keeps its address.
4. `x86_flags_mul` — one-operand MUL and IMUL write flags over pending ones.
5. `x86_flags_trap` — register-form DIV and x87 trap without being a barrier.
6. `wave_out_close` — `waveOutClose` closes the backend, then answers
   `WAVERR_STILLPLAYING`.

Also noted, with no run. Where a behaviour is excluded, a constant of the
passing run says so and TRUE shows it.

- *Audio.* A close that races the last block after a reset aborts the runtime
  (`native/pw_audio_ps5.c:222`); a full message queue aborts after the header
  was marked done (`src/pw_win32.c:838`); a worker error hides completions
  already in the ring (`native/pw_audio_ps5.c:196`), which `AudioService`
  allows because a failed service promises nothing.
- *Log completeness.* `PROTOCOL.md:77-78` takes an empty `gaps` list with
  `clean=true` for evidence of a complete log. The server sees a gap between two
  records only (`server/ps5logd.py:159`): over UDP the first records, or the last
  before the BYE, can be missing without one. `CompleteIsComplete` therefore asks
  for a first record 1 and a last one equal to the number in the BYE as well.
- *A cut BYE.* The server accepts every number a BYE shows
  (`server/ps5logd.py:76`): the line `BYE seq=12`, broken off after `BYE seq=1`, is a
  BYE with number 1 and the manifest calls the run clean, where
  `PROTOCOL.md:51-54` says the number is that of the last record. The properties
  allow for it through `Shortened`: the log shows that the line is broken off.
- *Capture.* If `dup2` of stderr fails after that of stdout, `capture_active`
  stays 0 and releasing does nothing: stdout stays on the socket
  (`client/ps5log.h:592`; `CaptureHazard`).
- *Registry.* `RegCreateKeyExA` of a predefined key with an empty subkey is
  saved with an empty path, which the decoder refuses (`src/pw_registry_store.c:71`):
  the next start refuses the file (`EmptyKey`).
- *Gate.* `src/pw_gate.h` says a failed load still produces its exit record:
  the report holds 256 lines and the record is dropped when they are full.
  `src/pw_gate.c:367` says counts are captured before release zeroes the
  registry: a failed load has released already. `native/main.c:360` says every
  reservation is released before the channel closes: not one whose release the
  backend refused, and `src/pw_loader.c:366` leaves no second try. Refused
  munmaps whose result is ignored (`src/pw_vm_posix.c:77-80`,
  `native/pw_file_ps5.c:230`, `native/pw_compat32_ps5.c:255-257`) leave mappings
  too, and the exit record says ok. `GateHonest` counts them: no more is left
  than was refused.
- *Stage E.* The bootstrap flip is built and submitted (`stage_b_main.cpp:1337`)
  before `g_transaction_possible` is set (1493). In between, the watchdog ends
  the process with a flip in flight, where `verify_stage_e.py:156` announces
  "park and retain all resources" (`EarlyExit`). Checkpoint 5 (line 1526)
  finishes in the same window; that build is not modelled.
- *x87.* `_CIacos` and `floor` work on a copy of the unit, so an unmasked fault
  in them leaves no status or pending state, unlike one in an instruction
  (`docs/GUEST_ABI.md:296-297`). A store to an empty ST(i) counts as a stack
  underflow, and infinity over zero raises the zero-divide flag.
- *Windows.* These end the title: dispatching or updating from inside a
  dispatch or update; a WM_PAINT procedure that destroys its window; showing a
  window with the queue full; waiting for a message on an empty queue with no
  window; destroying a window with a context outstanding, or ending a paint
  whose context the guest released; a resize without room. Destroying the
  desktop's handle clears the desktop's pixels and fails; a bitmap once
  replaced, the stock bitmap cannot be selected again; `EndPaint` leaves
  `needs_paint` set.
- *Presenter.* A suspend failure or a fence that does not come within its time
  ends the process while the GPU may still execute
  (`native/runtime_main.c:228`). An unregister answered 0x80290009 counts as
  done. A release that is refused clears the descriptor, so it is not repeated.

## 6. Not modelled

- What integer instructions compute (`src/pw_x86_block.c` decoding): data over
  2^32 values, covered by the repository's differential tests. Likewise the
  digits of x87 results.
- Files, profiles, resources, time and CRT formatting of `src/pw_win32.c`,
  `src/pe_resource.c`, `src/pw_ini.c`: each call answers from its arguments or
  one table entry.
- The text of the import table and of the log's records; drawing; the encoding
  of GPU packets; what the stages of the native titles draw, and the builds
  that stop at a checkpoint.
- Supervisors and deploy scripts, SDK, other legacy titles, research notes: no
  state of their own at run time, or a protocol whose other side is closed.
- `AudioPs5` leaves out volume, statistics and sample conversion;
  `X86Engine` the counters of its statistics; `GuestWindows` icons, window text
  and window longs, and the register frame a callback restores, which
  `X86Engine` sees as `SetEip`.

## 7. Plan

Done: 1 `X86Engine` and its proofs; 2 `X86Regs` and its proofs; 3 `X86Flags`;
4 `AudioService`, `AudioPs5`, `WaveOut`; 5 `Ps5Log`; 6 `StateStore`,
`GuestHeap` with `HeapService`, `Loader` and `Gate`, `GuestWindows`, `Gdi` and
`Desktop`, `Presenter` and `TitleRuntime`, `AgcStage`, `PeImage`, `X87`, with
proofs of every safety property of a passing run.

Left, in order:

7. Callbacks composed with `X86Engine`: the frames of `src/pw_guest_call.c`
   entered and left between two steps, in place of `SetEip`.
8. The guest's files and resources (`mmio`, `fopen`, `_lopen`, resource
   handles), the only tables of `src/pw_win32.c` left.
