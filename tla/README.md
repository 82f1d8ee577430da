# The Phi AVX-512 offload in TLA+

The repository runs AVX-512 code of unmodified host programs on Xeon Phi
coprocessors. A host program meets an instruction its CPU lacks, the SIGILL
handler translates the function, and a worker on a card runs it over the
program's own memory. This directory holds TLA+ specifications of the parts
where that can go wrong in ways a test hardly reaches, the TLC configurations
that check them, and proofs.

Paths below are relative to the repository (`src/` in `PROJECT.json`).

## 1. Inventory

| component | source | state | operations | model |
|---|---|---|---|---|
| slot protocol, program side | `host/asm/phi512/card.S` | CD_SEQ, the window's request block and SLOTSEQ u16 | `card_add`, `card_load_seed`, `card_post`, `card_wait`, the posts of each kind | Slots |
| dispatcher | `card/vpu/sched.S`, `worker.S` | slotseq_seen, slotseq_now, the shared page | `slots_start`, `slots_poll`, `main_loop` | Slots |
| slot process | `card/vpu/sched.S`, `fexec.S` | sched_last, parked flag, the blobs in fx_tab | `sched_wait`, `sched_main`, `land_wait`, `fexec_load`, `fexec_flush` | Slots |
| card DMA channel | `card/vpu/cdma.S` | the descriptor ring, cdma_seq, the status word | submit, wait, close | Slots |
| residency, host | `host/asm/phi512/card.S`, `sigill.S`, `region.S`, `elf.S` | CD_TAB, RE_FILLED, c0_n, c0_ring, wu_tab | `card_need`, `card_resident_post/done`, `c0_victim`, `stripe_needs`, `ro_need`, `wu_ensure` | Residency |
| residency, card | `card/vpu/resident.S` | RT_ADDR, RT_STATE, res_mapped, res_at, wmap_tab | assign, pull, drop, place, unplace, flush | Residency |
| host worker pool | `host/asm/phi512/pool.S` | the job block, pool_workers, pool_pid | `pool_start`, `pool_run`, `pool_worker` | HostPool |
| greedy generation with drafts | `host/crates/phi-pld/src/decode.rs` | pos, pending, checkpoint, k, the model's context | `prefill`, `prompt_cuts`, `generate` | Generate |
| region execution and coherence | `host/asm/phi512/region.S` | shadows of writable units, stack floors | refresh, write-back, exits | only its requests for memory, in Residency |
| SIGILL handler | `host/asm/phi512/sigill.S` | its lock, the stripes over cards | plan, stripe, post, push back | partly, in Residency |
| instruction patcher | `host/crates/phi512/src/patch.rs`, `handler.rs` | the program's text, the site table, PATCH_LOCK, the arena | `on_sigill`, `on_sigtrap`, `try_patch`, `patch_locked`, `phi512_patched` | Patch |
| register exchange and emulator | `host/crates/phi512/src/state.rs`, `frame.rs`, `handler.rs`, `emulate.rs` | zmm, masks, `last_low`, the signal frame | `sync_in`, `sync_out`, `pull_live_registers`, `push_live_registers`, `step` by family | Registers, Emulate, Avx512 |
| region builder | `host/crates/phi512/src/offload.rs` | work list, included, exits, thunk area, code image | `analyze`, `reserve_thunk_chunk`, `code_pages`, the phases of `run` | Analyze |
| loop planner and thread split | `host/crates/phi512/src/plan.rs`, `card/vpu/exec.S` | values of registers, ranges, slices | `find_loop`, `iterations`, `Tracker`, `splittable`, the slices' run | Plan |
| offload of phases, demand paging | `host/crates/phi512/src/offload.rs`, `card/vpu/exec.S`, `worker.S`, `host/crates/phi-vpu/src/window.rs` | request, reply and mail lines, two pairs of slots, chunks, snapshots, the stash | `submit`, `wait_serving`, `apply_pages`; fetch, fault, write back, reply | Offload |
| translator in Rust | `host/crates/avx512-xlate/src/rewrite.rs` | the sequence being built, the registers borrowed | `rewrite` by family, `Em`, `commit`, `finish` | Xlate, Thunk, Evex |
| card worker pool | `card/vpu/worker.S` | generation, per-core counts | post, park, wake | not modelled |
| legacy requests | `card/vpu/worker.S`, `matmul.S`, `host/crates/phi-vpu` | REQ and REPLY lines | request, reply, timeout | the lines in Offload, the DMA copy in Slots |
| ggml backend | `host/asm/ggml-phi` | which weights lie on which card | place, fall back | not modelled |
| drafters and n-gram caches | `host/crates/phi-pld/src/lookup.rs`, `ngram_cache.rs` | the context, dynamic and static caches | extend, draft, merge | any draft, in Generate |
| assembly translator, decoder tables, kernels | `xlate*.S`, `mvex*.S`, `x86tab.inc`, `kernels.S`, `rows.S` | none that outlives a call | instruction selection, arithmetic | not modelled |

**How they interact.** A host program and a card share a window of memory. The
program writes a request block and then a u16 of the SLOTSEQ line. The
dispatcher, one process on the card, polls that line, submits the request's
DMA copy, writes the job into a page it shares with the slot process, and wakes
that process if it is parked. The slot process reads the request block itself,
waits for the copy's number in the engine's status word, serves the request and
stores a reply of two lines, the numbered one last; the program polls the
number. The residency layer is a client of that exchange: the host keeps a table
of what the card holds, chooses victims for a pool it cannot see, and the card
assigns, fills and places pages as the host says. The region path's refresh
splits its work over the host's worker pool.

The Rust library (`phi512`) is the other way a program's AVX-512 is served. A
fault enters `on_sigill`. With emulation it performs the instruction on the
library's registers and rewrites the site into a jump so that the next execution
does not fault (Patch, Registers). With a card it builds the region around the
instruction (Analyze), whose AVX-512 instructions are rewritten for the card
(Xlate, Thunk), plans the memory and the threads of its loops (Plan) and sends it
in phases to the worker, which asks for memory by mail and writes back what it
changed (Offload). Generation (`phi-pld`) is the
program the cards are used for: it sits on llama.cpp and shares no state with
the protocol.

**What is hard here.** Four agents (program, dispatcher, engine, slot process)
without a lock, ordered only by the order of their stores; sequence numbers
that wrap and start over in every session in memory that outlives sessions; a
program killed at any instruction; a worker that restarts; a DMA channel that
closes; two tables (host's and card's) that must agree without ever being
compared; code rewritten while other threads run it; half a register file in
hardware that nobody reports writes of; a planner whose every rule is a claim about
loops; pages of one program in two places with only the changed bytes sent back; a
sequence that borrows registers of the instruction it stands for; a futex with a parked flag; a pool that counts returns and not
workers; a recurrent state that can only be taken back through a checkpoint made
some batches earlier. `PROJECT.json` lists each hazard at its line.

**What makes each part correct.**
- Slot protocol: an answer taken is the answer to the request waited on, computed
  on that request's data and that session's blobs; no wake is lost; each request
  is served at most once, in order; every request is answered.
- Residency: what the card reads is what the program has at that address; a chunk
  always finds a page; the two tables agree; a fault's own rounds bring what it
  asked for and do not throw it out.
- Worker pool: each item runs once, in a buffer no one else uses; when a job
  returns no worker is in it; every job returns.
- Patcher: every execution of an instruction performs it once, whichever way it went;
  no thread dies of a rewrite or waits on one for ever.
- Emulator: the program cannot tell its registers and memory from an AVX-512
  processor's.
- Region builder: the card runs the program's instructions and leaves where the
  program is; the thunk area is nobody else's.
- Planner: the loop as planned, on several threads, is the loop.
- Offload: the program's memory after a phase is what the phase does to it, other
  threads' stores included; a phase that fails leaves nothing; every phase ends.
- Translator: a sequence leaves what AVX-512 defines and touches nothing else.
- Generation: the output is the model's own, whatever was drafted; the context
  always holds exactly the decided tokens; a rejected draft can be taken back.

## 2. Modules

### Slots (and Exchange)

`Slots` has one variable per piece of shared or private state, grouped by owner
(host, window, dispatcher, shared page, engine, slot process), one action per
stretch of code between two accesses that another agent can see. A request is
named by `<<session, number>>`. The session is not in the window: the code
restarts at 1 in each session, and the model keeps the session beside the number
to say whose data lies where. The registers or the chunk that a request carries
are that name too, so that "computed on its own data" is an equation.

| actions | code |
|---|---|
| HostOpen, HostCompose, HostRing, HostTake, HostLeave | `card_add`, the composing of a post, `card_post`, `card_wait`; the program's end at any point |
| DispPoll, DispPass, DispPrepare, DispJob, DispWake | one pass of `slots_poll`: the line read, the slot's u16 compared, the copy submitted, the job word stored, the parked flag looked at |
| DispScanned, DispAwake, DispLegacy, DispLegacyDone | the idle sleep of `main_loop`; a request on the legacy line, by its DMA copy |
| EngineCopy | the DMA engine (external): copies in the order of the ring, then the status word |
| SlotLook, SlotSpin, SlotRecheck, SlotFutex, SlotUnpark | `sched_wait`: look, flag, fence, look again, futex |
| SlotRead, SlotFlush, SlotLoad, SlotRun, SlotMove, SlotGiveUp, SlotReply2, SlotReply1 | `sched_main` by kind, `land_wait`, the reply's two lines |
| WorkerRestart | the worker started again over a window that keeps its contents |

`Exchange` is what a slot promises without any of that: requests asked, served,
in order and once, and an answer that is one's own. A program is out, ready or
waiting; only `Take` brings it from waiting back to ready, and only with the request
it asked for served, while `Leave` (death, a timeout, an answer that says the request
failed) takes it off the slot. `ImplementsExchange` is the refinement: `asked` is
`posted`, `program` is the host's state.

The environment's liberties are named by the constant `Env`:
- `"early"`: a program may leave while its first request is the last job the slot
  saw. Without it the model assumes that a session gets past its `K_FLUSH`.
- `"unsettled"`: a new session may start before the card has looked at the last
  post of the one before. Without it the model assumes what `card_add`'s 1 ms
  sleep is there for (`card.S:176`).
- `"close"`: a copy may miss its 100 ms, which closes the channel.

The passing runs hold under these assumptions; `SlotsEarly`, `SlotsUnsettled`
and `SlotsClosed` show what happens without them.

### Residency

One card, one program after another. A chunk (2 MiB) has `NUnits` units; a unit's
bytes are `<<chunk, version>>`. Requests go through in four steps (post, assign,
fill, done); the exchange under them is `Slots`. `Post` with `Pin`, `EnterRing`
and `Evict` is `card_resident_post` with `c0_victim`; `Assign` with `PageFor` and
`Dropped` is the dispatcher's part; `Fill`, `MapUnits` and `Run` (`Stale`,
`Fresh`) are the slot process's. `Placeable` is `res_map_all`'s runs of pages, of which
only the first address is tried. `RegionEnter` (with the units of the stack, `Stack`), `Access`, `Fault` and `AheadOf` are
a region's way through memory with read-ahead, `CallEnter` with `Lacks` (`card_need`)
and `NeedOf` (`need_add`) a planned call's needs, queued in any order. `ReadsOwnBytes`
speaks of every place of a region, and for a planned call of the units the host's
table says were sent; `CallReadsOwn` and `OperandsPlaced` say more of planned calls
than the code keeps. `Env` says which callers there are (`"regions"`, `"planned"`), and
allows one program both (`"mixed"`), planned calls to write operands (`"written"`)
and the program to remap read-only memory that the card holds (`"remap"`).

### HostPool

One group's job block. Every load, store and locked instruction on it is a step;
the work on an item is one step, recorded in `ran`. `Env` allows a fork after a job
(`"fork"`; a fork before the first needs no liberty) and a `clone` that fails with
some workers made (`"clone"`).

### Generate

`generate` over the `Model` trait. `full` is the prompt and what the model would
say after it, token by token; after a context that is a prefix of `full` the model
chooses the next token of `full`, after any other context it chooses anything.
`cells` and `state` are the tokens in the attention cells and in the recurrent
state, with truncation and checkpoint as `sim.rs`'s `Replay` has them (the
repository's own model of llama.cpp's context). A draft is any sequence of tokens
of a length the code allows, which covers `lookup.rs`, `ngram_cache.rs` and the
test-only junk drafts. `ignore_eos` is an output without end tokens.

### Patch

The text of a site is its first byte and the rest of it; the processor fetches both
together and a thread then acts on what it fetched. A thread goes through
`Execute`, `Fetch`, then `SigIll` to `Step` (`on_sigill`), `SigTrap` (`on_sigtrap`) or
`Stub` (`phi512_patched`); the patching thread through `TryPatch`, `PatchLocked`,
`Publish`, `BuildStub`, `Unprotect`, `WriteTrap`, `WriteRest`, `WriteJump`, `Ready`,
`Unlock`. Each is one access to the text, the table, the lock or the count.
`Faults` lets mmap and mprotect fail and (`"torn"`) lets the handler read the text
byte by byte while it changes.

### Registers (with Emulate and Avx512)

`Emulate` has the families of `emulate.rs` as operators on a machine (`zmm`, masks,
general registers, flags, memory, and the memory touched), over four lanes of
dwords; `Avx512` says what a processor does, lane by lane, without reference to the
code. `Registers` is one thread: `Evex` is an AVX-512 instruction, faulting (`PullLive`,
`PushLive`) or at a patched site (`Pushed`, `Popped`, `SyncIn`, `SyncOut` with
`VectorRegs`), `Vex` an AVX2 instruction. `arch` is the processor the program
believes in. `Vex` writes a low half different from the one left there: `state.rs`
says itself that the inference misses a coincidence in 256 bits.

### Analyze

A text is a sequence of instructions with a kind, a length and a target; `AddrOf`
gives them addresses, and `TextsAssumption` says what a text is (a branch, to an
instruction or into the middle of one; an instruction that goes out of line, at most one
byte short of the jump). A branch into the middle of an instruction is followed
to no instruction: the walk makes it an exit.
`WalkSeen`, `WalkExit`, `WalkInclude` are the work list of `analyze`, `WalkDone` its end, with a region over
two chunks refused (`Spans`; a chunk ends at `Edge`); `Layout`,
`SiteLast`, `Movable`, `SiteEnd`, `Overlaid`, `Painted`, `Ud2` the image, of the region's
chunk alone (`InChunk`, `Fits`), refused when its thunks are too many (`MaxThunks`);
`ReserveThunk` with `ProgramMaps` the reservation against other threads, with a number
of tries (`Tries`); `IsLoop` what `find_loop`
accepts, without the counting; `Dispatch`, `Run`, `ToThunk`, `Leave` the card on that
image, beside the program. `FaithfulApart` is `Faithful` for the texts that meet what
the code takes for granted: `Apart`, that no exit has the region or another exit at its
second byte, where `ud2` reaches; `OneFlag`, that the branches behind a kortest test one
flag.

### Plan

The pure part (`LoopAt`, `iterations`, `Track` with `TrackStep`, `Note`, `merged`,
`splittable`) is `plan.rs`, with the frame's registers (`Frame`: rsp, rbp) exempt from
what a loop may carry; `PlanLoop` is `plan_phase`, which falls back to demand mode above
`MaxRanges` ranges. `Dispatch`, `Run`, `Fault`,
`Leave` run the loop in slices on the pages fetched, one instruction a step.
`want` is the same loop run in order. `MCPlan` has the loops.

### Offload

`Serve` is the program's side, a step between any two accesses to the window
(`Submit`, `ServeFetch`, `Prefetch`, `ServeWriteback`, `Apply`, `AcceptLeft`, `Retry`,
`Refused`), `CardStep` the engine's (`Poll`, `Take`, `FetchRanges`, `Pull`, `Access`,
the three faults, `Flush`, `Reply`). `WithChunk` is `find_chunk` and, failing that,
`new_chunk`; `RegionsAssumption` says what a region is (phases with a mode, declared
ranges in order of their ends, accesses). A page is one line with a byte of the region and
one of another thread; the region's whole byte of a line is written back when it
differs, another's byte only where the copies differ, which is what `OthersSurvive` says
and `offload.md` too. `Take` copies the bundle's code over the code chunk: the model's
pages carry data, and `Analyze` has what the code is. `Faults`: `"die"`, `"restart"`, and, off in the passing run,
`"push"`, `"pull"` (a copy fails) and `"stuck"` (a restart while the worker waits for a
dead process). A restart leaves the mailbox as it is and the card's count of mails at
0, as `worker.S` does; `FromSlot` is what a mail reads that is taken for answered.

### Xlate, Thunk, Evex

`Xlate` builds, for an instruction, the sequence `rewrite.rs` builds: the emitter
`Em` with what it saved, the helpers by their names, and one operator per family.
`Thunk` runs the sequence on the card's instructions (external), one at a time, with
gathers that complete any non-empty subset and another thread's stores between any
two steps; `Evex` says what AVX-512 defines. Registers have sixteen lanes of a byte,
masks are sets.

## 3. Runs

| run | expects | what it shows |
|---|---|---|
| slots_one | pass | One slot, two sessions of four requests of every kind, numbers wrapping at 2, a descriptor ring of one entry. TypeOK, NoLostWake, OwnData, ConsecutivePostsDiffer and, under fairness, EveryPostAnswered. |
| slots_faults | pass | A restart of the worker, a legacy request and the closing of the channel between any two steps, two sessions: the refinement of Exchange, ReplyIsMine, OwnBlobs. |
| residency | pass | Programs after one another, run by the region path (stack units, faults with read-ahead) or by planned calls of up to three operands: pinned pages, the ring, eviction, an address the worker occupies. ReadsOwnBytes, PoolHasRoom, HostKnowsPool, FaultServed. |
| residency_operands | violation | A planned call's own round evicts an operand it found held; the call runs without it (OperandsPlaced). |
| host_pool | pass | Two workers, two jobs of up to three items. JobComplete, OwnItem, JobReturns. |
| generate | pass | Every model output over three tokens, every draft, attention only and recurrent with 0 and 1 snapshots, adapting or not, carried tokens folded or flushed. Lossless, ContextMatches, TakesBack, WithinBounds, Terminates. |
| patch | pass | Two threads, four instructions, a table of two entries, failing mmap and mprotect. Performed, Survives, JumpsHome, GetsPast. |
| registers | pass | Two instructions in a row of any modelled family at full length, and of those named in `Narrow` at half length, faulting or patched, with AVX2 instructions between; no masked arithmetic on memory. Illusion, TouchesOwn. |
| plan | pass | Fifty-two loops, three start values of the bound, up to three threads in any order. TripsCounted, SameMemory, SameRegisters, Leaves. |
| offload | pass | Seven regions, both modes, death at any step, restart between two processes; every copy succeeds, every region sends more than one mail. PhaseEffect, OthersSurvive, OwnMail, Answered. |
| analyze | pass | Every text of four instructions from three alphabets, entered at any AVX-512 instruction, with the end of a chunk in it. FaithfulApart, ThunkAlone, Settles. |
| thunk | pass | The 1216 instructions of `MCInsns`, memory operands based on rdi, three masks, two contents. AsProgrammed, WithinOperand, Returns. |

Each run says what it leaves out because it does not hold; what then happens is in the
configurations of section 6, each of which violates the property it names.
`SlotsPair` (two slots over one dispatcher and one ring of one entry, which a copy of the
other slot may fill: OwnData) passes. Every module has a `TypeOK`; it is checked by adding `INVARIANT TypeOK` to a configuration, and holds
in all of the passing ones.

**Bounds.**
- `SeqMod = 2` stands for 2048: wrapping is what matters, and two is the smallest
  modulus at which consecutive numbers still differ. Four requests wrap it twice.
- `MaxSess = 2`: what a session can do to another, it does to the next one.
- `InFlight = 1` in `slots_one` and `SlotsPair`: a submission meets a full ring, filled by
  a session that is gone in the one and by the other slot in the other. `slots_faults`
  has two.
- Three pages with a ring of two, and four immutable chunks beside one that is not
  and one whose address is taken: pinned, ring and evicted pages all occur, and
  the ring turns over. Two units tell "the whole chunk" from "a part".
- `MaxPlaces = 3`: planned calls of up to three operands, which is where a call meets a
  chunk it holds in part and evicts itself: within the bounds of `residency` both
  OperandsPlaced and CallReadsOwn are violated. Five of the units are operands, both of
  one chunk and one of three others, and there are two calls, the second of which can
  meet a full ring. The theorem has no such bounds.
- `patch`: three instructions per thread and two entries: a site is met before,
  during and after its patch by both threads, and the table runs full. A third
  thread would be another reader of the same two bytes.
- `registers`: two instructions. Each reads everything the one before left, and
  Illusion is about every register after every instruction, so that a third would
  start from a state Illusion already covers.
- `plan`: registers of five bits, halves of three, pages of two cells: wrapping, a
  32-bit compare and a range that ends inside a page all occur. Three trips (from 2 by
  2 below 8) on three threads give a first, a middle and a last slice; other counts
  are not divided evenly, or leave threads without one. `MaxRanges = 2` is passed by a
  loop of three ranges.
- `offload`: chunks of three pages, write-backs of two pages a slot, two snapshots:
  each limit is passed by one of the regions.
- `analyze`: four instructions hold a loop, a branch into a moved instruction and an
  exit in the middle; the jump is three bytes, so that sites are longer than it,
  equal and shorter. `MaxInsns = 3`, `MaxThunks = 2` and `Tries = 2` are reached, and the
  chunk's end at 9 is inside a text, between two or past it. `ret` has one byte.
- `thunk`: sixteen lanes as on the card, values below 256 in two patterns with
  carries, signs and equal elements; masks of one, three and six bits.
- `NWorkers = 2`: one worker can be late while another is early; a third thread is
  the bound that the mutant of `Clone` needs. Two jobs are one job and its
  successor.
- Three tokens (two ordinary, one that ends), a prompt of three tokens cut into
  three batches, five tokens to generate, a context of seven, drafts of up to two:
  both limits are reached, rejection by checkpoint happens twice in a row, the
  carried tokens outgrow `fold_max`.

**Deadlock** is checked in the Slots runs and in `thunk`. The others stop
where the program does (its bound on jobs, sessions or instructions, "done", "died",
"left").

**Fairness.** `slots_one`: weak fairness of the dispatcher (one process on a core of
its own that loops for ever), of the engine, of each slot process, and of the
program's ringing what it composed and taking an answer that is there; nothing
obliges it to post or to leave. `host_pool`: weak fairness of the handler's
thread once in `pool_start` and of each worker, threads the host schedules;
nothing obliges the program to start a job. `generate`: one thread that goes on; no
failure of the model is assumed to happen. `patch`: weak fairness of each thread,
which the host schedules (a spinning handler included). `plan`: the phase goes on.
`offload`: weak fairness of the program's side and of the card's; nothing obliges
anyone to die, restart or store. `analyze`: the handler goes on; other threads may
map memory a bounded number of times. `thunk`: the card goes on; a gather completes
at least one element each time, which its manual promises.

## 4. Proofs

Each proof module EXTENDS the module it is about and proves for every value of the
constants what the runs show on a small instance. All start from the module's own
assumption on its constants (`SlotsAssumption`, `ResidencyAssumption`, ...), which TLC
evaluates in every run. Where a theorem has a hypothesis of its own, it is one on the
environment (for Offload also on the declared ranges), and a
configuration shows that the theorem fails without it:

| module | theorems (property) | hypothesis | without it |
|---|---|---|---|
| SlotsProofs | Typing (TypeOK), WakeNeverLost (NoLostWake) | none | |
| ExchangeProofs | AnswersAreOwn (ReplyIsMine), BlobsAreOwn (OwnBlobs), JobWordsDiffer (ConsecutivePostsDiffer), SlotsImplementExchange (ImplementsExchange) | `Orderly`: neither `"early"` nor `"unsettled"` | SlotsEarly, SlotsUnsettled |
| | DataAreOwn (OwnData) | `Quiet`: also no `"close"`, no legacy request | SlotsClosed, SlotsLegacy |
| ResidencyProofs | Typing (TypeOK) | none | |
| | RoomAlways (PoolHasRoom), TablesAgree (HostKnowsPool) | `Uniform`: neither `"mixed"` nor `"written"`, `Ring <= NPages` | ResidencyMixed; `NPages = 1`, `Ring = 2` |
| | FaultsAreServed (FaultServed) | `Uniform`, `Ahead < Ring` (8 and 16 in the code) | |
| | ReadsOwn (ReadsOwnBytes) | `Unmoved`: `Uniform`, no `"remap"` | ResidencyMixed, `"remap"` |
| HostPoolProofs | Typing (TypeOK) | none | |
| | JobsComplete (JobComplete), ItemsAreOwn (OwnItem) | `Env = {}` | HostPoolFork, `"clone"` |
| GenerateProofs | Typing (TypeOK), OutputIsGreedy (Lossless), ContextFollows (ContextMatches), DraftsTakenBack (TakesBack), Bounds (WithinBounds) | none | |
| PatchProofs | Typing (TypeOK), JumpsLeadHome (JumpsHome), RewriteKillsNobody (Survives) | none | |
| | PerformedOnce (Performed) | not `"torn"` | PatchTorn |
| OffloadProofs | MailsAreOwn (OwnMail) | not `"stuck"` | Offload with `"stuck"` |
| | OthersBytesSurvive (OthersSurvive) | neither `"restart"` nor `"stuck"`; `DenseAlone` | OffloadMailbox with `Again`; Offload with `Shared = {4}` |
| AnalyzeProofs | ThunkStaysAlone (ThunkAlone) | none | |
| | RegionFaithful (FaithfulApart) | none; the property itself speaks of texts with `Apart` and `OneFlag` | AnalyzeRet; `BothFlags = TRUE` |

Every invariant below was first checked by TLC as an invariant of a run (those of
Residency over 1.7 million states, Offload's with failing copies and restarts), then
proved inductive with one lemma per action and one step per part that the action can
disturb.

**Slots.** `NoLostWake` is two conjuncts. The one that matters is the second: a slot
process asleep with a job it has not taken is about to be woken. By itself it is not
inductive, since nothing would stop the dispatcher from finding the flag down at its
look; the first, that the flag is up from before the second look until after the sleep,
closes that, and the futex's compare closes the rest.

**Exchange.** No property of the exchange is inductive alone, for the window outlives
sessions that all count from 1. `Inv` follows a post along its way: it is fresh in the
SLOTSEQ line, being handed over, handed over, or being read, never two at once
(`WayInv`), and until it is read the block is its own (`PostInv`). `OrderInv` orders
what is posted, in service, served and replied by session and number. The point of the
whole is `LateInv`: a request of an earlier session may still be in service, or its
reply in the window, but then its number is not 1 while the present session is at its
request 1, and nothing of it is left once the K_FLUSH was answered. That is where
`"early"` is needed, and `K_FLUSH` as the only first request. `WordInv` says what the
job word can be before the next post (of the request just before, 0 after a restart, or
of no first request), `BlobInv` that the table holds the served session's blobs.
`SlotsImplementExchange` maps each step to a step of `Exchange` or a stutter: only
HostOpen, HostRing, HostTake, HostLeave and the slot's completion of a request are seen.
HostTake is `Take`, and so the theorem contains that the answer taken is to the request
asked.
For `OwnData`, `ChannelInv` says that the copies in the ring are numbered in a row from
the status word on, and `CopyInv` that the copy named in the job is queued with the
request's data or has landed it, with no later copy of the slot behind it.

**Residency.** The host never reads the card's table, so that the two agree is proved
through the request on its way: `PoolInv` says that the chunks of class 0 the host holds
are resident and those in pages are held, except the chunk and the victim of the request
pending; `CountInv` counts the used pages at each of its steps against `npin` and the
ring; `RingInv` keeps the ring free of repetitions and held; `ClassInv` keeps a chunk in
one class for as long as the program runs, which is what `"mixed"` breaks. `ViewInv`
relates the addresses a slot process has placed to the pages (`res_unplace_stale` before
every run), `FilledInv` the units the host's table has as sent to the chunks it holds,
and `BytesInv` the bytes of those units in a resident page to the chunk in it: for a
region that is the whole page, for a planned call what was asked for so far.
`FaultsAreServed` rests on `Far`: in the ring there are fewer entries behind the
faulting chunk, with those still to come, than the ring has places.
The sets are finite because the chunks are an interval; the counting is the library's
`FS_AddElement`, `FS_RemoveElement` and `FS_Subset`.

**HostPool.** `PG_IDLE` and the done count are read as sets: the workers that have seen
this generation and are not inside it, and the items run and counted (`ShareInv`,
`FinishedCount`). Handler and workers take items alike, so both are hands, and an item
below `next` has been run or is in one hand. `SeenInv` says that no worker is inside a
job of another generation: this is the reason the loop on PG_IDLE suffices.

**Generate.** The invariant gives for each point of the round what cells, recurrent state,
carried tokens and checkpoint are, as prefixes of `full`; `SettleInv` is the one a test
would not state: with the batch decoded, the cells are the decided tokens and then the
draft, and the checkpoint is what the batch followed. The lemmas on `SubSeq` and on
longest agreeing prefixes are stated once at the head of the module. `full` is a
sequence of the model's tokens, so `Lossless` needs no induction over the text.

**Patch.** `TableInv`, `TextInv` and `HolderInv` say who may write: only the holder of
PATCH_LOCK fills the entry behind the published ones, an entry being rewritten is the
holder's, and the text of a site is the program's, or where its entry's rewrite has come
to. `ThreadInv` is what a thread that fetched a byte, or was sent to a stub, still knows
of it. `PatchAssumption` says that `None` and `Other` are neither threads nor sites.

**Offload.** The mailbox carries no session. `Turns` gives the reason that it needs none:
a process that found the readiness word up (after it took it down itself) has found the
card between requests, with none left to take; from its first request on, the card works on
nothing else. `Mails` says that a mail is open only while the card waits for it.

`OthersSurvive` is about one step, `Apply`: a byte of another thread is overwritten there
only when it differs from the page as it was sent. So what comes back for a shared line
must be what went out, and `SurvInv` follows the byte all the way round. `DataInv`: in a
line that no other thread uses, its byte is 0 in every copy. `HostInv`: what was copied
ahead is what its slot holds. `FlowInv`, the heart of it: while the card works on what the program waits for, what it holds of a
shared page is the stash's, in its chunks (`CardKnows`), in the fetch slot before it is
pulled and in the write-back slot before it is applied, and so it is between two phases
of one region. `WalkInv`, `WholeInv` and `AskInv` say why the card holds a page at all
when it sends it: the walk over the ranges has passed every page of the ranges it has
done, a chunk filled on demand is whole, and a mail asked for just what is missing. The
walk fetches the two ends of a dense range alone and marks its inside as fetched:
`DenseAlone` says that the region has those lines to itself, which the code assumes and
does not check. A worker that starts again is left out since its first mail is taken for
answered (OffloadMailbox): with `Again` for its regions and page 1 shared, the line that
the process before left in the slot goes back to this one. `"pull"`, `"push"` and
`"die"` are all allowed. What a sequence of accesses does to a shared byte, and what the
pieces of a range and the batches of a write-back amount to, are lemmas on `Sequential`,
`Ascending`, `FirstRun`, `Lowest` and `WithChunk`.

**Analyze.** The work list's invariant (`WalkInv`) is that whatever an included
instruction leads to is included, an exit, or still on the list; with the list empty the
region is closed. `RunInv` says that program and card are at the same instruction, in the
code or in the thunk that instruction was moved to, with flags that the branches ahead
cannot tell apart. Between the two stands the image: each byte of an included
instruction is its own, its rewrite's, its site's jump, or an exit's `ud2`
(`Overlaid`, `Painted`), and no branch of the region leads behind a site's first byte. The
image is painted exit by exit in a recursive function; what it comes to is proved by
its least counterexample, and likewise that addresses are ordered. `Apart` is what
the code takes for granted of `ud2`, `OneFlag` what it looks at for the first branch only:
both are stated of the text and the exits found, in the property, and `Faithful` fails
without either. A region lies in one chunk, of which alone the image is laid out; that
its addresses are then all in it (`InChunk`) is a lemma of its own.
`ThunkStaysAlone` needs of the analysis nothing but `MAP_FIXED_NOREPLACE`
(`Reserved`): the maps read before may be stale.

Only model-checked:
- liveness (EveryPostAnswered, JobReturns, Terminates, GetsPast, Leaves, Answered, Settles,
  Returns), which needs fairness and ENABLED;
- what Plan and Thunk compute: TripsCounted, SameMemory and SameRegisters (two runs of a
  loop, of any length, compared), AsProgrammed and WithinOperand (`Xlate` uses RECURSIVE
  operators, which the prover does not take), and Registers' Illusion and TouchesOwn, by
  families over the four lanes that `Emulate` and `Avx512` define;
- Offload's PhaseEffect, which adds to OthersSurvive that what the region reads is fresh
  and that what it wrote was declared (section 7).

Induction over data is used in one form only, the least counterexample of a property of
the natural numbers, which needs no operator as a parameter.

## 5. Not modelled, and why

- The arithmetic on a lane: each operation has a stand-in that tells its operands,
  their order and the lane apart. Rounding, half floats, floating-point predicates
  and conversions' values are left to the repository's differential tests.
- Of the translator: scalar arithmetic, min and max, conversions, division and square
  root, `vrndscale`, permutes by vector, `vcomis`, `vinsertps`, the add-subtract forms,
  narrowing, `vpmuludq`, shifts by a register count, and the encoding of bytes
  (`knc-mvex`, `mvex.S`). The assembly translator (`xlate*.S`, `blob.S`) has the same
  task and is not modelled a second time.
- Of the emulator: half floats, `vrndscale`, the program's own signal handlers.
- Of the region builder: overlapping instructions. A branch into the middle of an
  instruction ends the region in the model; `analyze` decodes what is there and may
  include it.
- Of the offload: the bytes of the code pages, the limit on chunks with `evict_unused`, huge pages, the masks of
  lines, two processes on one card at once.
- The decoder (`decode.S`, `x86tab.inc`, iced-x86): generated or third-party.
- The shadows, refresh, write-back and stack floors of `region.S`; the card's worker
  pool; the ggml backend's placement; the drafters (Generate allows any draft).
- The kernels' arithmetic (`kernels.S`, `rows.S`, matmul's inner loops, `matmul.rs`).
- The DMA engine's registers, the channel's lock and nonce at opening.
- Counters, logs, timings, command lines, build and measurement scripts.
- Memory ordering weaker than the order of the instructions: each store is seen by
  the others in the order the code makes it, which is what its fences are for.

## 6. Disagreements met while modelling

With a run; `PROJECT.json` quotes the lines:
- `residency_operands` (OperandsPlaced): a planned call runs without an operand that its
  own round evicted.
- `offload` (OthersSurvive): the header of `offload.rs` (28) says that a store of another
  thread to a line the region also writes is lost, `offload.md:95` and `offload.rs:129`
  that only changed bytes go back and it survives. The code does the latter, which is
  what the run checks and `OthersBytesSurvive` proves; `OffloadLines.cfg` states the
  header's sentence (OthersLost), and it is violated.

In a configuration kept here, against a line of the repository:
- `SlotsEarly` (ConsecutivePostsDiffer): a session whose K_FLUSH was the slot's last job
  makes the next session's K_FLUSH the same job word (`sched.S:200`).
- `SlotsUnsettled` (OwnData): with a program killed right after a post and a new one
  opening before the card looks, the slot reads the new block under the old job and
  stays one job ahead (`sched.S:635`). The 1 ms sleep of `card_add` is the only guard.
- `ResidencyPartial` (CallReadsOwn): a planned call holds a chunk by some units and
  lacks one; its earlier rounds evict the chunk, the round for the lacking unit fills a
  new page with that unit alone, and the call reads the others from what the page held
  before (`sigill.S:776`: nothing looks again).
- `ResidencyMixed` (PoolHasRoom): a chunk held by units and then read by a planned call
  takes a page nobody counted (`card.S:817`).
- `HostPoolFork` (JobComplete): a forked child's workers pass through the inherited job
  block, and a later job returns with a worker inside (`pool.S:67`).
- `RegistersNarrow` (Illusion): inserts and permutes on ymm keep the upper half
  (`emulate.rs:66` says a write zeroes it).
- `PlanFrame` (SameMemory): rbp is exempt from what a loop may carry (`plan.rs:805`), and
  code without a frame pointer walks memory with it.
- `OffloadPush` (PhaseEffect): a write-back of two slots that fails at the second has
  applied the first, and the phase is run again on half-updated memory
  (`offload.rs:1151`: "without having written anything back").
- `AnalyzeRet` (Faithful): the two-byte `ud2` at a one-byte `ret` overwrites the first
  byte of the instruction behind it, which may be in the region (`offload.rs:798`).
- `ThunkBase` (AsProgrammed): a memory operand based on rax is used after the sequence
  has put a mask in rax (`rewrite.rs:15`: "saved there first").
- `ThunkUnpack` (AsProgrammed): `kunpckbw` shifts before it truncates and loses the upper
  byte (`rewrite.rs:2399`: "k1 = (k2[7:0] << 8) | k3[7:0]").

In a configuration kept here, with no line that says otherwise so plainly:
- `SlotsClosed` (NoStaleRegisters): after the channel has closed, `cdma_submit`'s 0 is
  taken for "no copy needed"; a region runs on an earlier request's registers.
- `SlotsLegacy` (OwnData): `dma_pull` lands a legacy request's data at offset 0 of the
  landing area, which is slot 0's part (`matmul.S:312`).
- `GenerateKmin` (NoPanic): `clamp` panics when a request sets `k_max` below `k_min`
  (`decode.rs:306`).
- `PatchTorn` (Performed): a handler that reads the bytes while they are rewritten may
  decode a mixture as another AVX-512 instruction and perform that one
  (`handler.rs:183`; `patch.rs:510` thinks of threads that execute the bytes only).
- `OffloadMailbox` (PhaseEffect): a worker that starts again resets the requests' numbers
  and not the mailbox (`worker.S:462`), and counts its mails from 0 (`exec.S:168`). If
  the worker before had sent one mail in all, the acknowledgement it left is the one
  the new worker's first mail waits for: the card takes the code chunk from the slot
  before the process has copied it, and runs on another process's bytes. Met while
  proving OwnMail, which does hold: the process serves no mail here.

Seen with a change to a configuration:

| configuration | change | violated | what happens |
|---|---|---|---|
| ResidencyMixed | | ReadsOwnBytes | a planned call fills part of a page and the whole is placed: a region touching the rest does not fault (`resident.md:130`) |
| ResidencyMixed | `Env = {"regions", "remap"}`, `MaxVer = 1` | ReadsOwnBytes | memory classified immutable is never looked at again (`elf.S:957`) |
| ResidencyMixed | `Env = {"regions"}`, `NPages = 1`, `Ring = 2` | PoolHasRoom | a pool smaller than the ring never names a victim |
| ResidencyMixed | `Env = {"planned", "written"}` | OperandsPlaced | an operand only written gets no page and no unit (`sigill.md:67`) |
| HostPool | `Env = {"clone"}` | OwnItem, JobComplete | workers of a `pool_start` that failed half way stay, with the numbers of the next ones |
| Patch | | OncePerSite | a site whose page cannot be made writable gets a new entry at every fault |
| Registers | `Insns` and `Narrow` `{"compare"}` | Illusion | a ymm compare sets mask bits above its elements |
| Registers | `Insns = {"lane"}`, `Stray = TRUE` | TouchesOwn | masked arithmetic reads its whole memory operand |
| PlanFrame | `Programs <- LoopsAtBound` | SameMemory | a split loop that runs to its bound inclusive (`jle`) gives the slices overlapping iterations |
| PlanFrame | `Programs <- LoopsInMemory` | SameMemory | a pointer kept in a stack slot is not seen to be carried |
| PlanFrame | `Programs <- LoopsUpdate` | SameMemory | a read-modify-write is taken for a whole store and not fetched |
| PlanFrame | `Programs <- LoopsOverlap` | SameMemory | stores of two forms that overlap are split |
| PlanFrame | `Programs <- LoopsChoosing` | SameRegisters | a register written in some iterations only is taken from the last slice |
| OffloadPush | `Regions <- Between`, `Faults = {}` | PhaseEffect | a ranges phase between demand phases leaves a demand chunk writable (`exec.S:1922`) |
| OffloadMailbox | `Regions <- Again`, `Shared = {1}` | OthersSurvive | the line another process left in the slot goes back to this one (`exec.S:168`) |
| Offload | `Shared = {4}`, `Faults = {"die"}` | OthersSurvive | a line inside a densely written range is never fetched, and goes back whole |
| Offload | `Regions <- One`, `Faults = {"die", "stuck"}` | OwnMail | a mail of the worker before is served (`worker.S:462`) |
| AnalyzeRet | `RetLen = 2`, `BothFlags = TRUE` | Faithful | only the first branch behind a kortest is looked at (`offload.rs:507`) |
| AnalyzeRet | `RetLen = 2` | MaskOwn | the dword mask of a rewritten byte compare is handed back |
| ThunkUnpack | `Insns <- QwordNarrow` | AsProgrammed | the mask of a narrow qword move replaces the span's |
| ThunkUnpack | `Insns <- IntoOwn` | AsProgrammed | a compare of two parts into its own write mask |
| ThunkUnpack | `Insns <- NarrowMem` | AsProgrammed | the memory operand's mask replaces the compare's |
| ThunkUnpack | `Insns <- Ddup` | AsProgrammed | `vmovddup` under a mask uses qword bits on dwords |
| ThunkUnpack | `Insns <- AlignFar` | AsProgrammed | `valignq` of 256 bits keeps the immediate's third bit |
| ThunkUnpack | `Insns <- InsertMem` | WithinOperand | an insert reads a whole vector from its 16 bytes |
| ThunkUnpack | `Insns <- MaskedStore`, `RaceMasked = TRUE` | AsProgrammed | a masked store undoes another thread's store to an unselected lane |

Read, not checked:
- The emulator's three-operand scalar forms of `vsqrtss`, `vmovss`, `vcvtss2sd` take
  operand 1 where the instruction takes 2; scalar operations, extracts and inserts
  ignore the mask, `vblendm` ignores zeroing, a masked `vpternlogq` uses dword lanes.
- AVX-512 in the program's own signal handler changes the library's upper halves, which
  sigreturn does not restore.
- Two processes that share a card may take the same request number (`offload.rs:1177`).
- A phase that dies leaves the worker waiting for its mail to be answered.
- `shift_by_xmm` ignores the high dword of its count.
- `sched.md:56` says the dispatcher never sleeps while slots exist; `main_loop` tests
  `nslots` only to publish counters and sleeps past `spin_ns` (the model's
  `DispScanned` sleeps).
- `card.md` speaks of the top four bits of the u16 for the kind, the code uses five.
- At the end of the context a drafted step may yield one token more than plain
  generation would, since the room it leaves reaches position `n_ctx`.

## 7. Plan

Done: the slot protocol with its abstract specification, residency
for one card, the host's worker pool, generation; the Rust library from the fault to
the card's answer (patcher, emulator, region builder, planner, offload, translator); the
proofs of section 4.

Left for later, in this order: the shadows and write-back of `region.S`; the card's
worker pool; a composition of Analyze, Plan and Offload over one region.

Next proofs:
1. Offload's PhaseEffect without `"push"` and `"restart"`, for one phase in demand mode
   first. In ranges mode it needs of the regions that the declared written ranges hold
   every write and that a dense range is stored whole.
2. Registers' Illusion, family by family, over the lanes that `Emulate` and `Avx512`
   define one by one.
3. Plan's TripsCounted, for loops that count in one register.
