# Lake in TLA+: the runtime and the code generator

`lakec` compiles Lake machines to native code and links into every program a
runtime that it also generates: one thread that runs actors round robin, a
table that turns pids into actors, mailboxes, arenas and a heap, and
asynchronous I/O through io_uring. This directory specifies that runtime and
the parts of the code generator whose mistakes no type checker sees, checks
them with TLC on small instances and proves the part everything else rests on
with TLAPS. What is modelled of the runtime is the *generated* code: the Rust
functions of `src/src/compiler` that emit it are read for the loads, stores and
branches they emit.

Paths below are relative to `src/src/compiler` unless they begin with `docs/` or
`tests/`.

## The system

| Part | Source | State it keeps | Operations |
|---|---|---|---|
| pid table | `rt/layout/sheduler_ctx.rs` | `pid_table` (slot to generation and ProcessCtx), `PID_TABLE_LEN`, `free_slots` | `init`, `emit_acquire_slot`, `assign_pid`, `lookup_proc_ctx`, `clear_pid` |
| run queue and wait array | `rt/layout/sheduler_ctx.rs` | `process_arr`, `CURRENT_PROCESS`, `LAST_PROCESS_INDEX`, `REAL_COUNT`, `wait_arr`, `LAST_WAITED`, `WAITED_COUNT` | `new_process`, `remove_current_process`, `next_process`, `wait_current_process`, `wake_process`, growth |
| parked array | `rt/funcs/io_uring.rs` | `io_parked`, `IO_PARKED_COUNT`, the index each actor carries | `rt_io_park_current`, `emit_wake_by_user_data` |
| scheduler loop | `rt/scheduler/mod.rs` | its program counter | poll, flush, dispatch, stop codes, `wait_cqe`, exit |
| quantum loop | `pipeline/machine.rs`, `pipeline/expr/jump_expr.rs` | blocks left, `IS_DYING`, slice start | stop checks, death check, counter, time budget, tail-self shortcut |
| io_uring | `rt/funcs/io_uring.rs`, `rt/funcs/process.rs` | the two rings, `SQE_PENDING` | queue, batch, submit, complete, drain |
| mailbox | `pipeline/expr/send_expr.rs`, `wait_expr.rs` | ring of 256 words, `HEAD`, `TAIL` | enqueue, dequeue, filter, guards, drop, suspend |
| spawn and death | `spawn_expr.rs`, `rt/funcs/die.rs`, `free_process_resources` | contexts and arenas | allocate, reset, assign, enqueue; mark, clear, free, unlink |
| heap | `rt/funcs/alloc.rs`, `rt/layout/slab.rs` | `heap_curr`, free lists per bucket; or slabs with bitmaps, lists per class | `rt_allocate`, `rt_allocate_raw`, `rt_free`, in either build |
| arenas and scratch | `rt/funcs/alloc.rs`, `scratch.rs`, `spawn_expr.rs`, `change_state_expr.rs` | cursor of each arena, who owns it; `SCRATCH_RING` | allocate, copy into a child's arena, inherit, rewind at `self()`, free; reuse or replace a buffer |
| guards | `pipeline/expr/dispatch.rs`, `mphf/`, `ctx/registry.rs` | branches per pattern hash, switch, perfect hash table | index, choose a position, build the table, dispatch |
| code generator | `pipeline/branch.rs`, `pipeline/expr/`, `mod.rs` | next block number, `branch_switch`, slots of names, `jump_args_base` | one handler per kind of expression; super-blocks; slot counting |
| unrolling | `pipeline/expr/unroll.rs` | registers for the parameters of a loop | detect, load, iterate, commit, yield, exit |
| strings, environment, system calls | `rt/funcs/strings.rs`, `env.rs`, ... | none | copies and single system calls |
| front end, driver, tests | `lake_frontend` (another repository), `main.rs`, `mod.rs`, `tests`, `benchmark` | none that lasts | |

How they interact: the scheduler calls an actor's compiled function and reads
the stop code it returns. The function runs *blocks*, each named by a number
that the one before it returned; a block may call a runtime function, which
changes the scheduler's arrays under the scheduler's feet (park removes the
current actor, send and spawn append to the queue), or allocate from the arena
and the heap. The kernel runs beside the thread and posts completions whose
`user_data` is the address of the ProcessCtx to wake. Addresses, slots, blocks
and buffers are recycled; pids are not supposed to be.

What is hard here is not parallelism between threads, as there is only one. In
the runtime it is that four arrays, five counters and a back-pointer are changed
by swap-and-pop from many places, that completions come at any moment, that a
stale index, pid or address is used long after the step that made it stale, and
that memory is recycled as it was. In the compiler it is that two passes, or the
compiler and the code it emits, compute the same number by different rules: slots
counted and slots given out, a block's number and the number that is returned, a
literal's place in a table and the place where it is looked up. The hazards,
each at its line, are in `PROJECT.json`.

What makes each part correct: pids are issued once and resolve to their actor
exactly while it lives; every living actor is in one of the three arrays, once;
counters agree with indices; an actor sleeps only if it has no message, and is
parked only if a request is under way that names it; a queued request reaches
the kernel and a completion reaches its actor, however busy the thread is; an
actor's quantum ends; a program without actors ends; a mailbox is a queue of
whole messages; live blocks are disjoint and stay as their holders left them,
and what is freed goes back to where it came from; arguments survive the rewind of
the arena they lie in; a call enters a branch it fits; the blocks of a branch run
in the order of the source, each on the operands it means; an unrolled loop is
the loop.

## The modules

    PidRegistry   what a pid table promises              ActorStates  what the scheduler promises
        ^ implemented by                                     ^ implemented by
    PidTable --> PidLifecycle                                |
        |                                                    |
        +------> RunQueue ------> Scheduler -----------------+----> MCScheduler

    Heap   what an allocator promises
        ^ implemented by both
    Buckets     Slabs     SizeClasses     Arena     Scratch
        |         |           |             |          |
        +---------+-----------+-------------+----------+-----> MCMemory

    MessageQueue   what a mailbox promises         TailLoop   what a loop promises
        ^ implemented by                               ^ implemented by
    Mailbox   Mphf   PidLifecycle                  Unroll   Guards   BranchBlocks
        |       |         |                          |        |           |
        +-------+---------+----> MCLookups           +--------+-----------+----> MCCodegen

    PidTable_proofs --> Lookups_proofs  (PidLifecycle and Mailbox)
        |
        +------> Scheduler_proofs  (RunQueue and Scheduler)
    Allocator_proofs  (Buckets and Slabs)    SizeClasses_proofs
    ActorMemory_proofs  (Arena and Scratch)
    Codegen_proofs  (Guards and Unroll)      BranchBlocks_proofs

An arrow is EXTENDS (`MCMemory` also has a second, larger instance of `Arena`);
what is implemented is an INSTANCE in the module below it. A module of proofs also EXTENDS the modules it is about. The modules under one MC module
share no state. Each is explored by itself, chosen by a variable that never changes
(`part`); they are under one roof because a run that compares them with
one specification, or that stands for one question, needs one configuration.

### The runtime

- `PidTable` holds the table's variables and one operator per function of the
  code. `Grown` and `GrownCap` are `emit_grow_array_if_full_strided`. The new
  array is a recycled block of which the code writes only the entries it copies, so
  the rest is any choice from `Leftovers` (`fill` in `AssignPid`), and the
  generation of a fresh slot is counted from what was chosen. The first table is
  zero: `init` allocates it before anything was freed. `Pid`
  packs, with `% GenMod` for the 32 bits a generation keeps in a pid; the
  table's own generation has 64 bits (`WordMod`). `own_pid` is
  `ExecCtx.OWN_PID`; the code leaves it behind in freed memory where the model
  has `NoPid`, and nothing reads it there.
- `PidLifecycle` drives the table with spawns and deaths in every order and
  relates it to `PidRegistry`. Its `issued` (slots with their 64-bit generations) and `peak` are
  history variables.
- `RunQueue` holds the three arrays. `process_arr` and `wait_arr` are functions
  on their capacity, so growth and entries left behind are visible. Note two
  asymmetries that are in the code: `remove_current_process` clears the vacated
  entry and resets CURRENT only if it was the last, `rt_io_park_current` does
  not clear it and always resets CURRENT (the comment there says the convention
  is the same); and completions append without a growth check.
- `Scheduler` is the loop, the quantum loop, the blocks and the kernel. `phase`
  is the thread's program counter: `poll`, `flush`, `pick`, `run`, `loop`,
  `enter` (inside `io_uring_enter`), `exited`. The program is left open: at each
  block the current actor does anything in `Ops`, each time one effect
  (compute, self-call, spawn, send to any pid it could hold, wait, request,
  write, bare park, die, finish). This is a superset of the programs that can
  be written with those effects. The mailbox is a count of unread messages, and
  `n = 0` in `Send` is a send without arguments, which wakes but delivers
  nothing. `SubmitAndPark` stands for accept, send, recv and pidfd poll, which
  differ in what the request asks and not in what the scheduler does.
- `ActorStates` is the life of an actor without arrays: runnable, waiting,
  parked, dead, and which steps lead from one to the other, sleep without a request
  included.
- `Mailbox` is one actor's ring with its real cursors, and the block compiled
  for `wait`. `Firsts` are the words a message may begin with (a sender's pid in
  the synchronous-call convention, or a tag). One wait block takes one step, as
  there is one thread.

### Memory

- `Buckets` is the default heap. `mem` is the memory itself, word by word: the
  allocator reads its own headers and the links of its free lists from it, and
  actors store to it (`Fill`), so a wrong header or link is found by what it does
  later. `Take` is what both entry points share; `Tuple` is `rt_allocate`, which
  wraps its block in `{:ok buf}` or reports `{:err :nomem}` with a second
  allocation. `result.end` is how the call ended: `ok`, `dying` (the actor was
  marked), `exit`, or `fault`, a store through a pointer nobody gave out.
- `Slabs` is the heap of `LAKE_SLAB_ALLOC=1`: lists of slabs per class, a bitmap
  and a counter in each, the slab used last.
- `Heap` is what both promise: a block handed out overlaps none that is held, and
  leaves only when it is freed.
- `SizeClasses` has the numbers both rest on, at their real size: class of a
  request, chunks of a slab, where a chunk lies, which pages go back to the
  kernel. It allocates one block and frees it from its header alone.
- `Arena` is what an actor does with the arena it owns or inherited. `base` says
  who owns (`OWNED_ARENA_BASE # 0`). Every variable carries beside its pointer the
  value it was given, as history: nothing in the program notices when the bytes
  behind a pointer are reused. The loop in which `self()` recopies its arguments is a
  recursive function of the number of arguments placed so far (`Recopied`). `ret` is
  external, since `lake_frontend` lowers it.
- `Scratch` is `rt_scratch_buf` over exec_ctx blocks that are recycled as they are.

### The compiler

- `Guards` builds a machine branch by branch, compiles one call of it and calls
  it. `emit_int_guard_select` and `emit_str_guard_select` are followed to the
  letter, their odd cases included: entries keyed by the first literal of a branch,
  the argument chosen by `find_best_guard_pos`, the first branch as last resort.
  The table for strings is any perfect hash of the literals' hashes.
- `Mphf` is where that hash comes from: the search of the builder, seed by seed
  and bucket by bucket, and the lookup the program evaluates, in words of `W` bits.
- `BranchBlocks` writes the body of a branch and compiles it at the same time, one
  step of a handler after another, in the compiler's order of descent; `stack` is
  the stack of handlers at work. Then it runs the blocks. The source is kept
  as a graph, whose edges say what may come after what, and a value is the node that
  computed it. The properties compare the run with the graph. An arm binds
  only names that are new (`CanBind`), see below. A wait may have a filter, one name
  in scope. Its operand is entered into the block of the wait when the wait is
  closed (`Folded`), because that is when the code looks it up, while its meaning is
  that of the name before the wait (`Meant`). `rebound` is history: the waits whose
  handler bound that name again. A filter stands only where the handler binds a
  word, since the code asks for one (`discriminant.expect`). A when stands as a
  statement, see what is not modelled.
- `Unroll` is the code of an unrolled loop; `TailLoop` is the same branch as the
  program means it, taking every turn on its own.

Some definitions are followed or preceded by a broken twin, marked `broken:`.
No action uses them: each is the change that makes one of the checked
properties fail, which shows that the property would catch that mistake.

## The runs

| Run | Instance | What it shows |
|---|---|---|
| `SchedMessages` | 3 actors, arrays from capacity 2, 2 generations, compute/self-call/spawn/send/wait/die/write/done, batch of 2 | types, counts agree with indices while every array grows, a dying actor runs no block, the submission ring within one batch |
| `SchedPark` | 3 actors, spawn/send/wait/I/O/bare park/done, completions at any moment | one place per actor, no lost wakeup, back-pointers exact, the refinement of `ActorStates` |
| `SchedLive` | 3 actors, self-call/spawn/I/O/done, fair thread | requests reach the kernel and completions their actor (`IoMakesProgress`), quanta end, a dead program exits, round robin reaches everyone once nobody leaves; an actor is parked exactly when one request of its own is outstanding |
| `Lookups` | 3 addresses, arrays from capacity 2, pids of 3 generations in entries of 9, fresh slots of a grown table that begin at 0 or 3; a mailbox of 7 words; up to 5 keys of 4 bits | see below |
| `Memory` | 2 buckets over a heap of 112 bytes with one huge mapping; 3 slabs of 2 classes; the 22 boundaries between classes at real sizes | `BucketsExact`: every byte carved is in one free list or held, once; `UserBlockReadsZero`; `HeldBlocksUntouched`: nobody else stores into a block that is held; `SlabsExact`: bitmaps, counts, links and peak agree; `SizesRoundTrip`: free finds what allocate computed; `BucketsImplementHeap` and `SlabsImplementHeap`: both refine `Heap` |
| | arenas of 3 cells for 2 actors; 1 cell for 3 actors with nested calls; 2 recycled exec_ctx blocks for 3 actors | arguments survive the rewind, nobody rewinds an arena others work in, arenas follow their owners (`ArenasExact`), buffers are private and long enough (`BuffersSound`) |
| `Codegen` | machines of up to 3 branches on 2 positions; branches of up to 4 expressions; 432 loops | see below |
| `LivePidLost` | the instance of `Lookups` | finding, below |
| `StarvedByWait` | 3 actors that send and wait | finding |
| `ParkedWakeOverflow` | `process_arr` of 2 | finding |
| `ScratchStale` | blocks that also serve the snapshots of `self()` | finding |
| `HandlersFallThrough` | a wait with two handlers | finding |
| `FilterRebound` | a wait with a filter, two names | finding |

`Lookups` asks how a program finds what it names:

- an actor by its pid. `PidTypeOK`, `SlotsPartitioned`, `ResolvesIffItFits`,
  `StalePidsResolveToNothing`, `PeakBoundsTable`: slots are neither lost nor shared,
  a living pid resolves exactly if the generation of its slot fits the pid, dead ones
  do not, the table is as large as the peak; and `ImplementsRegistry`, the refinement
  of `PidRegistry` by the pids whose generation fits, whatever becomes of the slots
  next to them.
- the message a wait asks for. `ImplementsQueue`, `EveryTurnNearsTheAdmitted`: the
  ring is a queue of whole messages, and while one that the wait admits is in it,
  every turn of the receiver comes nearer to it or takes it, without falling asleep.
- a literal in a hash table. `PerfectTable`: a table that was built is a minimal
  perfect hash, and compiler and program agree where each key lies, sums that wrap
  included. `SearchExact`: the builder gives up only when no seed would do.
  `HashSearchEnds`: it does give up.

`Codegen` asks of what the compiler makes:

- `CallEntersRightBranch`: with literals in one position, a call that fits some
  branch enters a branch it fits, one with the literal if there is one; and string
  guards that some position tells apart are compiled if no two of the literals of a
  position share a hash.
- `FollowsSource`, `OperandsIntact`, `SlotsFit`: the blocks of a branch run in
  the order of the source on every way through arms and handlers, every operand is
  the one the source means (a filter that is rebound excepted, finding 6), and
  `VARIABLES` has room for every slot.
- `UnrollImplementsLoop`: whatever the factor and wherever the quantum runs out.

Why the bounds are enough. Three actors are what swap-and-pop needs: one that
leaves, one that is moved, one that stays; with arrays from capacity 2 each of
them grows in `SchedMessages`, and the pid table twice in `Lookups`. Two or three generations let a
slot and an address be reused while an old pid is still held. Leftovers are one that makes
a pid too narrow for the generation of its slot, and one of all ones, from which counting
starts again. A quantum of one
to three blocks shows both its end by count and its end by time. The ring of 7
and messages of 2 put every message at every position, across the wrap
included; 7 is odd so that the wrap falls inside messages. A heap of 112 bytes
runs full, a bucket of two pages gives a page back, one mapping is refused while
another is held. Three chunks with words of two bits leave a bit that must stay
clear; three slabs are what a doubly linked list needs to insert before another.
Arenas of three cells make objects of one and two overlap
when they are moved, and spill. Four expressions are enough for a
call in an argument of a call, a let in an arm of a when with what follows it, and
two arms of different length; the mistakes of #103, #108 and #132, put back in,
all show. Words of four bits overflow in every
sum the hash takes, and five keys fail under each of the four strategies.

`MailCap`, `MaxGen`, `MaxWrites`, `MaxUnread`, `MaxBufs`, `MaxVars`, `MaxBranches`,
`MaxKeys`, `MaxNodes`, `MaxArgs`, `MaxArms`, `MaxHandlers` and the sets of sizes
are bounds of the models alone and named so where they are declared. All
addresses but main's, the one leftovers name, are interchangeable, which `SchedMessages` and `SchedPark`
use as symmetry.

`SchedPark` starts with capacity 4 so that the overflow of
`ParkedWakeOverflow` cannot happen: it says what holds when the queue is large
enough. Of requests and completions it asks nothing, because an actor that parks
without a request is among them: `CompletionsMatchParked` is an equality only
where no program does that, which is why `SchedLive` checks it. `Memory` checks `ArgsIntact` without messages, because a
message does carry pointers that dangle (below); its nested instance has messages but
one value, so that there it is about who owns what. `Codegen` lets a wait have one handler, because
two break the order (`HandlersFallThrough`).

Deadlock checking is off where the model really stops: `Lookups` has no more
spawns once `MaxGen` is reached, nor seeds to try; an actor of `SchedPark` that parks
without a request leaves the thread in the kernel for good; a heap of `Memory` ends with
an out-of-memory error before there are actors, and its arenas with a dead main; and
what `Codegen` compiles and runs comes to its end.

### Fairness

`Scheduler!FairSpec` is weak fairness of the thread as a whole: the program
is one thread that the operating system runs, and the only call it blocks in is
`io_uring_enter` with nothing completed, which is the `enter` phase where no
action of the thread is enabled. Nothing is assumed of the kernel: an accept may
never complete. Within the thread nothing is fair, so a program may compute for
ever.

`MCLookups!Spec` has weak fairness of `HashStep`, a loop of the compiler with
nothing to wait for. Of the mailbox's receiver it assumes nothing, since the
scheduler owes a runnable actor no turn (`StarvedByWait`): that a wait makes progress
is the safety property `EveryTurnNearsTheAdmitted`, about each turn it does get.

## What TLC found

1. *Living pids that resolve to nothing* (`LivePidLost`). The table counts 64 bits,
   the pid keeps 32, `lookup_proc_ctx` compares the one with the other, and nothing
   keeps generations small. A grown table is recycled memory behind the copied
   entries, and `assign_pid` counts a fresh slot from the word it finds there. If
   that does not fit 32 bits, the living actor in the slot cannot be reached; nor can
   it from the 2^32th reuse of a slot on. `ResolvesIffItFits` is what holds instead.
   The opposite error, a stale pid that resolves to a newer actor, is proved
   impossible.
2. *Round robin is not fair* (`StarvedByWait`). docs/concurrency.md promises every
   actor its turn within N quanta. An actor that blocks hands its *index* to the
   last actor, which runs next; two actors that wake each other keep
   handing it to one another. `TurnOnceNobodyLeaves` is what does hold.
3. *Completions overflow the queue* (`ParkedWakeOverflow`). The comment in
   `emit_wake_by_user_data` trusts the capacity of `process_arr`, but spawns may
   have filled it while the actor was parked.
4. *Scratch rings are not reset* (`ScratchStale`). `SCRATCH_RING` lies in an
   exec_ctx that was recycled as it was, and spawn does not write it, although a
   comment there says that every byte is overwritten before it is read. Bytes of
   another use of the block are taken for a buffer.
5. *Handlers run into each other* (`HandlersFallThrough`). Nothing separates the
   handlers of a wait, unlike the arms of a when: one that runs to its end goes on
   with the next. The test with three handlers asks only that each output appears.
6. *A filter reads a name its handler bound* (`FilterRebound`). The filter of a wait
   is folded after the handler's patterns were inserted and its body compiled, and
   read after the message was stored. In `wait p { p i64 -> .. }` the sender's word is
   compared with itself; the comment says with the filter pid.

### Smaller differences between words and code

No run stands for these. They were met while modelling, several with a
counterexample of an earlier configuration.

Scheduler and mailbox:
- docs/runtime.md says the generation is incremented on death; the code does it at
  the next assignment. It also says that a filter skips messages; they are dropped.
- docs/architecture.md says the loop exits when `process_arr` is empty; the code spins
  while somebody waits for a message, for ever if everybody does.
- docs/runtime.md says `rt_write_async` "parks actor on CQE", and a comment in
  `jump_expr.rs` agrees. Its request names nobody, and an actor that parks without a
  request of its own stays parked.
- The README gives the mailbox 256 slots, of which one must stay free: 256
  unread words look like none, and nothing asks for room.
- A wait all of whose handlers are literal guards binds no word, takes none, and
  so never gets past the first message.

Heap:
- `rt_allocate` reports that memory is short with a tuple it allocates, and writes
  through the answer without looking at it (alloc.rs:559); "let-bound callers can
  recover" (:545) only while 16 bytes are left.
- In slab mode `rt_allocate` zeroes nothing (alloc.rs:186), which alloc.rs:45 calls a
  guarantee; `UserBlockReadsZero` is about buckets.
- `rt_new_slab` tests `mmap` for -1 alone (alloc.rs:1889); the system call
  answers -12, which passes for an address. `Slabs` has it as `Fault`.
- `rt_free_slab` keeps an empty slab, where its comment (:2416) says it is unmapped.
- The test `payload_offset_matches_chunks_per_slab` (alloc.rs:2701) computes with slabs
  of 64 KiB for every class; classes of 64 KiB and more have larger ones.

Actors' memory:
- A copied argument is copied one level deep: pointers inside a tuple still point
  into the spawner's arena (spawn_expr.rs:260 says "deep-copied").
- A message carries the pointer as it is. The sender's next `self()` rewinds the arena
  under it (docs/memory.md:69 promises "until the owning actor's death").
- A `self()` that dispatches on a string guard looks at the argument after the rewind
  through the pointer from before it (change_state_expr.rs:406).

Guards:
- An integer branch is keyed by its first literal, whatever its position, and
  compared with the argument at the best position (dispatch.rs:131): with literals
  in several positions a call may enter a branch it does not fit. docs/ast.md:70
  promises the matching one.
- Without a wildcard the first branch is the default (dispatch.rs:142), and a single
  candidate is entered unasked, where tests/integration/guards.rs:39 says "silently
  fall through".
- `find_best_guard_pos` (dispatch.rs:32) counts literals, the table it is to be
  right for is keyed by their hashes: it may take a position where two strings share a
  hash, on which the builder gives up, though another would do. Signature `Shadowed`
  of `Codegen` has the case; `DistinctStringsCompile` is about literals whose hashes differ.
- Integer guards that share their first literal and differ later make the compiler
  panic, which the comment at dispatch.rs:29 says is avoided.

Code generator:
- With two handlers `VARIABLES` is too small as well: `count_branch_vars` takes the
  largest ("Sibling handlers share slots", mod.rs:325), the bodies' slots are given
  out one after the other.
- An arm of a when that rebinds a name of the code around it changes what code after
  the when reads, whether the arm ran or not; `CanBind` leaves this case out.
- Statements after a wait in the same list are not compiled.
- The smallest 64-bit integer has no positive twin: `to_string` takes the
  remainder of a number that is still negative.
- `arith_expr.rs`, `num_expr.rs` and `var_expr.rs` are not reached: every operator on
  pure operands is folded and `compile_expr` has no case for the rest.

Unrolling:
- unroll.rs:28 promises an overshoot of 0 "because we pre-check"; the quantum is
  subtracted after the chunk, and a loop left in the middle of a chunk pays nothing.
- A branch with guarded siblings calls itself without asking the guards.
- Any discriminant that is not 0 goes on, where a when on booleans matches 1 alone.
- A let that shadows a parameter drops the parameter's own binding with it, since
  `BranchState::remove` forgets the name; its comment says the slot stays unused, but
  `next_index` hands the highest one out again.
- A chunk looks neither at `IS_DYING` nor at the clock, and does not rewind the arena.

## What is proved

TLC looks at the instances above; the theorems hold for every value of the constants
that the named assumptions of a module allow (`PidAssumption`, `SchedulerAssumption`,
`MailboxAssumption`, `ArenaAssumption`, `ScratchAssumption`, `BucketAssumption`,
`SlabAssumption`, `GuardAssumption`, `UnrollAssumption`: the kinds
of the constants and little else).
Each property a theorem states is one a run checks, and each invariant was
checked with TLC before it was proved.

### Pids

`Lookups_proofs` proves what `Lookups` checks of the pid table, for every set of
addresses (infinite ones included), every starting capacity from 2, every width
of generation and slot, any number of spawns and deaths, and whatever the memory
of a grown table held (`Leftovers`).

The argument: none of the properties is inductive alone. That the popped slot is
free needs the stack to hold exactly the free slots; that `clear_pid` clears the
right entry needs each actor's `OWN_PID` and its entry to name each other. Of the
entries from the high-water mark on nothing is said but their type, since the code
promises nothing; that the first pid of a fresh slot is new rests on the slot,
which nobody was issued before.
`PidTable_proofs` has the invariant of the table, with one lemma per operation, for
whoever calls them; `PidInv` adds what was issued. From it follow, without any
condition on generations,

- `TypeCorrect`, `SlotsStayPartitioned` and `StalePidsStayStale` (the last even
  when generations wrap: a pid that resolves has the generation the table has,
  and only one actor holds that slot);
- `PeakAlwaysBoundsTable`, with `SlotsCounted`, which counts the living by the
  slots that are neither fresh nor stacked;
- `LivePidsResolveIffTheyFit`: the living actor's pid resolves to it exactly if the
  generation of its slot is one that fits a pid. `LivePidLost` shows that it need not.

Under `MaxGen < WordMod - 1` `RegistryInv` adds that a slot's generation is the largest it
issued; from it follows `TableImplementsRegistry`, the refinement for the pids whose
generation fits: the spawn of such a pid maps to a spawn with it, the death of its
actor to a death, and every step of an actor whose generation does not fit to none.
What the hypothesis excludes is a slot that comes to the generation 2^64 - 1,
by that many reuses or from a leftover just as large, and is reused after that: then
`assign_pid` counts from zero again and issues pids a second time.

### The scheduler

`Scheduler_proofs` first reads the three arrays as sets of actors and has one lemma per
operation: it keeps its own array exact and adds or removes one actor.
`Placed` is the conjunction the lemmas share:

- `TableInv`, the pid table, since `wait_arr` holds pids and only the table says
  whose they are;
- `RunExact`: entries up to LAST_PROCESS_INDEX are different actors, REAL_COUNT is their
  number and CURRENT is one of them or 0. Which is what swap-and-pop is about: the
  vacated entry is the last, or the last is what fills it;
- `WaitExact`: `wait_arr` from 1 on holds pids of living actors, each once;
- `ParkExact`: the index an actor carries is its place in `io_parked`, so no actor is
  there twice;
- `Apart`: the living are those in one of the three, and no two of the three meet.

It then adds what the loop needs (`RunInv`) and proves it inductive with one
lemma per action or group of actions that change the same:

- `ControlOK`: inside a dispatch there is a current actor, and blocks are left;
- `MarksOK`: the only living actor marked for death is the current one between its
  block and the check, and nobody waits with mail. The second half needs a send to find
  the sleeper, hence `WaitExact`;
- `RingsOK` and `BatchOK`: SQE_PENDING is the length of the submission ring, which is
  empty after the flush and below a batch inside a dispatch;
- `OwedOK`: at most one request or completion names an actor, and only a parked one.
  It is what makes a completion's store into `process_arr` an addition and not a
  duplicate; it needs every parked actor to come from its own request.

The theorems are of the form `SchedSpec /\ []WakeFitsQueue => ...`, because
a completion is stored without a look at the capacity and the arrays mean nothing after
a store past the end: `ParkedWakeOverflow` shows such a behaviour, so the hypothesis
cannot be dropped. `RoomWhileAliveFit` says when it holds: as long as the living
fit into `process_arr`; `RoomForFewActors` proves it from the constants, for
programs with no more actors than INITIAL_QUEUE_CAP. From `SchedInvariant` follow all
eight safety properties of the runs. `StepMaps` then maps each step of the scheduler
to a step of `ActorStates` or to none, one case per action, which is the refinement.

### The mailbox

`Lookups_proofs`: the unread words are a whole number of messages, read from HEAD on
(`MailInv`), for every size of ring and message, wherever the ring wraps. It takes two
conditions that the code does not enforce, both stated as hypotheses:
`RingNeverFull` (nothing asks for room before a send) and `WaitsTakeWholeMessages`
(every wait takes as many words as the senders put in). From it follow the
refinement of `MessageQueue` and that filter and guards look at the first
word of a message.

### Arenas

`ActorMemory_proofs`, for every number of actors, depth of synchronous calls, size of
arena and mix of sizes of objects. `ArenaInv` says more than the properties do: who
works in one arena forms a stack (`Stacks`: there is a height for each actor, 0
for the owner, one above its caller's for the others, and only the top is not
waiting). Without it nothing keeps an owner from rewinding under its callee; with it
whoever runs in an arena of its own is alone there, which is `RewoundOnlyAlone`.
`Untouched` adds that what a working actor keeps is an object below the cursor, as it
was written. It holds only without messages (`"send" \notin Ops`), because
a message carries pointers that dangle.

`self()` copies its arguments in a loop, one after the other. Its induction is
carried out on sets: a set of numbers without its least counterexample is empty
(`AllNumbers`, from the library's theorem on well-founded relations), so
`LoopHasTrace` gives every loop of N rounds its N intermediate states.

### Scratch buffers

`ActorMemory_proofs`, for every number of actors, blocks, slots and sizes. `ScratchInv`
says that an exec_ctx block is owned by one living actor or lies once in the
free list (`BlocksOwned`), that a buffer is in one slot of one ring and is at least as
long as the slot's capacity claims (`RingsSound`), and that an actor's buffers can be
found only in the ring of its own block (`HoldsSound`). Rings outlive their actors,
so the next owner of a block takes over buffers that nobody holds any more. That is what
keeps them private.

The leftovers of other uses of a block (finding 4) are no buffers, and two theorems say
what remains: `RealBuffersAlwaysSound`, that every buffer `rt_scratch_buf` mapped
itself is long enough and private whatever lay in the block, and `BuffersAlwaysSound`,
the checked property, when other uses leave zeroes only (`OtherWords \subseteq {0}`, the
condition under which the run checks it).

### The bucket heap

`Allocator_proofs`, for every table of growing bucket sizes that are multiples of 16, every
size of heap and page, every set of requests and mappings. `BucketAssumption` asks that
heap and pages are aligned, that mappings lie beyond the heap and that two places the
kernel may choose are as far apart as the largest request.

The state keeps the free lists only as links in freed memory. The invariant
`BucketInv` says that there is a sequence of blocks for each bucket (`L`) such that
the books of the heap agree (`Books`):

- `ListsOK`: the links in memory, followed from the head, are that sequence, without
  repetition. A store into a free block would break it, which is why everything below
  is about memory as well as about who owns what;
- `BlocksOK`, `ApartOK`, `CoverOK`: the blocks of lists and holders lie in the carved
  part of the heap, each with a header that says where its payload starts, do not
  overlap, and leave no gap;
- `OneOwner` and `HeldOK`: a block has one holder or is in a list, its header has the end
  of what was asked for, and a huge block is a mapping of its full length;
- `FreshOK`: beyond the carved part all words are zero. Without it a block carved by
  `rt_allocate` need not read as zero, since the code zeroes only recycled ones.

A call is a function of the heap, so each has a lemma that takes books to books: pop, bump
and mapping (`TakeServes`), the two ways to run out of memory (`RawServes` and its
twin for tuples), the push of `rt_free` with the pages it gives back, which lie inside the
block that is freed (`AdvisedInside`). A holder's own store is one more step (`FillStep`).
From `BucketInvariant` follow `BucketsAlwaysExact` (no byte of the heap is lost or owned
twice), `BlocksReadZero`, the action property `HeldBlocksAreUntouched`, and `BucketsAreHeap`:
a call that hands out one block, two (the tuple and what it wraps) or none is a step of
`Heap`.

### The slab heap

`Allocator_proofs`, for every class table, width of a bitmap word and number of slabs. The
invariant `SlabInv` has books again (`SlabBooks`): in every slab a bit is set exactly while nobody holds
its chunk, and free_count is the number of bits (`BitsAgree`); every class has a
sequence of its slabs of which `slabs_head`, `next` and `prev` are the heads and the
links in both directions (`Linked`); the slab used last is one of them. `PeakOK` adds
that a slab is created only when every chunk of its class is held: the walk of the list
finds any slab with a chunk left, since all slabs of the class are in the list, and
the bits beyond the last chunk are never set. From it follow `SlabsAlwaysExact`, the
comment's bound on memory included, and `SlabsAreHeap`.

### Sizes

`SizeClasses_proofs`: `SizesAlwaysRoundTrip`, for every set of requests below 2^63 less
two pages, every aligned address of a header, and every slab and chunk of the 21 classes. The
numbers are the real ones, so there is nothing to choose but those. The bound is what a word
with a sign can count after a mapping is rounded up to pages; a larger request the kernel
cannot serve.

- `Log2CeilIs`: the exponent that `clz` finds exists, is the least, and is at most 63
  (powers grow, by counting subsets: `Powers`). Hence `BucketIdxIs`: a class holds
  each request it is given, and requests go past the last class exactly above 16 MiB.
  A mapping rounded up to pages stays above, so `rt_free` sees a mapping too
  (`Routes`);
- `Geometries` has size of chunk, size of slab, number and offset of chunks for each class, and
  proves that from any slab and any chunk of it the mask of 64 KiB and the division lead back
  to both, even in the slabs of several megabytes. `RoundsEnd` shows that the first round of
  `chunks_per_slab` settles the number for every class, where the comment says three
  suffice, and that no class is left without a chunk;
- `AdvisedPages`: what `madvise` takes of a freed block is whole pages behind the chain word.

The invariant `SizeInv` only says which allocation the block comes from, and carries what
was said of the block freed last.

### Guards

`Codegen_proofs`, for every signature, hash function, number of branches and
perfect hash table. `GuardAssumption` asks that a call has an argument for every
position, of the kind of the literals it is compared with, since a call of other kinds
has another pattern hash. `GuardInv` says that the dispatch was compiled from the branches
as they are and that the branch entered is the one it computes; the rest is about
the operators:

- `LiteralsCounted`: a position has as many literals as there are branches only if each
  branch has one of its own there. So the position `find_best_guard_pos` counts out tells
  all branches apart if any position does, and if only one position has literals it
  is that one (`OnlyBest`);
- `SwitchRight`: then the switch goes to the one branch that has the argument as its
  literal, and for any other argument to the last without a literal, if there is one;
- `TableRight`: a place of the table belongs to one branch (`PlacesDiffer`, by
  the pigeonhole principle), and a string with a literal's hash but other bytes is sent to the
  default, since hash, length and bytes are compared.

### Unrolling

`Codegen_proofs`, for every well-formed branch (`WellFormed`), factor, quantum and
modulus. `UnrollInv` says little more than that registers and `VARIABLES` have a value
for every parameter; what carries the proof is the mapping, which reads the loop's
values from the registers inside a chunk and from `VARIABLES` outside of it. A copy of the body
is then a turn (`IterationIsTurn`), the exit arm is the way out (`ExitIsOut`), and
loading, committing and yielding are invisible (`Unseen`).

### Blocks of a branch

`BranchBlocks_proofs`, for every set of names, number of expressions, arguments and arms,
and any nesting of what the model has: calls in arguments, defaults and discriminants,
whens and waits as statements of any list. The theorems have the hypothesis `MaxHandlers = 1`: with two handlers
they are false, as the run `HandlersFallThrough` shows. `BlockAssumption` asks for a name
and otherwise for numbers.

The compiler alone is the first half. `Wellformed` is what holds between two steps of a
handler:

- `Shape`: the frames stand on each other as the expressions are nested (`Above`): an arm
  on its when, a handler on its wait, those on a list that goes on, a call on a list or on
  what waits for its value;
- `Counts`: the slots given out are the numbers below n, each to one name, and the
  slots counted in all frames of the stack add up to n. `count_branch_vars` walks
  the source before, `next_index` asks the table of names as it goes; that the two
  agree for every nesting is `SlotsAlwaysFit`. The sum is a function on
  the frames (`Part`), so that a step need only say what it does to the upper three
  (`PartKept`);
- `Bases`: the arguments of a call under way lie below the range of the next;
- `Scopes`: the scope of an open when is part of the present one, so going back to it
  after an arm forgets names and never changes one;
- `Exits_ok`, `Checks_ok`, `Super_ok`: exits name numbers that are given out or the next,
  a check that is open has its block to itself, and a super-block that can still be joined
  leads to the next number, where nothing else leads.

The second half is about the program. Following a run through the blocks would
be an induction over paths, and the source is not finished while it is compiled. So `Correct`
says instead that what is compiled has a certificate (`Certified`): for every number the
set of configurations in which it may be entered (`P`), and for every block and every
operation in it the configurations between (`A`). A configuration is the node of the
source last done with temporary, staged arguments and slots. `OpsRight` says that an operation
goes from each of its configurations along an edge of the source, reads what is meant and
ends in one of the next set; `ExitsRight` and `EntriesRight` that ends lead to entries;
`UnusedRight` that a number without a block is one of those the arms of an open when
leave for their redirects; `FramesRight` what arms still to come rely on; and whatever enters
the next number (`Here`) has each name in scope in its slot, the arguments
staged so far in place, and the last value in the temporary. Each step of the compiler
extends the certificate, with a lemma for the steps that write one block
(`CertifiedEmit`), join a super-block or write none, and three for the ends of arms, whens
and waits.

The filter of a wait is the exception to one block being right when it is written: what it
reads is settled when the wait is closed. `Filters` says of each wait at work that its
block begins with the operation that will read the filter, and that the filter's name,
looked up now, leads to the slot it led to when the wait began, unless the handler bound it
again (`rebound`). So the operand entered at the end is the one that is meant, or the
wait is one of those the run `FilterRebound` is about.

A step of the program then goes from one member of the certificate to another
(`ExecuteRight`). From it follow `BranchesFollowSource` and `OperandsAlwaysIntact`.

### Only model-checked

Liveness (`DeadProgramExits`, `IoMakesProgress`, `QuantumEnds`,
`TurnOnceNobodyLeaves`, `HashSearchEnds`), which is under
fairness and out of the provers' reach. `EveryTurnNearsTheAdmitted`, on the rings and
messages of the run. `PerfectTable` and `SearchExact`, since `Mphf` computes with
`Bitwise`, which the provers do not read. Waits with several handlers, for which the properties of `BranchBlocks` do not hold.

## What is not modelled

- The death check that the tail-self shortcut skips: a block of `Scheduler` has
  one effect, so one that fails to allocate and calls itself is not explored. A spawn
  whose own allocations fail.
- Pointers that outlive their arena (listed above): the code has no protection
  whose correctness one could state.
- The kernel's partial submissions and errors; the result of `io_uring_enter` is
  ignored by the code, and the model's kernel takes all it is given. The wrap of
  the ring indices, results (`TEMP_VAL`), setup, listen and close.
- `io_parked` is unbounded here. The code gives it 4096 entries and never grows it.
- Pids that no one handed out, whose lookup would read outside the table.
- A mailbox with no free word, and senders and receivers that disagree on the
  number of words.
- A when whose value is used, as a let's default, an argument or the discriminant of
  another when (`compile_expr` takes it there too): what its arms leave in `TEMP_VAL`
  depends on the arm, while an operand of `BranchBlocks` is one node.
- What the exit arm of an unrolled loop does. For a ret-machine `detect_tail_loop`
  takes off the send `__caller(self, when ..)` that lowering put around the when
  (unroll.rs:186), and `compile_branch` emits the exit arm without it
  (branch.rs:130), so that an arm that only yields a value sends none.
  `Unroll` ends where the exit arm begins.
- A synchronous call that does not wait: every call of `Arena` waits for its callee, as
  docs/lowering.md has it. send_expr.rs:72 speaks of calls without a `let` that pass
  the null pid; how those are lowered is up to the front end.
- Several filters of one wait, which are compared one after the other; `BranchBlocks`
  has one, `Mailbox` takes a set of words.
- Values: what an operator computes, integer and string literals, `to_string`, the
  environment, plain system calls. They keep no state and share none.
- The tables a when on strings or atoms uses: `Mphf` covers the hash, but their
  names depend on how the front end numbers machines.
- `ctx/` holds name tables that the index pass fills and the others read; the
  driver calls the passes in a fixed order; the assembly files are one system call each.
- The front end, which is another repository.

## Plan

Modelled: the pid table, the queues, the scheduler with the kernel, the mailbox,
both heaps, arenas and scratch buffers, guards with their hash, blocks and slots,
unrolling. Proved: the pid table, the queues and the scheduler with the refinement of
`ActorStates`, the mailbox with that of `MessageQueue`, both heaps with that of `Heap`,
the arithmetic of sizes, arenas and scratch buffers, the guards, unrolling with the
refinement of `TailLoop`, the blocks of a branch.
What would come next:

- A kernel that submits only part of what it is asked, in `Scheduler`.
