------------------------------- MODULE Arena -------------------------------
(***************************************************************************)
(* The arenas of actors: one block per actor, carved by a cursor that lives *)
(* in the block's fat pointer, shared by an actor and the synchronous       *)
(* children that run while it waits, rewound at self() and returned at the  *)
(* owner's death.                                                           *)
(*                                                                         *)
(* src/src/compiler/rt/funcs/alloc.rs (rt_arena_alloc, rt_copy_to_arena),   *)
(* expr/spawn_expr.rs, expr/change_state_expr.rs, expr/jump_expr.rs and     *)
(* free_process_resources in rt/layout/sheduler_ctx.rs.  Nothing tells the  *)
(* holder of a pointer that the bytes behind it were reused, so every       *)
(* variable carries, as history, the value it was given.                    *)
(***************************************************************************)
EXTENDS Integers, Sequences, Functions

CONSTANTS
    Actors,      \* actors, each naming the arena it would own
    Main,        \* the actor init_main_process starts
    Cap,         \* cells of an arena
    Lens,        \* cells an object may take, its header included
    Values,      \* what an object may hold
    MaxVars,     \* variables an actor keeps at a time
    Ops,         \* the operations explored
    None, Heap, Torn

ArenaAssumption ==
    /\ Main \in Actors /\ Cap \in Nat \ {0}
    /\ Lens \subseteq Nat \ {0} /\ MaxVars \in Nat \ {0}
    /\ None \notin Actors /\ Heap \notin Actors

VARIABLES
    alive,      \* living actors
    waits,      \* those suspended until a synchronous child replies
    caller,     \* for a ret-machine: who waits for it, None once it replied
    arena_of,   \* OWNED_ARENA_FAT: the arena used, None for the dead
    base,       \* OWNED_ARENA_BASE # 0: the actor owns the arena it uses
    bump,       \* the cursor of each arena (its fat pointer's start)
    mapped,     \* arenas that are allocated
    misfreed,   \* history: rt_free was given a cursor, or no block at all
    data,       \* the cells of each arena
    slots       \* VARIABLES of each actor, [ptr, val]

arenaVars == << alive, waits, caller, arena_of, base, bump, mapped, misfreed,
                data, slots >>

-----------------------------------------------------------------------------
(* A pointer names an arena and cells in it, or a block of the heap that    *)
(* nobody frees (rt_arena_alloc without room falls back to rt_allocate_raw).*)
Cells(p) == p.at .. p.at + p.len - 1

\* What a reader finds behind the pointer of a variable.
Read(m, s) ==
    IF s.ptr.reg = Heap THEN s.val
    ELSE LET first == m[s.ptr.reg][s.ptr.at]
         IN  IF \A c \in Cells(s.ptr) : m[s.ptr.reg][c] = first THEN first ELSE Torn

(* rt_arena_alloc and the store that follows: the object at the cursor, or  *)
(* in the heap when it does not fit.                                        *)
Fits(A, r, len) == A.bump[r] + len <= Cap
Place(A, r, len, content, val) ==
    IF Fits(A, r, len)
    THEN LET p == [reg |-> r, at |-> A.bump[r], len |-> len]
         IN  [bump |-> [A.bump EXCEPT ![r] = @ + len],
              data |-> [A.data EXCEPT ![r] =
                           [c \in DOMAIN @ |-> IF c \in Cells(p) THEN content ELSE @[c]]],
              out |-> Append(A.out, [ptr |-> p, val |-> val])]
    ELSE [A EXCEPT !.out = Append(@, [ptr |-> [reg |-> Heap, at |-> 0, len |-> len],
                                     val |-> val])]

Now == [bump |-> bump, data |-> data, out |-> << >>]
Emptied(r) == [Now EXCEPT !.bump = [bump EXCEPT ![r] = 0]]

\* A result is kept in a new variable, or in the last one.
Keep(vs, s) == IF Len(vs) < MaxVars THEN Append(vs, s) ELSE [vs EXCEPT ![MaxVars] = s]

(* A block of an actor's machine may run.  After ret a ret-machine has      *)
(* nothing left to run but its end.                                         *)
Ended(a) == ~base[a] /\ caller[a] = None
CanRun(a) == a \in alive \ waits /\ ~Ended(a)

-----------------------------------------------------------------------------
ArenaInit ==
    /\ alive = {Main} /\ waits = {}
    /\ caller = [ a \in Actors |-> None ]
    /\ arena_of = [ a \in Actors |-> IF a = Main THEN Main ELSE None ]
    /\ base = [ a \in Actors |-> a = Main ]
    /\ bump = [ a \in Actors |-> 0 ]
    /\ mapped = {Main} /\ misfreed = FALSE
    /\ data = [ a \in Actors |-> [ c \in 0 .. Cap - 1 |-> None ] ]
    /\ slots = [ a \in Actors |-> << >> ]

\* let x = a new tuple: tuple_expr calls rt_arena_alloc and stores the fields.
Alloc(a) ==
    /\ "alloc" \in Ops /\ CanRun(a)
    /\ \E len \in Lens, v \in Values :
          LET A == Place(Now, arena_of[a], len, v, v)
          IN  /\ bump' = A.bump /\ data' = A.data
              /\ slots' = [slots EXCEPT ![a] = Keep(@, A.out[1])]
    /\ UNCHANGED << alive, waits, caller, arena_of, base, mapped, misfreed >>

(* Asynchronous spawn: the child gets an arena of its own, recycled memory  *)
(* as it was, and rt_copy_to_arena copies the bytes of each pointer-like    *)
(* argument into it.                                                        *)
ArgCopied(b, s) ==
    Place(Emptied(b), b, s.ptr.len, Read(data, s), s.val)
SpawnAsync(a, b) ==
    /\ "async" \in Ops /\ CanRun(a) /\ b \notin alive \cup mapped
    /\ \E s \in Range(slots[a]) :
          LET A == ArgCopied(b, s)
          IN  /\ bump' = A.bump /\ data' = A.data
              /\ slots' = [slots EXCEPT ![b] = A.out]
    /\ alive' = alive \cup {b} /\ mapped' = mapped \cup {b}
    /\ arena_of' = [arena_of EXCEPT ![b] = b] /\ base' = [base EXCEPT ![b] = TRUE]
    /\ UNCHANGED << waits, caller, misfreed >>

(* Synchronous call of a ret-machine: the child uses its caller's arena,    *)
(* gets the arguments as they are, and the caller waits for the reply, as   *)
(* in the lowering docs/lowering.md shows, a spawn and a wait.  A call that *)
(* passes the null pid for its caller (send_expr.rs:72) is left out.        *)
InheritedBase(a) == FALSE
CallSync(a, b) ==
    /\ "sync" \in Ops /\ CanRun(a) /\ b \notin alive
    /\ \E s \in Range(slots[a]) : slots' = [slots EXCEPT ![b] = << s >>]
    /\ alive' = alive \cup {b} /\ waits' = waits \cup {a}
    /\ caller' = [caller EXCEPT ![b] = a]
    /\ arena_of' = [arena_of EXCEPT ![b] = arena_of[a]]
    /\ base' = [base EXCEPT ![b] = InheritedBase(a)]
    /\ UNCHANGED << bump, mapped, misfreed, data >>

\* ret: the last thing a ret-machine does is to send its result.
Return(b) ==
    /\ CanRun(b) /\ caller[b] # None
    /\ \E s \in Range(slots[b]) :
          slots' = [slots EXCEPT ![caller[b]] = Keep(@, s), ![b] = << >>]
    /\ waits' = waits \ {caller[b]}
    /\ caller' = [caller EXCEPT ![b] = None]
    /\ UNCHANGED << alive, arena_of, base, bump, mapped, misfreed, data >>

(* self(args).  The owner of an arena copies its pointer arguments out,     *)
(* rewinds the cursor and copies them back in, which rearranges them; the   *)
(* others keep their arguments where they are.                              *)
Snapshot(args) == [ i \in DOMAIN args |-> Read(data, args[i]) ]
Rewound(a) == Emptied(arena_of[a])
RecopiedInPlace(a, args) ==                                \* broken: no scratch
    LET after[n \in 0 .. Len(args)] ==
          IF n = 0 THEN Rewound(a)
          ELSE Place(after[n - 1], arena_of[a], args[n].ptr.len,
                     Read(after[n - 1].data, args[n]), args[n].val)
    IN  after[Len(args)]
Recopied(a, args) ==
    LET after[n \in 0 .. Len(args)] ==
          IF n = 0 THEN Rewound(a)
          ELSE Place(after[n - 1], arena_of[a], args[n].ptr.len, Snapshot(args)[n],
                     args[n].val)
    IN  after[Len(args)]
RewindsAlways(a) == TRUE                                   \* broken: not only its own
Rewinds(a) == base[a]
SelfArgs(a, args) ==
    IF Rewinds(a) THEN Recopied(a, args) ELSE [Now EXCEPT !.out = args]

ArgLists(a) == UNION { [1 .. n -> Range(slots[a])] : n \in 0 .. MaxVars }

SelfTo(a, A) ==
    /\ bump' = A.bump /\ data' = A.data
    /\ slots' = [slots EXCEPT ![a] = A.out]
    /\ UNCHANGED << alive, waits, caller, arena_of, base, mapped, misfreed >>
Self(a) ==
    /\ "self" \in Ops /\ CanRun(a)
    /\ \E args \in ArgLists(a) : SelfTo(a, SelfArgs(a, args))

\* A message carries the word of the pointer, nothing is copied.
Send(a, b) ==
    /\ "send" \in Ops /\ CanRun(a) /\ b \in alive \ {a} /\ b \notin waits
    /\ \E s \in Range(slots[a]) :
          slots' = [slots EXCEPT ![b] = Keep(@, s)]
    /\ UNCHANGED << alive, waits, caller, arena_of, base, bump, mapped, misfreed, data >>

(* free_process_resources: the owner puts the cursor back to where the      *)
(* block starts and frees the block.  A ret-machine that dies before its    *)
(* ret leaves its caller waiting.                                           *)
RestoredNot(a) == bump                                     \* broken: cursor kept
Restored(a) == [bump EXCEPT ![arena_of[a]] = 0]
Die(a) ==
    /\ a \in alive \ waits
    /\ IF base[a]
       THEN /\ bump' = Restored(a)
            /\ mapped' = mapped \ {arena_of[a]}
            /\ misfreed' = (misfreed \/ bump'[arena_of[a]] # 0 \/ arena_of[a] \notin mapped)
       ELSE UNCHANGED << bump, mapped, misfreed >>
    /\ alive' = alive \ {a}
    /\ caller' = [caller EXCEPT ![a] = None]
    /\ arena_of' = [arena_of EXCEPT ![a] = None] /\ base' = [base EXCEPT ![a] = FALSE]
    /\ slots' = [slots EXCEPT ![a] = << >>]
    /\ UNCHANGED << waits, data >>

ArenaNext ==
    \/ \E a \in Actors : Alloc(a)
    \/ \E a, b \in Actors : SpawnAsync(a, b)
    \/ \E a, b \in Actors : CallSync(a, b)
    \/ \E a \in Actors : Return(a)
    \/ \E a \in Actors : Self(a)
    \/ \E a, b \in Actors : Send(a, b)
    \/ \E a \in Actors : Die(a)

ArenaSpec == ArenaInit /\ [][ArenaNext]_arenaVars

-----------------------------------------------------------------------------
ArenaTypeOK ==
    /\ waits \subseteq alive /\ mapped \subseteq Actors
    /\ \A a \in Actors : arena_of[a] \in Actors \cup {None} /\ bump[a] \in 0 .. Cap
    /\ \A a \in Actors : Len(slots[a]) <= MaxVars
    /\ \A a \in Actors : \A s \in Range(slots[a]) :
           s.ptr.reg # Heap => Cells(s.ptr) \subseteq 0 .. Cap - 1

(* A living actor reads in its variables what they were given: no argument, *)
(* result or local is overwritten by what the actor, its children or its    *)
(* next iterations put in the arena (#138, #152).                           *)
ArgsIntact == \A a \in alive : ~Ended(a) => \A s \in Range(slots[a]) : Read(data, s) = s.val

(* An arena is allocated exactly while the actor that owns it lives, one    *)
(* owner each; nobody who still has blocks to run uses an arena that was    *)
(* given back, a child that inherited it included; and the block is freed   *)
(* once, by its own start.                                                  *)
ArenasMatchOwners ==
    /\ mapped = { arena_of[a] : a \in { x \in alive : base[x] } }
    /\ \A a \in alive : ~Ended(a) => arena_of[a] \in mapped
    /\ \A a, b \in alive : a # b /\ base[a] /\ base[b] => arena_of[a] # arena_of[b]
    /\ ~misfreed

(* The cursor goes back only when nobody else works in the arena: not under *)
(* a synchronous child, and not by it.                                      *)
RewoundAlone ==
    [][ \A r \in mapped : bump'[r] < bump[r] =>
            \A a, b \in { x \in alive : arena_of[x] = r /\ ~Ended(x) } : a = b ]_arenaVars

(* Cursors stay in their blocks and arenas follow their owners.             *)
ArenasExact == ArenaTypeOK /\ ArenasMatchOwners
=============================================================================
