------------------------------ MODULE Unroll ------------------------------
(***************************************************************************)
(* LAKE_UNROLL (src/src/compiler/pipeline/expr/unroll.rs): a branch that    *)
(* only loops through self is compiled into one block of several turns.     *)
(* The parameters are in registers meanwhile and VARIABLES is behind; it is *)
(* brought up to date before the actor may yield, and before the block of   *)
(* the exit arm, which reads VARIABLES.                                     *)
(***************************************************************************)
EXTENDS Integers

CONSTANTS
    Modulus,        \* values are counted modulo this
    Loops,          \* the loops: [params, self_key, exit_key, let, store, args]
    Factors,        \* values of LAKE_UNROLL
    Quanta          \* what a turn of the scheduler may leave of the quantum

(* A loop has a parameter to look at; its local, number params in args and  *)
(* store, is one more than the parameter let names.                         *)
Keys == {"true", "false", "_"}
WellFormed(l) ==
    /\ l.params \in Nat \ {0}
    /\ l.let \in 0 .. l.params - 1 /\ l.store \in 0 .. l.params
    /\ l.self_key \in Keys /\ l.exit_key \in Keys
    /\ l.args \in [ 0 .. l.params - 1 -> [from : 0 .. l.params, plus : Nat] ]

ASSUME UnrollAssumption ==
    /\ Modulus \in Nat \ {0} /\ Factors \subseteq Nat /\ Quanta \subseteq Nat
    /\ \A l \in Loops : WellFormed(l)

VARIABLES
    loop,           \* the branch
    factor,         \* unroll_factor
    place,          \* "entry_load", "loop_top", "yielded" or "exit_body"
    turn,           \* turns of the chunk that are over
    slot_vars,      \* the registers
    variables,      \* VARIABLES
    stored,         \* the word that the bare rt_store of a turn writes
    quantum_var

unrollVars == << loop, factor, place, turn, slot_vars, variables, stored, quantum_var >>

Params == 0 .. loop.params - 1

-----------------------------------------------------------------------------
(* detect_tail_loop: the keys of the two arms cover both values between     *)
(* them; of the two only whether self goes on for a truthy condition is     *)
(* kept.  What the exit arm does begins at place "exit_body" and is not     *)
(* followed: that the send to __caller around the when of a ret-machine is  *)
(* taken off (unroll.rs:186) and not emitted again is not visible here.     *)
Detected(l) ==
    /\ << l.self_key, l.exit_key >> # << "_", "_" >>
    /\ l.self_key # l.exit_key
ContinueUnderWildcard(l) ==                                \* broken: the key of the exit arm
    l.self_key = "true" \/ (l.self_key = "_" /\ l.exit_key = "true")
continue_when_truthy(l) ==
    l.self_key = "true" \/ (l.self_key = "_" /\ l.exit_key = "false")

Cond == IF slot_vars[0] # 0 THEN 1 ELSE 0
TakeIter == IF continue_when_truthy(loop) THEN Cond # 0 ELSE Cond = 0

EntryLoad ==
    /\ place = "entry_load"
    /\ slot_vars' = variables
    /\ place' = "loop_top" /\ turn' = 0
    /\ UNCHANGED << loop, factor, variables, stored, quantum_var >>

(* One copy of the body: the let has a register of its own, which lasts for *)
(* this copy; all arguments of self are folded before the first register is *)
(* written.                                                                 *)
Local == (slot_vars[loop.let] + 1) % Modulus
Fold(regs, i) == IF i < loop.params THEN regs[i] ELSE Local
Argument(regs, i) == (Fold(regs, loop.args[i].from) + loop.args[i].plus) % Modulus
NewValsInTurn ==                                           \* broken: written one by one
    LET defined[i \in Params] ==
            LET before == IF i = 0 THEN slot_vars ELSE defined[i - 1]
            IN  [before EXCEPT ![i] = Argument(before, i)]
    IN  defined[loop.params - 1]
NewVals == [ i \in Params |-> Argument(slot_vars, i) ]
Iteration ==
    /\ place = "loop_top" /\ turn < factor /\ TakeIter
    /\ stored' = Fold(slot_vars, loop.store)
    /\ slot_vars' = NewVals
    /\ turn' = turn + 1
    /\ UNCHANGED << loop, factor, place, variables, quantum_var >>

\* What VARIABLES is given at the end of a chunk and on the way out.
CommittedNot == variables                                  \* broken: not written
Committed == slot_vars
ChunkEnd ==
    /\ place = "loop_top" /\ turn = factor
    /\ variables' = Committed
    /\ quantum_var' = quantum_var - factor
    /\ place' = IF quantum_var' <= 0 THEN "yielded" ELSE "loop_top"
    /\ turn' = 0
    /\ UNCHANGED << loop, factor, slot_vars, stored >>
ExitBridge ==
    /\ place = "loop_top" /\ turn < factor /\ ~TakeIter
    /\ variables' = Committed
    /\ place' = "exit_body"
    /\ UNCHANGED << loop, factor, turn, slot_vars, stored, quantum_var >>

(* The scheduler's next turn: the machine is entered anew at block 0, with  *)
(* nothing in its registers.                                                *)
Reenter ==
    /\ place = "yielded"
    /\ \E q \in Quanta : quantum_var' = q
    /\ slot_vars' = [ i \in Params |-> 0 ]
    /\ place' = "entry_load"
    /\ UNCHANGED << loop, factor, turn, variables, stored >>

UnrollInit ==
    /\ loop \in { l \in Loops : Detected(l) } /\ factor \in Factors
    /\ place = "entry_load" /\ turn = 0
    /\ slot_vars = [ i \in Params |-> 0 ]
    /\ variables \in [ Params -> 0 .. Modulus - 1 ]
    /\ stored = 0
    /\ quantum_var \in Quanta
UnrollNext == EntryLoad \/ Iteration \/ ChunkEnd \/ ExitBridge \/ Reenter

UnrollSpec == UnrollInit /\ [][UnrollNext]_unrollVars

-----------------------------------------------------------------------------
(* The unrolled code takes the turns of the loop, each with the values the  *)
(* one before left, whatever number of turns goes into a block and wherever *)
(* the quantum runs out, and leaves the loop where the program does, with   *)
(* the values in VARIABLES, where the exit arm reads them.                  *)
Loop == INSTANCE TailLoop WITH
    vals <- IF place = "loop_top" THEN slot_vars ELSE variables,
    cell <- stored, over <- place = "exit_body"
UnrollImplementsLoop == Loop!LoopSpec
=============================================================================
