----------------------------- MODULE TailLoop -----------------------------
(* A branch that calls itself last, as the program means it: a when over    *)
(* the values of the parameters, one of whose two arms binds a local,       *)
(* stores a word and calls self.  Every turn looks at the values again.     *)
EXTENDS Integers

CONSTANTS Modulus       \* values are counted modulo this

VARIABLES loop, vals, cell, over

\* What an expression sees: the parameters, then the local.
Let(l, vs) == (vs[l.let] + 1) % Modulus
Seen(l, vs) == [ i \in 0 .. l.params |-> IF i < l.params THEN vs[i] ELSE Let(l, vs) ]

(* The arms are tried for the boolean value of the condition, _ last.       *)
Condition(l, vs) == vs[0] # 0
Has(key, b) == key = IF b THEN "true" ELSE "false"
EntersSelf(l, b) == Has(l.self_key, b) \/ (l.self_key = "_" /\ ~Has(l.exit_key, b))

\* self() takes every argument before it gives any parameter its value.
Turn ==
    /\ ~over /\ EntersSelf(loop, Condition(loop, vals))
    /\ vals' = [ i \in DOMAIN vals |->
                   (Seen(loop, vals)[loop.args[i].from] + loop.args[i].plus) % Modulus ]
    /\ cell' = Seen(loop, vals)[loop.store]
    /\ UNCHANGED << loop, over >>
Out ==
    /\ ~over /\ ~EntersSelf(loop, Condition(loop, vals))
    /\ over' = TRUE
    /\ UNCHANGED << loop, vals, cell >>

LoopSpec == ~over /\ [][Turn \/ Out]_<< loop, vals, cell, over >>
=============================================================================
