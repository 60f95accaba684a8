------------------------------- MODULE Guards -------------------------------
(***************************************************************************)
(* Which branch of a machine a call enters: the index of the branches that *)
(* share a pattern hash (src/src/compiler/mod.rs, ctx/registry.rs), the    *)
(* dispatch compiled at every spawn and self() from their literal guards,  *)
(* and that dispatch at run time (pipeline/expr/dispatch.rs).              *)
(*                                                                         *)
(* The table of string guards is any perfect hash of the literals' hashes, *)
(* which is what module Mphf builds.  Numbers and strings are values; a    *)
(* string has a hash and a length, and two strings may share both.         *)
(***************************************************************************)
EXTENDS Integers, Sequences, FiniteSets

CONSTANTS
    Ints, Strs,         \* values that occur as literals and as arguments
    fxhash, len,        \* of each string
    Signatures,         \* per position, the literals branches may have there
    ArgsOf,             \* signature -> the argument lists of calls
    MaxBranches,        \* bound: branches of the machine
    None                \* no guard: a name or _

(* Every call has arguments, and they have the kinds of the literals it is  *)
(* compared with: a call of other kinds has another pattern hash.           *)
ASSUME GuardAssumption ==
    /\ Ints \cap Strs = {} /\ None \notin Ints \cup Strs /\ None # "Str"
    /\ \A s \in Signatures : s \in Seq(SUBSET (Ints \cup Strs)) /\ s # << >>
    /\ \A s \in Signatures : \A args \in ArgsOf[s], p \in DOMAIN s : \A lit \in s[p] :
          /\ lit \in Ints => args[p] \in Ints
          /\ lit \in Strs => args[p] \in Strs

VARIABLES
    sig,        \* the signature all branches of this hash have
    guards,     \* branches_for_hash: the guards of each, in the source's order
    code,       \* the dispatch compiled for a call, or what the compiler did
    call        \* [args, branch] of the last call

guardVars == << sig, guards, code, call >>

Branches == DOMAIN guards
Positions == DOMAIN sig
Least(S) == CHOOSE x \in S : \A y \in S : x <= y
Greatest(S) == CHOOSE x \in S : \A y \in S : x >= y

(* A branch of the source: a literal or none in every position.             *)
insert_branch ==
    /\ code = None /\ Len(guards) < MaxBranches
    /\ \E g \in [Positions -> UNION { sig[p] : p \in Positions } \cup {None}] :
          /\ \A p \in Positions : g[p] \in sig[p] \cup {None}
          /\ guards' = Append(guards, g)
    /\ UNCHANGED << sig, code, call >>

-----------------------------------------------------------------------------
Literals(p) == { guards[b][p] : b \in Branches } \ {None}
Guarded(b) == { p \in Positions : guards[b][p] # None }

\* Of the first branch that has one, the leftmost.
find_first_guard_pos ==
    LET some == { b \in Branches : Guarded(b) # {} }
    IN  IF some = {} THEN 1 ELSE Least(Guarded(Least(some)))

\* The leftmost of the positions with the most distinct literals.
find_best_guard_pos ==
    LET most == { p \in Positions : \A q \in Positions :
                      Cardinality(Literals(p)) >= Cardinality(Literals(q)) }
    IN  IF Literals(Least(most)) = {} THEN find_first_guard_pos ELSE Least(most)

\* The kind of the first literal at that position.
guard_kind ==
    LET at == { b \in Branches : guards[b][find_best_guard_pos] # None }
    IN  IF at = {} THEN None
        ELSE IF guards[Least(at)][find_best_guard_pos] \in Ints THEN "Int" ELSE "Str"

\* The last branch of the set, the first branch of all when it is empty.
LastOrFirst(S) == IF S = {} THEN 1 ELSE Greatest(S)

(* The entry of a branch in the switch is its first guard, in whatever      *)
(* position; a string there makes the branch a default.                     *)
SwitchEntry(b) ==
    IF Guarded(b) = {} \/ guards[b][Least(Guarded(b))] \notin Ints THEN None
    ELSE guards[b][Least(Guarded(b))]

emit_int_guard_select ==
    LET entries == { b \in Branches : SwitchEntry(b) # None }
    IN  IF \E b, c \in entries : b # c /\ SwitchEntry(b) = SwitchEntry(c)
        THEN [emit |-> "panic", kind |-> "Int"]            \* Cranelift's Switch refuses it
        ELSE [emit |-> "switch", kind |-> "Int", pos |-> find_best_guard_pos,
              arms |-> [ b \in entries |-> SwitchEntry(b) ],
              default |-> LastOrFirst(Branches \ entries)]

(* One table entry per branch with a literal at the best position.          *)
StrBranches == { b \in Branches : guards[b][find_best_guard_pos] \in Strs }
PerfectHashes ==
    LET n == Cardinality(StrBranches)
    IN  { m \in [{ fxhash[s] : s \in Strs } -> 1 .. n] :
            { m[fxhash[guards[b][find_best_guard_pos]]] : b \in StrBranches } = 1 .. n }

emit_str_guard_select ==
    LET pos == find_best_guard_pos
    IN  IF \E b \in Branches : guards[b][pos] \in Ints
        THEN {[emit |-> "bail", kind |-> "Str"]}
        ELSE IF \E b, c \in StrBranches : b # c /\ fxhash[guards[b][pos]] = fxhash[guards[c][pos]]
        THEN {[emit |-> "panic", kind |-> "Str"]}          \* MphfBuilder gives up
        ELSE { [emit |-> "mphf", kind |-> "Str", pos |-> pos, mphf |-> m,
                table |-> [ i \in 1 .. Cardinality(StrBranches) |->
                              CHOOSE b \in StrBranches : m[fxhash[guards[b][pos]]] = i ],
                default |-> LastOrFirst({ b \in Branches : guards[b][pos] = None })]
              : m \in PerfectHashes }

emit_guard_select ==
    IF guard_kind = "Str" THEN emit_str_guard_select ELSE {emit_int_guard_select}

(* A call site.  One candidate needs no dispatch: it is entered unasked.    *)
CompileCall ==
    /\ code = None /\ Branches # {}
    /\ \/ /\ Len(guards) > 1
          /\ code' \in emit_guard_select
       \/ /\ Len(guards) = 1
          /\ code' = [emit |-> "const", kind |-> None]
    /\ UNCHANGED << sig, guards, call >>

-----------------------------------------------------------------------------
(* Run time: the discriminant is the argument at the best position.         *)
SwitchOn(disc) ==
    LET hits == { b \in DOMAIN code.arms : code.arms[b] = disc }
    IN  IF hits = {} THEN code.default ELSE Least(hits)

\* Hash, length, then the bytes.
VerifiedNoBytes(lit, s) ==                                \* broken: no memcmp
    fxhash[lit] = fxhash[s] /\ len[lit] = len[s]
Verified(lit, s) == fxhash[lit] = fxhash[s] /\ len[lit] = len[s] /\ lit = s
LookUp(disc) ==
    LET b == code.table[code.mphf[fxhash[disc]]]
    IN  IF Verified(guards[b][code.pos], disc) THEN b ELSE code.default

Call(args) ==
    /\ code # None
    /\ \/ code.emit = "const" /\ call' = [args |-> args, branch |-> 1]
       \/ code.emit = "switch" /\ call' = [args |-> args, branch |-> SwitchOn(args[code.pos])]
       \/ code.emit = "mphf" /\ call' = [args |-> args, branch |-> LookUp(args[code.pos])]
    /\ UNCHANGED << sig, guards, code >>

GuardInit ==
    /\ sig \in Signatures /\ guards = << >>
    /\ code = None /\ call = None

GuardNext ==
    \/ insert_branch
    \/ CompileCall
    \/ \E args \in ArgsOf[sig] : Call(args)

GuardSpec == GuardInit /\ [][GuardNext]_guardVars

-----------------------------------------------------------------------------
Matches(b, args) == \A p \in Guarded(b) : guards[b][p] = args[p]
GuardedAt == { p \in Positions : Literals(p) # {} }

(* Where literals stand in one position only and the call fits some branch, *)
(* the call enters a branch it fits: not one whose literal differs, hashes  *)
(* alike or was never compared.                                             *)
EntersMatchingBranch ==
    call # None /\ Cardinality(GuardedAt) <= 1
    /\ (\E b \in Branches : Matches(b, call.args))
    => Matches(call.branch, call.args)

(* "a call with arg value matching the guard prefers that branch over a     *)
(* wildcard" (docs/ast.md:70), as far as it holds: for one guarded position.*)
PrefersLiteral ==
    call # None /\ Cardinality(GuardedAt) <= 1
    /\ (\E b \in Branches : Guarded(b) # {} /\ Matches(b, call.args))
    => Guarded(call.branch) # {}

(* find_best_guard_pos is right for strings: when some position tells all   *)
(* branches apart the compiler does not fail on a duplicate key.  It counts *)
(* literals, not hashes, so this holds if no two of them in one position    *)
(* share a hash, or are of two kinds.                                       *)
TellsApart(p) ==
    \A b, c \in Branches : b # c =>
        guards[b][p] \in Strs /\ guards[c][p] \in Strs /\ guards[b][p] # guards[c][p]
HashesDiffer ==
    \A p \in Positions : \A x, y \in Literals(p) : x \in Strs /\ x # y =>
        y \in Strs /\ fxhash[x] # fxhash[y]
DistinctStringsCompile ==
    code # None /\ code.kind = "Str" /\ HashesDiffer /\ (\E p \in Positions : TellsApart(p))
    => code.emit = "mphf"

(* The branch entered is one the call fits, the one with the literal if     *)
(* there is one, and a machine whose literals' hashes differ is compiled.   *)
CallEntersRightBranch ==
    EntersMatchingBranch /\ PrefersLiteral /\ DistinctStringsCompile
=============================================================================
