---------------------------- MODULE BranchBlocks ----------------------------
(***************************************************************************)
(* How the body of a branch becomes blocks (src/src/compiler/pipeline/     *)
(* branch.rs and expr/): every statement and every argument is a block with *)
(* a number, branch_switch enters the block of a number, and a block leaves *)
(* its result in TEMP_VAL and says which number is next.                    *)
(*                                                                         *)
(* The module writes a program and compiles it at the same time, one        *)
(* handler's step after the other, in the order in which the compiler       *)
(* descends; then it runs the blocks.  The source is kept as a graph: a     *)
(* node for each expression that is evaluated, tried or called, an edge to  *)
(* what may come next.  Values are abstract: an expression's value is its   *)
(* node.                                                                    *)
(***************************************************************************)
EXTENDS Integers, Sequences, FiniteSets

CONSTANTS
    Names,          \* names of variables
    MaxNodes,       \* bound: nodes of a program
    MaxArgs,        \* bound: arguments of a call
    MaxArms,        \* bound: arms of a when
    MaxHandlers     \* bound: handlers of a wait

ASSUME BlockAssumption ==
    Names # {} /\ MaxNodes \in Nat /\ MaxArgs \in Nat
    /\ MaxArms \in Nat \ {0} /\ MaxHandlers \in Nat \ {0}

VARIABLES
    phase,          \* "compile" or "run"
    \* the source so far
    nodes,          \* how many
    edges,          \* what may come after what; 0 stands before the first
    frontier,           \* the nodes what is written next comes after
    ends,           \* nodes after which the branch is over
    scope,          \* name -> the node that bound it, 0 for a parameter
    rebound,        \* waits whose handler binds the name of their filter again
    \* the compiler
    stack,          \* the handlers at work, the innermost last
    block_id,       \* the next number
    blocks,         \* [ops, exit]: exit is the set of numbers it may name
    branch_switch,  \* number -> block
    slot_of,           \* BranchState: name -> slot
    jump_args_base,
    \* the machine
    at,             \* the block it is in, and how many of its ops it did
    mem,            \* [temp, args, slots]: TEMP_VAL, JUMP_ARGS, VARIABLES
    last            \* [from, to, saw, meant]: the last op, see the properties

sourceVars == << nodes, edges, frontier, ends, scope, rebound >>
compilerVars == << stack, block_id, blocks, branch_switch, slot_of, jump_args_base >>
machineVars == << at, mem, last >>
blockVars == << phase, sourceVars, compilerVars, machineVars >>

NoNode == -1
Largest(S) == CHOOSE x \in S : \A y \in S : y <= x
\* f with the value v at every point of S.
Override(f, S, v) == [ x \in DOMAIN f \cup S |-> IF x \in S THEN v ELSE f[x] ]

-----------------------------------------------------------------------------
(* The source: a new node, what it comes after, and names.                  *)

Written(n) == edges' = edges \cup { << o, n >> : o \in frontier } /\ nodes' = n

\* Frames that still owe a node.
Owed == Cardinality({ i \in DOMAIN stack :
                       \/ stack[i].kind \in {"let", "call"}
                       \/ stack[i].kind = "when" /\ stack[i].node = NoNode })
Room == phase = "compile" /\ nodes + Owed < MaxNodes

Top == stack[Len(stack)]
Under == stack[Len(stack) - 1]
Popped(k) == SubSeq(stack, 1, Len(stack) - k)
WithTop(s, f) == Append(SubSeq(s, 1, Len(s) - 1), f)
\* The handler below takes the value of the expression that was compiled.
Give(s, n) == IF s[Len(s)].kind = "list" THEN [s EXCEPT ![Len(s)].super = 0]
              ELSE [s EXCEPT ![Len(s)].value = n]

WantsStatement == Top.kind = "list" /\ ~Top.terminal
WantsExpression ==
    \/ WantsStatement
    \/ Top.kind = "call" /\ Top.value = NoNode /\ Len(Top.args) < Top.count
    \/ Top.kind = "let" /\ Top.value = NoNode
    \/ Top.kind = "when" /\ Top.value = NoNode

-----------------------------------------------------------------------------
(* BranchState.  A rebound name gets a new slot: the next index is one more *)
(* than the largest in use.                                                 *)
NextIndexByNames(vs) == Cardinality(DOMAIN vs)             \* broken: counts names (#132)
NextIndex(vs) == IF DOMAIN vs = {} THEN 0 ELSE 1 + Largest({ vs[x] : x \in DOMAIN vs })

Insert(x, n) ==
    /\ slot_of' = Override(slot_of, {x}, NextIndex(slot_of))
    /\ scope' = Override(scope, {x}, n)

\* The waits at work whose filter is one of the names bound now.
Rebinds(xs) ==
    rebound' = rebound \cup
        { stack'[i].node : i \in { j \in DOMAIN stack' :
                             stack'[j].kind = "wait" /\ stack'[j].filter \cap xs # {} } }

(* count_expr_slots, which sizes VARIABLES beforehand: what is bound in the *)
(* statements of a list, and for a when that of all arms together.          *)
Counted(s, k) == [s EXCEPT ![Len(s)].slots = @ + k]
LargestArmSlots(sofar, arm) == Largest({sofar, arm})      \* broken: as if arms shared (#103)
ArmSlots(sofar, arm) == sofar + arm
HandlerSlots(sofar, handler) == Largest({sofar, handler})

(* A name that an arm binds is a new one: whether the arm ran is not known  *)
(* when the name is resolved after it.                                      *)
CanBind(x) == (\E i \in DOMAIN stack : stack[i].kind = "when") => x \notin DOMAIN scope

Op(do, n, reads, meant, writes) ==
    [do |-> do, node |-> n, reads |-> reads, meant |-> meant, writes |-> writes]

\* A block of its own under the next number.
Emit(ops, exit) ==
    /\ blocks' = Append(blocks, [ops |-> ops, exit |-> exit])
    /\ branch_switch' = Override(branch_switch, {block_id}, Len(blocks) + 1)
    /\ block_id' = block_id + 1

(* A fast statement of a branch or a handler joins the super-block of the   *)
(* fast statements before it, which then exits where the new one would; the *)
(* statements of an arm do not.                                             *)
Joins == Top.kind = "list" /\ Top.of # "arm" /\ Top.super # 0
EmitFast(s, op) ==
    IF Joins
    THEN /\ blocks' = [blocks EXCEPT ![Top.super] =
                           [ops |-> Append(@.ops, op), exit |-> {block_id + 1}]]
         /\ branch_switch' = Override(branch_switch, {block_id}, Top.super)
         /\ block_id' = block_id + 1
         /\ stack' = s
    ELSE /\ Emit(<< op >>, {block_id + 1})
         /\ stack' = IF Top.kind = "list" THEN [s EXCEPT ![Len(s)].super = Len(blocks) + 1]
                     ELSE Give(s, op.node)

\* What a pure expression reads: nothing or one variable, found by name.
Reads == { [slot |-> NoNode, meant |-> << >>] }
             \cup { [slot |-> slot_of[x], meant |-> << scope[x] >>] : x \in DOMAIN scope }

\* pure_expr::compile.  The pure default of a let is PureLet's.
Pure ==
    /\ Room /\ WantsExpression /\ Top.kind # "let"
    /\ Written(nodes + 1) /\ frontier' = {nodes + 1}
    /\ \E r \in Reads : EmitFast(stack, Op("temp", nodes + 1, r.slot, r.meant, NoNode))
    /\ UNCHANGED << phase, ends, scope, rebound, slot_of, jump_args_base, machineVars >>

\* compile_pure_let: folded before the name is inserted.
PureLet ==
    /\ Room /\ WantsStatement
    /\ Written(nodes + 1) /\ frontier' = {nodes + 1}
    /\ \E x \in Names, r \in Reads :
          /\ CanBind(x) /\ Insert(x, nodes + 1)
          /\ EmitFast(Counted(stack, 1), Op("set", nodes + 1, r.slot, r.meant, NextIndex(slot_of)))
          /\ Rebinds({x})
    /\ UNCHANGED << phase, ends, jump_args_base, machineVars >>

(* An expression in one block, which no other statement joins: a call of a  *)
(* runtime function (compile_fused_rt_call) and a tuple, whose arguments    *)
(* and elements are folded as Pure's, or a string literal.                  *)
OwnBlock(r) ==
    /\ Room /\ WantsExpression
    /\ Written(nodes + 1) /\ frontier' = {nodes + 1}
    /\ Emit(<< Op("temp", nodes + 1, r.slot, r.meant, NoNode) >>, {block_id + 1})
    /\ stack' = Give(stack, nodes + 1)
    /\ UNCHANGED << phase, ends, scope, rebound, slot_of, jump_args_base, machineVars >>
FusedCall == \E r \in Reads : OwnBlock(r)
TupleLiteral == \E r \in Reads : OwnBlock(r)
StringLiteral == OwnBlock([slot |-> NoNode, meant |-> << >>])

(* compile_fused_self_call, a terminal.                                     *)
FusedSelf ==
    /\ Room /\ WantsStatement
    /\ Written(nodes + 1) /\ frontier' = {} /\ ends' = ends \cup {nodes + 1}
    /\ Emit(<< Op("self", nodes + 1, NoNode, << >>, NoNode) >>, {})
    /\ stack' = WithTop(stack, [Top EXCEPT !.terminal = TRUE, !.changed = TRUE])
    /\ UNCHANGED << phase, scope, rebound, slot_of, jump_args_base, machineVars >>

-----------------------------------------------------------------------------
(* let with a default that is not pure: its blocks, then one that moves     *)
(* TEMP_VAL into the slot of the name.                                      *)
OpenLet ==
    /\ Room /\ WantsStatement
    /\ \E x \in Names :
          /\ CanBind(x)
          /\ stack' = Append(Give(stack, NoNode), [kind |-> "let", name |-> x, value |-> NoNode])
    /\ UNCHANGED << phase, sourceVars, block_id, blocks, branch_switch, slot_of,
                    jump_args_base, machineVars >>
CloseLet ==
    /\ phase = "compile" /\ Top.kind = "let" /\ Top.value # NoNode
    /\ Emit(<< Op("save", NoNode, NoNode, << Top.value >>, NextIndex(slot_of)) >>, {block_id + 1})
    /\ Insert(Top.name, Top.value)
    /\ stack' = Counted(Popped(1), 1)
    /\ Rebinds({Top.name})
    /\ UNCHANGED << phase, nodes, edges, frontier, ends, jump_args_base, machineVars >>

(* A call through JUMP_ARGS.  While an argument is compiled the base lies   *)
(* after the arguments of this call, so that calls in it stage elsewhere.   *)
NestedBaseSame(base, count) == base                        \* broken: not advanced
NestedBase(base, count) == base + count
OpenCall ==
    /\ Room /\ WantsExpression
    /\ \E count \in 1 .. MaxArgs, self \in BOOLEAN :
          /\ self => WantsStatement
          /\ stack' = Append(IF WantsStatement THEN Give(stack, NoNode) ELSE stack,
                             [kind |-> "call", count |-> count, self |-> self, args |-> << >>,
                              base |-> jump_args_base, value |-> NoNode])
          /\ jump_args_base' = NestedBase(jump_args_base, count)
    /\ UNCHANGED << phase, sourceVars, block_id, blocks, branch_switch, slot_of, machineVars >>
StageArg ==
    /\ phase = "compile" /\ Top.kind = "call" /\ Top.value # NoNode
    /\ Emit(<< Op("stage", NoNode, NoNode, << Top.value >>, Top.base + Len(Top.args)) >>,
            {block_id + 1})
    /\ stack' = WithTop(stack, [Top EXCEPT !.args = Append(@, Top.value), !.value = NoNode])
    /\ UNCHANGED << phase, sourceVars, slot_of, jump_args_base, machineVars >>
CloseCall ==
    /\ phase = "compile" /\ Top.kind = "call" /\ Len(Top.args) = Top.count
    /\ jump_args_base' = Top.base
    /\ Written(nodes + 1)
    /\ LET op == Op(IF Top.self THEN "self" ELSE "call", nodes + 1, Top.base, Top.args, NoNode)
       IN  IF Top.self
           THEN /\ Emit(<< op >>, {})
                /\ stack' = WithTop(Popped(1), [Under EXCEPT !.terminal = TRUE, !.changed = TRUE])
                /\ frontier' = {} /\ ends' = ends \cup {nodes + 1}
           ELSE /\ Emit(<< op >>, {block_id + 1})
                /\ stack' = Give(Popped(1), nodes + 1)
                /\ frontier' = {nodes + 1} /\ UNCHANGED ends
    /\ UNCHANGED << phase, scope, rebound, slot_of, machineVars >>

-----------------------------------------------------------------------------
List(of, k) == [kind |-> "list", of |-> of, slots |-> k, super |-> 0,
                terminal |-> FALSE, changed |-> FALSE]

(* when: the discriminant, the block that checks it, the arms one after the *)
(* other, each followed by a number that leads behind the when.  It stands  *)
(* as a statement, wherever one may: a when whose value is used, as a let's *)
(* default, an argument or a discriminant, is left out.                     *)
OpenWhen ==
    /\ Room /\ WantsStatement
    /\ stack' = Append(Give(stack, NoNode),
                       [kind |-> "when", node |-> NoNode, value |-> NoNode, block |-> 0,
                        starts |-> {}, redirects |-> {}, outs |-> {}, scope |-> scope, slots |-> 0])
    /\ UNCHANGED << phase, sourceVars, block_id, blocks, branch_switch, slot_of,
                    jump_args_base, machineVars >>
Check(n) == Emit(<< Op("check", n, NoNode, << Top.value >>, NoNode) >>, {})
FirstArm ==
    /\ phase = "compile" /\ Top.kind = "when" /\ Top.node = NoNode /\ Top.value # NoNode
    /\ Written(nodes + 1) /\ frontier' = {nodes + 1}
    /\ Check(nodes + 1)
    /\ stack' = Append(WithTop(stack, [Top EXCEPT !.node = nodes + 1, !.block = Len(blocks) + 1,
                                                  !.starts = {block_id + 1}]),
                       List("arm", 0))
    /\ UNCHANGED << phase, ends, scope, rebound, slot_of, jump_args_base, machineVars >>
\* try_build_k_table: constant arms are a table, looked up in one block.
KTable ==
    /\ phase = "compile" /\ Top.kind = "when" /\ Top.node = NoNode /\ Top.value # NoNode
    /\ Written(nodes + 1) /\ frontier' = {nodes + 1}
    /\ Emit(<< Op("table", nodes + 1, NoNode, << Top.value >>, NoNode) >>, {block_id + 1})
    /\ stack' = Give(Popped(1), nodes + 1)
    /\ UNCHANGED << phase, ends, scope, rebound, slot_of, jump_args_base, machineVars >>

InArm == phase = "compile" /\ Top.kind = "list" /\ Top.of = "arm"
\* Only a state change needs no way out of the arm.
NeedsRedirect == ~Top.changed
ArmExit == IF NeedsRedirect THEN {block_id} ELSE {}
ArmDone == [Under EXCEPT !.slots = ArmSlots(@, Top.slots), !.outs = @ \cup frontier,
                         !.redirects = @ \cup ArmExit]
NextArm ==
    /\ InArm /\ Room /\ Cardinality(Under.starts) < MaxArms
    /\ block_id' = block_id + 1
    /\ stack' = Popped(2) \o << [ArmDone EXCEPT !.starts = @ \cup {block_id + 1}], List("arm", 0) >>
    /\ frontier' = {Under.node} /\ scope' = Under.scope
    /\ UNCHANGED << phase, nodes, edges, ends, rebound, blocks, branch_switch, slot_of,
                    jump_args_base, machineVars >>
\* The last arm needs a way out too: the number after it is not the next one.
LastArmNoExit == {}                                        \* broken: only the others have one
LastArmExit == ArmExit
AfterWhen == IF NeedsRedirect THEN block_id + 1 ELSE block_id
CloseWhen ==
    /\ InArm
    /\ \E wildcard \in BOOLEAN :
          LET w    == ArmDone
              miss == IF wildcard THEN {} ELSE {AfterWhen}
          IN  /\ blocks' = Append([blocks EXCEPT ![w.block].exit = w.starts \cup miss],
                                  [ops |-> << >>, exit |-> {AfterWhen}])
              /\ branch_switch' = Override(branch_switch, Under.redirects \cup LastArmExit,
                                       Len(blocks) + 1)
              /\ frontier' = w.outs \cup (IF wildcard THEN {} ELSE {w.node})
    /\ block_id' = AfterWhen
    /\ scope' = Under.scope
    /\ stack' = Counted(Give(Popped(2), NoNode), ArmDone.slots)
    /\ UNCHANGED << phase, nodes, edges, ends, rebound, slot_of, jump_args_base, machineVars >>

(* wait: the block that looks for a message, again and again, then the      *)
(* handlers, one after the other, with nothing in between.  The names of a  *)
(* handler are bound when the message is taken.  A wait may have a filter,  *)
(* a name whose value the first word of the message must have; it is looked *)
(* up last, when the handlers have been compiled, and read after the words  *)
(* of the message have been stored.                                         *)
Folded(filter) == IF filter = {} THEN NoNode ELSE slot_of[CHOOSE x \in filter : TRUE]
Meant(filter) == IF filter = {} THEN << >> ELSE << scope[CHOOSE x \in filter : TRUE] >>
OpenWait ==
    /\ Room /\ WantsStatement
    /\ Written(nodes + 1) /\ frontier' = {nodes + 1}
    /\ \E xs \in {{}} \cup { {x} : x \in { n \in Names : CanBind(n) } },
          filter \in {{}} \cup { {x} : x \in DOMAIN scope } :
          /\ xs = {} => filter = {}
          /\ IF xs = {} THEN UNCHANGED << scope, slot_of >> ELSE \A x \in xs : Insert(x, nodes + 1)
          /\ Emit(<< Op("take", nodes + 1, Folded(filter), Meant(filter),
                        IF xs = {} THEN NoNode ELSE NextIndex(slot_of)) >>, {block_id})
          /\ stack' = stack \o << [kind |-> "wait", node |-> nodes + 1, block |-> Len(blocks) + 1,
                                   starts |-> {block_id + 1}, outs |-> {}, scope |-> scope',
                                   slots |-> 0, filter |-> filter],
                                  List("handler", Cardinality(xs)) >>
          /\ Rebinds(xs)
    /\ UNCHANGED << phase, ends, jump_args_base, machineVars >>
InHandler == phase = "compile" /\ Top.kind = "list" /\ Top.of = "handler"
HandlerDone == [Under EXCEPT !.slots = HandlerSlots(@, Top.slots), !.outs = @ \cup frontier]
NextHandler ==
    /\ InHandler /\ Room /\ Cardinality(Under.starts) < MaxHandlers
    /\ stack' = Popped(2) \o << [HandlerDone EXCEPT !.starts = @ \cup {block_id}],
                                List("handler", 0) >>
    /\ frontier' = {Under.node} /\ scope' = Under.scope
    /\ UNCHANGED << phase, nodes, edges, ends, rebound, block_id, blocks, branch_switch,
                    slot_of, jump_args_base, machineVars >>
CloseWait ==
    /\ InHandler
    /\ blocks' = [blocks EXCEPT ![Under.block].exit = @ \cup Under.starts,
                                ![Under.block].ops[1].reads = Folded(Under.filter)]
    /\ frontier' = HandlerDone.outs
    /\ stack' = LET s == Counted(Popped(2), HandlerDone.slots)
                IN  [s EXCEPT ![Len(s)].terminal = TRUE]
    /\ UNCHANGED << phase, nodes, edges, ends, scope, rebound, block_id, branch_switch,
                    slot_of, jump_args_base, machineVars >>

-----------------------------------------------------------------------------
(* The whole branch is compiled: the machine enters it at block 0.          *)
(* A block that has no exit, or names a number without entry, ends the run. *)
Over == [block |-> 0, done |-> 0]
Enter(id) == IF id \in DOMAIN branch_switch THEN [block |-> branch_switch[id], done |-> 0]
             ELSE Over
Exits(b) == IF blocks[b].exit = {} THEN {Over} ELSE { Enter(id) : id \in blocks[b].exit }
RunBranch ==
    /\ phase = "compile" /\ Len(stack) = 1
    /\ phase' = "run" /\ ends' = ends \cup frontier
    /\ at' = Enter(0)
    /\ UNCHANGED << nodes, edges, frontier, scope, rebound, compilerVars, mem, last >>

Running == phase = "run" /\ at.block # 0
\* Memory nobody wrote yet reads as NoNode.
Word(f, i) == IF i \in DOMAIN f THEN f[i] ELSE NoNode
Execute ==
    /\ Running /\ at.done < Len(blocks[at.block].ops)
    /\ LET op    == blocks[at.block].ops[at.done + 1]
           slots == IF op.do = "save" THEN Override(mem.slots, {op.writes}, mem.temp)
                    ELSE IF op.writes # NoNode /\ op.do \in {"set", "take"}
                    THEN Override(mem.slots, {op.writes}, op.node)
                    ELSE mem.slots
           read  == IF op.do = "take" THEN slots ELSE mem.slots
           saw   == CASE op.do \in {"call", "self"} ->
                           [ i \in DOMAIN op.meant |-> Word(mem.args, op.reads + i - 1) ]
                    [] op.do \in {"save", "stage", "check", "table"} ->
                           IF op.meant = << >> THEN << >> ELSE << mem.temp >>
                    [] OTHER -> IF op.reads = NoNode THEN << >> ELSE << Word(read, op.reads) >>
       IN  /\ last' = [from |-> last.to, to |-> IF op.node = NoNode THEN last.to ELSE op.node,
                       saw |-> saw, meant |-> op.meant]
           /\ mem' = [temp  |-> IF op.do \in {"temp", "call", "table"} THEN op.node ELSE mem.temp,
                      args  |-> IF op.do = "stage" THEN Override(mem.args, {op.writes}, mem.temp)
                                ELSE mem.args,
                      slots |-> slots]
    /\ at' \in IF at.done + 1 < Len(blocks[at.block].ops)
               THEN {[at EXCEPT !.done = @ + 1]} ELSE Exits(at.block)
    /\ UNCHANGED << phase, sourceVars, compilerVars >>
\* The way out of an arm does nothing but name the number behind the when.
Redirect ==
    /\ Running /\ blocks[at.block].ops = << >>
    /\ at' \in Exits(at.block)
    /\ UNCHANGED << phase, sourceVars, compilerVars, mem, last >>

(* compile_branch: parameters have the first slots; a literal or a wildcard *)
(* keeps its slot and has no name.                                          *)
BlockInit ==
    /\ phase = "compile"
    /\ nodes = 0 /\ edges = {} /\ frontier = {0} /\ ends = {} /\ rebound = {}
    /\ \E patterns \in {1, 2} :
          /\ slot_of = [ x \in { CHOOSE y \in Names : TRUE } |-> patterns - 1 ]
          /\ stack = << List("branch", patterns) >>
          /\ mem = [temp |-> NoNode, args |-> << >>, slots |-> [ i \in 0 .. patterns - 1 |-> 0 ]]
    /\ scope = [ x \in DOMAIN slot_of |-> 0 ]
    /\ block_id = 0 /\ blocks = << >> /\ branch_switch = << >>
    /\ jump_args_base = 0
    /\ at = [block |-> 0, done |-> 0]
    /\ last = [from |-> 0, to |-> 0, saw |-> << >>, meant |-> << >>]

BlockNext ==
    \/ Pure \/ PureLet \/ FusedCall \/ TupleLiteral \/ StringLiteral \/ FusedSelf
    \/ OpenLet \/ CloseLet
    \/ OpenCall \/ StageArg \/ CloseCall
    \/ OpenWhen \/ FirstArm \/ KTable \/ NextArm \/ CloseWhen
    \/ OpenWait \/ NextHandler \/ CloseWait
    \/ RunBranch \/ Execute \/ Redirect

BlockSpec == BlockInit /\ [][BlockNext]_blockVars

-----------------------------------------------------------------------------
(* The blocks do what the source says, in its order: whatever way the run   *)
(* takes through arms and handlers, each expression comes after one that    *)
(* the source puts before it, and it stops only where the source ends, not  *)
(* at a number nobody registered (#108 and the like).  Of the handlers of a *)
(* wait "only one fires per activation" (wait_expr.rs:95), which fails as   *)
(* soon as there are two: the run HandlersFallThrough.                      *)
FollowsSource ==
    /\ last.from # last.to => << last.from, last.to >> \in edges
    /\ phase = "run" /\ at.block = 0 => last.to \in ends

(* Every operand is what the source means: the arguments of a call are its  *)
(* own although calls in them stage theirs in the same JUMP_ARGS, a name    *)
(* has the value of the binding it resolves to although slots are shared    *)
(* out in one pass over all arms (#132), and TEMP_VAL still holds the value *)
(* it is read for.  Only the filter of a wait is not, when the handler      *)
(* binds its name again.                                                    *)
OperandsIntact == last.to \in rebound \/ last.saw = last.meant

(* The filter of a wait is compared with what its name meant before the     *)
(* wait, "the sender pid" (wait_expr.rs:302), whatever the handler calls    *)
(* the words of the message: it fails, the run FilterRebound.               *)
FiltersIntact == last.to \in rebound => last.saw = last.meant

(* VARIABLES, sized by count_branch_vars before the branch is compiled, has *)
(* room for every slot that is given out (#103).                            *)
SlotsFit == phase # "compile" => NextIndex(slot_of) <= stack[1].slots
=============================================================================
