------------------------ MODULE BranchBlocks_proofs ------------------------
(***************************************************************************)
(* Every program a branch can be compiled to, for any nesting of lets,      *)
(* calls, whens and waits: first what holds of the handlers' stack, the     *)
(* slots counted and the numbers of blocks (Wellformed), then that the      *)
(* blocks do what the source says (Correct).  The induction over a running  *)
(* program is one over the compiler: with every number that a block may be  *)
(* entered under goes the set of all configurations it may be entered in,   *)
(* and each step of the compiler extends these sets.  What the filter of a  *)
(* wait reads is decided only when the wait is closed; Filters says of the  *)
(* waits at work that their block begins with the operation that will read  *)
(* it, and that the name still means what it did unless it is in rebound.   *)
(***************************************************************************)
EXTENDS BranchBlocks, SequenceTheorems, FiniteSetTheorems, TLAPS

-----------------------------------------------------------------------------
(* The blocks of a branch: the handlers at work.                            *)
Bindings == UNION { [S -> Nat] : S \in SUBSET Names }
ListFrame == [kind : {"list"}, of : {"branch", "arm", "handler"}, slots : Nat, super : Nat,
              terminal : BOOLEAN, changed : BOOLEAN]
LetFrame  == [kind : {"let"}, name : Names, value : Int]
CallFrame == [kind : {"call"}, count : Nat, self : BOOLEAN, args : Seq(Int), base : Nat,
              value : Int]
WhenFrame == [kind : {"when"}, node : Nat \cup {NoNode}, value : Int, block : Nat, starts : SUBSET Nat,
              redirects : SUBSET Nat, outs : SUBSET Nat, scope : Bindings, slots : Nat]
WaitFrame == [kind : {"wait"}, node : Nat, block : Nat, starts : SUBSET Nat,
              outs : SUBSET Nat, scope : Bindings, slots : Nat, filter : SUBSET Names]
Frame == ListFrame \cup LetFrame \cup CallFrame \cup WhenFrame \cup WaitFrame

(* A when whose arms are being compiled.                                    *)
OpenCheck(f) == f.kind = "when" /\ f.node # NoNode
(* A frame that waits for a value.                                          *)
Pending(f) == f.kind \in {"let", "call"} \/ (f.kind = "when" /\ f.node = NoNode)
(* Frame g may stand right above frame f.                                   *)
Above(f, g) ==
    \/ /\ f.kind = "list" /\ ~f.terminal
       /\ g.kind \in {"let", "call", "when", "wait"} /\ (g.kind # "wait" => f.super = 0)
    \/ /\ Pending(f) /\ f.value = NoNode /\ g.kind = "call" /\ ~g.self
       /\ f.kind = "call" => Len(f.args) < f.count
    \/ OpenCheck(f) /\ g.kind = "list" /\ g.of = "arm"
    \/ f.kind = "wait" /\ g.kind = "list" /\ g.of = "handler"
(* What holds of each frame alone.                                          *)
FrameOK(f) ==
    /\ f.kind = "list" => (f.changed => f.terminal)
    /\ f.kind = "let" => f.value \in Nat \cup {NoNode}
    /\ f.kind = "call" => Len(f.args) <= f.count /\ (f.value # NoNode => Len(f.args) < f.count)
    /\ f.kind = "wait" => f.slots = 0 /\ f.outs = {} /\ \E s \in Nat : f.starts = {s}
    /\ (f.kind = "when" /\ f.node = NoNode)
        => f.slots = 0 /\ f.outs = {} /\ f.starts = {} /\ f.redirects = {}
(* A frame that may be on top when a step begins.                           *)
Atop(f) == ~OpenCheck(f) /\ f.kind # "wait"
(* The stack from the branch's list to the handler at work.                 *)
Shape(s) ==
    /\ s \in Seq(Frame)
    /\ Len(s) > 0 /\ s[1].kind = "list" /\ s[1].of = "branch"
    /\ Atop(s[Len(s)])
    /\ \A i \in 1 .. Len(s) : FrameOK(s[i])
    /\ \A i \in 1 .. Len(s) - 1 : Above(s[i], s[i + 1])
    /\ \A i, j \in 1 .. Len(s) : i < j /\ s[i].kind = "call"
            => s[j].kind = "call" /\ s[i].base + s[i].count <= s[j].base

\* t begins as s up to m.
Keeps(s, t, m) ==
    /\ m \in Nat /\ m < Len(s) /\ m < Len(t)
    /\ t \in Seq(Frame)
    /\ \A i \in 1 .. m : t[i] = s[i]
(* A frame that stands where another stood.                                 *)
Like(g, f) ==
    /\ g.kind = f.kind
    /\ g.kind = "list" => g.of = f.of
    /\ g.kind = "call" => g.self = f.self /\ g.base = f.base

(* A handler's frame is replaced.                                           *)
LEMMA ShapeReplaced ==
    ASSUME NEW s, Shape(s), NEW t, NEW m, Keeps(s, t, m), Len(t) = m + 1,
           Like(t[m + 1], s[m + 1]), FrameOK(t[m + 1]), Atop(t[m + 1])
    PROVE  Shape(t)
<1> USE DEF Keeps
<1>1. s \in Seq(Frame) /\ Len(s) \in Nat
  BY DEF Shape
<1>2. t[1].kind = "list" /\ t[1].of = "branch"
  BY <1>1 DEF Shape, Like
<1>3. ASSUME NEW i \in 1 .. Len(t)  PROVE FrameOK(t[i])
  BY <1>1 DEF Shape
<1>4. ASSUME NEW i \in 1 .. Len(t) - 1  PROVE Above(t[i], t[i + 1])
  <2>1. CASE i = m
    <3>1. Above(s[m], s[m + 1])
      BY <1>1, <2>1 DEF Shape
    <3>2. t[m] = s[m]
      BY <2>1
    <3> QED  BY <3>1, <3>2, <2>1 DEF Above, Like
  <2>2. CASE i < m
    <3>1. Above(s[i], s[i + 1])
      BY <1>1, <2>2 DEF Shape
    <3>2. t[i] = s[i] /\ t[i + 1] = s[i + 1]
      BY <2>2, <1>1
    <3> QED  BY <3>1, <3>2
  <2> QED  BY <2>1, <2>2, <1>1
<1>5. ASSUME NEW i \in 1 .. Len(t), NEW j \in 1 .. Len(t), i < j, t[i].kind = "call"
      PROVE  t[j].kind = "call" /\ t[i].base + t[i].count <= t[j].base
  <2>1. t[i] = s[i] /\ i \in 1 .. Len(s) /\ j \in 1 .. Len(s)
    BY <1>1, <1>5
  <2>2. s[j].kind = "call" /\ s[i].base + s[i].count <= s[j].base
    BY <2>1, <1>5 DEF Shape
  <2>3. CASE j = m + 1
    BY <2>1, <2>2, <2>3 DEF Like
  <2>4. CASE j # m + 1
    BY <2>1, <2>2, <2>4
  <2> QED  BY <2>3, <2>4
<1> QED  BY <1>1, <1>2, <1>3, <1>4, <1>5 DEF Shape

(* A handler's frame is replaced and another starts above it.               *)
LEMMA ShapeOpened ==
    ASSUME NEW s, Shape(s), NEW t, NEW m, Keeps(s, t, m), Len(t) = m + 2,
           Like(t[m + 1], s[m + 1]), FrameOK(t[m + 1]), FrameOK(t[m + 2]), Atop(t[m + 2]),
           Above(t[m + 1], t[m + 2]),
           t[m + 1].kind = "call" => t[m + 1].base + t[m + 1].count <= t[m + 2].base
    PROVE  Shape(t)
<1> USE DEF Keeps
<1>1. s \in Seq(Frame) /\ Len(s) \in Nat
  BY DEF Shape
<1>2. t[1].kind = "list" /\ t[1].of = "branch"
  BY <1>1 DEF Shape, Like
<1>3. ASSUME NEW i \in 1 .. Len(t)  PROVE FrameOK(t[i])
  BY <1>1 DEF Shape
<1>4. ASSUME NEW i \in 1 .. Len(t) - 1  PROVE Above(t[i], t[i + 1])
  <2>1. CASE i = m
    <3>1. Above(s[m], s[m + 1])
      BY <1>1, <2>1 DEF Shape
    <3>2. t[m] = s[m]
      BY <2>1
    <3> QED  BY <3>1, <3>2, <2>1 DEF Above, Like
  <2>2. CASE i < m
    <3>1. Above(s[i], s[i + 1])
      BY <1>1, <2>2 DEF Shape
    <3>2. t[i] = s[i] /\ t[i + 1] = s[i + 1]
      BY <2>2, <1>1
    <3> QED  BY <3>1, <3>2
  <2>3. CASE i = m + 1
    BY <2>3
  <2> QED  BY <2>1, <2>2, <2>3, <1>1
<1>5. ASSUME NEW i \in 1 .. Len(t), NEW j \in 1 .. Len(t), i < j, t[i].kind = "call"
      PROVE  t[j].kind = "call" /\ t[i].base + t[i].count <= t[j].base
  <2>1. CASE i = m + 1
    <3>1. j = m + 2
      BY <2>1, <1>5
    <3>2. t[m + 1].kind = "call"
      BY <2>1, <1>5
    <3>3. t[m + 2].kind = "call"
      BY <3>2 DEF Above, Pending, OpenCheck
    <3>4. t[m + 1].base + t[m + 1].count <= t[m + 2].base
      BY <3>2
    <3> QED  BY <3>1, <3>3, <3>4, <2>1
  <2>2. CASE i # m + 1
    <3>1. t[i] = s[i] /\ i \in 1 .. m
      BY <2>2, <1>1, <1>5
    <3>2. \A l \in 1 .. Len(s) : i < l => s[l].kind = "call" /\ s[i].base + s[i].count <= s[l].base
      BY <3>1, <1>1, <1>5 DEF Shape
    <3>3. s[m + 1].kind = "call" /\ s[i].base + s[i].count <= s[m + 1].base
      BY <3>2, <3>1, <1>1
    <3>4. CASE j \in 1 .. m
      <4>1. t[j] = s[j] /\ j \in 1 .. Len(s)
        BY <3>4, <1>1
      <4> QED  BY <4>1, <3>1, <3>2, <1>5
    <3>5. CASE j = m + 1
      BY <3>1, <3>3, <3>5 DEF Like
    <3>6. CASE j = m + 2
      <4>1. t[m + 1] \in Frame /\ t[m + 2] \in Frame /\ t[i] \in Frame
        BY <1>1, <3>1
      <4>2. t[m + 1].kind = "call" /\ t[m + 1].base = s[m + 1].base
        BY <3>3 DEF Like
      <4>3. t[m + 2].kind = "call"
        BY <4>2 DEF Above, Pending, OpenCheck
      <4>4. /\ t[m + 1].base \in Nat /\ t[m + 1].count \in Nat /\ t[m + 2].base \in Nat
            /\ t[i].base \in Nat /\ t[i].count \in Nat
        BY <4>1, <4>2, <4>3, <1>5 DEF Frame, ListFrame, LetFrame, CallFrame, WhenFrame, WaitFrame
      <4> QED  BY SMTT(30), <4>2, <4>3, <4>4, <3>1, <3>3, <3>6
    <3> QED  BY <3>4, <3>5, <3>6
  <2> QED  BY <2>1, <2>2
<1> QED  BY <1>1, <1>2, <1>3, <1>4, <1>5 DEF Shape

(* A list opens a wait and the list of its handler.                         *)
LEMMA ShapeWaiting ==
    ASSUME NEW s, Shape(s), NEW t, NEW m, Keeps(s, t, m), Len(t) = m + 3,
           t[m + 1] = s[m + 1], t[m + 1].kind = "list", ~t[m + 1].terminal,
           t[m + 2].kind = "wait", t[m + 3].kind = "list", t[m + 3].of = "handler",
           FrameOK(t[m + 2]), FrameOK(t[m + 3])
    PROVE  Shape(t)
<1> USE DEF Keeps
<1>1. s \in Seq(Frame) /\ Len(s) \in Nat
  BY DEF Shape
<1>2. t[1].kind = "list" /\ t[1].of = "branch"
  BY <1>1 DEF Shape
<1>3. ASSUME NEW i \in 1 .. Len(t)  PROVE FrameOK(t[i])
  BY <1>1 DEF Shape
<1>4. ASSUME NEW i \in 1 .. Len(t) - 1  PROVE Above(t[i], t[i + 1])
  <2>1. CASE i <= m
    <3>1. Above(s[i], s[i + 1])
      BY <1>1, <2>1 DEF Shape
    <3>2. t[i] = s[i]
      BY <2>1, <1>1
    <3>3. t[i + 1] = s[i + 1]
      <4>1. CASE i = m
        <5>1. i + 1 = m + 1
          BY <4>1
        <5> QED  BY <5>1
      <4>2. CASE i < m
        <5>1. i + 1 \in 1 .. m
          BY <4>2, <1>1
        <5> QED  BY <5>1
      <4> QED  BY <4>1, <4>2, <2>1, <1>1
    <3> QED  BY <3>1, <3>2, <3>3
  <2>2. CASE i = m + 1
    BY <2>2 DEF Above
  <2>3. CASE i = m + 2
    BY <2>3 DEF Above
  <2> QED  BY <2>1, <2>2, <2>3, <1>1
<1>5. ASSUME NEW i \in 1 .. Len(t), NEW j \in 1 .. Len(t), i < j
      PROVE  t[i].kind # "call"
  <2>1. CASE i <= m
    <3>1. t[i] = s[i]
      BY <2>1, <1>1
    <3>2. s[i].kind = "call" => s[m + 1].kind = "call"
      BY <2>1, <1>1 DEF Shape
    <3> QED  BY <3>1, <3>2
  <2>2. CASE i = m + 1 \/ i = m + 2
    BY <2>2
  <2> QED  BY <2>1, <2>2, <1>5
<1>6. Atop(t[Len(t)])
  BY DEF Atop, OpenCheck
<1>7. \A i, j \in 1 .. Len(t) : i < j /\ t[i].kind = "call"
            => t[j].kind = "call" /\ t[i].base + t[i].count <= t[j].base
  BY <1>5
<1>8. t \in Seq(Frame) /\ Len(t) > 0
  OBVIOUS
<1> HIDE DEF Keeps
<1> QED  BY <1>8, <1>2, <1>3, <1>4, <1>6, <1>7 DEF Shape

-----------------------------------------------------------------------------
(* How the handlers' steps change the stack.                                *)
LEMMA WithTopIs ==
    ASSUME NEW s \in Seq(Frame), Len(s) > 0, NEW g \in Frame
    PROVE  /\ Keeps(s, WithTop(s, g), Len(s) - 1)
           /\ Len(WithTop(s, g)) = Len(s)
           /\ WithTop(s, g)[Len(s)] = g
<1> DEFINE r == SubSeq(s, 1, Len(s) - 1)
<1>1. r \in Seq(Frame) /\ Len(r) = Len(s) - 1 /\ \A i \in 1 .. Len(s) - 1 : r[i] = s[i]
  BY SubSeqProperties
<1>2. /\ Append(r, g) \in Seq(Frame) /\ Len(Append(r, g)) = Len(r) + 1
      /\ \A i \in 1 .. Len(r) : Append(r, g)[i] = r[i]
      /\ Append(r, g)[Len(r) + 1] = g
  BY <1>1, AppendProperties
<1> QED  BY <1>1, <1>2 DEF WithTop, Keeps

(* Popping leaves the stack as it was below.                                *)
LEMMA PoppedIs ==
    ASSUME NEW s \in Seq(Frame), NEW k \in 1 .. Len(s)
    PROVE  LET r == SubSeq(s, 1, Len(s) - k)
           IN  /\ r \in Seq(Frame) /\ Len(r) = Len(s) - k
               /\ \A i \in 1 .. Len(s) - k : r[i] = s[i]
BY SubSeqProperties

(* Pushing puts a frame on top and moves no other.                          *)
LEMMA PushedIs ==
    ASSUME NEW s \in Seq(Frame), Len(s) > 0, NEW f \in Frame
    PROVE  /\ Append(s, f) \in Seq(Frame) /\ Len(Append(s, f)) = Len(s) + 1
           /\ \A i \in 1 .. Len(s) : Append(s, f)[i] = s[i]
           /\ Append(s, f)[Len(s) + 1] = f
BY AppendProperties

(* Changing the last element is replacing the top.                          *)
LEMMA ExceptTopIs ==
    ASSUME NEW s \in Seq(Frame), Len(s) > 0, NEW g \in Frame
    PROVE  [s EXCEPT ![Len(s)] = g] = WithTop(s, g)
<1> DEFINE e == [s EXCEPT ![Len(s)] = g]
<1>1. e \in Seq(Frame) /\ Len(e) = Len(s) /\ \A i \in 1 .. Len(s) : e[i] = IF i = Len(s) THEN g ELSE s[i]
  BY ExceptSeq
<1>2. WithTop(s, g) \in Seq(Frame) /\ Len(WithTop(s, g)) = Len(s)
      /\ \A i \in 1 .. Len(s) : WithTop(s, g)[i] = IF i = Len(s) THEN g ELSE s[i]
  <2>1. /\ WithTop(s, g) \in Seq(Frame) /\ Len(WithTop(s, g)) = Len(s)
        /\ WithTop(s, g)[Len(s)] = g
        /\ \A i \in 1 .. Len(s) - 1 : WithTop(s, g)[i] = s[i]
    BY WithTopIs DEF Keeps
  <2> HIDE DEF e
  <2> QED  BY <2>1
<1> HIDE DEF e
<1> QED  BY <1>1, <1>2, SeqEqual

-----------------------------------------------------------------------------
(* The slots counted so far, frame by frame.                                *)
SlotsOf(f) == IF f.kind \in {"list", "when", "wait"} THEN f.slots ELSE 0
Part(s, m, p) ==
    /\ m \in Nat
    /\ \E T \in [0 .. m -> Nat] :
        /\ T[0] = 0 /\ T[m] = p
        /\ \A i \in 1 .. m : T[i] = T[i - 1] + SlotsOf(s[i])

(* The sum over m + 1 frames is that over m and one more.                   *)
LEMMA PartDown ==
    ASSUME NEW s, NEW m \in Nat, NEW p, Part(s, m + 1, p), SlotsOf(s[m + 1]) \in Nat
    PROVE  \E q \in Nat : Part(s, m, q) /\ p = q + SlotsOf(s[m + 1])
<1>1. PICK T \in [0 .. m + 1 -> Nat] :
        /\ T[0] = 0 /\ T[m + 1] = p
        /\ \A i \in 1 .. m + 1 : T[i] = T[i - 1] + SlotsOf(s[i])
  BY DEF Part
<1> DEFINE U == [ i \in 0 .. m |-> T[i] ]
<1>2. U \in [0 .. m -> Nat] /\ U[0] = 0 /\ U[m] = T[m]
      /\ \A i \in 1 .. m : U[i] = U[i - 1] + SlotsOf(s[i])
  BY <1>1
<1>3. T[m] \in Nat /\ p = T[m] + SlotsOf(s[m + 1])
  <2>1. m + 1 \in 1 .. m + 1 /\ (m + 1) - 1 = m /\ m \in 0 .. m + 1
    OBVIOUS
  <2> QED  BY <1>1, <2>1
<1>4. Part(s, m, T[m])
  BY <1>2 DEF Part
<1> QED  BY <1>3, <1>4

(* The same, upwards.                                                       *)
LEMMA PartUp ==
    ASSUME NEW s, NEW m \in Nat, NEW p \in Nat, Part(s, m, p), SlotsOf(s[m + 1]) \in Nat
    PROVE  Part(s, m + 1, p + SlotsOf(s[m + 1]))
<1>1. PICK T \in [0 .. m -> Nat] :
        /\ T[0] = 0 /\ T[m] = p
        /\ \A i \in 1 .. m : T[i] = T[i - 1] + SlotsOf(s[i])
  BY DEF Part
<1> DEFINE q == p + SlotsOf(s[m + 1])
           U == [ i \in 0 .. m + 1 |-> IF i = m + 1 THEN q ELSE T[i] ]
<1>2. U \in [0 .. m + 1 -> Nat] /\ U[0] = 0 /\ U[m + 1] = q
  BY <1>1
<1>3. ASSUME NEW i \in 1 .. m + 1  PROVE U[i] = U[i - 1] + SlotsOf(s[i])
  BY <1>1
<1>4. m + 1 \in Nat
  OBVIOUS
<1> HIDE DEF U, q
<1>5. \E V \in [0 .. m + 1 -> Nat] :
        /\ V[0] = 0 /\ V[m + 1] = q
        /\ \A i \in 1 .. m + 1 : V[i] = V[i - 1] + SlotsOf(s[i])
  BY <1>2, <1>3
<1>6. Part(s, m + 1, q)
  BY <1>4, <1>5 DEF Part
<1> QED  BY <1>6 DEF q

(* Sums of the same frames are the same.                                    *)
LEMMA PartSame ==
    ASSUME NEW s, NEW m \in Nat, NEW p, Part(s, m, p), NEW t,
           \A i \in 1 .. m : t[i] = s[i]
    PROVE  Part(t, m, p)
BY DEF Part

-----------------------------------------------------------------------------
(* What lies under the handler at the top.                                  *)
LEMMA FrameKinds ==
    ASSUME NEW f \in Frame
    PROVE  /\ f.kind \in {"list", "let", "call", "when", "wait"}
           /\ f.kind = "list" => f \in ListFrame
           /\ f.kind = "let"  => f \in LetFrame
           /\ f.kind = "call" => f \in CallFrame
           /\ f.kind = "when" => f \in WhenFrame
           /\ f.kind = "wait" => f \in WaitFrame
           /\ SlotsOf(f) \in Nat
BY DEF Frame, ListFrame, LetFrame, CallFrame, WhenFrame, WaitFrame, SlotsOf

(* The top of a well-shaped stack is a frame in order, at which no arm or   *)
(* handler is missing.                                                      *)
LEMMA ShapeTop ==
    ASSUME NEW s, Shape(s)
    PROVE  /\ s \in Seq(Frame) /\ Len(s) \in Nat /\ Len(s) > 0
           /\ \A i \in 1 .. Len(s) : s[i] \in Frame /\ FrameOK(s[i])
           /\ s[Len(s)] \in Frame /\ FrameOK(s[Len(s)]) /\ Atop(s[Len(s)])
BY DEF Shape

(* An arm stands on the check that is open, and that on a list.             *)
LEMMA UnderArm ==
    ASSUME NEW s, Shape(s), s[Len(s)].kind = "list", s[Len(s)].of = "arm"
    PROVE  /\ Len(s) > 2
           /\ s[Len(s)] \in ListFrame
           /\ s[Len(s) - 1] \in WhenFrame /\ OpenCheck(s[Len(s) - 1])
           /\ s[Len(s) - 2] \in ListFrame /\ ~s[Len(s) - 2].terminal
<1>1. Len(s) \in Nat /\ Len(s) > 1
  BY DEF Shape
<1>2. Above(s[Len(s) - 1], s[Len(s)])
  BY <1>1 DEF Shape
<1>3. OpenCheck(s[Len(s) - 1])
  BY <1>2 DEF Above
<1>4. Len(s) > 2
  BY <1>1, <1>3 DEF Shape, OpenCheck
<1>5. Above(s[Len(s) - 2], s[Len(s) - 1])
  <2>1. Len(s) - 2 \in 1 .. Len(s) - 1 /\ (Len(s) - 2) + 1 = Len(s) - 1
    BY <1>1, <1>4
  <2>2. Above(s[Len(s) - 2], s[(Len(s) - 2) + 1])
    BY <2>1 DEF Shape
  <2> QED  BY <2>1, <2>2
<1>6. s[Len(s) - 2].kind = "list" /\ ~s[Len(s) - 2].terminal
  BY <1>3, <1>5 DEF Above, OpenCheck
<1>7. Len(s) - 1 \in 1 .. Len(s) /\ Len(s) - 2 \in 1 .. Len(s) /\ Len(s) \in 1 .. Len(s)
  BY <1>1, <1>4
<1>8. s[Len(s)] \in Frame /\ s[Len(s) - 1] \in Frame /\ s[Len(s) - 2] \in Frame
  BY <1>7 DEF Shape
<1> QED  BY <1>3, <1>4, <1>6, <1>8, FrameKinds DEF OpenCheck

(* A handler of a wait stands on the wait, and that on a list.              *)
LEMMA UnderHandler ==
    ASSUME NEW s, Shape(s), s[Len(s)].kind = "list", s[Len(s)].of = "handler"
    PROVE  /\ Len(s) > 2
           /\ s[Len(s)] \in ListFrame
           /\ s[Len(s) - 1] \in WaitFrame
           /\ s[Len(s) - 2] \in ListFrame /\ ~s[Len(s) - 2].terminal
<1>1. Len(s) \in Nat /\ Len(s) > 1
  BY DEF Shape
<1>2. Above(s[Len(s) - 1], s[Len(s)])
  BY <1>1 DEF Shape
<1>3. s[Len(s) - 1].kind = "wait"
  BY <1>2 DEF Above
<1>4. Len(s) > 2
  BY <1>1, <1>3 DEF Shape
<1>5. Above(s[Len(s) - 2], s[Len(s) - 1])
  <2>1. Len(s) - 2 \in 1 .. Len(s) - 1 /\ (Len(s) - 2) + 1 = Len(s) - 1
    BY <1>1, <1>4
  <2>2. Above(s[Len(s) - 2], s[(Len(s) - 2) + 1])
    BY <2>1 DEF Shape
  <2> QED  BY <2>1, <2>2
<1>6. s[Len(s) - 2].kind = "list" /\ ~s[Len(s) - 2].terminal
  BY <1>3, <1>5 DEF Above
<1>7. Len(s) - 1 \in 1 .. Len(s) /\ Len(s) - 2 \in 1 .. Len(s) /\ Len(s) \in 1 .. Len(s)
  BY <1>1, <1>4
<1>8. s[Len(s)] \in Frame /\ s[Len(s) - 1] \in Frame /\ s[Len(s) - 2] \in Frame
  BY <1>7 DEF Shape
<1> QED  BY <1>3, <1>4, <1>6, <1>8, FrameKinds

(* A let and a when stand on a list whose super-block is closed.            *)
LEMMA UnderLet ==
    ASSUME NEW s, Shape(s), s[Len(s)].kind = "let" \/ s[Len(s)].kind = "when"
    PROVE  /\ Len(s) > 1
           /\ s[Len(s)] \in IF s[Len(s)].kind = "let" THEN LetFrame ELSE WhenFrame
           /\ s[Len(s) - 1] \in ListFrame /\ ~s[Len(s) - 1].terminal
           /\ s[Len(s) - 1].super = 0
<1>1. Len(s) \in Nat /\ Len(s) > 1
  BY DEF Shape
<1>2. Above(s[Len(s) - 1], s[Len(s)])
  BY <1>1 DEF Shape
<1>3. s[Len(s) - 1].kind = "list" /\ ~s[Len(s) - 1].terminal /\ s[Len(s) - 1].super = 0
  BY <1>2 DEF Above
<1>4. s[Len(s)] \in Frame /\ s[Len(s) - 1] \in Frame
  BY <1>1 DEF Shape
<1> QED  BY <1>1, <1>3, <1>4, FrameKinds

(* A call stands on a list that goes on, or on what waits for its value.    *)
LEMMA UnderCall ==
    ASSUME NEW s, Shape(s), s[Len(s)].kind = "call"
    PROVE  /\ Len(s) > 1
           /\ s[Len(s)] \in CallFrame
           /\ s[Len(s) - 1] \in Frame /\ FrameOK(s[Len(s) - 1])
           /\ \/ s[Len(s) - 1] \in ListFrame /\ ~s[Len(s) - 1].terminal
              \/ /\ s[Len(s) - 1] \in LetFrame \cup CallFrame \cup WhenFrame
                 /\ ~OpenCheck(s[Len(s) - 1])
                 /\ s[Len(s) - 1].value = NoNode /\ ~s[Len(s)].self
                 /\ s[Len(s) - 1].kind = "call" => Len(s[Len(s) - 1].args) < s[Len(s) - 1].count
<1>1. Len(s) \in Nat /\ Len(s) > 1
  BY DEF Shape
<1>2. Above(s[Len(s) - 1], s[Len(s)])
  BY <1>1 DEF Shape
<1>4. s[Len(s)] \in Frame /\ s[Len(s) - 1] \in Frame /\ FrameOK(s[Len(s) - 1])
  BY <1>1 DEF Shape
<1>3. CASE s[Len(s) - 1].kind = "list"
  BY <1>1, <1>2, <1>3, <1>4, FrameKinds DEF Above, Pending, OpenCheck
<1>5. CASE s[Len(s) - 1].kind # "list"
  <2>1. /\ Pending(s[Len(s) - 1]) /\ s[Len(s) - 1].value = NoNode /\ ~s[Len(s)].self
        /\ s[Len(s) - 1].kind = "call" => Len(s[Len(s) - 1].args) < s[Len(s) - 1].count
    BY <1>2, <1>5 DEF Above
  <2> QED  BY <1>1, <1>4, <2>1, FrameKinds DEF Pending, OpenCheck
<1> QED  BY <1>3, <1>5

-----------------------------------------------------------------------------
(* A frame after it was given the value n, and after k more slots.          *)
Given(f, n) == IF f.kind = "list" THEN [f EXCEPT !.super = 0] ELSE [f EXCEPT !.value = n]

(* A frame that is given a value keeps its kind and all else it knows.      *)
LEMMA GivenIs ==
    ASSUME NEW f \in Frame, f.kind # "wait", NEW n \in Int
    PROVE  /\ Given(f, n) \in Frame /\ Like(Given(f, n), f) /\ SlotsOf(Given(f, n)) = SlotsOf(f)
           /\ f.kind = "list" => /\ Given(f, n).super = 0
                                 /\ Given(f, n).terminal = f.terminal
                                 /\ Given(f, n).changed = f.changed
           /\ f.kind # "list" => /\ Given(f, n).value = n
                                 /\ f.kind = "let" => Given(f, n).name = f.name
                                 /\ f.kind = "call" => /\ Given(f, n).args = f.args
                                                       /\ Given(f, n).count = f.count
                                 /\ f.kind = "when" => /\ Given(f, n).node = f.node
                                                       /\ Given(f, n).scope = f.scope
                                                       /\ Given(f, n).starts = f.starts
                                                       /\ Given(f, n).redirects = f.redirects
                                                       /\ Given(f, n).outs = f.outs
<1>1. f.kind \in {"list", "let", "call", "when"}
  BY FrameKinds
<1>2. CASE f.kind = "list"
  <2>1. f \in ListFrame
    BY <1>2, FrameKinds
  <2> QED  BY <1>2, <2>1 DEF Given, Frame, ListFrame, Like, SlotsOf
<1>3. CASE f.kind = "let"
  <2>1. f \in LetFrame
    BY <1>3, FrameKinds
  <2> QED  BY <1>3, <2>1 DEF Given, Frame, LetFrame, Like, SlotsOf
<1>4. CASE f.kind = "call"
  <2>1. f \in CallFrame
    BY <1>4, FrameKinds
  <2> QED  BY <1>4, <2>1 DEF Given, Frame, CallFrame, Like, SlotsOf
<1>5. CASE f.kind = "when"
  <2>1. f \in WhenFrame
    BY <1>5, FrameKinds
  <2> QED  BY <1>5, <2>1 DEF Given, Frame, WhenFrame, Like, SlotsOf
<1> QED  BY <1>1, <1>2, <1>3, <1>4, <1>5

(* Give changes the top frame only.                                         *)
LEMMA GiveIs ==
    ASSUME NEW s \in Seq(Frame), Len(s) > 0, NEW n \in Int, s[Len(s)].kind # "wait"
    PROVE  Give(s, n) = WithTop(s, Given(s[Len(s)], n))
<1>1. s[Len(s)] \in Frame
  OBVIOUS
<1>2. Given(s[Len(s)], n) \in Frame
  BY <1>1, GivenIs
<1>3. Give(s, n) = [s EXCEPT ![Len(s)] = Given(s[Len(s)], n)]
  BY DEF Give, Given
<1> QED  BY <1>2, <1>3, ExceptTopIs

CountedFrame(f, k) == [f EXCEPT !.slots = @ + k]

(* Counting a slot changes the top list's count only.                       *)
LEMMA CountedIs ==
    ASSUME NEW s \in Seq(Frame), Len(s) > 0, NEW k \in Nat, s[Len(s)] \in ListFrame
    PROVE  /\ Counted(s, k) = WithTop(s, CountedFrame(s[Len(s)], k))
           /\ CountedFrame(s[Len(s)], k) \in ListFrame
           /\ Like(CountedFrame(s[Len(s)], k), s[Len(s)])
           /\ SlotsOf(CountedFrame(s[Len(s)], k)) = SlotsOf(s[Len(s)]) + k
<1>1. CountedFrame(s[Len(s)], k) \in ListFrame
  BY DEF CountedFrame, ListFrame
<1>2. Counted(s, k) = [s EXCEPT ![Len(s)] = CountedFrame(s[Len(s)], k)]
  BY DEF Counted, CountedFrame
<1>3. CountedFrame(s[Len(s)], k) \in Frame
  BY <1>1 DEF Frame
<1>4. Like(CountedFrame(s[Len(s)], k), s[Len(s)])
  BY DEF CountedFrame, Like, ListFrame
<1>5. SlotsOf(CountedFrame(s[Len(s)], k)) = SlotsOf(s[Len(s)]) + k
  BY DEF CountedFrame, SlotsOf, ListFrame
<1> QED  BY <1>1, <1>2, <1>3, <1>4, <1>5, ExceptTopIs

(* The handlers above the first l are done and the last of these is         *)
(* replaced.                                                                *)
LEMMA BelowReplaced ==
    ASSUME NEW s \in Seq(Frame), NEW l \in Nat, 0 < l, l < Len(s), NEW g \in Frame
    PROVE  /\ Keeps(s, WithTop(SubSeq(s, 1, l), g), l - 1)
           /\ Len(WithTop(SubSeq(s, 1, l), g)) = l
           /\ WithTop(SubSeq(s, 1, l), g)[l] = g
<1> DEFINE r == SubSeq(s, 1, l)
<1>1. r \in Seq(Frame) /\ Len(r) = l /\ \A i \in 1 .. l : r[i] = s[i]
  BY SubSeqProperties
<1>3. r \in Seq(Frame) /\ Len(r) > 0
  BY <1>1
<1>2. /\ Keeps(r, WithTop(r, g), Len(r) - 1)
      /\ Len(WithTop(r, g)) = Len(r) /\ WithTop(r, g)[Len(r)] = g
  BY <1>3, WithTopIs
<1> QED  BY <1>1, <1>2 DEF Keeps

(* The slots of the handlers that are replaced and of those that replace    *)
(* them decide how the sum changes.                                         *)
Tops(s, m) == SlotsOf(s[m + 1]) + (IF Len(s) > m + 1 THEN SlotsOf(s[m + 2]) ELSE 0)
                                + (IF Len(s) > m + 2 THEN SlotsOf(s[m + 3]) ELSE 0)

(* The sum of a stack is the sum below m and that of what is on top.        *)
LEMMA PartTops ==
    ASSUME NEW s \in Seq(Frame), NEW m \in Nat, Len(s) \in {m + 1, m + 2, m + 3}, NEW n,
           Part(s, Len(s), n)
    PROVE  \E q \in Nat : Part(s, m, q) /\ n = q + Tops(s, m)
<1>1. \A i \in 1 .. Len(s) : SlotsOf(s[i]) \in Nat
  BY FrameKinds
<1>2. CASE Len(s) = m + 1
  <2>1. SlotsOf(s[m + 1]) \in Nat
    BY <1>1, <1>2
  <2>2. PICK q \in Nat : Part(s, m, q) /\ n = q + SlotsOf(s[m + 1])
    BY <1>2, <2>1, PartDown
  <2> QED  BY <1>2, <2>1, <2>2 DEF Tops
<1>3. CASE Len(s) = m + 2
  <2>1. SlotsOf(s[m + 1]) \in Nat /\ SlotsOf(s[(m + 1) + 1]) \in Nat /\ (m + 1) + 1 = m + 2
    BY <1>1, <1>3
  <2>2. PICK p \in Nat : Part(s, m + 1, p) /\ n = p + SlotsOf(s[(m + 1) + 1])
    BY <1>3, <2>1, PartDown
  <2>3. PICK q \in Nat : Part(s, m, q) /\ p = q + SlotsOf(s[m + 1])
    BY <2>1, <2>2, PartDown
  <2> QED  BY <1>3, <2>1, <2>2, <2>3 DEF Tops
<1>4. CASE Len(s) = m + 3
  <2>1. /\ SlotsOf(s[m + 1]) \in Nat /\ SlotsOf(s[(m + 1) + 1]) \in Nat
        /\ SlotsOf(s[(m + 2) + 1]) \in Nat /\ (m + 1) + 1 = m + 2 /\ (m + 2) + 1 = m + 3
    BY <1>1, <1>4
  <2>2. PICK o \in Nat : Part(s, m + 2, o) /\ n = o + SlotsOf(s[(m + 2) + 1])
    BY <1>4, <2>1, PartDown
  <2>3. PICK p \in Nat : Part(s, m + 1, p) /\ o = p + SlotsOf(s[(m + 1) + 1])
    BY <2>1, <2>2, PartDown
  <2>4. PICK q \in Nat : Part(s, m, q) /\ p = q + SlotsOf(s[m + 1])
    BY SMTT(30), <2>1, <2>3, PartDown
  <2>5. Tops(s, m) = SlotsOf(s[m + 1]) + SlotsOf(s[m + 2]) + SlotsOf(s[m + 3])
    BY <1>4 DEF Tops
  <2>6. n = o + SlotsOf(s[m + 3])
    BY <2>1, <2>2
  <2>7. o = p + SlotsOf(s[m + 2])
    BY <2>1, <2>3
  <2>8. SlotsOf(s[m + 2]) \in Nat /\ SlotsOf(s[m + 3]) \in Nat
    BY <2>1
  <2>9. SlotsOf(s[m + 1]) \in Nat
    BY <2>1
  <2> DEFINE a == SlotsOf(s[m + 1])
             b == SlotsOf(s[m + 2])
             c == SlotsOf(s[m + 3])
  <2>10. /\ a \in Nat /\ b \in Nat /\ c \in Nat /\ p = q + a /\ o = p + b /\ n = o + c
         /\ Tops(s, m) = a + b + c
    BY <2>4, <2>5, <2>6, <2>7, <2>8, <2>9
  <2> HIDE DEF a, b, c
  <2>11. n = q + Tops(s, m)
    BY <2>10
  <2> QED  BY <2>4, <2>11
<1> QED  BY <1>2, <1>3, <1>4

(* The same, upwards.                                                       *)
LEMMA PartOnTop ==
    ASSUME NEW s \in Seq(Frame), NEW m \in Nat, Len(s) \in {m + 1, m + 2, m + 3}, NEW q \in Nat,
           Part(s, m, q)
    PROVE  Part(s, Len(s), q + Tops(s, m))
<1>1. \A i \in 1 .. Len(s) : SlotsOf(s[i]) \in Nat
  BY FrameKinds
<1>2. SlotsOf(s[m + 1]) \in Nat
  BY <1>1
<1>3. Part(s, m + 1, q + SlotsOf(s[m + 1])) /\ q + SlotsOf(s[m + 1]) \in Nat
  BY <1>2, PartUp
<1>4. CASE Len(s) = m + 1
  BY <1>2, <1>3, <1>4 DEF Tops
<1> DEFINE p == q + SlotsOf(s[m + 1])
<1>5. ASSUME Len(s) > m + 1
      PROVE  /\ SlotsOf(s[m + 2]) \in Nat /\ p + SlotsOf(s[m + 2]) \in Nat
             /\ Part(s, m + 2, p + SlotsOf(s[m + 2]))
  <2>1. SlotsOf(s[(m + 1) + 1]) \in Nat /\ (m + 1) + 1 = m + 2 /\ m + 1 \in Nat
    BY <1>1, <1>5
  <2> HIDE DEF p
  <2>2. p \in Nat /\ Part(s, m + 1, p)
    BY <1>3 DEF p
  <2>3. Part(s, (m + 1) + 1, p + SlotsOf(s[(m + 1) + 1]))
    BY <2>1, <2>2, PartUp
  <2> QED  BY <2>1, <2>2, <2>3
<1>6. CASE Len(s) = m + 2
  BY <1>2, <1>5, <1>6 DEF Tops
<1>7. CASE Len(s) = m + 3
  <2> DEFINE o == p + SlotsOf(s[m + 2])
  <2>1. SlotsOf(s[(m + 2) + 1]) \in Nat /\ (m + 2) + 1 = m + 3 /\ m + 2 \in Nat
    BY <1>1, <1>7
  <2> HIDE DEF o
  <2>2. o \in Nat /\ Part(s, m + 2, o)
    BY <1>5, <1>7 DEF o
  <2>3. Part(s, (m + 2) + 1, o + SlotsOf(s[(m + 2) + 1]))
    BY <2>1, <2>2, PartUp
  <2>4. q + Tops(s, m) = o + SlotsOf(s[m + 3])
    BY <1>2, <1>5, <1>7, <2>1 DEF Tops, o
  <2> QED  BY <1>7, <2>1, <2>3, <2>4
<1> QED  BY <1>4, <1>6, <1>7

(* When only frames above m change, the sum changes as theirs does.         *)
LEMMA PartKept ==
    ASSUME NEW s \in Seq(Frame), NEW t, NEW m, Keeps(s, t, m),
           Len(s) \in {m + 1, m + 2, m + 3}, Len(t) \in {m + 1, m + 2, m + 3},
           NEW k \in Nat, Tops(t, m) = Tops(s, m) + k,
           NEW n \in Nat, Part(s, Len(s), n)
    PROVE  Part(t, Len(t), n + k)
<1>1. m \in Nat /\ t \in Seq(Frame) /\ \A i \in 1 .. m : t[i] = s[i]
  BY DEF Keeps
<1>2. PICK q \in Nat : Part(s, m, q) /\ n = q + Tops(s, m)
  BY <1>1, PartTops
<1>3. Part(t, m, q)
  BY <1>1, <1>2, PartSame
<1>4. Part(t, Len(t), q + Tops(t, m))
  BY <1>1, <1>3, PartOnTop
<1>5. Tops(s, m) \in Nat
  <2>1. \A i \in 1 .. Len(s) : SlotsOf(s[i]) \in Nat
    BY FrameKinds
  <2>2. /\ SlotsOf(s[m + 1]) \in Nat
        /\ Len(s) > m + 1 => SlotsOf(s[m + 2]) \in Nat
        /\ Len(s) > m + 2 => SlotsOf(s[m + 3]) \in Nat
    <3>1. /\ m + 1 \in 1 .. Len(s)
          /\ Len(s) > m + 1 => m + 2 \in 1 .. Len(s)
          /\ Len(s) > m + 2 => m + 3 \in 1 .. Len(s)
      BY <1>1
    <3> QED  BY <2>1, <3>1
  <2> QED  BY <2>2 DEF Tops
<1> QED  BY <1>2, <1>4, <1>5

-----------------------------------------------------------------------------
(* What the compiler keeps.                                                 *)
Kinds == {"temp", "set", "self", "save", "stage", "call", "check", "table", "take"}
Operation == [do : Kinds, node : Int, reads : Int, meant : Seq(Int), writes : Int]
Block == [ops : Seq(Operation), exit : SUBSET Nat]
Typed ==
    /\ nodes \in Nat /\ frontier \subseteq Nat /\ ends \subseteq Nat
    /\ scope \in Bindings /\ slot_of \in Bindings
    /\ block_id \in Nat /\ jump_args_base \in Nat
    /\ blocks \in Seq(Block)
    /\ branch_switch \in [DOMAIN branch_switch -> 1 .. Len(blocks)]
    /\ DOMAIN branch_switch \subseteq 0 .. block_id - 1

\* The top handler t[Len(t)] has the value n, or is a list that goes on.
Goes(t, n, k) ==
    /\ Keeps(stack, t, Len(stack) - 1) /\ Len(t) = Len(stack)
    /\ Top.kind # "list" => k = 0 /\ t[Len(t)] = Given(Top, n)
    /\ Top.kind = "list" => /\ t[Len(t)] \in ListFrame
                            /\ t[Len(t)].of = Top.of /\ t[Len(t)].slots = Top.slots + k
                            /\ t[Len(t)].terminal = Top.terminal
                            /\ t[Len(t)].changed = Top.changed

(* What is on top of all but one frame is the last.                         *)
LEMMA OneTop ==
    ASSUME NEW L \in Nat, L > 0, NEW t, Len(t) = L, Len(stack) = L,
           SlotsOf(t[L]) \in Nat, SlotsOf(Top) \in Nat
    PROVE  Tops(t, L - 1) = SlotsOf(t[L]) /\ Tops(stack, L - 1) = SlotsOf(Top)
BY DEF Tops, Top

(* A top frame that goes on with a value keeps the shape of the stack.      *)
LEMMA GoesOn ==
    ASSUME Shape(stack), WantsExpression, NEW n \in Nat, NEW k \in Nat, NEW t, Goes(t, n, k)
    PROVE  Shape(t) /\ Tops(t, Len(stack) - 1) = Tops(stack, Len(stack) - 1) + k
<1> DEFINE L == Len(stack)
<1>1. L \in Nat /\ L > 0 /\ Top \in Frame /\ FrameOK(Top) /\ Atop(Top)
  BY ShapeTop DEF Top
<1>2. Keeps(stack, t, L - 1) /\ Len(t) = L
  BY DEF Goes
<1>3. CASE Top.kind = "list"
  <2>1. t[L] \in ListFrame /\ t[L].of = Top.of /\ t[L].slots = Top.slots + k
        /\ t[L].terminal = Top.terminal /\ t[L].changed = Top.changed
    BY <1>3, <1>2 DEF Goes
  <2>2. t[L].kind = "list"
    BY <2>1 DEF ListFrame
  <2>3. Like(t[L], Top) /\ FrameOK(t[L]) /\ Atop(t[L])
    BY <2>1, <2>2, <1>1, <1>3 DEF Like, FrameOK, Atop, OpenCheck
  <2>4. SlotsOf(t[L]) = SlotsOf(Top) + k
    BY <2>1, <2>2, <1>3 DEF SlotsOf
  <2>5. SlotsOf(Top) \in Nat
    BY <1>1, FrameKinds
  <2>6. Tops(t, L - 1) = SlotsOf(t[L]) /\ Tops(stack, L - 1) = SlotsOf(Top)
    BY <1>1, <1>2, <2>4, <2>5, OneTop
  <2>7. Shape(t)
    BY <1>1, <1>2, <2>3, ShapeReplaced DEF Top
  <2> QED  BY <2>4, <2>6, <2>7
<1>4. CASE Top.kind # "list"
  <2>1. t[L] = Given(Top, n) /\ k = 0
    BY <1>4, <1>2 DEF Goes
  <2>2. Top.kind # "wait"
    BY <1>1 DEF Atop
  <2>3. /\ t[L] \in Frame /\ Like(t[L], Top) /\ SlotsOf(t[L]) = SlotsOf(Top) /\ t[L].value = n
        /\ Top.kind = "call" => t[L].args = Top.args /\ t[L].count = Top.count
        /\ Top.kind = "when" => /\ t[L].node = Top.node /\ t[L].starts = Top.starts
                                /\ t[L].redirects = Top.redirects /\ t[L].outs = Top.outs
    BY <2>1, <2>2, <1>1, <1>4, GivenIs
  <2>4. Top.kind = "call" => Len(Top.args) < Top.count
    BY <1>4 DEF WantsExpression, WantsStatement
  <2>5. t[L].kind = Top.kind
    BY <2>3 DEF Like
  <2>9. Top.kind = "when" => t[L].slots = Top.slots
    BY <2>3, <2>5 DEF SlotsOf
  <2>6. Atop(t[L])
    BY <2>3, <2>5, <1>1 DEF Atop, OpenCheck
  <2>7. FrameOK(t[L])
    BY <2>3, <2>4, <2>5, <2>9, <1>1, <1>4 DEF FrameOK, Atop
  <2>8. SlotsOf(Top) \in Nat
    BY <1>1, FrameKinds
  <2>10. Tops(t, L - 1) = SlotsOf(t[L]) /\ Tops(stack, L - 1) = SlotsOf(Top)
    BY <1>1, <1>2, <2>3, <2>8, OneTop
  <2>11. Shape(t)
    BY <1>1, <1>2, <2>3, <2>6, <2>7, ShapeReplaced DEF Top
  <2> QED  BY <2>1, <2>3, <2>8, <2>10, <2>11
<1> QED  BY <1>3, <1>4

(* Give lets the top frame go on.                                           *)
LEMMA GiveGoes ==
    ASSUME Shape(stack), NEW n \in Int, Top.kind # "wait"
    PROVE  Goes(Give(stack, n), n, 0)
           /\ (Top.kind = "list" => Give(stack, n)[Len(stack)].super = 0)
<1> DEFINE L == Len(stack)
<1>1. stack \in Seq(Frame) /\ L \in Nat /\ L > 0 /\ Top \in Frame
  BY ShapeTop DEF Top
<1>2. Give(stack, n) = WithTop(stack, Given(Top, n))
  BY <1>1, GiveIs DEF Top
<1>3. Given(Top, n) \in Frame
  BY <1>1, GivenIs
<1>4. /\ Keeps(stack, Give(stack, n), L - 1) /\ Len(Give(stack, n)) = L
      /\ Give(stack, n)[L] = Given(Top, n)
  BY <1>1, <1>2, <1>3, WithTopIs
<1>5. ASSUME Top.kind = "list"
      PROVE  /\ Given(Top, n) \in ListFrame /\ Given(Top, n).super = 0
             /\ Given(Top, n).of = Top.of /\ Given(Top, n).slots = Top.slots + 0
             /\ Given(Top, n).terminal = Top.terminal /\ Given(Top, n).changed = Top.changed
  <2>1. Top \in ListFrame
    BY <1>1, <1>5, FrameKinds
  <2> QED  BY <1>5, <2>1 DEF Given, ListFrame
<1> QED  BY <1>4, <1>5 DEF Goes

(* A fast statement, which may stand in s, the stack with its slot counted. *)
LEMMA EmitFastGoes ==
    ASSUME Shape(stack), Typed, NEW s, NEW op, op.node \in Int, NEW k \in Nat,
           s = IF k = 0 THEN stack ELSE Counted(stack, k), Top.kind # "wait",
           k # 0 => Top.kind = "list",
           EmitFast(s, op)
    PROVE  /\ Goes(stack', op.node, k)
           /\ Top.kind = "list" =>
                stack'[Len(stack)].super = IF Joins THEN Top.super ELSE Len(blocks) + 1
<1> DEFINE L == Len(stack)
<1>1. stack \in Seq(Frame) /\ L \in Nat /\ L > 0 /\ Top \in Frame
  BY ShapeTop DEF Top
<1>2. CASE Top.kind = "list"
  <2>1. Top \in ListFrame
    BY <1>1, <1>2, FrameKinds
  <2>2. PICK g \in ListFrame :
           /\ s = WithTop(stack, g) /\ g.of = Top.of /\ g.slots = Top.slots + k
           /\ g.terminal = Top.terminal /\ g.changed = Top.changed /\ g.super = Top.super
    <3>1. CASE k = 0
      <4>1. stack = WithTop(stack, Top)
        <5>1. [stack EXCEPT ![L] = Top] = WithTop(stack, Top)
          BY <1>1, ExceptTopIs
        <5>2. [stack EXCEPT ![L] = stack[L]] = stack
          BY <1>1
        <5> QED  BY <5>1, <5>2 DEF Top
      <4>2. Top.slots = Top.slots + 0
        BY <2>1 DEF ListFrame
      <4> QED  BY <2>1, <3>1, <4>1, <4>2
    <3>2. CASE k # 0
      <4>1. s = WithTop(stack, CountedFrame(Top, k)) /\ CountedFrame(Top, k) \in ListFrame
        BY <1>1, <2>1, <3>2, CountedIs DEF Top
      <4> QED  BY <2>1, <4>1 DEF CountedFrame, ListFrame
    <3> QED  BY <3>1, <3>2
  <2>3. g \in Frame
    BY DEF Frame
  <2>4. Keeps(stack, s, L - 1) /\ Len(s) = L /\ s[L] = g /\ s \in Seq(Frame)
    <3>1. /\ Keeps(stack, WithTop(stack, g), L - 1) /\ Len(WithTop(stack, g)) = L
          /\ WithTop(stack, g)[L] = g
      BY <1>1, <2>3, WithTopIs
    <3> QED  BY <2>2, <3>1 DEF Keeps
  <2>5. CASE Joins
    <3>1. stack' = s
      BY <2>5 DEF EmitFast
    <3> QED  BY <1>2, <2>2, <2>4, <2>5, <3>1 DEF Goes
  <2>6. CASE ~Joins
    <3> DEFINE b == Len(blocks) + 1
               h == [g EXCEPT !.super = b]
    <3>1. stack' = [s EXCEPT ![Len(s)].super = b]
      BY <1>2, <2>6 DEF EmitFast
    <3>2. stack' = [s EXCEPT ![L] = h]
      BY <3>1, <2>4
    <3>3. b \in Nat
      BY DEF Typed
    <3>4. h \in ListFrame /\ h.of = g.of /\ h.slots = g.slots /\ h.terminal = g.terminal
          /\ h.changed = g.changed /\ h.super = b
      BY <3>3 DEF ListFrame
    <3> HIDE DEF h, b
    <3>5. stack' = WithTop(s, h) /\ h \in Frame
      BY <1>1, <2>4, <3>2, <3>4, ExceptTopIs DEF Frame
    <3>6. Keeps(s, stack', L - 1) /\ Len(stack') = L /\ stack'[L] = h
      BY <1>1, <2>4, <3>5, WithTopIs
    <3>7. Keeps(stack, stack', L - 1)
      BY <2>4, <3>6 DEF Keeps
    <3> QED  BY <1>2, <2>2, <2>6, <3>4, <3>6, <3>7 DEF Goes, b
  <2> QED  BY <2>5, <2>6
<1>3. CASE Top.kind # "list"
  <2>1. k = 0 /\ s = stack
    BY <1>3
  <2>2. stack' = Give(stack, op.node)
    BY <1>3, <2>1 DEF EmitFast, Joins
  <2> QED  BY <1>3, <2>1, <2>2, GiveGoes
<1> QED  BY <1>2, <1>3

-----------------------------------------------------------------------------
(* Everything above m is replaced by g alone, or by g and a new frame h;    *)
(* the slots counted above m grow by k.                                     *)
Replaces(m, g) == Keeps(stack, stack', m) /\ Len(stack') = m + 1 /\ stack'[m + 1] = g
Opens(m, g, h) ==
    /\ Keeps(stack, stack', m) /\ Len(stack') = m + 2
    /\ stack'[m + 1] = g /\ stack'[m + 2] = h
Sums(m, k) == Tops(stack', m) = Tops(stack, m) + k

(* Opening a frame keeps the shape, if it may stand above the one below.    *)
LEMMA Opened ==
    ASSUME Shape(stack), NEW g, NEW h, Opens(Len(stack) - 1, g, h),
           Like(g, Top), FrameOK(g), SlotsOf(g) = SlotsOf(Top),
           FrameOK(h), Atop(h), Above(g, h), SlotsOf(h) = 0,
           g.kind = "call" => g.base + g.count <= h.base
    PROVE  Shape(stack') /\ Sums(Len(stack) - 1, 0)
<1> DEFINE L == Len(stack)
<1>1. stack \in Seq(Frame) /\ L \in Nat /\ L > 0 /\ Top \in Frame
  BY ShapeTop DEF Top
<1>2. /\ Keeps(stack, stack', L - 1) /\ Len(stack') = L + 1
      /\ stack'[L] = g /\ stack'[L + 1] = h
  BY <1>1 DEF Opens
<1>3. L - 1 \in Nat /\ (L - 1) + 1 = L /\ (L - 1) + 2 = L + 1
  BY <1>1
<1>4. Shape(stack')
  <2> DEFINE m == L - 1
  <2>1. /\ Keeps(stack, stack', m) /\ Len(stack') = m + 2
        /\ stack'[m + 1] = g /\ stack'[m + 2] = h /\ stack[m + 1] = Top
    BY <1>2, <1>3 DEF Top
  <2> HIDE DEF m
  <2> QED  BY <2>1, ShapeOpened
<1>5. SlotsOf(Top) \in Nat
  BY <1>1, FrameKinds
<1>6. Tops(stack', L - 1) = SlotsOf(g) + SlotsOf(h) /\ Tops(stack, L - 1) = SlotsOf(Top)
  BY <1>1, <1>2, <1>5 DEF Tops, Top
<1> QED  BY <1>4, <1>5, <1>6 DEF Sums

(* A list that goes on under a new handler.                                 *)
LEMMA GivenList ==
    ASSUME Shape(stack), WantsStatement
    PROVE  /\ Top \in ListFrame /\ Given(Top, NoNode) \in ListFrame
           /\ Given(Top, NoNode) = [Top EXCEPT !.super = 0]
           /\ Like(Given(Top, NoNode), Top) /\ FrameOK(Given(Top, NoNode))
           /\ SlotsOf(Given(Top, NoNode)) = SlotsOf(Top)
           /\ Given(Top, NoNode).kind = "list" /\ ~Given(Top, NoNode).terminal
           /\ Given(Top, NoNode).super = 0
<1>1. Top \in Frame /\ Top.kind = "list" /\ ~Top.terminal /\ FrameOK(Top)
  BY ShapeTop DEF Top, WantsStatement
<1>2. Top \in ListFrame
  BY <1>1, FrameKinds
<1> QED  BY <1>1, <1>2 DEF Given, ListFrame, Like, FrameOK, SlotsOf

(* Replacing the top and pushing is opening a frame.                        *)
LEMMA PushedOn ==
    ASSUME Shape(stack), NEW g \in Frame, NEW h \in Frame,
           stack' = Append(WithTop(stack, g), h)
    PROVE  Opens(Len(stack) - 1, g, h)
<1> DEFINE L == Len(stack)
           s == WithTop(stack, g)
<1>1. stack \in Seq(Frame) /\ L \in Nat /\ L > 0
  BY ShapeTop
<1>2. Keeps(stack, s, L - 1) /\ Len(s) = L /\ s[L] = g
  BY <1>1, WithTopIs
<1>3. s \in Seq(Frame)
  BY <1>2 DEF Keeps
<1> HIDE DEF s
<1>4. /\ stack' \in Seq(Frame) /\ Len(stack') = L + 1
      /\ \A i \in 1 .. L : stack'[i] = s[i]
      /\ stack'[L + 1] = h
  BY <1>1, <1>2, <1>3, PushedIs DEF s
<1>5. Keeps(stack, stack', L - 1)
  BY <1>1, <1>2, <1>4 DEF Keeps
<1> QED  BY <1>1, <1>2, <1>4, <1>5 DEF Opens

(* The frames the handlers push when they begin, and what they leave of the *)
(* one below.                                                               *)
LetOf(x) == [kind |-> "let", name |-> x, value |-> NoNode]

(* What LetExpr's handler leaves on the stack when it begins.               *)
LEMMA OpenLetStack ==
    ASSUME Shape(stack), Typed, OpenLet
    PROVE  /\ WantsStatement
           /\ \E x \in Names : CanBind(x)
                /\ Opens(Len(stack) - 1, [Top EXCEPT !.super = 0], LetOf(x))
           /\ Shape(stack') /\ Sums(Len(stack) - 1, 0)
<1>1. WantsStatement
  BY DEF OpenLet
<1>2. PICK x \in Names : CanBind(x) /\ stack' = Append(Give(stack, NoNode), LetOf(x))
  BY DEF OpenLet, LetOf
<1> DEFINE g == Given(Top, NoNode)
           h == LetOf(x)
<1>3. NoNode \in Int /\ stack \in Seq(Frame) /\ Len(stack) > 0 /\ Top.kind = "list"
  BY <1>1, ShapeTop DEF NoNode, WantsStatement
<1>4. /\ g \in ListFrame /\ g = [Top EXCEPT !.super = 0] /\ Like(g, Top) /\ FrameOK(g)
      /\ SlotsOf(g) = SlotsOf(Top) /\ g.kind = "list" /\ ~g.terminal /\ g.super = 0
  BY <1>1, GivenList
<1>5. Give(stack, NoNode) = WithTop(stack, g)
  BY <1>3, GiveIs DEF Top
<1>6. h \in Frame /\ h.kind = "let" /\ FrameOK(h) /\ Atop(h) /\ SlotsOf(h) = 0
  BY <1>3 DEF LetOf, Frame, LetFrame, FrameOK, Atop, OpenCheck, SlotsOf
<1> HIDE DEF g, h
<1>7. g \in Frame
  BY <1>4 DEF Frame
<1>8. Opens(Len(stack) - 1, g, h)
  BY <1>2, <1>5, <1>6, <1>7, PushedOn DEF h
<1>9. Above(g, h)
  BY <1>4, <1>6 DEF Above
<1>10. Shape(stack') /\ Sums(Len(stack) - 1, 0)
  BY <1>4, <1>6, <1>8, <1>9, Opened
<1>11. Opens(Len(stack) - 1, [Top EXCEPT !.super = 0], LetOf(x))
  BY <1>4, <1>8 DEF h
<1> QED  BY <1>1, <1>2, <1>10, <1>11

WhenOf == [kind |-> "when", node |-> NoNode, value |-> NoNode, block |-> 0, starts |-> {},
           redirects |-> {}, outs |-> {}, scope |-> scope, slots |-> 0]

(* What WhenExpr's handler leaves on the stack when it begins.              *)
LEMMA OpenWhenStack ==
    ASSUME Shape(stack), Typed, OpenWhen
    PROVE  /\ WantsStatement
           /\ Opens(Len(stack) - 1, [Top EXCEPT !.super = 0], WhenOf)
           /\ Shape(stack') /\ Sums(Len(stack) - 1, 0)
<1>1. WantsStatement
  BY DEF OpenWhen
<1>2. stack' = Append(Give(stack, NoNode), WhenOf)
  BY DEF OpenWhen, WhenOf
<1> DEFINE g == Given(Top, NoNode)
           h == WhenOf
<1>3. NoNode \in Int /\ stack \in Seq(Frame) /\ Len(stack) > 0 /\ Top.kind = "list"
  BY <1>1, ShapeTop DEF NoNode, WantsStatement
<1>4. /\ g \in ListFrame /\ g = [Top EXCEPT !.super = 0] /\ Like(g, Top) /\ FrameOK(g)
      /\ SlotsOf(g) = SlotsOf(Top) /\ g.kind = "list" /\ ~g.terminal /\ g.super = 0
  BY <1>1, GivenList
<1>5. Give(stack, NoNode) = WithTop(stack, g)
  BY <1>3, GiveIs DEF Top
<1>6. h \in Frame /\ h.kind = "when" /\ FrameOK(h) /\ Atop(h) /\ SlotsOf(h) = 0
  <2>1. h \in WhenFrame
    BY <1>3 DEF WhenOf, WhenFrame, Typed
  <2> QED  BY <2>1 DEF WhenOf, Frame, FrameOK, Atop, OpenCheck, SlotsOf
<1> HIDE DEF g, h
<1>7. g \in Frame
  BY <1>4 DEF Frame
<1>8. Opens(Len(stack) - 1, g, h)
  BY <1>2, <1>5, <1>6, <1>7, PushedOn DEF h
<1>9. Above(g, h)
  BY <1>4, <1>6 DEF Above
<1>10. Shape(stack') /\ Sums(Len(stack) - 1, 0)
  BY <1>4, <1>6, <1>8, <1>9, Opened
<1>11. Opens(Len(stack) - 1, [Top EXCEPT !.super = 0], WhenOf)
  BY <1>4, <1>8 DEF h
<1> QED  BY <1>1, <1>10, <1>11

CallOf(count, self) ==
    [kind |-> "call", count |-> count, self |-> self, args |-> << >>,
     base |-> jump_args_base, value |-> NoNode]
Caller == IF WantsStatement THEN [Top EXCEPT !.super = 0] ELSE Top

(* What a call's handler leaves on the stack when it begins: its arguments  *)
(* have a range of their own, above those of the calls it is part of.       *)
LEMMA OpenCallStack ==
    ASSUME Shape(stack), Typed, OpenCall,
           Top.kind = "call" => Top.base + Top.count <= jump_args_base
    PROVE  /\ WantsExpression
           /\ \E count \in Nat, self \in BOOLEAN :
                /\ self => WantsStatement
                /\ jump_args_base' = jump_args_base + count
                /\ Opens(Len(stack) - 1, Caller, CallOf(count, self))
           /\ Shape(stack') /\ Sums(Len(stack) - 1, 0)
<1>1. WantsExpression
  BY DEF OpenCall
<1>2. PICK count \in 1 .. MaxArgs, self \in BOOLEAN :
        /\ self => WantsStatement
        /\ stack' = Append(IF WantsStatement THEN Give(stack, NoNode) ELSE stack,
                           CallOf(count, self))
        /\ jump_args_base' = jump_args_base + count
  BY DEF OpenCall, CallOf, NestedBase
<1> DEFINE g == Caller
           h == CallOf(count, self)
           L == Len(stack)
<1>3. /\ NoNode \in Int /\ stack \in Seq(Frame) /\ L \in Nat /\ L > 0
      /\ Top \in Frame /\ FrameOK(Top) /\ Atop(Top) /\ count \in Nat
  BY ShapeTop, BlockAssumption DEF NoNode, Top
<1>4. /\ g \in Frame /\ Like(g, Top) /\ FrameOK(g) /\ SlotsOf(g) = SlotsOf(Top)
      /\ g.kind = "call" => g = Top
      /\ g.kind = "list" => ~g.terminal /\ g.super = 0
      /\ g.kind # "list" => Pending(g) /\ g.value = NoNode /\ ~self
      /\ g.kind = "call" => Len(g.args) < g.count
      /\ (IF WantsStatement THEN Give(stack, NoNode) ELSE stack) = WithTop(stack, g)
  <2>1. CASE WantsStatement
    <3>1. Give(stack, NoNode) = WithTop(stack, Given(Top, NoNode))
      BY <1>3, <2>1, GiveIs DEF Top, WantsStatement
    <3>2. /\ Given(Top, NoNode) \in ListFrame
          /\ Given(Top, NoNode) = [Top EXCEPT !.super = 0]
          /\ Like(Given(Top, NoNode), Top) /\ FrameOK(Given(Top, NoNode))
          /\ SlotsOf(Given(Top, NoNode)) = SlotsOf(Top)
          /\ Given(Top, NoNode).kind = "list" /\ ~Given(Top, NoNode).terminal
          /\ Given(Top, NoNode).super = 0
      BY <2>1, GivenList
    <3> QED  BY <2>1, <3>1, <3>2 DEF Caller, Frame
  <2>2. CASE ~WantsStatement
    <3>1. stack = WithTop(stack, Top)
      <4>1. [stack EXCEPT ![L] = Top] = WithTop(stack, Top)
        BY <1>3, ExceptTopIs
      <4>2. [stack EXCEPT ![L] = stack[L]] = stack
        BY <1>3
      <4> QED  BY <4>1, <4>2 DEF Top
    <3>2. /\ Pending(Top) /\ Top.value = NoNode /\ Top.kind # "list"
          /\ Top.kind = "call" => Len(Top.args) < Top.count
      BY <1>1, <1>3, <2>2 DEF WantsExpression, Pending, Atop, OpenCheck
    <3> QED  BY <1>2, <1>3, <2>2, <3>1, <3>2 DEF Caller, Like
  <2> QED  BY <2>1, <2>2
<1>6. h \in Frame /\ h.kind = "call" /\ h.self = self /\ h.base = jump_args_base
      /\ FrameOK(h) /\ Atop(h) /\ SlotsOf(h) = 0
  <2>1. h \in CallFrame
    BY <1>3 DEF CallOf, CallFrame, Typed
  <2> QED  BY <1>3, <2>1 DEF CallOf, Frame, FrameOK, Atop, OpenCheck, SlotsOf
<1> HIDE DEF g, h
<1>8. Opens(Len(stack) - 1, g, h)
  BY <1>2, <1>4, <1>6, PushedOn DEF h
<1>9. Above(g, h)
  BY <1>4, <1>6 DEF Above
<1>12. g.kind = "call" => g.base + g.count <= h.base
  BY <1>4, <1>6
<1>10. Shape(stack') /\ Sums(Len(stack) - 1, 0)
  BY <1>4, <1>6, <1>8, <1>9, <1>12, Opened
<1>11. Opens(Len(stack) - 1, Caller, CallOf(count, self))
  BY <1>8 DEF g, h
<1> QED  BY <1>1, <1>2, <1>3, <1>10, <1>11

(* The top is replaced by a handler like it.                                *)
LEMMA TopReplaced ==
    ASSUME Shape(stack), NEW g \in Frame, stack' = WithTop(stack, g),
           Like(g, Top), FrameOK(g), Atop(g), SlotsOf(g) = SlotsOf(Top)
    PROVE  Replaces(Len(stack) - 1, g) /\ Shape(stack') /\ Sums(Len(stack) - 1, 0)
<1> DEFINE L == Len(stack)
<1>1. stack \in Seq(Frame) /\ L \in Nat /\ L > 0 /\ Top \in Frame
  BY ShapeTop DEF Top
<1>2. Keeps(stack, stack', L - 1) /\ Len(stack') = L /\ stack'[L] = g
  BY <1>1, WithTopIs
<1>3. SlotsOf(Top) \in Nat
  BY <1>1, FrameKinds
<1>4. Tops(stack', L - 1) = SlotsOf(g) /\ Tops(stack, L - 1) = SlotsOf(Top)
  BY <1>1, <1>2, <1>3, OneTop
<1>5. Shape(stack')
  BY <1>1, <1>2, ShapeReplaced DEF Top
<1> QED  BY <1>1, <1>2, <1>3, <1>4, <1>5 DEF Replaces, Sums

Staged == [Top EXCEPT !.args = Append(@, Top.value), !.value = NoNode]

(* Staging an argument moves the value to the arguments of the call.        *)
LEMMA StageArgStack ==
    ASSUME Shape(stack), Typed, StageArg
    PROVE  /\ Top \in CallFrame /\ Top.value # NoNode
           /\ Replaces(Len(stack) - 1, Staged)
           /\ Shape(stack') /\ Sums(Len(stack) - 1, 0)
<1>1. Top.kind = "call" /\ Top.value # NoNode /\ stack' = WithTop(stack, Staged)
  BY DEF StageArg, Staged
<1>2. Top \in Frame /\ FrameOK(Top)
  BY ShapeTop DEF Top
<1>3. Top \in CallFrame
  BY <1>1, <1>2, FrameKinds
<1>4. /\ Append(Top.args, Top.value) \in Seq(Int)
      /\ Len(Append(Top.args, Top.value)) = Len(Top.args) + 1
      /\ Len(Top.args) < Top.count /\ Top.count \in Nat /\ Len(Top.args) \in Nat
  BY <1>1, <1>2, <1>3 DEF CallFrame, FrameOK
<1>5. /\ Staged \in CallFrame /\ Staged.kind = "call" /\ Staged.value = NoNode
      /\ Staged.args = Append(Top.args, Top.value) /\ Staged.count = Top.count
      /\ Staged.self = Top.self /\ Staged.base = Top.base
  <2> DEFINE a == Append(Top.args, Top.value)
  <2>1. Staged = [Top EXCEPT !.args = a, !.value = NoNode]
    BY DEF Staged
  <2>2. a \in Seq(Int) /\ NoNode \in Int
    BY <1>4 DEF NoNode
  <2> HIDE DEF a
  <2>3. /\ Staged \in CallFrame /\ Staged.kind = "call" /\ Staged.value = NoNode
        /\ Staged.args = a /\ Staged.count = Top.count
        /\ Staged.self = Top.self /\ Staged.base = Top.base
    BY <1>3, <2>1, <2>2 DEF CallFrame
  <2> QED  BY <2>3 DEF a
<1>6. Staged \in Frame /\ Like(Staged, Top) /\ FrameOK(Staged) /\ Atop(Staged)
      /\ SlotsOf(Staged) = SlotsOf(Top)
  BY <1>1, <1>4, <1>5 DEF Frame, Like, FrameOK, Atop, OpenCheck, SlotsOf
<1> QED  BY <1>1, <1>3, <1>6, TopReplaced

Ended(f) == [f EXCEPT !.terminal = TRUE, !.changed = TRUE]

(* A list that has ended is still the same list.                            *)
LEMMA EndedIs ==
    ASSUME NEW f \in ListFrame
    PROVE  /\ Ended(f) \in ListFrame /\ Ended(f) \in Frame /\ Like(Ended(f), f)
           /\ FrameOK(Ended(f)) /\ Atop(Ended(f)) /\ SlotsOf(Ended(f)) = SlotsOf(f)
           /\ Ended(f).terminal /\ Ended(f).slots = f.slots
BY DEF Ended, ListFrame, Frame, Like, FrameOK, Atop, OpenCheck, SlotsOf

(* A fused self-call ends its list.                                         *)
LEMMA FusedSelfStack ==
    ASSUME Shape(stack), Typed, FusedSelf
    PROVE  /\ Top \in ListFrame
           /\ Replaces(Len(stack) - 1, Ended(Top))
           /\ Shape(stack') /\ Sums(Len(stack) - 1, 0)
<1>1. Top.kind = "list" /\ stack' = WithTop(stack, Ended(Top))
  BY DEF FusedSelf, WantsStatement, Ended
<1>2. Top \in Frame
  BY ShapeTop DEF Top
<1>3. Top \in ListFrame
  BY <1>1, <1>2, FrameKinds
<1> QED  BY <1>1, <1>3, EndedIs, TopReplaced

(* The handler under the top is replaced by one like it.                    *)
LEMMA UnderReplaced ==
    ASSUME Shape(stack), Len(stack) > 1, NEW g \in Frame, stack' = WithTop(Popped(1), g),
           Like(g, Under), FrameOK(g), Atop(g), NEW k \in Nat, 
           SlotsOf(g) = SlotsOf(Under) + SlotsOf(Top) + k
    PROVE  Replaces(Len(stack) - 2, g) /\ Shape(stack') /\ Sums(Len(stack) - 2, k)
<1> DEFINE L == Len(stack)
<1>1. stack \in Seq(Frame) /\ L \in Nat /\ L > 1 /\ Top \in Frame /\ Under \in Frame
  BY ShapeTop DEF Top, Under
<1>2. Keeps(stack, stack', L - 2) /\ Len(stack') = L - 1 /\ stack'[L - 1] = g
  <2> DEFINE l == L - 1
             r == Popped(1)
  <2>1. r = SubSeq(stack, 1, l) /\ l \in Nat /\ 0 < l /\ l < Len(stack) /\ l - 1 = L - 2
        /\ stack \in Seq(Frame) /\ g \in Frame /\ stack' = WithTop(r, g)
    BY <1>1 DEF Popped
  <2> HIDE DEF l, r, L
  <2>2. Keeps(stack, WithTop(r, g), l - 1) /\ Len(WithTop(r, g)) = l /\ WithTop(r, g)[l] = g
    BY ONLY <2>1, BelowReplaced
  <2> QED  BY <2>1, <2>2 DEF l
<1>3. SlotsOf(Top) \in Nat /\ SlotsOf(Under) \in Nat
  BY <1>1, FrameKinds
<1>4. L - 2 \in Nat /\ (L - 2) + 1 = L - 1 /\ (L - 2) + 2 = L
  BY <1>1
<1>5. Tops(stack', L - 2) = SlotsOf(g) /\ Tops(stack, L - 2) = SlotsOf(Under) + SlotsOf(Top)
  BY <1>1, <1>2, <1>3, <1>4 DEF Tops, Top, Under
<1>6. Shape(stack')
  <2> DEFINE m == L - 2
  <2>1. /\ Keeps(stack, stack', m) /\ Len(stack') = m + 1
        /\ stack'[m + 1] = g /\ stack[m + 1] = Under
    BY <1>2, <1>4 DEF Under
  <2> HIDE DEF m
  <2> QED  BY <2>1, ShapeReplaced
<1> QED  BY <1>1, <1>2, <1>3, <1>4, <1>5, <1>6 DEF Replaces, Sums

(* Without the top frame, the one under it is on top.                       *)
LEMMA PoppedOne ==
    ASSUME Shape(stack), Len(stack) > 1
    PROVE  /\ Popped(1) \in Seq(Frame) /\ Len(Popped(1)) = Len(stack) - 1
           /\ Len(Popped(1)) > 0 /\ Popped(1)[Len(Popped(1))] = Under
<1>1. stack \in Seq(Frame) /\ Len(stack) \in Nat
  BY ShapeTop
<1> QED  BY <1>1, PoppedIs DEF Popped, Under

(* The end of a let gives its slot to the list under it.                    *)
LEMMA CloseLetStack ==
    ASSUME Shape(stack), Typed, CloseLet
    PROVE  /\ Len(stack) > 1 /\ Top \in LetFrame /\ Top.value # NoNode
           /\ Under \in ListFrame /\ ~Under.terminal /\ Under.super = 0
           /\ Replaces(Len(stack) - 2, CountedFrame(Under, 1))
           /\ Shape(stack') /\ Sums(Len(stack) - 2, 1)
<1>1. Top.kind = "let" /\ Top.value # NoNode /\ stack' = Counted(Popped(1), 1)
  BY DEF CloseLet
<1>2. /\ Len(stack) > 1 /\ Top \in LetFrame /\ Under \in ListFrame /\ ~Under.terminal
      /\ Under.super = 0
  BY <1>1, UnderLet DEF Top, Under
<1>3. Popped(1) \in Seq(Frame) /\ Len(Popped(1)) > 0 /\ Popped(1)[Len(Popped(1))] = Under
  BY <1>2, PoppedOne
<1> DEFINE g == CountedFrame(Under, 1)
<1>4. stack' = WithTop(Popped(1), g) /\ g \in ListFrame /\ Like(g, Under)
      /\ SlotsOf(g) = SlotsOf(Under) + 1
  BY <1>1, <1>2, <1>3, CountedIs
<1>5. g \in Frame /\ ~g.terminal /\ ~g.changed /\ g.kind = "list"
  <2>1. FrameOK(Under)
    BY <1>2, ShapeTop DEF Under
  <2> QED  BY <1>2, <1>4, <2>1 DEF CountedFrame, ListFrame, FrameOK, Frame
<1>6. FrameOK(g) /\ Atop(g)
  BY <1>5 DEF FrameOK, Atop, OpenCheck
<1>7. SlotsOf(Top) = 0 /\ SlotsOf(Under) \in Nat
  BY <1>2 DEF SlotsOf, LetFrame, ListFrame
<1> HIDE DEF g
<1>8. Replaces(Len(stack) - 2, g) /\ Shape(stack') /\ Sums(Len(stack) - 2, 1)
  BY <1>2, <1>4, <1>5, <1>6, <1>7, UnderReplaced
<1> QED  BY <1>1, <1>2, <1>8 DEF g

(* A value given to the handler under the one that is done.                 *)
LEMMA UnderGiven ==
    ASSUME Shape(stack), Len(stack) > 1, NEW n \in Nat, stack' = Give(Popped(1), n),
           Under.kind # "wait", ~OpenCheck(Under), SlotsOf(Top) = 0,
           Under.kind = "call" => Len(Under.args) < Under.count
    PROVE  /\ Replaces(Len(stack) - 2, Given(Under, n))
           /\ Shape(stack') /\ Sums(Len(stack) - 2, 0)
<1>1. Popped(1) \in Seq(Frame) /\ Len(Popped(1)) > 0 /\ Popped(1)[Len(Popped(1))] = Under
  BY PoppedOne
<1> DEFINE g == Given(Under, n)
<1>2. stack' = WithTop(Popped(1), g)
  BY <1>1, GiveIs
<1>3. Under \in Frame /\ FrameOK(Under)
  BY ShapeTop DEF Under
<1>4. /\ g \in Frame /\ Like(g, Under) /\ SlotsOf(g) = SlotsOf(Under)
      /\ Under.kind # "list" => g.value = n
      /\ Under.kind = "list" => g.terminal = Under.terminal /\ g.changed = Under.changed
      /\ Under.kind = "call" => g.args = Under.args /\ g.count = Under.count
      /\ Under.kind = "when" => /\ g.node = Under.node /\ g.starts = Under.starts
                                /\ g.redirects = Under.redirects /\ g.outs = Under.outs
  BY <1>3, GivenIs
<1> HIDE DEF g
<1>5. g.kind = Under.kind
  BY <1>4 DEF Like
<1>6. Under.kind = "when" => g.slots = Under.slots
  BY <1>4, <1>5 DEF SlotsOf
<1>7. FrameOK(g)
  BY <1>3, <1>4, <1>5, <1>6 DEF FrameOK, OpenCheck
<1>8. Atop(g)
  BY <1>4, <1>5 DEF Atop, OpenCheck
<1>9. SlotsOf(Under) \in Nat
  BY <1>3, FrameKinds
<1>10. SlotsOf(g) = SlotsOf(Under) + SlotsOf(Top) + 0
  BY <1>4, <1>9
<1> QED  BY <1>2, <1>4, <1>7, <1>8, <1>10, UnderReplaced DEF g

(* The end of a call gives its value to what is under it, or ends the list  *)
(* when it was a self-call.                                                 *)
LEMMA CloseCallStack ==
    ASSUME Shape(stack), Typed, CloseCall
    PROVE  /\ Len(stack) > 1 /\ Top \in CallFrame /\ Len(Top.args) = Top.count
           /\ Under \in Frame /\ ~OpenCheck(Under) /\ Under.kind # "wait"
           /\ Under.kind # "list" => Under.value = NoNode /\ ~Top.self
           /\ Under.kind = "list" => Under \in ListFrame /\ ~Under.terminal
           /\ Replaces(Len(stack) - 2, IF Top.self THEN Ended(Under) ELSE Given(Under, nodes + 1))
           /\ Shape(stack') /\ Sums(Len(stack) - 2, 0)
<1>1. Top.kind = "call" /\ Len(Top.args) = Top.count
  BY DEF CloseCall
<1>2. /\ Len(stack) > 1 /\ Top \in CallFrame /\ Under \in Frame
      /\ \/ Under \in ListFrame /\ ~Under.terminal
         \/ /\ Under \in LetFrame \cup CallFrame \cup WhenFrame
            /\ ~OpenCheck(Under) /\ Under.value = NoNode /\ ~Top.self
            /\ Under.kind = "call" => Len(Under.args) < Under.count
  BY <1>1, UnderCall DEF Top, Under
<1>3. /\ ~OpenCheck(Under) /\ Under.kind # "wait"
      /\ Under.kind # "list" => Under.value = NoNode /\ ~Top.self
      /\ Under.kind = "list" => Under \in ListFrame /\ ~Under.terminal
      /\ Under.kind = "call" => Len(Under.args) < Under.count
  BY <1>2 DEF ListFrame, LetFrame, CallFrame, WhenFrame, OpenCheck
<1>4. SlotsOf(Top) = 0 /\ nodes + 1 \in Nat
  BY <1>1 DEF SlotsOf, Typed
<1>5. CASE Top.self
  <2>1. stack' = WithTop(Popped(1), Ended(Under)) /\ Under \in ListFrame
    BY <1>3, <1>5 DEF CloseCall, Ended
  <2>2. SlotsOf(Under) \in Nat
    BY <1>2, FrameKinds
  <2>3. SlotsOf(Ended(Under)) = SlotsOf(Under) + SlotsOf(Top) + 0
    BY <2>1, <2>2, <1>4, EndedIs
  <2>4. /\ Replaces(Len(stack) - 2, Ended(Under))
        /\ Shape(stack') /\ Sums(Len(stack) - 2, 0)
    BY <1>2, <2>1, <2>3, EndedIs, UnderReplaced
  <2> QED  BY <1>1, <1>2, <1>3, <1>5, <2>4
<1>6. CASE ~Top.self
  <2>1. stack' = Give(Popped(1), nodes + 1)
    BY <1>6 DEF CloseCall
  <2>2. /\ Replaces(Len(stack) - 2, Given(Under, nodes + 1))
        /\ Shape(stack') /\ Sums(Len(stack) - 2, 0)
    BY <1>2, <1>3, <1>4, <2>1, UnderGiven
  <2> QED  BY <1>1, <1>2, <1>3, <1>6, <2>2
<1> QED  BY <1>5, <1>6

(* A constant table gives its value to what is under the when.              *)
LEMMA KTableStack ==
    ASSUME Shape(stack), Typed, KTable
    PROVE  /\ Len(stack) > 1 /\ Top \in WhenFrame /\ Top.value # NoNode
           /\ Under \in ListFrame /\ ~Under.terminal
           /\ Replaces(Len(stack) - 2, Given(Under, nodes + 1))
           /\ Shape(stack') /\ Sums(Len(stack) - 2, 0)
<1>1. /\ Top.kind = "when" /\ Top.node = NoNode /\ Top.value # NoNode
      /\ stack' = Give(Popped(1), nodes + 1)
  BY DEF KTable
<1>2. Len(stack) > 1 /\ Top \in WhenFrame /\ Under \in ListFrame /\ ~Under.terminal
  BY <1>1, UnderLet DEF Top, Under
<1>3. FrameOK(Top)
  BY ShapeTop DEF Top
<1>4. SlotsOf(Top) = 0 /\ nodes + 1 \in Nat
  BY <1>1, <1>3 DEF FrameOK, SlotsOf, Typed
<1>5. Under.kind = "list"
  BY <1>2 DEF ListFrame
<1>6. Under.kind # "wait" /\ ~OpenCheck(Under) /\ Under.kind # "call"
  BY <1>5 DEF OpenCheck
<1>7. /\ Replaces(Len(stack) - 2, Given(Under, nodes + 1))
      /\ Shape(stack') /\ Sums(Len(stack) - 2, 0)
  BY <1>1, <1>2, <1>4, <1>6, UnderGiven
<1> QED  BY <1>1, <1>2, <1>7

Checked == [Top EXCEPT !.node = nodes + 1, !.block = Len(blocks) + 1, !.starts = {block_id + 1}]

(* A new list has counted its slots and has no value and no super-block.    *)
LEMMA ListIs ==
    ASSUME NEW of \in {"branch", "arm", "handler"}, NEW k \in Nat
    PROVE  /\ List(of, k) \in ListFrame /\ List(of, k) \in Frame /\ FrameOK(List(of, k))
           /\ Atop(List(of, k)) /\ SlotsOf(List(of, k)) = k
           /\ List(of, k).kind = "list" /\ List(of, k).of = of /\ List(of, k).super = 0
           /\ ~List(of, k).terminal /\ ~List(of, k).changed
BY DEF List, ListFrame, Frame, FrameOK, Atop, OpenCheck, SlotsOf

(* The check of a when: its frame remembers block and node and opens the    *)
(* first arm.                                                               *)
LEMMA FirstArmStack ==
    ASSUME Shape(stack), Typed, FirstArm
    PROVE  /\ Top \in WhenFrame /\ Top.node = NoNode /\ Top.value # NoNode
           /\ Top.outs = {} /\ Top.redirects = {}
           /\ Checked \in WhenFrame
           /\ Opens(Len(stack) - 1, Checked, List("arm", 0))
           /\ Shape(stack') /\ Sums(Len(stack) - 1, 0)
<1>1. /\ Top.kind = "when" /\ Top.node = NoNode /\ Top.value # NoNode
      /\ stack' = Append(WithTop(stack, Checked), List("arm", 0))
  BY DEF FirstArm, Checked
<1>2. Top \in WhenFrame
  BY <1>1, UnderLet DEF Top
<1>3. FrameOK(Top)
  BY ShapeTop DEF Top
<1>4. Checked \in WhenFrame /\ Checked.node = nodes + 1 /\ Checked.slots = Top.slots
      /\ Checked.kind = "when"
  <2> DEFINE a == nodes + 1
             b == Len(blocks) + 1
             c == {block_id + 1}
  <2>1. a \in Nat /\ b \in Nat /\ c \in SUBSET Nat
    BY DEF Typed
  <2>2. Checked = [Top EXCEPT !.node = a, !.block = b, !.starts = c]
    BY DEF Checked
  <2> HIDE DEF a, b, c
  <2>3. Checked \in WhenFrame /\ Checked.node = a /\ Checked.slots = Top.slots
        /\ Checked.kind = "when"
    BY <1>2, <2>1, <2>2 DEF WhenFrame
  <2> QED  BY <2>3 DEF a
<1>5. /\ Checked \in Frame /\ Like(Checked, Top) /\ FrameOK(Checked)
      /\ SlotsOf(Checked) = SlotsOf(Top) /\ OpenCheck(Checked)
  BY <1>1, <1>4 DEF Frame, Like, FrameOK, SlotsOf, OpenCheck, NoNode, Typed
<1> DEFINE h == List("arm", 0)
<1>6. /\ h \in Frame /\ FrameOK(h) /\ Atop(h) /\ SlotsOf(h) = 0
      /\ h.kind = "list" /\ h.of = "arm"
  BY ListIs
<1>7. Above(Checked, h)
  BY <1>5, <1>6 DEF Above
<1> HIDE DEF h
<1>8. Opens(Len(stack) - 1, Checked, h)
  BY <1>1, <1>5, <1>6, PushedOn DEF h
<1>9. Shape(stack') /\ Sums(Len(stack) - 1, 0)
  BY <1>4, <1>5, <1>6, <1>7, <1>8, Opened
<1> QED  BY <1>1, <1>2, <1>3, <1>4, <1>8, <1>9 DEF h, FrameOK

(* Without the two upper frames, the third is on top.                       *)
LEMMA PoppedTwo ==
    ASSUME Shape(stack), Len(stack) > 2
    PROVE  /\ Popped(2) \in Seq(Frame) /\ Len(Popped(2)) = Len(stack) - 2
           /\ Len(Popped(2)) > 0 /\ Popped(2)[Len(Popped(2))] = stack[Len(stack) - 2]
           /\ \A i \in 1 .. Len(stack) - 2 : Popped(2)[i] = stack[i]
<1>1. stack \in Seq(Frame) /\ Len(stack) \in Nat
  BY ShapeTop
<1> QED  BY <1>1, PoppedIs DEF Popped

ArmEnd == [ArmDone EXCEPT !.starts = @ \cup {block_id + 1}]

(* What the check of a when knows after an arm: the ends and slots of this  *)
(* arm are added.                                                           *)
LEMMA ArmDoneIs ==
    ASSUME Typed, Under \in WhenFrame, OpenCheck(Under), Top \in ListFrame
    PROVE  /\ ArmDone \in WhenFrame /\ OpenCheck(ArmDone)
           /\ ArmDone.node = Under.node /\ ArmDone.block = Under.block
           /\ ArmDone.starts = Under.starts /\ ArmDone.scope = Under.scope
           /\ ArmDone.outs = Under.outs \cup frontier
           /\ ArmDone.redirects = Under.redirects \cup ArmExit
           /\ ArmDone.slots = Under.slots + Top.slots
           /\ ArmExit \subseteq Nat
<1> DEFINE a == Under.slots + Top.slots
           b == Under.outs \cup frontier
           c == Under.redirects \cup ArmExit
<1>1. ArmExit \in SUBSET Nat
  BY DEF ArmExit, Typed
<1>2. a \in Nat /\ b \in SUBSET Nat /\ c \in SUBSET Nat
  BY <1>1 DEF WhenFrame, ListFrame, Typed
<1>3. ArmDone = [Under EXCEPT !.slots = a, !.outs = b, !.redirects = c]
  BY DEF ArmDone, ArmSlots
<1> HIDE DEF a, b, c
<1>4. /\ ArmDone \in WhenFrame
      /\ ArmDone.node = Under.node /\ ArmDone.block = Under.block /\ ArmDone.kind = Under.kind
      /\ ArmDone.starts = Under.starts /\ ArmDone.scope = Under.scope
      /\ ArmDone.outs = b /\ ArmDone.redirects = c /\ ArmDone.slots = a
  BY <1>2, <1>3 DEF WhenFrame
<1> QED  BY <1>1, <1>4 DEF a, b, c, OpenCheck

(* The next arm opens over the check with what the arm before has left.     *)
LEMMA NextArmStack ==
    ASSUME Shape(stack), Typed, NextArm
    PROVE  /\ Len(stack) > 2 /\ Top \in ListFrame /\ Top.of = "arm"
           /\ Under \in WhenFrame /\ OpenCheck(Under)
           /\ ArmEnd \in WhenFrame
           /\ ArmEnd.starts = Under.starts \cup {block_id + 1}
           /\ ArmEnd.node = Under.node /\ ArmEnd.block = Under.block
           /\ ArmEnd.scope = Under.scope
           /\ ArmEnd.outs = Under.outs \cup frontier
           /\ ArmEnd.redirects = Under.redirects \cup ArmExit
           /\ Opens(Len(stack) - 2, ArmEnd, List("arm", 0))
           /\ Shape(stack') /\ Sums(Len(stack) - 2, 0)
<1> DEFINE L == Len(stack)
           h == List("arm", 0)
<1>1. Top.kind = "list" /\ Top.of = "arm" /\ stack' = Popped(2) \o << ArmEnd, h >>
  BY DEF NextArm, InArm, ArmEnd
<1>2. /\ L > 2 /\ Top \in ListFrame /\ Under \in WhenFrame /\ OpenCheck(Under)
      /\ stack \in Seq(Frame) /\ L \in Nat
  BY <1>1, UnderArm, ShapeTop DEF Top, Under
<1>3. /\ ArmDone \in WhenFrame /\ OpenCheck(ArmDone)
      /\ ArmDone.node = Under.node /\ ArmDone.block = Under.block
      /\ ArmDone.starts = Under.starts /\ ArmDone.scope = Under.scope
      /\ ArmDone.outs = Under.outs \cup frontier
      /\ ArmDone.redirects = Under.redirects \cup ArmExit
      /\ ArmDone.slots = Under.slots + Top.slots
  BY <1>2, ArmDoneIs
<1>4. /\ ArmEnd \in WhenFrame /\ ArmEnd.starts = Under.starts \cup {block_id + 1}
      /\ ArmEnd.node = Under.node /\ ArmEnd.block = Under.block
      /\ ArmEnd.scope = Under.scope /\ ArmEnd.outs = ArmDone.outs
      /\ ArmEnd.redirects = ArmDone.redirects /\ ArmEnd.slots = ArmDone.slots
      /\ ArmEnd.kind = "when"
  <2> DEFINE c == Under.starts \cup {block_id + 1}
  <2>1. c \in SUBSET Nat
    BY <1>2 DEF WhenFrame, Typed
  <2>2. ArmEnd = [ArmDone EXCEPT !.starts = c]
    BY <1>3 DEF ArmEnd
  <2> HIDE DEF c
  <2>3. /\ ArmEnd \in WhenFrame /\ ArmEnd.starts = c
        /\ ArmEnd.node = ArmDone.node /\ ArmEnd.block = ArmDone.block
        /\ ArmEnd.scope = ArmDone.scope /\ ArmEnd.outs = ArmDone.outs
        /\ ArmEnd.redirects = ArmDone.redirects /\ ArmEnd.slots = ArmDone.slots
        /\ ArmEnd.kind = "when"
    BY <1>3, <2>1, <2>2 DEF WhenFrame
  <2> QED  BY <1>3, <2>3 DEF c
<1>5. OpenCheck(ArmEnd) /\ Like(ArmEnd, Under) /\ FrameOK(ArmEnd) /\ ArmEnd \in Frame
  BY <1>2, <1>4 DEF OpenCheck, Like, FrameOK, Frame
<1>6. /\ h \in Frame /\ FrameOK(h) /\ Atop(h) /\ SlotsOf(h) = 0
      /\ h.kind = "list" /\ h.of = "arm"
  BY ListIs
<1> HIDE DEF h
<1>7. Above(ArmEnd, h)
  BY <1>5, <1>6 DEF Above
<1>8. Opens(L - 2, ArmEnd, h)
  <2> DEFINE r == Popped(2)
             gs == << ArmEnd, h >>
  <2>1. r \in Seq(Frame) /\ Len(r) = L - 2 /\ \A i \in 1 .. L - 2 : r[i] = stack[i]
    BY <1>2, PoppedTwo
  <2>2. gs \in Seq(Frame) /\ Len(gs) = 2 /\ gs[1] = ArmEnd /\ gs[2] = h
    BY <1>5, <1>6
  <2>3. stack' = r \o gs
    BY <1>1
  <2> HIDE DEF r, gs
  <2>4. /\ stack' \in Seq(Frame) /\ Len(stack') = Len(r) + Len(gs)
        /\ \A i \in 1 .. Len(r) + Len(gs) :
              stack'[i] = IF i <= Len(r) THEN r[i] ELSE gs[i - Len(r)]
    BY <2>1, <2>2, <2>3, ConcatProperties
  <2>5. Len(stack') = (L - 2) + 2 /\ \A i \in 1 .. L - 2 : stack'[i] = stack[i]
    BY <1>2, <2>1, <2>2, <2>4
  <2>6. stack'[(L - 2) + 1] = ArmEnd
    BY <1>2, <2>1, <2>2, <2>4
  <2>7. stack'[(L - 2) + 2] = h
    BY <1>2, <2>1, <2>2, <2>4
  <2> QED  BY <1>2, <2>4, <2>5, <2>6, <2>7 DEF Opens, Keeps
<1>9. L - 2 \in Nat /\ (L - 2) + 1 = L - 1 /\ (L - 2) + 2 = L
  BY <1>2
<1>10. Shape(stack')
  <2> DEFINE m == L - 2
  <2>1. /\ Keeps(stack, stack', m) /\ Len(stack') = m + 2
        /\ stack'[m + 1] = ArmEnd /\ stack'[m + 2] = h /\ stack[m + 1] = Under
        /\ ArmEnd.kind # "call"
    BY <1>4, <1>8, <1>9 DEF Under, Opens
  <2> HIDE DEF m
  <2> QED  BY <2>1, <1>5, <1>6, <1>7, ShapeOpened
<1>11. Tops(stack', L - 2) = ArmEnd.slots + 0 /\ Tops(stack, L - 2) = Under.slots + Top.slots
  <2>1. /\ Len(stack') = L /\ stack'[L - 1] = ArmEnd /\ stack'[L] = h
    BY <1>8, <1>9 DEF Opens
  <2>2. SlotsOf(ArmEnd) = ArmEnd.slots /\ SlotsOf(Under) = Under.slots /\ SlotsOf(Top) = Top.slots
    BY <1>1, <1>2, <1>4 DEF SlotsOf, OpenCheck
  <2>3. ArmEnd.slots \in Nat /\ Under.slots \in Nat /\ Top.slots \in Nat
    BY <1>2, <1>4 DEF WhenFrame, ListFrame
  <2> QED  BY <1>2, <1>6, <1>9, <2>1, <2>2, <2>3 DEF Tops, Top, Under
<1>12. Sums(L - 2, 0)
  <2>1. ArmEnd.slots = Under.slots + Top.slots /\ Under.slots \in Nat /\ Top.slots \in Nat
    BY <1>2, <1>3, <1>4 DEF WhenFrame, ListFrame
  <2> QED  BY <1>11, <2>1 DEF Sums
<1> QED  BY <1>1, <1>2, <1>3, <1>4, <1>8, <1>10, <1>12 DEF h

(* A when or a wait is done: the list under it goes on.                     *)
LEMMA ThirdReplaced ==
    ASSUME Shape(stack), Len(stack) > 2, NEW g \in Frame,
           Keeps(stack, stack', Len(stack) - 3), Len(stack') = Len(stack) - 2,
           stack'[Len(stack) - 2] = g,
           Like(g, stack[Len(stack) - 2]), FrameOK(g), Atop(g),
           SlotsOf(g) = SlotsOf(stack[Len(stack) - 2]) + SlotsOf(Under) + SlotsOf(Top)
    PROVE  Replaces(Len(stack) - 3, g) /\ Shape(stack') /\ Sums(Len(stack) - 3, 0)
<1> DEFINE L == Len(stack)
           F == stack[L - 2]
<1>1. stack \in Seq(Frame) /\ L \in Nat /\ L > 2 /\ Top \in Frame /\ Under \in Frame /\ F \in Frame
  BY ShapeTop DEF Top, Under
<1>2. SlotsOf(Top) \in Nat /\ SlotsOf(Under) \in Nat /\ SlotsOf(F) \in Nat
  BY <1>1, FrameKinds
<1>3. L - 3 \in Nat /\ (L - 3) + 1 = L - 2 /\ (L - 3) + 2 = L - 1 /\ (L - 3) + 3 = L
  BY <1>1
<1>4. Tops(stack', L - 3) = SlotsOf(g)
      /\ Tops(stack, L - 3) = SlotsOf(F) + SlotsOf(Under) + SlotsOf(Top)
  BY <1>1, <1>2, <1>3 DEF Tops, Top, Under
<1>5. Shape(stack')
  <2> DEFINE m == L - 3
  <2>1. /\ Keeps(stack, stack', m) /\ Len(stack') = m + 1
        /\ stack'[m + 1] = g /\ Like(g, stack[m + 1])
    BY <1>3
  <2> HIDE DEF m
  <2> QED  BY <2>1, ShapeReplaced
<1>6. Sums(L - 3, 0)
  <2>1. SlotsOf(g) \in Nat /\ SlotsOf(g) = SlotsOf(g) + 0
    BY FrameKinds
  <2> QED  BY <1>4, <2>1 DEF Sums
<1> QED  BY <1>1, <1>3, <1>5, <1>6 DEF Replaces

(* Taking two frames off and replacing the third.                           *)
LEMMA PoppedReplaced ==
    ASSUME Shape(stack), Len(stack) > 2, NEW s, s \in Seq(Frame), Len(s) = Len(stack) - 2,
           \A i \in 1 .. Len(stack) - 3 : s[i] = stack[i],
           NEW g \in Frame
    PROVE  /\ WithTop(s, g) \in Seq(Frame) /\ Len(WithTop(s, g)) = Len(stack) - 2
           /\ WithTop(s, g)[Len(stack) - 2] = g
           /\ \A i \in 1 .. Len(stack) - 3 : WithTop(s, g)[i] = stack[i]
           /\ Keeps(stack, WithTop(s, g), Len(stack) - 3)
<1>1. Len(stack) \in Nat /\ Len(s) > 0
  BY ShapeTop
<1>2. /\ Keeps(s, WithTop(s, g), Len(s) - 1) /\ Len(WithTop(s, g)) = Len(s)
      /\ WithTop(s, g)[Len(s)] = g
  BY <1>1, WithTopIs
<1>3. Len(s) - 1 = Len(stack) - 3
  BY <1>1
<1> QED  BY <1>1, <1>2, <1>3 DEF Keeps

AfterList(k) == CountedFrame([stack[Len(stack) - 2] EXCEPT !.super = 0], k)

(* The end of a when gives the slots of all arms to the list below.         *)
LEMMA CloseWhenStack ==
    ASSUME Shape(stack), Typed, CloseWhen
    PROVE  /\ Len(stack) > 2 /\ Top \in ListFrame /\ Top.of = "arm"
           /\ Under \in WhenFrame /\ OpenCheck(Under)
           /\ stack[Len(stack) - 2] \in ListFrame /\ ~stack[Len(stack) - 2].terminal
           /\ Replaces(Len(stack) - 3, AfterList(ArmDone.slots))
           /\ AfterList(ArmDone.slots) \in ListFrame
           /\ AfterList(ArmDone.slots).super = 0
           /\ Shape(stack') /\ Sums(Len(stack) - 3, 0)
<1> DEFINE L == Len(stack)
           F == stack[L - 2]
           f == [F EXCEPT !.super = 0]
           k == ArmDone.slots
           g == CountedFrame(f, k)
           r == Popped(2)
           s == Give(r, NoNode)
<1>1. Top.kind = "list" /\ Top.of = "arm" /\ stack' = Counted(s, k)
  BY DEF CloseWhen, InArm
<1>2. /\ L > 2 /\ Top \in ListFrame /\ Under \in WhenFrame /\ OpenCheck(Under)
      /\ F \in ListFrame /\ ~F.terminal /\ L \in Nat /\ FrameOK(F)
  BY <1>1, UnderArm, ShapeTop DEF Top, Under
<1>3. /\ r \in Seq(Frame) /\ Len(r) = L - 2 /\ Len(r) > 0 /\ r[Len(r)] = F
      /\ \A i \in 1 .. L - 3 : r[i] = stack[i]
  BY <1>2, PoppedTwo
<1>4. k = Under.slots + Top.slots /\ k \in Nat /\ Under.slots \in Nat /\ Top.slots \in Nat
  BY <1>2, ArmDoneIs DEF WhenFrame, ListFrame
<1>5. /\ f \in ListFrame /\ f.of = F.of /\ f.slots = F.slots /\ f.terminal = F.terminal
      /\ f.changed = F.changed /\ f.super = 0 /\ f.kind = "list" /\ f \in Frame
  BY <1>2 DEF ListFrame, Frame
<1>6. s = WithTop(r, f)
  <2>1. F.kind = "list" /\ NoNode \in Int
    BY <1>2 DEF ListFrame, NoNode
  <2>2. Give(r, NoNode) = WithTop(r, Given(F, NoNode))
    BY <1>3, <2>1, GiveIs
  <2> QED  BY <2>1, <2>2 DEF Given
<1> HIDE DEF f, k, r
<1>7. /\ s \in Seq(Frame) /\ Len(s) = L - 2 /\ s[L - 2] = f
      /\ \A i \in 1 .. L - 3 : s[i] = stack[i]
  <2> HIDE DEF s
  <2>1. /\ WithTop(r, f) \in Seq(Frame) /\ Len(WithTop(r, f)) = L - 2
        /\ WithTop(r, f)[L - 2] = f
        /\ \A i \in 1 .. L - 3 : WithTop(r, f)[i] = stack[i]
    BY <1>2, <1>3, <1>5, PoppedReplaced
  <2> QED  BY <1>6, <2>1
<1> HIDE DEF s
<1>8. /\ stack' = WithTop(s, g) /\ g \in ListFrame /\ Like(g, f) /\ SlotsOf(g) = SlotsOf(f) + k
  <2>1. Len(s) > 0 /\ s[Len(s)] = f
    BY <1>2, <1>7
  <2> QED  BY <1>1, <1>4, <1>5, <1>7, <2>1, CountedIs
<1>9. /\ g \in Frame /\ g.terminal = f.terminal /\ g.changed = f.changed /\ g.super = 0
      /\ g.kind = "list" /\ g.of = f.of
  BY <1>5, <1>8 DEF CountedFrame, ListFrame, Frame
<1> HIDE DEF g
<1>10. /\ Keeps(stack, stack', L - 3) /\ Len(stack') = L - 2 /\ stack'[L - 2] = g
  BY <1>2, <1>7, <1>8, <1>9, PoppedReplaced
<1>11. Like(g, F) /\ FrameOK(g) /\ Atop(g)
  BY <1>2, <1>5, <1>9 DEF Like, FrameOK, Atop, OpenCheck, ListFrame
<1>12. SlotsOf(g) = SlotsOf(F) + SlotsOf(Under) + SlotsOf(Top)
  <2>1. SlotsOf(f) = F.slots /\ SlotsOf(F) = F.slots /\ F.slots \in Nat
    BY <1>2, <1>5 DEF SlotsOf, ListFrame
  <2>2. SlotsOf(Under) = Under.slots /\ SlotsOf(Top) = Top.slots
    BY <1>1, <1>2 DEF SlotsOf, OpenCheck
  <2> QED  BY <1>4, <1>8, <2>1, <2>2
<1>13. Replaces(L - 3, g) /\ Shape(stack') /\ Sums(L - 3, 0)
  BY <1>2, <1>9, <1>10, <1>11, <1>12, ThirdReplaced
<1>14. g = AfterList(ArmDone.slots)
  BY DEF g, f, k, AfterList
<1> QED  BY <1>1, <1>2, <1>8, <1>9, <1>13, <1>14

(* The assumption under which the blocks of a wait follow its source.       *)
LEMMA HandlerDoneIs ==
    ASSUME Under \in WaitFrame, FrameOK(Under), Top \in ListFrame, Typed
    PROVE  /\ HandlerDone.slots = Top.slots /\ HandlerDone.outs = frontier
<1>1. Under.kind = "wait" /\ Under.slots = 0 /\ Under.outs = {}
  BY DEF WaitFrame, FrameOK
<1>2. Top.slots \in Nat
  BY DEF ListFrame
<1>3. Largest({0, Top.slots}) = Top.slots
  <2>1. \E x \in {0, Top.slots} : \A y \in {0, Top.slots} : y <= x
    BY <1>2
  <2>2. /\ Largest({0, Top.slots}) \in {0, Top.slots}
        /\ \A y \in {0, Top.slots} : y <= Largest({0, Top.slots})
    BY <2>1 DEF Largest
  <2> QED  BY <1>2, <2>2
<1>4. /\ HandlerDone.slots = HandlerSlots(Under.slots, Top.slots)
      /\ HandlerDone.outs = Under.outs \cup frontier
  BY DEF HandlerDone, WaitFrame
<1> QED  BY <1>1, <1>3, <1>4 DEF HandlerSlots

AfterWait == [CountedFrame(stack[Len(stack) - 2], Top.slots) EXCEPT !.terminal = TRUE]

(* The end of a wait gives the slots of its handler to the list below and   *)
(* ends that.                                                               *)
LEMMA CloseWaitStack ==
    ASSUME Shape(stack), Typed, CloseWait
    PROVE  /\ Len(stack) > 2 /\ Top \in ListFrame /\ Top.of = "handler"
           /\ Under \in WaitFrame /\ FrameOK(Under)
           /\ stack[Len(stack) - 2] \in ListFrame /\ ~stack[Len(stack) - 2].terminal
           /\ ~stack[Len(stack) - 2].changed
           /\ Replaces(Len(stack) - 3, AfterWait)
           /\ AfterWait \in ListFrame /\ AfterWait.terminal /\ ~AfterWait.changed
           /\ Shape(stack') /\ Sums(Len(stack) - 3, 0)
<1> DEFINE L == Len(stack)
           F == stack[L - 2]
           f == CountedFrame(F, Top.slots)
           g == [f EXCEPT !.terminal = TRUE]
           r == Popped(2)
           s == Counted(r, Top.slots)
<1>1. Top.kind = "list" /\ Top.of = "handler"
  BY DEF CloseWait, InHandler
<1>2. /\ L > 2 /\ Top \in ListFrame /\ Under \in WaitFrame
      /\ F \in ListFrame /\ ~F.terminal /\ L \in Nat /\ FrameOK(F) /\ FrameOK(Under)
  BY <1>1, UnderHandler, ShapeTop DEF Top, Under
<1>3. HandlerDone.slots = Top.slots /\ Top.slots \in Nat /\ ~F.changed
  BY <1>2, HandlerDoneIs DEF ListFrame, FrameOK
<1>4. stack' = [s EXCEPT ![Len(s)].terminal = TRUE]
  BY <1>3 DEF CloseWait
<1>5. /\ r \in Seq(Frame) /\ Len(r) = L - 2 /\ Len(r) > 0 /\ r[Len(r)] = F
      /\ \A i \in 1 .. L - 3 : r[i] = stack[i]
  BY <1>2, PoppedTwo
<1>6. /\ s = WithTop(r, f) /\ f \in ListFrame /\ Like(f, F) /\ SlotsOf(f) = SlotsOf(F) + Top.slots
  BY <1>2, <1>3, <1>5, CountedIs
<1>7. f \in Frame /\ f.kind = "list" /\ ~f.changed
  BY <1>2, <1>3, <1>6 DEF CountedFrame, ListFrame, Frame
<1> HIDE DEF f, r
<1>8. /\ s \in Seq(Frame) /\ Len(s) = L - 2 /\ s[L - 2] = f
      /\ \A i \in 1 .. L - 3 : s[i] = stack[i]
  BY <1>2, <1>5, <1>6, <1>7, PoppedReplaced
<1> HIDE DEF s
<1>9. g \in ListFrame /\ g \in Frame /\ g.terminal /\ g.kind = "list" /\ g.of = f.of
      /\ g.slots = f.slots /\ ~g.changed
  BY <1>6, <1>7 DEF ListFrame, Frame
<1>10. stack' = WithTop(s, g)
  <2>1. stack' = [s EXCEPT ![Len(s)] = g]
    BY <1>4, <1>8
  <2>2. Len(s) > 0
    BY <1>2, <1>8
  <2> QED  BY <1>8, <1>9, <2>1, <2>2, ExceptTopIs
<1> HIDE DEF g
<1>11. /\ Keeps(stack, stack', L - 3) /\ Len(stack') = L - 2 /\ stack'[L - 2] = g
  BY <1>2, <1>8, <1>9, <1>10, PoppedReplaced
<1>12. Like(g, F) /\ FrameOK(g) /\ Atop(g)
  BY <1>2, <1>6, <1>7, <1>9 DEF Like, FrameOK, Atop, OpenCheck, ListFrame
<1>13. SlotsOf(g) = SlotsOf(F) + SlotsOf(Under) + SlotsOf(Top)
  <2>1. SlotsOf(g) = SlotsOf(f) /\ SlotsOf(F) \in Nat
    BY <1>2, <1>7, <1>9 DEF SlotsOf, ListFrame
  <2>2. SlotsOf(Under) = 0 /\ SlotsOf(Top) = Top.slots
    BY <1>1, <1>2 DEF SlotsOf, WaitFrame, FrameOK
  <2> QED  BY <1>3, <1>6, <2>1, <2>2
<1>14. Replaces(L - 3, g) /\ Shape(stack') /\ Sums(L - 3, 0)
  BY <1>2, <1>9, <1>11, <1>12, <1>13, ThirdReplaced
<1>15. g = AfterWait
  BY DEF g, f, AfterWait
<1> QED  BY <1>1, <1>2, <1>3, <1>9, <1>14, <1>15

(* Names bound to numbers.                                                  *)
LEMMA OverrideIs ==
    ASSUME NEW f \in Bindings, NEW x \in Names, NEW v \in Nat
    PROVE  /\ Override(f, {x}, v) \in Bindings
           /\ DOMAIN Override(f, {x}, v) = DOMAIN f \cup {x}
           /\ Override(f, {x}, v)[x] = v
           /\ \A y \in DOMAIN f : y # x => Override(f, {x}, v)[y] = f[y]
<1>1. PICK S \in SUBSET Names : f \in [S -> Nat]
  BY DEF Bindings
<1>2. Override(f, {x}, v) \in [S \cup {x} -> Nat] /\ S \cup {x} \in SUBSET Names
  BY <1>1 DEF Override
<1>3. Override(f, {x}, v) \in Bindings
  BY <1>2 DEF Bindings
<1> QED  BY <1>1, <1>3 DEF Override

(* The frame of a wait, and all that OpenWait leaves.                       *)
WaitOf(filter) ==
    [kind |-> "wait", node |-> nodes + 1, block |-> Len(blocks) + 1,
     starts |-> {block_id + 1}, outs |-> {}, scope |-> scope', slots |-> 0, filter |-> filter]
WaitOpened(xs, filter) ==
    /\ WantsStatement /\ \A x \in xs : CanBind(x)
    /\ xs = {} => filter = {}
    /\ IF xs = {} THEN UNCHANGED << scope, slot_of >> ELSE \A x \in xs : Insert(x, nodes + 1)
    /\ Emit(<< Op("take", nodes + 1, Folded(filter), Meant(filter),
                  IF xs = {} THEN NoNode ELSE NextIndex(slot_of)) >>, {block_id})
    /\ Rebinds(xs)
    /\ Top \in ListFrame
    /\ Keeps(stack, stack', Len(stack) - 1) /\ Len(stack') = Len(stack) + 2
    /\ stack'[Len(stack)] = Top
    /\ stack'[Len(stack) + 1] = WaitOf(filter) /\ WaitOf(filter) \in WaitFrame
    /\ stack'[Len(stack) + 2] = List("handler", IF xs = {} THEN 0 ELSE 1)
    /\ Shape(stack')
    /\ Sums(Len(stack) - 1, IF xs = {} THEN 0 ELSE 1)

(* What WaitExpr's handler leaves on the stack when it begins, for a        *)
(* pattern with a name or without.                                          *)
LEMMA OpenWaitStack ==
    ASSUME Shape(stack), Typed, OpenWait
    PROVE  \E xs \in {{}} \cup { {x} : x \in Names }, filter \in SUBSET DOMAIN scope :
              WaitOpened(xs, filter)
<1> DEFINE L == Len(stack)
<1>1. PICK xs \in {{}} \cup { {x} : x \in { n \in Names : CanBind(n) } },
           filter \in {{}} \cup { {x} : x \in DOMAIN scope } :
          /\ xs = {} => filter = {}
          /\ IF xs = {} THEN UNCHANGED << scope, slot_of >> ELSE \A x \in xs : Insert(x, nodes + 1)
          /\ Emit(<< Op("take", nodes + 1, Folded(filter), Meant(filter),
                        IF xs = {} THEN NoNode ELSE NextIndex(slot_of)) >>, {block_id})
          /\ stack' = stack \o << WaitOf(filter), List("handler", Cardinality(xs)) >>
          /\ Rebinds(xs)
  BY DEF OpenWait, WaitOf
<1>2. /\ xs \in {{}} \cup { {x} : x \in Names } /\ \A x \in xs : CanBind(x)
      /\ filter \in SUBSET DOMAIN scope /\ filter \in SUBSET Names
  BY DEF Typed, Bindings
<1> DEFINE k == IF xs = {} THEN 0 ELSE 1
           h == List("handler", k)
           gs == << WaitOf(filter), h >>
<1>3. Cardinality(xs) = k /\ k \in Nat
  <2>1. CASE xs = {}
    BY <2>1, FS_EmptySet
  <2>2. ASSUME NEW x, xs = {x}  PROVE Cardinality(xs) = 1 /\ k = 1
    BY <2>2, FS_Singleton
  <2> QED  BY <1>2, <2>1, <2>2
<1>4. WantsStatement /\ stack' = stack \o gs
  BY <1>1, <1>3 DEF OpenWait
<1>5. /\ stack \in Seq(Frame) /\ L \in Nat /\ L > 0 /\ Top \in Frame /\ Top.kind = "list"
      /\ ~Top.terminal
  BY <1>4, ShapeTop DEF Top, WantsStatement
<1>6. Top \in ListFrame
  BY <1>5, FrameKinds
<1>7. scope' \in Bindings
  <2>1. CASE xs = {}
    BY <1>1, <2>1 DEF Typed
  <2>2. ASSUME NEW x \in Names, xs = {x}  PROVE scope' \in Bindings
    <3>1. scope' = Override(scope, {x}, nodes + 1) /\ nodes + 1 \in Nat
      BY <1>1, <2>2 DEF Insert, Typed
    <3> QED  BY <3>1, OverrideIs DEF Typed
  <2> QED  BY <1>2, <2>1, <2>2
<1>8. /\ WaitOf(filter) \in WaitFrame /\ WaitOf(filter).kind = "wait"
      /\ FrameOK(WaitOf(filter)) /\ WaitOf(filter) \in Frame /\ SlotsOf(WaitOf(filter)) = 0
  <2> DEFINE a == nodes + 1
             b == Len(blocks) + 1
             c == block_id + 1
             d == scope'
             w == [kind |-> "wait", node |-> a, block |-> b,
                   starts |-> {c}, outs |-> {}, scope |-> d, slots |-> 0, filter |-> filter]
  <2>1. a \in Nat /\ b \in Nat /\ c \in Nat /\ d \in Bindings
    BY <1>7 DEF Typed
  <2>2. WaitOf(filter) = w
    BY DEF WaitOf
  <2> HIDE DEF a, b, c, d
  <2>3. w \in WaitFrame
    BY <1>2, <2>1 DEF WaitFrame
  <2>4. FrameOK(w) /\ SlotsOf(w) = 0
    BY <2>1 DEF FrameOK, SlotsOf
  <2> QED  BY <2>2, <2>3, <2>4 DEF Frame
<1>9. /\ h \in Frame /\ FrameOK(h) /\ SlotsOf(h) = k /\ h.kind = "list" /\ h.of = "handler"
  BY <1>3, ListIs
<1> HIDE DEF h, k
<1>10. /\ stack' \in Seq(Frame) /\ Len(stack') = L + 2
       /\ \A i \in 1 .. L : stack'[i] = stack[i]
       /\ stack'[L + 1] = WaitOf(filter) /\ stack'[L + 2] = h
  <2>1. gs \in Seq(Frame) /\ Len(gs) = 2 /\ gs[1] = WaitOf(filter) /\ gs[2] = h
    BY <1>8, <1>9
  <2> HIDE DEF gs
  <2>2. /\ stack' \in Seq(Frame) /\ Len(stack') = Len(stack) + Len(gs)
        /\ \A i \in 1 .. Len(stack) + Len(gs) :
              stack'[i] = IF i <= Len(stack) THEN stack[i] ELSE gs[i - Len(stack)]
    BY <1>4, <1>5, <2>1, ConcatProperties
  <2>3. Len(stack') = L + 2 /\ \A i \in 1 .. L : stack'[i] = stack[i]
    BY <1>5, <2>1, <2>2
  <2>4. stack'[L + 1] = WaitOf(filter)
    BY <1>5, <2>1, <2>2
  <2>5. stack'[L + 2] = h
    BY <1>5, <2>1, <2>2
  <2> QED  BY <2>2, <2>3, <2>4, <2>5
<1> HIDE DEF gs
<1>11. L - 1 \in Nat /\ (L - 1) + 1 = L /\ (L - 1) + 2 = L + 1 /\ (L - 1) + 3 = L + 2
  BY <1>5
<1>12. Shape(stack')
  <2> DEFINE m == L - 1
  <2>1. /\ m \in Nat /\ m < Len(stack) /\ m < Len(stack')
        /\ \A i \in 1 .. m : stack'[i] = stack[i]
    BY <1>5, <1>10
  <2>2. Keeps(stack, stack', m)
    BY <1>10, <2>1 DEF Keeps
  <2>3. /\ Len(stack') = m + 3 /\ stack'[m + 1] = stack[m + 1] /\ stack[m + 1] = Top
        /\ stack'[m + 2] = WaitOf(filter) /\ stack'[m + 3] = h
    BY <1>5, <1>10, <1>11 DEF Top
  <2> HIDE DEF m
  <2> QED  BY <1>5, <1>8, <1>9, <2>2, <2>3, ShapeWaiting
<1>13. Sums(L - 1, k)
  <2>1. SlotsOf(Top) \in Nat /\ SlotsOf(h) \in Nat
    BY <1>3, <1>5, <1>9, FrameKinds
  <2>2. stack'[L] = Top
    BY <1>5, <1>10 DEF Top
  <2>3. Tops(stack', L - 1) = SlotsOf(Top) + 0 + SlotsOf(h)
    BY <1>5, <1>8, <1>10, <1>11, <2>1, <2>2 DEF Tops
  <2>4. Tops(stack, L - 1) = SlotsOf(Top)
    BY <1>5, <1>11, <2>1 DEF Tops, Top
  <2> QED  BY <1>9, <2>1, <2>3, <2>4 DEF Sums
<1>14. stack'[L + 2] = List("handler", IF xs = {} THEN 0 ELSE 1)
       /\ Sums(L - 1, IF xs = {} THEN 0 ELSE 1)
  BY <1>10, <1>13 DEF h, k
<1>15. Keeps(stack, stack', L - 1) /\ stack'[L] = Top
  BY <1>5, <1>10 DEF Keeps, Top
<1>16. WaitOpened(xs, filter)
  BY <1>1, <1>4, <1>6, <1>8, <1>10, <1>12, <1>14, <1>15 DEF WaitOpened
<1> QED  BY <1>2, <1>16

-----------------------------------------------------------------------------
(* The names have the slots below n, each exactly one; as many slots are    *)
(* counted on the stack.                                                    *)
UsedIn(so, n) ==
    /\ \A x \in DOMAIN so : so[x] < n
    /\ n > 0 => \E x \in DOMAIN so : so[x] = n - 1
    /\ \A x, y \in DOMAIN so : so[x] = so[y] => x = y
Counts == \E n \in Nat : UsedIn(slot_of, n) /\ Part(stack, Len(stack), n)

(* Calls under way have their arguments below the next range.               *)
Bases == \A i \in 1 .. Len(stack) :
            stack[i].kind = "call" => stack[i].base + stack[i].count <= jump_args_base
(* A list that lost control has no value to continue from.                  *)
Changed == Top.kind = "list" /\ Top.changed => frontier = {}

(* Scopes grow with the stack, and names being bound are free.              *)
Extends(b, a) == DOMAIN a \subseteq DOMAIN b /\ \A x \in DOMAIN a : b[x] = a[x]
Scopes ==
    /\ DOMAIN scope \subseteq DOMAIN slot_of
    /\ \A i \in 1 .. Len(stack) : stack[i].kind = "when" => Extends(scope, stack[i].scope)
    /\ \A i, j \in 1 .. Len(stack) : i < j /\ stack[i].kind = "when" /\ stack[j].kind = "when"
            => Extends(stack[j].scope, stack[i].scope)
    /\ \A i \in 1 .. Len(stack) : stack[i].kind = "let" => CanBind(stack[i].name)

(* A list with a super-block; a frame that owns a block.                    *)
Super == Top.kind = "list" /\ Top.of # "arm" /\ Top.super # 0 /\ ~Top.terminal
HasBlock(f) == OpenCheck(f) \/ f.kind = "wait"
(* Exits lead to numbers given out, or to the next.                         *)
Exits_ok == \A j \in 1 .. Len(blocks) : blocks[j].exit \subseteq 0 .. block_id
(* Open checks own a block each, without exit until they close.             *)
Checks_ok ==
    /\ \A i \in 1 .. Len(stack) : HasBlock(stack[i]) =>
            /\ stack[i].block \in 1 .. Len(blocks)
            /\ stack[i].starts \subseteq 0 .. block_id
    /\ \A i \in 1 .. Len(stack) : OpenCheck(stack[i]) =>
            /\ blocks[stack[i].block].exit = {}
            /\ stack[i].redirects \subseteq 0 .. block_id - 1
    /\ \A i \in 1 .. Len(stack) : stack[i].kind = "wait" => blocks[stack[i].block].exit # {}
    /\ \A i, j \in 1 .. Len(stack) : i < j /\ HasBlock(stack[i]) /\ HasBlock(stack[j])
            => stack[i].block # stack[j].block
(* A super-block leads to the next number, and nothing else does.           *)
Super_ok ==
    Super =>
        /\ Top.super \in 1 .. Len(blocks)
        /\ blocks[Top.super].exit = {block_id}
        /\ Len(blocks[Top.super].ops) > 0
        /\ \A j \in 1 .. Len(blocks) : j # Top.super => block_id \notin blocks[j].exit
        /\ \A i \in 1 .. Len(stack) : HasBlock(stack[i]) =>
                stack[i].block # Top.super /\ block_id \notin stack[i].starts
        /\ block_id > 0
(* All of it.                                                               *)
Wellformed ==
    /\ Typed /\ Shape(stack) /\ Counts /\ Bases /\ Changed /\ Scopes
    /\ Exits_ok /\ Checks_ok /\ Super_ok
    /\ phase \in {"compile", "run"} /\ (phase = "run" => Len(stack) = 1)

(* Slots are given out one after the other.                                 *)
LEMMA NextIndexIs ==
    ASSUME NEW so \in Bindings, NEW n \in Nat, UsedIn(so, n)
    PROVE  NextIndex(so) = n
<1> DEFINE V == { so[x] : x \in DOMAIN so }
<1>1. \A x \in DOMAIN so : so[x] \in Nat
  BY DEF Bindings
<1>2. CASE DOMAIN so = {}
  BY <1>2 DEF NextIndex, UsedIn
<1>3. CASE DOMAIN so # {}
  <2>1. n > 0
    BY <1>1, <1>3 DEF UsedIn
  <2>2. n - 1 \in V /\ \A v \in V : v \in Nat /\ v <= n - 1
    BY <1>1, <2>1 DEF UsedIn
  <2> HIDE DEF V
  <2>3. Largest(V) \in V /\ \A v \in V : v <= Largest(V)
    BY <2>2 DEF Largest
  <2>4. Largest(V) = n - 1
    BY <2>2, <2>3
  <2>5. NextIndex(so) = 1 + Largest(V)
    BY <1>3 DEF NextIndex, V
  <2> QED  BY <2>4, <2>5
<1> QED  BY <1>2, <1>3

(* With one more name exactly one more slot is used.                        *)
LEMMA UsedOverride ==
    ASSUME NEW so \in Bindings, NEW n \in Nat, UsedIn(so, n), NEW x \in Names
    PROVE  UsedIn(Override(so, {x}, n), n + 1)
<1> DEFINE t == Override(so, {x}, n)
<1>1. /\ t \in Bindings /\ DOMAIN t = DOMAIN so \cup {x} /\ t[x] = n
      /\ \A y \in DOMAIN so : y # x => t[y] = so[y]
  BY OverrideIs
<1>2. \A y \in DOMAIN so : so[y] \in Nat /\ so[y] < n
  BY DEF UsedIn, Bindings
<1> HIDE DEF t
<1>3. \A y \in DOMAIN t : y # x => t[y] = so[y] /\ t[y] < n /\ y \in DOMAIN so
  BY <1>1, <1>2
<1>4. \A y \in DOMAIN t : t[y] < n + 1
  BY <1>1, <1>2, <1>3
<1>5. \A y, z \in DOMAIN t : t[y] = t[z] => y = z
  BY <1>1, <1>2, <1>3 DEF UsedIn
<1>6. UsedIn(t, n + 1)
  BY <1>1, <1>4, <1>5 DEF UsedIn
<1> QED  BY <1>6 DEF t

(* A step that counts as many slots as it gives out keeps the count.        *)
LEMMA CountsKept ==
    ASSUME Typed, Shape(stack), Counts, NEW m, Keeps(stack, stack', m),
           Len(stack) \in {m + 1, m + 2, m + 3}, Len(stack') \in {m + 1, m + 2, m + 3},
           \/ Sums(m, 0) /\ slot_of' = slot_of
           \/ Sums(m, 1) /\ \E x \in Names : slot_of' = Override(slot_of, {x}, NextIndex(slot_of))
    PROVE  Counts'
<1>1. PICK n \in Nat : UsedIn(slot_of, n) /\ Part(stack, Len(stack), n)
  BY DEF Counts
<1>2. stack \in Seq(Frame)
  BY ShapeTop
<1>3. CASE Sums(m, 0) /\ slot_of' = slot_of
  <2>1. Tops(stack', m) = Tops(stack, m) + 0
    BY <1>3 DEF Sums
  <2>2. Part(stack', Len(stack'), n + 0)
    BY <1>1, <1>2, <2>1, PartKept
  <2>3. n + 0 = n
    OBVIOUS
  <2> QED  BY <1>1, <1>3, <2>2, <2>3 DEF Counts
<1>4. ASSUME Sums(m, 1), NEW x \in Names, slot_of' = Override(slot_of, {x}, NextIndex(slot_of))
      PROVE  Counts'
  <2>1. Tops(stack', m) = Tops(stack, m) + 1
    BY <1>4 DEF Sums
  <2>2. Part(stack', Len(stack'), n + 1)
    BY <1>1, <1>2, <2>1, PartKept
  <2>3. slot_of' = Override(slot_of, {x}, n)
    BY <1>1, <1>4, NextIndexIs DEF Typed
  <2>4. UsedIn(slot_of', n + 1)
    BY <1>1, <2>3, UsedOverride DEF Typed
  <2>5. n + 1 \in Nat
    OBVIOUS
  <2> QED  BY <2>2, <2>4, <2>5 DEF Counts
<1> QED  BY <1>3, <1>4

(* When a list is at the top, nothing waits for a value.                    *)
LEMMA ListOnTop ==
    ASSUME NEW s, Shape(s), s[Len(s)].kind = "list", NEW i \in 1 .. Len(s)
    PROVE  s[i].kind \notin {"call", "let"} /\ (s[i].kind = "when" => OpenCheck(s[i]))
<1>1. Len(s) \in Nat /\ Len(s) > 0
  BY DEF Shape
<1>2. CASE i = Len(s)
  BY <1>2
<1>3. CASE i < Len(s)
  <2>1. s[i].kind # "call"
    BY <1>1, <1>3 DEF Shape
  <2>2. Above(s[i], s[i + 1]) /\ i + 1 \in 1 .. Len(s)
    BY <1>1, <1>3 DEF Shape
  <2>3. s[i + 1].kind # "call"
    <3>1. CASE i + 1 = Len(s)
      BY <3>1
    <3>2. CASE i + 1 < Len(s)
      BY <1>1, <2>2, <3>2 DEF Shape
    <3> QED  BY <2>2, <3>1, <3>2
  <2> QED  BY <2>1, <2>2, <2>3 DEF Above, Pending, OpenCheck
<1> QED  BY <1>1, <1>2, <1>3

(* The frames whose scope, name or range still counts are old ones.         *)
SameWhens == \A i \in 1 .. Len(stack') : stack'[i].kind = "when" =>
    i \in 1 .. Len(stack) /\ stack[i].kind = "when" /\ stack'[i].scope = stack[i].scope
SameLets == \A i \in 1 .. Len(stack') : stack'[i].kind = "let" =>
    i \in 1 .. Len(stack) /\ stack[i].kind = "let" /\ stack'[i].name = stack[i].name
SameCalls == \A i \in 1 .. Len(stack') : stack'[i].kind = "call" =>
    /\ i \in 1 .. Len(stack) /\ stack[i].kind = "call"
    /\ stack'[i].base = stack[i].base /\ stack'[i].count = stack[i].count

(* Scopes that no frame changes stay in order.                              *)
LEMMA ScopesKept ==
    ASSUME Scopes, UNCHANGED << scope, slot_of >>, SameWhens, SameLets
    PROVE  Scopes'
<1>1. ASSUME NEW i \in 1 .. Len(stack'), stack'[i].kind = "when"
      PROVE  Extends(scope', stack'[i].scope)
  BY <1>1 DEF Scopes, SameWhens
<1>2. ASSUME NEW i \in 1 .. Len(stack'), NEW j \in 1 .. Len(stack'), i < j,
             stack'[i].kind = "when", stack'[j].kind = "when"
      PROVE  Extends(stack'[j].scope, stack'[i].scope)
  BY <1>2 DEF Scopes, SameWhens
<1>3. ASSUME NEW i \in 1 .. Len(stack'), stack'[i].kind = "let",
             NEW j \in DOMAIN stack', stack'[j].kind = "when"
      PROVE  stack'[i].name \notin DOMAIN scope'
  <2>1. /\ i \in 1 .. Len(stack) /\ stack[i].kind = "let" /\ stack'[i].name = stack[i].name
    BY <1>3 DEF SameLets
  <2>2. \E l \in DOMAIN stack : stack[l].kind = "when"
    BY <1>3 DEF SameWhens
  <2> QED  BY <2>1, <2>2 DEF Scopes, CanBind
<1> QED  BY <1>1, <1>2, <1>3 DEF Scopes, CanBind

(* Binding a name keeps the scopes in order: the scopes of open whens are   *)
(* within it.                                                               *)
LEMMA ScopesBound ==
    ASSUME Scopes, Typed, NEW x \in Names, NEW v \in Nat, CanBind(x),
           scope' = Override(scope, {x}, v), slot_of' = Override(slot_of, {x}, NextIndex(slot_of)),
           SameWhens, \A i \in 1 .. Len(stack') : stack'[i].kind # "let"
    PROVE  Scopes'
<1>1. /\ DOMAIN scope' = DOMAIN scope \cup {x} /\ scope'[x] = v
      /\ \A y \in DOMAIN scope : y # x => scope'[y] = scope[y]
  BY ZenonT(40), OverrideIs DEF Typed
<1>2. DOMAIN slot_of' = DOMAIN slot_of \cup {x}
  BY DEF Override
<1>3. ASSUME NEW i \in 1 .. Len(stack'), stack'[i].kind = "when"
      PROVE  Extends(scope', stack'[i].scope)
  <2>1. i \in 1 .. Len(stack) /\ stack[i].kind = "when" /\ stack'[i].scope = stack[i].scope
    BY <1>3 DEF SameWhens
  <2>2. Extends(scope, stack[i].scope)
    BY <2>1 DEF Scopes
  <2>3. x \notin DOMAIN scope
    BY <2>1 DEF CanBind
  <2> QED  BY <1>1, <2>1, <2>2, <2>3 DEF Extends
<1>4. ASSUME NEW i \in 1 .. Len(stack'), NEW j \in 1 .. Len(stack'), i < j,
             stack'[i].kind = "when", stack'[j].kind = "when"
      PROVE  Extends(stack'[j].scope, stack'[i].scope)
  BY <1>4 DEF Scopes, SameWhens
<1> QED  BY <1>1, <1>2, <1>3, <1>4 DEF Scopes

(* Going back to the scope of a when keeps the scopes in order.             *)
LEMMA ScopesRestored ==
    ASSUME Scopes, NEW l \in 1 .. Len(stack), stack[l].kind = "when",
           scope' = stack[l].scope, slot_of' = slot_of, SameWhens,
           \A i \in 1 .. Len(stack') : stack'[i].kind = "when" => i <= l,
           \A i \in 1 .. Len(stack') : stack'[i].kind # "let"
    PROVE  Scopes'
<1>1. Extends(scope, stack[l].scope)
  BY DEF Scopes
<1>2. DOMAIN scope' \subseteq DOMAIN slot_of'
  BY <1>1 DEF Extends, Scopes
<1>3. ASSUME NEW i \in 1 .. Len(stack'), stack'[i].kind = "when"
      PROVE  Extends(scope', stack'[i].scope)
  <2>1. i \in 1 .. Len(stack) /\ stack[i].kind = "when" /\ stack'[i].scope = stack[i].scope
    BY <1>3 DEF SameWhens
  <2>2. CASE i < l
    BY <2>1, <2>2 DEF Scopes
  <2>3. CASE i = l
    BY <2>1, <2>3 DEF Extends
  <2> QED  BY <1>3, <2>1, <2>2, <2>3
<1>4. ASSUME NEW i \in 1 .. Len(stack'), NEW j \in 1 .. Len(stack'), i < j,
             stack'[i].kind = "when", stack'[j].kind = "when"
      PROVE  Extends(stack'[j].scope, stack'[i].scope)
  BY <1>4 DEF Scopes, SameWhens
<1> QED  BY <1>2, <1>3, <1>4 DEF Scopes

(* The ranges of arguments that no frame changes stay below the next.       *)
LEMMA BasesKept ==
    ASSUME Bases, SameCalls, jump_args_base' = jump_args_base
    PROVE  Bases'
BY DEF Bases, SameCalls

(* What a step keeps of stack and names; what binding a name does.          *)
Kept == Shape(stack') /\ Counts' /\ Bases' /\ Changed' /\ Scopes'
Bound(x, v) == scope' = Override(scope, {x}, v)
               /\ slot_of' = Override(slot_of, {x}, NextIndex(slot_of))

(* A step that only gives a value, or binds a name to it and counts the     *)
(* slot, keeps what concerns the stack and the names.                       *)
LEMMA GoesKept ==
    ASSUME Wellformed, WantsExpression, NEW n \in Nat, NEW k \in {0, 1}, Goes(stack', n, k),
           jump_args_base' = jump_args_base,
           \/ k = 0 /\ UNCHANGED << scope, slot_of >>
           \/ k = 1 /\ Top.kind = "list" /\ \E x \in Names : CanBind(x) /\ Bound(x, n)
    PROVE  Kept
<1> DEFINE L == Len(stack)
           g == stack'[L]
<1> USE DEF Wellformed
<1>1. /\ stack \in Seq(Frame) /\ L \in Nat /\ L > 0 /\ Top \in Frame /\ Atop(Top)
      /\ k \in Nat /\ n \in Int /\ L \in 1 .. L
  BY ShapeTop DEF Top
<1>2. /\ Keeps(stack, stack', L - 1) /\ Len(stack') = L
      /\ \A i \in 1 .. L - 1 : stack'[i] = stack[i]
  BY <1>1 DEF Goes, Keeps
<1>3. Shape(stack') /\ Sums(L - 1, k)
  BY <1>1, GoesOn DEF Sums
<1>4. /\ g.kind = Top.kind
      /\ Top.kind = "when" => g.scope = Top.scope
      /\ Top.kind = "let" => g.name = Top.name
      /\ Top.kind = "call" => g.base = Top.base /\ g.count = Top.count
  <2>1. CASE Top.kind = "list"
    BY <1>2, <2>1 DEF Goes, ListFrame
  <2>2. CASE Top.kind # "list"
    <3>1. g = Given(Top, n) /\ Top.kind # "wait"
      BY <1>1, <1>2, <2>2 DEF Goes, Atop
    <3> QED  BY <1>1, <2>2, <3>1, GivenIs DEF Like
  <2> QED  BY <2>1, <2>2
<1>5. Changed'
  <2>1. ASSUME g.kind = "list"  PROVE ~g.changed
    <3>1. g.changed = Top.changed /\ ~Top.terminal /\ FrameOK(Top)
      BY <1>1, <1>2, <1>4, <2>1, ShapeTop DEF Goes, WantsExpression, WantsStatement, Top
    <3> QED  BY <1>4, <2>1, <3>1 DEF FrameOK
  <2> QED  BY <1>2, <2>1 DEF Changed, Top
<1>6. SameWhens /\ SameCalls /\ SameLets
  <2>1. ASSUME NEW i \in 1 .. Len(stack')
        PROVE  i \in 1 .. Len(stack) /\ (i = L \/ stack'[i] = stack[i])
    BY <1>1, <1>2
  <2> QED  BY <1>4, <2>1 DEF SameWhens, SameCalls, SameLets, Top
<1>7. Bases'
  BY <1>6, BasesKept
<1>8. Counts'
  <2>1. \/ Sums(L - 1, 0) /\ slot_of' = slot_of
        \/ Sums(L - 1, 1) /\ \E x \in Names : slot_of' = Override(slot_of, {x}, NextIndex(slot_of))
    BY <1>3 DEF Bound
  <2> DEFINE m == L - 1
  <2>2. Len(stack) \in {m + 1, m + 2, m + 3} /\ Len(stack') \in {m + 1, m + 2, m + 3}
    BY <1>1, <1>2
  <2> HIDE DEF m
  <2> QED  BY <1>2, <2>1, <2>2, CountsKept DEF m
<1>9. Scopes'
  <2>1. CASE k = 0
    BY <1>6, <2>1, ScopesKept
  <2>2. ASSUME k = 1, Top.kind = "list", NEW x \in Names, CanBind(x), Bound(x, n)  PROVE Scopes'
    <3>1. \A i \in 1 .. Len(stack') : stack'[i].kind # "let"
      BY <1>2, <1>3, <1>4, <2>2, ListOnTop
    <3> QED  BY <1>6, <2>2, <3>1, ScopesBound DEF Bound
  <2> QED  BY <2>1, <2>2
<1> QED  BY <1>3, <1>5, <1>7, <1>8, <1>9 DEF Kept

-----------------------------------------------------------------------------
(* A block of its own.                                                      *)
NewBlock(ops, ex) == [ops |-> ops, exit |-> ex]
Emitted(ops, ex) ==
    /\ block_id' = block_id + 1 /\ block_id' \in Nat
    /\ blocks' \in Seq(Block) /\ Len(blocks') = Len(blocks) + 1 /\ Len(blocks) \in Nat
    /\ \A j \in 1 .. Len(blocks) : blocks'[j] = blocks[j]
    /\ blocks'[Len(blocks) + 1] = NewBlock(ops, ex)
    /\ branch_switch' \in [DOMAIN branch_switch' -> 1 .. Len(blocks')]
    /\ DOMAIN branch_switch' = DOMAIN branch_switch \cup {block_id}
    /\ branch_switch'[block_id] = Len(blocks) + 1
    /\ \A id \in DOMAIN branch_switch : branch_switch'[id] = branch_switch[id]
    /\ DOMAIN branch_switch' \subseteq 0 .. block_id' - 1

(* Emit writes one block under the next number.                             *)
LEMMA EmitIs ==
    ASSUME Typed, NEW ops \in Seq(Operation), NEW ex \in SUBSET Nat, Emit(ops, ex)
    PROVE  Emitted(ops, ex)
<1>1. NewBlock(ops, ex) \in Block
  BY DEF Block, NewBlock
<1>2. blocks' = Append(blocks, NewBlock(ops, ex)) /\ blocks \in Seq(Block)
  BY DEF Emit, NewBlock, Typed
<1>3. /\ blocks' \in Seq(Block) /\ Len(blocks') = Len(blocks) + 1 /\ Len(blocks) \in Nat
      /\ \A j \in 1 .. Len(blocks) : blocks'[j] = blocks[j]
      /\ blocks'[Len(blocks) + 1] = NewBlock(ops, ex)
  BY <1>1, <1>2, AppendProperties
<1>4. block_id' = block_id + 1 /\ block_id' \in Nat
  BY DEF Emit, Typed
<1>5. branch_switch' = Override(branch_switch, {block_id}, Len(blocks) + 1)
  BY DEF Emit
<1>6. block_id \notin DOMAIN branch_switch
  BY DEF Typed
<1>7. /\ DOMAIN branch_switch' = DOMAIN branch_switch \cup {block_id}
      /\ branch_switch'[block_id] = Len(blocks) + 1
      /\ \A id \in DOMAIN branch_switch : branch_switch'[id] = branch_switch[id]
  BY <1>5, <1>6 DEF Override
<1>8. branch_switch' \in [DOMAIN branch_switch' -> 1 .. Len(blocks')]
  <2>1. branch_switch' = [ id \in DOMAIN branch_switch' |-> branch_switch'[id] ]
    BY <1>5 DEF Override
  <2>2. \A id \in DOMAIN branch_switch : branch_switch[id] \in 1 .. Len(blocks)
    BY DEF Typed
  <2>3. \A id \in DOMAIN branch_switch' : branch_switch'[id] \in 1 .. Len(blocks')
    BY <1>3, <1>7, <2>2
  <2> QED  BY <2>1, <2>3
<1>9. DOMAIN branch_switch' \subseteq 0 .. block_id' - 1
  BY <1>4, <1>7 DEF Typed
<1> QED  BY <1>3, <1>4, <1>7, <1>8, <1>9 DEF Emitted

(* Frames that own a block are old ones; numbers and exits in order.        *)
SameBlocks == \A i \in 1 .. Len(stack') : HasBlock(stack'[i]) =>
    i \in 1 .. Len(stack) /\ stack'[i] = stack[i]
Numbered == Exits_ok' /\ Checks_ok' /\ Super_ok'

(* A block under the next number keeps numbers and exits in order.          *)
LEMMA NumbersEmit ==
    ASSUME Wellformed, SameBlocks, NEW ops, NEW ex, Emitted(ops, ex), Len(ops) > 0,
           ex \subseteq 0 .. block_id + 1,
           Super' => stack'[Len(stack')].super = Len(blocks) + 1 /\ ex = {block_id + 1}
    PROVE  Numbered
<1> USE DEF Wellformed
<1>1. block_id \in Nat /\ Len(blocks) \in Nat /\ block_id' = block_id + 1
  BY DEF Typed, Emitted
<1>2. Exits_ok'
  <2>1. ASSUME NEW j \in 1 .. Len(blocks')  PROVE blocks'[j].exit \subseteq 0 .. block_id'
    <3>1. CASE j \in 1 .. Len(blocks)
      BY <1>1, <3>1 DEF Emitted, Exits_ok
    <3>2. CASE j = Len(blocks) + 1
      BY <1>1, <3>2 DEF Emitted, NewBlock
    <3> QED  BY <3>1, <3>2 DEF Emitted
  <2> QED  BY <2>1 DEF Exits_ok
<1>3. ASSUME NEW i \in 1 .. Len(stack'), HasBlock(stack'[i])
      PROVE  /\ i \in 1 .. Len(stack) /\ stack'[i] = stack[i]
             /\ stack'[i].block \in 1 .. Len(blocks) /\ stack'[i].starts \subseteq 0 .. block_id
             /\ blocks'[stack'[i].block] = blocks[stack'[i].block]
  BY <1>3 DEF SameBlocks, Checks_ok, Emitted
<1>4. Checks_ok'
  <2>1. ASSUME NEW i \in 1 .. Len(stack'), HasBlock(stack'[i])
        PROVE  stack'[i].block \in 1 .. Len(blocks') /\ stack'[i].starts \subseteq 0 .. block_id'
    BY <1>1, <1>3, <2>1 DEF Emitted
  <2>2. ASSUME NEW i \in 1 .. Len(stack'), OpenCheck(stack'[i])
        PROVE  /\ blocks'[stack'[i].block].exit = {}
               /\ stack'[i].redirects \subseteq 0 .. block_id' - 1
    BY <1>1, <1>3, <2>2 DEF Checks_ok, HasBlock
  <2>3. ASSUME NEW i \in 1 .. Len(stack'), stack'[i].kind = "wait"
        PROVE  blocks'[stack'[i].block].exit # {}
    BY <1>3, <2>3 DEF Checks_ok, HasBlock
  <2>4. ASSUME NEW i \in 1 .. Len(stack'), NEW j \in 1 .. Len(stack'), i < j,
               HasBlock(stack'[i]), HasBlock(stack'[j])
        PROVE  stack'[i].block # stack'[j].block
    BY <1>3, <2>4 DEF Checks_ok
  <2> QED  BY <2>1, <2>2, <2>3, <2>4 DEF Checks_ok
<1>5. Super_ok'
  <2> SUFFICES ASSUME Super'
               PROVE  /\ Top'.super \in 1 .. Len(blocks')
                      /\ blocks'[Top'.super].exit = {block_id'}
                      /\ Len(blocks'[Top'.super].ops) > 0
                      /\ \A j \in 1 .. Len(blocks') :
                            j # Top'.super => block_id' \notin blocks'[j].exit
                      /\ \A i \in 1 .. Len(stack') : HasBlock(stack'[i]) =>
                            stack'[i].block # Top'.super /\ block_id' \notin stack'[i].starts
                      /\ block_id' > 0
    BY DEF Super_ok
  <2>1. Top'.super = Len(blocks) + 1 /\ ex = {block_id'}
    BY <1>1 DEF Top
  <2>2. blocks'[Top'.super] = NewBlock(ops, ex) /\ Len(blocks') = Len(blocks) + 1
    BY <2>1 DEF Emitted
  <2>3. ASSUME NEW j \in 1 .. Len(blocks'), j # Top'.super  PROVE block_id' \notin blocks'[j].exit
    <3>1. j \in 1 .. Len(blocks)
      BY <1>1, <2>1, <2>2, <2>3
    <3>2. blocks'[j].exit \subseteq 0 .. block_id
      BY <3>1 DEF Emitted, Exits_ok
    <3> QED  BY <1>1, <3>2
  <2>4. ASSUME NEW i \in 1 .. Len(stack'), HasBlock(stack'[i])
        PROVE  stack'[i].block # Top'.super /\ block_id' \notin stack'[i].starts
    BY <1>1, <1>3, <2>1, <2>4
  <2> QED  BY <1>1, <2>1, <2>2, <2>3, <2>4 DEF NewBlock
<1> QED  BY <1>2, <1>4, <1>5 DEF Numbered

(* A step that writes no block keeps numbers and exits in order.            *)
LEMMA NumbersSame ==
    ASSUME Wellformed, SameBlocks, UNCHANGED << block_id, blocks >>, ~Super'
    PROVE  Numbered
<1> USE DEF Wellformed
<1>1. Exits_ok' /\ Super_ok'
  BY DEF Exits_ok, Super_ok
<1>3. ASSUME NEW i \in 1 .. Len(stack'), HasBlock(stack'[i])
      PROVE  i \in 1 .. Len(stack) /\ stack'[i] = stack[i]
  BY <1>3 DEF SameBlocks
<1>4. Checks_ok'
  <2>1. ASSUME NEW i \in 1 .. Len(stack'), HasBlock(stack'[i])
        PROVE  stack'[i].block \in 1 .. Len(blocks') /\ stack'[i].starts \subseteq 0 .. block_id'
    BY <1>3, <2>1 DEF Checks_ok
  <2>2. ASSUME NEW i \in 1 .. Len(stack'), OpenCheck(stack'[i])
        PROVE  /\ blocks'[stack'[i].block].exit = {}
               /\ stack'[i].redirects \subseteq 0 .. block_id' - 1
    BY <1>3, <2>2 DEF Checks_ok, HasBlock
  <2>3. ASSUME NEW i \in 1 .. Len(stack'), stack'[i].kind = "wait"
        PROVE  blocks'[stack'[i].block].exit # {}
    BY <1>3, <2>3 DEF Checks_ok, HasBlock
  <2>4. ASSUME NEW i \in 1 .. Len(stack'), NEW j \in 1 .. Len(stack'), i < j,
               HasBlock(stack'[i]), HasBlock(stack'[j])
        PROVE  stack'[i].block # stack'[j].block
    BY <1>3, <2>4 DEF Checks_ok
  <2> QED  BY <2>1, <2>2, <2>3, <2>4 DEF Checks_ok
<1> QED  BY <1>1, <1>4 DEF Numbered

(* A statement that joins the super-block.                                  *)
Joined(op) ==
    /\ block_id' = block_id + 1 /\ block_id' \in Nat
    /\ Top.super \in 1 .. Len(blocks)
    /\ blocks' \in Seq(Block) /\ Len(blocks') = Len(blocks)
    /\ \A j \in 1 .. Len(blocks) : j # Top.super => blocks'[j] = blocks[j]
    /\ blocks'[Top.super] = NewBlock(Append(blocks[Top.super].ops, op), {block_id + 1})
    /\ branch_switch' \in [DOMAIN branch_switch' -> 1 .. Len(blocks')]
    /\ DOMAIN branch_switch' = DOMAIN branch_switch \cup {block_id}
    /\ branch_switch'[block_id] = Top.super
    /\ \A id \in DOMAIN branch_switch : branch_switch'[id] = branch_switch[id]
    /\ DOMAIN branch_switch' \subseteq 0 .. block_id' - 1

(* A statement that joins a super-block lengthens that block, which leads   *)
(* to the next number alone.                                                *)
LEMMA JoinIs ==
    ASSUME Typed, Super_ok, Super, NEW s, NEW op \in Operation, EmitFast(s, op)
    PROVE  Joins /\ Joined(op)
<1>1. /\ Top.super \in 1 .. Len(blocks) /\ blocks \in Seq(Block) /\ Len(blocks) \in Nat
      /\ Joins
  BY DEF Super_ok, Super, Joins, Typed
<1> DEFINE b == Top.super
           new == NewBlock(Append(blocks[b].ops, op), {block_id + 1})
<1>2. new \in Block
  <2>1. blocks[b] \in Block
    BY <1>1
  <2>2. Append(blocks[b].ops, op) \in Seq(Operation) /\ {block_id + 1} \in SUBSET Nat
    BY <2>1 DEF Block, Typed
  <2> QED  BY <2>2 DEF Block, NewBlock
<1>3. blocks' = [blocks EXCEPT ![b] = new]
  BY <1>1 DEF EmitFast, NewBlock
<1>4. branch_switch' = Override(branch_switch, {block_id}, b) /\ block_id' = block_id + 1
  BY <1>1 DEF EmitFast
<1>5. /\ blocks' \in Seq(Block) /\ Len(blocks') = Len(blocks) /\ blocks'[b] = new
      /\ \A j \in 1 .. Len(blocks) : j # b => blocks'[j] = blocks[j]
  <2> HIDE DEF new, b
  <2>1. b \in 1 .. Len(blocks)
    BY <1>1 DEF b
  <2> QED  BY <1>1, <1>2, <1>3, <2>1, ExceptSeq
<1>6. block_id \notin DOMAIN branch_switch
  BY DEF Typed
<1>7. /\ DOMAIN branch_switch' = DOMAIN branch_switch \cup {block_id}
      /\ branch_switch'[block_id] = b
      /\ \A id \in DOMAIN branch_switch : branch_switch'[id] = branch_switch[id]
  BY <1>4, <1>6 DEF Override
<1>8. branch_switch' \in [DOMAIN branch_switch' -> 1 .. Len(blocks')]
  <2>1. branch_switch' = [ id \in DOMAIN branch_switch' |-> branch_switch'[id] ]
    BY <1>4 DEF Override
  <2>2. \A id \in DOMAIN branch_switch : branch_switch[id] \in 1 .. Len(blocks)
    BY DEF Typed
  <2>3. \A id \in DOMAIN branch_switch' : branch_switch'[id] \in 1 .. Len(blocks')
    BY <1>1, <1>5, <1>7, <2>2
  <2> QED  BY <2>1, <2>3
<1>9. DOMAIN branch_switch' \subseteq 0 .. block_id' - 1 /\ block_id' \in Nat
  BY <1>4, <1>7 DEF Typed
<1> QED  BY <1>1, <1>4, <1>5, <1>7, <1>8, <1>9 DEF Joined

(* Joining a super-block keeps numbers and exits in order.                  *)
LEMMA NumbersJoin ==
    ASSUME Wellformed, Super, SameBlocks, NEW op, Joined(op), NEW g,
           stack'[Len(stack')] = g, g.super = Top.super
    PROVE  Numbered
<1> USE DEF Wellformed
<1> DEFINE b == Top.super
<1>1. /\ block_id \in Nat /\ Len(blocks) \in Nat /\ block_id' = block_id + 1
      /\ b \in 1 .. Len(blocks) /\ Len(blocks') = Len(blocks)
      /\ blocks[b].exit = {block_id} /\ Len(blocks[b].ops) > 0
      /\ blocks[b].ops \in Seq(Operation)
  <2>1. block_id \in Nat /\ blocks \in Seq(Block) /\ b \in 1 .. Len(blocks)
    BY DEF Typed, Joined
  <2>2. blocks[b] \in Block
    BY <2>1
  <2> QED  BY <2>1, <2>2 DEF Joined, Super_ok, Block
<1>2. blocks'[b].exit = {block_id'} /\ Len(blocks'[b].ops) > 0
  BY <1>1 DEF Joined, NewBlock
<1>3. ASSUME NEW j \in 1 .. Len(blocks), j # b
      PROVE  blocks'[j] = blocks[j] /\ blocks[j].exit \subseteq 0 .. block_id
  BY <1>3 DEF Joined, Exits_ok
<1>4. ASSUME NEW i \in 1 .. Len(stack'), HasBlock(stack'[i])
      PROVE  /\ i \in 1 .. Len(stack) /\ stack'[i] = stack[i] /\ stack'[i].block # b
             /\ stack'[i].block \in 1 .. Len(blocks) /\ stack'[i].starts \subseteq 0 .. block_id
             /\ blocks'[stack'[i].block] = blocks[stack'[i].block]
  <2>1. i \in 1 .. Len(stack) /\ stack'[i] = stack[i]
    BY <1>4 DEF SameBlocks
  <2>2. stack[i].block # b
    BY <1>4, <2>1 DEF Super_ok
  <2> QED  BY <1>4, <2>1, <2>2, <1>3 DEF Checks_ok
<1>5. Exits_ok'
  <2>1. ASSUME NEW j \in 1 .. Len(blocks')  PROVE blocks'[j].exit \subseteq 0 .. block_id'
    BY <1>1, <1>2, <1>3
  <2> QED  BY <2>1 DEF Exits_ok
<1>6. Checks_ok'
  <2>1. ASSUME NEW i \in 1 .. Len(stack'), HasBlock(stack'[i])
        PROVE  stack'[i].block \in 1 .. Len(blocks') /\ stack'[i].starts \subseteq 0 .. block_id'
    BY <1>1, <1>4, <2>1
  <2>2. ASSUME NEW i \in 1 .. Len(stack'), OpenCheck(stack'[i])
        PROVE  /\ blocks'[stack'[i].block].exit = {}
               /\ stack'[i].redirects \subseteq 0 .. block_id' - 1
    BY <1>1, <1>4, <2>2 DEF Checks_ok, HasBlock
  <2>3. ASSUME NEW i \in 1 .. Len(stack'), stack'[i].kind = "wait"
        PROVE  blocks'[stack'[i].block].exit # {}
    BY <1>4, <2>3 DEF Checks_ok, HasBlock
  <2>4. ASSUME NEW i \in 1 .. Len(stack'), NEW j \in 1 .. Len(stack'), i < j,
               HasBlock(stack'[i]), HasBlock(stack'[j])
        PROVE  stack'[i].block # stack'[j].block
    BY <1>4, <2>4 DEF Checks_ok
  <2> QED  BY <2>1, <2>2, <2>3, <2>4 DEF Checks_ok
<1>7. Super_ok'
  <2>1. Top'.super = b
    BY DEF Top
  <2>2. ASSUME NEW j \in 1 .. Len(blocks'), j # b  PROVE block_id' \notin blocks'[j].exit
    BY <1>1, <1>3, <2>2
  <2>3. ASSUME NEW i \in 1 .. Len(stack'), HasBlock(stack'[i])
        PROVE  stack'[i].block # b /\ block_id' \notin stack'[i].starts
    BY <1>1, <1>4, <2>3
  <2> QED  BY <1>1, <1>2, <2>1, <2>2, <2>3 DEF Super_ok
<1> QED  BY <1>5, <1>6, <1>7 DEF Numbered

-----------------------------------------------------------------------------
(* Every step of the compiler keeps it.                                     *)
LEMMA OpIs ==
    ASSUME NEW do \in Kinds, NEW n \in Int, NEW r \in Int, NEW meant \in Seq(Int), NEW w \in Int
    PROVE  /\ Op(do, n, r, meant, w) \in Operation
           /\ Op(do, n, r, meant, w).do = do /\ Op(do, n, r, meant, w).node = n
           /\ Op(do, n, r, meant, w).reads = r /\ Op(do, n, r, meant, w).meant = meant
           /\ Op(do, n, r, meant, w).writes = w
BY DEF Op, Operation, Kinds

(* What a fast expression reads is nothing, or the slot of a name that is   *)
(* in scope and meant.                                                      *)
LEMMA ReadsIs ==
    ASSUME Typed, Scopes, NEW r \in Reads
    PROVE  /\ r.slot \in Int /\ r.meant \in Seq(Int)
           /\ \/ r.slot = NoNode /\ r.meant = << >>
              \/ \E x \in DOMAIN scope : r.slot = slot_of[x] /\ r.meant = << scope[x] >>
<1>1. CASE r = [slot |-> NoNode, meant |-> << >>]
  BY <1>1 DEF NoNode
<1>2. ASSUME NEW x \in DOMAIN scope, r = [slot |-> slot_of[x], meant |-> << scope[x] >>]
      PROVE  r.slot \in Int /\ r.meant \in Seq(Int) /\ r.slot = slot_of[x]
             /\ r.meant = << scope[x] >>
  <2>1. slot_of[x] \in Nat /\ scope[x] \in Nat
    BY <1>2 DEF Typed, Bindings, Scopes
  <2> QED  BY <1>2, <2>1
<1> QED  BY <1>1, <1>2 DEF Reads

(* The next slot is a number, and the first that is not used.               *)
LEMMA NextIndexTyped ==
    ASSUME Wellformed
    PROVE  NextIndex(slot_of) \in Nat /\ UsedIn(slot_of, NextIndex(slot_of))
<1>1. PICK n \in Nat : UsedIn(slot_of, n)
  BY DEF Wellformed, Counts
<1> QED  BY <1>1, NextIndexIs DEF Wellformed, Typed

(* A step that replaces the top touches no open check.                      *)
LEMMA ReplacedBlocks ==
    ASSUME Shape(stack'), NEW m, Keeps(stack, stack', m), Len(stack') = m + 1
    PROVE  SameBlocks
<1>1. m \in Nat /\ m < Len(stack) /\ \A i \in 1 .. m : stack'[i] = stack[i]
  BY DEF Keeps
<1>2. ~HasBlock(stack'[m + 1])
  BY DEF Shape, Atop, HasBlock
<1> QED  BY <1>1, <1>2 DEF SameBlocks, Keeps

(* A step that opens a frame touches no open check, unless it opens one.    *)
LEMMA OpenedBlocks ==
    ASSUME Shape(stack'), NEW m, Keeps(stack, stack', m), Len(stack') = m + 2,
           ~HasBlock(stack'[m + 1])
    PROVE  SameBlocks
<1>1. m \in Nat /\ m < Len(stack) /\ \A i \in 1 .. m : stack'[i] = stack[i]
  BY DEF Keeps
<1>2. ~HasBlock(stack'[m + 2])
  BY DEF Shape, Atop, HasBlock
<1> QED  BY <1>1, <1>2 DEF SameBlocks, Keeps

BlocksSame == UNCHANGED << block_id, blocks, branch_switch >>

(* A step that writes one block, joins one or writes none keeps the types.  *)
LEMMA TypedKept ==
    ASSUME Typed, nodes' \in Nat, frontier' \subseteq Nat, ends' \subseteq Nat,
           scope' \in Bindings, slot_of' \in Bindings, jump_args_base' \in Nat,
           \/ BlocksSame
           \/ \E ops, ex : Emitted(ops, ex)
           \/ \E op : Joined(op)
    PROVE  Typed'
<1>1. CASE BlocksSame
  BY <1>1 DEF Typed, BlocksSame
<1>2. CASE \E ops, ex : Emitted(ops, ex)
  BY <1>2 DEF Typed, Emitted
<1>3. CASE \E op : Joined(op)
  BY <1>3 DEF Typed, Joined
<1> QED  BY <1>1, <1>2, <1>3

(* Binding a name keeps the types of scope and slots.                       *)
LEMMA BoundTyped ==
    ASSUME Wellformed, NEW x \in Names, NEW v \in Nat, Bound(x, v)
    PROVE  scope' \in Bindings /\ slot_of' \in Bindings
BY NextIndexTyped, OverrideIs DEF Wellformed, Typed, Bound

(* The invariant from its parts.                                            *)
LEMMA WellformedFrom ==
    ASSUME Wellformed, phase = "compile", phase' = "compile", Typed', Kept, Numbered
    PROVE  Wellformed'
BY DEF Wellformed, Kept, Numbered

(* A fast expression, alone or as a let, goes on with its value and writes  *)
(* one operation, into the super-block or a block of its own.               *)
LEMMA FastKeeps ==
    ASSUME Wellformed, phase = "compile", UNCHANGED << phase, ends, jump_args_base >>,
           WantsExpression,
           NEW op \in Operation, op.node = nodes + 1, Written(nodes + 1), frontier' = {nodes + 1},
           NEW k \in {0, 1},
           EmitFast(IF k = 0 THEN stack ELSE Counted(stack, k), op),
           \/ k = 0 /\ UNCHANGED << scope, slot_of >>
           \/ k = 1 /\ Top.kind = "list" /\ \E x \in Names : CanBind(x) /\ Bound(x, nodes + 1)
    PROVE  /\ Goes(stack', op.node, k) /\ Kept /\ SameBlocks
           /\ IF Joins THEN Super /\ Joined(op) ELSE Emitted(<< op >>, {block_id + 1})
           /\ Wellformed'
<1> DEFINE s == IF k = 0 THEN stack ELSE Counted(stack, k)
           L == Len(stack)
<1>1. /\ Typed /\ Shape(stack) /\ Super_ok /\ nodes + 1 \in Nat /\ nodes + 1 \in Int
      /\ block_id \in Nat /\ L \in Nat /\ L > 0 /\ Atop(Top)
  BY ShapeTop DEF Wellformed, Typed, Top
<1>2. /\ Goes(stack', op.node, k)
      /\ Top.kind = "list" => stack'[L].super = IF Joins THEN Top.super ELSE Len(blocks) + 1
  <2>1. op.node \in Int /\ k \in Nat /\ Top.kind # "wait" /\ (k # 0 => Top.kind = "list")
    BY <1>1 DEF Atop
  <2>2. EmitFast(s, op)
    OBVIOUS
  <2> HIDE DEF s
  <2>3. s = IF k = 0 THEN stack ELSE Counted(stack, k)
    BY DEF s
  <2> QED  BY <1>1, <2>1, <2>2, <2>3, EmitFastGoes
<1>3. Kept
  <2>1. op.node \in Nat
    BY <1>1
  <2> QED  BY <1>2, <2>1, GoesKept
<1>4. Keeps(stack, stack', L - 1) /\ Len(stack') = L /\ Shape(stack')
  BY <1>2, <1>3 DEF Goes, Kept
<1>5. SameBlocks
  <2> DEFINE m == L - 1
  <2>1. Keeps(stack, stack', m) /\ Len(stack') = m + 1
    BY <1>1, <1>4
  <2> HIDE DEF m
  <2> QED  BY <1>4, <2>1, ReplacedBlocks
<1>6. Top'.kind = Top.kind
  <2>1. CASE Top.kind = "list"
    BY <1>2, <1>4, <2>1 DEF Goes, ListFrame, Top
  <2>2. CASE Top.kind # "list"
    <3>1. stack'[L] = Given(Top, op.node) /\ Top \in Frame /\ op.node \in Int /\ Top.kind # "wait"
      BY <1>1, <1>2, <1>4, <2>2, ShapeTop DEF Goes, Atop, Top
    <3>2. Like(stack'[L], Top)
      BY <3>1, GivenIs
    <3> QED  BY <1>4, <3>2 DEF Like, Top
  <2> QED  BY <2>1, <2>2
<1>7. nodes' \in Nat /\ frontier' \subseteq Nat /\ ends' \subseteq Nat /\ jump_args_base' \in Nat
  BY <1>1 DEF Written, Typed
<1>8. scope' \in Bindings /\ slot_of' \in Bindings
  <2>1. CASE UNCHANGED << scope, slot_of >>
    BY <1>1, <2>1 DEF Typed
  <2>2. ASSUME NEW x \in Names, Bound(x, nodes + 1)
        PROVE  scope' \in Bindings /\ slot_of' \in Bindings
    BY <1>1, <2>2, BoundTyped
  <2> QED  BY <2>1, <2>2
<1>9. CASE Joins
  <2>1. Super
    BY <1>9 DEF Joins, Super, WantsExpression, WantsStatement
  <2>2. Joined(op)
    BY <1>1, <2>1, JoinIs
  <2>3. Typed'
    BY <1>1, <1>7, <1>8, <2>2, TypedKept
  <2>4. Numbered
    BY <1>2, <1>4, <1>5, <1>9, <2>1, <2>2, NumbersJoin DEF Super
  <2>5. Wellformed'
    BY <1>3, <2>3, <2>4, WellformedFrom
  <2> QED  BY <1>2, <1>3, <1>5, <1>9, <2>1, <2>2, <2>5
<1>10. CASE ~Joins
  <2> DEFINE ops == << op >>
             ex == {block_id + 1}
  <2>1. Emit(ops, ex)
    BY <1>10 DEF EmitFast
  <2>2. ops \in Seq(Operation) /\ Len(ops) > 0 /\ ex \in SUBSET Nat /\ ex \subseteq 0 .. block_id + 1
    BY <1>1
  <2> HIDE DEF ops, ex
  <2>3. Emitted(ops, ex)
    BY <1>1, <2>1, <2>2, EmitIs
  <2>4. Typed'
    BY <1>1, <1>7, <1>8, <2>3, TypedKept
  <2>5. Super' => stack'[Len(stack')].super = Len(blocks) + 1 /\ ex = {block_id + 1}
    BY <1>2, <1>4, <1>6, <1>10 DEF Super, ex
  <2>6. Numbered
    BY <1>5, <2>2, <2>3, <2>5, NumbersEmit
  <2>7. Wellformed'
    BY <1>3, <2>4, <2>6, WellformedFrom
  <2> QED  BY <1>2, <1>3, <1>5, <1>10, <2>3, <2>7 DEF ops, ex
<1> QED  BY <1>9, <1>10

\* What an expression's step adds: its operation, and its value to the handler on top.
Added(op, k) ==
    /\ Goes(stack', op.node, k) /\ SameBlocks
    /\ IF Joins THEN Super /\ Joined(op) ELSE Emitted(<< op >>, {block_id + 1})
Fetch(r) == Op("temp", nodes + 1, r.slot, r.meant, NoNode)
SetTo(r) == Op("set", nodes + 1, r.slot, r.meant, NextIndex(slot_of))

(* Pure keeps the invariant and adds the fetch of one value.                *)
LEMMA PureKeeps ==
    ASSUME Wellformed, Pure
    PROVE  Wellformed' /\ \E r \in Reads : Added(Fetch(r), 0)
<1>1. PICK r \in Reads : EmitFast(stack, Op("temp", nodes + 1, r.slot, r.meant, NoNode))
  BY DEF Pure
<1> DEFINE op == Op("temp", nodes + 1, r.slot, r.meant, NoNode)
<1>2. op \in Operation /\ op.node = nodes + 1
  <2>1. r.slot \in Int /\ r.meant \in Seq(Int) /\ nodes + 1 \in Int /\ NoNode \in Int
    BY ReadsIs DEF Wellformed, Typed, NoNode
  <2> DEFINE n == nodes + 1
  <2>2. n \in Int
    BY <2>1
  <2> HIDE DEF n
  <2>3. Op("temp", n, r.slot, r.meant, NoNode) \in Operation
        /\ Op("temp", n, r.slot, r.meant, NoNode).node = n
    BY <2>1, <2>2 DEF Op, Operation, Kinds
  <2> QED  BY <2>3 DEF n
<1> HIDE DEF op
<1>3. EmitFast(IF 0 = 0 THEN stack ELSE Counted(stack, 0), op)
  BY <1>1 DEF op
<1>4. /\ phase = "compile" /\ UNCHANGED << phase, ends, jump_args_base >> /\ WantsExpression
      /\ Written(nodes + 1) /\ frontier' = {nodes + 1} /\ UNCHANGED << scope, slot_of >>
  BY DEF Pure, Room
<1>5. Added(op, 0) /\ Wellformed'
  BY <1>2, <1>3, <1>4, FastKeeps DEF Added
<1> QED  BY <1>5 DEF op, Fetch

(* PureLet keeps the invariant and adds one operation that sets a new slot. *)
LEMMA PureLetKeeps ==
    ASSUME Wellformed, PureLet
    PROVE  /\ Wellformed'
           /\ \E x \in Names, r \in Reads :
                 CanBind(x) /\ Bound(x, nodes + 1) /\ Added(SetTo(r), 1)
<1>1. PICK x \in Names, r \in Reads :
        /\ CanBind(x) /\ Insert(x, nodes + 1)
        /\ EmitFast(Counted(stack, 1), Op("set", nodes + 1, r.slot, r.meant, NextIndex(slot_of)))
  BY DEF PureLet
<1> DEFINE op == Op("set", nodes + 1, r.slot, r.meant, NextIndex(slot_of))
<1>2. op \in Operation /\ op.node = nodes + 1
  <2>1. r.slot \in Int /\ r.meant \in Seq(Int) /\ nodes + 1 \in Int /\ NextIndex(slot_of) \in Int
    BY ReadsIs, NextIndexTyped DEF Wellformed, Typed
  <2> DEFINE n == nodes + 1
             w == NextIndex(slot_of)
  <2>2. n \in Int /\ w \in Int
    BY <2>1
  <2> HIDE DEF n, w
  <2>3. Op("set", n, r.slot, r.meant, w) \in Operation
        /\ Op("set", n, r.slot, r.meant, w).node = n
    BY <2>1, <2>2 DEF Op, Operation, Kinds
  <2> QED  BY <2>3 DEF n, w
<1> HIDE DEF op
<1>3. EmitFast(IF 1 = 0 THEN stack ELSE Counted(stack, 1), op)
  BY <1>1 DEF op
<1>4. /\ phase = "compile" /\ UNCHANGED << phase, ends, jump_args_base >>
      /\ WantsExpression /\ Top.kind = "list"
      /\ Written(nodes + 1) /\ frontier' = {nodes + 1} /\ CanBind(x) /\ Bound(x, nodes + 1)
  BY <1>1 DEF PureLet, Room, WantsExpression, WantsStatement, Insert, Bound
<1>5. Added(op, 1) /\ Wellformed'
  BY <1>2, <1>3, <1>4, FastKeeps DEF Added
<1> QED  BY <1>4, <1>5 DEF op, SetTo

(* A fused call or a literal keeps the invariant and writes one block.      *)
LEMMA OwnBlockKeeps ==
    ASSUME Wellformed, NEW r \in Reads, OwnBlock(r)
    PROVE  /\ Wellformed' /\ Goes(stack', nodes + 1, 0) /\ SameBlocks
           /\ Emitted(<< Fetch(r) >>, {block_id + 1})
<1> DEFINE op == Op("temp", nodes + 1, r.slot, r.meant, NoNode)
           L == Len(stack)
           ops == << op >>
           ex == {block_id + 1}
<1>1. /\ Typed /\ Shape(stack) /\ nodes + 1 \in Nat /\ nodes + 1 \in Int
      /\ block_id \in Nat /\ L \in Nat /\ L > 0 /\ Atop(Top)
  BY ShapeTop DEF Wellformed, Typed, Top
<1>2. op \in Operation /\ op.node = nodes + 1
  <2>1. r.slot \in Int /\ r.meant \in Seq(Int) /\ nodes + 1 \in Int /\ NoNode \in Int
    BY ReadsIs DEF Wellformed, Typed, NoNode
  <2> DEFINE n == nodes + 1
  <2>2. n \in Int
    BY <2>1
  <2> HIDE DEF n
  <2>3. Op("temp", n, r.slot, r.meant, NoNode) \in Operation
        /\ Op("temp", n, r.slot, r.meant, NoNode).node = n
    BY <2>1, <2>2 DEF Op, Operation, Kinds
  <2> QED  BY <2>3 DEF n
<1> HIDE DEF op
<1>3. /\ phase = "compile" /\ UNCHANGED << phase, ends, jump_args_base >> /\ WantsExpression
      /\ nodes' = nodes + 1 /\ frontier' = {nodes + 1} /\ UNCHANGED << scope, slot_of >>
      /\ Emit(ops, ex) /\ stack' = Give(stack, nodes + 1)
  BY DEF OwnBlock, Room, op, Written
<1>4. /\ Goes(stack', nodes + 1, 0)
      /\ Top.kind = "list" => stack'[L].super = 0
  BY <1>1, <1>3, GiveGoes DEF Atop
<1>5. Kept
  BY <1>1, <1>3, <1>4, GoesKept
<1>6. Keeps(stack, stack', L - 1) /\ Len(stack') = L /\ Shape(stack')
  BY <1>4, <1>5 DEF Goes, Kept
<1>7. SameBlocks
  <2> DEFINE m == L - 1
  <2>1. Keeps(stack, stack', m) /\ Len(stack') = m + 1
    BY <1>1, <1>6
  <2> HIDE DEF m
  <2> QED  BY <1>6, <2>1, ReplacedBlocks
<1>8. ~Super'
  <2>1. CASE Top.kind = "list"
    BY <1>4, <1>6, <2>1 DEF Super, Top
  <2>2. CASE Top.kind # "list"
    <3>1. stack'[L] = Given(Top, nodes + 1) /\ Top \in Frame /\ Top.kind # "wait"
      BY <1>1, <1>4, <1>6, <2>2, ShapeTop DEF Goes, Atop, Top
    <3>2. Like(stack'[L], Top)
      BY <1>1, <3>1, GivenIs
    <3> QED  BY <1>6, <2>2, <3>2 DEF Like, Super, Top
  <2> QED  BY <2>1, <2>2
<1>9. ops \in Seq(Operation) /\ Len(ops) > 0 /\ ex \in SUBSET Nat /\ ex \subseteq 0 .. block_id + 1
  BY <1>1, <1>2
<1> HIDE DEF ops, ex
<1>10. Emitted(ops, ex)
  BY <1>1, <1>3, <1>9, EmitIs
<1>11. nodes' \in Nat /\ frontier' \subseteq Nat /\ ends' \subseteq Nat /\ jump_args_base' \in Nat
       /\ scope' \in Bindings /\ slot_of' \in Bindings
  BY <1>1, <1>3 DEF Typed
<1>12. Typed'
  BY <1>1, <1>10, <1>11, TypedKept
<1>13. Numbered
  BY <1>7, <1>8, <1>9, <1>10, NumbersEmit
<1>14. Wellformed'
  BY <1>3, <1>5, <1>12, <1>13, WellformedFrom
<1> QED  BY <1>4, <1>7, <1>10, <1>14 DEF ops, ex, op, Fetch

(* What the other steps have in common: the stack changes above m, and what *)
(* is written there is no block that is still open.                         *)
Writes == \E ops, ex : Emitted(ops, ex) /\ Len(ops) > 0 /\ ex \subseteq 0 .. block_id + 1

(* What a step must show that ends no super-block of its own.               *)
LEMMA StepKeeps ==
    ASSUME Wellformed, phase = "compile", phase' = "compile",
           NEW m, Keeps(stack, stack', m),
           Len(stack) \in {m + 1, m + 2, m + 3}, Len(stack') \in {m + 1, m + 2, m + 3},
           \/ Sums(m, 0) /\ slot_of' = slot_of
           \/ Sums(m, 1) /\ \E x \in Names : slot_of' = Override(slot_of, {x}, NextIndex(slot_of)),
           Shape(stack'), Bases', Changed', Scopes', Typed', SameBlocks, ~Super',
           UNCHANGED << block_id, blocks >> \/ Writes
    PROVE  Wellformed'
<1>1. Counts'
  BY CountsKept DEF Wellformed
<1>2. Numbered
  <2>1. CASE UNCHANGED << block_id, blocks >>
    BY <2>1, NumbersSame
  <2>2. CASE Writes
    BY <2>2, NumbersEmit DEF Writes
  <2> QED  BY <2>1, <2>2
<1> QED  BY <1>1, <1>2, WellformedFrom DEF Kept

(* The frames that remain are those that were there.                        *)
Alike(f, g) ==
    /\ g.kind = f.kind
    /\ g.kind = "when" => g.scope = f.scope
    /\ g.kind = "let"  => g.name = f.name
    /\ g.kind = "call" => g.base = f.base /\ g.count = f.count

(* Replacing a frame by one like it changes no scope, name or range.        *)
LEMMA ReplacedSame ==
    ASSUME NEW m, NEW g, Replaces(m, g), Alike(stack[m + 1], g)
    PROVE  SameWhens /\ SameLets /\ SameCalls
<1>1. m \in Nat /\ m < Len(stack) /\ \A i \in 1 .. m : stack'[i] = stack[i]
  BY DEF Replaces, Keeps
<1>2. ASSUME NEW i \in 1 .. Len(stack')
      PROVE  i \in 1 .. Len(stack) /\ (i = m + 1 \/ stack'[i] = stack[i])
  <2>1. Len(stack') = m + 1
    BY DEF Replaces
  <2> QED  BY <1>1, <2>1 DEF Replaces, Keeps
<1>3. stack'[m + 1] = g
  BY DEF Replaces
<1> QED  BY <1>2, <1>3 DEF SameWhens, SameLets, SameCalls, Alike

(* Opening a frame changes none of those below.                             *)
LEMMA OpenedSame ==
    ASSUME NEW m, NEW g, NEW h, Opens(m, g, h), Alike(stack[m + 1], g), stack \in Seq(Frame)
    PROVE  /\ \A i \in 1 .. Len(stack') : i # m + 2 =>
                /\ i \in 1 .. Len(stack) /\ Alike(stack[i], stack'[i])
           /\ h.kind \notin {"when", "let", "call"} => SameWhens /\ SameLets /\ SameCalls
<1>1. m \in Nat /\ m < Len(stack) /\ \A i \in 1 .. m : stack'[i] = stack[i]
  BY DEF Opens, Keeps
<1>2. ASSUME NEW i \in 1 .. Len(stack'), i # m + 2
      PROVE  i \in 1 .. Len(stack) /\ Alike(stack[i], stack'[i])
  <2>1. Len(stack') = m + 2 /\ stack'[m + 1] = g /\ Len(stack) \in Nat
    BY DEF Opens
  <2>2. i \in 1 .. Len(stack)
    BY <1>1, <1>2, <2>1
  <2>3. CASE i = m + 1
    BY <2>1, <2>2, <2>3
  <2>4. CASE i \in 1 .. m
    BY <1>1, <2>2, <2>4 DEF Alike
  <2> QED  BY <1>1, <1>2, <2>1, <2>2, <2>3, <2>4
<1>3. stack'[m + 2] = h
  BY DEF Opens
<1> QED  BY <1>2, <1>3 DEF SameWhens, SameLets, SameCalls, Alike

(* FusedSelf keeps the invariant and writes one block without exit.         *)
LEMMA FusedSelfKeeps ==
    ASSUME Wellformed, FusedSelf
    PROVE  /\ Wellformed' /\ SameBlocks
           /\ Emitted(<< Op("self", nodes + 1, NoNode, << >>, NoNode) >>, {})
           /\ Replaces(Len(stack) - 1, Ended(Top)) /\ Top \in ListFrame
<1> DEFINE L == Len(stack)
           m == L - 1
           op == Op("self", nodes + 1, NoNode, << >>, NoNode)
           ops == << op >>
           ex == {}
           g == Ended(Top)
<1>1. /\ Typed /\ Shape(stack) /\ block_id \in Nat /\ L \in Nat /\ L > 0 /\ stack \in Seq(Frame)
  BY ShapeTop DEF Wellformed, Typed
<1>2. /\ phase = "compile" /\ phase' = "compile" /\ frontier' = {} /\ ends' = ends \cup {nodes + 1}
      /\ nodes' = nodes + 1 /\ Emit(ops, ex)
      /\ UNCHANGED << scope, slot_of, jump_args_base >>
  BY DEF FusedSelf, Room, Written
<1>3. /\ Top \in ListFrame /\ Replaces(m, g) /\ Shape(stack') /\ Sums(m, 0)
  BY <1>1, FusedSelfStack
<1>4. g \in ListFrame /\ g.terminal /\ Like(g, Top) /\ g.kind = "list" /\ Top.kind = "list"
  BY <1>3, EndedIs DEF ListFrame
<1>5. op \in Operation
  <2> DEFINE n == nodes + 1
  <2>1. n \in Int /\ NoNode \in Int
    BY <1>1 DEF Typed, NoNode
  <2> HIDE DEF n
  <2>2. Op("self", n, NoNode, << >>, NoNode) \in Operation
    BY <2>1 DEF Op, Operation, Kinds
  <2> QED  BY <2>2 DEF n
<1> HIDE DEF op, g
<1>6. ops \in Seq(Operation) /\ Len(ops) > 0 /\ ex \in SUBSET Nat /\ ex \subseteq 0 .. block_id + 1
  BY <1>5
<1> HIDE DEF ops, ex
<1>7. Emitted(ops, ex) /\ Writes
  BY <1>1, <1>2, <1>6, EmitIs DEF Writes
<1>8. Typed'
  <2>1. nodes' \in Nat /\ frontier' \subseteq Nat /\ ends' \subseteq Nat
        /\ jump_args_base' \in Nat /\ scope' \in Bindings /\ slot_of' \in Bindings
    BY <1>1, <1>2 DEF Typed
  <2> QED  BY <1>1, <1>7, <2>1, TypedKept
<1>9. /\ Len(stack) = m + 1 /\ stack[m + 1] = Top /\ Keeps(stack, stack', m)
      /\ Len(stack') = m + 1 /\ stack'[m + 1] = g /\ Top' = g
  BY <1>1, <1>3 DEF Replaces, Top
<1> HIDE DEF m
<1>10. SameWhens /\ SameLets /\ SameCalls
  BY <1>3, <1>4, <1>9, ReplacedSame DEF Alike
<1>11. Bases' /\ Scopes' /\ Changed' /\ ~Super' /\ SameBlocks
  BY <1>2, <1>3, <1>4, <1>9, <1>10, BasesKept, ScopesKept, ReplacedBlocks
     DEF Wellformed, Changed, Super
<1>12. Wellformed'
  BY <1>1, <1>2, <1>3, <1>7, <1>8, <1>9, <1>11, StepKeeps
<1> QED  BY <1>3, <1>7, <1>11, <1>12 DEF ops, ex, op, m, g

\* The operation of a closing step, and its block.
LEMMA OneOp ==
    ASSUME Typed, NEW do \in Kinds, NEW n \in Int, NEW r \in Int, NEW v \in Seq(Int),
           NEW w \in Int, NEW ex \in SUBSET (0 .. block_id + 1), Emit(<< Op(do, n, r, v, w) >>, ex)
    PROVE  Emitted(<< Op(do, n, r, v, w) >>, ex) /\ Writes
<1> DEFINE ops == << Op(do, n, r, v, w) >>
<1>1. ops \in Seq(Operation) /\ Len(ops) > 0 /\ Emit(ops, ex)
  BY OpIs
<1> HIDE DEF ops
<1>2. ex \in SUBSET Nat
  BY DEF Typed
<1>3. Emitted(ops, ex)
  BY <1>1, <1>2, EmitIs
<1>4. Writes
  BY <1>1, <1>3 DEF Writes
<1> QED  BY <1>3, <1>4 DEF ops

(* CloseLet keeps the invariant and writes the block that saves the value.  *)
LEMMA CloseLetKeeps ==
    ASSUME Wellformed, CloseLet
    PROVE  /\ Emitted(<< Op("save", NoNode, NoNode, << Top.value >>, NextIndex(slot_of)) >>,
                      {block_id + 1})
           /\ SameBlocks /\ Wellformed'
<1> DEFINE L == Len(stack)
           m == L - 2
           w == NextIndex(slot_of)
           ex == {block_id + 1}
           g == CountedFrame(Under, 1)
<1>1. /\ Typed /\ Shape(stack) /\ block_id \in Nat /\ L \in Nat /\ stack \in Seq(Frame)
      /\ FrameOK(Top) /\ w \in Nat
  BY ShapeTop, NextIndexTyped DEF Wellformed, Typed, Top
<1>2. /\ phase = "compile" /\ phase' = "compile" /\ Top.kind = "let"
      /\ Emit(<< Op("save", NoNode, NoNode, << Top.value >>, w) >>, ex)
      /\ Bound(Top.name, Top.value)
      /\ UNCHANGED << nodes, frontier, ends, jump_args_base >>
  BY DEF CloseLet, Insert, Bound
<1>3. /\ L > 1 /\ Top \in LetFrame /\ Top.value # NoNode /\ Under \in ListFrame
      /\ ~Under.terminal /\ Under.super = 0 /\ Replaces(m, g) /\ Shape(stack') /\ Sums(m, 1)
  BY <1>1, CloseLetStack
<1>4. Top.value \in Nat /\ Top.name \in Names /\ Top.value \in Int
  BY <1>1, <1>2, <1>3 DEF FrameOK, LetFrame
<1>5. /\ FrameOK(Under) /\ Under.kind = "list" /\ ~Under.changed
      /\ g.kind = "list" /\ g.super = 0 /\ ~g.changed
  <2>1. FrameOK(Under)
    BY <1>1, <1>3, ShapeTop DEF Under
  <2> QED  BY <1>3, <2>1 DEF FrameOK, ListFrame, CountedFrame
<1> HIDE DEF g
<1>6. Emitted(<< Op("save", NoNode, NoNode, << Top.value >>, w) >>, ex) /\ Writes
  <2>1. << Top.value >> \in Seq(Int) /\ NoNode \in Int /\ w \in Int /\ "save" \in Kinds
        /\ ex \in SUBSET (0 .. block_id + 1)
    BY <1>1, <1>4 DEF NoNode, Kinds
  <2> HIDE DEF w, ex
  <2> QED  BY <1>1, <1>2, <2>1, OneOp
<1>7. CanBind(Top.name)
  BY <1>1, <1>2, <1>3 DEF Wellformed, Scopes, Top
<1>8. Typed'
  <2>1. scope' \in Bindings /\ slot_of' \in Bindings
    BY <1>2, <1>4, BoundTyped
  <2>2. nodes' \in Nat /\ frontier' \subseteq Nat /\ ends' \subseteq Nat /\ jump_args_base' \in Nat
    BY <1>1, <1>2 DEF Typed
  <2> QED  BY <1>1, <1>6, <2>1, <2>2, TypedKept
<1>9. /\ Len(stack) = m + 2 /\ stack[m + 1] = Under /\ Keeps(stack, stack', m)
      /\ Len(stack') = m + 1 /\ stack'[m + 1] = g /\ Top' = g
  BY <1>1, <1>3 DEF Replaces, Top, Under
<1> HIDE DEF m
<1>10. SameWhens /\ SameLets /\ SameCalls
  BY <1>3, <1>5, <1>9, ReplacedSame DEF Alike
<1>11. \A i \in 1 .. Len(stack') : stack'[i].kind # "let"
  BY <1>3, <1>5, <1>9, ListOnTop
<1>12. Scopes'
  BY <1>1, <1>2, <1>4, <1>7, <1>10, <1>11, ScopesBound DEF Wellformed, Bound
<1>13. Bases' /\ Changed' /\ ~Super' /\ SameBlocks
  BY <1>2, <1>3, <1>5, <1>9, <1>10, BasesKept, ReplacedBlocks DEF Wellformed, Changed, Super
<1>14. slot_of' = Override(slot_of, {Top.name}, NextIndex(slot_of))
  BY <1>2 DEF Bound
<1>15. Wellformed'
  BY <1>2, <1>3, <1>4, <1>6, <1>8, <1>9, <1>12, <1>13, <1>14, StepKeeps
<1> QED  BY <1>6, <1>13, <1>15

(* OpenLet keeps the invariant and writes nothing.                          *)
LEMMA OpenLetKeeps ==
    ASSUME Wellformed, OpenLet
    PROVE  SameBlocks /\ Wellformed'
<1> DEFINE L == Len(stack)
           m == L - 1
           g == [Top EXCEPT !.super = 0]
<1>1. /\ Typed /\ Shape(stack) /\ L \in Nat /\ L > 0 /\ stack \in Seq(Frame)
  BY ShapeTop DEF Wellformed, Top
<1>2. /\ phase = "compile" /\ phase' = "compile"
      /\ UNCHANGED << nodes, frontier, ends, scope, slot_of, jump_args_base, block_id, blocks >>
      /\ BlocksSame
  BY DEF OpenLet, Room, sourceVars, BlocksSame
<1>3. /\ WantsStatement /\ Shape(stack') /\ Sums(m, 0)
      /\ \E x \in Names : CanBind(x) /\ Opens(m, g, LetOf(x))
  BY <1>1, OpenLetStack
<1>4. PICK x \in Names : CanBind(x) /\ Opens(m, g, LetOf(x))
  BY <1>3
<1>5. Top \in ListFrame /\ Top.kind = "list" /\ g.kind = "list" /\ Alike(Top, g) /\ ~HasBlock(g)
  BY <1>1, <1>3, GivenList DEF ListFrame, Alike, HasBlock, OpenCheck
<1>6. LetOf(x).kind = "let" /\ LetOf(x).name = x
  BY DEF LetOf
<1> HIDE DEF g
<1>7. Typed'
  BY <1>1, <1>2 DEF Typed, BlocksSame
<1>8. /\ Len(stack) = m + 1 /\ stack[m + 1] = Top /\ Keeps(stack, stack', m)
      /\ Len(stack') = m + 2 /\ stack'[m + 1] = g /\ stack'[m + 2] = LetOf(x) /\ Top' = LetOf(x)
  BY <1>1, <1>4 DEF Opens, Top
<1> HIDE DEF m
<1>9. \A i \in 1 .. Len(stack') : i # m + 2 => i \in 1 .. Len(stack) /\ Alike(stack[i], stack'[i])
  BY <1>1, <1>4, <1>5, <1>8, OpenedSame
<1>10. SameWhens /\ SameCalls
  BY <1>6, <1>8, <1>9 DEF SameWhens, SameCalls, Alike
<1>11. Scopes'
  <2>1. ASSUME NEW i \in 1 .. Len(stack'), stack'[i].kind = "let"
        PROVE  i = m + 2
    <3>1. \A j \in 1 .. Len(stack) : stack[j].kind # "let"
      BY <1>1, <1>5, ListOnTop DEF Top
    <3> QED  BY <1>9, <2>1, <3>1 DEF Alike
  <2>2. ASSUME NEW j \in DOMAIN stack', stack'[j].kind = "when"  PROVE x \notin DOMAIN scope'
    <3>1. \E i \in DOMAIN stack : stack[i].kind = "when"
      <4>1. j \in 1 .. Len(stack')
        BY <2>2, <1>3 DEF Shape
      <4> QED  BY <2>2, <4>1, <1>1, <1>10 DEF SameWhens
    <3> QED  BY <1>2, <1>4, <3>1 DEF CanBind
  <2>3. \A i \in 1 .. Len(stack') : stack'[i].kind = "let" =>
            ((\E j \in DOMAIN stack' : stack'[j].kind = "when") => stack'[i].name \notin DOMAIN scope')
    BY <1>6, <1>8, <2>1, <2>2
  <2>4. DOMAIN scope' \subseteq DOMAIN slot_of'
    BY <1>2 DEF Wellformed, Scopes
  <2>5. \A i \in 1 .. Len(stack') : stack'[i].kind = "when" => Extends(scope', stack'[i].scope)
    BY <1>2, <1>10 DEF Wellformed, Scopes, SameWhens
  <2>6. \A i, j \in 1 .. Len(stack') : i < j /\ stack'[i].kind = "when" /\ stack'[j].kind = "when"
            => Extends(stack'[j].scope, stack'[i].scope)
    BY <1>2, <1>10 DEF Wellformed, Scopes, SameWhens
  <2> QED  BY <2>3, <2>4, <2>5, <2>6 DEF Scopes, CanBind
<1>12. Bases' /\ Changed' /\ ~Super' /\ SameBlocks
  BY <1>2, <1>3, <1>5, <1>6, <1>8, <1>10, BasesKept, OpenedBlocks DEF Wellformed, Changed, Super
<1> QED  BY <1>2, <1>3, <1>7, <1>8, <1>11, <1>12, StepKeeps

(* OpenCall keeps the invariant and writes nothing.                         *)
LEMMA OpenCallKeeps ==
    ASSUME Wellformed, OpenCall
    PROVE  SameBlocks /\ Wellformed'
<1> DEFINE L == Len(stack)
           m == L - 1
<1>1. /\ Typed /\ Shape(stack) /\ L \in Nat /\ L > 0 /\ stack \in Seq(Frame) /\ Top \in Frame
      /\ Bases /\ jump_args_base \in Nat
  BY ShapeTop DEF Wellformed, Top, Typed
<1>2. /\ phase = "compile" /\ phase' = "compile"
      /\ UNCHANGED << nodes, frontier, ends, scope, slot_of, block_id, blocks >>
      /\ BlocksSame
  BY DEF OpenCall, Room, sourceVars, BlocksSame
<1>3. /\ WantsExpression /\ Shape(stack') /\ Sums(m, 0)
      /\ \E count \in Nat, self \in BOOLEAN :
            /\ jump_args_base' = jump_args_base + count
            /\ Opens(m, Caller, CallOf(count, self))
  <2>1. Top.kind = "call" => Top.base + Top.count <= jump_args_base
    BY <1>1 DEF Bases, Top
  <2> QED  BY <1>1, <2>1, OpenCallStack
<1>4. PICK count \in Nat, self \in BOOLEAN :
        jump_args_base' = jump_args_base + count /\ Opens(m, Caller, CallOf(count, self))
  BY <1>3
<1> DEFINE g == Caller
           h == CallOf(count, self)
<1>5. Alike(Top, g) /\ ~HasBlock(g)
  <2>1. CASE WantsStatement
    <3>1. g = [Top EXCEPT !.super = 0] /\ Top \in ListFrame
      BY <1>1, <2>1, GivenList DEF Caller
    <3> QED  BY <3>1 DEF ListFrame, Alike, HasBlock, OpenCheck
  <2>2. CASE ~WantsStatement
    <3>1. g = Top /\ Atop(Top)
      BY <1>1, <2>2, ShapeTop DEF Caller, Top
    <3> QED  BY <3>1 DEF Alike, HasBlock, Atop
  <2> QED  BY <2>1, <2>2
<1>6. h.kind = "call" /\ h.base = jump_args_base /\ h.count = count
  BY DEF CallOf
<1>7. Typed'
  BY <1>1, <1>2, <1>4 DEF Typed, BlocksSame
<1>8. /\ Len(stack) = m + 1 /\ stack[m + 1] = Top /\ Keeps(stack, stack', m)
      /\ Len(stack') = m + 2 /\ stack'[m + 1] = g /\ stack'[m + 2] = h /\ Top' = h
  BY <1>1, <1>4 DEF Opens, Top
<1> HIDE DEF m, g, h
<1>9. \A i \in 1 .. Len(stack') : i # m + 2 => i \in 1 .. Len(stack) /\ Alike(stack[i], stack'[i])
  BY <1>1, <1>4, <1>5, <1>8, OpenedSame DEF g
<1>10. SameWhens /\ SameLets
  BY <1>6, <1>8, <1>9 DEF SameWhens, SameLets, Alike
<1>11. Bases'
  <2>1. ASSUME NEW i \in 1 .. Len(stack'), stack'[i].kind = "call"
        PROVE  stack'[i].base + stack'[i].count <= jump_args_base'
    <3>1. CASE i = m + 2
      BY <1>1, <1>4, <1>6, <1>8, <3>1
    <3>2. CASE i # m + 2
      <4>1. /\ i \in 1 .. Len(stack) /\ stack[i].kind = "call"
            /\ stack'[i].base = stack[i].base /\ stack'[i].count = stack[i].count
        BY <1>9, <2>1, <3>2 DEF Alike
      <4>2. stack[i] \in CallFrame
        BY <1>1, <4>1, FrameKinds
      <4>3. stack[i].base \in Nat /\ stack[i].count \in Nat
            /\ stack[i].base + stack[i].count <= jump_args_base
        BY <1>1, <4>1, <4>2 DEF CallFrame, Bases
      <4> QED  BY <1>1, <1>4, <4>1, <4>3
    <3> QED  BY <3>1, <3>2
  <2> QED  BY <2>1 DEF Bases
<1>12. Scopes' /\ Changed' /\ ~Super' /\ SameBlocks
  BY <1>2, <1>3, <1>5, <1>6, <1>8, <1>10, ScopesKept, OpenedBlocks DEF Wellformed, Changed, Super
<1> QED  BY <1>2, <1>3, <1>7, <1>8, <1>11, <1>12, StepKeeps

(* StageArg keeps the invariant and writes the block that stages.           *)
LEMMA StageArgKeeps ==
    ASSUME Wellformed, StageArg
    PROVE  /\ Emitted(<< Op("stage", NoNode, NoNode, << Top.value >>, Top.base + Len(Top.args)) >>,
                      {block_id + 1})
           /\ SameBlocks /\ Wellformed'
<1> DEFINE L == Len(stack)
           m == L - 1
           w == Top.base + Len(Top.args)
           ex == {block_id + 1}
           g == Staged
<1>1. /\ Typed /\ Shape(stack) /\ block_id \in Nat /\ L \in Nat /\ L > 0 /\ stack \in Seq(Frame)
  BY ShapeTop DEF Wellformed, Typed
<1>2. /\ phase = "compile" /\ phase' = "compile" /\ Top.kind = "call"
      /\ Emit(<< Op("stage", NoNode, NoNode, << Top.value >>, w) >>, ex)
      /\ UNCHANGED << nodes, frontier, ends, scope, slot_of, jump_args_base >>
  BY DEF StageArg, sourceVars
<1>3. Top \in CallFrame /\ Replaces(m, g) /\ Shape(stack') /\ Sums(m, 0)
  BY <1>1, StageArgStack
<1>4. Alike(Top, g) /\ g.kind = "call"
  BY <1>3 DEF Staged, CallFrame, Alike
<1> HIDE DEF g
<1>5. Emitted(<< Op("stage", NoNode, NoNode, << Top.value >>, w) >>, ex) /\ Writes
  <2>1. << Top.value >> \in Seq(Int) /\ NoNode \in Int /\ w \in Int /\ "stage" \in Kinds
        /\ ex \in SUBSET (0 .. block_id + 1)
    BY <1>1, <1>3 DEF NoNode, Kinds, CallFrame
  <2> HIDE DEF w, ex
  <2> QED  BY <1>1, <1>2, <2>1, OneOp
<1>6. Typed'
  <2>1. nodes' \in Nat /\ frontier' \subseteq Nat /\ ends' \subseteq Nat /\ jump_args_base' \in Nat
        /\ scope' \in Bindings /\ slot_of' \in Bindings
    BY <1>1, <1>2 DEF Typed
  <2> QED  BY <1>1, <1>5, <2>1, TypedKept
<1>7. /\ Len(stack) = m + 1 /\ stack[m + 1] = Top /\ Keeps(stack, stack', m)
      /\ Len(stack') = m + 1 /\ stack'[m + 1] = g /\ Top' = g
  BY <1>1, <1>3 DEF Replaces, Top
<1> HIDE DEF m
<1>8. SameWhens /\ SameLets /\ SameCalls
  BY <1>3, <1>4, <1>7, ReplacedSame
<1>9. Bases' /\ Scopes' /\ Changed' /\ ~Super' /\ SameBlocks
  BY <1>2, <1>3, <1>4, <1>7, <1>8, BasesKept, ScopesKept, ReplacedBlocks
     DEF Wellformed, Changed, Super
<1>10. Wellformed'
  BY <1>2, <1>3, <1>5, <1>6, <1>7, <1>9, StepKeeps
<1> QED  BY <1>5, <1>9, <1>10

(* KTable keeps the invariant and writes the block that looks up.           *)
LEMMA KTableKeeps ==
    ASSUME Wellformed, KTable
    PROVE  /\ Emitted(<< Op("table", nodes + 1, NoNode, << Top.value >>, NoNode) >>, {block_id + 1})
           /\ SameBlocks /\ Wellformed'
<1> DEFINE L == Len(stack)
           m == L - 2
           n == nodes + 1
           ex == {block_id + 1}
           g == Given(Under, n)
<1>1. /\ Typed /\ Shape(stack) /\ block_id \in Nat /\ L \in Nat /\ stack \in Seq(Frame) /\ n \in Nat
  BY ShapeTop DEF Wellformed, Typed
<1>2. /\ phase = "compile" /\ phase' = "compile" /\ Top.kind = "when"
      /\ Emit(<< Op("table", n, NoNode, << Top.value >>, NoNode) >>, ex)
      /\ nodes' = n /\ frontier' = {n}
      /\ UNCHANGED << ends, scope, slot_of, jump_args_base >>
  BY DEF KTable, Written
<1>3. /\ L > 1 /\ Top \in WhenFrame /\ Under \in ListFrame /\ ~Under.terminal
      /\ Replaces(m, g) /\ Shape(stack') /\ Sums(m, 0)
  BY <1>1, KTableStack
<1>4. Under \in Frame /\ FrameOK(Under) /\ Under.kind = "list"
  BY <1>1, <1>3, ShapeTop DEF Under, ListFrame
<1> HIDE DEF n
<1>5. Alike(Under, g) /\ g.kind = "list" /\ ~g.changed /\ g.super = 0
  <2>1. Like(g, Under) /\ g.super = 0 /\ g.changed = Under.changed
    BY <1>1, <1>4, GivenIs
  <2> QED  BY <1>3, <1>4, <2>1 DEF Alike, Like, FrameOK
<1> HIDE DEF g
<1>6. Emitted(<< Op("table", n, NoNode, << Top.value >>, NoNode) >>, ex) /\ Writes
  <2>1. << Top.value >> \in Seq(Int) /\ NoNode \in Int /\ n \in Int /\ "table" \in Kinds
        /\ ex \in SUBSET (0 .. block_id + 1)
    BY <1>1, <1>3 DEF NoNode, Kinds, WhenFrame
  <2> HIDE DEF ex
  <2> QED  BY <1>1, <1>2, <2>1, OneOp
<1>7. Typed'
  <2>1. nodes' \in Nat /\ frontier' \subseteq Nat /\ ends' \subseteq Nat /\ jump_args_base' \in Nat
        /\ scope' \in Bindings /\ slot_of' \in Bindings
    BY <1>1, <1>2 DEF Typed
  <2> QED  BY <1>1, <1>6, <2>1, TypedKept
<1>8. /\ Len(stack) = m + 2 /\ stack[m + 1] = Under /\ Keeps(stack, stack', m)
      /\ Len(stack') = m + 1 /\ stack'[m + 1] = g /\ Top' = g
  BY <1>1, <1>3 DEF Replaces, Top, Under
<1> HIDE DEF m
<1>9. SameWhens /\ SameLets /\ SameCalls
  BY <1>3, <1>5, <1>8, ReplacedSame
<1>10. Bases' /\ Scopes' /\ Changed' /\ ~Super' /\ SameBlocks
  BY <1>2, <1>3, <1>5, <1>8, <1>9, BasesKept, ScopesKept, ReplacedBlocks
     DEF Wellformed, Changed, Super
<1>11. Wellformed'
  BY <1>2, <1>3, <1>6, <1>7, <1>8, <1>10, StepKeeps
<1> QED  BY <1>6, <1>10, <1>11 DEF n

(* OpenWhen keeps the invariant and writes nothing.                         *)
LEMMA OpenWhenKeeps ==
    ASSUME Wellformed, OpenWhen
    PROVE  SameBlocks /\ Wellformed'
<1> DEFINE L == Len(stack)
           m == L - 1
           g == [Top EXCEPT !.super = 0]
           h == WhenOf
<1>1. /\ Typed /\ Shape(stack) /\ L \in Nat /\ L > 0 /\ stack \in Seq(Frame) /\ Scopes
  BY ShapeTop DEF Wellformed, Top
<1>2. /\ phase = "compile" /\ phase' = "compile"
      /\ UNCHANGED << nodes, frontier, ends, scope, slot_of, jump_args_base, block_id, blocks >>
      /\ BlocksSame
  BY DEF OpenWhen, Room, sourceVars, BlocksSame
<1>3. WantsStatement /\ Shape(stack') /\ Sums(m, 0) /\ Opens(m, g, h)
  BY <1>1, OpenWhenStack
<1>4. Top \in ListFrame /\ Top.kind = "list" /\ g.kind = "list" /\ Alike(Top, g) /\ ~HasBlock(g)
  BY <1>1, <1>3, GivenList DEF ListFrame, Alike, HasBlock, OpenCheck
<1>5. h.kind = "when" /\ h.scope = scope
  BY DEF WhenOf
<1> HIDE DEF g, h
<1>6. Typed'
  BY <1>1, <1>2 DEF Typed, BlocksSame
<1>7. /\ Len(stack) = m + 1 /\ stack[m + 1] = Top /\ Keeps(stack, stack', m)
      /\ Len(stack') = m + 2 /\ stack'[m + 1] = g /\ stack'[m + 2] = h /\ Top' = h
  BY <1>1, <1>3 DEF Opens, Top
<1>8. m + 2 = Len(stack) + 1
  BY <1>1
<1> HIDE DEF m
<1>9. \A i \in 1 .. Len(stack') : i # m + 2 => i \in 1 .. Len(stack) /\ Alike(stack[i], stack'[i])
  BY <1>1, <1>3, <1>4, <1>7, OpenedSame
<1>10. SameLets /\ SameCalls
  BY <1>5, <1>7, <1>9 DEF SameLets, SameCalls, Alike
<1>11. Scopes'
  <2>1. \A i \in 1 .. Len(stack') : stack'[i].kind # "let"
    <3>1. \A j \in 1 .. Len(stack) : stack[j].kind # "let"
      BY <1>1, <1>4, ListOnTop DEF Top
    <3> QED  BY <1>5, <1>7, <1>9, <3>1 DEF Alike
  <2>2. DOMAIN scope' \subseteq DOMAIN slot_of'
    BY <1>1, <1>2 DEF Scopes
  <2>3. ASSUME NEW i \in 1 .. Len(stack'), stack'[i].kind = "when", i # m + 2
        PROVE  /\ i \in 1 .. Len(stack) /\ stack[i].kind = "when"
               /\ stack'[i].scope = stack[i].scope /\ Extends(scope, stack[i].scope)
    BY <1>1, <1>9, <2>3 DEF Alike, Scopes
  <2>4. ASSUME NEW i \in 1 .. Len(stack'), stack'[i].kind = "when"
        PROVE  Extends(scope', stack'[i].scope)
    <3>1. CASE i = m + 2
      BY <1>2, <1>5, <1>7, <3>1 DEF Extends
    <3> QED  BY <1>2, <2>3, <2>4, <3>1
  <2>5. ASSUME NEW i \in 1 .. Len(stack'), NEW j \in 1 .. Len(stack'), i < j,
               stack'[i].kind = "when", stack'[j].kind = "when"
        PROVE  Extends(stack'[j].scope, stack'[i].scope)
    <3>1. i # m + 2
      BY <1>1, <1>7, <1>8, <2>5
    <3>2. CASE j = m + 2
      BY <1>5, <1>7, <2>3, <2>5, <3>1, <3>2
    <3>3. CASE j # m + 2
      BY <1>1, <2>3, <2>5, <3>1, <3>3 DEF Scopes
    <3> QED  BY <3>2, <3>3
  <2> QED  BY <2>1, <2>2, <2>4, <2>5 DEF Scopes
<1>12. Bases' /\ Changed' /\ ~Super' /\ SameBlocks
  BY <1>2, <1>3, <1>4, <1>5, <1>7, <1>10, BasesKept, OpenedBlocks DEF Wellformed, Changed, Super
<1> QED  BY <1>2, <1>3, <1>6, <1>7, <1>11, <1>12, StepKeeps

CallOp == Op(IF Top.self THEN "self" ELSE "call", nodes + 1, Top.base, Top.args, NoNode)
CallExit == IF Top.self THEN {} ELSE {block_id + 1}

(* CloseCall keeps the invariant and writes the block that calls.           *)
LEMMA CloseCallKeeps ==
    ASSUME Wellformed, CloseCall
    PROVE  /\ Emitted(<< CallOp >>, CallExit) /\ CallOp \in Operation
           /\ SameBlocks /\ Wellformed'
<1> DEFINE L == Len(stack)
           m == L - 2
           n == nodes + 1
           g == IF Top.self THEN Ended(Under) ELSE Given(Under, n)
<1>1. /\ Typed /\ Shape(stack) /\ block_id \in Nat /\ L \in Nat /\ stack \in Seq(Frame) /\ n \in Nat
  BY ShapeTop DEF Wellformed, Typed
<1>2. /\ phase = "compile" /\ phase' = "compile" /\ Top.kind = "call"
      /\ Emit(<< CallOp >>, CallExit)
      /\ nodes' = n /\ frontier' = (IF Top.self THEN {} ELSE {n})
      /\ ends' = (IF Top.self THEN ends \cup {n} ELSE ends)
      /\ jump_args_base' = Top.base /\ UNCHANGED << scope, slot_of >>
  BY DEF CloseCall, Written, CallOp, CallExit
<1>3. /\ L > 1 /\ Top \in CallFrame /\ Len(Top.args) = Top.count
      /\ Under \in Frame /\ ~OpenCheck(Under) /\ Under.kind # "wait"
      /\ Under.kind # "list" => Under.value = NoNode /\ ~Top.self
      /\ Under.kind = "list" => Under \in ListFrame /\ ~Under.terminal
      /\ Replaces(m, g) /\ Shape(stack') /\ Sums(m, 0)
  BY <1>1, CloseCallStack
<1>4. FrameOK(Under)
  BY <1>1, <1>3, ShapeTop DEF Under
<1>5. /\ Alike(Under, g)
      /\ g.kind = "list" => g.terminal \/ (g.super = 0 /\ ~g.changed)
  <2>1. CASE Top.self
    <3>1. g = Ended(Under) /\ Under \in ListFrame
      BY <1>3, <2>1
    <3>2. Like(g, Under) /\ g.terminal /\ g \in ListFrame
      BY <3>1, EndedIs
    <3> QED  BY <3>1, <3>2 DEF Alike, Like, ListFrame
  <2>2. CASE ~Top.self
    <3> HIDE DEF n
    <3>1. g = Given(Under, n) /\ n \in Int
      BY <1>1, <2>2
    <3>2. /\ Like(g, Under)
          /\ Under.kind = "list" => g.super = 0 /\ g.changed = Under.changed
          /\ Under.kind = "let" => g.name = Under.name
          /\ Under.kind = "call" => g.count = Under.count
          /\ Under.kind = "when" => g.scope = Under.scope
      BY <1>3, <3>1, GivenIs
    <3>3. Under.kind = "list" => ~Under.changed
      BY <1>3, <1>4 DEF FrameOK
    <3> QED  BY <3>2, <3>3 DEF Alike, Like
  <2> QED  BY <2>1, <2>2
<1> HIDE DEF g
<1>6. Emitted(<< CallOp >>, CallExit) /\ Writes /\ CallOp \in Operation
  <2> DEFINE do == IF Top.self THEN "self" ELSE "call"
             a == Top.base
             v == Top.args
             ex == CallExit
  <2>1. /\ do \in Kinds /\ n \in Int /\ a \in Int /\ v \in Seq(Int) /\ NoNode \in Int
        /\ ex \in SUBSET (0 .. block_id + 1)
    BY <1>1, <1>3 DEF NoNode, Kinds, CallFrame, CallExit
  <2>2. CallOp = Op(do, n, a, v, NoNode)
    BY DEF CallOp
  <2>3. Emit(<< CallOp >>, ex)
    BY <1>2
  <2> HIDE DEF do, n, a, v, ex
  <2>4. Emit(<< Op(do, n, a, v, NoNode) >>, ex)
    BY <2>2, <2>3
  <2>5. Emitted(<< Op(do, n, a, v, NoNode) >>, ex) /\ Writes
    BY <1>1, <2>1, <2>4, OneOp
  <2>6. Op(do, n, a, v, NoNode) \in Operation
    BY <2>1, OpIs
  <2> QED  BY <2>2, <2>5, <2>6 DEF ex
<1>7. Typed'
  <2>1. /\ nodes' \in Nat /\ frontier' \subseteq Nat /\ ends' \subseteq Nat
        /\ jump_args_base' \in Nat /\ scope' \in Bindings /\ slot_of' \in Bindings
    BY <1>1, <1>2, <1>3 DEF Typed, CallFrame
  <2> QED  BY <1>1, <1>6, <2>1, TypedKept
<1>8. /\ Len(stack) = m + 2 /\ stack[m + 1] = Under /\ Keeps(stack, stack', m)
      /\ Len(stack') = m + 1 /\ stack'[m + 1] = g /\ Top' = g
  BY <1>1, <1>3 DEF Replaces, Top, Under
<1>9. m + 1 < L /\ L \in 1 .. Len(stack)
  BY <1>1, <1>3
<1> HIDE DEF m
<1>10. SameWhens /\ SameLets /\ SameCalls
  BY <1>3, <1>5, <1>8, ReplacedSame
<1>11. Bases'
  <2>1. ASSUME NEW i \in 1 .. Len(stack'), stack'[i].kind = "call"
        PROVE  stack'[i].base + stack'[i].count <= jump_args_base'
    <3>1. /\ i \in 1 .. Len(stack) /\ stack[i].kind = "call"
          /\ stack'[i].base = stack[i].base /\ stack'[i].count = stack[i].count
      BY <1>10, <2>1 DEF SameCalls
    <3>2. i < L
      BY <1>1, <1>8, <1>9, <3>1
    <3>3. stack[i].base + stack[i].count <= stack[L].base
      BY <1>1, <1>9, <3>1, <3>2 DEF Shape
    <3> QED  BY <1>2, <3>1, <3>3 DEF Top
  <2> QED  BY <2>1 DEF Bases
<1>12. Changed'
  <2>1. CASE Top.self
    BY <1>2, <2>1 DEF Changed
  <2>2. CASE ~Top.self
    <3>1. g.kind = "list" => ~g.changed
      <4>1. g = Given(Under, n) /\ n \in Int
        BY <1>1, <2>2 DEF g
      <4>2. Under.kind = "list" => g.changed = Under.changed /\ ~Under.changed
        <5> HIDE DEF n
        <5>1. Under.kind = "list" => g.changed = Under.changed
          BY <1>3, <4>1, GivenIs
        <5>2. Under.kind = "list" => ~Under.changed
          BY <1>3, <1>4 DEF FrameOK
        <5> QED  BY <5>1, <5>2
      <4> QED  BY <1>5, <4>2 DEF Alike
    <3> QED  BY <1>8, <3>1 DEF Changed
  <2> QED  BY <2>1, <2>2
<1>13. Scopes' /\ ~Super' /\ SameBlocks
  BY <1>2, <1>3, <1>5, <1>8, <1>10, ScopesKept, ReplacedBlocks DEF Wellformed, Super
<1>14. Wellformed'
  BY <1>2, <1>3, <1>6, <1>7, <1>8, <1>11, <1>12, <1>13, StepKeeps
<1> QED  BY <1>6, <1>13, <1>14

(* What a step must show that opens or closes a check.                      *)
LEMMA NumberedKeeps ==
    ASSUME Wellformed, phase = "compile", phase' = "compile",
           NEW m, Keeps(stack, stack', m),
           Len(stack) \in {m + 1, m + 2, m + 3}, Len(stack') \in {m + 1, m + 2, m + 3},
           \/ Sums(m, 0) /\ slot_of' = slot_of
           \/ Sums(m, 1) /\ \E x \in Names : slot_of' = Override(slot_of, {x}, NextIndex(slot_of)),
           Shape(stack'), Bases', Changed', Scopes', Typed', Numbered
    PROVE  Wellformed'
<1>1. Counts'
  BY CountsKept DEF Wellformed
<1> QED  BY <1>1, WellformedFrom DEF Kept

(* A block that is still open: the check of a when, the block of a wait.    *)
LEMMA NumbersOpen ==
    ASSUME Wellformed, NEW ops, NEW ex, Emitted(ops, ex), ex \subseteq 0 .. block_id + 1,
           NEW l,
           \A i \in 1 .. Len(stack') : HasBlock(stack'[i]) =>
                i = l \/ (i \in 1 .. Len(stack) /\ stack'[i] = stack[i]),
           stack'[l].block = Len(blocks) + 1, stack'[l].starts \subseteq 0 .. block_id + 1,
           OpenCheck(stack'[l]) => ex = {} /\ stack'[l].redirects = {},
           stack'[l].kind = "wait" => ex # {},
           ~Super'
    PROVE  Numbered
<1> USE DEF Wellformed
<1>1. block_id \in Nat /\ Len(blocks) \in Nat /\ block_id' = block_id + 1
  BY DEF Typed, Emitted
<1>2. Exits_ok' /\ Super_ok'
  <2>1. ASSUME NEW j \in 1 .. Len(blocks')  PROVE blocks'[j].exit \subseteq 0 .. block_id'
    <3>1. CASE j \in 1 .. Len(blocks)
      BY <1>1, <3>1 DEF Emitted, Exits_ok
    <3>2. CASE j = Len(blocks) + 1
      BY <1>1, <3>2 DEF Emitted, NewBlock
    <3> QED  BY <3>1, <3>2 DEF Emitted
  <2> QED  BY <2>1 DEF Exits_ok, Super_ok
<1>3. ASSUME NEW i \in 1 .. Len(stack'), HasBlock(stack'[i]), i # l
      PROVE  /\ i \in 1 .. Len(stack) /\ stack'[i] = stack[i]
             /\ stack'[i].block \in 1 .. Len(blocks) /\ stack'[i].starts \subseteq 0 .. block_id
             /\ blocks'[stack'[i].block] = blocks[stack'[i].block]
  BY <1>3 DEF Checks_ok, Emitted
<1>4. blocks'[stack'[l].block].exit = ex /\ Len(blocks') = Len(blocks) + 1
  BY DEF Emitted, NewBlock
<1>5. ASSUME NEW i \in 1 .. Len(stack'), HasBlock(stack'[i])
      PROVE  stack'[i].block \in 1 .. Len(blocks') /\ stack'[i].starts \subseteq 0 .. block_id'
  <2>1. CASE i = l
    BY <1>1, <1>4, <2>1
  <2>2. CASE i # l
    BY <1>1, <1>3, <1>4, <1>5, <2>2
  <2> QED  BY <2>1, <2>2
<1>6. ASSUME NEW i \in 1 .. Len(stack'), OpenCheck(stack'[i])
      PROVE  /\ blocks'[stack'[i].block].exit = {}
             /\ stack'[i].redirects \subseteq 0 .. block_id' - 1
  <2>1. CASE i = l
    BY <1>4, <1>6, <2>1
  <2>2. CASE i # l
    <3>1. HasBlock(stack'[i])
      BY <1>6 DEF HasBlock
    <3>2. /\ i \in 1 .. Len(stack) /\ stack'[i] = stack[i] /\ OpenCheck(stack[i])
          /\ blocks'[stack'[i].block] = blocks[stack'[i].block]
      BY <1>3, <1>6, <2>2, <3>1
    <3>3. blocks[stack[i].block].exit = {} /\ stack[i].redirects \subseteq 0 .. block_id - 1
      BY <3>2 DEF Checks_ok
    <3> QED  BY <1>1, <3>2, <3>3
  <2> QED  BY <2>1, <2>2
<1>7. ASSUME NEW i \in 1 .. Len(stack'), stack'[i].kind = "wait"
      PROVE  blocks'[stack'[i].block].exit # {}
  <2>1. CASE i = l
    BY <1>4, <1>7, <2>1
  <2>2. CASE i # l
    <3>1. HasBlock(stack'[i])
      BY <1>7 DEF HasBlock
    <3>2. /\ i \in 1 .. Len(stack) /\ stack'[i] = stack[i]
          /\ blocks'[stack'[i].block] = blocks[stack'[i].block]
      BY <1>3, <2>2, <3>1
    <3>3. blocks[stack[i].block].exit # {}
      BY <1>7, <3>2 DEF Checks_ok
    <3> QED  BY <3>2, <3>3
  <2> QED  BY <2>1, <2>2
<1>8. ASSUME NEW i \in 1 .. Len(stack'), NEW j \in 1 .. Len(stack'), i < j,
             HasBlock(stack'[i]), HasBlock(stack'[j])
      PROVE  stack'[i].block # stack'[j].block
  <2>1. CASE i = l
    <3>1. j # l
      BY <1>8, <2>1
    <3>2. stack'[j].block \in 1 .. Len(blocks)
      BY <1>3, <1>8, <3>1
    <3> QED  BY <1>1, <2>1, <3>2
  <2>2. CASE j = l
    <3>1. i # l
      BY <1>8, <2>2
    <3>2. stack'[i].block \in 1 .. Len(blocks)
      BY <1>3, <1>8, <3>1
    <3> QED  BY <1>1, <2>2, <3>2
  <2>3. CASE i # l /\ j # l
    BY <1>3, <1>8, <2>3 DEF Checks_ok
  <2> QED  BY <2>1, <2>2, <2>3
<1> QED  BY <1>2, <1>5, <1>6, <1>7, <1>8 DEF Numbered, Checks_ok

CheckOp == Op("check", nodes + 1, NoNode, << Top.value >>, NoNode)

(* FirstArm keeps the invariant and writes the block of the check.          *)
LEMMA FirstArmKeeps ==
    ASSUME Wellformed, FirstArm
    PROVE  Emitted(<< CheckOp >>, {}) /\ Wellformed'
<1> DEFINE L == Len(stack)
           m == L - 1
           n == nodes + 1
           ex == {}
           g == Checked
           h == List("arm", 0)
<1>1. /\ Typed /\ Shape(stack) /\ block_id \in Nat /\ L \in Nat /\ stack \in Seq(Frame) /\ n \in Nat
      /\ L > 0 /\ Len(blocks) \in Nat
  BY ShapeTop DEF Wellformed, Typed
<1>2. /\ phase = "compile" /\ phase' = "compile" /\ Top.kind = "when"
      /\ Emit(<< CheckOp >>, ex) /\ nodes' = n /\ frontier' = {n}
      /\ UNCHANGED << ends, scope, slot_of, jump_args_base >>
  BY DEF FirstArm, Written, Check, CheckOp
<1>3. /\ Top \in WhenFrame /\ Top.node = NoNode /\ Top.value # NoNode
      /\ Top.outs = {} /\ Top.redirects = {} /\ g \in WhenFrame
      /\ Opens(m, g, h) /\ Shape(stack') /\ Sums(m, 0)
  BY <1>1, FirstArmStack
<1>4. /\ Alike(Top, g) /\ g.block = Len(blocks) + 1 /\ g.starts = {block_id + 1}
      /\ g.redirects = {} /\ g.kind = "when"
  BY <1>3 DEF Checked, Alike, WhenFrame
<1>5. h.kind = "list" /\ h.of = "arm" /\ ~h.changed
  BY ListIs
<1>6. Emitted(<< CheckOp >>, ex)
  <2>1. << Top.value >> \in Seq(Int) /\ NoNode \in Int /\ n \in Int /\ "check" \in Kinds
        /\ ex \in SUBSET (0 .. block_id + 1)
    BY <1>1, <1>3 DEF NoNode, Kinds, WhenFrame
  <2>2. Emit(<< Op("check", n, NoNode, << Top.value >>, NoNode) >>, ex)
    BY <1>2 DEF CheckOp
  <2> HIDE DEF ex, n
  <2>3. Emitted(<< Op("check", n, NoNode, << Top.value >>, NoNode) >>, ex)
    BY <1>1, <2>1, <2>2, OneOp
  <2> QED  BY <2>3 DEF CheckOp, n
<1> HIDE DEF g, h, n
<1>7. Typed'
  <2>1. nodes' \in Nat /\ frontier' \subseteq Nat /\ ends' \subseteq Nat /\ jump_args_base' \in Nat
        /\ scope' \in Bindings /\ slot_of' \in Bindings
    BY <1>1, <1>2 DEF Typed
  <2> QED  BY <1>1, <1>6, <2>1, TypedKept
<1>8. /\ Len(stack) = m + 1 /\ stack[m + 1] = Top /\ Keeps(stack, stack', m)
      /\ Len(stack') = m + 2 /\ stack'[m + 1] = g /\ stack'[m + 2] = h /\ Top' = h
  BY <1>1, <1>3 DEF Opens, Top
<1>9. m + 1 = L /\ m + 2 = L + 1 /\ m \in Nat
  BY <1>1
<1> HIDE DEF m
<1>10. SameWhens /\ SameLets /\ SameCalls
  BY <1>1, <1>3, <1>4, <1>5, <1>8, OpenedSame
<1>11. Bases' /\ Scopes' /\ Changed' /\ ~Super'
  BY <1>2, <1>3, <1>5, <1>8, <1>10, BasesKept, ScopesKept DEF Wellformed, Changed, Super
<1>12. Numbered
  <2>1. ASSUME NEW i \in 1 .. Len(stack'), HasBlock(stack'[i]), i # L
        PROVE  i \in 1 .. Len(stack) /\ stack'[i] = stack[i]
    <3>1. i # m + 2
      BY <1>5, <1>8, <2>1 DEF HasBlock, OpenCheck
    <3>2. i \in 1 .. m
      BY <1>1, <1>8, <1>9, <2>1, <3>1
    <3> QED  BY <1>1, <1>8, <1>9, <3>2 DEF Keeps
  <2>2. stack'[L] = g
    BY <1>8, <1>9
  <2>3. ex \subseteq 0 .. block_id + 1
    OBVIOUS
  <2>4. stack'[L].starts \subseteq 0 .. block_id + 1
    BY <1>1, <1>4, <2>2
  <2> HIDE DEF ex
  <2>5. /\ OpenCheck(stack'[L]) => ex = {} /\ stack'[L].redirects = {}
        /\ stack'[L].kind = "wait" => ex # {}
        /\ stack'[L].block = Len(blocks) + 1
    BY <1>4, <2>2 DEF ex
  <2> QED  BY <1>6, <1>11, <2>1, <2>3, <2>4, <2>5, NumbersOpen
<1>13. Wellformed'
  BY <1>2, <1>3, <1>7, <1>8, <1>11, <1>12, NumberedKeeps
<1> QED  BY <1>6, <1>13

(* NextArm keeps the invariant: the arm that ends takes at most one number  *)
(* for its redirect.                                                        *)
LEMMA NextArmKeeps ==
    ASSUME Wellformed, NextArm
    PROVE  Wellformed'
<1> DEFINE L == Len(stack)
           m == L - 2
           g == ArmEnd
           h == List("arm", 0)
<1>1. /\ Typed /\ Shape(stack) /\ block_id \in Nat /\ L \in Nat /\ stack \in Seq(Frame) /\ Scopes
  BY ShapeTop DEF Wellformed, Typed
<1>2. /\ phase = "compile" /\ phase' = "compile" /\ block_id' = block_id + 1
      /\ frontier' = {Under.node} /\ scope' = Under.scope
      /\ UNCHANGED << nodes, ends, blocks, branch_switch, slot_of, jump_args_base >>
  BY DEF NextArm, InArm
<1>3. /\ L > 2 /\ Top \in ListFrame /\ Top.of = "arm" /\ Under \in WhenFrame /\ OpenCheck(Under)
      /\ g \in WhenFrame /\ g.starts = Under.starts \cup {block_id + 1}
      /\ g.node = Under.node /\ g.block = Under.block /\ g.scope = Under.scope
      /\ g.redirects = Under.redirects \cup ArmExit
      /\ Opens(m, g, h) /\ Shape(stack') /\ Sums(m, 0)
  BY <1>1, NextArmStack
<1>4. Alike(Under, g) /\ OpenCheck(g) /\ HasBlock(Under) /\ g.kind = "when"
  BY <1>3 DEF Alike, OpenCheck, HasBlock, WhenFrame
<1>5. h.kind = "list" /\ h.of = "arm" /\ ~h.changed /\ Top.kind = "list"
  BY <1>3, ListIs DEF ListFrame
<1> HIDE DEF g, h
<1>6. /\ Len(stack) = m + 2 /\ stack[m + 1] = Under /\ Keeps(stack, stack', m)
      /\ Len(stack') = m + 2 /\ stack'[m + 1] = g /\ stack'[m + 2] = h /\ Top' = h
      /\ m \in Nat /\ m + 1 \in 1 .. Len(stack) /\ m + 1 = L - 1
  BY <1>1, <1>3 DEF Opens, Top, Under, Keeps
<1> HIDE DEF m
<1>7. SameWhens /\ SameLets /\ SameCalls
  BY <1>1, <1>3, <1>4, <1>5, <1>6, OpenedSame
<1>8. Typed'
  <2>1. Under.scope \in Bindings /\ Under.node \in Nat
    BY <1>1, <1>3 DEF WhenFrame, OpenCheck
  <2> QED  BY <1>1, <1>2, <2>1 DEF Typed
<1>9. Scopes'
  <2>1. \A i \in 1 .. Len(stack') : stack'[i].kind # "let"
    BY <1>3, <1>5, <1>6, ListOnTop
  <2>2. \A i \in 1 .. Len(stack') : stack'[i].kind = "when" => i <= m + 1
    BY <1>5, <1>6
  <2>3. stack[m + 1].kind = "when" /\ scope' = stack[m + 1].scope
    BY <1>2, <1>3, <1>6 DEF OpenCheck
  <2> QED  BY <1>1, <1>2, <1>6, <1>7, <2>1, <2>2, <2>3, ScopesRestored
<1>10. Bases' /\ Changed' /\ ~Super'
  BY <1>2, <1>5, <1>6, <1>7, BasesKept DEF Wellformed, Changed, Super
<1>11. /\ Under.block \in 1 .. Len(blocks) /\ Under.starts \subseteq 0 .. block_id
       /\ Under.redirects \subseteq 0 .. block_id - 1 /\ blocks[Under.block].exit = {}
  BY <1>3, <1>4, <1>6 DEF Wellformed, Checks_ok
<1>12. ASSUME NEW i \in 1 .. Len(stack'), HasBlock(stack'[i])
       PROVE  i \in 1 .. Len(stack) /\ (i = m + 1 \/ stack'[i] = stack[i])
  <2>1. i # m + 2
    BY <1>5, <1>6, <1>12 DEF HasBlock, OpenCheck
  <2> QED  BY <1>6, <2>1 DEF Keeps
<1>13. ASSUME NEW i \in 1 .. Len(stack'), HasBlock(stack'[i])
       PROVE  HasBlock(stack[i]) /\ stack'[i].block = stack[i].block
  BY <1>3, <1>4, <1>6, <1>12, <1>13
<1>14. Checks_ok'
  <2>1. ASSUME NEW i \in 1 .. Len(stack'), HasBlock(stack'[i])
        PROVE  stack'[i].block \in 1 .. Len(blocks') /\ stack'[i].starts \subseteq 0 .. block_id'
    <3>1. CASE i = m + 1
      BY <1>1, <1>2, <1>3, <1>6, <1>11, <3>1
    <3>2. CASE i # m + 1
      <4>1. i \in 1 .. Len(stack) /\ stack'[i] = stack[i] /\ HasBlock(stack[i])
        BY <1>12, <2>1, <3>2
      <4>2. stack[i].block \in 1 .. Len(blocks) /\ stack[i].starts \subseteq 0 .. block_id
        BY <4>1 DEF Wellformed, Checks_ok
      <4> QED  BY <1>1, <1>2, <4>1, <4>2
    <3> QED  BY <3>1, <3>2
  <2>2. ASSUME NEW i \in 1 .. Len(stack'), OpenCheck(stack'[i])
        PROVE  /\ blocks'[stack'[i].block].exit = {}
               /\ stack'[i].redirects \subseteq 0 .. block_id' - 1
    <3>1. CASE i = m + 1
      <4>1. ArmExit \subseteq {block_id} /\ block_id' - 1 = block_id
        BY <1>1, <1>2 DEF ArmExit
      <4>2. Under.redirects \cup ArmExit \subseteq 0 .. block_id' - 1
        <5>1. ASSUME NEW r \in Under.redirects \cup ArmExit  PROVE r \in 0 .. block_id
          <6>1. r = block_id \/ r \in 0 .. block_id - 1
            BY <1>11, <4>1, <5>1
          <6> QED  BY <1>1, <6>1
        <5> QED  BY <4>1, <5>1
      <4>3. stack'[i] = g /\ blocks'[g.block].exit = {}
        BY <1>2, <1>3, <1>6, <1>11, <3>1
      <4> QED  BY <1>3, <4>2, <4>3
    <3>2. CASE i # m + 1
      <4>1. i \in 1 .. Len(stack) /\ stack'[i] = stack[i] /\ OpenCheck(stack[i])
        BY <1>12, <2>2, <3>2 DEF HasBlock
      <4>2. blocks[stack[i].block].exit = {} /\ stack[i].redirects \subseteq 0 .. block_id - 1
        BY <4>1 DEF Wellformed, Checks_ok
      <4> QED  BY <1>1, <1>2, <4>1, <4>2
    <3> QED  BY <3>1, <3>2
  <2>3. ASSUME NEW i \in 1 .. Len(stack'), stack'[i].kind = "wait"
        PROVE  blocks'[stack'[i].block].exit # {}
    <3>1. i # m + 1
      BY <1>4, <1>6, <2>3
    <3>2. i \in 1 .. Len(stack) /\ stack'[i] = stack[i]
      BY <1>12, <2>3, <3>1 DEF HasBlock
    <3> QED  BY <1>2, <2>3, <3>2 DEF Wellformed, Checks_ok
  <2>4. ASSUME NEW i \in 1 .. Len(stack'), NEW j \in 1 .. Len(stack'), i < j,
               HasBlock(stack'[i]), HasBlock(stack'[j])
        PROVE  stack'[i].block # stack'[j].block
    <3>1. i \in 1 .. Len(stack) /\ j \in 1 .. Len(stack)
      BY <1>12, <2>4
    <3> QED  BY <1>13, <2>4, <3>1 DEF Wellformed, Checks_ok
  <2> QED  BY <2>1, <2>2, <2>3, <2>4 DEF Checks_ok
<1>15. Exits_ok' /\ Super_ok'
  <2>1. ASSUME NEW j \in 1 .. Len(blocks')  PROVE blocks'[j].exit \subseteq 0 .. block_id'
    <3>1. blocks'[j].exit \subseteq 0 .. block_id
      BY <1>2, <2>1 DEF Wellformed, Exits_ok
    <3> QED  BY <1>1, <1>2, <3>1
  <2> QED  BY <1>10, <2>1 DEF Exits_ok, Super_ok
<1>16. Numbered
  BY <1>14, <1>15 DEF Numbered
<1> QED  BY <1>2, <1>3, <1>6, <1>8, <1>9, <1>10, <1>16, NumberedKeeps

(* What the last arm of a when leaves behind.                               *)
WhenClosed(wildcard) ==
    /\ frontier' = ArmDone.outs \cup (IF wildcard THEN {} ELSE {Under.node})
    /\ blocks' \in Seq(Block) /\ Len(blocks') = Len(blocks) + 1 /\ Len(blocks) \in Nat
    /\ Under.block \in 1 .. Len(blocks)
    /\ blocks'[Under.block].ops = blocks[Under.block].ops
    /\ blocks'[Under.block].exit = Under.starts \cup (IF wildcard THEN {} ELSE {AfterWhen})
    /\ \A j \in 1 .. Len(blocks) : j # Under.block => blocks'[j] = blocks[j]
    /\ blocks'[Len(blocks) + 1] = NewBlock(<< >>, {AfterWhen})
    /\ branch_switch' \in [DOMAIN branch_switch' -> 1 .. Len(blocks')]
    /\ DOMAIN branch_switch' = DOMAIN branch_switch \cup Under.redirects \cup ArmExit
    /\ \A id \in Under.redirects \cup ArmExit : branch_switch'[id] = Len(blocks) + 1
    /\ \A id \in DOMAIN branch_switch : id \notin Under.redirects \cup ArmExit
            => branch_switch'[id] = branch_switch[id]
    /\ block_id' = AfterWhen /\ AfterWhen \in Nat /\ DOMAIN branch_switch' \subseteq 0 .. AfterWhen - 1

(* What CloseWhen writes, with a wildcard arm and without.                  *)
LEMMA WhenClosedIs ==
    ASSUME Wellformed, CloseWhen
    PROVE  \E wildcard \in BOOLEAN : WhenClosed(wildcard)
<1>1. PICK wildcard \in BOOLEAN :
        /\ blocks' = Append([blocks EXCEPT ![ArmDone.block].exit =
                                ArmDone.starts \cup (IF wildcard THEN {} ELSE {AfterWhen})],
                            [ops |-> << >>, exit |-> {AfterWhen}])
        /\ branch_switch' = Override(branch_switch, Under.redirects \cup LastArmExit, Len(blocks) + 1)
        /\ frontier' = ArmDone.outs \cup (IF wildcard THEN {} ELSE {ArmDone.node})
  BY DEF CloseWhen
<1>2. /\ Typed /\ Shape(stack) /\ block_id \in Nat /\ Len(stack) \in Nat /\ Len(blocks) \in Nat
      /\ blocks \in Seq(Block)
  BY ShapeTop DEF Wellformed, Typed
<1>3. Len(stack) > 2 /\ Top \in ListFrame /\ Under \in WhenFrame /\ OpenCheck(Under)
  BY <1>2, CloseWhenStack
<1>4. /\ ArmDone.block = Under.block /\ ArmDone.starts = Under.starts /\ ArmDone.node = Under.node
  BY <1>2, <1>3, ArmDoneIs
<1>5. Len(stack) - 1 \in 1 .. Len(stack)
  BY <1>2, <1>3
<1>6. /\ Under.block \in 1 .. Len(blocks) /\ Under.starts \subseteq 0 .. block_id
      /\ Under.redirects \subseteq 0 .. block_id - 1
  BY <1>3, <1>5 DEF Wellformed, Checks_ok, HasBlock, Under
<1>7. AfterWhen \in Nat /\ block_id' = AfterWhen
      /\ (NeedsRedirect => AfterWhen = block_id + 1) /\ (~NeedsRedirect => AfterWhen = block_id)
  BY <1>2 DEF AfterWhen, CloseWhen
<1>8. Under.redirects \cup ArmExit \subseteq 0 .. AfterWhen - 1
  <2>1. ASSUME NEW r \in Under.redirects  PROVE r \in 0 .. AfterWhen - 1
    <3>1. r \in 0 .. block_id - 1
      BY <1>6
    <3> QED  BY <1>2, <1>7, <3>1
  <2>2. ASSUME NEW r \in ArmExit  PROVE r \in 0 .. AfterWhen - 1
    <3>1. NeedsRedirect /\ r = block_id
      BY <2>2 DEF ArmExit
    <3> QED  BY <1>2, <1>7, <3>1
  <2> QED  BY <2>1, <2>2
<1> DEFINE b == Under.block
           ex == Under.starts \cup (IF wildcard THEN {} ELSE {AfterWhen})
           new == NewBlock(blocks[b].ops, ex)
           mid == [blocks EXCEPT ![b] = new]
           out == NewBlock(<< >>, {AfterWhen})
           ids == Under.redirects \cup ArmExit
<1>9. blocks[b] \in Block /\ b \in 1 .. Len(blocks) /\ ex \in SUBSET Nat
  <2>1. Under.starts \subseteq Nat
    BY <1>2, <1>6
  <2> QED  BY <1>2, <1>6, <1>7, <2>1
<1>10. new \in Block /\ out \in Block
  <2>1. << >> \in Seq(Operation) /\ {AfterWhen} \in SUBSET Nat
    BY <1>7
  <2> HIDE DEF ex
  <2> QED  BY <1>9, <2>1 DEF Block, NewBlock
<1>11. blocks' = Append(mid, out)
  <2>1. [blocks EXCEPT ![b].exit = ex] = mid
    <3>1. [blocks[b] EXCEPT !.exit = ex] = new
      <4> HIDE DEF ex
      <4> QED  BY <1>9 DEF Block, NewBlock
    <3> HIDE DEF ex, new
    <3> QED  BY <3>1
  <2> QED  BY <1>1, <1>4, <2>1 DEF NewBlock
<1>12. /\ new.ops = blocks[b].ops /\ new.exit = ex
  BY DEF NewBlock
<1> HIDE DEF new, out, b, ex
<1>13. /\ mid \in Seq(Block) /\ Len(mid) = Len(blocks) /\ mid[b] = new
       /\ \A j \in 1 .. Len(blocks) : j # b => mid[j] = blocks[j]
  BY <1>2, <1>9, <1>10, ExceptSeq
<1> HIDE DEF mid
<1>14. /\ blocks' \in Seq(Block) /\ Len(blocks') = Len(blocks) + 1 /\ blocks'[Len(blocks) + 1] = out
       /\ \A j \in 1 .. Len(blocks) : blocks'[j] = mid[j]
  BY <1>10, <1>11, <1>13, AppendProperties
<1>15. branch_switch' = Override(branch_switch, ids, Len(blocks) + 1)
  BY <1>1 DEF LastArmExit
<1> HIDE DEF ids
<1>16. /\ DOMAIN branch_switch' = DOMAIN branch_switch \cup ids
       /\ \A id \in ids : branch_switch'[id] = Len(blocks) + 1
       /\ \A id \in DOMAIN branch_switch : id \notin ids => branch_switch'[id] = branch_switch[id]
  BY <1>15 DEF Override
<1>17. branch_switch' \in [DOMAIN branch_switch' -> 1 .. Len(blocks')]
  <2>1. branch_switch' = [ id \in DOMAIN branch_switch' |-> branch_switch'[id] ]
    BY <1>15 DEF Override
  <2>2. \A id \in DOMAIN branch_switch : branch_switch[id] \in 1 .. Len(blocks)
    BY <1>2 DEF Typed
  <2>3. \A id \in DOMAIN branch_switch' : branch_switch'[id] \in 1 .. Len(blocks')
    BY <1>2, <1>14, <1>16, <2>2
  <2> QED  BY <2>1, <2>3
<1>18. DOMAIN branch_switch' \subseteq 0 .. AfterWhen - 1
  <2>1. ASSUME NEW id \in DOMAIN branch_switch  PROVE id \in 0 .. AfterWhen - 1
    <3>1. id \in 0 .. block_id - 1
      BY <1>2, <2>1 DEF Typed
    <3> QED  BY <1>2, <1>7, <3>1
  <2> QED  BY <1>8, <1>16, <2>1 DEF ids
<1>19. WhenClosed(wildcard)
  <2>1. frontier' = ArmDone.outs \cup (IF wildcard THEN {} ELSE {Under.node})
    BY <1>1, <1>4
  <2>2. /\ Under.block \in 1 .. Len(blocks)
        /\ blocks'[Under.block].ops = blocks[Under.block].ops
        /\ blocks'[Under.block].exit = Under.starts \cup (IF wildcard THEN {} ELSE {AfterWhen})
        /\ \A j \in 1 .. Len(blocks) : j # Under.block => blocks'[j] = blocks[j]
    BY <1>9, <1>12, <1>13, <1>14 DEF b, ex
  <2>3. blocks'[Len(blocks) + 1] = NewBlock(<< >>, {AfterWhen})
    BY <1>14 DEF out
  <2> QED  BY <1>2, <1>7, <1>14, <1>16, <1>17, <1>18, <2>1, <2>2, <2>3 DEF WhenClosed, ids
<1> QED  BY <1>19

(* CloseWhen keeps the invariant.                                           *)
LEMMA CloseWhenKeeps ==
    ASSUME Wellformed, CloseWhen
    PROVE  Wellformed'
<1> DEFINE L == Len(stack)
           m == L - 3
           g == AfterList(ArmDone.slots)
<1>1. /\ Typed /\ Shape(stack) /\ block_id \in Nat /\ L \in Nat /\ stack \in Seq(Frame) /\ Scopes
  BY ShapeTop DEF Wellformed, Typed
<1>2. /\ phase = "compile" /\ phase' = "compile" /\ scope' = Under.scope
      /\ UNCHANGED << nodes, ends, slot_of, jump_args_base >>
  BY DEF CloseWhen, InArm
<1>3. /\ L > 2 /\ Top \in ListFrame /\ Top.of = "arm" /\ Under \in WhenFrame /\ OpenCheck(Under)
      /\ stack[L - 2] \in ListFrame /\ ~stack[L - 2].terminal
      /\ Replaces(m, g) /\ g \in ListFrame /\ g.super = 0 /\ Shape(stack') /\ Sums(m, 0)
  BY <1>1, CloseWhenStack
<1>4. PICK wildcard \in BOOLEAN : WhenClosed(wildcard)
  BY WhenClosedIs
<1>5. /\ g.kind = "list" /\ ~g.changed /\ stack[L - 2].kind = "list"
  <2>1. FrameOK(stack[L - 2]) /\ L - 2 \in 1 .. Len(stack)
    BY <1>1, <1>3, ShapeTop
  <2> QED  BY <1>3, <2>1 DEF AfterList, CountedFrame, FrameOK, ListFrame
<1> HIDE DEF g
<1>6. /\ Len(stack) = m + 3 /\ Keeps(stack, stack', m) /\ Len(stack') = m + 1 /\ stack'[m + 1] = g
      /\ Top' = g /\ m \in Nat /\ m + 1 = L - 2 /\ m + 2 = L - 1 /\ m + 2 \in 1 .. Len(stack)
      /\ stack[m + 2] = Under
  <2>1. m + 1 = L - 2 /\ m + 2 = L - 1 /\ m + 3 = L /\ m \in Nat
    BY <1>1, <1>3
  <2> HIDE DEF m
  <2>2. stack[m + 2] = Under /\ m + 2 \in 1 .. Len(stack)
    BY <2>1 DEF Under
  <2>3. Keeps(stack, stack', m) /\ Len(stack') = m + 1 /\ stack'[m + 1] = g
    BY <1>3 DEF Replaces
  <2> QED  BY <2>1, <2>2, <2>3 DEF Top
<1> HIDE DEF m
<1>7. Alike(stack[m + 1], g)
  BY <1>5, <1>6 DEF Alike
<1>8. SameWhens /\ SameLets /\ SameCalls /\ SameBlocks
  BY <1>3, <1>6, <1>7, ReplacedSame, ReplacedBlocks
<1>9. Typed'
  <2>1. Under.scope \in Bindings /\ Under.node \in Nat
    BY <1>3 DEF WhenFrame, OpenCheck
  <2>2. ArmDone.outs \subseteq Nat
    BY <1>1, <1>3, ArmDoneIs DEF WhenFrame
  <2>3. frontier' \subseteq Nat
    BY <1>4, <2>1, <2>2 DEF WhenClosed
  <2> QED  BY <1>1, <1>2, <1>4, <2>1, <2>3 DEF Typed, WhenClosed
<1>10. Scopes'
  <2>1. \A i \in 1 .. Len(stack') : stack'[i].kind # "let"
    BY <1>3, <1>5, <1>6, ListOnTop
  <2>2. \A i \in 1 .. Len(stack') : stack'[i].kind = "when" => i <= m + 2
    BY <1>6
  <2>3. stack[m + 2].kind = "when" /\ scope' = stack[m + 2].scope
    BY <1>2, <1>3, <1>6 DEF OpenCheck
  <2> QED  BY <1>1, <1>2, <1>6, <1>8, <2>1, <2>2, <2>3, ScopesRestored
<1>11. Bases' /\ Changed' /\ ~Super'
  BY <1>2, <1>3, <1>5, <1>6, <1>8, BasesKept DEF Wellformed, Changed, Super
<1>12. block_id \in 0 .. AfterWhen /\ AfterWhen \in Nat /\ block_id' = AfterWhen
  BY <1>1, <1>4 DEF AfterWhen, WhenClosed
<1>13. HasBlock(Under)
  BY <1>3 DEF HasBlock
<1>14. ASSUME NEW i \in 1 .. Len(stack'), HasBlock(stack'[i])
       PROVE  /\ i \in 1 .. Len(stack) /\ stack'[i] = stack[i] /\ HasBlock(stack[i])
              /\ stack[i].block \in 1 .. Len(blocks) /\ stack[i].starts \subseteq 0 .. block_id
              /\ blocks'[stack[i].block] = blocks[stack[i].block]
  <2>1. i \in 1 .. Len(stack) /\ stack'[i] = stack[i] /\ HasBlock(stack[i])
    BY <1>14, <1>8 DEF SameBlocks
  <2>2. i < m + 2
    BY <1>6
  <2>3. stack[i].block # Under.block /\ stack[i].block \in 1 .. Len(blocks)
        /\ stack[i].starts \subseteq 0 .. block_id
    BY <1>6, <1>13, <2>1, <2>2 DEF Wellformed, Checks_ok
  <2> QED  BY <1>4, <2>1, <2>3 DEF WhenClosed
<1>15. Checks_ok'
  <2>1. ASSUME NEW i \in 1 .. Len(stack'), HasBlock(stack'[i])
        PROVE  stack'[i].block \in 1 .. Len(blocks') /\ stack'[i].starts \subseteq 0 .. block_id'
    <3>1. /\ stack'[i] = stack[i] /\ stack[i].block \in 1 .. Len(blocks)
          /\ stack[i].starts \subseteq 0 .. block_id
      BY <1>14, <2>1
    <3>2. Len(blocks') = Len(blocks) + 1 /\ Len(blocks) \in Nat
      BY <1>4 DEF WhenClosed
    <3>3. stack[i].starts \subseteq 0 .. block_id'
      BY <1>1, <1>12, <3>1
    <3> QED  BY <3>1, <3>2, <3>3
  <2>2. ASSUME NEW i \in 1 .. Len(stack'), OpenCheck(stack'[i])
        PROVE  /\ blocks'[stack'[i].block].exit = {}
               /\ stack'[i].redirects \subseteq 0 .. block_id' - 1
    <3>1. HasBlock(stack'[i])
      BY <2>2 DEF HasBlock
    <3>2. /\ i \in 1 .. Len(stack) /\ stack'[i] = stack[i] /\ OpenCheck(stack[i])
          /\ blocks'[stack[i].block] = blocks[stack[i].block]
      BY <1>14, <2>2, <3>1
    <3>3. blocks[stack[i].block].exit = {} /\ stack[i].redirects \subseteq 0 .. block_id - 1
      BY <3>2 DEF Wellformed, Checks_ok
    <3>4. ASSUME NEW r \in stack[i].redirects  PROVE r \in 0 .. block_id' - 1
      <4>1. r \in 0 .. block_id - 1
        BY <3>3
      <4> QED  BY <1>1, <1>12, <4>1
    <3> QED  BY <3>2, <3>3, <3>4
  <2>3. ASSUME NEW i \in 1 .. Len(stack'), stack'[i].kind = "wait"
        PROVE  blocks'[stack'[i].block].exit # {}
    <3>1. HasBlock(stack'[i])
      BY <2>3 DEF HasBlock
    <3>2. /\ i \in 1 .. Len(stack) /\ stack'[i] = stack[i]
          /\ blocks'[stack[i].block] = blocks[stack[i].block]
      BY <1>14, <3>1
    <3> QED  BY <2>3, <3>2 DEF Wellformed, Checks_ok
  <2>4. ASSUME NEW i \in 1 .. Len(stack'), NEW j \in 1 .. Len(stack'), i < j,
               HasBlock(stack'[i]), HasBlock(stack'[j])
        PROVE  stack'[i].block # stack'[j].block
    BY <1>14, <2>4 DEF Wellformed, Checks_ok
  <2> QED  BY <2>1, <2>2, <2>3, <2>4 DEF Checks_ok
<1>16. Exits_ok' /\ Super_ok'
  <2>1. ASSUME NEW j \in 1 .. Len(blocks')  PROVE blocks'[j].exit \subseteq 0 .. block_id'
    <3>1. CASE j = Len(blocks) + 1
      BY <1>4, <1>12, <3>1 DEF WhenClosed, NewBlock
    <3>2. CASE j = Under.block
      <4>1. Under.starts \subseteq 0 .. block_id
        BY <1>6, <1>13 DEF Wellformed, Checks_ok
      <4>2. Under.starts \subseteq 0 .. block_id'
        BY <1>1, <1>12, <4>1
      <4>3. blocks'[j].exit = Under.starts \cup (IF wildcard THEN {} ELSE {AfterWhen})
        BY <1>4, <3>2 DEF WhenClosed
      <4>4. AfterWhen \in 0 .. block_id'
        BY <1>12
      <4> QED  BY <4>2, <4>3, <4>4
    <3>3. CASE j \in 1 .. Len(blocks) /\ j # Under.block
      <4>1. blocks'[j].exit \subseteq 0 .. block_id
        BY <1>4, <3>3 DEF WhenClosed, Wellformed, Exits_ok
      <4> QED  BY <1>1, <1>12, <4>1
    <3> QED  BY <1>4, <2>1, <3>1, <3>2, <3>3 DEF WhenClosed
  <2> QED  BY <1>11, <2>1 DEF Exits_ok, Super_ok
<1>17. Numbered
  BY <1>15, <1>16 DEF Numbered
<1> QED  BY <1>2, <1>3, <1>6, <1>9, <1>10, <1>11, <1>17, NumberedKeeps

WaitOp(xs, filter) ==
    Op("take", nodes + 1, Folded(filter), Meant(filter),
       IF xs = {} THEN NoNode ELSE NextIndex(slot_of))

(* The filter of a wait is looked up among the names.                       *)
LEMMA FoldedIs ==
    ASSUME Typed, NEW filter \in SUBSET DOMAIN slot_of
    PROVE  /\ filter = {} => Folded(filter) = NoNode
           /\ filter # {} => \E x \in filter : Folded(filter) = slot_of[x]
           /\ Folded(filter) \in Int
<1>1. \A x \in filter : slot_of[x] \in Nat
  BY DEF Typed, Bindings
<1>2. CASE filter = {}
  BY <1>2 DEF Folded, NoNode
<1>3. CASE filter # {}
  <2>1. PICK x : x = CHOOSE y \in filter : TRUE
    OBVIOUS
  <2>2. x \in filter
    BY <1>3, <2>1
  <2>3. Folded(filter) = slot_of[x]
    BY <1>3, <2>1 DEF Folded
  <2> QED  BY <1>1, <1>3, <2>2, <2>3
<1> QED  BY <1>2, <1>3

(* A filter is read from the slot of the name that it means.                *)
LEMMA MeantIs ==
    ASSUME Typed, Scopes, NEW filter \in SUBSET DOMAIN scope
    PROVE  /\ filter = {} => Folded(filter) = NoNode /\ Meant(filter) = << >>
           /\ filter # {} => \E x \in filter :
                 Folded(filter) = slot_of[x] /\ Meant(filter) = << scope[x] >>
           /\ Folded(filter) \in Int /\ Meant(filter) \in Seq(Int)
<1>1. \A x \in filter : slot_of[x] \in Nat /\ scope[x] \in Nat
  BY DEF Typed, Bindings, Scopes
<1>2. CASE filter = {}
  BY <1>2 DEF Folded, Meant, NoNode
<1>3. CASE filter # {}
  <2>1. PICK x : x = CHOOSE y \in filter : TRUE
    OBVIOUS
  <2>2. x \in filter
    BY <1>3, <2>1
  <2>3. Folded(filter) = slot_of[x] /\ Meant(filter) = << scope[x] >>
    BY <1>3, <2>1 DEF Folded, Meant
  <2>4. slot_of[x] \in Int /\ scope[x] \in Int
    BY <1>1, <2>2
  <2> QED  BY <1>3, <2>2, <2>3, <2>4
<1> QED  BY <1>2, <1>3

(* OpenWait keeps the invariant and writes the block that waits.            *)
LEMMA OpenWaitKeeps ==
    ASSUME Wellformed, OpenWait
    PROVE  \E xs \in {{}} \cup { {x} : x \in Names }, filter \in SUBSET DOMAIN scope :
              /\ WaitOpened(xs, filter) /\ Emitted(<< WaitOp(xs, filter) >>, {block_id})
              /\ Wellformed'
<1> DEFINE L == Len(stack)
           m == L - 1
           n == nodes + 1
           w == NextIndex(slot_of)
           ex == {block_id}
<1>1. /\ Typed /\ Shape(stack) /\ block_id \in Nat /\ L \in Nat /\ L > 0 /\ stack \in Seq(Frame)
      /\ n \in Nat /\ w \in Nat /\ Scopes /\ Len(blocks) \in Nat
  BY ShapeTop, NextIndexTyped DEF Wellformed, Typed
<1>2. /\ phase = "compile" /\ phase' = "compile" /\ nodes' = n /\ frontier' = {n}
      /\ UNCHANGED << ends, jump_args_base >>
  BY DEF OpenWait, Room, Written
<1>3. PICK xs \in {{}} \cup { {x} : x \in Names }, filter \in SUBSET DOMAIN scope :
        WaitOpened(xs, filter)
  BY <1>1, OpenWaitStack
<1> DEFINE g == WaitOf(filter)
           k == IF xs = {} THEN 0 ELSE 1
           h == List("handler", k)
           v == IF xs = {} THEN NoNode ELSE w
<1>4. /\ Top.kind = "list" /\ Top \in ListFrame /\ Shape(stack') /\ Sums(m, k)
      /\ Keeps(stack, stack', m) /\ Len(stack') = L + 2 /\ stack'[L] = Top
      /\ stack'[L + 1] = g /\ stack'[L + 2] = h
  BY <1>3 DEF WaitOpened, WantsStatement
<1>5. g.kind = "wait" /\ g.block = Len(blocks) + 1 /\ g.starts = {block_id + 1}
  BY DEF WaitOf
<1>6. h.kind = "list" /\ ~h.changed /\ h.super = 0
  <2>1. k \in Nat
    OBVIOUS
  <2> QED  BY <2>1, ListIs
<1> HIDE DEF g, h
<1>7. Emitted(<< WaitOp(xs, filter) >>, ex)
  <2> DEFINE r == Folded(filter)
             meant == Meant(filter)
  <2>1. /\ r \in Int /\ meant \in Seq(Int) /\ n \in Int /\ v \in Int /\ "take" \in Kinds
        /\ ex \in SUBSET (0 .. block_id + 1)
    BY <1>1, MeantIs DEF NoNode, Kinds
  <2>2. Emit(<< Op("take", n, r, meant, v) >>, ex)
    BY <1>3 DEF WaitOpened
  <2>3. WaitOp(xs, filter) = Op("take", n, r, meant, v)
    BY DEF WaitOp
  <2> HIDE DEF n, v, ex, r, meant
  <2>4. Emitted(<< Op("take", n, r, meant, v) >>, ex)
    BY <1>1, <2>1, <2>2, OneOp
  <2> QED  BY <2>3, <2>4
<1>8. \/ xs = {} /\ k = 0 /\ UNCHANGED << scope, slot_of >>
      \/ k = 1 /\ \E x \in Names : CanBind(x) /\ Bound(x, n)
  <2>1. CASE xs = {}
    BY <1>3, <2>1 DEF WaitOpened
  <2>2. ASSUME NEW x \in Names, xs = {x}
        PROVE  k = 1 /\ CanBind(x) /\ Bound(x, n)
    BY <1>3, <2>2 DEF WaitOpened, Insert, Bound
  <2> QED  BY <1>3, <2>1, <2>2
<1> HIDE DEF k
<1>9. Typed'
  <2>1. scope' \in Bindings /\ slot_of' \in Bindings
    BY <1>1, <1>8, BoundTyped DEF Typed
  <2>2. nodes' \in Nat /\ frontier' \subseteq Nat /\ ends' \subseteq Nat /\ jump_args_base' \in Nat
    BY <1>1, <1>2 DEF Typed
  <2> QED  BY <1>1, <1>7, <2>1, <2>2, TypedKept
<1>10. ASSUME NEW i \in 1 .. Len(stack'), stack'[i].kind \notin {"list", "wait"}
       PROVE  i \in 1 .. Len(stack) /\ stack'[i] = stack[i]
  <2>1. i # L /\ i # L + 1 /\ i # L + 2
    BY <1>4, <1>5, <1>6, <1>10
  <2> QED  BY <1>1, <1>4, <2>1 DEF Keeps
<1>11. SameWhens /\ SameLets /\ SameCalls
  BY <1>10 DEF SameWhens, SameLets, SameCalls
<1>12. Scopes'
  <2>1. \A i \in 1 .. Len(stack') : stack'[i].kind # "let"
    BY <1>1, <1>4, <1>10, ListOnTop DEF Top
  <2>2. CASE UNCHANGED << scope, slot_of >>
    BY <1>1, <1>11, <2>2, ScopesKept
  <2>3. ASSUME NEW x \in Names, CanBind(x), Bound(x, n)  PROVE Scopes'
    BY <1>1, <1>11, <2>1, <2>3, ScopesBound DEF Bound
  <2> QED  BY <1>8, <2>2, <2>3
<1>13. Bases' /\ Changed' /\ ~Super'
  BY <1>2, <1>4, <1>6, <1>11, BasesKept DEF Wellformed, Changed, Super, Top
<1>14. Numbered
  <2>1. ASSUME NEW i \in 1 .. Len(stack'), HasBlock(stack'[i]), i # L + 1
        PROVE  i \in 1 .. Len(stack) /\ stack'[i] = stack[i]
    <3>1. i # L + 2
      BY <1>4, <1>6, <2>1 DEF HasBlock, OpenCheck
    <3>2. i \in 1 .. L
      BY <1>1, <1>4, <2>1, <3>1
    <3>3. CASE i = L
      BY <1>1, <1>4, <3>2, <3>3 DEF Top
    <3>4. CASE i # L
      <4>1. i \in 1 .. m
        BY <1>1, <3>2, <3>4
      <4> QED  BY <1>4, <3>2, <4>1 DEF Keeps
    <3> QED  BY <3>3, <3>4
  <2> DEFINE l == L + 1
  <2>2. stack'[l].starts \subseteq 0 .. block_id + 1 /\ ex \subseteq 0 .. block_id + 1
    BY <1>1, <1>4, <1>5
  <2>3. /\ ~OpenCheck(stack'[l]) /\ ex # {} /\ stack'[l].block = Len(blocks) + 1
    BY <1>4, <1>5 DEF OpenCheck
  <2> HIDE DEF l, ex
  <2>4. \A i \in 1 .. Len(stack') : HasBlock(stack'[i]) =>
            i = l \/ (i \in 1 .. Len(stack) /\ stack'[i] = stack[i])
    BY <2>1 DEF l
  <2> QED  BY <1>7, <1>13, <2>2, <2>3, <2>4, NumbersOpen
<1>15. Wellformed'
  <2>1. Len(stack) = m + 1 /\ Len(stack') = m + 3
    BY <1>1, <1>4
  <2> HIDE DEF m
  <2>2. \/ Sums(m, 0) /\ slot_of' = slot_of
        \/ Sums(m, 1) /\ \E x \in Names : slot_of' = Override(slot_of, {x}, NextIndex(slot_of))
    BY <1>4, <1>8 DEF Bound
  <2> QED  BY <1>2, <1>4, <1>9, <1>12, <1>13, <1>14, <2>1, <2>2, NumberedKeeps
<1> QED  BY <1>3, <1>7, <1>15

(* The block of a wait at work takes the message first, and the filter that *)
(* is looked up when the handlers are compiled is the one that was there    *)
(* when the wait began, unless its name has been bound again.               *)
FilterRight(f) ==
    /\ f.filter \subseteq DOMAIN slot_of
    /\ Len(blocks[f.block].ops) > 0
    /\ blocks[f.block].ops[1].do = "take" /\ blocks[f.block].ops[1].node = f.node
    /\ f.node \in rebound \/ blocks[f.block].ops[1].reads = Folded(f.filter)
Filters == \A i \in 1 .. Len(stack) : stack[i].kind = "wait" => FilterRight(stack[i])

(* The block that looks for a message, with its filter and its exits.       *)
Filled == [blocks[Under.block].ops EXCEPT ![1].reads = Folded(Under.filter)]
WaitClosed ==
    /\ blocks' \in Seq(Block) /\ Len(blocks') = Len(blocks) /\ Len(blocks) \in Nat
    /\ Under.block \in 1 .. Len(blocks)
    /\ blocks'[Under.block] = NewBlock(Filled, blocks[Under.block].exit \cup Under.starts)
    /\ \A j \in 1 .. Len(blocks) : j # Under.block => blocks'[j] = blocks[j]

(* Only the operand of the first operation may change.                      *)
LEMMA FilledIs ==
    ASSUME Wellformed, Filters, Len(stack) > 2, Under \in WaitFrame
    PROVE  /\ Filled \in Seq(Operation) /\ Len(Filled) = Len(blocks[Under.block].ops)
           /\ \A k \in 1 .. Len(Filled) : k # 1 => Filled[k] = blocks[Under.block].ops[k]
           /\ LET old == blocks[Under.block].ops[1]
              IN  /\ Filled[1].do = old.do /\ Filled[1].node = old.node
                  /\ Filled[1].meant = old.meant /\ Filled[1].writes = old.writes
                  /\ \/ Filled[1] = old
                     \/ old.do = "take" /\ old.node # NoNode /\ old.node \in rebound
<1> DEFINE b == Under.block
           ops == blocks[b].ops
           r == Folded(Under.filter)
           old == ops[1]
           new == [old EXCEPT !.reads = r]
<1>1. Typed /\ Shape(stack) /\ Under.kind = "wait" /\ Len(stack) \in Nat
  BY ShapeTop DEF Wellformed, WaitFrame
<1>2. Under = stack[Len(stack) - 1] /\ Len(stack) - 1 \in 1 .. Len(stack)
  BY <1>1 DEF Under
<1>3. b \in 1 .. Len(blocks) /\ FilterRight(Under)
  BY <1>1, <1>2 DEF Wellformed, Checks_ok, HasBlock, Filters
<1>4. blocks[b] \in Block /\ ops \in Seq(Operation) /\ Len(ops) \in Nat /\ Len(ops) > 0
  <2>1. blocks[b] \in Block /\ Len(ops) > 0
    BY <1>1, <1>3 DEF Typed, FilterRight
  <2> HIDE DEF b
  <2>2. ops \in Seq(Operation)
    BY <2>1 DEF Block
  <2> HIDE DEF ops
  <2> QED  BY <2>1, <2>2, LenProperties
<1>5. r \in Int
  BY <1>1, <1>3, FoldedIs DEF FilterRight
<1>6. /\ old.do = "take" /\ old.node = Under.node /\ old.node # NoNode
      /\ Under.node \in rebound \/ old.reads = r
  BY <1>3 DEF FilterRight, WaitFrame, NoNode
<1>7. Filled = [ops EXCEPT ![1] = new]
  BY DEF Filled
<1> HIDE DEF ops, b, r
<1>8. old \in Operation
  BY <1>4
<1> HIDE DEF old
<1>9. /\ new \in Operation /\ new.do = old.do /\ new.node = old.node /\ new.meant = old.meant
      /\ new.writes = old.writes /\ (old.reads = r => new = old)
  BY <1>5, <1>8 DEF Operation
<1> HIDE DEF new
<1>10. /\ Filled \in Seq(Operation) /\ Len(Filled) = Len(ops) /\ Filled[1] = new
       /\ \A k \in 1 .. Len(ops) : k # 1 => Filled[k] = ops[k]
  BY <1>4, <1>7, <1>9, ExceptSeq
<1> QED  BY <1>6, <1>9, <1>10 DEF ops, b, old

(* CloseWait keeps the invariant.                                           *)
LEMMA CloseWaitKeeps ==
    ASSUME Wellformed, Filters, CloseWait
    PROVE  WaitClosed /\ Wellformed'
<1> DEFINE L == Len(stack)
           m == L - 3
           g == AfterWait
<1>1. /\ Typed /\ Shape(stack) /\ block_id \in Nat /\ L \in Nat /\ stack \in Seq(Frame) /\ Scopes
      /\ blocks \in Seq(Block) /\ Len(blocks) \in Nat
  BY ShapeTop DEF Wellformed, Typed
<1>2. /\ phase = "compile" /\ phase' = "compile" /\ frontier' = HandlerDone.outs
      /\ blocks' = [blocks EXCEPT ![Under.block].exit = @ \cup Under.starts,
                                  ![Under.block].ops[1].reads = Folded(Under.filter)]
      /\ UNCHANGED << nodes, ends, scope, block_id, branch_switch, slot_of, jump_args_base >>
  BY DEF CloseWait, InHandler
<1>3. /\ L > 2 /\ Top \in ListFrame /\ Top.of = "handler" /\ Under \in WaitFrame /\ FrameOK(Under)
      /\ stack[L - 2] \in ListFrame
      /\ Replaces(m, g) /\ g \in ListFrame /\ g.terminal /\ ~g.changed
      /\ Shape(stack') /\ Sums(m, 0)
  BY <1>1, CloseWaitStack
<1>4. g.kind = "list" /\ stack[L - 2].kind = "list" /\ HasBlock(Under)
  BY <1>3 DEF ListFrame, WaitFrame, HasBlock
<1> HIDE DEF g
<1>5. /\ Len(stack) = m + 3 /\ Keeps(stack, stack', m) /\ Len(stack') = m + 1 /\ stack'[m + 1] = g
      /\ Top' = g /\ m \in Nat /\ m + 1 = L - 2 /\ m + 2 \in 1 .. Len(stack)
      /\ stack[m + 2] = Under
  <2>1. m + 1 = L - 2 /\ m + 2 = L - 1 /\ m + 3 = L /\ m \in Nat
    BY <1>1, <1>3
  <2> HIDE DEF m
  <2>2. stack[m + 2] = Under /\ m + 2 \in 1 .. Len(stack)
    BY <2>1 DEF Under
  <2>3. Keeps(stack, stack', m) /\ Len(stack') = m + 1 /\ stack'[m + 1] = g
    BY <1>3 DEF Replaces
  <2> QED  BY <2>1, <2>2, <2>3 DEF Top
<1> HIDE DEF m
<1>6. Alike(stack[m + 1], g)
  BY <1>4, <1>5 DEF Alike
<1>7. SameWhens /\ SameLets /\ SameCalls /\ SameBlocks
  BY <1>3, <1>5, <1>6, ReplacedSame, ReplacedBlocks
<1>8. /\ Under.block \in 1 .. Len(blocks) /\ Under.starts \subseteq 0 .. block_id
      /\ blocks[Under.block].exit # {}
  BY <1>3, <1>4, <1>5 DEF Wellformed, Checks_ok, WaitFrame
<1>9. WaitClosed
  <2> DEFINE b == Under.block
             ex == blocks[b].exit \cup Under.starts
             new == NewBlock(Filled, ex)
             mid == [blocks[b] EXCEPT !.exit = @ \cup Under.starts]
  <2>1. blocks[b] \in Block /\ Under.starts \subseteq Nat
    BY <1>1, <1>8
  <2>2. ex \in SUBSET Nat
    BY <2>1 DEF Block
  <2>3. mid.ops = blocks[b].ops /\ [mid EXCEPT !.ops = Filled] = new
    <3> DEFINE u == [blocks[b] EXCEPT !.exit = ex]
    <3>1. u = mid
      OBVIOUS
    <3>2. u = [ops |-> blocks[b].ops, exit |-> ex]
      <4> HIDE DEF ex
      <4> QED  BY <2>1 DEF Block
    <3> HIDE DEF ex, u, mid
    <3>3. u.ops = blocks[b].ops /\ [u EXCEPT !.ops = Filled] = new
      BY <3>2 DEF NewBlock
    <3> QED  BY <3>1, <3>3
  <2>4. new \in Block
    <3> HIDE DEF ex
    <3>1. Filled \in Seq(Operation)
      BY <1>3, FilledIs
    <3> QED  BY <2>2, <3>1 DEF Block, NewBlock
  <2>5. blocks' = [blocks EXCEPT ![b] = [mid EXCEPT !.ops = Filled]]
    <3>1. blocks' = [blocks EXCEPT ![b] = [mid EXCEPT !.ops[1].reads = Folded(Under.filter)]]
      BY <1>1, <1>2, <1>8
    <3>2. [mid EXCEPT !.ops[1].reads = Folded(Under.filter)] = [mid EXCEPT !.ops = Filled]
      BY <2>3 DEF Filled
    <3> QED  BY <3>1, <3>2
  <2> HIDE DEF new, mid
  <2>6. blocks' = [blocks EXCEPT ![b] = new]
    BY <2>3, <2>5
  <2> HIDE DEF b
  <2>7. b \in 1 .. Len(blocks)
    BY <1>8 DEF b
  <2>8. /\ blocks' \in Seq(Block) /\ Len(blocks') = Len(blocks) /\ blocks'[b] = new
        /\ \A j \in 1 .. Len(blocks) : j # b => blocks'[j] = blocks[j]
    BY <1>1, <2>4, <2>6, <2>7, ExceptSeq
  <2> QED  BY <1>1, <2>7, <2>8 DEF WaitClosed, b, new
<1>10. Typed'
  <2>1. frontier' \subseteq Nat
    BY <1>1, <1>2, <1>3, HandlerDoneIs DEF Typed
  <2> QED  BY <1>1, <1>2, <1>9, <2>1 DEF Typed, WaitClosed
<1>11. Scopes' /\ Bases' /\ Changed' /\ ~Super'
  BY <1>1, <1>2, <1>3, <1>5, <1>7, ScopesKept, BasesKept DEF Wellformed, Changed, Super
<1>12. ASSUME NEW i \in 1 .. Len(stack'), HasBlock(stack'[i])
       PROVE  /\ i \in 1 .. Len(stack) /\ stack'[i] = stack[i] /\ HasBlock(stack[i])
              /\ blocks'[stack[i].block] = blocks[stack[i].block]
  <2>1. i \in 1 .. Len(stack) /\ stack'[i] = stack[i] /\ HasBlock(stack[i])
    BY <1>12, <1>7 DEF SameBlocks
  <2>2. i < m + 2
    BY <1>5
  <2>3. stack[i].block # Under.block /\ stack[i].block \in 1 .. Len(blocks)
    BY <1>4, <1>5, <2>1, <2>2 DEF Wellformed, Checks_ok
  <2> QED  BY <1>9, <2>1, <2>3 DEF WaitClosed
<1>13. Checks_ok'
  <2>1. ASSUME NEW i \in 1 .. Len(stack'), HasBlock(stack'[i])
        PROVE  stack'[i].block \in 1 .. Len(blocks') /\ stack'[i].starts \subseteq 0 .. block_id'
    BY <1>2, <1>9, <1>12, <2>1 DEF WaitClosed, Wellformed, Checks_ok
  <2>2. ASSUME NEW i \in 1 .. Len(stack'), OpenCheck(stack'[i])
        PROVE  /\ blocks'[stack'[i].block].exit = {}
               /\ stack'[i].redirects \subseteq 0 .. block_id' - 1
    BY ZenonT(40), <1>2, <1>12, <2>2 DEF Wellformed, Checks_ok, HasBlock
  <2>3. ASSUME NEW i \in 1 .. Len(stack'), stack'[i].kind = "wait"
        PROVE  blocks'[stack'[i].block].exit # {}
    BY ZenonT(40), <1>12, <2>3 DEF Wellformed, Checks_ok, HasBlock
  <2>4. ASSUME NEW i \in 1 .. Len(stack'), NEW j \in 1 .. Len(stack'), i < j,
               HasBlock(stack'[i]), HasBlock(stack'[j])
        PROVE  stack'[i].block # stack'[j].block
    BY <1>12, <2>4 DEF Wellformed, Checks_ok
  <2> QED  BY <2>1, <2>2, <2>3, <2>4 DEF Checks_ok
<1>14. Exits_ok' /\ Super_ok'
  <2>1. ASSUME NEW j \in 1 .. Len(blocks')  PROVE blocks'[j].exit \subseteq 0 .. block_id'
    <3>1. blocks[j].exit \subseteq 0 .. block_id /\ j \in 1 .. Len(blocks)
      BY <1>9, <2>1 DEF WaitClosed, Wellformed, Exits_ok
    <3>2. CASE j = Under.block
      BY <1>2, <1>8, <1>9, <3>1, <3>2 DEF WaitClosed, NewBlock
    <3>3. CASE j # Under.block
      BY <1>2, <1>9, <3>1, <3>3 DEF WaitClosed
    <3> QED  BY <3>2, <3>3
  <2> QED  BY <1>11, <2>1 DEF Exits_ok, Super_ok
<1>15. Numbered
  BY <1>13, <1>14 DEF Numbered
<1>16. slot_of' = slot_of
  BY <1>2
<1>17. Wellformed'
  BY <1>2, <1>3, <1>5, <1>10, <1>11, <1>15, <1>16, NumberedKeeps
<1> QED  BY <1>9, <1>17

(* A wait that has one handler gets no second one.                          *)
LEMMA OneHandler ==
    ASSUME Wellformed, NextHandler, MaxHandlers = 1
    PROVE  FALSE
<1>1. Top.kind = "list" /\ Top.of = "handler" /\ Cardinality(Under.starts) < MaxHandlers
  BY DEF NextHandler, InHandler
<1>2. Under \in WaitFrame /\ FrameOK(Under)
  <2>1. /\ Len(stack) > 2 /\ stack[Len(stack) - 1] \in WaitFrame /\ Len(stack) \in Nat
    BY <1>1, UnderHandler, ShapeTop DEF Wellformed, Top
  <2> QED  BY <2>1, ShapeTop DEF Wellformed, Under
<1>3. PICK s \in Nat : Under.starts = {s}
  BY <1>2 DEF FrameOK, WaitFrame
<1>4. Cardinality(Under.starts) = 1
  BY <1>3, FS_Singleton
<1> QED  BY <1>1, <1>4

(* A step of the program that runs changes nothing the compiler built.      *)
LEMMA UnchangedKeeps ==
    ASSUME Wellformed, UNCHANGED << nodes, frontier, scope, compilerVars >>, ends' \subseteq Nat,
           phase' = phase \/ (phase' = "run" /\ Len(stack) = 1)
    PROVE  Wellformed'
<1> USE DEF Wellformed, compilerVars
<1>1. Typed'
  BY DEF Typed
<1>2. Shape(stack') /\ Counts' /\ Bases' /\ Changed'
  BY DEF Counts, Bases, Changed, Top
<1>3. Scopes'
  BY DEF Scopes, CanBind
<1>4. Exits_ok' /\ Checks_ok'
  BY DEF Exits_ok, Checks_ok
<1>5. Super_ok'
  BY DEF Super_ok, Super, Top
<1> QED  BY <1>1, <1>2, <1>3, <1>4, <1>5

(* The invariant holds of a branch before its first statement.              *)
LEMMA WellformedInit ==
    ASSUME BlockInit
    PROVE  Wellformed
<1> DEFINE c == CHOOSE y \in Names : TRUE
<1>1. c \in Names
  BY BlockAssumption
<1>2. /\ phase = "compile" /\ nodes = 0 /\ frontier = {0} /\ ends = {}
      /\ scope = [ x \in DOMAIN slot_of |-> 0 ]
      /\ block_id = 0 /\ blocks = << >> /\ branch_switch = << >> /\ jump_args_base = 0
  BY DEF BlockInit
<1>3. PICK patterns \in {1, 2} :
        slot_of = [ x \in {c} |-> patterns - 1 ] /\ stack = << List("branch", patterns) >>
  BY DEF BlockInit
<1> HIDE DEF c
<1> DEFINE f == List("branch", patterns)
<1>4. /\ f \in ListFrame /\ f \in Frame /\ FrameOK(f) /\ Atop(f) /\ SlotsOf(f) = patterns
      /\ f.kind = "list" /\ f.of = "branch" /\ f.super = 0 /\ ~f.changed
  BY <1>3, ListIs
<1> HIDE DEF f
<1>5. /\ stack \in Seq(Frame) /\ Len(stack) = 1 /\ stack[1] = f /\ Top = f
      /\ \A i \in 1 .. Len(stack) : i = 1 /\ stack[i] = f
  BY <1>3, <1>4 DEF Top, f
<1>6. DOMAIN slot_of = {c} /\ slot_of[c] = patterns - 1 /\ slot_of \in Bindings /\ scope \in Bindings
  <2>1. slot_of \in [{c} -> Nat] /\ DOMAIN slot_of = {c} /\ slot_of[c] = patterns - 1
    BY <1>3
  <2>2. scope \in [{c} -> Nat]
    BY <1>2, <2>1
  <2> QED  BY <1>1, <2>1, <2>2 DEF Bindings
<1>7. Typed
  <2>1. blocks \in Seq(Block) /\ Len(blocks) = 0 /\ DOMAIN branch_switch = {}
    BY <1>2
  <2>2. branch_switch \in [DOMAIN branch_switch -> 1 .. Len(blocks)]
    BY <1>2, <2>1
  <2> QED  BY <1>2, <1>6, <2>1, <2>2 DEF Typed
<1>8. Shape(stack)
  BY <1>4, <1>5 DEF Shape
<1>9. Counts
  <2>1. UsedIn(slot_of, patterns)
    BY <1>6 DEF UsedIn
  <2>2. Part(stack, 1, patterns)
    <3> DEFINE T == [ i \in 0 .. 1 |-> IF i = 0 THEN 0 ELSE patterns ]
    <3>1. T \in [0 .. 1 -> Nat] /\ T[0] = 0 /\ T[1] = patterns
      OBVIOUS
    <3>2. \A i \in 1 .. 1 : T[i] = T[i - 1] + SlotsOf(stack[i])
      BY <1>4, <1>5, <3>1
    <3> HIDE DEF T
    <3> QED  BY <3>1, <3>2 DEF Part
  <2>3. patterns \in Nat
    OBVIOUS
  <2> QED  BY <1>5, <2>1, <2>2, <2>3 DEF Counts
<1>10. Bases /\ Changed
  BY <1>4, <1>5 DEF Bases, Changed
<1>11. Scopes
  BY <1>2, <1>4, <1>5, <1>6 DEF Scopes
<1>12. Exits_ok /\ Checks_ok /\ Super_ok
  BY <1>2, <1>4, <1>5 DEF Exits_ok, Checks_ok, Super_ok, Super, HasBlock, OpenCheck
<1> QED  BY <1>2, <1>5, <1>7, <1>8, <1>9, <1>10, <1>11, <1>12 DEF Wellformed

\* The waits at work are old ones, blocks begin as they did, and a name that
\* gets another slot is noted for the waits whose filter it is.
OldWait(i) == i \in 1 .. Len(stack) /\ stack'[i] = stack[i]
WaitsStay == \A i \in 1 .. Len(stack') : stack'[i].kind = "wait" => OldWait(i)
SameStart(j) == Len(blocks[j].ops) > 0
    => Len(blocks'[j].ops) > 0 /\ blocks'[j].ops[1] = blocks[j].ops[1]
FirstsStay == \A j \in 1 .. Len(blocks) : SameStart(j)
NamesNoted ==
    \/ UNCHANGED slot_of /\ rebound \subseteq rebound'
    \/ \E x \in Names : \E v : Bound(x, v) /\ Rebinds({x})

(* The filter of a wait at work is still the one it was, or noted.          *)
LEMMA FilterKept ==
    ASSUME Wellformed, Shape(stack'), Filters, NamesNoted,
           NEW i \in 1 .. Len(stack'), stack'[i].kind = "wait", OldWait(i),
           SameStart(stack[i].block)
    PROVE  FilterRight(stack[i])'
<1> DEFINE f == stack[i]
           op == blocks[f.block].ops[1]
<1>1. /\ i \in 1 .. Len(stack) /\ stack'[i] = f /\ f.kind = "wait"
      /\ f.filter \subseteq DOMAIN slot_of
      /\ Len(blocks[f.block].ops) > 0 /\ op.do = "take" /\ op.node = f.node
      /\ f.node \in rebound \/ op.reads = Folded(f.filter)
  BY DEF Filters, FilterRight, OldWait
<1>2. Len(blocks'[f.block].ops) > 0 /\ blocks'[f.block].ops[1] = op
  BY <1>1 DEF SameStart
<1>3. /\ f.filter \subseteq DOMAIN slot_of' /\ rebound \subseteq rebound'
      /\ f.node \in rebound' \/ Folded(f.filter)' = Folded(f.filter)
  <2>1. CASE UNCHANGED slot_of /\ rebound \subseteq rebound'
    BY <1>1, <2>1 DEF Folded
  <2>2. ASSUME NEW x \in Names, NEW v, Bound(x, v), Rebinds({x})
        PROVE  /\ f.filter \subseteq DOMAIN slot_of' /\ rebound \subseteq rebound'
               /\ f.node \in rebound' \/ Folded(f.filter)' = Folded(f.filter)
    <3>1. /\ DOMAIN slot_of' = DOMAIN slot_of \cup {x}
          /\ \A y \in DOMAIN slot_of : y # x => slot_of'[y] = slot_of[y]
      BY <2>2 DEF Bound, Override
    <3>2. rebound \subseteq rebound'
      BY <2>2 DEF Rebinds
    <3>3. CASE x \in f.filter
      <4>1. i \in DOMAIN stack'
        BY ShapeTop DEF Shape
      <4> QED  BY <1>1, <2>2, <3>1, <3>2, <3>3, <4>1 DEF Rebinds
    <3>4. CASE x \notin f.filter
      <4>1. f.filter # {} => (CHOOSE y \in f.filter : TRUE) \in f.filter
        OBVIOUS
      <4>2. Folded(f.filter)' = Folded(f.filter)
        <5>1. CASE f.filter = {}
          BY <1>1, <5>1 DEF Folded
        <5>2. CASE f.filter # {}
          <6>1. PICK y : y = CHOOSE z \in f.filter : TRUE
            OBVIOUS
          <6>2. y \in f.filter /\ y # x /\ y \in DOMAIN slot_of
            BY <1>1, <3>4, <4>1, <5>2, <6>1
          <6>3. Folded(f.filter) = slot_of[y] /\ Folded(f.filter)' = slot_of'[y]
            BY <1>1, <5>2, <6>1 DEF Folded
          <6> QED  BY <3>1, <6>2, <6>3
        <5> QED  BY <5>1, <5>2
      <4> QED  BY <1>1, <3>1, <3>2, <4>2
    <3> QED  BY <3>3, <3>4
  <2> QED  BY <2>1, <2>2 DEF NamesNoted
<1> QED  BY <1>1, <1>2, <1>3 DEF FilterRight

(* A step that writes a block of its own, lengthens one or ends a when      *)
(* leaves the first operation of every block.                               *)
LEMMA FirstsKept ==
    ASSUME Wellformed,
           \/ UNCHANGED blocks
           \/ \E ops, ex : Emitted(ops, ex)
           \/ Super /\ \E op : Joined(op)
           \/ \E wildcard \in BOOLEAN : WhenClosed(wildcard)
    PROVE  FirstsStay
<1>1. CASE UNCHANGED blocks
  BY <1>1 DEF FirstsStay, SameStart
<1>2. CASE \E ops, ex : Emitted(ops, ex)
  BY <1>2 DEF FirstsStay, SameStart, Emitted
<1>3. ASSUME Super, NEW op, Joined(op)
      PROVE  FirstsStay
  <2> DEFINE b == Top.super
             old == blocks[b].ops
  <2>1. b \in 1 .. Len(blocks) /\ blocks \in Seq(Block) /\ Len(old) > 0
        /\ blocks'[b].ops = Append(old, op)
        /\ \A j \in 1 .. Len(blocks) : j # b => blocks'[j] = blocks[j]
    BY <1>3 DEF Joined, NewBlock, Super_ok, Wellformed, Typed
  <2>2. old \in Seq(Operation)
    <3>1. blocks[b] \in Block
      BY <2>1
    <3> QED  BY <3>1 DEF Block
  <2> HIDE DEF old, b
  <2>3. Len(Append(old, op)) > 0 /\ Append(old, op)[1] = old[1]
    BY <2>1, <2>2
  <2> QED  BY <2>1, <2>3 DEF FirstsStay, SameStart, old
<1>4. ASSUME NEW wildcard \in BOOLEAN, WhenClosed(wildcard)
      PROVE  FirstsStay
  BY <1>4 DEF FirstsStay, SameStart, WhenClosed
<1> QED  BY <1>1, <1>2, <1>3, <1>4

(* Waits that stay keep their filters.                                      *)
LEMMA FiltersKept ==
    ASSUME Wellformed, Shape(stack'), Filters, WaitsStay, FirstsStay, NamesNoted
    PROVE  Filters'
<1> SUFFICES ASSUME NEW i \in 1 .. Len(stack'), stack'[i].kind = "wait"
             PROVE  FilterRight(stack[i])'
  BY DEF Filters
<1>1. OldWait(i)
  BY DEF WaitsStay
<1>2. stack[i].block \in 1 .. Len(blocks)
  BY <1>1 DEF OldWait, Wellformed, Checks_ok, HasBlock
<1> QED  BY <1>1, <1>2, FilterKept DEF FirstsStay

(* Frames that own a block are old ones, so waits are.                      *)
LEMMA WaitsKept ==
    ASSUME SameBlocks
    PROVE  WaitsStay
BY DEF SameBlocks, HasBlock, WaitsStay, OldWait

(* Every step of compiler and program keeps the invariant.                  *)
LEMMA WellformedNext ==
    ASSUME Wellformed, Filters, [BlockNext]_blockVars, MaxHandlers = 1
    PROVE  Wellformed'
<1>1. CASE Pure
  BY <1>1, PureKeeps
<1>2. CASE PureLet
  BY <1>2, PureLetKeeps
<1>3. CASE FusedCall \/ TupleLiteral
  BY <1>3, OwnBlockKeeps DEF FusedCall, TupleLiteral
<1>4. CASE StringLiteral
  <2>1. [slot |-> NoNode, meant |-> << >>] \in Reads
    BY DEF Reads
  <2> QED  BY <1>4, <2>1, OwnBlockKeeps DEF StringLiteral
<1>5. CASE FusedSelf
  BY <1>5, FusedSelfKeeps
<1>6. CASE OpenLet \/ CloseLet
  BY <1>6, OpenLetKeeps, CloseLetKeeps
<1>7. CASE OpenCall \/ StageArg \/ CloseCall
  BY <1>7, OpenCallKeeps, StageArgKeeps, CloseCallKeeps
<1>8. CASE OpenWhen \/ FirstArm \/ KTable \/ NextArm \/ CloseWhen
  BY <1>8, OpenWhenKeeps, FirstArmKeeps, KTableKeeps, NextArmKeeps, CloseWhenKeeps
<1>9. CASE OpenWait
  BY <1>9, OpenWaitKeeps
<1>10. CASE NextHandler
  BY <1>10, OneHandler
<1>11. CASE CloseWait
  BY <1>11, CloseWaitKeeps
<1>12. CASE RunBranch
  <2>1. /\ UNCHANGED << nodes, frontier, scope, compilerVars >> /\ ends' = ends \cup frontier
        /\ phase' = "run" /\ Len(stack) = 1
    BY <1>12 DEF RunBranch
  <2>2. ends' \subseteq Nat
    BY <2>1 DEF Wellformed, Typed
  <2> QED  BY <2>1, <2>2, UnchangedKeeps
<1>13. CASE Execute \/ Redirect \/ UNCHANGED blockVars
  <2>1. /\ UNCHANGED << nodes, frontier, scope, compilerVars >> /\ ends' = ends /\ phase' = phase
    BY <1>13 DEF Execute, Redirect, blockVars, sourceVars
  <2>2. ends' \subseteq Nat
    BY <2>1 DEF Wellformed, Typed
  <2> QED  BY <2>1, <2>2, UnchangedKeeps
<1> QED  BY <1>1, <1>2, <1>3, <1>4, <1>5, <1>6, <1>7, <1>8, <1>9, <1>10, <1>11, <1>12, <1>13
         DEF BlockNext

(* A fast statement or expression.                                          *)
LEMMA FastFilters ==
    ASSUME Wellformed, Wellformed', Filters, NamesNoted, NEW op, NEW k, Added(op, k)
    PROVE  Filters'
<1>1. WaitsStay /\ FirstsStay
  BY WaitsKept, FirstsKept DEF Added
<1> QED  BY <1>1, FiltersKept DEF Wellformed

(* A step that writes a block or none, and leaves the waits.                *)
LEMMA StepFilters ==
    ASSUME Wellformed, Wellformed', Filters, WaitsStay, NamesNoted,
           \/ UNCHANGED blocks
           \/ \E ops, ex : Emitted(ops, ex)
           \/ \E wildcard \in BOOLEAN : WhenClosed(wildcard)
    PROVE  Filters'
<1>1. FirstsStay
  BY FirstsKept
<1> QED  BY <1>1, FiltersKept DEF Wellformed

(* An arm's list and its check are no waits.                                *)
LEMMA ArmFilters ==
    ASSUME NEW m, NEW g, Opens(m, g, List("arm", 0)), g \in WhenFrame
    PROVE  WaitsStay
<1>1. List("arm", 0).kind = "list"
  BY ListIs
<1>2. g.kind = "when"
  BY DEF WhenFrame
<1>3. /\ m \in Nat /\ m < Len(stack) /\ \A i \in 1 .. m : stack'[i] = stack[i]
      /\ Len(stack') = m + 2 /\ stack'[m + 1] = g /\ stack'[m + 2].kind = "list"
  BY <1>1 DEF Opens, Keeps
<1> SUFFICES ASSUME NEW i \in 1 .. Len(stack'), stack'[i].kind = "wait"
             PROVE  OldWait(i)
  BY DEF WaitsStay
<1>4. i # m + 1 /\ i # m + 2
  BY <1>2, <1>3
<1>5. i \in 1 .. m
  BY <1>3, <1>4
<1>6. Len(stack) \in Nat
  BY DEF Opens, Keeps
<1> QED  BY <1>3, <1>5, <1>6 DEF OldWait

(* A wait that begins looks its filter up as it is, or notes that its       *)
(* handler binds the name.                                                  *)
LEMMA OpenWaitFilters ==
    ASSUME Wellformed, Wellformed', Filters, OpenWait
    PROVE  Filters'
<1> DEFINE L == Len(stack)
           n == nodes + 1
<1>1. PICK xs \in {{}} \cup { {x} : x \in Names }, filter \in SUBSET DOMAIN scope :
        WaitOpened(xs, filter) /\ Emitted(<< WaitOp(xs, filter) >>, {block_id})
  BY OpenWaitKeeps
<1>2. /\ Typed /\ Scopes /\ L \in Nat /\ L > 0 /\ Shape(stack') /\ stack' \in Seq(Frame)
  BY ShapeTop DEF Wellformed
<1>0. PICK f : f = WaitOf(filter)
  OBVIOUS
<1>3. /\ f.kind = "wait" /\ f.node = n /\ f.block = Len(blocks) + 1 /\ f.filter = filter
  BY <1>0 DEF WaitOf
<1>4. /\ Len(stack') = L + 2 /\ stack'[L] = Top /\ stack'[L + 1] = f
      /\ stack'[L + 2].kind = "list" /\ Top.kind = "list"
      /\ \A i \in 1 .. L - 1 : stack'[i] = stack[i]
  <2>1. /\ Len(stack') = L + 2 /\ stack'[L] = Top /\ stack'[L + 1] = f /\ Top.kind = "list"
        /\ stack'[L + 2] = List("handler", IF xs = {} THEN 0 ELSE 1)
        /\ Keeps(stack, stack', L - 1)
    BY <1>0, <1>1 DEF WaitOpened, WantsStatement
  <2> DEFINE k == IF xs = {} THEN 0 ELSE 1
  <2>2. k \in Nat
    OBVIOUS
  <2>3. List("handler", k).kind = "list"
    BY <2>2, ListIs
  <2> QED  BY <2>1, <2>3 DEF Keeps
<1>5. /\ L + 1 \in DOMAIN stack' /\ FirstsStay
  BY <1>1, <1>2, <1>4, FirstsKept
<1>6. rebound' = rebound \cup { stack'[i].node : i \in { j \in DOMAIN stack' :
                                  stack'[j].kind = "wait" /\ stack'[j].filter \cap xs # {} } }
  BY <1>1 DEF WaitOpened, Rebinds
<1>7. NamesNoted
  <2>1. CASE xs = {}
    BY <1>1, <1>6, <2>1 DEF WaitOpened, NamesNoted
  <2>2. ASSUME NEW x \in Names, xs = {x}
        PROVE  NamesNoted
    <3>1. Bound(x, n) /\ Rebinds({x})
      BY <1>1, <2>2 DEF WaitOpened, Insert, Bound
    <3> QED  BY <3>1 DEF NamesNoted
  <2> QED  BY <1>1, <2>1, <2>2
<1>8. FilterRight(f)'
  <2>1. /\ Len(blocks) \in Nat /\ blocks'[Len(blocks) + 1].ops = << WaitOp(xs, filter) >>
    BY <1>1 DEF Emitted, NewBlock
  <2>2. /\ WaitOp(xs, filter).do = "take" /\ WaitOp(xs, filter).node = n
        /\ WaitOp(xs, filter).reads = Folded(filter)
    BY DEF WaitOp, Op
  <2>3. DOMAIN slot_of \subseteq DOMAIN slot_of' /\ filter \subseteq DOMAIN slot_of
    <3>1. CASE UNCHANGED slot_of
      BY <1>2, <3>1 DEF Scopes
    <3>2. ASSUME NEW x, NEW v, Bound(x, v)
          PROVE  DOMAIN slot_of \subseteq DOMAIN slot_of' /\ filter \subseteq DOMAIN slot_of
      BY <1>2, <3>2 DEF Scopes, Bound, Override
    <3> QED  BY <1>7, <3>1, <3>2 DEF NamesNoted
  <2>4. n \in rebound' \/ Folded(filter)' = Folded(filter)
    <3>1. CASE xs \cap filter # {}
      BY <1>3, <1>4, <1>5, <1>6, <3>1
    <3>2. CASE xs \cap filter = {}
      <4>1. CASE filter = {}
        BY <4>1 DEF Folded
      <4>2. CASE filter # {}
        <5>1. PICK y : y = CHOOSE z \in filter : TRUE
          OBVIOUS
        <5>2. y \in filter /\ y \notin xs /\ y \in DOMAIN slot_of
          BY <2>3, <3>2, <4>2, <5>1
        <5>3. Folded(filter) = slot_of[y] /\ Folded(filter)' = slot_of'[y]
          BY <4>2, <5>1 DEF Folded
        <5>4. slot_of'[y] = slot_of[y]
          <6>1. CASE xs = {}
            BY <1>1, <6>1 DEF WaitOpened
          <6>2. ASSUME NEW x \in Names, xs = {x}
                PROVE  slot_of'[y] = slot_of[y]
            BY <1>1, <5>2, <6>2 DEF WaitOpened, Insert, Override
          <6> QED  BY <1>1, <6>1, <6>2
        <5> QED  BY <5>3, <5>4
      <4> QED  BY <4>1, <4>2
    <3> QED  BY <3>1, <3>2
  <2>5. Folded(f.filter)' = Folded(filter)'
    BY <1>3
  <2>6. /\ blocks'[f.block].ops[1].do = "take" /\ blocks'[f.block].ops[1].node = n
        /\ blocks'[f.block].ops[1].reads = Folded(filter)
        /\ Len(blocks'[f.block].ops) > 0
    BY <1>3, <2>1, <2>2
  <2>7. f.filter \subseteq DOMAIN slot_of'
    BY <1>3, <2>3
  <2>8. f.node \in rebound' \/ blocks'[f.block].ops[1].reads = Folded(filter)'
    BY <1>3, <2>4, <2>6
  <2> QED  BY <1>3, <2>6, <2>7, <2>8 DEF FilterRight
<1>9. ASSUME NEW i \in 1 .. Len(stack'), stack'[i].kind = "wait"
      PROVE  FilterRight(stack[i])'
  <2>1. CASE i = L + 1
    BY <1>4, <1>8, <2>1
  <2>2. CASE i # L + 1
    <3>1. i \in 1 .. L - 1
      BY <1>2, <1>4, <1>9, <2>2
    <3>2. OldWait(i)
      BY <1>2, <1>4, <3>1 DEF OldWait
    <3>3. stack[i].block \in 1 .. Len(blocks)
      BY <1>9, <3>2 DEF OldWait, Wellformed, Checks_ok, HasBlock
    <3> QED  BY <1>2, <1>5, <1>7, <1>9, <3>2, <3>3, FilterKept DEF FirstsStay
  <2> QED  BY <2>1, <2>2
<1> QED  BY <1>9 DEF Filters

(* The end of a wait changes no block of another.                           *)
LEMMA CloseWaitFilters ==
    ASSUME Wellformed, Wellformed', Filters, CloseWait
    PROVE  Filters'
<1>1. /\ Len(stack) > 2 /\ Under \in WaitFrame /\ Replaces(Len(stack) - 3, AfterWait)
      /\ Len(stack) \in Nat /\ Shape(stack') /\ WaitClosed
  BY CloseWaitStack, CloseWaitKeeps, ShapeTop DEF Wellformed
<1> DEFINE m == Len(stack) - 3
<1>2. /\ Keeps(stack, stack', m) /\ Len(stack') = m + 1 /\ stack[m + 2] = Under
      /\ m + 2 \in 1 .. Len(stack) /\ HasBlock(Under) /\ m \in Nat
  BY <1>1 DEF Replaces, Under, WaitFrame, HasBlock
<1> HIDE DEF m
<1>3. SameBlocks
  BY <1>1, <1>2, ReplacedBlocks
<1>4. NamesNoted
  BY DEF CloseWait, NamesNoted
<1> SUFFICES ASSUME NEW i \in 1 .. Len(stack'), stack'[i].kind = "wait"
             PROVE  FilterRight(stack[i])'
  BY DEF Filters
<1>5. OldWait(i) /\ HasBlock(stack[i]) /\ i < m + 2
  BY <1>2, <1>3 DEF SameBlocks, HasBlock, OldWait
<1>6. stack[i].block \in 1 .. Len(blocks) /\ stack[i].block # Under.block
  BY <1>2, <1>5 DEF OldWait, Wellformed, Checks_ok
<1>7. SameStart(stack[i].block)
  BY <1>1, <1>6 DEF SameStart, WaitClosed
<1> QED  BY <1>1, <1>4, <1>5, <1>7, FilterKept

(* Every step keeps the filters of the waits at work.                       *)
LEMMA FiltersNext ==
    ASSUME Wellformed, Wellformed', Filters, [BlockNext]_blockVars, MaxHandlers = 1
    PROVE  Filters'
<1>1. CASE Pure
  <2>1. NamesNoted
    BY <1>1 DEF Pure, NamesNoted
  <2> QED  BY <1>1, <2>1, PureKeeps, FastFilters
<1>2. CASE PureLet
  <2>1. NamesNoted
    BY <1>2 DEF PureLet, Insert, Bound, NamesNoted
  <2> QED  BY <1>2, <2>1, PureLetKeeps, FastFilters
<1>3. ASSUME NEW r \in Reads, OwnBlock(r)
      PROVE  Filters'
  <2>1. NamesNoted
    BY <1>3 DEF OwnBlock, NamesNoted
  <2> QED  BY <1>3, <2>1, OwnBlockKeeps, WaitsKept, StepFilters
<1>4. CASE FusedCall \/ TupleLiteral \/ StringLiteral
  <2>1. [slot |-> NoNode, meant |-> << >>] \in Reads
    BY DEF Reads
  <2> QED  BY <1>3, <1>4, <2>1 DEF FusedCall, TupleLiteral, StringLiteral
<1>5. CASE FusedSelf
  <2>1. NamesNoted
    BY <1>5 DEF FusedSelf, NamesNoted
  <2> QED  BY <1>5, <2>1, FusedSelfKeeps, WaitsKept, StepFilters
<1>6. CASE OpenLet
  <2>1. NamesNoted /\ UNCHANGED blocks
    BY <1>6 DEF OpenLet, sourceVars, NamesNoted
  <2> QED  BY <1>6, <2>1, OpenLetKeeps, WaitsKept, StepFilters
<1>7. CASE CloseLet
  <2>1. Top.name \in Names
    <3>1. Top \in LetFrame
      BY <1>7, UnderLet DEF CloseLet, Wellformed, Top
    <3> QED  BY <3>1 DEF LetFrame
  <2>2. NamesNoted
    BY <1>7, <2>1 DEF CloseLet, Insert, Bound, NamesNoted
  <2> QED  BY <1>7, <2>2, CloseLetKeeps, WaitsKept, StepFilters
<1>8. CASE OpenCall
  <2>1. NamesNoted /\ UNCHANGED blocks
    BY <1>8 DEF OpenCall, sourceVars, NamesNoted
  <2> QED  BY <1>8, <2>1, OpenCallKeeps, WaitsKept, StepFilters
<1>9. CASE StageArg
  <2>1. NamesNoted
    BY <1>9 DEF StageArg, sourceVars, NamesNoted
  <2> QED  BY <1>9, <2>1, StageArgKeeps, WaitsKept, StepFilters
<1>10. CASE CloseCall
  <2>1. NamesNoted
    BY <1>10 DEF CloseCall, NamesNoted
  <2> QED  BY <1>10, <2>1, CloseCallKeeps, WaitsKept, StepFilters
<1>11. CASE OpenWhen
  <2>1. NamesNoted /\ UNCHANGED blocks
    BY <1>11 DEF OpenWhen, sourceVars, NamesNoted
  <2> QED  BY <1>11, <2>1, OpenWhenKeeps, WaitsKept, StepFilters
<1>12. CASE FirstArm
  <2>1. NamesNoted
    BY <1>12 DEF FirstArm, NamesNoted
  <2>2. WaitsStay
    BY <1>12, FirstArmStack, ArmFilters DEF Wellformed
  <2> QED  BY <1>12, <2>1, <2>2, FirstArmKeeps, StepFilters
<1>13. CASE KTable
  <2>1. NamesNoted
    BY <1>13 DEF KTable, NamesNoted
  <2> QED  BY <1>13, <2>1, KTableKeeps, WaitsKept, StepFilters
<1>14. CASE NextArm
  <2>1. NamesNoted /\ UNCHANGED blocks
    BY <1>14 DEF NextArm, NamesNoted
  <2>2. WaitsStay
    BY <1>14, NextArmStack, ArmFilters DEF Wellformed
  <2> QED  BY <2>1, <2>2, StepFilters
<1>15. CASE CloseWhen
  <2>1. NamesNoted
    BY <1>15 DEF CloseWhen, NamesNoted
  <2>2. SameBlocks
    <3>1. Replaces(Len(stack) - 3, AfterList(ArmDone.slots)) /\ Shape(stack')
      BY <1>15, CloseWhenStack DEF Wellformed
    <3> QED  BY <3>1, ReplacedBlocks DEF Replaces
  <2> QED  BY <1>15, <2>1, <2>2, WhenClosedIs, WaitsKept, StepFilters
<1>16. CASE OpenWait
  BY <1>16, OpenWaitFilters
<1>17. CASE NextHandler
  BY <1>17, OneHandler
<1>18. CASE CloseWait
  BY <1>18, CloseWaitFilters
<1>19. CASE RunBranch \/ Execute \/ Redirect \/ UNCHANGED blockVars
  <2>1. UNCHANGED << stack, blocks, slot_of, rebound >>
    BY <1>19 DEF RunBranch, Execute, Redirect, blockVars, sourceVars, compilerVars
  <2> QED  BY <2>1 DEF Filters, FilterRight, Folded
<1> QED  BY <1>1, <1>2, <1>4, <1>5, <1>6, <1>7, <1>8, <1>9, <1>10, <1>11, <1>12, <1>13, <1>14,
            <1>15, <1>16, <1>17, <1>18, <1>19 DEF BlockNext

(* No wait is at work before the first statement.                           *)
LEMMA FiltersInit ==
    ASSUME BlockInit
    PROVE  Filters
<1>1. PICK patterns \in {1, 2} : stack = << List("branch", patterns) >>
  BY DEF BlockInit
<1>2. List("branch", patterns).kind = "list"
  BY ListIs
<1> QED  BY <1>1, <1>2 DEF Filters

(* When a wait has one handler, a branch is compiled in good order for any  *)
(* nesting of lets, calls, whens and waits: handlers stand on the stack as  *)
(* their expressions are nested, the slots counted are exactly those given  *)
(* out, an inner call's arguments never overlap an outer call's, a name     *)
(* keeps its slot while it is in scope, and every exit leads to a number    *)
(* given out or to the next one.                                            *)
THEOREM BlocksWellformed ==
    ASSUME MaxHandlers = 1
    PROVE  BlockSpec => []Wellformed
<1>1. BlockInit => Wellformed /\ Filters
  BY WellformedInit, FiltersInit
<1>2. Wellformed /\ Filters /\ [BlockNext]_blockVars => Wellformed' /\ Filters'
  BY WellformedNext, FiltersNext
<1> QED  BY <1>1, <1>2, PTL DEF BlockSpec

(* The slots that the branch reserves are as many as its code uses          *)
(* (SlotsFit): every index that BranchState::insert gives out is below the  *)
(* count that comes back from compiling the branch.                         *)
THEOREM SlotsAlwaysFit ==
    ASSUME MaxHandlers = 1
    PROVE  BlockSpec => []SlotsFit
<1>1. Wellformed => SlotsFit
  <2> SUFFICES ASSUME Wellformed, phase # "compile"
               PROVE  NextIndex(slot_of) <= stack[1].slots
    BY DEF SlotsFit
  <2>1. Len(stack) = 1 /\ stack[1] \in Frame /\ stack[1].kind = "list"
    BY ShapeTop DEF Wellformed, Shape
  <2>2. PICK n \in Nat : UsedIn(slot_of, n) /\ Part(stack, 1, n)
    BY <2>1 DEF Wellformed, Counts
  <2>3. NextIndex(slot_of) = n
    BY <2>2, NextIndexIs DEF Wellformed, Typed
  <2>4. n = stack[1].slots
    <3>1. PICK T \in [0 .. 1 -> Nat] :
            T[0] = 0 /\ T[1] = n /\ \A i \in 1 .. 1 : T[i] = T[i - 1] + SlotsOf(stack[i])
      BY <2>2 DEF Part
    <3>2. T[1] = T[0] + SlotsOf(stack[1])
      BY <3>1
    <3>3. SlotsOf(stack[1]) = stack[1].slots /\ stack[1].slots \in Nat
      BY <2>1, FrameKinds DEF SlotsOf, ListFrame
    <3> QED  BY <3>1, <3>2, <3>3
  <2> QED  BY <2>3, <2>4
<1> QED  BY <1>1, BlocksWellformed, PTL

-----------------------------------------------------------------------------
(* What the machine does with a block: an operation takes it from one       *)
(* configuration to the next.                                               *)
Store == UNION { [S -> Int] : S \in SUBSET Int }
Memory == [temp : Int, args : Store, slots : Store]
Config == [to : Int, mem : Memory]

(* What an operation leaves, and what it reads: the filter of a wait after   *)
(* the words of the message are stored.                                     *)
PostMem(op, m) ==
    [temp  |-> IF op.do \in {"temp", "call", "table"} THEN op.node ELSE m.temp,
     args  |-> IF op.do = "stage" THEN Override(m.args, {op.writes}, m.temp) ELSE m.args,
     slots |-> IF op.do = "save" THEN Override(m.slots, {op.writes}, m.temp)
               ELSE IF op.writes # NoNode /\ op.do \in {"set", "take"}
               THEN Override(m.slots, {op.writes}, op.node)
               ELSE m.slots]
Saw(op, m) ==
    CASE op.do \in {"call", "self"} -> [ i \in DOMAIN op.meant |-> Word(m.args, op.reads + i - 1) ]
      [] op.do \in {"save", "stage", "check", "table"} ->
             IF op.meant = << >> THEN << >> ELSE << m.temp >>
      [] OTHER -> IF op.reads = NoNode THEN << >>
                  ELSE << Word(IF op.do = "take" THEN PostMem(op, m).slots ELSE m.slots, op.reads) >>
Post(op, c) == [to |-> IF op.node = NoNode THEN c.to ELSE op.node, mem |-> PostMem(op, c.mem)]
(* It reads what it should, unless it is a filter bound again, and its node  *)
(* comes next in the source.                                                *)
Good(es, rs, op, c) ==
    /\ \/ op.do = "take" /\ op.node # NoNode /\ op.node \in rs
       \/ Saw(op, c.mem) = op.meant
    /\ op.node # NoNode /\ op.node # c.to => << c.to, op.node >> \in es

(* The value that was written last is there, all others are unharmed.       *)
LEMMA StoreIs ==
    ASSUME NEW f \in Store, NEW w \in Int, NEW v \in Int
    PROVE  /\ Override(f, {w}, v) \in Store
           /\ Word(Override(f, {w}, v), w) = v
           /\ \A i : i # w => Word(Override(f, {w}, v), i) = Word(f, i)
<1> DEFINE t == Override(f, {w}, v)
<1>1. PICK S \in SUBSET Int : f \in [S -> Int]
  BY DEF Store
<1>2. DOMAIN t = S \cup {w} /\ \A i \in S \cup {w} : t[i] = IF i = w THEN v ELSE f[i]
  BY <1>1 DEF Override
<1>3. t \in [S \cup {w} -> Int]
  BY <1>1, <1>2 DEF Override
<1>4. t \in Store
  BY <1>3 DEF Store
<1>5. Word(t, w) = v
  BY <1>2 DEF Word
<1>6. ASSUME NEW i, i # w  PROVE Word(t, i) = Word(f, i)
  BY <1>1, <1>2, <1>6 DEF Word
<1> QED  BY <1>4, <1>5, <1>6

(* An operation leads to a configuration.                                   *)
LEMMA PostIs ==
    ASSUME NEW op \in Operation, NEW c \in Config
    PROVE  /\ Post(op, c) \in Config
           /\ Post(op, c).to = IF op.node = NoNode THEN c.to ELSE op.node
           /\ Post(op, c).mem = PostMem(op, c.mem)
           /\ c.mem \in Memory /\ c.mem.temp \in Int /\ c.mem.args \in Store /\ c.mem.slots \in Store
<1>1. c.mem \in Memory /\ c.mem.temp \in Int /\ c.mem.args \in Store /\ c.mem.slots \in Store
  BY DEF Config, Memory
<1>2. op.node \in Int /\ op.writes \in Int
  BY DEF Operation
<1>3. PostMem(op, c.mem) \in Memory
  <2> DEFINE m == c.mem
             a == PostMem(op, m).temp
             b == PostMem(op, m).args
             d == PostMem(op, m).slots
  <2>1. a \in Int
    BY <1>1, <1>2 DEF PostMem
  <2>2. b \in Store
    <3>1. b = IF op.do = "stage" THEN Override(m.args, {op.writes}, m.temp) ELSE m.args
      BY DEF PostMem
    <3>2. Override(m.args, {op.writes}, m.temp) \in Store
      BY <1>1, <1>2, StoreIs
    <3> QED  BY <1>1, <3>1, <3>2
  <2>3. d \in Store
    <3>1. d = IF op.do = "save" THEN Override(m.slots, {op.writes}, m.temp)
              ELSE IF op.writes # NoNode /\ op.do \in {"set", "take"}
              THEN Override(m.slots, {op.writes}, op.node)
              ELSE m.slots
      BY DEF PostMem
    <3>2. Override(m.slots, {op.writes}, m.temp) \in Store
          /\ Override(m.slots, {op.writes}, op.node) \in Store
      BY <1>1, <1>2, StoreIs
    <3> QED  BY <1>1, <3>1, <3>2
  <2>4. PostMem(op, m) = [temp |-> a, args |-> b, slots |-> d]
    BY DEF PostMem
  <2> HIDE DEF a, b, d
  <2> QED  BY <2>1, <2>2, <2>3, <2>4 DEF Memory
<1>4. c.to \in Int
  BY DEF Config
<1> QED  BY <1>1, <1>2, <1>3, <1>4 DEF Post, Config

(* The names in scope, the value under way and the staged arguments are     *)
(* where the compiler takes them to be.                                     *)
HoldsIn(so, names, m) == \A x \in DOMAIN names : Word(m.slots, so[x]) = names[x]
TempIs(f, m) == f.kind # "list" /\ f.value # NoNode => m.temp = f.value
StagedIn(st, m) ==
    \A i \in 1 .. Len(st) : st[i].kind = "call" =>
        \A k \in 1 .. Len(st[i].args) : Word(m.args, st[i].base + k - 1) = st[i].args[k]
Here == { c \in Config : /\ c.to \in frontier /\ HoldsIn(slot_of, scope, c.mem)
                         /\ TempIs(Top, c.mem) /\ StagedIn(stack, c.mem) }

(* A certificate: the configurations P[id] that enter the number id, and    *)
(* those, A[j][k], in which block j has done k operations.                  *)
Out(A, j) == A[j][Len(blocks[j].ops)]
(* Each operation is right wherever the block may be entered.               *)
OpsRight(A) == \A j \in 1 .. Len(blocks) : \A k \in 1 .. Len(blocks[j].ops) : \A c \in A[j][k - 1] :
    Good(edges, rebound, blocks[j].ops[k], c) /\ Post(blocks[j].ops[k], c) \in A[j][k]
(* What leaves a block enters the numbers it names, or the branch ends.     *)
ExitsRight(P, A) == \A j \in 1 .. Len(blocks) : \A e \in blocks[j].exit : Out(A, j) \subseteq P[e]
EndsRight(A) == \A j \in 1 .. Len(blocks) : blocks[j].exit = {} =>
    \/ \E i \in 1 .. Len(stack) : OpenCheck(stack[i]) /\ stack[i].block = j
    \/ \A c \in Out(A, j) : c.to \in ends
(* What enters a number enters its block; other numbers are those of        *)
(* redirects that are not yet written.                                      *)
EntriesRight(P, A) == \A id \in DOMAIN branch_switch : P[id] \subseteq A[branch_switch[id]][0]
UnusedRight(P) == \A id \in 0 .. block_id - 1 : id \notin DOMAIN branch_switch =>
    P[id] = {} \/ \E i \in 1 .. Len(stack) : OpenCheck(stack[i]) /\ id \in stack[i].redirects
(* What the arms and handlers still to come rely on.                        *)
FramesRight(P, A) == \A i \in 1 .. Len(stack) :
    /\ HasBlock(stack[i]) => \A s \in stack[i].starts : Out(A, stack[i].block) \subseteq P[s]
    /\ OpenCheck(stack[i]) =>
        /\ stack[i].starts # {}
        /\ \A c \in Out(A, stack[i].block) :
                c.to = stack[i].node /\ HoldsIn(slot_of, stack[i].scope, c.mem)
        /\ \A r \in stack[i].redirects : \A c \in P[r] :
                c.to \in stack[i].outs /\ HoldsIn(slot_of, stack[i].scope, c.mem)
(* A certificate for all that is compiled so far.                           *)
Certified(P, A) ==
    /\ P \in [Nat -> SUBSET Config] /\ A \in [Nat -> [Nat -> SUBSET Config]]
    /\ OpsRight(A) /\ ExitsRight(P, A) /\ EndsRight(A) /\ EntriesRight(P, A)
    /\ UnusedRight(P) /\ P[block_id] \subseteq Here /\ FramesRight(P, A)
    /\ phase = "compile" => [to |-> last.to, mem |-> mem] \in P[0]
    /\ phase = "run" =>
        /\ frontier \subseteq ends
        /\ at.block = 0 => last.to \in ends
        /\ at.block # 0 => /\ at.block \in 1 .. Len(blocks)
                           /\ at.done \in 0 .. Len(blocks[at.block].ops)
                           /\ [to |-> last.to, mem |-> mem] \in A[at.block][at.done]
(* Compiler and program together.                                           *)
Correct ==
    /\ Wellformed /\ Filters /\ FollowsSource /\ OperandsIntact /\ at \in [block : Nat, done : Nat]
    /\ \E P, A : Certified(P, A)

-----------------------------------------------------------------------------
(* The certificate of the next state.                                       *)
\* The checks that are open stay open, and what their arms rely on stays.
OpensStay == \A i \in 1 .. Len(stack) : OpenCheck(stack[i]) =>
    i \in 1 .. Len(stack') /\ stack'[i] = stack[i]
SlotsStay == \A i \in 1 .. Len(stack) : OpenCheck(stack[i]) =>
    \A x \in DOMAIN stack[i].scope : slot_of'[x] = slot_of[x]
SourceGrows == edges \subseteq edges' /\ ends \subseteq ends' /\ rebound \subseteq rebound'
Started == /\ phase = "compile" /\ phase' = "compile"
           /\ UNCHANGED << mem, last >>

(* A step that leaves every open check below m leaves all of them.          *)
LEMMA OpensKept ==
    ASSUME Shape(stack), NEW m, Keeps(stack, stack', m),
           \A i \in 1 .. Len(stack) : i > m => ~OpenCheck(stack[i])
    PROVE  OpensStay
<1>1. /\ m \in Nat /\ m < Len(stack) /\ m < Len(stack') /\ Len(stack) \in Nat /\ Len(stack') \in Nat
      /\ \A i \in 1 .. m : stack'[i] = stack[i]
  BY ShapeTop DEF Keeps
<1>2. ASSUME NEW i \in 1 .. Len(stack), OpenCheck(stack[i])
      PROVE  i \in 1 .. Len(stack') /\ stack'[i] = stack[i]
  <2>1. i \in 1 .. m
    BY <1>1, <1>2
  <2> QED  BY <1>1, <2>1
<1> QED  BY <1>2 DEF OpensStay

(* Names keep their slots.                                                  *)
LEMMA SlotsKept ==
    ASSUME Wellformed,
           \/ UNCHANGED slot_of
           \/ \E x \in Names : \E v : CanBind(x) /\ Bound(x, v)
    PROVE  SlotsStay
<1>1. CASE UNCHANGED slot_of
  BY <1>1 DEF SlotsStay
<1>2. ASSUME NEW x \in Names, NEW v, CanBind(x), Bound(x, v)
      PROVE  SlotsStay
  <2> SUFFICES ASSUME NEW i \in 1 .. Len(stack), OpenCheck(stack[i]),
                      NEW y \in DOMAIN stack[i].scope
               PROVE  slot_of'[y] = slot_of[y]
    BY DEF SlotsStay
  <2>1. stack[i].kind = "when" /\ i \in DOMAIN stack
    BY ShapeTop DEF OpenCheck, Wellformed
  <2>2. x \notin DOMAIN scope
    BY <1>2, <2>1 DEF CanBind
  <2>3. y \in DOMAIN scope /\ y \in DOMAIN slot_of
    BY <2>1 DEF Wellformed, Scopes, Extends
  <2> QED  BY <1>2, <2>2, <2>3 DEF Bound, Override
<1> QED  BY <1>1, <1>2

\* Steps that write no block and take no number.
LEMMA CertifiedSame ==
    ASSUME Wellformed, NEW P, NEW A, Certified(P, A), Started, SourceGrows,
           UNCHANGED << block_id, blocks, branch_switch >>,
           SameBlocks, OpensStay, SlotsStay, Here \subseteq Here'
    PROVE  Certified(P, A)'
<1> USE DEF Certified, Started, SourceGrows
<1>1. OpsRight(A)'
  <2>1. \A op, c : Good(edges, rebound, op, c) => Good(edges', rebound', op, c)
    BY DEF Good
  <2> QED  BY <2>1 DEF OpsRight
<1>2. ExitsRight(P, A)'
  BY DEF ExitsRight, Out
<1>3. EndsRight(A)'
  <2> SUFFICES ASSUME NEW j \in 1 .. Len(blocks), blocks[j].exit = {}
               PROVE  \/ \E i \in 1 .. Len(stack') : OpenCheck(stack'[i]) /\ stack'[i].block = j
                      \/ \A c \in A[j][Len(blocks[j].ops)] : c.to \in ends'
    BY DEF EndsRight, Out
  <2> QED  BY DEF EndsRight, Out, OpensStay
<1>4. EntriesRight(P, A)'
  BY DEF EntriesRight
<1>5. UnusedRight(P)'
  <2> SUFFICES ASSUME NEW id \in 0 .. block_id - 1, id \notin DOMAIN branch_switch, P[id] # {}
               PROVE  \E i \in 1 .. Len(stack') : OpenCheck(stack'[i]) /\ id \in stack'[i].redirects
    BY DEF UnusedRight
  <2> QED  BY DEF UnusedRight, OpensStay
<1>6. FramesRight(P, A)'
  <2>1. ASSUME NEW i \in 1 .. Len(stack'), HasBlock(stack'[i])
        PROVE  \A s \in stack'[i].starts : A[stack'[i].block][Len(blocks'[stack'[i].block].ops)] \subseteq P[s]
    BY <2>1 DEF FramesRight, SameBlocks, Out
  <2>2. ASSUME NEW i \in 1 .. Len(stack'), OpenCheck(stack'[i])
        PROVE  /\ stack'[i].starts # {}
               /\ \A c \in A[stack'[i].block][Len(blocks'[stack'[i].block].ops)] :
                     c.to = stack'[i].node /\ HoldsIn(slot_of', stack'[i].scope, c.mem)
               /\ \A r \in stack'[i].redirects : \A c \in P[r] :
                     c.to \in stack'[i].outs /\ HoldsIn(slot_of', stack'[i].scope, c.mem)
    <3>1. i \in 1 .. Len(stack) /\ stack'[i] = stack[i] /\ OpenCheck(stack[i])
      BY <2>2 DEF SameBlocks, HasBlock
    <3>2. /\ stack[i].starts # {}
          /\ \A c \in A[stack[i].block][Len(blocks[stack[i].block].ops)] :
                c.to = stack[i].node /\ HoldsIn(slot_of, stack[i].scope, c.mem)
          /\ \A r \in stack[i].redirects : \A c \in P[r] :
                c.to \in stack[i].outs /\ HoldsIn(slot_of, stack[i].scope, c.mem)
      BY <3>1 DEF FramesRight, Out
    <3>3. \A x \in DOMAIN stack[i].scope : slot_of'[x] = slot_of[x]
      BY <3>1 DEF SlotsStay
    <3>4. \A m : HoldsIn(slot_of, stack[i].scope, m) => HoldsIn(slot_of', stack[i].scope, m)
      BY <3>3 DEF HoldsIn
    <3> QED  BY <3>1, <3>2, <3>4
  <2> QED  BY <2>1, <2>2 DEF FramesRight, Out, OpenCheck, HasBlock
<1> QED  BY <1>1, <1>2, <1>3, <1>4, <1>5, <1>6

\* A frame that a step leaves as it is, and one that waits on the block just written.
SameFrame(i) == i \in 1 .. Len(stack) /\ stack'[i] = stack[i]
NewFrame(i, O, H) ==
    /\ stack'[i].block = Len(blocks) + 1 /\ stack'[i].starts = {block_id + 1} /\ O \subseteq H
    /\ OpenCheck(stack'[i]) =>
        /\ stack'[i].redirects = {}
        /\ \A c \in O : c.to = stack'[i].node /\ HoldsIn(slot_of', stack'[i].scope, c.mem)

(* A block of one operation under the next number: what entered the number  *)
(* enters the block, and what leaves it enters the numbers it names.        *)
LEMMA CertifiedEmit ==
    ASSUME Wellformed, NEW P, NEW A, Certified(P, A), Started, SourceGrows, SlotsStay, OpensStay,
           NEW op, NEW ex \in SUBSET {block_id, block_id + 1}, Emitted(<< op >>, ex),
           NEW G \in SUBSET Config, NEW O \in SUBSET Config, NEW H \in SUBSET Config,
           H \subseteq Here', P[block_id] \subseteq G,
           \A c \in G : Good(edges', rebound', op, c) /\ Post(op, c) \in O,
           block_id \in ex => O \subseteq G, block_id + 1 \in ex => O \subseteq H,
           \A i \in 1 .. Len(stack') : HasBlock(stack'[i]) => SameFrame(i) \/ NewFrame(i, O, H),
           ex = {} => \/ \A c \in O : c.to \in ends'
                      \/ \E i \in 1 .. Len(stack') : OpenCheck(stack'[i]) /\ NewFrame(i, O, H)
    PROVE  \E P2, A2 : Certified(P2, A2)'
<1> USE DEF Certified, Started, SourceGrows
<1>1. block_id \in Nat /\ block_id' = block_id + 1 /\ Len(blocks) \in Nat
  BY DEF Wellformed, Typed, Emitted
<1>2. PICK b, n : b = block_id /\ n = Len(blocks) + 1
  OBVIOUS
<1>3. b \in Nat /\ b + 1 \in Nat /\ b # b + 1 /\ n \in Nat /\ b + 1 # 0
  BY <1>1, <1>2
<1>4. PICK P2 : P2 = [ id \in Nat |-> IF id = b + 1 THEN H ELSE IF id = b THEN G ELSE P[id] ]
  OBVIOUS
<1>5. PICK A2 : A2 = [ j \in Nat |-> IF j = n THEN [ k \in Nat |-> IF k = 0 THEN G ELSE O ] ELSE A[j] ]
  OBVIOUS
<1>6. /\ P2 \in [Nat -> SUBSET Config] /\ P2[b + 1] = H /\ P2[b] = G
      /\ \A id \in Nat : id # b /\ id # b + 1 => P2[id] = P[id]
  BY <1>3, <1>4
<1>7. /\ A2 \in [Nat -> [Nat -> SUBSET Config]]
      /\ A2[n][0] = G /\ A2[n][1] = O
      /\ \A j \in Nat : j # n => A2[j] = A[j]
  <2>1. [ k \in Nat |-> IF k = 0 THEN G ELSE O ] \in [Nat -> SUBSET Config]
    OBVIOUS
  <2>2. A2 \in [Nat -> [Nat -> SUBSET Config]]
    BY <1>5, <2>1
  <2>3. A2[n] = [ k \in Nat |-> IF k = 0 THEN G ELSE O ]
    BY <1>3, <1>5
  <2> QED  BY <1>5, <2>2, <2>3
<1>8. /\ Len(blocks') = n /\ n - 1 = Len(blocks) /\ n \in 1 .. n
      /\ \A j \in 1 .. n : j = n \/ j \in 1 .. Len(blocks)
      /\ \A j \in 1 .. Len(blocks) : j # n /\ j \in Nat /\ blocks'[j] = blocks[j] /\ j \in 1 .. n
      /\ blocks'[n].ops = << op >> /\ blocks'[n].exit = ex /\ Len(<< op >>) = 1
  BY <1>1, <1>2 DEF Emitted, NewBlock
<1>9. \A j \in 1 .. Len(blocks) : A2[j][Len(blocks'[j].ops)] = Out(A, j)
  BY <1>7, <1>8 DEF Out
<1>10. A2[n][Len(blocks'[n].ops)] = O
  BY <1>7, <1>8
<1>11. \A id \in 0 .. b : P[id] \subseteq P2[id]
  <2> SUFFICES ASSUME NEW id \in 0 .. b  PROVE P[id] \subseteq P2[id]
    OBVIOUS
  <2>1. id \in Nat /\ id # b + 1
    BY <1>3
  <2> QED  BY <1>2, <1>6, <2>1
<1> HIDE DEF Certified
<1>12. OpsRight(A2)'
  <2> SUFFICES ASSUME NEW j \in 1 .. n, NEW k \in 1 .. Len(blocks'[j].ops), NEW c \in A2[j][k - 1]
               PROVE  Good(edges', rebound', blocks'[j].ops[k], c) /\ Post(blocks'[j].ops[k], c) \in A2[j][k]
    BY <1>8 DEF OpsRight
  <2>1. CASE j = n
    <3>1. k = 1
      <4>1. blocks'[j].ops = << op >> /\ Len(<< op >>) = 1
        BY <1>8, <2>1
      <4>2. k \in 1 .. 1
        BY <4>1
      <4> QED  BY <4>2
    <3>2. blocks'[j].ops[k] = op /\ k - 1 = 0
      <4>1. << op >>[1] = op
        OBVIOUS
      <4> QED  BY <1>8, <2>1, <3>1, <4>1
    <3> QED  BY <1>7, <2>1, <3>1, <3>2
  <2>2. CASE j \in 1 .. Len(blocks)
    <3>1. A2[j] = A[j] /\ blocks'[j] = blocks[j]
      BY <1>7, <1>8, <2>2
    <3>2. Good(edges, rebound, blocks[j].ops[k], c) /\ Post(blocks[j].ops[k], c) \in A[j][k]
      BY <2>2, <3>1 DEF Certified, OpsRight
    <3> QED  BY <3>1, <3>2 DEF Good
  <2> QED  BY <1>8, <2>1, <2>2
<1>13. ExitsRight(P2, A2)'
  <2> SUFFICES ASSUME NEW j \in 1 .. n, NEW e \in blocks'[j].exit
               PROVE  A2[j][Len(blocks'[j].ops)] \subseteq P2[e]
    BY <1>8 DEF ExitsRight, Out
  <2>1. CASE j = n
    BY ZenonT(40), <1>2, <1>6, <1>8, <1>10, <2>1
  <2>2. CASE j \in 1 .. Len(blocks)
    <3>1. e \in 0 .. b /\ e \in blocks[j].exit
      BY <1>2, <1>8, <2>2 DEF Wellformed, Exits_ok
    <3>2. Out(A, j) \subseteq P[e]
      BY <2>2, <3>1 DEF Certified, ExitsRight
    <3> QED  BY <1>9, <1>11, <2>2, <3>1, <3>2
  <2> QED  BY <1>8, <2>1, <2>2
<1>14. EndsRight(A2)'
  <2> SUFFICES ASSUME NEW j \in 1 .. n, blocks'[j].exit = {}
               PROVE  \/ \E i \in 1 .. Len(stack') : OpenCheck(stack'[i]) /\ stack'[i].block = j
                      \/ \A c \in A2[j][Len(blocks'[j].ops)] : c.to \in ends'
    BY <1>8 DEF EndsRight, Out
  <2>1. CASE j = n
    BY <1>2, <1>8, <1>10, <2>1 DEF NewFrame
  <2>2. CASE j \in 1 .. Len(blocks)
    <3>1. \/ \E i \in 1 .. Len(stack) : OpenCheck(stack[i]) /\ stack[i].block = j
          \/ \A c \in Out(A, j) : c.to \in ends
      BY <1>8, <2>2 DEF Certified, EndsRight
    <3>2. CASE \E i \in 1 .. Len(stack) : OpenCheck(stack[i]) /\ stack[i].block = j
      BY <3>2 DEF OpensStay
    <3> QED  BY <1>9, <2>2, <3>1, <3>2
  <2> QED  BY <1>8, <2>1, <2>2
<1>15. EntriesRight(P2, A2)'
  <2> SUFFICES ASSUME NEW id \in DOMAIN branch_switch'
               PROVE  P2[id] \subseteq A2[branch_switch'[id]][0]
    BY DEF EntriesRight
  <2>1. CASE id = b
    BY <1>2, <1>6, <1>7, <2>1 DEF Emitted
  <2>2. CASE id \in DOMAIN branch_switch /\ id # b
    <3>1. branch_switch'[id] = branch_switch[id] /\ branch_switch[id] \in 1 .. Len(blocks)
      BY <2>2 DEF Emitted, Wellformed, Typed
    <3>2. id \in 0 .. b - 1
      BY <1>2, <2>2 DEF Wellformed, Typed
    <3>3. id \in Nat /\ id # b + 1
      BY <1>3, <3>2
    <3>4. P2[id] = P[id] /\ A2[branch_switch[id]] = A[branch_switch[id]]
      BY <1>6, <1>7, <1>8, <2>2, <3>1, <3>3
    <3> QED  BY <2>2, <3>1, <3>4 DEF Certified, EntriesRight
  <2> QED  BY <1>2, <2>1, <2>2 DEF Emitted
<1>16. UnusedRight(P2)'
  <2> SUFFICES ASSUME NEW id \in 0 .. b, id \notin DOMAIN branch_switch'
               PROVE  \/ P2[id] = {}
                      \/ \E i \in 1 .. Len(stack') : OpenCheck(stack'[i]) /\ id \in stack'[i].redirects
    <3>1. block_id' - 1 = b
      BY <1>1, <1>2
    <3> QED  BY <3>1 DEF UnusedRight
  <2>1. id # b /\ id \notin DOMAIN branch_switch
    BY <1>2 DEF Emitted
  <2>2. id \in 0 .. b - 1 /\ id \in Nat /\ id # b + 1
    BY <1>3, <2>1
  <2>3. P2[id] = P[id]
    BY <1>6, <2>1, <2>2
  <2>4. \/ P[id] = {}
        \/ \E i \in 1 .. Len(stack) : OpenCheck(stack[i]) /\ id \in stack[i].redirects
    BY <1>2, <2>1, <2>2 DEF Certified, UnusedRight
  <2> QED  BY <2>3, <2>4 DEF OpensStay
<1>17. P2[block_id'] \subseteq Here'
  BY <1>1, <1>2, <1>6
<1>18. FramesRight(P2, A2)'
  <2>1. ASSUME NEW i \in 1 .. Len(stack'), HasBlock(stack'[i])
        PROVE  \A s \in stack'[i].starts :
                  A2[stack'[i].block][Len(blocks'[stack'[i].block].ops)] \subseteq P2[s]
    <3>1. CASE SameFrame(i)
      <4>1. HasBlock(stack[i]) /\ i \in 1 .. Len(stack)
        BY <2>1, <3>1 DEF SameFrame
      <4>2. stack[i].block \in 1 .. Len(blocks) /\ stack[i].starts \subseteq 0 .. b
        BY <1>2, <4>1 DEF Wellformed, Checks_ok
      <4>3. \A s \in stack[i].starts : Out(A, stack[i].block) \subseteq P[s]
        BY <4>1 DEF Certified, FramesRight
      <4> QED  BY <1>9, <1>11, <3>1, <4>2, <4>3 DEF SameFrame
    <3>2. CASE NewFrame(i, O, H)
      BY <1>2, <1>6, <1>10, <3>2 DEF NewFrame
    <3> QED  BY <2>1, <3>1, <3>2
  <2>2. ASSUME NEW i \in 1 .. Len(stack'), OpenCheck(stack'[i])
        PROVE  /\ stack'[i].starts # {}
               /\ \A c \in A2[stack'[i].block][Len(blocks'[stack'[i].block].ops)] :
                     c.to = stack'[i].node /\ HoldsIn(slot_of', stack'[i].scope, c.mem)
               /\ \A r \in stack'[i].redirects : \A c \in P2[r] :
                     c.to \in stack'[i].outs /\ HoldsIn(slot_of', stack'[i].scope, c.mem)
    <3>1. CASE SameFrame(i)
      <4>1. OpenCheck(stack[i]) /\ HasBlock(stack[i]) /\ i \in 1 .. Len(stack)
        BY <2>2, <3>1 DEF SameFrame, HasBlock
      <4>2. stack[i].block \in 1 .. Len(blocks) /\ stack[i].redirects \subseteq 0 .. b - 1
        BY <1>2, <4>1 DEF Wellformed, Checks_ok
      <4>3. /\ stack[i].starts # {}
            /\ \A c \in Out(A, stack[i].block) :
                  c.to = stack[i].node /\ HoldsIn(slot_of, stack[i].scope, c.mem)
            /\ \A r \in stack[i].redirects : \A c \in P[r] :
                  c.to \in stack[i].outs /\ HoldsIn(slot_of, stack[i].scope, c.mem)
        BY <4>1 DEF Certified, FramesRight
      <4>4. \A m : HoldsIn(slot_of, stack[i].scope, m) => HoldsIn(slot_of', stack[i].scope, m)
        BY <4>1 DEF SlotsStay, HoldsIn
      <4>5. \A r \in 0 .. b - 1 : r \in Nat /\ r # b /\ r # b + 1
        BY <1>3
      <4>6. \A r \in stack[i].redirects : P2[r] = P[r]
        BY <1>6, <4>2, <4>5
      <4> QED  BY <1>9, <3>1, <4>2, <4>3, <4>4, <4>6 DEF SameFrame
    <3>2. CASE NewFrame(i, O, H)
      BY <1>2, <1>10, <2>2, <3>2 DEF NewFrame
    <3> QED  BY <2>2, <3>1, <3>2 DEF HasBlock
  <2> QED  BY <2>1, <2>2 DEF FramesRight, Out, OpenCheck, HasBlock
<1>19. [to |-> last'.to, mem |-> mem'] \in P2[0]
  BY <1>3, <1>11 DEF Certified
<1>20. Certified(P2, A2)'
  BY <1>6, <1>7, <1>12, <1>13, <1>14, <1>15, <1>16, <1>17, <1>18, <1>19 DEF Certified
<1> QED  BY <1>20

(* A statement that joins the super-block: nothing else named the number it *)
(* would have had, and the block now leaves for the next one.               *)
LEMMA CertifiedJoin ==
    ASSUME Wellformed, NEW P, NEW A, Certified(P, A), Started, SourceGrows, SlotsStay, OpensStay,
           NEW op, Super, Joined(op), SameBlocks,
           NEW H \in SUBSET Config, H \subseteq Here',
           \A c \in Here : Good(edges', rebound', op, c) /\ Post(op, c) \in H
    PROVE  \E P2, A2 : Certified(P2, A2)'
<1> USE DEF Certified, Started, SourceGrows
<1>1. block_id \in Nat /\ block_id' = block_id + 1 /\ Len(blocks) \in Nat /\ block_id > 0
  BY DEF Wellformed, Typed, Joined, Super_ok
<1>2. PICK b, n, l : b = block_id /\ n = Top.super /\ l = Len(blocks[n].ops) + 1
  OBVIOUS
<1>3. /\ n \in 1 .. Len(blocks) /\ n \in Nat /\ blocks[n].exit = {b} /\ blocks[n].ops \in Seq(Operation)
      /\ \A j \in 1 .. Len(blocks) : j # n => b \notin blocks[j].exit
      /\ \A i \in 1 .. Len(stack) : HasBlock(stack[i]) => stack[i].block # n /\ b \notin stack[i].starts
  <2>1. \A j \in 1 .. Len(blocks) : blocks[j] \in Block
    BY DEF Wellformed, Typed
  <2> QED  BY <1>1, <1>2, <2>1 DEF Wellformed, Super_ok, Block
<1>4. /\ b \in Nat /\ b + 1 \in Nat /\ b # b + 1 /\ b # 0 /\ b + 1 # 0
      /\ l \in Nat /\ l - 1 = Len(blocks[n].ops) /\ l - 1 # l /\ l # 0 /\ l - 1 \in Nat
      /\ \A k \in 1 .. l - 1 : k \in Nat /\ k # l /\ k - 1 # l /\ k - 1 \in Nat
      /\ \A k \in 1 .. l : k = l \/ k \in 1 .. l - 1
  <2>1. b \in Nat /\ b + 1 \in Nat /\ b # b + 1 /\ b # 0 /\ b + 1 # 0
    BY <1>1, <1>2
  <2>2. l \in Nat /\ l - 1 = Len(blocks[n].ops) /\ l # 0
    <3>1. Len(blocks[n].ops) \in Nat
      BY <1>3, LenProperties
    <3> QED  BY <1>2, <3>1
  <2>3. l - 1 # l /\ l - 1 \in Nat
    BY <2>2
  <2>4. \A k \in 1 .. l - 1 : k \in Nat /\ k # l /\ k - 1 # l /\ k - 1 \in Nat
    BY <2>2
  <2>5. \A k \in 1 .. l : k = l \/ k \in 1 .. l - 1
    BY <2>2
  <2> QED  BY <2>1, <2>2, <2>3, <2>4, <2>5
<1>5. PICK P2 : P2 = [ id \in Nat |-> IF id = b + 1 THEN H ELSE IF id = b THEN {} ELSE P[id] ]
  OBVIOUS
<1>6. PICK A2 : A2 = [ j \in Nat |-> IF j = n THEN [ k \in Nat |-> IF k = l THEN H ELSE A[n][k] ]
                                     ELSE A[j] ]
  OBVIOUS
<1>7. /\ P2 \in [Nat -> SUBSET Config] /\ P2[b + 1] = H /\ P2[b] = {}
      /\ \A id \in Nat : id # b /\ id # b + 1 => P2[id] = P[id]
  BY <1>4, <1>5
<1>8. /\ A2 \in [Nat -> [Nat -> SUBSET Config]]
      /\ A2[n][l] = H
      /\ \A k \in Nat : k # l => A2[n][k] = A[n][k]
      /\ \A j \in Nat : j # n => A2[j] = A[j]
  <2>1. [ k \in Nat |-> IF k = l THEN H ELSE A[n][k] ] \in [Nat -> SUBSET Config]
    BY <1>3
  <2>2. A2 \in [Nat -> [Nat -> SUBSET Config]]
    BY <1>6, <2>1
  <2>3. A2[n] = [ k \in Nat |-> IF k = l THEN H ELSE A[n][k] ]
    BY <1>3, <1>6
  <2> QED  BY <1>4, <1>6, <2>2, <2>3
<1>9. /\ Len(blocks') = Len(blocks)
      /\ \A j \in 1 .. Len(blocks) : j \in Nat
      /\ \A j \in 1 .. Len(blocks) : j # n => blocks'[j] = blocks[j]
      /\ blocks'[n].ops = Append(blocks[n].ops, op) /\ blocks'[n].exit = {b + 1}
  BY <1>1, <1>2 DEF Joined, NewBlock
<1>10. /\ Len(blocks'[n].ops) = l /\ blocks'[n].ops[l] = op
       /\ \A k \in 1 .. l - 1 : blocks'[n].ops[k] = blocks[n].ops[k]
  BY <1>2, <1>3, <1>9
<1>11. \A j \in 1 .. Len(blocks) : j # n => A2[j][Len(blocks'[j].ops)] = Out(A, j)
  BY <1>8, <1>9 DEF Out
<1>12. A2[n][Len(blocks'[n].ops)] = H
  BY <1>8, <1>10
<1>13. Out(A, n) \subseteq Here /\ Out(A, n) = A[n][l - 1]
  <2>1. Out(A, n) \subseteq P[b]
    BY <1>3 DEF ExitsRight
  <2> QED  BY <1>2, <1>4, <2>1 DEF Out
<1>14. \A id \in 0 .. b : id # b => P2[id] = P[id]
  <2> SUFFICES ASSUME NEW id \in 0 .. b, id # b  PROVE P2[id] = P[id]
    OBVIOUS
  <2>1. id \in Nat /\ id # b + 1
    BY <1>4
  <2> QED  BY <1>7, <2>1
<1> HIDE DEF Certified
<1>15. OpsRight(A2)'
  <2> SUFFICES ASSUME NEW j \in 1 .. Len(blocks), NEW k \in 1 .. Len(blocks'[j].ops), NEW c \in A2[j][k - 1]
               PROVE  Good(edges', rebound', blocks'[j].ops[k], c) /\ Post(blocks'[j].ops[k], c) \in A2[j][k]
    BY <1>9 DEF OpsRight
  <2>1. CASE j = n /\ k = l
    <3>1. A2[n][l - 1] = A[n][l - 1]
      BY <1>4, <1>8
    <3> QED  BY <1>8, <1>10, <1>13, <2>1, <3>1
  <2>2. CASE j = n /\ k \in 1 .. l - 1
    <3>1. A2[n][k - 1] = A[n][k - 1] /\ A2[n][k] = A[n][k]
      BY <1>4, <1>8, <2>2
    <3>2. Good(edges, rebound, blocks[n].ops[k], c) /\ Post(blocks[n].ops[k], c) \in A[n][k]
      BY <1>3, <1>4, <2>2, <3>1 DEF Certified, OpsRight
    <3> QED  BY <1>10, <2>2, <3>1, <3>2 DEF Good
  <2>3. CASE j # n
    <3>1. A2[j] = A[j] /\ blocks'[j] = blocks[j]
      BY <1>8, <1>9, <2>3
    <3>2. Good(edges, rebound, blocks[j].ops[k], c) /\ Post(blocks[j].ops[k], c) \in A[j][k]
      BY <2>3, <3>1 DEF Certified, OpsRight
    <3> QED  BY <3>1, <3>2 DEF Good
  <2> QED  BY <1>4, <1>10, <2>1, <2>2, <2>3
<1>16. ExitsRight(P2, A2)'
  <2> SUFFICES ASSUME NEW j \in 1 .. Len(blocks), NEW e \in blocks'[j].exit
               PROVE  A2[j][Len(blocks'[j].ops)] \subseteq P2[e]
    BY <1>9 DEF ExitsRight, Out
  <2>1. CASE j = n
    BY <1>7, <1>9, <1>12, <2>1
  <2>2. CASE j # n
    <3>1. e \in 0 .. b /\ e \in blocks[j].exit /\ e # b
      BY <1>2, <1>3, <1>9, <2>2 DEF Wellformed, Exits_ok
    <3>2. Out(A, j) \subseteq P[e]
      BY <2>2, <3>1 DEF Certified, ExitsRight
    <3> QED  BY <1>11, <1>14, <2>2, <3>1, <3>2
  <2> QED  BY <2>1, <2>2
<1>17. EndsRight(A2)'
  <2> SUFFICES ASSUME NEW j \in 1 .. Len(blocks), blocks'[j].exit = {}
               PROVE  \/ \E i \in 1 .. Len(stack') : OpenCheck(stack'[i]) /\ stack'[i].block = j
                      \/ \A c \in A2[j][Len(blocks'[j].ops)] : c.to \in ends'
    BY <1>9 DEF EndsRight, Out
  <2>1. j # n /\ blocks[j].exit = {}
    BY <1>9
  <2>2. \/ \E i \in 1 .. Len(stack) : OpenCheck(stack[i]) /\ stack[i].block = j
        \/ \A c \in Out(A, j) : c.to \in ends
    BY <2>1 DEF Certified, EndsRight
  <2>3. CASE \E i \in 1 .. Len(stack) : OpenCheck(stack[i]) /\ stack[i].block = j
    BY <2>3 DEF OpensStay
  <2> QED  BY <1>11, <2>1, <2>2, <2>3
<1>18. EntriesRight(P2, A2)'
  <2> SUFFICES ASSUME NEW id \in DOMAIN branch_switch'
               PROVE  P2[id] \subseteq A2[branch_switch'[id]][0]
    BY DEF EntriesRight
  <2>1. CASE id = b
    BY <1>7, <2>1
  <2>2. CASE id \in DOMAIN branch_switch /\ id # b
    <3>1. branch_switch'[id] = branch_switch[id] /\ branch_switch[id] \in 1 .. Len(blocks)
      BY <2>2 DEF Joined, Wellformed, Typed
    <3>2. id \in 0 .. b
      BY <1>2, <2>2 DEF Wellformed, Typed
    <3>3. P2[id] = P[id] /\ A2[branch_switch[id]][0] = A[branch_switch[id]][0]
      BY <1>4, <1>8, <1>9, <1>14, <2>2, <3>1, <3>2
    <3> QED  BY <2>2, <3>1, <3>3 DEF Certified, EntriesRight
  <2> QED  BY <1>2, <2>1, <2>2 DEF Joined
<1>19. UnusedRight(P2)'
  <2> SUFFICES ASSUME NEW id \in 0 .. b, id \notin DOMAIN branch_switch'
               PROVE  \/ P2[id] = {}
                      \/ \E i \in 1 .. Len(stack') : OpenCheck(stack'[i]) /\ id \in stack'[i].redirects
    <3>1. block_id' - 1 = b
      BY <1>1, <1>2
    <3> QED  BY <3>1 DEF UnusedRight
  <2>1. id # b /\ id \notin DOMAIN branch_switch
    BY <1>2 DEF Joined
  <2>2. id \in 0 .. b - 1
    BY <1>4, <2>1
  <2>3. \/ P[id] = {}
        \/ \E i \in 1 .. Len(stack) : OpenCheck(stack[i]) /\ id \in stack[i].redirects
    BY <1>2, <2>1, <2>2 DEF Certified, UnusedRight
  <2> QED  BY <1>14, <2>1, <2>3 DEF OpensStay
<1>20. P2[block_id'] \subseteq Here'
  BY <1>1, <1>2, <1>7
<1>21. FramesRight(P2, A2)'
  <2>1. ASSUME NEW i \in 1 .. Len(stack'), HasBlock(stack'[i])
        PROVE  /\ HasBlock(stack[i]) /\ i \in 1 .. Len(stack) /\ stack'[i] = stack[i]
               /\ stack[i].block \in 1 .. Len(blocks) /\ stack[i].block # n
               /\ stack[i].starts \subseteq 0 .. b /\ b \notin stack[i].starts
               /\ A2[stack'[i].block][Len(blocks'[stack'[i].block].ops)] = Out(A, stack[i].block)
    <3>1. HasBlock(stack[i]) /\ i \in 1 .. Len(stack) /\ stack'[i] = stack[i]
      BY <2>1 DEF SameBlocks
    <3>2. stack[i].block \in 1 .. Len(blocks) /\ stack[i].starts \subseteq 0 .. b
      BY <1>2, <3>1 DEF Wellformed, Checks_ok
    <3> QED  BY <1>3, <1>11, <3>1, <3>2
  <2>2. ASSUME NEW i \in 1 .. Len(stack'), HasBlock(stack'[i])
        PROVE  \A s \in stack'[i].starts :
                  A2[stack'[i].block][Len(blocks'[stack'[i].block].ops)] \subseteq P2[s]
    <3>1. \A s \in stack[i].starts : Out(A, stack[i].block) \subseteq P[s]
      BY <2>1, <2>2 DEF Certified, FramesRight
    <3> QED  BY <1>14, <2>1, <2>2, <3>1
  <2>3. ASSUME NEW i \in 1 .. Len(stack'), OpenCheck(stack'[i])
        PROVE  /\ stack'[i].starts # {}
               /\ \A c \in A2[stack'[i].block][Len(blocks'[stack'[i].block].ops)] :
                     c.to = stack'[i].node /\ HoldsIn(slot_of', stack'[i].scope, c.mem)
               /\ \A r \in stack'[i].redirects : \A c \in P2[r] :
                     c.to \in stack'[i].outs /\ HoldsIn(slot_of', stack'[i].scope, c.mem)
    <3>0. HasBlock(stack'[i])
      BY <2>3 DEF HasBlock
    <3>1. OpenCheck(stack[i]) /\ i \in 1 .. Len(stack) /\ stack'[i] = stack[i]
      BY <2>1, <2>3, <3>0
    <3>2. stack[i].redirects \subseteq 0 .. b - 1
      BY <1>2, <3>1 DEF Wellformed, Checks_ok
    <3>3. /\ stack[i].starts # {}
          /\ \A c \in Out(A, stack[i].block) :
                c.to = stack[i].node /\ HoldsIn(slot_of, stack[i].scope, c.mem)
          /\ \A r \in stack[i].redirects : \A c \in P[r] :
                c.to \in stack[i].outs /\ HoldsIn(slot_of, stack[i].scope, c.mem)
      BY <3>1 DEF Certified, FramesRight
    <3>4. \A m : HoldsIn(slot_of, stack[i].scope, m) => HoldsIn(slot_of', stack[i].scope, m)
      BY <3>1 DEF SlotsStay, HoldsIn
    <3>5. \A r \in 0 .. b - 1 : r \in 0 .. b /\ r # b
      BY <1>4
    <3>6. \A r \in stack[i].redirects : P2[r] = P[r]
      BY <1>14, <3>2, <3>5
    <3> QED  BY <2>1, <3>0, <3>1, <3>3, <3>4, <3>6
  <2> QED  BY <2>2, <2>3 DEF FramesRight, Out, OpenCheck, HasBlock
<1>22. [to |-> last'.to, mem |-> mem'] \in P2[0]
  BY <1>4, <1>14 DEF Certified
<1>23. Certified(P2, A2)'
  BY <1>7, <1>8, <1>15, <1>16, <1>18, <1>19, <1>17, <1>20, <1>21, <1>22 DEF Certified
<1> QED  BY <1>23

(* The common case: nothing waits on the block, and it leads to the next    *)
(* number or the branch is over.                                            *)
LEMMA EmitRight ==
    ASSUME Wellformed, NEW P, NEW A, Certified(P, A), Started, SourceGrows, SlotsStay, OpensStay,
           SameBlocks, NEW op \in Operation, NEW ex, Emitted(<< op >>, ex),
           \A c \in Here : Good(edges', rebound', op, c),
           \/ ex = {block_id + 1} /\ \A c \in Here : Post(op, c) \in Here'
           \/ ex = {} /\ \A c \in Here : Post(op, c).to \in ends'
    PROVE  \E P2, A2 : Certified(P2, A2)'
<1>1. PICK H : H = Here'
  OBVIOUS
<1>2. PICK E : E = { d \in Config : d.to \in ends' }
  OBVIOUS
<1>3. PICK G : G = P[block_id]
  OBVIOUS
<1>4. G \in SUBSET Config /\ G \subseteq Here
  BY <1>3 DEF Certified, Here
<1>5. \A c \in G : c \in Here /\ Post(op, c) \in Config
  BY <1>4, PostIs
<1>6. H \in SUBSET Config
  BY <1>1 DEF Here
<1>7. block_id \in Nat /\ block_id # block_id + 1
  BY DEF Wellformed, Typed
<1>8. \A i \in 1 .. Len(stack') : HasBlock(stack'[i]) => SameFrame(i)
  BY DEF SameBlocks, SameFrame
<1>9. CASE ex = {block_id + 1} /\ \A c \in Here : Post(op, c) \in Here'
  BY <1>1, <1>3, <1>4, <1>5, <1>6, <1>7, <1>8, <1>9, CertifiedEmit
<1>10. CASE ex = {} /\ \A c \in Here : Post(op, c).to \in ends'
  <2>1. {} \in SUBSET Config /\ {} \subseteq Here' /\ ex \in SUBSET {block_id, block_id + 1}
        /\ E \in SUBSET Config /\ \A c \in E : c.to \in ends'
    BY <1>2, <1>10
  <2>2. \A c \in G : Good(edges', rebound', op, c) /\ Post(op, c) \in E
    BY <1>2, <1>5, <1>10
  <2> QED  BY <1>3, <1>4, <1>7, <1>8, <1>10, <2>1, <2>2, CertifiedEmit
<1> QED  BY <1>9, <1>10

-----------------------------------------------------------------------------
(* The next state relies on no more.                                        *)
LEMMA HereStep ==
    ASSUME Wellformed, NEW op \in Operation, NEW c \in Here,
           op.node \in frontier' \/ (op.node = NoNode /\ frontier \subseteq frontier'),
           op.node # NoNode \/ frontier \subseteq frontier',
           HoldsIn(slot_of', scope', PostMem(op, c.mem)),
           TempIs(stack'[Len(stack')], PostMem(op, c.mem)),
           StagedIn(stack', PostMem(op, c.mem))
    PROVE  Post(op, c) \in Here'
<1>1. c \in Config /\ c.to \in frontier
  BY DEF Here
<1>2. /\ Post(op, c) \in Config
      /\ Post(op, c).to = IF op.node = NoNode THEN c.to ELSE op.node
      /\ Post(op, c).mem = PostMem(op, c.mem)
  BY <1>1, PostIs
<1>3. Post(op, c).to \in frontier'
  BY <1>1, <1>2
<1> QED  BY <1>2, <1>3 DEF Here, Top

(* A new name is found in its slot, and no other slot has changed.          *)
HoldsBut(x, m) == \A y \in DOMAIN scope : y # x => Word(m.slots, slot_of[y]) = scope[y]

(* After a value is put in the new slot, every name in scope is found, the  *)
(* new one too.                                                             *)
LEMMA HoldsBound ==
    ASSUME Wellformed, NEW m \in Memory,
           NEW x \in Names, NEW v \in Nat, Bound(x, v), HoldsBut(x, m),
           NEW m2, m2.slots = Override(m.slots, {NextIndex(slot_of)}, v)
    PROVE  HoldsIn(slot_of', scope', m2)
<1>1. PICK w : w = NextIndex(slot_of)
  OBVIOUS
<1>2. w \in Int /\ UsedIn(slot_of, w) /\ v \in Int /\ m.slots \in Store
  BY <1>1, NextIndexTyped DEF Memory
<1>3. /\ Word(m2.slots, w) = v
      /\ \A i : i # w => Word(m2.slots, i) = Word(m.slots, i)
  <2>1. PICK f : f = m.slots
    OBVIOUS
  <2>2. /\ Word(Override(f, {w}, v), w) = v
        /\ \A i : i # w => Word(Override(f, {w}, v), i) = Word(f, i)
    <3>1. ASSUME NEW u \in Int, u = v
          PROVE  /\ Word(Override(f, {w}, u), w) = u
                 /\ \A i : i # w => Word(Override(f, {w}, u), i) = Word(f, i)
      <4>1. f \in Store /\ w \in Int
        BY <1>2, <2>1
      <4> QED  BY ONLY <4>1, u \in Int, StoreIs
    <3> QED  BY <1>2, <3>1
  <2>3. m2.slots = Override(f, {w}, v)
    BY <1>1, <2>1
  <2> QED  BY <2>1, <2>2, <2>3
<1>4. /\ DOMAIN scope' = DOMAIN scope \cup {x} /\ scope'[x] = v
      /\ \A y \in DOMAIN scope : y # x => scope'[y] = scope[y]
      /\ slot_of'[x] = w /\ \A y \in DOMAIN slot_of : y # x => slot_of'[y] = slot_of[y]
  BY <1>1 DEF Bound, Override
<1>5. \A y \in DOMAIN slot_of : slot_of[y] # w
  BY <1>2 DEF UsedIn, Wellformed, Typed, Bindings
<1>6. DOMAIN scope \subseteq DOMAIN slot_of
  BY DEF Wellformed, Scopes
<1> QED  BY <1>3, <1>4, <1>5, <1>6 DEF HoldsIn, HoldsBut

(* What holds of the slots does not depend on the rest of the memory.       *)
LEMMA HoldsKept ==
    ASSUME NEW so, NEW names, NEW m, NEW m2, HoldsIn(so, names, m), m2.slots = m.slots
    PROVE  HoldsIn(so, names, m2)
BY DEF HoldsIn

\* The arguments that are staged stay what they are.
SameStaged == \A i \in 1 .. Len(stack') : stack'[i].kind = "call" =>
    \/ Len(stack'[i].args) = 0
    \/ /\ i \in 1 .. Len(stack) /\ stack[i].kind = "call"
       /\ stack'[i].args = stack[i].args /\ stack'[i].base = stack[i].base

(* What is staged stays where it is.                                        *)
LEMMA StagedKept ==
    ASSUME SameStaged, NEW m, NEW m2, StagedIn(stack, m), m2.args = m.args
    PROVE  StagedIn(stack', m2)
<1> SUFFICES ASSUME NEW i \in 1 .. Len(stack'), stack'[i].kind = "call",
                    NEW k \in 1 .. Len(stack'[i].args)
             PROVE  Word(m2.args, stack'[i].base + k - 1) = stack'[i].args[k]
  BY DEF StagedIn
<1>1. CASE Len(stack'[i].args) = 0
  BY <1>1
<1>2. CASE /\ i \in 1 .. Len(stack) /\ stack[i].kind = "call"
           /\ stack'[i].args = stack[i].args /\ stack'[i].base = stack[i].base
  BY <1>2 DEF StagedIn
<1> QED  BY <1>1, <1>2 DEF SameStaged

\* A step that replaces the frame above m, and one that opens another above that.
SameArgs(f, g) == g.kind = "call" =>
    Len(g.args) = 0 \/ (f.kind = "call" /\ g.args = f.args /\ g.base = f.base)

(* Replacing or opening a frame that has no arguments yet keeps what is     *)
(* staged.                                                                  *)
LEMMA StagedReplaced ==
    ASSUME stack \in Seq(Frame), NEW m, Keeps(stack, stack', m),
           \/ Len(stack') = m + 1
           \/ /\ Len(stack') = m + 2
              /\ stack'[m + 2].kind = "call" => Len(stack'[m + 2].args) = 0,
           SameArgs(stack[m + 1], stack'[m + 1])
    PROVE  SameStaged
<1>1. /\ m \in Nat /\ m < Len(stack) /\ m < Len(stack') /\ Len(stack) \in Nat
      /\ \A i \in 1 .. m : stack'[i] = stack[i]
  BY DEF Keeps
<1>2. ASSUME NEW i \in 1 .. Len(stack')
      PROVE  \/ i \in 1 .. Len(stack) /\ i \in 1 .. m
             \/ i \in 1 .. Len(stack) /\ i = m + 1
             \/ i = m + 2 /\ Len(stack') = m + 2
  BY <1>1
<1> QED  BY <1>1, <1>2 DEF SameStaged, SameArgs

(* What is read is what it is read for.                                     *)
LEMMA ReadsRight ==
    ASSUME Wellformed, NEW r \in Reads, NEW m, HoldsIn(slot_of, scope, m),
           NEW op, op.do \in {"temp", "set"}, op.reads = r.slot, op.meant = r.meant
    PROVE  Saw(op, m) = op.meant
<1>1. \/ r.slot = NoNode /\ r.meant = << >>
      \/ \E x \in DOMAIN scope : r.slot = slot_of[x] /\ r.meant = << scope[x] >>
  BY ReadsIs DEF Wellformed
<1>2. Saw(op, m) = IF op.reads = NoNode THEN << >> ELSE << Word(m.slots, op.reads) >>
  BY DEF Saw
<1>3. ASSUME NEW x \in DOMAIN scope, r.slot = slot_of[x], r.meant = << scope[x] >>
      PROVE  Saw(op, m) = op.meant
  <2>1. slot_of[x] \in Nat
    BY <1>3 DEF Wellformed, Typed, Bindings, Scopes
  <2>2. Word(m.slots, slot_of[x]) = scope[x]
    BY <1>3 DEF HoldsIn
  <2> QED  BY <1>2, <1>3, <2>1, <2>2 DEF NoNode
<1> QED  BY <1>1, <1>2, <1>3

\* A new node comes after the frontier.
LEMMA GoodNew ==
    ASSUME NEW op, NEW c \in Here, Saw(op, c.mem) = op.meant,
           (op.node = nodes + 1 /\ Written(nodes + 1)) \/ op.node = NoNode
    PROVE  Good(edges', rebound', op, c)
BY DEF Good, Here, Written

(* An expression's operation, whether it joins the super-block or not.      *)
LEMMA GoesRight ==
    ASSUME Wellformed, NEW P, NEW A, Certified(P, A), phase = "compile",
           UNCHANGED << phase, ends, mem, last >>, rebound \subseteq rebound', WantsExpression,
           NEW op \in Operation, op.node = nodes + 1, Written(nodes + 1), frontier' = {nodes + 1},
           NEW k \in {0, 1}, Goes(stack', op.node, k), SameBlocks,
           (Super /\ Joined(op)) \/ Emitted(<< op >>, {block_id + 1}),
           NEW r \in Reads, op.reads = r.slot, op.meant = r.meant,
           \/ k = 0 /\ op.do = "temp" /\ UNCHANGED << scope, slot_of >>
           \/ /\ k = 1 /\ op.do = "set" /\ op.writes = NextIndex(slot_of) /\ Top.kind = "list"
              /\ \E x \in Names : CanBind(x) /\ Bound(x, nodes + 1)
    PROVE  \E P2, A2 : Certified(P2, A2)'
<1> DEFINE L == Len(stack)
           m == L - 1
<1>1. /\ stack \in Seq(Frame) /\ Shape(stack) /\ L \in Nat /\ L > 0 /\ Top \in Frame /\ Atop(Top)
      /\ nodes + 1 \in Nat /\ op.node \in Nat /\ op.node \in Int /\ Top = stack[L]
  BY ShapeTop DEF Wellformed, Typed, Top
<1>2. Keeps(stack, stack', m) /\ Len(stack') = m + 1 /\ Len(stack') = L /\ stack[m + 1] = Top
      /\ stack'[m + 1] = stack'[L] /\ m \in Nat
  BY <1>1 DEF Goes
<1>3. /\ Top.kind # "list" => stack'[L].value = op.node /\ k = 0
      /\ Top.kind = "list" => stack'[L].kind = "list"
      /\ SameArgs(Top, stack'[L])
  <2>1. CASE Top.kind = "list"
    BY <1>2, <2>1 DEF Goes, ListFrame, SameArgs
  <2>2. CASE Top.kind # "list"
    <3>1. stack'[L] = Given(Top, op.node) /\ Top.kind # "wait" /\ k = 0
      BY <1>1, <1>2, <2>2 DEF Goes, Atop
    <3>2. /\ Given(Top, op.node).value = op.node
          /\ Like(Given(Top, op.node), Top)
          /\ Top.kind = "call" => Given(Top, op.node).args = Top.args
      BY <1>1, <2>2, <3>1, GivenIs
    <3> QED  BY <2>2, <3>1, <3>2 DEF SameArgs, Like
  <2> QED  BY <2>1, <2>2
<1> HIDE DEF m, L
<1>4. SameStaged
  BY <1>1, <1>2, <1>3, StagedReplaced
<1>5. OpensStay
  <2>1. \A i \in 1 .. Len(stack) : i > m => i = L
    BY <1>1, <1>2 DEF m, L
  <2> QED  BY <1>1, <1>2, <2>1, OpensKept DEF Atop, Wellformed
<1>6. SlotsStay
  BY SlotsKept
<1>7. Started /\ SourceGrows
  BY DEF Started, SourceGrows, Written
<1>8. ASSUME NEW c \in Here
      PROVE  Good(edges', rebound', op, c) /\ Post(op, c) \in Here'
  <2> DEFINE m2 == PostMem(op, c.mem)
  <2>1. c \in Config /\ c.mem \in Memory /\ HoldsIn(slot_of, scope, c.mem) /\ StagedIn(stack, c.mem)
    BY PostIs DEF Here
  <2>2. Good(edges', rebound', op, c)
    BY <2>1, ReadsRight, GoodNew
  <2>3. op.writes # NoNode \/ op.do = "temp"
    BY NextIndexTyped DEF NoNode
  <2>4. /\ m2.args = c.mem.args
        /\ op.do = "temp" => m2.temp = op.node /\ m2.slots = c.mem.slots
        /\ op.do = "set" => m2.slots = Override(c.mem.slots, {op.writes}, op.node)
    <3>1. CASE op.do = "temp"
      BY <3>1 DEF PostMem
    <3>2. CASE op.do = "set" /\ op.writes # NoNode
      BY <3>2 DEF PostMem
    <3> QED  BY <2>3, <3>1, <3>2
  <2> HIDE DEF m2
  <2>5. HoldsIn(slot_of', scope', m2)
    <3>1. CASE UNCHANGED << scope, slot_of >> /\ op.do = "temp"
      BY <2>1, <2>4, <3>1, HoldsKept
    <3>2. ASSUME NEW x \in Names, Bound(x, nodes + 1), op.do = "set", op.writes = NextIndex(slot_of)
          PROVE  HoldsIn(slot_of', scope', m2)
      <4>1. HoldsBut(x, c.mem)
        BY <2>1 DEF HoldsIn, HoldsBut
      <4> QED  BY <1>1, <2>1, <2>4, <3>2, <4>1, HoldsBound
    <3> QED  BY <3>1, <3>2
  <2>6. TempIs(stack'[Len(stack')], m2)
    BY <1>2, <1>3, <2>4 DEF TempIs
  <2>7. StagedIn(stack', m2)
    BY <1>4, <2>1, <2>4, StagedKept
  <2>8. op.node \in frontier' /\ op.node # NoNode
    BY <1>1 DEF NoNode
  <2> QED  BY <2>2, <2>5, <2>6, <2>7, <2>8, HereStep DEF m2
<1>9. CASE Super /\ Joined(op)
  <2>1. PICK H : H = Here'
    OBVIOUS
  <2>2. H \in SUBSET Config
    BY <2>1 DEF Here
  <2> QED  BY <1>5, <1>6, <1>7, <1>8, <1>9, <2>1, <2>2, CertifiedJoin
<1>10. CASE Emitted(<< op >>, {block_id + 1})
  BY <1>5, <1>6, <1>7, <1>8, <1>10, EmitRight
<1> QED  BY <1>9, <1>10

(* What every step of the compiler keeps: the next state has a certificate. *)
CertifiedNext == \E P2, A2 : Certified(P2, A2)'

(* The operations of a fast expression.                                     *)
LEMMA FetchIs ==
    ASSUME Wellformed, NEW r \in Reads
    PROVE  /\ Fetch(r) \in Operation /\ Fetch(r).do = "temp" /\ Fetch(r).node = nodes + 1
           /\ Fetch(r).reads = r.slot /\ Fetch(r).meant = r.meant
           /\ SetTo(r) \in Operation /\ SetTo(r).do = "set" /\ SetTo(r).node = nodes + 1
           /\ SetTo(r).reads = r.slot /\ SetTo(r).meant = r.meant
           /\ SetTo(r).writes = NextIndex(slot_of)
<1> DEFINE n == nodes + 1
           w == NextIndex(slot_of)
<1>1. /\ r.slot \in Int /\ r.meant \in Seq(Int) /\ n \in Int /\ w \in Int /\ NoNode \in Int
      /\ "temp" \in Kinds /\ "set" \in Kinds
  BY ReadsIs, NextIndexTyped DEF Wellformed, Typed, NoNode, Kinds
<1> HIDE DEF n, w
<1>2. Fetch(r) = Op("temp", n, r.slot, r.meant, NoNode) /\ SetTo(r) = Op("set", n, r.slot, r.meant, w)
  BY DEF Fetch, SetTo, n, w
<1>3. /\ Fetch(r) \in Operation /\ Fetch(r).do = "temp" /\ Fetch(r).node = n
      /\ Fetch(r).reads = r.slot /\ Fetch(r).meant = r.meant
  BY <1>1, <1>2 DEF Op, Operation, Kinds
<1>4. /\ SetTo(r) \in Operation /\ SetTo(r).do = "set" /\ SetTo(r).node = n
      /\ SetTo(r).reads = r.slot /\ SetTo(r).meant = r.meant /\ SetTo(r).writes = w
  BY <1>1, <1>2 DEF Op, Operation, Kinds
<1> QED  BY <1>3, <1>4 DEF n, w

(* Pure keeps a certificate.                                                *)
LEMMA PureRight ==
    ASSUME Wellformed, NEW P, NEW A, Certified(P, A), Pure
    PROVE  CertifiedNext
<1>1. PICK r \in Reads : Added(Fetch(r), 0)
  BY PureKeeps
<1>2. /\ phase = "compile" /\ UNCHANGED << phase, ends, mem, last, scope, rebound, slot_of >>
      /\ WantsExpression /\ Written(nodes + 1) /\ frontier' = {nodes + 1}
  BY DEF Pure, Room, machineVars
<1>3. /\ Goes(stack', Fetch(r).node, 0) /\ SameBlocks
      /\ (Super /\ Joined(Fetch(r))) \/ Emitted(<< Fetch(r) >>, {block_id + 1})
  BY <1>1 DEF Added
<1> QED  BY <1>2, <1>3, FetchIs, GoesRight DEF CertifiedNext

(* PureLet keeps a certificate.                                             *)
LEMMA PureLetRight ==
    ASSUME Wellformed, NEW P, NEW A, Certified(P, A), PureLet
    PROVE  CertifiedNext
<1>1. PICK x \in Names, r \in Reads : CanBind(x) /\ Bound(x, nodes + 1) /\ Added(SetTo(r), 1)
  BY PureLetKeeps
<1>2. /\ phase = "compile" /\ UNCHANGED << phase, ends, mem, last >> /\ rebound \subseteq rebound'
      /\ WantsExpression /\ Top.kind = "list" /\ Written(nodes + 1) /\ frontier' = {nodes + 1}
  BY DEF PureLet, Rebinds, Room, machineVars, WantsExpression, WantsStatement
<1>3. /\ Goes(stack', SetTo(r).node, 1) /\ SameBlocks
      /\ (Super /\ Joined(SetTo(r))) \/ Emitted(<< SetTo(r) >>, {block_id + 1})
  BY <1>1 DEF Added
<1> QED  BY <1>1, <1>2, <1>3, FetchIs, GoesRight DEF CertifiedNext

(* A fused call or a literal keeps a certificate.                           *)
LEMMA OwnBlockRight ==
    ASSUME Wellformed, NEW P, NEW A, Certified(P, A), NEW r \in Reads, OwnBlock(r)
    PROVE  CertifiedNext
<1>1. Goes(stack', nodes + 1, 0) /\ SameBlocks /\ Emitted(<< Fetch(r) >>, {block_id + 1})
  BY OwnBlockKeeps
<1>2. /\ phase = "compile" /\ UNCHANGED << phase, ends, mem, last, scope, rebound, slot_of >>
      /\ WantsExpression /\ Written(nodes + 1) /\ frontier' = {nodes + 1}
  BY DEF OwnBlock, Room, machineVars
<1> QED  BY <1>1, <1>2, FetchIs, GoesRight DEF CertifiedNext

(* FusedSelf keeps a certificate.                                           *)
LEMMA FusedSelfRight ==
    ASSUME Wellformed, NEW P, NEW A, Certified(P, A), FusedSelf
    PROVE  CertifiedNext
<1> DEFINE n == nodes + 1
           op == Op("self", n, NoNode, << >>, NoNode)
           m == Len(stack) - 1
<1>1. /\ phase = "compile" /\ UNCHANGED << phase, mem, last, scope, rebound, slot_of >>
      /\ Written(n) /\ ends' = ends \cup {n}
  BY DEF FusedSelf, Room, machineVars
<1>2. SameBlocks /\ Emitted(<< op >>, {}) /\ Replaces(m, Ended(Top)) /\ Top \in ListFrame
  BY FusedSelfKeeps
<1>3. n \in Int /\ n # NoNode /\ stack \in Seq(Frame) /\ Len(stack) \in Nat
      /\ \A i \in 1 .. Len(stack) : i > m => i = Len(stack)
  BY ShapeTop DEF Wellformed, Typed, NoNode
<1> HIDE DEF n, m
<1>4. op \in Operation /\ op.node = n /\ op.do = "self" /\ op.meant = << >>
  <2>1. NoNode \in Int /\ << >> \in Seq(Int)
    BY DEF NoNode
  <2> QED  BY <1>3, <2>1 DEF Op, Operation, Kinds
<1> HIDE DEF op
<1>5. OpensStay
  <2>1. ~OpenCheck(Top)
    BY <1>2 DEF OpenCheck, ListFrame
  <2> QED  BY <1>2, <1>3, <2>1, OpensKept DEF Wellformed, Replaces, Top
<1>6. SlotsStay /\ Started /\ SourceGrows
  BY <1>1, SlotsKept DEF Started, SourceGrows, Written
<1>7. ASSUME NEW c \in Here
      PROVE  Good(edges', rebound', op, c) /\ Post(op, c).to \in ends'
  <2>1. Saw(op, c.mem) = op.meant
    BY <1>4 DEF Saw
  <2>2. Good(edges', rebound', op, c)
    BY <1>1, <1>4, <2>1, GoodNew DEF n
  <2>3. Post(op, c).to = n
    BY <1>3, <1>4 DEF Post
  <2> QED  BY <1>1, <2>2, <2>3
<1> QED  BY <1>2, <1>4, <1>5, <1>6, <1>7, EmitRight DEF CertifiedNext

\* The frames that a step takes away, or replaces, are no open checks.
LEMMA OpensAbove ==
    ASSUME Wellformed, NEW m, Keeps(stack, stack', m), m + 1 = Len(stack) \/ m + 2 = Len(stack),
           ~OpenCheck(Top), m + 2 = Len(stack) => ~OpenCheck(Under)
    PROVE  OpensStay
<1>1. m \in Nat /\ Len(stack) \in Nat
  BY ShapeTop DEF Keeps, Wellformed
<1>2. ASSUME NEW i \in 1 .. Len(stack), i > m
      PROVE  i = Len(stack) \/ (i = Len(stack) - 1 /\ m + 2 = Len(stack))
  BY <1>1, <1>2
<1>3. \A i \in 1 .. Len(stack) : i > m => ~OpenCheck(stack[i])
  BY <1>2 DEF Top, Under
<1> QED  BY <1>3, OpensKept DEF Wellformed

(* A handler that starts relies on what there was.                          *)
LEMMA OpenedRight ==
    ASSUME Wellformed, NEW P, NEW A, Certified(P, A), phase = "compile", phase' = "compile",
           UNCHANGED << frontier, edges, ends, scope, rebound, slot_of, mem, last >>, BlocksSame, SameBlocks,
           NEW g, NEW h, Opens(Len(stack) - 1, g, h), SameArgs(Top, g),
           h.kind # "list" /\ h.value = NoNode, h.kind = "call" => Len(h.args) = 0
    PROVE  CertifiedNext
<1> DEFINE m == Len(stack) - 1
<1>1. /\ stack \in Seq(Frame) /\ m \in Nat /\ m + 1 = Len(stack) /\ Atop(Top)
      /\ Len(stack') = m + 2 /\ stack'[m + 2] = h /\ stack'[m + 1] = g /\ stack[m + 1] = Top
      /\ Keeps(stack, stack', m)
  BY ShapeTop DEF Wellformed, Top, Opens
<1> HIDE DEF m
<1>2. OpensStay
  BY <1>1, OpensAbove DEF Atop
<1>3. SameStaged
  BY <1>1, StagedReplaced
<1>4. SlotsStay /\ Started /\ SourceGrows
  BY SlotsKept DEF Started, SourceGrows
<1>5. ASSUME NEW c \in Here  PROVE c \in Here'
  <2>1. /\ c \in Config /\ c.to \in frontier /\ HoldsIn(slot_of, scope, c.mem)
        /\ StagedIn(stack, c.mem)
    BY DEF Here
  <2>2. TempIs(stack'[Len(stack')], c.mem)
    BY <1>1 DEF TempIs
  <2>3. StagedIn(stack', c.mem)
    BY <1>3, <2>1, StagedKept
  <2> QED  BY <2>1, <2>2, <2>3 DEF Here, Top
<1>6. Certified(P, A)'
  BY <1>2, <1>4, <1>5, CertifiedSame DEF BlocksSame
<1> QED  BY <1>6 DEF CertifiedNext

(* OpenLet keeps a certificate.                                             *)
LEMMA OpenLetRight ==
    ASSUME Wellformed, NEW P, NEW A, Certified(P, A), OpenLet
    PROVE  CertifiedNext
<1>1. /\ phase = "compile" /\ phase' = "compile" /\ BlocksSame /\ SameBlocks
      /\ UNCHANGED << frontier, edges, ends, scope, rebound, slot_of, mem, last >>
  BY OpenLetKeeps DEF OpenLet, Room, sourceVars, machineVars, BlocksSame
<1>2. PICK x \in Names : Opens(Len(stack) - 1, [Top EXCEPT !.super = 0], LetOf(x))
  BY OpenLetStack DEF Wellformed
<1>3. SameArgs(Top, [Top EXCEPT !.super = 0])
  <2>1. Top \in ListFrame
    BY OpenLetStack, GivenList DEF Wellformed
  <2> QED  BY <2>1 DEF ListFrame, SameArgs
<1>4. LetOf(x).kind = "let" /\ LetOf(x).value = NoNode
  BY DEF LetOf
<1> QED  BY <1>1, <1>2, <1>3, <1>4, OpenedRight

(* OpenWhen keeps a certificate.                                            *)
LEMMA OpenWhenRight ==
    ASSUME Wellformed, NEW P, NEW A, Certified(P, A), OpenWhen
    PROVE  CertifiedNext
<1>1. /\ phase = "compile" /\ phase' = "compile" /\ BlocksSame /\ SameBlocks
      /\ UNCHANGED << frontier, edges, ends, scope, rebound, slot_of, mem, last >>
  BY OpenWhenKeeps DEF OpenWhen, Room, sourceVars, machineVars, BlocksSame
<1>2. Opens(Len(stack) - 1, [Top EXCEPT !.super = 0], WhenOf) /\ WantsStatement
  BY OpenWhenStack DEF Wellformed
<1>3. SameArgs(Top, [Top EXCEPT !.super = 0])
  <2>1. Top \in ListFrame
    BY <1>2, GivenList DEF Wellformed
  <2> QED  BY <2>1 DEF ListFrame, SameArgs
<1>4. WhenOf.kind = "when" /\ WhenOf.value = NoNode
  BY DEF WhenOf
<1> QED  BY <1>1, <1>2, <1>3, <1>4, OpenedRight

(* OpenCall keeps a certificate.                                            *)
LEMMA OpenCallRight ==
    ASSUME Wellformed, NEW P, NEW A, Certified(P, A), OpenCall
    PROVE  CertifiedNext
<1>1. /\ phase = "compile" /\ phase' = "compile" /\ BlocksSame /\ SameBlocks
      /\ UNCHANGED << frontier, edges, ends, scope, rebound, slot_of, mem, last >>
  BY OpenCallKeeps DEF OpenCall, Room, sourceVars, machineVars, BlocksSame
<1>2. PICK count \in Nat, self \in BOOLEAN :
        Opens(Len(stack) - 1, Caller, CallOf(count, self))
  <2>1. Top.kind = "call" => Top.base + Top.count <= jump_args_base
    <3>1. Len(stack) \in 1 .. Len(stack)
      BY ShapeTop DEF Wellformed
    <3> QED  BY <3>1 DEF Wellformed, Bases, Top
  <2> QED  BY <2>1, OpenCallStack DEF Wellformed
<1>3. SameArgs(Top, Caller)
  <2>1. CASE WantsStatement
    <3>1. Top \in ListFrame
      BY <2>1, GivenList DEF Wellformed
    <3> QED  BY <2>1, <3>1 DEF Caller, ListFrame, SameArgs
  <2>2. CASE ~WantsStatement
    BY <2>2 DEF Caller, SameArgs
  <2> QED  BY <2>1, <2>2
<1>4. LET h == CallOf(count, self)
      IN  h.kind = "call" /\ h.value = NoNode /\ h.args = << >>
  BY DEF CallOf
<1> QED  BY <1>1, <1>2, <1>3, <1>4, OpenedRight

(* CloseLet keeps a certificate: the value it saves is the one its body     *)
(* left.                                                                    *)
LEMMA CloseLetRight ==
    ASSUME Wellformed, NEW P, NEW A, Certified(P, A), CloseLet
    PROVE  CertifiedNext
<1> DEFINE m == Len(stack) - 2
           w == NextIndex(slot_of)
           op == Op("save", NoNode, NoNode, << Top.value >>, w)
           g == CountedFrame(Under, 1)
<1>1. /\ phase = "compile" /\ UNCHANGED << phase, mem, last, frontier, edges, ends >>
      /\ Bound(Top.name, Top.value) /\ rebound \subseteq rebound'
  BY DEF CloseLet, Rebinds, machineVars, Insert, Bound
<1>2. SameBlocks /\ Emitted(<< op >>, {block_id + 1})
  BY CloseLetKeeps
<1>3. /\ Len(stack) > 1 /\ Top \in LetFrame /\ Top.value # NoNode /\ FrameOK(Top)
      /\ Under \in ListFrame /\ Replaces(m, g) /\ g \in ListFrame /\ w \in Nat /\ stack \in Seq(Frame)
      /\ Len(stack) \in Nat
  <2>1. Shape(stack) /\ Typed
    BY DEF Wellformed
  <2>2. Under \in ListFrame
    BY <2>1, CloseLetStack
  <2>3. g \in ListFrame
    BY <2>2 DEF CountedFrame, ListFrame
  <2> HIDE DEF g
  <2> QED  BY <2>1, <2>2, <2>3, CloseLetStack, NextIndexTyped, ShapeTop DEF Top, g
<1>4. /\ Top.kind = "let" /\ Top.value \in Nat /\ Top.name \in Names
      /\ Under.kind = "list" /\ g.kind = "list"
      /\ ~OpenCheck(Top) /\ ~OpenCheck(Under)
  BY <1>3 DEF LetFrame, ListFrame, FrameOK, OpenCheck
<1>5. /\ m \in Nat /\ m + 2 = Len(stack) /\ Keeps(stack, stack', m)
      /\ Len(stack') = m + 1 /\ stack'[m + 1] = g /\ stack[m + 1] = Under
  BY <1>3 DEF Replaces, Under
<1> HIDE DEF m, g, w
<1>6. op \in Operation /\ op.node = NoNode /\ op.do = "save" /\ op.meant = << Top.value >> /\ op.writes = w
  BY <1>3, <1>4 DEF Op, Operation, Kinds, NoNode
<1> HIDE DEF op
<1>7. OpensStay
  BY <1>4, <1>5, OpensAbove
<1>8. SlotsStay /\ Started /\ SourceGrows
  <2>1. CanBind(Top.name)
    <3>1. Len(stack) \in 1 .. Len(stack)
      BY <1>3
    <3> QED  BY <1>4, <3>1 DEF Wellformed, Scopes, Top
  <2> QED  BY <1>1, <1>4, <2>1, SlotsKept DEF Started, SourceGrows
<1>9. SameStaged
  BY <1>3, <1>4, <1>5, StagedReplaced DEF SameArgs
<1>10. ASSUME NEW c \in Here
       PROVE  Good(edges', rebound', op, c) /\ Post(op, c) \in Here'
  <2> DEFINE m2 == PostMem(op, c.mem)
  <2>1. /\ c \in Config /\ c.mem \in Memory /\ HoldsIn(slot_of, scope, c.mem)
        /\ StagedIn(stack, c.mem) /\ c.mem.temp = Top.value
    BY <1>3, <1>4, <1>6, PostIs DEF Here, TempIs
  <2>2. Saw(op, c.mem) = op.meant
    BY <1>6, <2>1 DEF Saw
  <2>3. Good(edges', rebound', op, c)
    BY <1>6, <2>2, GoodNew
  <2>4. m2.args = c.mem.args /\ m2.slots = Override(c.mem.slots, {w}, Top.value)
    BY <1>6, <2>1 DEF PostMem
  <2> HIDE DEF m2
  <2>5. HoldsIn(slot_of', scope', m2)
    <3>1. HoldsBut(Top.name, c.mem)
      BY <2>1 DEF HoldsIn, HoldsBut
    <3> QED  BY <1>1, <1>4, <2>1, <2>4, <3>1, HoldsBound DEF w
  <2>6. TempIs(stack'[Len(stack')], m2)
    BY <1>4, <1>5 DEF TempIs
  <2>7. StagedIn(stack', m2)
    BY <1>9, <2>1, <2>4, StagedKept
  <2> QED  BY <1>1, <1>6, <2>3, <2>5, <2>6, <2>7, HereStep DEF m2
<1> QED  BY <1>2, <1>6, <1>7, <1>8, <1>10, EmitRight DEF CertifiedNext

(* StageArg keeps a certificate: the slot it writes belongs to no other     *)
(* argument that is staged.                                                 *)
LEMMA StageArgRight ==
    ASSUME Wellformed, NEW P, NEW A, Certified(P, A), StageArg
    PROVE  CertifiedNext
<1> DEFINE L == Len(stack)
           m == L - 1
           b == Top.base
           l == Len(Top.args)
           w == b + l
           v == Top.value
           op == Op("stage", NoNode, NoNode, << v >>, w)
<1>1. /\ phase = "compile" /\ UNCHANGED << phase, mem, last, frontier, edges, ends, scope, rebound, slot_of >>
  BY DEF StageArg, machineVars, sourceVars
<1>2. SameBlocks /\ Emitted(<< op >>, {block_id + 1})
  BY StageArgKeeps
<1>3. /\ Top \in CallFrame /\ v # NoNode /\ FrameOK(Top) /\ Atop(Top) /\ Replaces(m, Staged)
      /\ stack \in Seq(Frame) /\ Len(stack) \in Nat /\ Len(stack) > 0 /\ Shape(stack)
  <2>1. Shape(stack) /\ Typed
    BY DEF Wellformed
  <2> QED  BY <2>1, StageArgStack, ShapeTop DEF Top
<1>4. /\ Top.kind = "call" /\ v \in Int /\ b \in Nat /\ l \in Nat /\ w \in Int
      /\ Top.args \in Seq(Int) /\ Top.count \in Nat /\ l <= Top.count
      /\ Staged.kind = "call" /\ Staged.base = b /\ Staged.value = NoNode
      /\ Staged.args = Append(Top.args, v)
  BY <1>3 DEF CallFrame, FrameOK, Staged
<1>5. /\ m \in Nat /\ m + 1 = Len(stack) /\ Keeps(stack, stack', m) /\ m < Len(stack)
      /\ Len(stack') = m + 1 /\ stack'[m + 1] = Staged /\ stack[m + 1] = Top
      /\ \A i \in 1 .. m : stack'[i] = stack[i] /\ i \in 1 .. Len(stack) /\ i < m + 1
      /\ \A i \in 1 .. Len(stack') : i = m + 1 \/ i \in 1 .. m
      /\ m + 1 \in 1 .. Len(stack)
  BY <1>3 DEF Replaces, Top, Keeps
<1>6. op \in Operation /\ op.node = NoNode /\ op.do = "stage" /\ op.meant = << v >> /\ op.writes = w
  <2> HIDE DEF v, w
  <2> QED  BY <1>3, <1>4 DEF Op, Operation, Kinds, NoNode
<1> HIDE DEF op
<1>7. OpensStay
  BY <1>3, <1>5, OpensAbove DEF Atop
<1>8. SlotsStay /\ Started /\ SourceGrows
  BY <1>1, SlotsKept DEF Started, SourceGrows
<1>9. \A i \in 1 .. m : stack[i].kind = "call" =>
        /\ stack[i].base \in Nat /\ Len(stack[i].args) \in Nat
        /\ stack[i].base + Len(stack[i].args) <= b
  <2> SUFFICES ASSUME NEW i \in 1 .. m, stack[i].kind = "call"
               PROVE  /\ stack[i].base \in Nat /\ Len(stack[i].args) \in Nat
                      /\ stack[i].base + Len(stack[i].args) <= b
    OBVIOUS
  <2>1. stack[i] \in CallFrame /\ FrameOK(stack[i])
    BY <1>3, <1>5, ShapeTop, FrameKinds
  <2>2. /\ stack[i].base \in Nat /\ stack[i].count \in Nat /\ Len(stack[i].args) \in Nat
        /\ Len(stack[i].args) <= stack[i].count
    BY <2>1 DEF CallFrame, FrameOK
  <2>3. stack[i].base + stack[i].count <= b
    BY <1>3, <1>5 DEF Shape
  <2> HIDE DEF m, b, l, v, L, w
  <2>4. \A x, n, k \in Nat : k <= n /\ x + n <= b => x + k <= b
    BY <1>4
  <2> QED  BY <2>2, <2>3, <2>4
<1> HIDE DEF m, b, l, v, L
<1>10. ASSUME NEW c \in Here
       PROVE  Good(edges', rebound', op, c) /\ Post(op, c) \in Here'
  <2> DEFINE m2 == PostMem(op, c.mem)
  <2>1. /\ c \in Config /\ c.mem \in Memory /\ HoldsIn(slot_of, scope, c.mem)
        /\ StagedIn(stack, c.mem) /\ c.mem.temp = v /\ c.mem.args \in Store
    BY <1>3, <1>4, <1>6, PostIs DEF Here, TempIs, v
  <2>2. Saw(op, c.mem) = op.meant
    BY <1>6, <2>1 DEF Saw
  <2>3. Good(edges', rebound', op, c)
    BY <1>6, <2>2, GoodNew
  <2>4. m2.args = Override(c.mem.args, {w}, v) /\ m2.slots = c.mem.slots
    BY <1>6, <2>1 DEF PostMem
  <2> HIDE DEF m2
  <2>5. HoldsIn(slot_of', scope', m2)
    BY <1>1, <2>1, <2>4, HoldsKept
  <2>6. TempIs(stack'[Len(stack')], m2)
    BY <1>4, <1>5 DEF TempIs
  <2>7. /\ Word(m2.args, w) = v
        /\ \A i : i # w => Word(m2.args, i) = Word(c.mem.args, i)
    <3>1. ASSUME NEW q \in Int, q = w
          PROVE  /\ Word(m2.args, q) = v
                 /\ \A i : i # q => Word(m2.args, i) = Word(c.mem.args, i)
      <4>1. m2.args = Override(c.mem.args, {q}, v)
        BY <2>4, <3>1
      <4>2. v \in Int /\ c.mem.args \in Store
        BY <1>4, <2>1
      <4> HIDE DEF w
      <4>3. /\ Word(Override(c.mem.args, {q}, v), q) = v
            /\ \A i : i # q => Word(Override(c.mem.args, {q}, v), i) = Word(c.mem.args, i)
        BY <4>2, StoreIs
      <4> QED  BY <4>1, <4>3
    <3> QED  BY <1>4, <3>1
  <2>8. StagedIn(stack', m2)
    <3> SUFFICES ASSUME NEW i \in 1 .. Len(stack'), stack'[i].kind = "call",
                        NEW k \in 1 .. Len(stack'[i].args)
                 PROVE  Word(m2.args, stack'[i].base + k - 1) = stack'[i].args[k]
      BY DEF StagedIn
    <3>1. CASE i = m + 1
      <4>1. stack'[i].args = Append(Top.args, v) /\ stack'[i].base = b
        BY <1>4, <1>5, <3>1
      <4>2. k \in 1 .. l + 1 /\ Len(Top.args) = l
        BY <1>4, <4>1 DEF l
      <4>3. CASE k = l + 1
        <5>1. b + k - 1 = w
          BY <1>4, <4>3
        <5>2. Append(Top.args, v)[k] = v
          BY <1>4, <4>2, <4>3
        <5> QED  BY <2>7, <4>1, <5>1, <5>2
      <4>4. CASE k \in 1 .. l
        <5>1. b + k - 1 # w
          BY <1>4, <4>4
        <5>2. Append(Top.args, v)[k] = Top.args[k]
          BY <1>4, <4>2, <4>4
        <5>3. Word(c.mem.args, b + k - 1) = Top.args[k]
          BY <1>4, <1>5, <2>1, <4>2, <4>4 DEF StagedIn, b
        <5> QED  BY <2>7, <4>1, <5>1, <5>2, <5>3
      <4> QED  BY <1>4, <4>2, <4>3, <4>4
    <3>2. CASE i \in 1 .. m
      <4>1. stack'[i] = stack[i] /\ i \in 1 .. Len(stack)
        BY <1>5, <3>2
      <4>2. stack[i].base + k - 1 # w
        <5>1. /\ stack[i].base \in Nat /\ Len(stack[i].args) \in Nat
              /\ stack[i].base + Len(stack[i].args) <= b /\ k \in 1 .. Len(stack[i].args)
          BY <1>9, <3>2, <4>1
        <5> QED  BY SMTT(30), <1>4, <5>1
      <4>3. Word(c.mem.args, stack[i].base + k - 1) = stack[i].args[k]
        BY <2>1, <4>1 DEF StagedIn
      <4> QED  BY <2>7, <4>1, <4>2, <4>3
    <3> QED  BY <1>5, <3>1, <3>2
  <2> QED  BY <1>1, <1>6, <2>3, <2>5, <2>6, <2>8, HereStep DEF m2
<1> QED  BY <1>2, <1>6, <1>7, <1>8, <1>10, EmitRight DEF CertifiedNext

(* CloseCall keeps a certificate: the arguments are all where the call      *)
(* reads them.                                                              *)
LEMMA CloseCallRight ==
    ASSUME Wellformed, NEW P, NEW A, Certified(P, A), CloseCall
    PROVE  CertifiedNext
<1> DEFINE L == Len(stack)
           m == L - 2
           n == nodes + 1
           op == CallOp
           g == IF Top.self THEN Ended(Under) ELSE Given(Under, n)
<1>1. /\ phase = "compile" /\ UNCHANGED << phase, mem, last, scope, rebound, slot_of >> /\ Written(n)
      /\ frontier' = (IF Top.self THEN {} ELSE {n})
      /\ ends' = (IF Top.self THEN ends \cup {n} ELSE ends)
  BY DEF CloseCall, machineVars
<1>2. SameBlocks /\ Emitted(<< op >>, CallExit) /\ op \in Operation
  BY CloseCallKeeps
<1>3. /\ L > 1 /\ Top \in CallFrame /\ Under \in Frame /\ ~OpenCheck(Under) /\ Under.kind # "wait"
      /\ Under.kind = "list" => Under \in ListFrame
      /\ Replaces(m, g) /\ Atop(Top)
      /\ stack \in Seq(Frame) /\ L \in Nat /\ n \in Nat /\ n \in Int /\ n # NoNode
  <2>1. Shape(stack) /\ Typed
    BY DEF Wellformed
  <2>2. n \in Nat /\ n \in Int /\ n # NoNode
    BY <2>1 DEF Typed, NoNode
  <2> HIDE DEF g, m
  <2> QED  BY <2>1, <2>2, CloseCallStack, ShapeTop DEF Top, g, m
<1> HIDE DEF n
<1>4. /\ g.kind = "list" \/ (~Top.self /\ g.value = n)
      /\ SameArgs(Under, g)
  <2>1. CASE Under.kind = "list"
    <3>1. g.kind = "list"
      <4>1. CASE Top.self
        BY <1>3, <2>1, <4>1 DEF Ended, ListFrame
      <4>2. CASE ~Top.self
        BY <1>3, <2>1, <4>2 DEF Given, ListFrame
      <4> QED  BY <4>1, <4>2
    <3> HIDE DEF g
    <3> QED  BY <3>1 DEF SameArgs
  <2>2. CASE Under.kind # "list"
    <3>1. ~Top.self
      BY <2>2, CloseCallStack DEF Wellformed
    <3>2. g = Given(Under, n)
      BY <3>1
    <3>3. /\ Given(Under, n).value = n
          /\ Like(Given(Under, n), Under)
          /\ Under.kind = "call" => Given(Under, n).args = Under.args
      BY <1>3, <2>2, GivenIs
    <3> QED  BY <3>1, <3>2, <3>3 DEF SameArgs, Like
  <2> QED  BY <2>1, <2>2
<1>5. /\ m \in Nat /\ m + 2 = Len(stack) /\ Keeps(stack, stack', m) /\ L \in 1 .. Len(stack)
      /\ Len(stack') = m + 1 /\ stack'[m + 1] = g /\ stack[m + 1] = Under /\ stack[L] = Top
      /\ Top.kind = "call" /\ Top.self \in BOOLEAN /\ Top.args \in Seq(Int) /\ Top.base \in Nat
  BY <1>3 DEF Replaces, Under, Top, CallFrame
<1> HIDE DEF m, g, L
<1>6. /\ op.node = n /\ op.meant = Top.args /\ op.reads = Top.base
      /\ op.do = IF Top.self THEN "self" ELSE "call"
  BY DEF CallOp, Op, n
<1> HIDE DEF op
<1>7. OpensStay
  BY <1>3, <1>5, OpensAbove DEF Atop
<1>8. SlotsStay /\ Started /\ SourceGrows
  BY <1>1, SlotsKept DEF Started, SourceGrows, Written
<1>9. SameStaged
  BY <1>3, <1>4, <1>5, StagedReplaced
<1>10. ASSUME NEW c \in Here
       PROVE  Good(edges', rebound', op, c)
  <2>1. StagedIn(stack, c.mem)
    BY DEF Here
  <2>2. Saw(op, c.mem) = [ i \in DOMAIN Top.args |-> Word(c.mem.args, Top.base + i - 1) ]
    BY <1>6 DEF Saw
  <2>3. ASSUME NEW i \in DOMAIN Top.args
        PROVE  Word(c.mem.args, Top.base + i - 1) = Top.args[i]
    <3>1. i \in 1 .. Len(Top.args)
      BY <1>5
    <3>2. \A k \in 1 .. Len(stack[L].args) :
              Word(c.mem.args, stack[L].base + k - 1) = stack[L].args[k]
      BY <1>5, <2>1 DEF StagedIn
    <3> QED  BY <1>5, <3>1, <3>2
  <2>4. Saw(op, c.mem) = op.meant
    BY <1>5, <1>6, <2>2, <2>3
  <2> QED  BY <1>1, <1>6, <2>4, GoodNew DEF n
<1>11. CASE Top.self
  <2>1. ASSUME NEW c \in Here  PROVE Post(op, c).to \in ends'
    BY <1>1, <1>3, <1>6, <1>11 DEF Post
  <2>2. CallExit = {}
    BY <1>11 DEF CallExit
  <2> QED  BY <1>2, <1>7, <1>8, <1>10, <2>1, <2>2, EmitRight DEF CertifiedNext
<1>12. CASE ~Top.self
  <2>1. ASSUME NEW c \in Here  PROVE Post(op, c) \in Here'
    <3> DEFINE m2 == PostMem(op, c.mem)
    <3>1. HoldsIn(slot_of, scope, c.mem) /\ StagedIn(stack, c.mem)
      BY DEF Here
    <3>2. m2.args = c.mem.args /\ m2.slots = c.mem.slots /\ m2.temp = n
      BY <1>6, <1>12 DEF PostMem
    <3> HIDE DEF m2
    <3>3. HoldsIn(slot_of', scope', m2)
      BY <1>1, <3>1, <3>2, HoldsKept
    <3>4. TempIs(stack'[Len(stack')], m2)
      BY <1>4, <1>5, <3>2 DEF TempIs
    <3>5. StagedIn(stack', m2)
      BY <1>9, <3>1, <3>2, StagedKept
    <3>6. op.node \in frontier' /\ op.node # NoNode
      BY <1>1, <1>3, <1>6, <1>12
    <3> QED  BY <1>2, <3>3, <3>4, <3>5, <3>6, HereStep DEF m2
  <2>2. CallExit = {block_id + 1}
    BY <1>12 DEF CallExit
  <2> QED  BY <1>2, <1>7, <1>8, <1>10, <2>1, <2>2, EmitRight DEF CertifiedNext
<1> QED  BY <1>11, <1>12

(* KTable keeps a certificate.                                              *)
LEMMA KTableRight ==
    ASSUME Wellformed, NEW P, NEW A, Certified(P, A), KTable
    PROVE  CertifiedNext
<1> DEFINE L == Len(stack)
           m == L - 2
           n == nodes + 1
           v == Top.value
           op == Op("table", n, NoNode, << v >>, NoNode)
           g == Given(Under, n)
<1>1. /\ phase = "compile" /\ UNCHANGED << phase, mem, last, scope, rebound, slot_of, ends >> /\ Written(n)
      /\ frontier' = {n} /\ Top.node = NoNode
  BY DEF KTable, machineVars
<1>2. SameBlocks /\ Emitted(<< op >>, {block_id + 1})
  BY KTableKeeps
<1>3. /\ L > 1 /\ Top \in WhenFrame /\ Under \in ListFrame /\ v # NoNode
      /\ Replaces(m, g) /\ Atop(Top) /\ g.kind = "list"
      /\ stack \in Seq(Frame) /\ L \in Nat /\ n \in Nat /\ n \in Int /\ n # NoNode
  <2>1. Shape(stack) /\ Typed
    BY DEF Wellformed
  <2>2. n \in Nat /\ n \in Int /\ n # NoNode
    BY <2>1 DEF Typed, NoNode
  <2>3. Under \in ListFrame
    BY <2>1, KTableStack
  <2>4. g.kind = "list"
    BY <2>3 DEF Given, ListFrame
  <2> HIDE DEF g, m
  <2> QED  BY <2>1, <2>2, <2>3, <2>4, KTableStack, ShapeTop DEF Top, g, m
<1> HIDE DEF n
<1>4. /\ m \in Nat /\ m + 2 = Len(stack) /\ Keeps(stack, stack', m)
      /\ Len(stack') = m + 1 /\ stack'[m + 1] = g /\ stack[m + 1] = Under
      /\ v \in Int /\ Top.kind = "when" /\ ~OpenCheck(Under)
  BY <1>3 DEF Replaces, Under, WhenFrame, ListFrame, OpenCheck
<1> HIDE DEF m, g, L
<1>5. op \in Operation /\ op.node = n /\ op.do = "table" /\ op.meant = << v >>
  <2> HIDE DEF v
  <2> QED  BY <1>3, <1>4 DEF Op, Operation, Kinds, NoNode
<1> HIDE DEF op
<1>6. OpensStay
  BY <1>3, <1>4, OpensAbove DEF Atop
<1>7. SlotsStay /\ Started /\ SourceGrows
  BY <1>1, SlotsKept DEF Started, SourceGrows, Written
<1>8. SameStaged
  BY <1>3, <1>4, StagedReplaced DEF SameArgs
<1>9. ASSUME NEW c \in Here
      PROVE  Good(edges', rebound', op, c) /\ Post(op, c) \in Here'
  <2> DEFINE m2 == PostMem(op, c.mem)
  <2>1. HoldsIn(slot_of, scope, c.mem) /\ StagedIn(stack, c.mem) /\ c.mem.temp = v
    BY <1>3, <1>4 DEF Here, TempIs
  <2>2. Saw(op, c.mem) = op.meant
    BY <1>5, <2>1 DEF Saw
  <2>3. Good(edges', rebound', op, c)
    BY <1>1, <1>5, <2>2, GoodNew DEF n
  <2>4. m2.args = c.mem.args /\ m2.slots = c.mem.slots
    BY <1>5 DEF PostMem
  <2> HIDE DEF m2
  <2>5. HoldsIn(slot_of', scope', m2)
    BY <1>1, <2>1, <2>4, HoldsKept
  <2>6. TempIs(stack'[Len(stack')], m2)
    BY <1>3, <1>4 DEF TempIs
  <2>7. StagedIn(stack', m2)
    BY <1>8, <2>1, <2>4, StagedKept
  <2>8. op.node \in frontier' /\ op.node # NoNode
    BY <1>1, <1>3, <1>5
  <2> QED  BY <1>5, <2>3, <2>5, <2>6, <2>7, <2>8, HereStep DEF m2
<1> QED  BY <1>2, <1>5, <1>6, <1>7, <1>9, EmitRight DEF CertifiedNext

-----------------------------------------------------------------------------
(* Blocks that arms and handlers wait for.                                  *)
LEMMA HoldsExtends ==
    ASSUME NEW so, NEW names, NEW a, NEW m, HoldsIn(so, names, m), Extends(names, a)
    PROVE  HoldsIn(so, a, m)
BY DEF HoldsIn, Extends

(* FirstArm keeps a certificate: every arm begins with what the check       *)
(* leaves.                                                                  *)
LEMMA FirstArmRight ==
    ASSUME Wellformed, NEW P, NEW A, Certified(P, A), FirstArm
    PROVE  CertifiedNext
<1> DEFINE L == Len(stack)
           m == L - 1
           n == nodes + 1
           op == CheckOp
           g == Checked
           h == List("arm", 0)
<1>1. /\ phase = "compile" /\ UNCHANGED << phase, mem, last, scope, rebound, slot_of, ends >> /\ Written(n)
      /\ frontier' = {n} /\ Top.kind = "when"
  BY DEF FirstArm, machineVars
<1>2. Emitted(<< op >>, {})
  BY FirstArmKeeps
<1>3. /\ Top \in WhenFrame /\ Top.node = NoNode /\ Top.value # NoNode /\ Top.redirects = {}
      /\ Opens(m, g, h) /\ g \in WhenFrame /\ Shape(stack')
      /\ stack \in Seq(Frame) /\ L \in Nat /\ L > 0 /\ n \in Nat /\ n # NoNode
  BY FirstArmStack, ShapeTop DEF Wellformed, Typed, NoNode
<1>4. /\ g.kind = "when" /\ g.node = n /\ g.block = Len(blocks) + 1 /\ g.starts = {block_id + 1}
      /\ g.redirects = {} /\ g.scope = Top.scope
      /\ Top.value \in Int /\ ~OpenCheck(Top)
  BY <1>3 DEF Checked, WhenFrame, OpenCheck
<1>5. h.kind = "list"
  BY ListIs
<1> HIDE DEF n, g, h
<1>6. /\ Keeps(stack, stack', m) /\ Len(stack') = m + 2 /\ stack'[m + 1] = g /\ stack'[m + 2] = h
      /\ m + 1 = Len(stack) /\ stack[m + 1] = Top /\ m \in Nat
      /\ \A i \in 1 .. m : stack'[i] = stack[i] /\ i \in 1 .. Len(stack)
      /\ \A i \in 1 .. Len(stack') : i = m + 2 \/ i = m + 1 \/ i \in 1 .. m
      /\ m + 1 \in 1 .. Len(stack')
  BY <1>3 DEF Opens, Top, Keeps
<1> HIDE DEF m
<1>7. op \in Operation /\ op.node = n /\ op.do = "check" /\ op.meant = << Top.value >> /\ op.writes = NoNode
  <2> DEFINE v == Top.value
  <2>1. v \in Int /\ n \in Int
    BY <1>3, <1>4
  <2>2. op = Op("check", n, NoNode, << v >>, NoNode)
    BY DEF CheckOp, n
  <2> HIDE DEF op, v
  <2>3. /\ op \in Operation /\ op.node = n /\ op.do = "check" /\ op.meant = << v >>
        /\ op.writes = NoNode
    BY <2>1, <2>2 DEF Op, Operation, Kinds, NoNode
  <2> QED  BY <2>3 DEF v
<1> HIDE DEF op
<1>8. OpensStay
  BY <1>4, <1>6, OpensAbove
<1>9. SlotsStay /\ Started /\ SourceGrows
  BY <1>1, SlotsKept DEF Started, SourceGrows, Written
<1>10. SameStaged
  BY <1>3, <1>4, <1>5, <1>6, StagedReplaced DEF SameArgs
<1>11. PICK H : H = Here'
  OBVIOUS
<1>12. PICK G : G = P[block_id]
  OBVIOUS
<1>13. G \in SUBSET Config /\ G \subseteq Here /\ H \in SUBSET Config
  BY <1>11, <1>12 DEF Certified, Here
<1>14. ASSUME NEW c \in Here
       PROVE  Good(edges', rebound', op, c) /\ Post(op, c) \in Here'
  <2> DEFINE m2 == PostMem(op, c.mem)
  <2>1. HoldsIn(slot_of, scope, c.mem) /\ StagedIn(stack, c.mem) /\ c.mem.temp = Top.value
    BY <1>1, <1>3 DEF Here, TempIs
  <2>2. Saw(op, c.mem) = op.meant
    BY <1>7, <2>1 DEF Saw
  <2>3. Good(edges', rebound', op, c)
    BY <1>1, <1>7, <2>2, GoodNew DEF n
  <2>4. m2.args = c.mem.args /\ m2.slots = c.mem.slots
    BY <1>7 DEF PostMem
  <2> HIDE DEF m2
  <2>5. HoldsIn(slot_of', scope', m2)
    BY <1>1, <2>1, <2>4, HoldsKept
  <2>6. TempIs(stack'[Len(stack')], m2)
    BY <1>5, <1>6 DEF TempIs
  <2>7. StagedIn(stack', m2)
    BY <1>10, <2>1, <2>4, StagedKept
  <2>8. op.node \in frontier' /\ op.node # NoNode
    BY <1>1, <1>3, <1>7
  <2> QED  BY <1>7, <2>3, <2>5, <2>6, <2>7, <2>8, HereStep DEF m2
<1>15. Extends(scope, Top.scope)
  <2>1. m + 1 \in 1 .. Len(stack)
    BY <1>6
  <2> QED  BY <1>1, <1>6, <2>1 DEF Wellformed, Scopes
<1>16. \A c \in H : c.to = n /\ HoldsIn(slot_of', Top.scope, c.mem)
  <2> SUFFICES ASSUME NEW c \in H  PROVE c.to = n /\ HoldsIn(slot_of', Top.scope, c.mem)
    OBVIOUS
  <2>1. c.to \in frontier' /\ HoldsIn(slot_of', scope', c.mem)
    BY <1>11 DEF Here
  <2> QED  BY <1>1, <1>15, <2>1, HoldsExtends
<1>17. OpenCheck(stack'[m + 1]) /\ NewFrame(m + 1, H, H)
  BY <1>3, <1>4, <1>6, <1>16 DEF NewFrame, OpenCheck
<1>18. \A i \in 1 .. Len(stack') : HasBlock(stack'[i]) => SameFrame(i) \/ NewFrame(i, H, H)
  <2>1. ~HasBlock(stack'[m + 2])
    BY <1>5, <1>6 DEF HasBlock, OpenCheck
  <2> QED  BY <1>6, <1>17, <2>1 DEF SameFrame
<1>19. {} \in SUBSET {block_id, block_id + 1} /\ H \subseteq Here' /\ P[block_id] \subseteq G
  BY <1>11, <1>12
<1>20. \A c \in G : Good(edges', rebound', op, c) /\ Post(op, c) \in H
  BY <1>11, <1>13, <1>14
<1>21. PICK ex : ex = {}
  OBVIOUS
<1>22. /\ ex \in SUBSET {block_id, block_id + 1} /\ Emitted(<< op >>, ex)
       /\ block_id \notin ex /\ block_id + 1 \notin ex
       /\ \E i \in 1 .. Len(stack') : OpenCheck(stack'[i]) /\ NewFrame(i, H, H)
  <2>1. m + 1 \in 1 .. Len(stack')
    BY <1>6
  <2> QED  BY <1>2, <1>17, <1>21, <2>1
<1> QED  BY <1>8, <1>9, <1>13, <1>18, <1>19, <1>20, <1>22, CertifiedEmit DEF CertifiedNext

(* OpenWait keeps a certificate: what waits enters itself again.            *)
LEMMA OpenWaitRight ==
    ASSUME Wellformed, NEW P, NEW A, Certified(P, A), OpenWait
    PROVE  CertifiedNext
<1> DEFINE L == Len(stack)
           n == nodes + 1
           w == NextIndex(slot_of)
<1>1. /\ phase = "compile" /\ UNCHANGED << phase, mem, last, ends >> /\ Written(n)
      /\ frontier' = {n} /\ rebound \subseteq rebound'
  BY DEF OpenWait, machineVars, Room, Rebinds
<1>2. PICK xs \in {{}} \cup { {x} : x \in Names }, filter \in SUBSET DOMAIN scope :
        WaitOpened(xs, filter) /\ Emitted(<< WaitOp(xs, filter) >>, {block_id})
  BY OpenWaitKeeps
<1> DEFINE op == WaitOp(xs, filter)
           f == WaitOf(filter)
           reads == Folded(filter)
           meant == Meant(filter)
           h == List("handler", IF xs = {} THEN 0 ELSE 1)
           v == IF xs = {} THEN NoNode ELSE w
<1>3. /\ Top \in ListFrame /\ Keeps(stack, stack', L - 1) /\ Len(stack') = L + 2
      /\ stack'[L] = Top /\ stack'[L + 1] = f /\ stack'[L + 2] = h
  BY <1>2 DEF WaitOpened
<1>4. /\ L \in Nat /\ L > 0 /\ n \in Nat /\ n # NoNode /\ w \in Nat /\ w # NoNode
      /\ block_id \in Nat
  BY ShapeTop, NextIndexTyped DEF Wellformed, Typed, NoNode
<1>5. h.kind = "list" /\ Top.kind = "list" /\ Top = stack[L]
  <2>1. (IF xs = {} THEN 0 ELSE 1) \in Nat
    OBVIOUS
  <2> QED  BY <1>3, <2>1, ListIs DEF ListFrame, Top
<1>6. /\ f.kind = "wait" /\ f.block = Len(blocks) + 1 /\ f.starts = {block_id + 1}
      /\ f.node = n /\ f.filter = filter
  BY DEF WaitOf
<1> HIDE DEF h, f
<1>7. /\ \A i \in 1 .. L : stack'[i] = stack[i] /\ i \in 1 .. Len(stack)
      /\ \A i \in 1 .. Len(stack') : i = L + 2 \/ i = L + 1 \/ i \in 1 .. L
      /\ Len(stack') \in Nat
  <2>1. \A i \in 1 .. L : i = L \/ i \in 1 .. L - 1
    BY <1>4
  <2>2. \A i \in 1 .. L - 1 : stack'[i] = stack[i]
    BY <1>3 DEF Keeps
  <2>3. \A i \in 1 .. L + 2 : i = L + 2 \/ i = L + 1 \/ i \in 1 .. L
    BY <1>4
  <2> QED  BY SMTT(30), <1>3, <1>4, <1>5, <2>1, <2>2, <2>3
<1>8. \/ xs = {} /\ UNCHANGED << scope, slot_of >>
      \/ xs # {} /\ \E x \in Names : CanBind(x) /\ Bound(x, n)
  <2>1. CASE xs = {}
    BY <1>2, <2>1 DEF WaitOpened
  <2>2. ASSUME NEW x \in Names, xs = {x}
        PROVE  CanBind(x) /\ Bound(x, n)
    BY <1>2, <2>2 DEF WaitOpened, Insert, Bound
  <2> QED  BY <1>2, <2>1, <2>2
<1> HIDE DEF n
<1>9. /\ op \in Operation /\ op.node = n /\ op.do = "take" /\ op.reads = reads
      /\ op.meant = meant /\ op.writes = IF xs = {} THEN NoNode ELSE w
  <2>1. /\ v \in Int /\ n \in Int /\ op = Op("take", n, reads, meant, v)
        /\ reads \in Int /\ meant \in Seq(Int)
    BY <1>4, MeantIs DEF WaitOp, n, NoNode, Wellformed
  <2> HIDE DEF op, v, reads, meant
  <2>2. /\ op \in Operation /\ op.node = n /\ op.do = "take" /\ op.reads = reads
        /\ op.meant = meant /\ op.writes = v
    BY <2>1 DEF Op, Operation, Kinds, NoNode
  <2> QED  BY <2>2 DEF v
\* The name of the filter keeps its slot and what it means, unless the handler binds it.
<1>0. \/ n \in rebound'
      \/ reads = NoNode /\ meant = << >>
      \/ \E y \in DOMAIN scope' : reads = slot_of'[y] /\ meant = << scope'[y] >>
  <2>1. CASE filter = {}
    BY <2>1, MeantIs DEF Wellformed
  <2>2. CASE filter # {}
    <3>1. PICK y \in filter : reads = slot_of[y] /\ meant = << scope[y] >>
      BY <2>2, MeantIs DEF Wellformed
    <3>2. y \in DOMAIN scope /\ y \in DOMAIN slot_of
      BY <3>1 DEF Wellformed, Scopes
    <3>3. CASE y \in xs
      <4>1. L + 1 \in DOMAIN stack'
        <5>1. stack' \in Seq(Frame)
          BY <1>2, ShapeTop DEF WaitOpened
        <5> QED  BY <1>3, <1>4, <5>1
      <4>2. f.filter \cap xs # {}
        BY <1>6, <3>1, <3>3
      <4> QED  BY <1>2, <1>3, <1>6, <4>1, <4>2 DEF WaitOpened, Rebinds
    <3>4. CASE y \notin xs
      <4>1. y \in DOMAIN scope' /\ slot_of'[y] = slot_of[y] /\ scope'[y] = scope[y]
        <5>1. CASE xs = {}
          BY <1>2, <3>2, <5>1 DEF WaitOpened
        <5>2. ASSUME NEW x \in Names, xs = {x}
              PROVE  y \in DOMAIN scope' /\ slot_of'[y] = slot_of[y] /\ scope'[y] = scope[y]
          BY <1>2, <3>2, <3>4, <5>2 DEF WaitOpened, Insert, Override
        <5> QED  BY <1>2, <5>1, <5>2
      <4> QED  BY <3>1, <4>1
    <3> QED  BY <3>3, <3>4
  <2> QED  BY <2>1, <2>2
<1> HIDE DEF op, w, L, reads, meant
<1>10. OpensStay
  <2>1. \A i \in 1 .. Len(stack) : stack'[i] = stack[i] /\ i \in 1 .. Len(stack')
    BY <1>3, <1>4, <1>7 DEF L
  <2> QED  BY <2>1 DEF OpensStay
<1>11. SlotsStay /\ Started /\ SourceGrows
  BY <1>1, <1>8, SlotsKept DEF Started, SourceGrows, Written
<1>12. SameStaged
  BY <1>3, <1>5, <1>6, <1>7 DEF SameStaged
<1>13. PICK H : H = Here'
  OBVIOUS
<1>14. PICK G : G = Here \cup H
  OBVIOUS
<1>15. G \in SUBSET Config /\ P[block_id] \subseteq G /\ H \in SUBSET Config
  BY <1>13, <1>14 DEF Certified, Here
<1>16. ASSUME NEW c \in G
       PROVE  Good(edges', rebound', op, c) /\ Post(op, c) \in H
  <2> DEFINE m2 == PostMem(op, c.mem)
  <2>1. c \in Config /\ c.mem \in Memory
    BY <1>9, <1>15, PostIs
  <2>2. /\ Post(op, c) \in Config /\ Post(op, c).to = n /\ Post(op, c).mem = m2
    BY <1>4, <1>9, <2>1, PostIs
  <2>3. /\ m2.args = c.mem.args
        /\ IF xs = {} THEN m2.slots = c.mem.slots ELSE m2.slots = Override(c.mem.slots, {w}, n)
    BY <1>4, <1>9 DEF PostMem
  <2>4. Saw(op, c.mem) = IF op.reads = NoNode THEN << >> ELSE << Word(m2.slots, op.reads) >>
    BY <1>9 DEF Saw
  <2> HIDE DEF m2
  <2>5. /\ StagedIn(stack', m2)
        /\ \/ HoldsIn(slot_of, scope, c.mem)
           \/ HoldsIn(slot_of', scope', c.mem)
    <3>1. CASE c \in Here
      <4>1. StagedIn(stack, c.mem) /\ HoldsIn(slot_of, scope, c.mem)
        BY <3>1 DEF Here
      <4> QED  BY <1>12, <2>3, <4>1, StagedKept
    <3>2. CASE c \in H
      <4>1. StagedIn(stack', c.mem) /\ HoldsIn(slot_of', scope', c.mem)
        BY <1>13, <3>2 DEF Here
      <4> QED  BY <2>3, <4>1 DEF StagedIn
    <3> QED  BY <1>14, <3>1, <3>2
  <2>6. HoldsIn(slot_of', scope', m2)
    <3>1. CASE xs = {}
      BY <1>8, <2>3, <2>5, <3>1, HoldsKept
    <3>2. ASSUME NEW x \in Names, Bound(x, n), xs # {}
          PROVE  HoldsIn(slot_of', scope', m2)
      <4>1. HoldsBut(x, c.mem)
        <5>1. CASE HoldsIn(slot_of, scope, c.mem)
          BY <5>1 DEF HoldsIn, HoldsBut
        <5>2. CASE HoldsIn(slot_of', scope', c.mem)
          <6>1. \A y \in DOMAIN scope : y # x =>
                    /\ y \in DOMAIN scope' /\ scope'[y] = scope[y]
                    /\ y \in DOMAIN slot_of /\ slot_of'[y] = slot_of[y]
            BY <3>2 DEF Bound, Override, Wellformed, Scopes
          <6> QED  BY <5>2, <6>1 DEF HoldsIn, HoldsBut
        <5> QED  BY <2>5, <5>1, <5>2
      <4> QED  BY <1>4, <2>1, <2>3, <3>2, <4>1, HoldsBound DEF w
    <3> QED  BY <1>8, <3>1, <3>2
  <2>7. TempIs(stack'[Len(stack')], m2)
    BY <1>3, <1>5 DEF TempIs
  <2>8. op.node \in rebound' \/ Saw(op, c.mem) = op.meant
    <3>1. CASE n \in rebound'
      BY <1>9, <3>1
    <3>2. CASE reads = NoNode /\ meant = << >>
      BY <1>9, <2>4, <3>2
    <3>3. ASSUME NEW y \in DOMAIN scope', reads = slot_of'[y], meant = << scope'[y] >>
          PROVE  Saw(op, c.mem) = op.meant
      <4>1. slot_of'[y] \in Nat
        <5>1. Wellformed'
          BY OpenWaitKeeps
        <5> QED  BY <3>3, <5>1 DEF Wellformed, Typed, Bindings, Scopes
      <4>2. Word(m2.slots, slot_of'[y]) = scope'[y]
        BY <2>6, <3>3 DEF HoldsIn
      <4> QED  BY <1>9, <2>4, <3>3, <4>1, <4>2 DEF NoNode
    <3> QED  BY <1>0, <3>1, <3>2, <3>3
  <2>9. op.node # c.to => << c.to, op.node >> \in edges'
    <3>1. CASE c \in Here
      BY <1>1, <1>9, <3>1 DEF Here, Written
    <3>2. CASE c \in H
      BY <1>1, <1>9, <1>13, <3>2 DEF Here
    <3> QED  BY <1>14, <3>1, <3>2
  <2>10. Good(edges', rebound', op, c)
    BY <1>4, <1>9, <2>8, <2>9 DEF Good
  <2> QED  BY <1>1, <1>13, <2>2, <2>5, <2>6, <2>7, <2>10 DEF Here, Top
<1>17. \A i \in 1 .. Len(stack') : HasBlock(stack'[i]) => SameFrame(i) \/ NewFrame(i, H, H)
  <2>1. NewFrame(L + 1, H, H)
    BY <1>3, <1>6 DEF NewFrame, OpenCheck
  <2>2. ~HasBlock(stack'[L + 2])
    BY <1>3, <1>5 DEF HasBlock, OpenCheck
  <2> QED  BY <1>7, <2>1, <2>2 DEF SameFrame
<1>18. /\ {block_id} \in SUBSET {block_id, block_id + 1} /\ H \subseteq Here' /\ H \subseteq G
       /\ block_id + 1 \notin {block_id}
  BY <1>4, <1>13, <1>14
<1> QED  BY <1>2, <1>10, <1>11, <1>15, <1>16, <1>17, <1>18, CertifiedEmit DEF CertifiedNext, op

-----------------------------------------------------------------------------
(* The ends of arms and handlers.                                           *)
\* Where a list is at work no argument is staged.
LEMMA NothingStaged ==
    ASSUME NEW s, Shape(s), s[Len(s)].kind = "list", NEW m
    PROVE  StagedIn(s, m)
BY ListOnTop DEF StagedIn

\* What the end of a block leaves behind is a set of configurations.
LEMMA OutTyped ==
    ASSUME Wellformed, NEW P, NEW A, Certified(P, A), NEW j \in 1 .. Len(blocks)
    PROVE  /\ Len(blocks[j].ops) \in Nat /\ blocks[j].ops \in Seq(Operation)
           /\ Out(A, j) \subseteq Config /\ j \in Nat
<1>1. blocks[j] \in Block
  BY DEF Wellformed, Typed
<1>2. Len(blocks[j].ops) \in Nat /\ blocks[j].ops \in Seq(Operation) /\ j \in Nat
  BY <1>1 DEF Block
<1> QED  BY <1>2 DEF Certified, Out

(* What may have happened when an arm ends: nothing relies on it any more   *)
(* than on what was there before the when.                                  *)
LEMMA ArmEndsRight ==
    ASSUME Wellformed, NEW P, NEW A, Certified(P, A), Top \in ListFrame, Under \in WhenFrame,
           OpenCheck(Under), Len(stack) > 2
    PROVE  /\ \A c \in P[block_id] : c.to \in frontier /\ HoldsIn(slot_of, Under.scope, c.mem)
           /\ ~NeedsRedirect => P[block_id] = {}
           /\ \A c \in Out(A, Under.block) :
                c \in Config /\ c.to = Under.node /\ HoldsIn(slot_of, Under.scope, c.mem)
           /\ \A s \in Under.starts : Out(A, Under.block) \subseteq P[s]
           /\ \A r \in Under.redirects : \A c \in P[r] :
                c.to \in Under.outs /\ HoldsIn(slot_of, Under.scope, c.mem)
           /\ Under.starts # {}
           /\ Under.block \in 1 .. Len(blocks) /\ Under.starts \subseteq 0 .. block_id
           /\ Under.redirects \subseteq 0 .. block_id - 1
<1>1. Len(stack) - 1 \in 1 .. Len(stack) /\ Under = stack[Len(stack) - 1] /\ HasBlock(Under)
      /\ Under.kind = "when"
  BY ShapeTop DEF Wellformed, Under, HasBlock, OpenCheck
<1>2. /\ Under.block \in 1 .. Len(blocks) /\ Under.starts \subseteq 0 .. block_id
      /\ Under.redirects \subseteq 0 .. block_id - 1
  BY <1>1 DEF Wellformed, Checks_ok
<1>3. Extends(scope, Under.scope)
  BY <1>1 DEF Wellformed, Scopes
<1>4. P[block_id] \subseteq Here
  BY DEF Certified
<1>5. \A c \in P[block_id] : c.to \in frontier /\ HoldsIn(slot_of, Under.scope, c.mem)
  <2> SUFFICES ASSUME NEW c \in P[block_id]
               PROVE  c.to \in frontier /\ HoldsIn(slot_of, Under.scope, c.mem)
    OBVIOUS
  <2>1. c.to \in frontier /\ HoldsIn(slot_of, scope, c.mem)
    BY <1>4 DEF Here
  <2> QED  BY <1>3, <2>1, HoldsExtends
<1>6. ~NeedsRedirect => P[block_id] = {}
  <2> SUFFICES ASSUME ~NeedsRedirect  PROVE P[block_id] = {}
    OBVIOUS
  <2>1. Top.kind = "list" /\ Top.changed
    BY DEF NeedsRedirect, ListFrame
  <2>2. frontier = {}
    BY <2>1 DEF Wellformed, Changed
  <2> QED  BY <1>5, <2>2
<1>7. /\ \A s \in Under.starts : Out(A, Under.block) \subseteq P[s]
      /\ Under.starts # {}
      /\ \A c \in Out(A, Under.block) : c.to = Under.node /\ HoldsIn(slot_of, Under.scope, c.mem)
      /\ \A r \in Under.redirects : \A c \in P[r] :
                c.to \in Under.outs /\ HoldsIn(slot_of, Under.scope, c.mem)
  BY <1>1 DEF Certified, FramesRight
<1>8. Out(A, Under.block) \subseteq Config
  BY <1>2, OutTyped
<1> QED  BY <1>2, <1>5, <1>6, <1>7, <1>8

(* NextArm keeps a certificate: the next arm begins with what the check     *)
(* leaves, whatever the arm before it did.                                  *)
LEMMA NextArmRight ==
    ASSUME Wellformed, NEW P, NEW A, Certified(P, A), NextArm
    PROVE  CertifiedNext
<1> DEFINE m == Len(stack) - 2
           h == List("arm", 0)
<1>1. /\ phase = "compile" /\ phase' = "compile" /\ block_id' = block_id + 1
      /\ frontier' = {Under.node} /\ scope' = Under.scope
      /\ UNCHANGED << edges, ends, rebound, blocks, branch_switch, slot_of, mem, last >>
  BY DEF NextArm, InArm, machineVars
<1>2. /\ Len(stack) > 2 /\ Top \in ListFrame /\ Under \in WhenFrame /\ OpenCheck(Under)
      /\ ArmEnd \in WhenFrame /\ ArmEnd.starts = Under.starts \cup {block_id + 1}
      /\ ArmEnd.node = Under.node /\ ArmEnd.block = Under.block /\ ArmEnd.scope = Under.scope
      /\ ArmEnd.outs = Under.outs \cup frontier
      /\ ArmEnd.redirects = Under.redirects \cup ArmExit
      /\ Opens(m, ArmEnd, h) /\ Shape(stack')
  BY NextArmStack DEF Wellformed
<1>3. h.kind = "list" /\ Len(stack) \in Nat
  BY ListIs, ShapeTop DEF Wellformed
<1> HIDE DEF h
<1>4. /\ m \in Nat /\ Len(stack') = m + 2 /\ stack'[m + 1] = ArmEnd /\ stack'[m + 2] = h
      /\ stack[m + 1] = Under /\ m + 1 \in 1 .. Len(stack) /\ m + 1 \in 1 .. Len(stack')
      /\ \A i \in 1 .. m : stack'[i] = stack[i] /\ i \in 1 .. Len(stack) /\ i \in 1 .. Len(stack')
      /\ \A i \in 1 .. Len(stack) : i = m + 2 \/ i = m + 1 \/ i \in 1 .. m
      /\ \A i \in 1 .. Len(stack') : i = m + 2 \/ i = m + 1 \/ i \in 1 .. m
      /\ stack[m + 2] = Top
  BY <1>2, <1>3 DEF Opens, Keeps, Top, Under
<1> HIDE DEF m
<1>5. /\ ~OpenCheck(h) /\ ~HasBlock(h) /\ ~OpenCheck(Top) /\ OpenCheck(ArmEnd)
  BY <1>2, <1>3 DEF OpenCheck, HasBlock, WhenFrame, ListFrame
<1>6. /\ \A c \in P[block_id] : c.to \in frontier /\ HoldsIn(slot_of, Under.scope, c.mem)
      /\ ~NeedsRedirect => P[block_id] = {}
      /\ \A c \in Out(A, Under.block) :
                c \in Config /\ c.to = Under.node /\ HoldsIn(slot_of, Under.scope, c.mem)
      /\ \A s \in Under.starts : Out(A, Under.block) \subseteq P[s]
      /\ \A r \in Under.redirects : \A c \in P[r] :
                c.to \in Under.outs /\ HoldsIn(slot_of, Under.scope, c.mem)
      /\ Under.starts # {} /\ Under.starts \subseteq 0 .. block_id
      /\ Under.redirects \subseteq 0 .. block_id - 1
  BY <1>2, ArmEndsRight
<1>7. PICK H : H = Here'
  OBVIOUS
<1>8. H \in SUBSET Config /\ Out(A, Under.block) \subseteq H
  <2>1. H \in SUBSET Config
    BY <1>7 DEF Here
  <2>2. ASSUME NEW c \in Out(A, Under.block)  PROVE c \in H
    <3>1. stack'[Len(stack')].kind = "list"
      BY <1>3, <1>4
    <3>2. TempIs(stack'[Len(stack')], c.mem) /\ StagedIn(stack', c.mem)
      BY <1>2, <3>1, NothingStaged DEF TempIs
    <3> QED  BY <1>1, <1>6, <1>7, <3>2 DEF Here, Top
  <2> QED  BY <2>1, <2>2
<1>9. PICK b : b = block_id
  OBVIOUS
<1>10. /\ b \in Nat /\ b + 1 \in Nat /\ b + 1 # 0 /\ b # b + 1 /\ b \in 0 .. b
       /\ \A id \in 0 .. b : id \in Nat /\ id # b + 1 /\ (id = b \/ id \in 0 .. b - 1)
       /\ \A id \in 0 .. b - 1 : id \in 0 .. b
       /\ 0 \in 0 .. b
  BY <1>9 DEF Wellformed, Typed
<1>11. PICK P2 : P2 = [ id \in Nat |-> IF id = b + 1 THEN H ELSE P[id] ]
  OBVIOUS
<1>12. P2 \in [Nat -> SUBSET Config]
  BY <1>8, <1>11 DEF Certified
<1>13. P2[b + 1] = H /\ \A id \in 0 .. b : P2[id] = P[id]
  BY <1>10, <1>11
<1>14. OpsRight(A)'
  BY <1>1 DEF Certified, OpsRight
<1>15. ExitsRight(P2, A)'
  <2> SUFFICES ASSUME NEW j \in 1 .. Len(blocks), NEW e \in blocks[j].exit
               PROVE  A[j][Len(blocks[j].ops)] \subseteq P2[e]
    BY <1>1 DEF ExitsRight, Out
  <2>1. e \in 0 .. b
    BY <1>9 DEF Wellformed, Exits_ok
  <2> QED  BY <1>13, <2>1 DEF Certified, ExitsRight, Out
<1>16. EndsRight(A)'
  <2> SUFFICES ASSUME NEW j \in 1 .. Len(blocks), blocks[j].exit = {}
               PROVE  \/ \E i \in 1 .. Len(stack') : OpenCheck(stack'[i]) /\ stack'[i].block = j
                      \/ \A c \in A[j][Len(blocks[j].ops)] : c.to \in ends
    BY <1>1 DEF EndsRight, Out
  <2>1. ASSUME NEW i \in 1 .. Len(stack), OpenCheck(stack[i]), stack[i].block = j
        PROVE  \E l \in 1 .. Len(stack') : OpenCheck(stack'[l]) /\ stack'[l].block = j
    <3>1. CASE i = m + 1
      BY <1>2, <1>4, <1>5, <2>1, <3>1
    <3>2. CASE i \in 1 .. m
      BY <1>4, <2>1, <3>2
    <3> QED  BY <1>4, <1>5, <2>1, <3>1, <3>2
  <2> QED  BY <2>1 DEF Certified, EndsRight, Out
<1>17. EntriesRight(P2, A)'
  <2> SUFFICES ASSUME NEW id \in DOMAIN branch_switch  PROVE P2[id] \subseteq A[branch_switch[id]][0]
    BY <1>1 DEF EntriesRight
  <2>1. id \in 0 .. b
    BY <1>9, <1>10 DEF Wellformed, Typed
  <2> QED  BY <1>13, <2>1 DEF Certified, EntriesRight
<1>18. UnusedRight(P2)'
  <2> SUFFICES ASSUME NEW id \in 0 .. b, id \notin DOMAIN branch_switch, P2[id] # {}
               PROVE  \E i \in 1 .. Len(stack') : OpenCheck(stack'[i]) /\ id \in stack'[i].redirects
    <3>1. block_id' - 1 = b
      BY <1>1, <1>9, <1>10
    <3> QED  BY <1>1, <3>1 DEF UnusedRight
  <2>1. CASE id = b
    <3>1. id \in ArmExit
      BY <1>6, <1>9, <1>13, <2>1 DEF ArmExit
    <3> QED  BY <1>2, <1>4, <1>5, <3>1
  <2>2. CASE id \in 0 .. b - 1
    <3>1. PICK i \in 1 .. Len(stack) : OpenCheck(stack[i]) /\ id \in stack[i].redirects
      BY <1>9, <1>13, <2>2 DEF Certified, UnusedRight
    <3>2. CASE i = m + 1
      BY <1>2, <1>4, <1>5, <3>1, <3>2
    <3>3. CASE i \in 1 .. m
      BY <1>4, <3>1, <3>3
    <3> QED  BY <1>4, <1>5, <3>1, <3>2, <3>3
  <2> QED  BY <1>10, <2>1, <2>2
<1>19. P2[block_id'] \subseteq Here'
  BY <1>1, <1>7, <1>9, <1>13
<1>20. FramesRight(P2, A)'
  <2>1. ASSUME NEW i \in 1 .. Len(stack'), HasBlock(stack'[i])
        PROVE  \A s \in stack'[i].starts : A[stack'[i].block][Len(blocks[stack'[i].block].ops)] \subseteq P2[s]
    <3>1. CASE i = m + 1
      <4>1. stack'[i].starts = Under.starts \cup {b + 1} /\ stack'[i].block = Under.block
        BY <1>2, <1>4, <1>9, <3>1
      <4> QED  BY <1>6, <1>8, <1>9, <1>13, <4>1 DEF Out
    <3>2. CASE i \in 1 .. m
      <4>1. stack'[i] = stack[i] /\ i \in 1 .. Len(stack) /\ HasBlock(stack[i])
        BY <1>4, <2>1, <3>2
      <4>2. stack[i].starts \subseteq 0 .. b
        BY <1>9, <4>1 DEF Wellformed, Checks_ok
      <4> QED  BY <1>13, <4>1, <4>2 DEF Certified, FramesRight, Out
    <3> QED  BY <1>4, <1>5, <2>1, <3>1, <3>2
  <2>2. ASSUME NEW i \in 1 .. Len(stack'), OpenCheck(stack'[i])
        PROVE  /\ stack'[i].starts # {}
               /\ \A c \in A[stack'[i].block][Len(blocks[stack'[i].block].ops)] :
                     c.to = stack'[i].node /\ HoldsIn(slot_of, stack'[i].scope, c.mem)
               /\ \A r \in stack'[i].redirects : \A c \in P2[r] :
                     c.to \in stack'[i].outs /\ HoldsIn(slot_of, stack'[i].scope, c.mem)
    <3>1. CASE i = m + 1
      <4>1. ASSUME NEW r \in Under.redirects \cup ArmExit, NEW c \in P2[r]
            PROVE  c.to \in Under.outs \cup frontier /\ HoldsIn(slot_of, Under.scope, c.mem)
        <5>1. CASE r \in Under.redirects
          BY <1>6, <1>9, <1>10, <1>13, <4>1, <5>1
        <5>2. CASE r \in ArmExit
          BY <1>6, <1>9, <1>10, <1>13, <4>1, <5>2 DEF ArmExit
        <5> QED  BY <4>1, <5>1, <5>2
      <4>2. stack'[i] = ArmEnd
        BY <1>4, <3>1
      <4> QED  BY <1>2, <1>6, <4>1, <4>2 DEF Out
    <3>2. CASE i \in 1 .. m
      <4>1. stack'[i] = stack[i] /\ i \in 1 .. Len(stack) /\ OpenCheck(stack[i])
        BY <1>4, <2>2, <3>2
      <4>2. stack[i].redirects \subseteq 0 .. b
        BY <1>9, <1>10, <4>1 DEF Wellformed, Checks_ok
      <4> QED  BY <1>13, <4>1, <4>2 DEF Certified, FramesRight, Out
    <3> QED  BY <1>4, <1>5, <2>2, <3>1, <3>2
  <2> QED  BY <1>1, <2>1, <2>2 DEF FramesRight, Out, OpenCheck, HasBlock
<1>21. [to |-> last'.to, mem |-> mem'] \in P2[0]
  BY <1>1, <1>10, <1>13 DEF Certified
<1>22. A \in [Nat -> [Nat -> SUBSET Config]]
  BY DEF Certified
<1>23. Certified(P2, A)'
  BY <1>1, <1>12, <1>14, <1>15, <1>16, <1>17, <1>18, <1>19, <1>20, <1>21, <1>22 DEF Certified
<1> QED  BY <1>23 DEF CertifiedNext

(* CloseWhen keeps a certificate: what comes after the when begins with     *)
(* what any arm leaves, through its redirect or by falling through.         *)
LEMMA CloseWhenRight ==
    ASSUME Wellformed, NEW P, NEW A, Certified(P, A), CloseWhen
    PROVE  CertifiedNext
<1> DEFINE m == Len(stack) - 3
           g == AfterList(ArmDone.slots)
           a == AfterWhen
           n == Len(blocks) + 1
<1>1. /\ phase = "compile" /\ phase' = "compile" /\ scope' = Under.scope
      /\ UNCHANGED << edges, ends, rebound, slot_of, mem, last >>
  BY DEF CloseWhen, InArm, machineVars
<1>2. /\ Len(stack) > 2 /\ Top \in ListFrame /\ Under \in WhenFrame /\ OpenCheck(Under)
      /\ stack[Len(stack) - 2] \in ListFrame
      /\ Replaces(m, g) /\ g \in ListFrame /\ Shape(stack') /\ Len(stack) \in Nat
      /\ ArmDone.outs = Under.outs \cup frontier
  BY CloseWhenStack, ArmDoneIs, ShapeTop DEF Wellformed
<1>3. PICK wildcard \in BOOLEAN : WhenClosed(wildcard)
  BY WhenClosedIs
<1> DEFINE ids == Under.redirects \cup ArmExit
           miss == IF wildcard THEN {} ELSE {a}
           w == Under.block
<1>4. /\ frontier' = Under.outs \cup frontier \cup (IF wildcard THEN {} ELSE {Under.node})
      /\ Len(blocks') = n /\ Len(blocks) \in Nat
      /\ w \in 1 .. Len(blocks)
      /\ blocks'[w].ops = blocks[w].ops
      /\ blocks'[w].exit = Under.starts \cup miss
      /\ \A j \in 1 .. Len(blocks) : j # w => blocks'[j] = blocks[j]
      /\ blocks'[n].ops = << >> /\ blocks'[n].exit = {a}
      /\ DOMAIN branch_switch' = DOMAIN branch_switch \cup ids
      /\ \A id \in ids : branch_switch'[id] = n
      /\ \A id \in DOMAIN branch_switch : id \notin ids => branch_switch'[id] = branch_switch[id]
      /\ block_id' = a /\ a \in Nat
  BY <1>2, <1>3 DEF WhenClosed, NewBlock
<1> HIDE DEF g
<1>5. /\ g.kind = "list" /\ stack[Len(stack) - 2].kind = "list"
  BY <1>2 DEF ListFrame
<1>6. /\ m \in Nat /\ Len(stack') = m + 1 /\ stack'[m + 1] = g /\ ~OpenCheck(g) /\ ~HasBlock(g)
      /\ stack[m + 1].kind = "list" /\ stack[m + 2] = Under /\ stack[m + 3] = Top
      /\ \A i \in 1 .. m : stack'[i] = stack[i] /\ i \in 1 .. Len(stack) /\ i \in 1 .. Len(stack')
                           /\ i < m + 2
      /\ \A i \in 1 .. Len(stack) : i = m + 3 \/ i = m + 2 \/ i = m + 1 \/ i \in 1 .. m
      /\ \A i \in 1 .. Len(stack') : i = m + 1 \/ i \in 1 .. m
      /\ m + 2 \in 1 .. Len(stack) /\ HasBlock(Under)
  <2>1. /\ m \in Nat /\ m + 1 = Len(stack) - 2 /\ m + 2 = Len(stack) - 1 /\ m + 3 = Len(stack)
    BY <1>2
  <2>2. Keeps(stack, stack', m) /\ Len(stack') = m + 1 /\ stack'[m + 1] = g
    BY <1>2 DEF Replaces
  <2> HIDE DEF m
  <2>3. \A i \in 1 .. m : stack'[i] = stack[i]
    BY <2>2 DEF Keeps
  <2>4. stack[m + 2] = Under /\ stack[m + 3] = Top /\ m + 2 \in 1 .. Len(stack)
    BY <1>2, <2>1 DEF Under, Top
  <2>5. ~OpenCheck(g) /\ ~HasBlock(g) /\ HasBlock(Under)
    BY <1>2, <1>5 DEF OpenCheck, HasBlock
  <2> QED  BY <1>2, <1>5, <2>1, <2>2, <2>3, <2>4, <2>5
<1> HIDE DEF m
<1>7. \A i \in 1 .. Len(stack) : OpenCheck(stack[i]) => i = m + 2 \/ i \in 1 .. m
  <2>1. ~OpenCheck(stack[m + 1]) /\ ~OpenCheck(stack[m + 3])
    BY <1>2, <1>6 DEF OpenCheck, ListFrame
  <2> QED  BY <1>6, <2>1
<1>8. /\ \A c \in P[block_id] : c.to \in frontier /\ HoldsIn(slot_of, Under.scope, c.mem)
      /\ ~NeedsRedirect => P[block_id] = {}
      /\ \A c \in Out(A, w) :
                c \in Config /\ c.to = Under.node /\ HoldsIn(slot_of, Under.scope, c.mem)
      /\ \A s \in Under.starts : Out(A, w) \subseteq P[s]
      /\ \A r \in Under.redirects : \A c \in P[r] :
                c.to \in Under.outs /\ HoldsIn(slot_of, Under.scope, c.mem)
      /\ Under.starts # {} /\ Under.starts \subseteq 0 .. block_id
      /\ Under.redirects \subseteq 0 .. block_id - 1
  BY <1>2, ArmEndsRight
<1>9. /\ P \in [Nat -> SUBSET Config] /\ A \in [Nat -> [Nat -> SUBSET Config]]
      /\ OpsRight(A) /\ ExitsRight(P, A) /\ EndsRight(A) /\ EntriesRight(P, A)
      /\ UnusedRight(P) /\ FramesRight(P, A) /\ [to |-> last.to, mem |-> mem] \in P[0]
  BY <1>1 DEF Certified
<1>10. PICK H : H = Here'
  OBVIOUS
<1>11. PICK R : R = { c \in Config : c.to \in Under.outs \cup frontier /\ HoldsIn(slot_of, Under.scope, c.mem) }
  OBVIOUS
<1>12. /\ H \in SUBSET Config /\ R \in SUBSET Config /\ R \subseteq H
       /\ ~wildcard => Out(A, w) \subseteq H
  <2>1. H \in SUBSET Config /\ R \in SUBSET Config
    BY <1>10, <1>11 DEF Here
  <2>2. ASSUME NEW c \in Config, c.to \in frontier', HoldsIn(slot_of, Under.scope, c.mem)
        PROVE  c \in H
    <3>1. stack'[Len(stack')].kind = "list"
      BY <1>5, <1>6
    <3>2. TempIs(stack'[Len(stack')], c.mem) /\ StagedIn(stack', c.mem)
      BY <1>2, <3>1, NothingStaged DEF TempIs
    <3> QED  BY <1>1, <1>10, <2>2, <3>2 DEF Here, Top
  <2>3. R \subseteq H
    BY <1>4, <1>11, <2>2
  <2>4. ~wildcard => Out(A, w) \subseteq H
    BY <1>4, <1>8, <2>2
  <2> QED  BY <2>1, <2>3, <2>4
<1>13. PICK b : b = block_id
  OBVIOUS
<1>14. /\ b \in Nat /\ a \in Nat /\ (NeedsRedirect => a = b + 1) /\ (~NeedsRedirect => a = b)
       /\ \A id \in 0 .. b - 1 : id \in 0 .. b /\ id # a /\ id \in Nat
       /\ \A id \in 0 .. b : id \in Nat /\ (id = a => ~NeedsRedirect /\ id = b)
       /\ \A id \in 0 .. a - 1 : id \in 0 .. b - 1 \/ (id = b /\ NeedsRedirect)
       /\ 0 \in 0 .. b
  <2>1. b \in Nat
    BY <1>13 DEF Wellformed, Typed
  <2>2. (NeedsRedirect => a = b + 1) /\ (~NeedsRedirect => a = b)
    BY <1>13 DEF AfterWhen
  <2> HIDE DEF a
  <2> QED  BY <2>1, <2>2
<1> HIDE DEF a
<1>15. n \in Nat /\ \A j \in 1 .. n : j = n \/ j \in 1 .. Len(blocks)
  BY <1>4
<1>16. \A j \in 1 .. Len(blocks) : j # n /\ j \in Nat /\ j \in 1 .. n /\ blocks'[j].ops = blocks[j].ops
  <2>1. \A j \in 1 .. Len(blocks) : blocks'[j].ops = blocks[j].ops
    BY <1>4
  <2> HIDE DEF w
  <2> QED  BY <1>4, <2>1
<1> HIDE DEF n
<1>17. PICK P2 : P2 = [ id \in Nat |-> IF id = a THEN H ELSE P[id] ]
  OBVIOUS
<1>18. PICK A2 : A2 = [ j \in Nat |-> IF j = n THEN [ k \in Nat |-> R ] ELSE A[j] ]
  OBVIOUS
<1>19. /\ P2 \in [Nat -> SUBSET Config] /\ P2[a] = H
       /\ \A id \in 0 .. b - 1 : P2[id] = P[id]
       /\ \A id \in 0 .. b : P[id] \subseteq P2[id]
       /\ NeedsRedirect => P2[b] = P[b]
  <2>1. /\ P2 \in [Nat -> SUBSET Config] /\ P2[a] = H
        /\ \A id \in Nat : id # a => P2[id] = P[id]
    BY <1>9, <1>12, <1>14, <1>17
  <2>2. ~NeedsRedirect => P[b] = {}
    BY <1>8, <1>13
  <2>3. NeedsRedirect => b # a
    BY <1>14
  <2> QED  BY <1>14, <2>1, <2>2, <2>3
<1>20. /\ A2 \in [Nat -> [Nat -> SUBSET Config]]
       /\ \A k \in Nat : A2[n][k] = R
       /\ \A j \in 1 .. Len(blocks) : A2[j] = A[j]
  <2>1. [ k \in Nat |-> R ] \in [Nat -> SUBSET Config]
    BY <1>12
  <2>2. A2 \in [Nat -> [Nat -> SUBSET Config]]
    BY <1>9, <1>18, <2>1
  <2>3. A2[n] = [ k \in Nat |-> R ]
    BY <1>15, <1>18
  <2> QED  BY <1>16, <1>18, <2>2, <2>3
<1>21. A2[n][Len(blocks'[n].ops)] = R
  <2>1. Len(<< >>) = 0 /\ 0 \in Nat
    OBVIOUS
  <2> QED  BY <1>4, <1>20, <2>1
<1>22. \A j \in 1 .. Len(blocks) : A2[j][Len(blocks'[j].ops)] = Out(A, j)
  BY <1>16, <1>20 DEF Out
<1>23. OpsRight(A2)'
  <2> SUFFICES ASSUME NEW j \in 1 .. n, NEW k \in 1 .. Len(blocks'[j].ops), NEW c \in A2[j][k - 1]
               PROVE  Good(edges', rebound', blocks'[j].ops[k], c) /\ Post(blocks'[j].ops[k], c) \in A2[j][k]
    BY <1>4 DEF OpsRight
  <2>1. j # n
    <3>1. Len(<< >>) = 0 /\ 1 .. 0 = {}
      OBVIOUS
    <3> QED  BY <1>4, <3>1
  <2>2. j \in 1 .. Len(blocks) /\ A2[j] = A[j] /\ blocks'[j].ops = blocks[j].ops
    BY <1>15, <1>16, <1>20, <2>1
  <2> QED  BY <1>1, <1>9, <2>2 DEF OpsRight
<1>24. ExitsRight(P2, A2)'
  <2> SUFFICES ASSUME NEW j \in 1 .. n, NEW e \in blocks'[j].exit
               PROVE  A2[j][Len(blocks'[j].ops)] \subseteq P2[e]
    BY <1>4 DEF ExitsRight, Out
  <2>1. CASE j = n
    BY <1>4, <1>12, <1>19, <1>21, <2>1
  <2>2. CASE j = w
    <3>1. CASE e \in Under.starts
      BY <1>4, <1>8, <1>13, <1>19, <1>22, <2>2, <3>1
    <3>2. CASE e = a /\ ~wildcard
      BY <1>4, <1>12, <1>19, <1>22, <2>2, <3>2
    <3> QED  BY <1>4, <2>2, <3>1, <3>2
  <2>3. CASE j \in 1 .. Len(blocks) /\ j # w
    <3>1. e \in blocks[j].exit /\ e \in 0 .. b
      BY <1>4, <1>13, <2>3 DEF Wellformed, Exits_ok
    <3>2. Out(A, j) \subseteq P[e]
      BY <1>9, <2>3, <3>1 DEF ExitsRight
    <3> QED  BY <1>19, <1>22, <2>3, <3>1, <3>2
  <2> QED  BY <1>15, <2>1, <2>2, <2>3
<1>25. EndsRight(A2)'
  <2> SUFFICES ASSUME NEW j \in 1 .. n, blocks'[j].exit = {}
               PROVE  \/ \E i \in 1 .. Len(stack') : OpenCheck(stack'[i]) /\ stack'[i].block = j
                      \/ \A c \in A2[j][Len(blocks'[j].ops)] : c.to \in ends
    BY <1>1, <1>4 DEF EndsRight, Out
  <2>1. j # n /\ j # w
    BY <1>4, <1>8
  <2>2. j \in 1 .. Len(blocks) /\ blocks[j].exit = {}
    BY <1>4, <1>15, <2>1
  <2>3. ASSUME NEW i \in 1 .. Len(stack), OpenCheck(stack[i]), stack[i].block = j
        PROVE  \E l \in 1 .. Len(stack') : OpenCheck(stack'[l]) /\ stack'[l].block = j
    BY <1>6, <1>7, <2>1, <2>3
  <2> QED  BY <1>9, <1>22, <2>2, <2>3 DEF EndsRight
<1>26. EntriesRight(P2, A2)'
  <2> SUFFICES ASSUME NEW id \in DOMAIN branch_switch'
               PROVE  P2[id] \subseteq A2[branch_switch'[id]][0]
    BY DEF EntriesRight
  <2>1. CASE id \in ids
    <3>1. P2[id] = P[id] /\ \A c \in P[id] : c.to \in Under.outs \cup frontier /\ HoldsIn(slot_of, Under.scope, c.mem)
      <4>1. CASE id \in Under.redirects
        BY <1>8, <1>13, <1>19, <4>1
      <4>2. CASE id \in ArmExit
        BY <1>8, <1>13, <1>19, <4>2 DEF ArmExit
      <4> QED  BY <2>1, <4>1, <4>2
    <3>2. id \in Nat
      BY <1>8, <1>13, <1>14, <2>1 DEF ArmExit
    <3>3. P[id] \subseteq Config
      BY <1>9, <3>2
    <3>4. P[id] \subseteq R
      BY <1>11, <3>1, <3>3
    <3>5. A2[branch_switch'[id]][0] = R
      BY <1>4, <1>20, <2>1
    <3> QED  BY <3>1, <3>4, <3>5
  <2>2. CASE id \in DOMAIN branch_switch /\ id \notin ids
    <3>1. branch_switch'[id] = branch_switch[id] /\ branch_switch[id] \in 1 .. Len(blocks)
      BY <1>4, <2>2 DEF Wellformed, Typed
    <3>2. id \in 0 .. b - 1
      BY <1>13, <2>2 DEF Wellformed, Typed
    <3> QED  BY <1>9, <1>19, <1>20, <2>2, <3>1, <3>2 DEF EntriesRight
  <2> QED  BY <1>4, <2>1, <2>2
<1>27. UnusedRight(P2)'
  <2> SUFFICES ASSUME NEW id \in 0 .. a - 1, id \notin DOMAIN branch_switch', P2[id] # {}
               PROVE  \E i \in 1 .. Len(stack') : OpenCheck(stack'[i]) /\ id \in stack'[i].redirects
    BY <1>4 DEF UnusedRight
  <2>1. id \notin ids /\ id \notin DOMAIN branch_switch
    BY <1>4
  <2>2. id \in 0 .. b - 1
    BY <1>13, <1>14, <2>1 DEF ArmExit
  <2>3. PICK i \in 1 .. Len(stack) : OpenCheck(stack[i]) /\ id \in stack[i].redirects
    BY <1>9, <1>13, <1>19, <2>1, <2>2 DEF UnusedRight
  <2>4. i # m + 2
    BY <1>6, <2>1, <2>3
  <2> QED  BY <1>6, <1>7, <2>3, <2>4
<1>28. P2[block_id'] \subseteq Here'
  BY <1>4, <1>10, <1>19
<1>29. ASSUME NEW i \in 1 .. Len(stack'), HasBlock(stack'[i])
       PROVE  /\ stack'[i] = stack[i] /\ i \in 1 .. Len(stack) /\ HasBlock(stack[i])
              /\ stack[i].block \in 1 .. Len(blocks) /\ stack[i].starts \subseteq 0 .. b
              /\ A2[stack[i].block][Len(blocks'[stack[i].block].ops)] = Out(A, stack[i].block)
  <2>1. stack'[i] = stack[i] /\ i \in 1 .. Len(stack) /\ HasBlock(stack[i])
    BY <1>6, <1>29
  <2>2. stack[i].block \in 1 .. Len(blocks) /\ stack[i].starts \subseteq 0 .. b
    BY <1>13, <2>1 DEF Wellformed, Checks_ok
  <2> QED  BY <1>22, <2>1, <2>2
<1>30. FramesRight(P2, A2)'
  <2>1. ASSUME NEW i \in 1 .. Len(stack'), HasBlock(stack'[i])
        PROVE  \A s \in stack'[i].starts : A2[stack'[i].block][Len(blocks'[stack'[i].block].ops)] \subseteq P2[s]
    <3>1. \A s \in stack[i].starts : Out(A, stack[i].block) \subseteq P[s]
      BY <1>9, <1>29, <2>1 DEF FramesRight
    <3> QED  BY <1>19, <1>29, <2>1, <3>1
  <2>2. ASSUME NEW i \in 1 .. Len(stack'), OpenCheck(stack'[i])
        PROVE  /\ stack'[i].starts # {}
               /\ \A c \in A2[stack'[i].block][Len(blocks'[stack'[i].block].ops)] :
                     c.to = stack'[i].node /\ HoldsIn(slot_of, stack'[i].scope, c.mem)
               /\ \A r \in stack'[i].redirects : \A c \in P2[r] :
                     c.to \in stack'[i].outs /\ HoldsIn(slot_of, stack'[i].scope, c.mem)
    <3>1. HasBlock(stack'[i])
      BY <2>2 DEF HasBlock
    <3>2. OpenCheck(stack[i]) /\ stack[i].redirects \subseteq 0 .. b - 1
      BY <1>13, <1>29, <2>2, <3>1 DEF Wellformed, Checks_ok
    <3>3. /\ stack[i].starts # {}
          /\ \A c \in Out(A, stack[i].block) :
                c.to = stack[i].node /\ HoldsIn(slot_of, stack[i].scope, c.mem)
          /\ \A r \in stack[i].redirects : \A c \in P[r] :
                c.to \in stack[i].outs /\ HoldsIn(slot_of, stack[i].scope, c.mem)
      BY <1>9, <1>29, <3>1, <3>2 DEF FramesRight
    <3> QED  BY <1>19, <1>29, <3>1, <3>2, <3>3
  <2> QED  BY <1>1, <2>1, <2>2 DEF FramesRight, Out, OpenCheck, HasBlock
<1>31. [to |-> last'.to, mem |-> mem'] \in P2[0]
  BY <1>1, <1>9, <1>14, <1>19
<1>32. Certified(P2, A2)'
  BY <1>1, <1>19, <1>20, <1>23, <1>24, <1>25, <1>26, <1>27, <1>28, <1>30, <1>31 DEF Certified
<1> QED  BY <1>32 DEF CertifiedNext

(* CloseWait keeps a certificate: after the handler the branch is over.     *)
LEMMA CloseWaitRight ==
    ASSUME Wellformed, Filters, NEW P, NEW A, Certified(P, A), CloseWait
    PROVE  CertifiedNext
<1> DEFINE m == Len(stack) - 3
           g == AfterWait
           w == Under.block
<1>1. /\ phase = "compile" /\ phase' = "compile" /\ frontier' = HandlerDone.outs
      /\ UNCHANGED << edges, ends, rebound, scope, block_id, branch_switch, slot_of, mem, last >>
  BY DEF CloseWait, InHandler, machineVars
<1>2. /\ Len(stack) > 2 /\ Top \in ListFrame /\ Under \in WaitFrame /\ FrameOK(Under)
      /\ stack[Len(stack) - 2] \in ListFrame
      /\ Replaces(m, g) /\ g \in ListFrame /\ Shape(stack') /\ Len(stack) \in Nat
      /\ HandlerDone.outs = frontier
  BY CloseWaitStack, HandlerDoneIs, ShapeTop DEF Wellformed
<1>3. /\ Len(blocks') = Len(blocks) /\ w \in 1 .. Len(blocks)
      /\ blocks'[w].ops = Filled /\ Len(Filled) = Len(blocks[w].ops) /\ blocks'[w].exit = blocks[w].exit \cup Under.starts
      /\ \A j \in 1 .. Len(blocks) : j # w => blocks'[j] = blocks[j]
  BY <1>2, CloseWaitKeeps, FilledIs DEF WaitClosed, NewBlock
<1> HIDE DEF g
<1>4. /\ m \in Nat /\ Len(stack') = m + 1 /\ stack'[m + 1] = g
      /\ stack[m + 1].kind = "list" /\ stack[m + 2] = Under /\ stack[m + 3] = Top
      /\ \A i \in 1 .. m : stack'[i] = stack[i] /\ i \in 1 .. Len(stack) /\ i \in 1 .. Len(stack')
      /\ \A i \in 1 .. Len(stack) : i = m + 3 \/ i = m + 2 \/ i = m + 1 \/ i \in 1 .. m
      /\ \A i \in 1 .. Len(stack') : i = m + 1 \/ i \in 1 .. m
      /\ m + 2 \in 1 .. Len(stack)
  <2>1. /\ m \in Nat /\ m + 1 = Len(stack) - 2 /\ m + 2 = Len(stack) - 1 /\ m + 3 = Len(stack)
    BY <1>2
  <2>2. Keeps(stack, stack', m) /\ Len(stack') = m + 1 /\ stack'[m + 1] = g
    BY <1>2 DEF Replaces
  <2> HIDE DEF m
  <2>3. \A i \in 1 .. m : stack'[i] = stack[i]
    BY <2>2 DEF Keeps
  <2>4. stack[m + 2] = Under /\ stack[m + 3] = Top /\ m + 2 \in 1 .. Len(stack)
        /\ stack[m + 1].kind = "list"
    BY <1>2, <2>1 DEF Under, Top, ListFrame
  <2> QED  BY <1>2, <2>1, <2>2, <2>3, <2>4
<1> HIDE DEF m
<1>5. /\ g.kind = "list" /\ Top.kind = "list" /\ Under.kind = "wait" /\ HasBlock(Under)
      /\ ~OpenCheck(g) /\ ~HasBlock(g) /\ ~OpenCheck(Under)
      /\ \A i \in 1 .. Len(stack) : OpenCheck(stack[i]) => i \in 1 .. m
  BY <1>2, <1>4 DEF ListFrame, WaitFrame, HasBlock, OpenCheck
<1>6. /\ P \in [Nat -> SUBSET Config] /\ A \in [Nat -> [Nat -> SUBSET Config]]
      /\ OpsRight(A) /\ ExitsRight(P, A) /\ EndsRight(A) /\ EntriesRight(P, A)
      /\ UnusedRight(P) /\ FramesRight(P, A) /\ [to |-> last.to, mem |-> mem] \in P[0]
      /\ P[block_id] \subseteq Here
  BY <1>1 DEF Certified
<1>7. \A j \in 1 .. Len(blocks) : Len(blocks'[j].ops) = Len(blocks[j].ops)
  BY <1>3
<1>8. \A s \in Under.starts : Out(A, w) \subseteq P[s]
  BY <1>4, <1>5, <1>6 DEF FramesRight
<1>9. OpsRight(A)'
  <2> SUFFICES ASSUME NEW j \in 1 .. Len(blocks), NEW k \in 1 .. Len(blocks[j].ops),
                      NEW c \in A[j][k - 1]
               PROVE  /\ Good(edges, rebound, blocks'[j].ops[k], c)
                      /\ Post(blocks'[j].ops[k], c) \in A[j][k]
    BY <1>1, <1>3, <1>7 DEF OpsRight
  <2>1. Good(edges, rebound, blocks[j].ops[k], c) /\ Post(blocks[j].ops[k], c) \in A[j][k]
    BY <1>6 DEF OpsRight
  <2>2. CASE blocks'[j].ops[k] = blocks[j].ops[k]
    BY <2>1, <2>2
  <2>3. CASE blocks'[j].ops[k] # blocks[j].ops[k]
    <3> DEFINE old == blocks[w].ops[1]
    <3>1. j = w /\ k = 1
      BY <1>2, <1>3, <2>3, FilledIs
    <3>2. /\ Filled[1].do = old.do /\ Filled[1].node = old.node /\ Filled[1].writes = old.writes
          /\ old.do = "take" /\ old.node # NoNode /\ old.node \in rebound
      BY <1>2, <1>3, <2>3, <3>1, FilledIs
    <3>3. blocks'[j].ops[k] = Filled[1] /\ blocks[j].ops[k] = old
      BY <1>3, <3>1
    <3> HIDE DEF old, w
    <3>4. Post(Filled[1], c) = Post(old, c)
      BY <3>2 DEF Post, PostMem
    <3>5. Good(edges, rebound, Filled[1], c)
      BY <2>1, <3>2, <3>3 DEF Good
    <3> QED  BY <2>1, <3>3, <3>4, <3>5
  <2> QED  BY <2>2, <2>3
<1>10. ExitsRight(P, A)'
  <2> SUFFICES ASSUME NEW j \in 1 .. Len(blocks), NEW e \in blocks'[j].exit
               PROVE  A[j][Len(blocks'[j].ops)] \subseteq P[e]
    BY <1>3 DEF ExitsRight, Out
  <2>1. e \in blocks[j].exit \/ (j = w /\ e \in Under.starts)
    BY <1>3
  <2> QED  BY <1>6, <1>7, <1>8, <2>1 DEF ExitsRight, Out
<1>11. EndsRight(A)'
  <2> SUFFICES ASSUME NEW j \in 1 .. Len(blocks), blocks'[j].exit = {}
               PROVE  \/ \E i \in 1 .. Len(stack') : OpenCheck(stack'[i]) /\ stack'[i].block = j
                      \/ \A c \in A[j][Len(blocks'[j].ops)] : c.to \in ends
    BY <1>1, <1>3 DEF EndsRight, Out
  <2>1. blocks[j].exit = {}
    BY <1>3
  <2>2. ASSUME NEW i \in 1 .. Len(stack), OpenCheck(stack[i]), stack[i].block = j
        PROVE  \E l \in 1 .. Len(stack') : OpenCheck(stack'[l]) /\ stack'[l].block = j
    BY <1>4, <1>5, <2>2
  <2> QED  BY <1>6, <1>7, <2>1, <2>2 DEF EndsRight, Out
<1>12. EntriesRight(P, A)'
  BY <1>1, <1>6 DEF EntriesRight
<1>13. UnusedRight(P)'
  <2> SUFFICES ASSUME NEW id \in 0 .. block_id - 1, id \notin DOMAIN branch_switch, P[id] # {}
               PROVE  \E i \in 1 .. Len(stack') : OpenCheck(stack'[i]) /\ id \in stack'[i].redirects
    BY <1>1 DEF UnusedRight
  <2>1. PICK i \in 1 .. Len(stack) : OpenCheck(stack[i]) /\ id \in stack[i].redirects
    BY <1>6 DEF UnusedRight
  <2> QED  BY <1>4, <1>5, <2>1
<1>14. P[block_id'] \subseteq Here'
  <2> SUFFICES ASSUME NEW c \in Here  PROVE c \in Here'
    BY <1>1, <1>6
  <2>1. stack'[Len(stack')].kind = "list"
    BY <1>4, <1>5
  <2>2. TempIs(stack'[Len(stack')], c.mem) /\ StagedIn(stack', c.mem)
    BY <1>2, <2>1, NothingStaged DEF TempIs
  <2>3. c \in Config /\ c.to \in frontier /\ HoldsIn(slot_of, scope, c.mem)
    BY DEF Here
  <2> QED  BY <1>1, <1>2, <2>2, <2>3 DEF Here, Top
<1>15. ASSUME NEW i \in 1 .. Len(stack'), HasBlock(stack'[i])
       PROVE  /\ stack'[i] = stack[i] /\ i \in 1 .. Len(stack) /\ HasBlock(stack[i])
              /\ stack[i].block \in 1 .. Len(blocks)
  <2>1. stack'[i] = stack[i] /\ i \in 1 .. Len(stack) /\ HasBlock(stack[i])
    BY <1>4, <1>5, <1>15
  <2> QED  BY <2>1 DEF Wellformed, Checks_ok
<1>16. FramesRight(P, A)'
  <2> SUFFICES ASSUME NEW i \in 1 .. Len(stack')
               PROVE  /\ HasBlock(stack'[i]) => \A s \in stack'[i].starts :
                            A[stack'[i].block][Len(blocks'[stack'[i].block].ops)] \subseteq P[s]
                      /\ OpenCheck(stack'[i]) =>
                            /\ stack'[i].starts # {}
                            /\ \A c \in A[stack'[i].block][Len(blocks'[stack'[i].block].ops)] :
                                  c.to = stack'[i].node /\ HoldsIn(slot_of, stack'[i].scope, c.mem)
                            /\ \A r \in stack'[i].redirects : \A c \in P[r] :
                                  c.to \in stack'[i].outs /\ HoldsIn(slot_of, stack'[i].scope, c.mem)
    BY <1>1 DEF FramesRight, Out, OpenCheck, HasBlock
  <2>1. OpenCheck(stack'[i]) => HasBlock(stack'[i])
    BY DEF HasBlock
  <2>2. CASE HasBlock(stack'[i])
    <3>1. stack'[i] = stack[i] /\ i \in 1 .. Len(stack) /\ HasBlock(stack[i])
      BY <1>15, <2>2
    <3>2. A[stack[i].block][Len(blocks'[stack[i].block].ops)] = Out(A, stack[i].block)
      BY <1>7, <1>15, <2>2 DEF Out
    <3>3. /\ \A s \in stack[i].starts : Out(A, stack[i].block) \subseteq P[s]
          /\ OpenCheck(stack[i]) =>
                /\ stack[i].starts # {}
                /\ \A c \in Out(A, stack[i].block) :
                        c.to = stack[i].node /\ HoldsIn(slot_of, stack[i].scope, c.mem)
                /\ \A r \in stack[i].redirects : \A c \in P[r] :
                        c.to \in stack[i].outs /\ HoldsIn(slot_of, stack[i].scope, c.mem)
      BY <1>6, <3>1 DEF FramesRight
    <3> QED  BY <3>1, <3>2, <3>3
  <2> QED  BY <2>1, <2>2
<1>17. Certified(P, A)'
  BY <1>1, <1>6, <1>9, <1>10, <1>11, <1>12, <1>13, <1>14, <1>16 DEF Certified
<1> QED  BY <1>17 DEF CertifiedNext

-----------------------------------------------------------------------------
(* The run: the certificate stays, and what happens is what it allows.      *)
\* The parts of a certificate that are about the program stay as they are.
LEMMA CertifiedRun ==
    ASSUME NEW P, NEW A, Certified(P, A),
           UNCHANGED << edges, frontier, scope, rebound, compilerVars >>, ends \subseteq ends'
    PROVE  /\ OpsRight(A)' /\ ExitsRight(P, A)' /\ EndsRight(A)' /\ EntriesRight(P, A)'
           /\ UnusedRight(P)' /\ P[block_id'] \subseteq Here' /\ FramesRight(P, A)'
<1> USE DEF Certified, compilerVars
<1>1. OpsRight(A)' /\ ExitsRight(P, A)' /\ EntriesRight(P, A)' /\ UnusedRight(P)'
  BY DEF OpsRight, ExitsRight, EntriesRight, UnusedRight, Out
<1>2. EndsRight(A)'
  <2> SUFFICES ASSUME NEW j \in 1 .. Len(blocks), blocks[j].exit = {}
               PROVE  \/ \E i \in 1 .. Len(stack) : OpenCheck(stack[i]) /\ stack[i].block = j
                      \/ \A c \in Out(A, j) : c.to \in ends'
    BY DEF EndsRight, Out
  <2> QED  BY DEF EndsRight
<1>3. Here' = Here
  BY DEF Here, Top
<1>4. FramesRight(P, A)'
  BY DEF FramesRight, Out
<1> QED  BY <1>1, <1>2, <1>3, <1>4

\* Who enters a number is in its block, or where the compiler has stopped.
LEMMA EnterRight ==
    ASSUME Wellformed, NEW P, NEW A, Certified(P, A), Len(stack) = 1,
           NEW id \in 0 .. block_id, NEW c \in P[id]
    PROVE  \/ /\ Enter(id).block \in 1 .. Len(blocks) /\ Enter(id).done = 0
              /\ Enter(id) \in [block : Nat, done : Nat]
              /\ c \in A[Enter(id).block][0]
           \/ Enter(id) = Over /\ c.to \in frontier
<1>1. CASE id \in DOMAIN branch_switch
  <2>1. Enter(id) = [block |-> branch_switch[id], done |-> 0] /\ branch_switch[id] \in 1 .. Len(blocks)
    BY <1>1 DEF Enter, Wellformed, Typed
  <2>2. c \in A[branch_switch[id]][0]
    BY <1>1 DEF Certified, EntriesRight
  <2> QED  BY <2>1, <2>2
<1>2. CASE id \notin DOMAIN branch_switch
  <2>1. id = block_id
    <3>1. stack[1].kind = "list" /\ \A i \in 1 .. Len(stack) : i = 1
      BY DEF Wellformed, Shape
    <3>2. id \notin 0 .. block_id - 1
      BY <1>2, <3>1 DEF Certified, UnusedRight, OpenCheck
    <3> QED  BY <3>2 DEF Wellformed, Typed
  <2>2. c \in Here
    BY <2>1 DEF Certified
  <2> QED  BY <1>2, <2>2 DEF Enter, Here
<1> QED  BY <1>1, <1>2

\* Who leaves a block enters another, or the source ends here too.
LEMMA LeaveRight ==
    ASSUME Wellformed, NEW P, NEW A, Certified(P, A), phase = "run",
           NEW j \in 1 .. Len(blocks), NEW c \in Out(A, j), NEW to \in Exits(j)
    PROVE  \/ /\ to.block \in 1 .. Len(blocks) /\ to.done = 0
              /\ to \in [block : Nat, done : Nat]
              /\ c \in A[to.block][0]
           \/ to = Over /\ c.to \in ends
<1>1. Len(stack) = 1 /\ stack[1].kind = "list" /\ \A i \in 1 .. Len(stack) : i = 1
  <2>1. Len(stack) = 1 /\ stack[1].kind = "list"
    BY DEF Wellformed, Shape
  <2> QED  BY <2>1
<1>2. CASE blocks[j].exit = {}
  <2>1. to = Over
    BY <1>2 DEF Exits
  <2>2. c.to \in ends
    BY <1>1, <1>2 DEF Certified, EndsRight, OpenCheck
  <2> QED  BY <2>1, <2>2
<1>3. CASE blocks[j].exit # {}
  <2>1. PICK id \in blocks[j].exit : to = Enter(id)
    BY <1>3 DEF Exits
  <2>2. id \in 0 .. block_id /\ c \in P[id]
    BY <2>1 DEF Wellformed, Exits_ok, Certified, ExitsRight
  <2>3. frontier \subseteq ends
    BY DEF Certified
  <2> QED  BY <1>1, <2>1, <2>2, <2>3, EnterRight
<1> QED  BY <1>2, <1>3

(* The program starts at a configuration of the certificate.                *)
LEMMA RunBranchRight ==
    ASSUME Correct, RunBranch
    PROVE  FollowsSource' /\ OperandsIntact' /\ at' \in [block : Nat, done : Nat] /\ CertifiedNext
<1>1. /\ phase = "compile" /\ phase' = "run" /\ Len(stack) = 1 /\ ends' = ends \cup frontier
      /\ at' = Enter(0)
      /\ UNCHANGED << nodes, edges, frontier, scope, rebound, compilerVars, mem, last >>
  BY DEF RunBranch
<1>2. PICK P, A : Certified(P, A)
  BY DEF Correct
<1>3. PICK c : c = [to |-> last.to, mem |-> mem]
  OBVIOUS
<1>4. c \in P[0] /\ c.to = last.to /\ 0 \in 0 .. block_id /\ Wellformed
  BY <1>1, <1>2, <1>3 DEF Certified, Correct, Wellformed, Typed
<1>5. \/ /\ at'.block \in 1 .. Len(blocks) /\ at'.done = 0
         /\ at' \in [block : Nat, done : Nat]
         /\ c \in A[at'.block][0]
      \/ at' = Over /\ c.to \in frontier
  BY <1>1, <1>2, <1>4, EnterRight
<1>6. /\ at' \in [block : Nat, done : Nat]
      /\ at'.block = 0 => last.to \in ends'
      /\ at'.block # 0 => /\ at'.block \in 1 .. Len(blocks) /\ at'.done = 0
                          /\ c \in A[at'.block][0]
  BY <1>1, <1>4, <1>5 DEF Over
<1>7. FollowsSource' /\ OperandsIntact'
  BY <1>1, <1>6 DEF Correct, FollowsSource, OperandsIntact
<1>8. /\ OpsRight(A)' /\ ExitsRight(P, A)' /\ EndsRight(A)' /\ EntriesRight(P, A)'
      /\ UnusedRight(P)' /\ P[block_id'] \subseteq Here' /\ FramesRight(P, A)'
  BY <1>1, <1>2, CertifiedRun
<1>9. at'.block # 0 => at'.done \in 0 .. Len(blocks[at'.block].ops)
  BY <1>2, <1>4, <1>6, OutTyped
<1>10. Certified(P, A)'
  BY <1>1, <1>2, <1>3, <1>6, <1>8, <1>9 DEF Certified, compilerVars
<1> QED  BY <1>6, <1>7, <1>10 DEF CertifiedNext

\* Where the machine stands, and that it goes where the certificate says.
LEMMA StepRight ==
    ASSUME Wellformed, NEW P, NEW A, Certified(P, A), phase = "run", phase' = "run",
           UNCHANGED << sourceVars, compilerVars >>,
           at' \in [block : Nat, done : Nat],
           at'.block = 0 => last'.to \in ends,
           at'.block # 0 => /\ at'.block \in 1 .. Len(blocks)
                            /\ at'.done \in 0 .. Len(blocks[at'.block].ops)
                            /\ [to |-> last'.to, mem |-> mem'] \in A[at'.block][at'.done]
    PROVE  CertifiedNext
<1>1. /\ OpsRight(A)' /\ ExitsRight(P, A)' /\ EndsRight(A)' /\ EntriesRight(P, A)'
      /\ UnusedRight(P)' /\ P[block_id'] \subseteq Here' /\ FramesRight(P, A)'
  BY CertifiedRun DEF sourceVars
<1>2. Certified(P, A)'
  BY <1>1 DEF Certified, sourceVars, compilerVars
<1> QED  BY <1>2 DEF CertifiedNext

(* Each operation leads from one configuration of the certificate to        *)
(* another, along an edge of the source and with the operands meant.        *)
LEMMA ExecuteRight ==
    ASSUME Correct, Execute
    PROVE  FollowsSource' /\ OperandsIntact' /\ at' \in [block : Nat, done : Nat] /\ CertifiedNext
<1> DEFINE j == at.block
           d == at.done
           op == blocks[j].ops[d + 1]
           c == [to |-> last.to, mem |-> mem]
<1>1. PICK P, A : Certified(P, A)
  BY DEF Correct
<1>2. /\ phase = "run" /\ phase' = "run" /\ j # 0 /\ d < Len(blocks[j].ops)
      /\ UNCHANGED << sourceVars, compilerVars >>
      /\ at' \in IF d + 1 < Len(blocks[j].ops) THEN {[at EXCEPT !.done = @ + 1]} ELSE Exits(j)
  BY DEF Execute, Running
<1>3. /\ last' = [from |-> last.to, to |-> Post(op, c).to, saw |-> Saw(op, mem), meant |-> op.meant]
      /\ mem' = PostMem(op, mem)
  BY DEF Execute, Saw, Post, PostMem
<1>4. /\ Wellformed /\ j \in 1 .. Len(blocks) /\ d \in 0 .. Len(blocks[j].ops) /\ c \in A[j][d]
      /\ at \in [block : Nat, done : Nat] /\ j \in Nat /\ d \in Nat
  BY <1>1, <1>2 DEF Correct, Certified
<1>5. Len(blocks[j].ops) \in Nat /\ d + 1 \in 1 .. Len(blocks[j].ops) /\ (d + 1) - 1 = d
      /\ d + 1 \in Nat
  <2>1. Len(blocks[j].ops) \in Nat
    BY <1>1, <1>4, OutTyped
  <2> QED  BY <1>2, <1>4, <2>1
<1>6. Good(edges, rebound, op, c) /\ Post(op, c) \in A[j][d + 1]
  <2> DEFINE k == d + 1
  <2>1. k \in 1 .. Len(blocks[j].ops) /\ k - 1 = d
    BY <1>5
  <2>2. Good(edges, rebound, blocks[j].ops[k], c) /\ Post(blocks[j].ops[k], c) \in A[j][k]
    <3> HIDE DEF k, c, j, d
    <3> QED  BY <1>1, <1>4, <2>1 DEF Certified, OpsRight
  <2> QED  BY <2>2
<1>7. PICK c2 : c2 = Post(op, c)
  OBVIOUS
<1>8. c2 = [to |-> last'.to, mem |-> mem']
  BY <1>3, <1>7 DEF Post
<1>9. /\ last'.from = last.to
      /\ last'.to \in rebound \/ last'.saw = last'.meant
      /\ last'.from # last'.to => << last'.from, last'.to >> \in edges
  <2>1. last'.from = c.to /\ last'.to = Post(op, c).to /\ last'.saw = Saw(op, c.mem)
        /\ last'.meant = op.meant /\ c.to = last.to
    BY <1>3
  <2>2. Post(op, c).to = IF op.node = NoNode THEN c.to ELSE op.node
    BY DEF Post
  <2> HIDE DEF op, c
  <2> QED  BY <1>6, <2>1, <2>2 DEF Good
<1> HIDE DEF op, c
<1>10. /\ at' \in [block : Nat, done : Nat]
       /\ at'.block = 0 => last'.to \in ends
       /\ at'.block # 0 => /\ at'.block \in 1 .. Len(blocks)
                           /\ at'.done \in 0 .. Len(blocks[at'.block].ops)
                           /\ c2 \in A[at'.block][at'.done]
  <2>1. CASE d + 1 < Len(blocks[j].ops)
    <3>1. at' = [at EXCEPT !.done = d + 1]
      BY <1>2, <2>1
    <3>2. at'.block = j /\ at'.done = d + 1 /\ at' \in [block : Nat, done : Nat]
      BY <1>4, <1>5, <3>1
    <3>3. d + 1 \in 0 .. Len(blocks[j].ops)
      BY <1>5
    <3> QED  BY <1>2, <1>4, <1>6, <1>7, <3>2, <3>3
  <2>2. CASE ~(d + 1 < Len(blocks[j].ops))
    <3>1. at' \in Exits(j) /\ d + 1 = Len(blocks[j].ops)
      BY <1>2, <1>5, <2>2
    <3>2. c2 \in Out(A, j)
      BY <1>6, <1>7, <3>1 DEF Out
    <3>3. \/ /\ at'.block \in 1 .. Len(blocks) /\ at'.done = 0
             /\ at' \in [block : Nat, done : Nat]
             /\ c2 \in A[at'.block][0]
          \/ at' = Over /\ c2.to \in ends
      BY <1>1, <1>2, <1>4, <3>1, <3>2, LeaveRight
    <3>4. at'.block \in 1 .. Len(blocks) => 0 \in 0 .. Len(blocks[at'.block].ops)
      BY <1>1, <1>4, OutTyped
    <3>5. c2.to = last'.to
      BY <1>8
    <3> QED  BY <3>3, <3>4, <3>5 DEF Over
  <2> QED  BY <2>1, <2>2
<1>11. FollowsSource' /\ OperandsIntact'
  BY <1>2, <1>9, <1>10 DEF FollowsSource, OperandsIntact, sourceVars
<1> QED  BY <1>1, <1>2, <1>4, <1>8, <1>10, <1>11, StepRight

(* The end of a block leads to a configuration of a number it names.        *)
LEMMA RedirectRight ==
    ASSUME Correct, Redirect
    PROVE  FollowsSource' /\ OperandsIntact' /\ at' \in [block : Nat, done : Nat] /\ CertifiedNext
<1> DEFINE j == at.block
           c == [to |-> last.to, mem |-> mem]
<1>1. PICK P, A : Certified(P, A)
  BY DEF Correct
<1>2. /\ phase = "run" /\ phase' = "run" /\ j # 0 /\ blocks[j].ops = << >> /\ at' \in Exits(j)
      /\ UNCHANGED << sourceVars, compilerVars, mem, last >>
  BY DEF Redirect, Running
<1>3. /\ Wellformed /\ j \in 1 .. Len(blocks) /\ at.done \in 0 .. Len(blocks[j].ops)
      /\ c \in A[j][at.done]
  BY <1>1, <1>2 DEF Correct, Certified
<1>4. c \in Out(A, j) /\ c.to = last.to
  <2>1. Len(blocks[j].ops) = 0
    BY <1>2
  <2>2. at.done = Len(blocks[j].ops)
    BY <1>3, <2>1
  <2> QED  BY <1>3, <2>2 DEF Out
<1> HIDE DEF c
<1>5. \/ /\ at'.block \in 1 .. Len(blocks) /\ at'.done = 0
         /\ at' \in [block : Nat, done : Nat]
         /\ c \in A[at'.block][0]
      \/ at' = Over /\ c.to \in ends
  BY <1>1, <1>2, <1>3, <1>4, LeaveRight
<1>6. at'.block \in 1 .. Len(blocks) => 0 \in 0 .. Len(blocks[at'.block].ops)
  BY <1>1, <1>3, OutTyped
<1>7. /\ at' \in [block : Nat, done : Nat]
      /\ at'.block = 0 => last'.to \in ends
      /\ at'.block # 0 => /\ at'.block \in 1 .. Len(blocks)
                          /\ at'.done \in 0 .. Len(blocks[at'.block].ops)
                          /\ c \in A[at'.block][at'.done]
  BY <1>2, <1>4, <1>5, <1>6 DEF Over
<1>8. c = [to |-> last'.to, mem |-> mem']
  BY <1>2 DEF c
<1>9. FollowsSource' /\ OperandsIntact'
  BY <1>2, <1>7 DEF FollowsSource, OperandsIntact, sourceVars, Correct
<1> QED  BY <1>1, <1>2, <1>3, <1>7, <1>8, <1>9, StepRight

(* A branch without blocks has a certificate.                               *)
LEMMA CorrectInit ==
    ASSUME BlockInit
    PROVE  Correct
<1> DEFINE y0 == CHOOSE y \in Names : TRUE
           c == [to |-> last.to, mem |-> mem]
<1>1. Wellformed /\ Filters
  BY WellformedInit, FiltersInit
<1>2. /\ phase = "compile" /\ edges = {} /\ frontier = {0}
      /\ scope = [ x \in DOMAIN slot_of |-> 0 ]
      /\ block_id = 0 /\ blocks = << >> /\ branch_switch = << >>
      /\ at = [block |-> 0, done |-> 0]
      /\ last = [from |-> 0, to |-> 0, saw |-> << >>, meant |-> << >>]
  BY DEF BlockInit
<1>3. PICK p \in {1, 2} :
        /\ slot_of = [ x \in {y0} |-> p - 1 ] /\ stack = << List("branch", p) >>
        /\ mem = [temp |-> NoNode, args |-> << >>, slots |-> [ i \in 0 .. p - 1 |-> 0 ]]
  BY DEF BlockInit
<1> HIDE DEF y0
<1>4. Len(stack) = 1 /\ stack[1].kind = "list" /\ Top.kind = "list" /\ \A i \in 1 .. Len(stack) : i = 1
  BY <1>3, ListIs DEF Top
<1>5. mem \in Memory
  <2> DEFINE sl == [ i \in 0 .. p - 1 |-> 0 ]
  <2>1. sl \in [0 .. p - 1 -> Int] /\ 0 .. p - 1 \in SUBSET Int
    OBVIOUS
  <2>2. sl \in Store
    <3> HIDE DEF sl
    <3> QED  BY <2>1 DEF Store
  <2>3. << >> \in Store
    <3>1. << >> \in [{} -> Int]
      OBVIOUS
    <3> QED  BY <3>1 DEF Store
  <2>4. NoNode \in Int
    BY DEF NoNode
  <2> HIDE DEF sl
  <2>5. mem = [temp |-> NoNode, args |-> << >>, slots |-> sl]
    BY <1>3 DEF sl
  <2> QED  BY <2>2, <2>3, <2>4, <2>5 DEF Memory
<1>6. c \in Config /\ c.to = 0 /\ c.mem = mem
  BY <1>2, <1>5 DEF Config
<1> HIDE DEF c
<1>7. HoldsIn(slot_of, scope, mem)
  <2>1. mem.slots = [ i \in 0 .. p - 1 |-> 0 ] /\ p - 1 \in 0 .. p - 1
    BY <1>3
  <2>2. \A x \in DOMAIN scope : scope[x] = 0 /\ slot_of[x] = p - 1
    BY <1>2, <1>3
  <2> QED  BY <2>1, <2>2 DEF HoldsIn, Word
<1>8. c \in Here
  <2>1. TempIs(Top, mem) /\ StagedIn(stack, mem)
    BY <1>4 DEF TempIs, StagedIn
  <2> QED  BY <1>2, <1>6, <1>7, <2>1 DEF Here
<1>9. PICK P : P = [ id \in Nat |-> IF id = 0 THEN Here ELSE {} ]
  OBVIOUS
<1>10. PICK A : A = [ j \in Nat |-> [ k \in Nat |-> {} ] ]
  OBVIOUS
<1>11. P \in [Nat -> SUBSET Config] /\ P[0] = Here
  BY <1>9 DEF Here
<1>12. A \in [Nat -> [Nat -> SUBSET Config]]
  BY <1>10
<1>13. Len(blocks) = 0 /\ DOMAIN branch_switch = {} /\ 1 .. 0 = {} /\ 0 .. 0 - 1 = {}
  BY <1>2
<1>14. OpsRight(A) /\ ExitsRight(P, A) /\ EndsRight(A) /\ EntriesRight(P, A) /\ UnusedRight(P)
  BY <1>2, <1>13 DEF OpsRight, ExitsRight, EndsRight, EntriesRight, UnusedRight
<1>15. FramesRight(P, A)
  BY <1>4 DEF FramesRight, HasBlock, OpenCheck
<1>16. Certified(P, A)
  BY <1>2, <1>8, <1>11, <1>12, <1>14, <1>15 DEF Certified, c
<1>17. FollowsSource /\ OperandsIntact /\ at \in [block : Nat, done : Nat]
  BY <1>2 DEF FollowsSource, OperandsIntact
<1> QED  BY <1>1, <1>16, <1>17 DEF Correct

(* Every step of the compiler keeps a certificate.                          *)
LEMMA CompileRight ==
    ASSUME Wellformed, Filters, NEW P, NEW A, Certified(P, A), MaxHandlers = 1,
           \/ Pure \/ PureLet \/ FusedCall \/ TupleLiteral \/ StringLiteral \/ FusedSelf
           \/ OpenLet \/ CloseLet \/ OpenCall \/ StageArg \/ CloseCall
           \/ OpenWhen \/ FirstArm \/ KTable \/ NextArm \/ CloseWhen
           \/ OpenWait \/ NextHandler \/ CloseWait
    PROVE  CertifiedNext
<1>1. CASE Pure \/ PureLet \/ FusedSelf
  BY <1>1, PureRight, PureLetRight, FusedSelfRight
<1>2. CASE FusedCall \/ TupleLiteral
  BY <1>2, OwnBlockRight DEF FusedCall, TupleLiteral
<1>3. CASE StringLiteral
  <2>1. [slot |-> NoNode, meant |-> << >>] \in Reads
    BY DEF Reads
  <2> QED  BY <1>3, <2>1, OwnBlockRight DEF StringLiteral
<1>4. CASE OpenLet \/ CloseLet \/ OpenCall \/ StageArg \/ CloseCall
  BY <1>4, OpenLetRight, CloseLetRight, OpenCallRight, StageArgRight, CloseCallRight
<1>5. CASE OpenWhen \/ FirstArm \/ KTable \/ NextArm \/ CloseWhen
  BY <1>5, OpenWhenRight, FirstArmRight, KTableRight, NextArmRight, CloseWhenRight
<1>6. CASE OpenWait \/ CloseWait
  BY <1>6, OpenWaitRight, CloseWaitRight
<1>7. CASE NextHandler
  BY <1>7, OneHandler
<1> QED  BY <1>1, <1>2, <1>3, <1>4, <1>5, <1>6, <1>7

(* Every step of compiler and program keeps Correct.                        *)
LEMMA CorrectNext ==
    ASSUME Correct, [BlockNext]_blockVars, MaxHandlers = 1
    PROVE  Correct'
<1>1. Wellformed /\ Filters /\ Wellformed' /\ Filters'
  BY WellformedNext, FiltersNext DEF Correct
<1>2. PICK P, A : Certified(P, A)
  BY DEF Correct
<1>3. SUFFICES FollowsSource' /\ OperandsIntact' /\ at' \in [block : Nat, done : Nat] /\ CertifiedNext
  BY <1>1 DEF Correct, CertifiedNext
<1>4. CASE RunBranch \/ Execute \/ Redirect
  BY <1>4, RunBranchRight, ExecuteRight, RedirectRight
<1>5. CASE \/ Pure \/ PureLet \/ FusedCall \/ TupleLiteral \/ StringLiteral \/ FusedSelf
           \/ OpenLet \/ CloseLet \/ OpenCall \/ StageArg \/ CloseCall
           \/ OpenWhen \/ FirstArm \/ KTable \/ NextArm \/ CloseWhen
           \/ OpenWait \/ NextHandler \/ CloseWait
  <2>1. CertifiedNext
    BY <1>1, <1>2, <1>5, CompileRight
  <2>2. phase' = "compile" /\ UNCHANGED << at, mem, last >>
        /\ edges \subseteq edges' /\ rebound \subseteq rebound'
    <3>1. CASE Pure \/ PureLet \/ FusedSelf
      BY <3>1 DEF Pure, PureLet, FusedSelf, Rebinds, Room, Written, machineVars
    <3>2. CASE FusedCall \/ TupleLiteral \/ StringLiteral
      BY <3>2 DEF FusedCall, TupleLiteral, StringLiteral, OwnBlock, Room, Written, machineVars
    <3>3. CASE OpenLet \/ CloseLet \/ OpenCall \/ StageArg \/ CloseCall
      BY <3>3 DEF OpenLet, CloseLet, Rebinds, OpenCall, StageArg, CloseCall, Room, Written, machineVars, sourceVars
    <3>4. CASE OpenWhen \/ FirstArm \/ KTable \/ NextArm \/ CloseWhen
      BY <3>4 DEF OpenWhen, FirstArm, KTable, NextArm, CloseWhen, InArm, Room, Written, machineVars, sourceVars
    <3>5. CASE OpenWait \/ NextHandler \/ CloseWait
      BY <3>5 DEF OpenWait, Rebinds, NextHandler, CloseWait, InHandler, Room, Written, machineVars
    <3> QED  BY <1>5, <3>1, <3>2, <3>3, <3>4, <3>5
  <2>3. FollowsSource' /\ OperandsIntact' /\ at' \in [block : Nat, done : Nat]
    BY <2>2 DEF Correct, FollowsSource, OperandsIntact
  <2> QED  BY <2>1, <2>3
<1>6. CASE UNCHANGED blockVars
  <2>1. Certified(P, A)'
    <3>1. UNCHANGED << phase, sourceVars, compilerVars, at, mem, last >>
      BY <1>6 DEF blockVars, machineVars
    <3>2. /\ OpsRight(A)' /\ ExitsRight(P, A)' /\ EndsRight(A)' /\ EntriesRight(P, A)'
          /\ UnusedRight(P)' /\ P[block_id'] \subseteq Here' /\ FramesRight(P, A)'
      BY <1>2, <3>1, CertifiedRun DEF sourceVars
    <3> QED  BY <1>2, <3>1, <3>2 DEF Certified, sourceVars, compilerVars
  <2>2. FollowsSource' /\ OperandsIntact' /\ at' \in [block : Nat, done : Nat]
    BY <1>6 DEF Correct, FollowsSource, OperandsIntact, blockVars, machineVars, sourceVars
  <2> QED  BY <2>1, <2>2 DEF CertifiedNext
<1> QED  BY <1>4, <1>5, <1>6 DEF BlockNext

(* When a wait has one handler, compiled code has a certificate at every    *)
(* moment: for every number a set of configurations (the source node last   *)
(* done, what is in the slots, the staged arguments and the temporary) such *)
(* that running each block from any of them takes an edge of the source     *)
(* each time, reads what the source means - but for the filter of a wait    *)
(* whose handler binds its name again, which is read where that binding is -*)
(* and ends in the set of every number its exit names; and the program is   *)
(* always at one of them.                                                   *)
THEOREM BranchesCorrect ==
    ASSUME MaxHandlers = 1
    PROVE  BlockSpec => []Correct
<1>1. BlockInit => Correct
  BY CorrectInit
<1>2. Correct /\ [BlockNext]_blockVars => Correct'
  BY CorrectNext
<1> QED  BY <1>1, <1>2, PTL DEF BlockSpec

(* When a wait has one handler, a program that runs takes only steps the    *)
(* source has (FollowsSource): no matter how whens and waits nest, the      *)
(* blocks that are written, the redirects of arms and the numbers after     *)
(* them never lead to an expression that does not come next in the source,  *)
(* and a program ends only where the source ends.                           *)
THEOREM BranchesFollowSource ==
    ASSUME MaxHandlers = 1
    PROVE  BlockSpec => []FollowsSource
<1>1. Correct => FollowsSource
  BY DEF Correct
<1> QED  BY <1>1, BranchesCorrect, PTL

(* When a wait has one handler, each expression of a running program finds  *)
(* the operands the source names (OperandsIntact): no let, no pattern and   *)
(* no argument of an inner call has overwritten a slot, a staged argument   *)
(* or the temporary before it is used.  The filter of a wait is among the   *)
(* operands, and right for every wait whose handler does not bind the       *)
(* filter's name again; FiltersIntact, which asks it of all waits, fails.   *)
THEOREM OperandsAlwaysIntact ==
    ASSUME MaxHandlers = 1
    PROVE  BlockSpec => []OperandsIntact
<1>1. Correct => OperandsIntact
  BY DEF Correct
<1> QED  BY <1>1, BranchesCorrect, PTL
=============================================================================
