------------------------- MODULE ActorMemory_proofs -------------------------
(***************************************************************************)
(* What holds of the arenas for every number of actors, size of arena and  *)
(* kind of object: who works in which arena, that a cursor goes back only   *)
(* under the one actor left working there, and that what an actor keeps is  *)
(* never overwritten as long as no pointer travels in a message.            *)
(***************************************************************************)
EXTENDS Arena, Scratch, SequenceTheorems, WellFoundedInduction, TLAPS

-----------------------------------------------------------------------------
(* Induction over the naturals, on sets: the library's theorem about        *)
(* well-founded relations takes a set of counterexamples.                   *)
Less == OpToRel(<, Nat)

(* Every set of numbers has a least one.                                    *)
LEMMA LeastNumber ==
    ASSUME NEW T, T \subseteq Nat, T # {}
    PROVE  \E x \in T : \A y \in T : ~ y < x
<1>1. IsWellFoundedOn(Less, Nat)
  BY NatLessThanWellFounded DEF Less
<1>2. \A x, y \in Nat : << x, y >> \in Less <=> x < y
  BY DEF Less, OpToRel
<1>3. \E x \in T : \A y \in T : ~ << y, x >> \in Less
  BY <1>1, WFMin
<1> QED  BY <1>2, <1>3

(* A set of numbers with 0 and with the successors of its members has all.  *)
LEMMA AllNumbers ==
    ASSUME NEW T \in SUBSET Nat, 0 \in T, \A n \in T : n + 1 \in T
    PROVE  T = Nat
<1> SUFFICES ASSUME T # Nat  PROVE FALSE
  OBVIOUS
<1>1. Nat \ T # {}
  OBVIOUS
<1>2. PICK x \in Nat \ T : \A y \in Nat \ T : ~ y < x
  BY <1>1, LeastNumber
<1>3. x - 1 \in Nat
  BY <1>2
<1>4. x - 1 \in T
  BY <1>2, <1>3
<1>5. (x - 1) + 1 \in T
  BY <1>4
<1> QED  BY <1>2, <1>5

Rounds(N, X) == [1 .. N -> [X -> X]]
HasTrace(X, x0, N, step) ==
    \E g \in [0 .. N -> X] : g[0] = x0 /\ \A n \in 1 .. N : g[n] = step[n][g[n - 1]]

(* A loop of N rounds, each a function of what the one before it left, has  *)
(* a trace.                                                                 *)
LEMMA LoopHasTrace ==
    ASSUME NEW X, NEW x0 \in X, NEW N \in Nat, NEW step \in Rounds(N, X)
    PROVE  HasTrace(X, x0, N, step)
<1> DEFINE Traces(k) == { g \in [0 .. k -> X] :
                            g[0] = x0 /\ \A n \in 1 .. k : g[n] = step[n][g[n - 1]] }
           T == { k \in Nat : k <= N => Traces(k) # {} }
<1>1. 0 \in T
  <2>1. [i \in 0 .. 0 |-> x0] \in Traces(0)
    OBVIOUS
  <2> QED  BY <2>1
<1>2. ASSUME NEW k \in T  PROVE k + 1 \in T
  <2> SUFFICES ASSUME k + 1 <= N  PROVE Traces(k + 1) # {}
    OBVIOUS
  <2>1. k \in Nat /\ k <= N /\ k + 1 \in 1 .. N
    OBVIOUS
  <2>2. PICK g \in Traces(k) : TRUE
    BY <2>1
  <2> DEFINE h == [i \in 0 .. k + 1 |-> IF i <= k THEN g[i] ELSE step[k + 1][g[k]]]
  <2>3. g \in [0 .. k -> X] /\ g[0] = x0
        /\ \A n \in 1 .. k : g[n] = step[n][g[n - 1]]
    BY <2>2
  <2>4. g[k] \in X /\ step[k + 1] \in [X -> X]
    BY <2>1, <2>3 DEF Rounds
  <2>5. h \in [0 .. k + 1 -> X] /\ h[0] = x0
    BY <2>1, <2>3, <2>4
  <2>6. ASSUME NEW n \in 1 .. k + 1  PROVE h[n] = step[n][h[n - 1]]
    <3>1. n - 1 \in 0 .. k /\ n \in 0 .. k + 1 /\ h[n - 1] = g[n - 1]
      BY <2>1
    <3>2. CASE n <= k
      BY <2>1, <2>3, <3>1, <3>2
    <3>3. CASE ~ n <= k
      <4>1. n = k + 1 /\ n - 1 = k
        BY <2>1, <3>3
      <4> QED  BY <3>1, <3>3, <4>1
    <3> QED  BY <3>2, <3>3
  <2> HIDE DEF h
  <2>7. h \in Traces(k + 1)
    BY <2>5, <2>6
  <2> QED  BY <2>7
<1> HIDE DEF Traces
<1>3. T \in SUBSET Nat
  OBVIOUS
<1> HIDE DEF T
<1>4. T = Nat
  BY <1>1, <1>2, <1>3, AllNumbers
<1>5. Traces(N) # {}
  BY <1>4 DEF T
<1> QED  BY <1>5 DEF Traces, HasTrace

-----------------------------------------------------------------------------
(* What variables and cells hold.                                           *)
Kept ==
    { s \in [ptr : [reg : Actors \cup {Heap}, at : Nat, len : Lens], val : Values] :
        s.ptr.reg # Heap => s.ptr.at + s.ptr.len <= Cap }
Contents == Values \cup {None, Torn}
Memory == [Actors -> [0 .. Cap - 1 -> Contents]]
Carved == [bump : [Actors -> 0 .. Cap], data : Memory, out : Seq(Kept)]

(* A variable's object lies below the cursor of arena `r', whole.           *)
Sound(b, m, r, s) ==
    s.ptr.reg # Heap =>
        /\ s.ptr.reg = r /\ s.ptr.at + s.ptr.len <= b[r]
        /\ \A c \in Cells(s.ptr) : m[r][c] = s.val

(* A pointer into an arena points to cells of it.                           *)
LEMMA CellsInside ==
    ASSUME ArenaAssumption, NEW s \in Kept, s.ptr.reg # Heap
    PROVE  /\ s.ptr.reg \in Actors /\ s.ptr.at \in Cells(s.ptr)
           /\ Cells(s.ptr) \subseteq 0 .. Cap - 1
<1>1. /\ s.ptr.reg \in Actors /\ s.ptr.at \in Nat /\ s.ptr.len \in Nat \ {0}
      /\ s.ptr.at + s.ptr.len <= Cap /\ Cap \in Nat
  BY DEF Kept, ArenaAssumption
<1> QED  BY <1>1 DEF Cells

(* Reading yields something that was stored, and of an object that is whole *)
(* what the variable was given.                                             *)
LEMMA ReadIs ==
    ASSUME ArenaAssumption, NEW m \in Memory, NEW s \in Kept
    PROVE  /\ Read(m, s) \in Contents
           /\ \A b, r : Sound(b, m, r, s) => Read(m, s) = s.val
<1>1. CASE s.ptr.reg = Heap
  BY <1>1 DEF Read, Kept, Contents
<1>2. CASE s.ptr.reg # Heap
  <2>1. /\ s.ptr.reg \in Actors /\ s.ptr.at \in Cells(s.ptr)
        /\ Cells(s.ptr) \subseteq 0 .. Cap - 1
    BY <1>2, CellsInside
  <2>2. m[s.ptr.reg][s.ptr.at] \in Contents
    BY <2>1 DEF Memory
  <2>3. Read(m, s) = IF \A c \in Cells(s.ptr) :
                           m[s.ptr.reg][c] = m[s.ptr.reg][s.ptr.at]
                     THEN m[s.ptr.reg][s.ptr.at] ELSE Torn
    BY <1>2 DEF Read
  <2>4. ASSUME NEW b, NEW r, Sound(b, m, r, s)  PROVE Read(m, s) = s.val
    <3>1. \A c \in Cells(s.ptr) : m[s.ptr.reg][c] = s.val
      BY <1>2, <2>4 DEF Sound
    <3> QED  BY <2>1, <2>3, <3>1
  <2> QED  BY <2>2, <2>3, <2>4 DEF Contents
<1> QED  BY <1>1, <1>2

-----------------------------------------------------------------------------
(* The variable that rt_arena_alloc and the store behind it make.           *)
Placed(A, r, len, val) ==
    [ptr |-> IF Fits(A, r, len) THEN [reg |-> r, at |-> A.bump[r], len |-> len]
             ELSE [reg |-> Heap, at |-> 0, len |-> len],
     val |-> val]

(* It keeps arenas arenas, and is a pointer into one or into the heap.      *)
LEMMA PlaceTypes ==
    ASSUME ArenaAssumption, NEW A \in Carved, NEW r \in Actors, NEW len \in Lens,
           NEW content \in Contents, NEW val \in Values
    PROVE  /\ Place(A, r, len, content, val) \in Carved
           /\ Placed(A, r, len, val) \in Kept
           /\ Place(A, r, len, content, val).out = Append(A.out, Placed(A, r, len, val))
<1> DEFINE s == Placed(A, r, len, val)
           B == Place(A, r, len, content, val)
<1>1. /\ Cap \in Nat \ {0} /\ len \in Nat \ {0} /\ Heap \notin Actors
      /\ A.bump \in [Actors -> 0 .. Cap] /\ A.data \in Memory /\ A.out \in Seq(Kept)
      /\ A.bump[r] \in 0 .. Cap
  BY DEF ArenaAssumption, Carved
<1>2. s \in Kept
  <2>1. CASE Fits(A, r, len)
    BY <1>1, <2>1 DEF Fits, Placed, Kept
  <2>2. CASE ~ Fits(A, r, len)
    BY <1>1, <2>2 DEF Placed, Kept
  <2> QED  BY <2>1, <2>2
<1>3. A = [bump |-> A.bump, data |-> A.data, out |-> A.out]
  BY DEF Carved
<1>4. CASE Fits(A, r, len)
  <2> DEFINE p == [reg |-> r, at |-> A.bump[r], len |-> len]
             m2 == [A.data EXCEPT ![r] =
                       [c \in DOMAIN @ |-> IF c \in Cells(p) THEN content ELSE @[c]]]
  <2>1. B = [bump |-> [A.bump EXCEPT ![r] = @ + len], data |-> m2,
             out |-> Append(A.out, s)]
    BY <1>4 DEF Place, Placed
  <2>2. [A.bump EXCEPT ![r] = @ + len] \in [Actors -> 0 .. Cap]
    BY <1>1, <1>4 DEF Fits
  <2>3. m2 \in Memory
    BY <1>1 DEF Memory
  <2>4. Append(A.out, s) \in Seq(Kept)
    BY <1>1, <1>2
  <2> HIDE DEF m2, s, B
  <2>5. B \in Carved /\ B.out = Append(A.out, s)
    BY <2>1, <2>2, <2>3, <2>4 DEF Carved
  <2> QED  BY <1>2, <2>5 DEF B, s
<1>5. CASE ~ Fits(A, r, len)
  <2>1. B = [A EXCEPT !.out = Append(@, s)]
    BY <1>5 DEF Place, Placed
  <2>2. Append(A.out, s) \in Seq(Kept)
    BY <1>1, <1>2
  <2> HIDE DEF s, B
  <2>3. B = [bump |-> A.bump, data |-> A.data, out |-> Append(A.out, s)]
    BY <1>3, <2>1
  <2>4. B \in Carved /\ B.out = Append(A.out, s)
    BY <1>1, <2>2, <2>3 DEF Carved
  <2> QED  BY <1>2, <2>4 DEF B, s
<1> QED  BY <1>4, <1>5

(* It touches nothing below the cursor and no other arena, never moves the  *)
(* cursor back, and the variable it makes of a content is whole.            *)
LEMMA PlaceAbove ==
    ASSUME ArenaAssumption, NEW A \in Carved, NEW r \in Actors, NEW len \in Lens,
           NEW content \in Contents, NEW val \in Values, NEW B,
           B = Place(A, r, len, content, val)
    PROVE  /\ A.bump[r] <= B.bump[r]
           /\ \A q \in Actors \ {r} : B.bump[q] = A.bump[q] /\ B.data[q] = A.data[q]
           /\ \A c \in 0 .. A.bump[r] - 1 : B.data[r][c] = A.data[r][c]
           /\ content = val => Sound(B.bump, B.data, r, Placed(A, r, len, val))
<1> DEFINE s == Placed(A, r, len, val)
<1>1. /\ Cap \in Nat \ {0} /\ len \in Nat \ {0} /\ Heap \notin Actors
      /\ A.bump \in [Actors -> 0 .. Cap] /\ A.data \in Memory
      /\ A.bump[r] \in 0 .. Cap
  BY DEF ArenaAssumption, Carved
<1>2. CASE Fits(A, r, len)
  <2> DEFINE p == [reg |-> r, at |-> A.bump[r], len |-> len]
             m2 == [A.data EXCEPT ![r] =
                       [c \in DOMAIN @ |-> IF c \in Cells(p) THEN content ELSE @[c]]]
             b2 == [A.bump EXCEPT ![r] = @ + len]
  <2>1. B.bump = b2 /\ B.data = m2 /\ s = [ptr |-> p, val |-> val]
    BY <1>2 DEF Place, Placed
  <2>2. /\ b2[r] = A.bump[r] + len
        /\ \A q \in Actors \ {r} : b2[q] = A.bump[q]
    BY <1>1
  <2>3. /\ \A q \in Actors \ {r} : m2[q] = A.data[q]
        /\ \A c \in 0 .. Cap - 1 :
              m2[r][c] = IF c \in Cells(p) THEN content ELSE A.data[r][c]
    BY <1>1 DEF Memory
  <2>4. /\ Cells(p) = A.bump[r] .. A.bump[r] + len - 1
        /\ A.bump[r] + len <= Cap
    BY <1>2 DEF Cells, Fits
  <2> HIDE DEF m2, b2
  <2>5. \A c \in 0 .. A.bump[r] - 1 : c \in 0 .. Cap - 1 /\ c \notin Cells(p)
    BY <1>1, <2>4
  <2>6. \A c \in Cells(p) : c \in 0 .. Cap - 1
    BY <1>1, <2>4
  <2>7. A.bump[r] <= b2[r]
    BY <1>1, <2>2
  <2>8. content = val => Sound(b2, m2, r, s)
    BY <1>1, <2>1, <2>2, <2>3, <2>6 DEF Sound
  <2> QED  BY <2>1, <2>2, <2>3, <2>5, <2>7, <2>8
<1>3. CASE ~ Fits(A, r, len)
  <2>1. /\ B = [A EXCEPT !.out = Append(@, s)]
        /\ s = [ptr |-> [reg |-> Heap, at |-> 0, len |-> len], val |-> val]
    BY <1>3 DEF Place, Placed
  <2>2. B.bump = A.bump /\ B.data = A.data /\ s.ptr.reg = Heap
    BY <2>1 DEF Carved
  <2>3. A.bump[r] <= A.bump[r]
    BY <1>1
  <2> HIDE DEF s
  <2> QED  BY <1>1, <2>2, <2>3 DEF Sound, s
<1> QED  BY <1>2, <1>3

(* A whole object stays whole when one is placed in the same arena, or when *)
(* its arena does not change.                                               *)
LEMMA SoundKept ==
    ASSUME ArenaAssumption, NEW b, NEW m, NEW b2, NEW m2, NEW r \in Actors,
           NEW s \in Kept, Sound(b, m, r, s), b[r] \in 0 .. Cap, b2[r] \in 0 .. Cap,
           b[r] <= b2[r], \A c \in 0 .. b[r] - 1 : m2[r][c] = m[r][c]
    PROVE  Sound(b2, m2, r, s)
<1> SUFFICES ASSUME s.ptr.reg # Heap
             PROVE  /\ s.ptr.reg = r /\ s.ptr.at + s.ptr.len <= b2[r]
                    /\ \A c \in Cells(s.ptr) : m2[r][c] = s.val
  BY DEF Sound
<1>1. /\ s.ptr.at \in Nat /\ s.ptr.len \in Nat \ {0} /\ Cap \in Nat
  BY DEF Kept, ArenaAssumption
<1>2. /\ s.ptr.reg = r /\ s.ptr.at + s.ptr.len <= b[r]
      /\ \A c \in Cells(s.ptr) : m[r][c] = s.val
  BY DEF Sound
<1>3. \A c \in Cells(s.ptr) : c \in 0 .. b[r] - 1
  BY <1>1, <1>2 DEF Cells
<1>4. s.ptr.at + s.ptr.len <= b2[r]
  BY <1>1, <1>2
<1> QED  BY <1>2, <1>3, <1>4

-----------------------------------------------------------------------------
(* One round of the recopying of self's arguments.                          *)
Round(a, args, A, n) ==
    Place(A, arena_of[a], args[n].ptr.len, Snapshot(args)[n], args[n].val)
IsTrace(a, args, f) ==
    f = [n \in 0 .. Len(args) |->
            IF n = 0 THEN Rewound(a) ELSE Round(a, args, f[n - 1], n)]

(* The rounds start from the rewound arena, and each makes an arena of one. *)
LEMMA RoundTypes ==
    ASSUME ArenaAssumption, bump \in [Actors -> 0 .. Cap], data \in Memory,
           NEW a, arena_of[a] \in Actors, NEW args \in Seq(Kept)
    PROVE  /\ Rewound(a) \in Carved
           /\ Rewound(a) = [bump |-> [bump EXCEPT ![arena_of[a]] = 0],
                            data |-> data, out |-> << >>]
           /\ \A n \in 1 .. Len(args), A \in Carved : Round(a, args, A, n) \in Carved
<1>1. Rewound(a) = [bump |-> [bump EXCEPT ![arena_of[a]] = 0], data |-> data, out |-> << >>]
  <2>1. ASSUME NEW A, NEW b, A = Now
        PROVE  [A EXCEPT !.bump = b] = [bump |-> b, data |-> data, out |-> << >>]
    BY <2>1 DEF Now
  <2> QED  BY <2>1 DEF Rewound, Emptied
<1>2. [bump EXCEPT ![arena_of[a]] = 0] \in [Actors -> 0 .. Cap] /\ << >> \in Seq(Kept)
  BY DEF ArenaAssumption
<1>3. Rewound(a) \in Carved
  BY <1>1, <1>2 DEF Carved
<1>4. ASSUME NEW n \in 1 .. Len(args), NEW A \in Carved
      PROVE  Round(a, args, A, n) \in Carved
  <2>1. args[n] \in Kept /\ n \in DOMAIN args
    OBVIOUS
  <2>2. args[n].ptr.len \in Lens /\ args[n].val \in Values
    BY <2>1 DEF Kept
  <2>3. Snapshot(args)[n] \in Contents
    BY <2>1, ReadIs DEF Snapshot
  <2> QED  BY <2>2, <2>3, PlaceTypes DEF Round
<1> QED  BY <1>1, <1>3, <1>4

(* The rounds have a trace, and recopying ends with its last arena.         *)
LEMMA RecopyTrace ==
    ASSUME ArenaAssumption, bump \in [Actors -> 0 .. Cap], data \in Memory,
           NEW a, arena_of[a] \in Actors, NEW args \in Seq(Kept)
    PROVE  \E f : IsTrace(a, args, f) /\ Recopied(a, args) = f[Len(args)]
<1> DEFINE N == Len(args)
           step == [n \in 1 .. N |-> [A \in Carved |-> Round(a, args, A, n)]]
           after[n \in 0 .. Len(args)] ==
               IF n = 0 THEN Rewound(a)
               ELSE Place(after[n - 1], arena_of[a], args[n].ptr.len, Snapshot(args)[n],
                          args[n].val)
<1>1. Recopied(a, args) = after[Len(args)]
  BY DEF Recopied
<1>2. after = CHOOSE f : IsTrace(a, args, f)
  BY DEF IsTrace, Round
<1> HIDE DEF after
<1>3. N \in Nat /\ Rewound(a) \in Carved
  BY RoundTypes
<1>4. step \in [1 .. N -> [Carved -> Carved]]
  BY RoundTypes
<1>5. \A n \in 1 .. N, A \in Carved : step[n][A] = Round(a, args, A, n)
  OBVIOUS
<1> HIDE DEF step
<1>6. PICK g \in [0 .. N -> Carved] :
          g[0] = Rewound(a) /\ \A n \in 1 .. N : g[n] = step[n][g[n - 1]]
  <2> HIDE DEF N
  <2>1. step \in Rounds(N, Carved)
    BY <1>4 DEF Rounds
  <2>2. HasTrace(Carved, Rewound(a), N, step)
    BY <1>3, <2>1, LoopHasTrace
  <2> QED  BY <2>2 DEF HasTrace
<1>7. ASSUME NEW n \in 1 .. N  PROVE g[n] = Round(a, args, g[n - 1], n)
  <2>1. n - 1 \in 0 .. N
    BY <1>3
  <2> QED  BY <1>5, <1>6, <2>1
<1>8. IsTrace(a, args, g)
  <2>1. ASSUME NEW n \in 0 .. N
        PROVE  g[n] = IF n = 0 THEN Rewound(a) ELSE Round(a, args, g[n - 1], n)
    <3>1. n # 0 => n \in 1 .. N
      BY <1>3
    <3> QED  BY <1>6, <1>7, <3>1
  <2> QED  BY <2>1 DEF IsTrace
<1>9. IsTrace(a, args, after)
  BY <1>2, <1>8
<1> QED  BY <1>1, <1>9

(* What self makes of its arguments: an arena in which all of them were     *)
(* placed, whole if they were whole, and no other arena than its own        *)
(* touched.  The arguments are read from the snapshot, so that placing one  *)
(* does not spoil the next.                                                 *)
LEMMA RecopyIs ==
    ASSUME ArenaAssumption, bump \in [Actors -> 0 .. Cap], data \in Memory,
           NEW a, arena_of[a] \in Actors, NEW args \in Seq(Kept),
           NEW A, A = Recopied(a, args)
    PROVE  /\ A \in Carved /\ Len(A.out) = Len(args)
           /\ \A q \in Actors \ {arena_of[a]} : A.bump[q] = bump[q] /\ A.data[q] = data[q]
           /\ (\A i \in 1 .. Len(args) : Read(data, args[i]) = args[i].val)
                => \A i \in 1 .. Len(args) : Sound(A.bump, A.data, arena_of[a], A.out[i])
<1> DEFINE N == Len(args)
           r == arena_of[a]
           Whole == \A i \in 1 .. Len(args) : Read(data, args[i]) = args[i].val
           Good(B, n) ==
               /\ B \in Carved /\ Len(B.out) = n
               /\ \A q \in Actors \ {r} : B.bump[q] = bump[q] /\ B.data[q] = data[q]
               /\ Whole => \A i \in 1 .. n : Sound(B.bump, B.data, r, B.out[i])
<1>1. PICK f : IsTrace(a, args, f) /\ A = f[N]
  BY RecopyTrace
<1>2. N \in Nat
  OBVIOUS
<1>3. f[0] = Rewound(a) /\ \A n \in 1 .. N : f[n] = Round(a, args, f[n - 1], n)
  <2>1. 0 \in 0 .. N /\ \A n \in 1 .. N : n \in 0 .. N /\ n # 0
    BY <1>2
  <2> QED  BY <1>1, <2>1 DEF IsTrace
<1> DEFINE T == { n \in Nat : n <= N => Good(f[n], n) }
<1>4. 0 \in T
  <2>1. Good(Rewound(a), 0)
    <3>1. /\ Rewound(a) \in Carved
          /\ Rewound(a) = [bump |-> [bump EXCEPT ![r] = 0], data |-> data, out |-> << >>]
      BY RoundTypes
    <3>2. Len(Rewound(a).out) = 0
      BY <3>1
    <3>3. \A q \in Actors \ {r} : Rewound(a).bump[q] = bump[q]
                                  /\ Rewound(a).data[q] = data[q]
      BY <3>1
    <3>4. \A i \in 1 .. 0 : FALSE
      OBVIOUS
    <3> HIDE DEF Whole
    <3> QED  BY <3>1, <3>2, <3>3, <3>4
  <2> HIDE DEF Good
  <2> QED  BY <1>3, <2>1
<1>5. ASSUME NEW n \in T  PROVE n + 1 \in T
  <2> SUFFICES ASSUME n + 1 <= N  PROVE Good(f[n + 1], n + 1)
    OBVIOUS
  <2> DEFINE k == n + 1
             B == f[n]
             C == f[k]
             s == Placed(B, r, args[k].ptr.len, args[k].val)
  <2>1. n \in Nat /\ n <= N /\ k \in 1 .. N /\ k - 1 = n
    BY <1>2
  <2>2. Good(B, n)
    BY <2>1
  <2>3. C = Place(B, r, args[k].ptr.len, Snapshot(args)[k], args[k].val)
    BY <1>3, <2>1 DEF Round
  <2>4. args[k] \in Kept /\ k \in DOMAIN args
    BY <2>1
  <2>5. args[k].ptr.len \in Lens /\ args[k].val \in Values
    BY <2>4 DEF Kept
  <2>6. Snapshot(args)[k] = Read(data, args[k]) /\ Read(data, args[k]) \in Contents
    BY <2>4, ReadIs DEF Snapshot
  <2> HIDE DEF k, B, C, s, Good, Whole
  <2>7. B \in Carved /\ Len(B.out) = n
    BY <2>2 DEF Good
  <2>8. C \in Carved /\ s \in Kept /\ C.out = Append(B.out, s)
    BY <2>3, <2>5, <2>6, <2>7, PlaceTypes DEF s
  <2>9. /\ B.bump[r] <= C.bump[r]
        /\ \A q \in Actors \ {r} : C.bump[q] = B.bump[q] /\ C.data[q] = B.data[q]
        /\ \A c \in 0 .. B.bump[r] - 1 : C.data[r][c] = B.data[r][c]
        /\ Read(data, args[k]) = args[k].val => Sound(C.bump, C.data, r, s)
    BY <2>3, <2>5, <2>6, <2>7, PlaceAbove DEF s
  <2>10. B.out \in Seq(Kept)
    BY <2>7 DEF Carved
  <2>11. /\ Len(C.out) = k /\ C.out[k] = s
         /\ \A i \in 1 .. n : C.out[i] = B.out[i]
    BY <2>7, <2>8, <2>10, AppendProperties DEF k
  <2>12. ASSUME Whole, NEW i \in 1 .. k
         PROVE  Sound(C.bump, C.data, r, C.out[i])
    <3>1. CASE i \in 1 .. n
      <4>1. B.out[i] \in Kept
        BY <2>7, <2>10, <3>1
      <4>2. Sound(B.bump, B.data, r, B.out[i])
        BY <2>2, <2>12, <3>1 DEF Good
      <4>3. B.bump[r] \in 0 .. Cap /\ C.bump[r] \in 0 .. Cap
        BY <2>7, <2>8 DEF Carved
      <4>4. Sound(C.bump, C.data, r, B.out[i])
        BY <2>9, <4>1, <4>2, <4>3, SoundKept
      <4> QED  BY <2>11, <3>1, <4>4
    <3>2. CASE ~ i \in 1 .. n
      <4>1. i = k
        BY <2>1, <3>2 DEF k
      <4>2. Read(data, args[k]) = args[k].val
        BY <2>1, <2>12 DEF Whole
      <4> QED  BY <2>9, <2>11, <4>1, <4>2
    <3> QED  BY <3>1, <3>2
  <2>13. \A q \in Actors \ {r} : C.bump[q] = bump[q] /\ C.data[q] = data[q]
    BY <2>2, <2>9 DEF Good
  <2>14. Good(C, k)
    BY <2>8, <2>11, <2>12, <2>13 DEF Good
  <2> QED  BY <2>14 DEF C, k
<1>6. T \in SUBSET Nat
  OBVIOUS
<1> HIDE DEF T, Good
<1>7. T = Nat
  BY <1>4, <1>5, <1>6, AllNumbers
<1>8. Good(f[N], N)
  BY <1>2, <1>7 DEF T
<1> QED  BY <1>1, <1>8 DEF Good

-----------------------------------------------------------------------------
(* The inductive invariant.  Shapes:                                        *)
ArenaTypes ==
    /\ alive \subseteq Actors
    /\ caller \in [Actors -> Actors \cup {None}]
    /\ arena_of \in [Actors -> Actors \cup {None}]
    /\ base \in [Actors -> BOOLEAN]
    /\ bump \in [Actors -> 0 .. Cap] /\ data \in Memory
    /\ slots \in [Actors -> Seq(Kept)]
    /\ \A a \in Actors : Len(slots[a]) <= MaxVars

(* Whoever owns an arena lives, uses it and was called by nobody, no more   *)
(* than the dead, and every block was freed by its start.                   *)
OwnersSound ==
    /\ mapped = { a \in alive : base[a] }
    /\ \A a \in Actors : base[a] => a \in alive /\ arena_of[a] = a /\ caller[a] = None
    /\ \A a \in Actors \ alive : caller[a] = None
    /\ ~ misfreed

(* Those who still have blocks to run.  The ones that share an arena form a *)
(* stack: its owner at the bottom, on each the one it called, and only the  *)
(* one on top does not wait.                                                *)
Working == { a \in alive : ~ Ended(a) }
Stacked(pos) ==
    /\ \A x \in Working :
          /\ arena_of[x] \in mapped
          /\ base[x] => pos[x] = 0
          /\ ~ base[x] => /\ caller[x] \in Working
                          /\ arena_of[caller[x]] = arena_of[x]
                          /\ pos[x] = pos[caller[x]] + 1
    /\ \A x, y \in Working :
          arena_of[x] = arena_of[y] /\ x # y =>
              pos[x] # pos[y] /\ (pos[x] < pos[y] => x \in waits)
Stacks == waits \subseteq Working /\ \E pos \in [Actors -> Nat] : Stacked(pos)

ArenaInv == ArenaTypes /\ OwnersSound /\ Stacks

(* Without messages: every variable of theirs is an object below the cursor *)
(* of the arena they work in, or one in the heap.                           *)
Untouched == \A a \in Working : \A s \in Range(slots[a]) : Sound(bump, data, arena_of[a], s)

-----------------------------------------------------------------------------
(* Who may run a block of its machine works, and waits for nobody; being on *)
(* top of its stack, it works alone if the arena is its own.                *)
LEMMA OnTop ==
    ASSUME NEW pos \in [Actors -> Nat], Stacked(pos), alive \subseteq Actors,
           NEW a \in Working, a \notin waits,
           NEW y \in Working, y # a, arena_of[y] = arena_of[a]
    PROVE  pos[y] < pos[a] /\ y \in waits /\ ~ base[a]
<1>1. a \in Actors /\ y \in Actors
  BY DEF Working
<1>2. pos[a] \in Nat /\ pos[y] \in Nat
  BY <1>1
<1>3. pos[a] # pos[y] /\ ~ pos[a] < pos[y]
  BY DEF Stacked
<1>4. pos[y] < pos[a]
  BY <1>2, <1>3
<1>5. y \in waits
  BY <1>4 DEF Stacked
<1>6. ~ base[a]
  BY <1>2, <1>4 DEF Stacked
<1> QED  BY <1>4, <1>5, <1>6

(* An arena whose owner may run is used by nobody else.                     *)
LEMMA OwnerAlone ==
    ASSUME ArenaInv, NEW a \in Working, a \notin waits, base[a],
           NEW y \in Working, arena_of[y] = arena_of[a]
    PROVE  y = a
<1>1. PICK pos \in [Actors -> Nat] : Stacked(pos)
  BY DEF ArenaInv, Stacks
<1>2. alive \subseteq Actors
  BY DEF ArenaInv, ArenaTypes
<1> QED  BY <1>1, <1>2, OnTop

(* Who may run works in an arena that is allocated.                         *)
LEMMA RunnerWorks ==
    ASSUME ArenaInv, NEW a, CanRun(a)
    PROVE  /\ a \in Working /\ a \in Actors /\ a \notin waits
           /\ arena_of[a] \in mapped /\ arena_of[a] \in Actors
<1>1. PICK pos \in [Actors -> Nat] : Stacked(pos)
  BY DEF ArenaInv, Stacks
<1>2. a \in Working /\ a \in Actors /\ a \notin waits
  BY DEF CanRun, Working, ArenaInv, ArenaTypes
<1>3. arena_of[a] \in mapped
  BY <1>1, <1>2 DEF Stacked
<1>4. mapped \subseteq Actors
  BY DEF ArenaInv, ArenaTypes, OwnersSound
<1> QED  BY <1>2, <1>3, <1>4

(* Operations that start and end nobody leave the stacks alone.             *)
LEMMA SameStacks ==
    ASSUME OwnersSound, Stacks,
           UNCHANGED << alive, waits, caller, arena_of, base, mapped, misfreed >>
    PROVE  OwnersSound' /\ Stacks'
BY DEF OwnersSound, Stacks, Stacked, Working, Ended

(* An asynchronous child is alone at the bottom of a stack of its own.      *)
LEMMA SpawnStacks ==
    ASSUME ArenaInv, NEW a \in Actors, NEW b \in Actors, b \notin alive \cup mapped,
           alive' = alive \cup {b}, mapped' = mapped \cup {b},
           arena_of' = [arena_of EXCEPT ![b] = b], base' = [base EXCEPT ![b] = TRUE],
           UNCHANGED << waits, caller, misfreed >>
    PROVE  OwnersSound' /\ Stacks'
<1>1. PICK pos \in [Actors -> Nat] : Stacked(pos)
  BY DEF ArenaInv, Stacks
<1>2. /\ alive \subseteq Actors /\ arena_of \in [Actors -> Actors \cup {None}]
      /\ base \in [Actors -> BOOLEAN] /\ waits \subseteq Working
  BY DEF ArenaInv, ArenaTypes, Stacks
<1>3. /\ arena_of'[b] = b /\ base'[b]
      /\ \A x \in Actors \ {b} : arena_of'[x] = arena_of[x] /\ base'[x] = base[x]
  BY <1>2
<1>4. Working' = Working \cup {b} /\ b \notin Working /\ Working \subseteq Actors
  BY <1>2, <1>3 DEF Working, Ended
<1>5. caller' = caller
  OBVIOUS
<1>6. OwnersSound'
  <2>1. mapped' = { x \in alive' : base'[x] }
    BY <1>2, <1>3 DEF ArenaInv, OwnersSound
  <2>2. \A x \in Actors : base'[x] => x \in alive' /\ arena_of'[x] = x /\ caller'[x] = None
    BY <1>3, <1>5 DEF ArenaInv, OwnersSound
  <2>3. \A x \in Actors \ alive' : caller'[x] = None
    BY <1>5 DEF ArenaInv, OwnersSound
  <2> QED  BY <2>1, <2>2, <2>3 DEF ArenaInv, OwnersSound
<1>7. PICK p2 \in [Actors -> Nat] :
          p2[b] = 0 /\ \A x \in Actors \ {b} : p2[x] = pos[x]
  <2>1. [pos EXCEPT ![b] = 0] \in [Actors -> Nat]
    OBVIOUS
  <2> QED  BY <2>1
<1>8. \A x \in Working : /\ x \in Actors \ {b} /\ arena_of[x] \in mapped
                         /\ arena_of[x] # b
  BY <1>1, <1>4 DEF Stacked
<1>9. ASSUME NEW x \in Working'
      PROVE  /\ arena_of'[x] \in mapped'
             /\ base'[x] => p2[x] = 0
             /\ ~ base'[x] => /\ caller'[x] \in Working'
                              /\ arena_of'[caller'[x]] = arena_of'[x]
                              /\ p2[x] = p2[caller'[x]] + 1
  <2>1. CASE x = b
    BY <1>3, <1>7, <2>1
  <2>2. CASE x # b
    <3>1. x \in Working
      BY <1>4, <2>2
    <3>2. /\ arena_of'[x] = arena_of[x] /\ base'[x] = base[x] /\ p2[x] = pos[x]
      BY <1>3, <1>7, <1>8, <3>1
    <3>3. ~ base[x] => caller[x] \in Working
      BY <1>1, <3>1 DEF Stacked
    <3>4. ~ base[x] => arena_of'[caller[x]] = arena_of[caller[x]] /\ p2[caller[x]] = pos[caller[x]]
      BY <1>3, <1>7, <1>8, <3>3
    <3> QED  BY <1>1, <1>4, <1>5, <3>1, <3>2, <3>3, <3>4 DEF Stacked
  <2> QED  BY <2>1, <2>2
<1>10. ASSUME NEW x \in Working', NEW y \in Working', arena_of'[x] = arena_of'[y], x # y
       PROVE  p2[x] # p2[y] /\ (p2[x] < p2[y] => x \in waits')
  <2>1. x # b /\ y # b
    BY <1>3, <1>4, <1>8, <1>10
  <2>2. x \in Working /\ y \in Working
    BY <1>4, <2>1
  <2>3. /\ p2[x] = pos[x] /\ p2[y] = pos[y]
        /\ arena_of'[x] = arena_of[x] /\ arena_of'[y] = arena_of[y]
    BY <1>3, <1>7, <1>8, <2>2
  <2> QED  BY <1>1, <1>10, <2>2, <2>3 DEF Stacked
<1>11. waits' \subseteq Working'
  BY <1>2, <1>4
<1>12. Stacked(p2)'
  BY <1>9, <1>10 DEF Stacked
<1> QED  BY <1>6, <1>11, <1>12 DEF Stacks

(* A synchronous child goes on top of its caller's stack, and the caller    *)
(* waits.                                                                   *)
LEMMA CallStacks ==
    ASSUME ArenaAssumption, ArenaInv, NEW a \in Actors, CanRun(a),
           NEW b \in Actors, b \notin alive,
           alive' = alive \cup {b}, waits' = waits \cup {a},
           caller' = [caller EXCEPT ![b] = a],
           arena_of' = [arena_of EXCEPT ![b] = arena_of[a]], base' = [base EXCEPT ![b] = FALSE],
           UNCHANGED << mapped, misfreed >>
    PROVE  OwnersSound' /\ Stacks'
<1>1. PICK pos \in [Actors -> Nat] : Stacked(pos)
  BY DEF ArenaInv, Stacks
<1>2. /\ alive \subseteq Actors /\ arena_of \in [Actors -> Actors \cup {None}]
      /\ caller \in [Actors -> Actors \cup {None}]
      /\ base \in [Actors -> BOOLEAN] /\ waits \subseteq Working
  BY DEF ArenaInv, ArenaTypes, Stacks
<1>3. /\ arena_of'[b] = arena_of[a] /\ ~ base'[b] /\ caller'[b] = a
      /\ \A x \in Actors \ {b} : /\ arena_of'[x] = arena_of[x] /\ base'[x] = base[x]
                                 /\ caller'[x] = caller[x]
  BY <1>2
<1>4. a \in Working /\ a \notin waits /\ arena_of[a] \in mapped /\ a # b
  BY RunnerWorks DEF Working
<1>5. Working' = Working \cup {b} /\ b \notin Working /\ Working \subseteq Actors
  <2>1. None \notin Actors
    BY DEF ArenaAssumption
  <2> QED  BY <1>2, <1>3, <2>1 DEF Working, Ended
<1>6. OwnersSound'
  <2>1. ~ base[b]
    BY DEF ArenaInv, OwnersSound
  <2>2. mapped' = { x \in alive' : base'[x] }
    BY <1>2, <1>3 DEF ArenaInv, OwnersSound
  <2>3. \A x \in Actors : base'[x] => x \in alive' /\ arena_of'[x] = x /\ caller'[x] = None
    BY <1>3 DEF ArenaInv, OwnersSound
  <2>4. \A x \in Actors \ alive' : caller'[x] = None
    BY <1>3 DEF ArenaInv, OwnersSound
  <2> QED  BY <2>2, <2>3, <2>4 DEF ArenaInv, OwnersSound
<1>7. PICK p2 \in [Actors -> Nat] :
          p2[b] = pos[a] + 1 /\ \A x \in Actors \ {b} : p2[x] = pos[x]
  <2>1. [pos EXCEPT ![b] = pos[a] + 1] \in [Actors -> Nat]
    OBVIOUS
  <2> QED  BY <2>1
<1>8. \A x \in Working : x \in Actors \ {b}
  BY <1>5
<1>9. ASSUME NEW x \in Working'
      PROVE  /\ arena_of'[x] \in mapped'
             /\ base'[x] => p2[x] = 0
             /\ ~ base'[x] => /\ caller'[x] \in Working'
                              /\ arena_of'[caller'[x]] = arena_of'[x]
                              /\ p2[x] = p2[caller'[x]] + 1
  <2>1. CASE x = b
    BY <1>3, <1>4, <1>5, <1>7, <2>1
  <2>2. CASE x # b
    <3>1. x \in Working
      BY <1>5, <2>2
    <3>2. /\ arena_of'[x] = arena_of[x] /\ base'[x] = base[x] /\ caller'[x] = caller[x]
          /\ p2[x] = pos[x]
      BY <1>3, <1>7, <1>8, <3>1
    <3>3. ~ base[x] => caller[x] \in Working
      BY <1>1, <3>1 DEF Stacked
    <3>4. ~ base[x] => arena_of'[caller[x]] = arena_of[caller[x]] /\ p2[caller[x]] = pos[caller[x]]
      BY <1>3, <1>7, <1>8, <3>3
    <3> QED  BY <1>1, <1>5, <3>1, <3>2, <3>3, <3>4 DEF Stacked
  <2> QED  BY <2>1, <2>2
<1>10. ASSUME NEW y \in Working, arena_of[y] = arena_of[a]
       PROVE  pos[y] < pos[a] + 1 /\ y \in waits'
  <2>1. y \in Actors /\ pos[a] \in Nat
    BY <1>8
  <2>2. CASE y = a
    BY <2>1, <2>2
  <2>3. CASE y # a
    <3>1. pos[y] < pos[a] /\ y \in waits
      BY <1>1, <1>2, <1>4, <1>10, <2>3, OnTop
    <3>2. pos[y] \in Nat
      BY <2>1
    <3> QED  BY <2>1, <3>1, <3>2
  <2> QED  BY <2>2, <2>3
<1>11. ASSUME NEW x \in Working', NEW y \in Working', arena_of'[x] = arena_of'[y], x # y
       PROVE  p2[x] # p2[y] /\ (p2[x] < p2[y] => x \in waits')
  <2>1. CASE x = b
    <3>1. y \in Working
      BY <1>5, <1>11, <2>1
    <3>2. p2[y] = pos[y] /\ arena_of[y] = arena_of[a]
      BY <1>3, <1>7, <1>8, <1>11, <2>1, <3>1
    <3>3. pos[y] < pos[a] + 1 /\ pos[y] \in Nat /\ pos[a] \in Nat
      BY <1>8, <1>10, <3>1, <3>2
    <3> QED  BY <1>7, <2>1, <3>2, <3>3
  <2>2. CASE y = b
    <3>1. x \in Working
      BY <1>5, <1>11, <2>2
    <3>2. p2[x] = pos[x] /\ arena_of[x] = arena_of[a]
      BY <1>3, <1>7, <1>8, <1>11, <2>2, <3>1
    <3>3. pos[x] < pos[a] + 1 /\ pos[x] \in Nat /\ pos[a] \in Nat /\ x \in waits'
      BY <1>8, <1>10, <3>1, <3>2
    <3> QED  BY <1>7, <2>2, <3>2, <3>3
  <2>3. CASE x # b /\ y # b
    <3>1. x \in Working /\ y \in Working
      BY <1>5, <2>3
    <3>2. /\ p2[x] = pos[x] /\ p2[y] = pos[y]
          /\ arena_of'[x] = arena_of[x] /\ arena_of'[y] = arena_of[y]
      BY <1>3, <1>7, <1>8, <3>1
    <3> QED  BY <1>1, <1>11, <3>1, <3>2 DEF Stacked
  <2> QED  BY <2>1, <2>2, <2>3
<1>12. waits' \subseteq Working'
  BY <1>2, <1>4, <1>5
<1>13. Stacked(p2)'
  BY <1>9, <1>11 DEF Stacked
<1> QED  BY <1>6, <1>7, <1>12, <1>13 DEF Stacks

(* A reply takes the child off the stack and puts its caller on top.        *)
LEMMA ReturnStacks ==
    ASSUME ArenaInv, NEW b \in Actors, CanRun(b), caller[b] # None,
           waits' = waits \ {caller[b]}, caller' = [caller EXCEPT ![b] = None],
           UNCHANGED << alive, arena_of, base, mapped, misfreed >>
    PROVE  /\ OwnersSound' /\ Stacks' /\ Working' = Working \ {b}
           /\ caller[b] \in Working /\ arena_of[caller[b]] = arena_of[b]
<1>1. PICK pos \in [Actors -> Nat] : Stacked(pos)
  BY DEF ArenaInv, Stacks
<1>2. /\ alive \subseteq Actors /\ caller \in [Actors -> Actors \cup {None}]
      /\ waits \subseteq Working
  BY DEF ArenaInv, ArenaTypes, Stacks
<1> DEFINE c == caller[b]
<1>3. b \in Working /\ b \notin waits /\ ~ base[b]
  BY RunnerWorks DEF ArenaInv, OwnersSound
<1>4. c \in Working /\ arena_of[c] = arena_of[b] /\ pos[b] = pos[c] + 1
  BY <1>1, <1>3 DEF Stacked
<1>5. caller'[b] = None /\ \A x \in Actors \ {b} : caller'[x] = caller[x]
  BY <1>2
<1>6. Working' = Working \ {b} /\ Working \subseteq Actors
  BY <1>2, <1>3, <1>5 DEF Working, Ended
<1>7. OwnersSound'
  <2>1. \A x \in Actors : caller[x] = None => caller'[x] = None
    BY <1>5
  <2> QED  BY <2>1 DEF ArenaInv, OwnersSound
<1>8. waits' \subseteq Working'
  BY <1>2, <1>3, <1>6
<1>9. ASSUME NEW y \in Working, y # b, arena_of[y] = arena_of[b]
      PROVE  pos[y] < pos[b] /\ pos[y] \in Nat /\ pos[b] \in Nat
  <2>1. pos[y] < pos[b]
    BY <1>1, <1>2, <1>3, <1>9, OnTop
  <2> QED  BY <1>6, <2>1
<1>10. ASSUME NEW x \in Working'
       PROVE  /\ arena_of'[x] \in mapped'
              /\ base'[x] => pos[x] = 0
              /\ ~ base'[x] => /\ caller'[x] \in Working'
                               /\ arena_of'[caller'[x]] = arena_of'[x]
                               /\ pos[x] = pos[caller'[x]] + 1
  <2>1. x \in Working /\ x # b /\ caller'[x] = caller[x]
    BY <1>5, <1>6
  <2>2. ASSUME ~ base[x]  PROVE caller[x] # b
    <3>1. SUFFICES ASSUME caller[x] = b  PROVE FALSE
      OBVIOUS
    <3>2. arena_of[x] = arena_of[b] /\ pos[x] = pos[b] + 1
      BY <1>1, <2>1, <2>2, <3>1 DEF Stacked
    <3>3. pos[x] < pos[b] /\ pos[x] \in Nat /\ pos[b] \in Nat
      BY <1>9, <2>1, <3>2
    <3> QED  BY <3>2, <3>3
  <2> QED  BY <1>1, <1>6, <2>1, <2>2 DEF Stacked
<1>11. ASSUME NEW x \in Working', NEW y \in Working', arena_of'[x] = arena_of'[y], x # y
       PROVE  pos[x] # pos[y] /\ (pos[x] < pos[y] => x \in waits')
  <2>1. x \in Working /\ y \in Working /\ y # b /\ arena_of[x] = arena_of[y]
    BY <1>6, <1>11
  <2>2. pos[x] # pos[y] /\ (pos[x] < pos[y] => x \in waits)
    BY <1>1, <1>11, <2>1 DEF Stacked
  <2>3. ASSUME pos[x] < pos[y]  PROVE x # c
    <3>1. SUFFICES ASSUME x = c  PROVE FALSE
      OBVIOUS
    <3>2. pos[y] < pos[b] /\ pos[y] \in Nat
      BY <1>4, <1>9, <2>1, <3>1
    <3>3. pos[c] < pos[y] /\ pos[c] \in Nat
      BY <1>4, <1>6, <2>3, <3>1
    <3> HIDE DEF c
    <3> QED  BY <1>4, <3>2, <3>3
  <2> QED  BY <2>2, <2>3
<1>12. Stacked(pos)'
  BY <1>10, <1>11 DEF Stacked
<1> QED  BY <1>4, <1>6, <1>7, <1>8, <1>12 DEF Stacks

(* Who dies is on top of a stack, or on none; an owner takes its arena      *)
(* along, and nobody is left in it.                                         *)
LEMMA DieStacks ==
    ASSUME ArenaInv, NEW a \in alive \ waits,
           alive' = alive \ {a}, caller' = [caller EXCEPT ![a] = None],
           arena_of' = [arena_of EXCEPT ![a] = None], base' = [base EXCEPT ![a] = FALSE],
           mapped' = IF base[a] THEN mapped \ {arena_of[a]} ELSE mapped,
           ~ misfreed', UNCHANGED waits
    PROVE  OwnersSound' /\ Stacks' /\ Working' = Working \ {a}
<1>1. PICK pos \in [Actors -> Nat] : Stacked(pos)
  BY DEF ArenaInv, Stacks
<1>2. /\ alive \subseteq Actors /\ arena_of \in [Actors -> Actors \cup {None}]
      /\ caller \in [Actors -> Actors \cup {None}]
      /\ base \in [Actors -> BOOLEAN] /\ waits \subseteq Working
  BY DEF ArenaInv, ArenaTypes, Stacks
<1>3. /\ a \in Actors /\ ~ base'[a] /\ caller'[a] = None
      /\ \A x \in Actors \ {a} : /\ arena_of'[x] = arena_of[x] /\ base'[x] = base[x]
                                 /\ caller'[x] = caller[x]
  BY <1>2
<1>4. Working' = Working \ {a} /\ Working \subseteq Actors
  BY <1>2, <1>3 DEF Working, Ended
<1>5. OwnersSound'
  <2>1. base[a] => arena_of[a] = a
    BY <1>3 DEF ArenaInv, OwnersSound
  <2>2. mapped' = { x \in alive' : base'[x] }
    BY <1>2, <1>3, <2>1 DEF ArenaInv, OwnersSound
  <2>3. \A x \in Actors : base'[x] => x \in alive' /\ arena_of'[x] = x /\ caller'[x] = None
    BY <1>3 DEF ArenaInv, OwnersSound
  <2>4. \A x \in Actors \ alive' : caller'[x] = None
    BY <1>3 DEF ArenaInv, OwnersSound
  <2> QED  BY <2>2, <2>3, <2>4 DEF ArenaInv, OwnersSound
<1>6. waits' \subseteq Working'
  BY <1>2, <1>4
<1>7. ASSUME a \in Working, NEW x \in Working, x # a, arena_of[x] = arena_of[a]
      PROVE  pos[x] < pos[a] /\ pos[x] \in Nat /\ pos[a] \in Nat /\ ~ base[a]
  <2>1. pos[x] < pos[a] /\ ~ base[a]
    BY <1>1, <1>2, <1>7, OnTop
  <2> QED  BY <1>3, <1>4, <2>1
<1>8. ASSUME NEW x \in Working'
      PROVE  /\ arena_of'[x] \in mapped'
             /\ base'[x] => pos[x] = 0
             /\ ~ base'[x] => /\ caller'[x] \in Working'
                              /\ arena_of'[caller'[x]] = arena_of'[x]
                              /\ pos[x] = pos[caller'[x]] + 1
  <2>1. /\ x \in Working /\ x # a /\ x \in Actors
        /\ arena_of'[x] = arena_of[x] /\ base'[x] = base[x] /\ caller'[x] = caller[x]
    BY <1>3, <1>4
  <2>2. arena_of[x] \in mapped /\ (base[x] => pos[x] = 0)
        /\ (~ base[x] => /\ caller[x] \in Working /\ arena_of[caller[x]] = arena_of[x]
                         /\ pos[x] = pos[caller[x]] + 1)
    BY <1>1, <2>1 DEF Stacked
  <2>3. base[a] => arena_of[x] # arena_of[a]
    <3>1. base[a] => a \in Working
      BY DEF Working, Ended
    <3> QED  BY <1>7, <2>1, <3>1
  <2>4. ASSUME ~ base[x]  PROVE caller[x] # a
    <3>1. SUFFICES ASSUME caller[x] = a  PROVE FALSE
      OBVIOUS
    <3>2. pos[x] < pos[a] /\ pos[x] \in Nat /\ pos[a] \in Nat
      BY <1>7, <2>1, <2>2, <2>4, <3>1
    <3> QED  BY <2>2, <2>4, <3>1, <3>2
  <2>5. ~ base[x] => caller[x] \in Actors \ {a}
    BY <1>4, <2>2, <2>4
  <2> QED  BY <1>3, <1>4, <2>1, <2>2, <2>3, <2>4, <2>5
<1>9. ASSUME NEW x \in Working', NEW y \in Working', arena_of'[x] = arena_of'[y], x # y
      PROVE  pos[x] # pos[y] /\ (pos[x] < pos[y] => x \in waits')
  <2>1. x \in Working /\ y \in Working /\ arena_of[x] = arena_of[y]
    BY <1>3, <1>4, <1>9
  <2> QED  BY <1>1, <1>9, <2>1 DEF Stacked
<1>10. Stacked(pos)'
  BY <1>8, <1>9 DEF Stacked
<1> QED  BY <1>4, <1>5, <1>6, <1>10 DEF Stacks

-----------------------------------------------------------------------------
(* Keeping a result: in a new variable, or over the last one.               *)
LEMMA KeepIs ==
    ASSUME ArenaAssumption, NEW vs \in Seq(Kept), Len(vs) <= MaxVars, NEW s \in Kept
    PROVE  /\ Keep(vs, s) \in Seq(Kept) /\ Len(Keep(vs, s)) <= MaxVars
           /\ \A t \in Range(Keep(vs, s)) : t = s \/ t \in Range(vs)
<1>1. MaxVars \in Nat \ {0} /\ Len(vs) \in Nat
  BY DEF ArenaAssumption
<1>2. CASE Len(vs) < MaxVars
  <2>1. Keep(vs, s) = Append(vs, s)
    BY <1>2 DEF Keep
  <2>2. /\ Append(vs, s) \in Seq(Kept) /\ Len(Append(vs, s)) = Len(vs) + 1
        /\ \A i \in 1 .. Len(vs) : Append(vs, s)[i] = vs[i]
        /\ Append(vs, s)[Len(vs) + 1] = s
    BY AppendProperties
  <2>3. ASSUME NEW i \in 1 .. Len(vs) + 1
        PROVE  Append(vs, s)[i] = s \/ Append(vs, s)[i] \in Range(vs)
    <3>1. i \in 1 .. Len(vs) \/ i = Len(vs) + 1
      BY <1>1
    <3>2. \A j \in 1 .. Len(vs) : vs[j] \in Range(vs)
      BY DEF Range
    <3> QED  BY <2>2, <3>1, <3>2
  <2>4. DOMAIN Append(vs, s) = 1 .. Len(vs) + 1
    BY <2>2
  <2>5. \A t \in Range(Append(vs, s)) : t = s \/ t \in Range(vs)
    BY <2>3, <2>4 DEF Range
  <2>6. Len(vs) + 1 <= MaxVars
    BY <1>1, <1>2
  <2> QED  BY <2>1, <2>2, <2>5, <2>6
<1>3. CASE ~ Len(vs) < MaxVars
  <2>1. Keep(vs, s) = [vs EXCEPT ![MaxVars] = s]
    BY <1>3 DEF Keep
  <2>2. [vs EXCEPT ![MaxVars] = s] \in Seq(Kept)
        /\ Len([vs EXCEPT ![MaxVars] = s]) = Len(vs)
    BY <1>1, <1>3
  <2>3. \A t \in Range([vs EXCEPT ![MaxVars] = s]) : t = s \/ t \in Range(vs)
    BY DEF Range
  <2> QED  BY <2>1, <2>2, <2>3
<1> QED  BY <1>2, <1>3

(* What an actor keeps are variables.                                       *)
LEMMA KeptOnes ==
    ASSUME ArenaTypes, NEW a \in Actors, NEW s \in Range(slots[a])
    PROVE  s \in Kept
<1>1. slots[a] \in Seq(Kept)
  BY DEF ArenaTypes
<1> QED  BY <1>1 DEF Range

(* The arenas as they are, and with one of them rewound.                    *)
LEMMA NowIs ==
    ASSUME ArenaAssumption, ArenaTypes
    PROVE  /\ Now \in Carved
           /\ Now.bump = bump /\ Now.data = data /\ Now.out = << >>
           /\ \A r \in Actors :
                 /\ Emptied(r) \in Carved
                 /\ Emptied(r).bump = [bump EXCEPT ![r] = 0]
                 /\ Emptied(r).data = data /\ Emptied(r).out = << >>
<1>1. /\ bump \in [Actors -> 0 .. Cap] /\ data \in Memory /\ << >> \in Seq(Kept)
      /\ 0 \in 0 .. Cap
  BY DEF ArenaTypes, ArenaAssumption
<1>2. Now = [bump |-> bump, data |-> data, out |-> << >>]
  BY DEF Now
<1>3. Now \in Carved
  BY <1>1, <1>2 DEF Carved
<1>4. ASSUME NEW r \in Actors
      PROVE  /\ Emptied(r) \in Carved
             /\ Emptied(r).bump = [bump EXCEPT ![r] = 0]
             /\ Emptied(r).data = data /\ Emptied(r).out = << >>
  <2>1. ASSUME NEW A, NEW b, A = Now
        PROVE  [A EXCEPT !.bump = b] = [bump |-> b, data |-> data, out |-> << >>]
    BY <2>1 DEF Now
  <2>2. Emptied(r) = [bump |-> [bump EXCEPT ![r] = 0], data |-> data, out |-> << >>]
    BY <2>1 DEF Emptied
  <2>3. [bump EXCEPT ![r] = 0] \in [Actors -> 0 .. Cap]
    BY <1>1
  <2>4. Emptied(r) \in Carved
    BY <1>1, <2>2, <2>3 DEF Carved
  <2> QED  BY <2>2, <2>4
<1> QED  BY <1>2, <1>3, <1>4

(* The invariant of what was kept, for a step that leaves what x uses below *)
(* its arena's cursor alone.                                                *)
LEMMA StaysUntouched ==
    ASSUME ArenaAssumption, ArenaInv, Untouched, bump' \in [Actors -> 0 .. Cap],
           NEW x \in Working, bump[arena_of[x]] <= bump'[arena_of[x]],
           \A c \in 0 .. bump[arena_of[x]] - 1 : data'[arena_of[x]][c] = data[arena_of[x]][c],
           NEW s \in Range(slots[x])
    PROVE  Sound(bump', data', arena_of[x], s)
<1>1. PICK pos \in [Actors -> Nat] : Stacked(pos)
  BY DEF ArenaInv, Stacks
<1>2. arena_of[x] \in Actors /\ x \in Actors
  <2>1. mapped \subseteq Actors /\ x \in Actors
    BY DEF ArenaInv, ArenaTypes, OwnersSound, Working
  <2> QED  BY <1>1, <2>1 DEF Stacked
<1>3. s \in Kept /\ Sound(bump, data, arena_of[x], s)
  BY <1>2, KeptOnes DEF ArenaInv, Untouched
<1>4. bump[arena_of[x]] \in 0 .. Cap /\ bump'[arena_of[x]] \in 0 .. Cap
  BY <1>2 DEF ArenaInv, ArenaTypes
<1> QED  BY <1>2, <1>3, <1>4, SoundKept

-----------------------------------------------------------------------------
(* No cursor goes back; or whose does is used by one actor at most.         *)
OnlyAlone ==
    \A r \in mapped : bump'[r] < bump[r] =>
        \A a, b \in { x \in alive : arena_of[x] = r /\ ~ Ended(x) } : a = b

(* A cursor that does not go back goes back under nobody.                   *)
LEMMA NotBack ==
    ASSUME ArenaInv, bump' \in [Actors -> 0 .. Cap], ArenaAssumption,
           \A r \in mapped : bump[r] <= bump'[r]
    PROVE  OnlyAlone
<1>1. \A r \in mapped : bump[r] \in 0 .. Cap /\ bump'[r] \in 0 .. Cap
  BY DEF ArenaInv, ArenaTypes, OwnersSound
<1>2. Cap \in Nat
  BY DEF ArenaAssumption
<1> QED  BY <1>1, <1>2 DEF OnlyAlone

(* A new tuple goes where the cursor is, or into the heap.                  *)
LEMMA AllocKeeps ==
    ASSUME ArenaAssumption, ArenaInv, NEW a \in Actors, Alloc(a)
    PROVE  ArenaInv' /\ OnlyAlone /\ (Untouched => Untouched')
<1> DEFINE r == arena_of[a]
<1>1. /\ CanRun(a)
      /\ UNCHANGED << alive, waits, caller, arena_of, base, mapped, misfreed >>
  BY DEF Alloc
<1>2. PICK len \in Lens, v \in Values :
          /\ bump' = Place(Now, r, len, v, v).bump
          /\ data' = Place(Now, r, len, v, v).data
          /\ slots' = [slots EXCEPT ![a] = Keep(@, Place(Now, r, len, v, v).out[1])]
  BY DEF Alloc
<1> DEFINE A == Place(Now, r, len, v, v)
           s == Placed(Now, r, len, v)
<1>3. r \in Actors /\ a \in Working
  BY <1>1, RunnerWorks
<1>4. ArenaTypes /\ OwnersSound /\ Stacks
  BY DEF ArenaInv
<1>5. /\ Now \in Carved /\ Now.bump = bump /\ Now.data = data /\ Now.out = << >>
      /\ v \in Contents
  BY <1>4, NowIs DEF Contents
<1>6. A \in Carved /\ s \in Kept /\ A.out = Append(Now.out, s)
  BY <1>3, <1>5, PlaceTypes
<1>7. /\ Now.bump[r] <= A.bump[r]
      /\ \A q \in Actors \ {r} : A.bump[q] = Now.bump[q] /\ A.data[q] = Now.data[q]
      /\ \A c \in 0 .. Now.bump[r] - 1 : A.data[r][c] = Now.data[r][c]
      /\ Sound(A.bump, A.data, r, s)
  BY <1>3, <1>5, PlaceAbove
<1> HIDE DEF A, s, r
<1>8. bump' = A.bump /\ data' = A.data /\ slots' = [slots EXCEPT ![a] = Keep(@, A.out[1])]
  BY <1>2 DEF A, r
<1>9. A.out[1] = s
  BY <1>5, <1>6
<1>10. slots[a] \in Seq(Kept) /\ Len(slots[a]) <= MaxVars
  BY <1>4 DEF ArenaTypes
<1>11. /\ Keep(slots[a], s) \in Seq(Kept) /\ Len(Keep(slots[a], s)) <= MaxVars
       /\ \A t \in Range(Keep(slots[a], s)) : t = s \/ t \in Range(slots[a])
  BY <1>6, <1>10, KeepIs
<1>12. /\ slots' \in [Actors -> Seq(Kept)] /\ slots'[a] = Keep(slots[a], s)
       /\ \A x \in Actors \ {a} : slots'[x] = slots[x]
  BY <1>4, <1>8, <1>9, <1>11 DEF ArenaTypes
<1>13. bump' \in [Actors -> 0 .. Cap] /\ data' \in Memory
  BY <1>6, <1>8 DEF Carved
<1>14. ArenaTypes'
  BY <1>1, <1>4, <1>11, <1>12, <1>13 DEF ArenaTypes
<1>15. ArenaInv'
  BY <1>1, <1>4, <1>14, SameStacks DEF ArenaInv
<1>16. ASSUME NEW q \in Actors
       PROVE  bump[q] <= bump'[q] /\ \A c \in 0 .. bump[q] - 1 : data'[q][c] = data[q][c]
  <2>1. bump[q] \in Int
    BY <1>4 DEF ArenaTypes
  <2> QED  BY <1>5, <1>7, <1>8, <2>1
<1>17. OnlyAlone
  BY <1>4, <1>13, <1>16, NotBack DEF OwnersSound, ArenaTypes
<1>18. ASSUME Untouched, NEW x \in Working, NEW t \in Range(slots'[x])
       PROVE  Sound(bump', data', arena_of[x], t)
  <2>1. x \in Actors
    BY <1>4 DEF Working, ArenaTypes
  <2>2. ASSUME t \in Range(slots[x])  PROVE Sound(bump', data', arena_of[x], t)
    <3>1. arena_of[x] \in Actors
      <4>1. PICK pos \in [Actors -> Nat] : Stacked(pos)
        BY <1>4 DEF Stacks
      <4> QED  BY <1>4, <4>1 DEF Stacked, OwnersSound, ArenaTypes
    <3> QED  BY <1>13, <1>16, <1>18, <2>2, <3>1, StaysUntouched
  <2>3. (x = a /\ t = s) \/ t \in Range(slots[x])
    BY <1>11, <1>12, <1>18, <2>1
  <2> QED  BY <1>7, <1>8, <2>2, <2>3 DEF r
<1>19. Untouched => Untouched'
  BY <1>1, <1>18 DEF Untouched, Working, Ended
<1> QED  BY <1>15, <1>17, <1>19

(* Who works does so in an arena that is allocated.                         *)
LEMMA WorksIn ==
    ASSUME ArenaInv, NEW x \in Working
    PROVE  x \in Actors /\ arena_of[x] \in mapped /\ arena_of[x] \in Actors
<1>1. PICK pos \in [Actors -> Nat] : Stacked(pos)
  BY DEF ArenaInv, Stacks
<1> QED  BY <1>1 DEF Stacked, ArenaInv, OwnersSound, ArenaTypes, Working

(* A synchronous child inherits the arena and gets its argument as it is.   *)
LEMMA CallKeeps ==
    ASSUME ArenaAssumption, ArenaInv, NEW a \in Actors, NEW b \in Actors, CallSync(a, b)
    PROVE  ArenaInv' /\ OnlyAlone /\ (Untouched => Untouched')
<1>1. /\ CanRun(a) /\ b \notin alive
      /\ alive' = alive \cup {b} /\ waits' = waits \cup {a}
      /\ caller' = [caller EXCEPT ![b] = a]
      /\ arena_of' = [arena_of EXCEPT ![b] = arena_of[a]] /\ base' = [base EXCEPT ![b] = FALSE]
      /\ UNCHANGED << bump, mapped, misfreed, data >>
  BY DEF CallSync, InheritedBase
<1>2. PICK s \in Range(slots[a]) : slots' = [slots EXCEPT ![b] = << s >>]
  BY DEF CallSync
<1>3. ArenaTypes /\ OwnersSound /\ Stacks
  BY DEF ArenaInv
<1>4. a \in Working /\ s \in Kept /\ arena_of[a] \in Actors /\ a # b
  BY <1>1, <1>3, RunnerWorks, KeptOnes DEF Working
<1>5. OwnersSound' /\ Stacks'
  BY <1>1, CallStacks
<1>6. << s >> \in Seq(Kept) /\ Range(<< s >>) = {s} /\ MaxVars \in Nat \ {0}
  BY <1>4 DEF ArenaAssumption, Range
<1>7. /\ slots' \in [Actors -> Seq(Kept)] /\ slots'[b] = << s >>
      /\ \A x \in Actors \ {b} : slots'[x] = slots[x]
  BY <1>2, <1>3, <1>6 DEF ArenaTypes
<1>8. \A x \in Actors : Len(slots'[x]) <= MaxVars
  <2>1. ASSUME NEW x \in Actors  PROVE Len(slots'[x]) <= MaxVars
    <3>1. CASE x = b
      <4>1. Len(slots'[x]) = 1
        BY <1>7, <3>1
      <4> QED  BY <1>6, <4>1
    <3>2. CASE x # b
      <4>1. Len(slots[x]) <= MaxVars
        BY <1>3 DEF ArenaTypes
      <4> QED  BY <1>7, <3>2, <4>1
    <3> QED  BY <3>1, <3>2
  <2> QED  BY <2>1
<1>9. ArenaTypes'
  BY <1>1, <1>3, <1>4, <1>7, <1>8 DEF ArenaTypes
<1>10. bump' \in [Actors -> 0 .. Cap] /\ \A r \in mapped : bump[r] <= bump'[r]
  <2>1. \A r \in mapped : bump[r] \in Int
    BY <1>3 DEF ArenaTypes, OwnersSound
  <2> QED  BY <1>1, <1>3, <2>1 DEF ArenaTypes
<1>11. ASSUME Untouched, NEW x \in Working', NEW t \in Range(slots'[x])
       PROVE  Sound(bump', data', arena_of'[x], t)
  <2>1. CASE x = b
    <3>1. t = s /\ arena_of'[x] = arena_of[a]
      BY <1>1, <1>3, <1>6, <1>7, <1>11, <2>1 DEF ArenaTypes
    <3>2. Sound(bump, data, arena_of[a], s)
      BY <1>4, <1>11 DEF Untouched
    <3> QED  BY <1>1, <3>1, <3>2
  <2>2. CASE x # b
    <3>1. x \in Working
      BY <1>1, <1>3, <2>2 DEF Working, Ended, ArenaTypes
    <3>2. x \in Actors \ {b}
      BY <1>3, <2>2, <3>1 DEF Working, ArenaTypes
    <3>3. t \in Range(slots[x]) /\ arena_of'[x] = arena_of[x]
      BY <1>1, <1>3, <1>7, <1>11, <3>2 DEF ArenaTypes
    <3> QED  BY <1>1, <1>11, <3>1, <3>3 DEF Untouched
  <2> QED  BY <2>1, <2>2
<1> QED  BY <1>5, <1>9, <1>10, <1>11, NotBack DEF ArenaInv, Untouched

(* The result of a ret-machine lies in the arena of its caller, too.        *)
LEMMA ReturnKeeps ==
    ASSUME ArenaAssumption, ArenaInv, NEW b \in Actors, Return(b)
    PROVE  ArenaInv' /\ OnlyAlone /\ (Untouched => Untouched')
<1> DEFINE c == caller[b]
<1>1. /\ CanRun(b) /\ caller[b] # None
      /\ waits' = waits \ {caller[b]} /\ caller' = [caller EXCEPT ![b] = None]
      /\ UNCHANGED << alive, arena_of, base, bump, mapped, misfreed, data >>
  BY DEF Return
<1>2. PICK s \in Range(slots[b]) :
          slots' = [slots EXCEPT ![c] = Keep(@, s), ![b] = << >>]
  BY DEF Return
<1>3. ArenaTypes /\ OwnersSound /\ Stacks
  BY DEF ArenaInv
<1>4. b \in Working /\ s \in Kept
  BY <1>1, <1>3, RunnerWorks, KeptOnes
<1>5. /\ OwnersSound' /\ Stacks' /\ Working' = Working \ {b}
      /\ c \in Working /\ arena_of[c] = arena_of[b]
  BY <1>1, ReturnStacks
<1>6. c \in Actors
  BY <1>5, WorksIn
<1> HIDE DEF c
<1>7. slots[c] \in Seq(Kept) /\ Len(slots[c]) <= MaxVars
  BY <1>3, <1>6 DEF ArenaTypes
<1>8. /\ Keep(slots[c], s) \in Seq(Kept) /\ Len(Keep(slots[c], s)) <= MaxVars
      /\ \A t \in Range(Keep(slots[c], s)) : t = s \/ t \in Range(slots[c])
  BY <1>4, <1>7, KeepIs
<1>9. /\ << >> \in Seq(Kept) /\ Len(<< >>) = 0 /\ MaxVars \in Nat
  BY DEF ArenaAssumption
<1>10. /\ slots' \in [Actors -> Seq(Kept)] /\ slots'[b] = << >>
       /\ \A x \in Actors \ {b} :
             slots'[x] = IF x = c THEN Keep(slots[c], s) ELSE slots[x]
  BY <1>2, <1>3, <1>6, <1>8, <1>9 DEF ArenaTypes
<1>11. \A x \in Actors : Len(slots'[x]) <= MaxVars
  <2>1. ASSUME NEW x \in Actors  PROVE Len(slots'[x]) <= MaxVars
    <3>1. CASE x = b
      BY <1>9, <1>10, <3>1
    <3>2. CASE x # b
      <4>1. Len(slots[x]) <= MaxVars
        BY <1>3 DEF ArenaTypes
      <4>2. slots'[x] = IF x = c THEN Keep(slots[c], s) ELSE slots[x]
        BY <1>10, <3>2
      <4> QED  BY <1>8, <4>1, <4>2
    <3> QED  BY <3>1, <3>2
  <2> QED  BY <2>1
<1>12. ArenaTypes'
  BY <1>1, <1>3, <1>10, <1>11 DEF ArenaTypes
<1>13. bump' \in [Actors -> 0 .. Cap] /\ \A r \in mapped : bump[r] <= bump'[r]
  <2>1. \A r \in mapped : bump[r] \in Int
    BY <1>3 DEF ArenaTypes, OwnersSound
  <2> QED  BY <1>1, <1>3, <2>1 DEF ArenaTypes
<1>14. ASSUME Untouched, NEW x \in Working', NEW t \in Range(slots'[x])
       PROVE  Sound(bump', data', arena_of'[x], t)
  <2>1. x \in Working /\ x \in Actors \ {b} /\ arena_of'[x] = arena_of[x]
    BY <1>1, <1>5, WorksIn
  <2>2. t \in Range(slots[x]) \/ (x = c /\ t = s)
    BY <1>8, <1>10, <1>14, <2>1
  <2>3. Sound(bump, data, arena_of[b], s)
    BY <1>4, <1>14 DEF Untouched
  <2> QED  BY <1>1, <1>5, <1>14, <2>1, <2>2, <2>3 DEF Untouched
<1> QED  BY <1>5, <1>12, <1>13, <1>14, NotBack DEF ArenaInv, Untouched

(* A message carries the word of a pointer; that is what leaves the arena.  *)
LEMMA SendKeeps ==
    ASSUME ArenaAssumption, ArenaInv, NEW a \in Actors, NEW b \in Actors, Send(a, b)
    PROVE  ArenaInv' /\ OnlyAlone /\ ("send" \notin Ops => FALSE)
<1>1. /\ CanRun(a) /\ b \in alive /\ "send" \in Ops
      /\ UNCHANGED << alive, waits, caller, arena_of, base, bump, mapped, misfreed, data >>
  BY DEF Send
<1>2. PICK s \in Range(slots[a]) : slots' = [slots EXCEPT ![b] = Keep(@, s)]
  BY DEF Send
<1>3. ArenaTypes /\ OwnersSound /\ Stacks
  BY DEF ArenaInv
<1>4. s \in Kept /\ slots[b] \in Seq(Kept) /\ Len(slots[b]) <= MaxVars
  BY <1>3, KeptOnes DEF ArenaTypes
<1>5. Keep(slots[b], s) \in Seq(Kept) /\ Len(Keep(slots[b], s)) <= MaxVars
  BY <1>4, KeepIs
<1>6. slots' \in [Actors -> Seq(Kept)] /\ \A x \in Actors : Len(slots'[x]) <= MaxVars
  BY <1>2, <1>3, <1>5 DEF ArenaTypes
<1>7. ArenaTypes'
  BY <1>1, <1>3, <1>6 DEF ArenaTypes
<1>8. bump' \in [Actors -> 0 .. Cap] /\ \A r \in mapped : bump[r] <= bump'[r]
  <2>1. \A r \in mapped : bump[r] \in Int
    BY <1>3 DEF ArenaTypes, OwnersSound
  <2> QED  BY <1>1, <1>3, <2>1 DEF ArenaTypes
<1>9. OwnersSound' /\ Stacks'
  BY <1>1, <1>3, SameStacks
<1> QED  BY <1>1, <1>7, <1>8, <1>9, NotBack DEF ArenaInv

(* A child of its own: its arena is recycled memory, its argument a copy.   *)
LEMMA SpawnKeeps ==
    ASSUME ArenaAssumption, ArenaInv, NEW a \in Actors, NEW b \in Actors, SpawnAsync(a, b)
    PROVE  ArenaInv' /\ OnlyAlone /\ (Untouched => Untouched')
<1>1. /\ CanRun(a) /\ b \notin alive \cup mapped
      /\ alive' = alive \cup {b} /\ mapped' = mapped \cup {b}
      /\ arena_of' = [arena_of EXCEPT ![b] = b] /\ base' = [base EXCEPT ![b] = TRUE]
      /\ UNCHANGED << waits, caller, misfreed >>
  BY DEF SpawnAsync
<1>2. PICK s0 \in Range(slots[a]) :
          /\ bump' = ArgCopied(b, s0).bump /\ data' = ArgCopied(b, s0).data
          /\ slots' = [slots EXCEPT ![b] = ArgCopied(b, s0).out]
  BY DEF SpawnAsync
<1> DEFINE A == ArgCopied(b, s0)
           s == Placed(Emptied(b), b, s0.ptr.len, s0.val)
<1>3. ArenaTypes /\ OwnersSound /\ Stacks
  BY DEF ArenaInv
<1>4. /\ a \in Working /\ s0 \in Kept
      /\ s0.ptr.len \in Lens /\ s0.val \in Values
  BY <1>1, <1>3, RunnerWorks, KeptOnes DEF Kept
<1>5. Read(data, s0) \in Contents /\ (Untouched => Read(data, s0) = s0.val)
  BY <1>3, <1>4, ReadIs DEF ArenaTypes, Untouched
<1>6. /\ Emptied(b) \in Carved /\ Emptied(b).bump = [bump EXCEPT ![b] = 0]
      /\ Emptied(b).data = data /\ Emptied(b).out = << >>
  BY <1>3, NowIs
<1>7. A = Place(Emptied(b), b, s0.ptr.len, Read(data, s0), s0.val)
  BY DEF ArgCopied
<1>8. A \in Carved /\ s \in Kept /\ A.out = Append(Emptied(b).out, s)
  BY <1>4, <1>5, <1>6, <1>7, PlaceTypes
<1>9. /\ \A q \in Actors \ {b} : /\ A.bump[q] = Emptied(b).bump[q]
                                 /\ A.data[q] = Emptied(b).data[q]
      /\ Read(data, s0) = s0.val => Sound(A.bump, A.data, b, s)
  <2> DEFINE E == Emptied(b)
             w == Read(data, s0)
             len == s0.ptr.len
             val == s0.val
  <2>1. E \in Carved /\ w \in Contents /\ len \in Lens /\ val \in Values
    BY <1>4, <1>5, <1>6
  <2>2. A = Place(E, b, len, w, val)
    BY <1>7
  <2> HIDE DEF E, w, len, val, A
  <2>3. /\ \A q \in Actors \ {b} : A.bump[q] = E.bump[q] /\ A.data[q] = E.data[q]
        /\ w = val => Sound(A.bump, A.data, b, Placed(E, b, len, val))
    BY <2>1, <2>2, PlaceAbove
  <2> QED  BY <2>3 DEF E, w, len, val
<1> HIDE DEF A, s
<1>10. A.out = << s >> /\ A.out \in Seq(Kept) /\ Len(A.out) = 1 /\ Range(A.out) = {s}
       /\ MaxVars \in Nat \ {0}
  <2>1. A.out = << s >>
    BY <1>6, <1>8
  <2>2. Len(A.out) = 1
    BY <2>1
  <2> QED  BY <1>8, <2>1, <2>2 DEF Carved, Range, ArenaAssumption
<1>11. bump' = A.bump /\ data' = A.data /\ slots' = [slots EXCEPT ![b] = A.out]
  BY <1>2 DEF A
<1>12. \A q \in Actors \ {b} : bump'[q] = bump[q] /\ data'[q] = data[q]
  BY <1>3, <1>6, <1>9, <1>11 DEF ArenaTypes
<1>13. /\ slots' \in [Actors -> Seq(Kept)] /\ slots'[b] = A.out
       /\ \A x \in Actors \ {b} : slots'[x] = slots[x]
  BY <1>3, <1>10, <1>11 DEF ArenaTypes
<1>14. ASSUME NEW x \in Actors  PROVE Len(slots'[x]) <= MaxVars
  <2>1. CASE x = b
    <3>1. Len(slots'[x]) = 1
      BY <1>10, <1>13, <2>1
    <3> QED  BY <1>10, <3>1
  <2>2. CASE x # b
    <3>1. Len(slots[x]) <= MaxVars
      BY <1>3 DEF ArenaTypes
    <3> QED  BY <1>13, <2>2, <3>1
  <2> QED  BY <2>1, <2>2
<1>15. bump' \in [Actors -> 0 .. Cap] /\ data' \in Memory
  BY <1>8, <1>11 DEF Carved
<1>16. ArenaTypes'
  BY <1>1, <1>3, <1>13, <1>14, <1>15 DEF ArenaTypes
<1>17. OwnersSound' /\ Stacks'
  BY <1>1, SpawnStacks
<1>18. \A r \in mapped : bump[r] <= bump'[r]
  <2>1. ASSUME NEW r \in mapped  PROVE bump[r] <= bump'[r]
    <3>1. r \in Actors \ {b}
      BY <1>1, <1>3 DEF OwnersSound, ArenaTypes
    <3>2. bump[r] \in Int
      BY <1>3, <3>1 DEF ArenaTypes
    <3> QED  BY <1>12, <3>1, <3>2
  <2> QED  BY <2>1
<1>19. ASSUME Untouched, NEW x \in Working', NEW t \in Range(slots'[x])
       PROVE  Sound(bump', data', arena_of'[x], t)
  <2>1. CASE x = b
    <3>1. t = s /\ arena_of'[x] = b
      BY <1>1, <1>3, <1>10, <1>13, <1>19, <2>1 DEF ArenaTypes
    <3> QED  BY <1>5, <1>9, <1>11, <1>19, <3>1
  <2>2. CASE x # b
    <3>1. x \in Working
      BY <1>1, <1>3, <2>2 DEF Working, Ended, ArenaTypes
    <3>2. x \in Actors \ {b} /\ arena_of[x] \in Actors \ {b}
      BY <1>1, <2>2, <3>1, WorksIn
    <3>3. t \in Range(slots[x]) /\ arena_of'[x] = arena_of[x]
      BY <1>1, <1>3, <1>13, <1>19, <3>2 DEF ArenaTypes
    <3>4. bump[arena_of[x]] \in Int
      BY <1>3, <3>2 DEF ArenaTypes
    <3>5. /\ bump[arena_of[x]] <= bump'[arena_of[x]]
          /\ \A c \in 0 .. bump[arena_of[x]] - 1 : data'[arena_of[x]][c] = data[arena_of[x]][c]
      BY <1>12, <3>2, <3>4
    <3> QED  BY <1>15, <1>19, <3>1, <3>3, <3>5, StaysUntouched
  <2> QED  BY <2>1, <2>2
<1> QED  BY <1>15, <1>16, <1>17, <1>18, <1>19, NotBack DEF ArenaInv, Untouched

(* self's arguments, and what it makes of them.                             *)
LEMMA SelfIs ==
    ASSUME ArenaAssumption, ArenaInv, NEW a \in Actors, CanRun(a),
           NEW args \in ArgLists(a), NEW A, A = SelfArgs(a, args)
    PROVE  /\ A \in Carved /\ Len(A.out) <= MaxVars
           /\ \A q \in Actors \ {arena_of[a]} : A.bump[q] = bump[q] /\ A.data[q] = data[q]
           /\ ~ base[a] => A.bump = bump /\ A.data = data
           /\ Untouched => \A s \in Range(A.out) : Sound(A.bump, A.data, arena_of[a], s)
<1>1. ArenaTypes /\ a \in Working /\ arena_of[a] \in Actors
  BY RunnerWorks DEF ArenaInv
<1>2. bump \in [Actors -> 0 .. Cap] /\ data \in Memory
  BY <1>1 DEF ArenaTypes
<1>3. PICK n \in 0 .. MaxVars : args \in [1 .. n -> Range(slots[a])]
  BY DEF ArgLists
<1>4. n \in Nat /\ MaxVars \in Nat
  BY DEF ArenaAssumption
<1>5. Range(slots[a]) \subseteq Kept
  BY <1>1, KeptOnes
<1>6. args \in Seq(Kept) /\ Len(args) = n
  <2>1. args \in [1 .. n -> Kept]
    BY <1>3, <1>5
  <2> QED  BY <1>4, <2>1
<1>7. Untouched => \A i \in 1 .. n : Sound(bump, data, arena_of[a], args[i])
  BY <1>1, <1>3 DEF Untouched
<1>8. CASE base[a]
  <2>1. A = Recopied(a, args)
    BY <1>8 DEF SelfArgs, Rewinds
  <2>2. /\ A \in Carved /\ Len(A.out) = Len(args)
        /\ \A q \in Actors \ {arena_of[a]} : A.bump[q] = bump[q] /\ A.data[q] = data[q]
        /\ (\A i \in 1 .. Len(args) : Read(data, args[i]) = args[i].val)
             => \A i \in 1 .. Len(args) : Sound(A.bump, A.data, arena_of[a], A.out[i])
    BY <1>1, <1>2, <1>6, <2>1, RecopyIs
  <2>3. Untouched => \A i \in 1 .. n : Read(data, args[i]) = args[i].val
    <3>1. \A i \in 1 .. n : args[i] \in Kept
      BY <1>6
    <3> QED  BY <1>2, <1>7, <3>1, ReadIs
  <2>4. DOMAIN A.out = 1 .. n
    <3>1. A.out \in Seq(Kept)
      BY <2>2 DEF Carved
    <3> QED  BY <1>6, <2>2, <3>1
  <2>5. Untouched => \A s \in Range(A.out) : Sound(A.bump, A.data, arena_of[a], s)
    BY <1>6, <2>2, <2>3, <2>4 DEF Range
  <2>6. Len(A.out) <= MaxVars
    BY <1>3, <1>4, <1>6, <2>2
  <2> QED  BY <1>8, <2>2, <2>5, <2>6
<1>9. CASE ~ base[a]
  <2>1. A = [Now EXCEPT !.out = args]
    BY <1>9 DEF SelfArgs, Rewinds
  <2>2. A = [bump |-> bump, data |-> data, out |-> args]
    <3>1. ASSUME NEW B, B = Now
          PROVE  [B EXCEPT !.out = args] = [bump |-> bump, data |-> data, out |-> args]
      BY <3>1 DEF Now
    <3> QED  BY <2>1, <3>1
  <2>3. A \in Carved
    BY <1>2, <1>6, <2>2 DEF Carved
  <2>4. Untouched => \A s \in Range(args) : Sound(bump, data, arena_of[a], s)
    BY <1>3, <1>7 DEF Range
  <2>5. Len(args) <= MaxVars
    BY <1>3, <1>4, <1>6
  <2> QED  BY <1>9, <2>2, <2>3, <2>4, <2>5
<1> QED  BY <1>8, <1>9

(* self rewinds the arena of the actor that owns it, which works alone.     *)
LEMMA SelfKeeps ==
    ASSUME ArenaAssumption, ArenaInv, NEW a \in Actors, Self(a)
    PROVE  ArenaInv' /\ OnlyAlone /\ (Untouched => Untouched')
<1>1. /\ CanRun(a)
      /\ UNCHANGED << alive, waits, caller, arena_of, base, mapped, misfreed >>
  BY DEF Self, SelfTo
<1>2. PICK args \in ArgLists(a) :
          /\ bump' = SelfArgs(a, args).bump /\ data' = SelfArgs(a, args).data
          /\ slots' = [slots EXCEPT ![a] = SelfArgs(a, args).out]
  BY DEF Self, SelfTo
<1> DEFINE A == SelfArgs(a, args)
<1>3. ArenaTypes /\ OwnersSound /\ Stacks
  BY DEF ArenaInv
<1>4. a \in Working /\ a \notin waits /\ arena_of[a] \in Actors
  BY <1>1, RunnerWorks
<1>5. /\ A \in Carved /\ Len(A.out) <= MaxVars
      /\ \A q \in Actors \ {arena_of[a]} : A.bump[q] = bump[q] /\ A.data[q] = data[q]
      /\ ~ base[a] => A.bump = bump /\ A.data = data
      /\ Untouched => \A s \in Range(A.out) : Sound(A.bump, A.data, arena_of[a], s)
  BY <1>1, SelfIs
<1> HIDE DEF A
<1>6. bump' = A.bump /\ data' = A.data /\ slots' = [slots EXCEPT ![a] = A.out]
  BY <1>2 DEF A
<1>7. bump' \in [Actors -> 0 .. Cap] /\ data' \in Memory /\ A.out \in Seq(Kept)
  BY <1>5, <1>6 DEF Carved
<1>8. /\ slots' \in [Actors -> Seq(Kept)] /\ slots'[a] = A.out
      /\ \A x \in Actors \ {a} : slots'[x] = slots[x]
  BY <1>3, <1>6, <1>7 DEF ArenaTypes
<1>9. \A x \in Actors : Len(slots'[x]) <= MaxVars
  BY <1>3, <1>5, <1>8 DEF ArenaTypes
<1>10. ArenaTypes'
  BY <1>1, <1>3, <1>7, <1>8, <1>9 DEF ArenaTypes
<1>11. ArenaInv'
  BY <1>1, <1>3, <1>10, SameStacks DEF ArenaInv
<1>12. base[a] => \A y \in Working : arena_of[y] = arena_of[a] => y = a
  BY <1>4, OwnerAlone
<1>13. OnlyAlone
  <2> SUFFICES ASSUME NEW r \in mapped, bump'[r] < bump[r]
               PROVE  \A x, y \in { z \in alive : arena_of[z] = r /\ ~ Ended(z) } : x = y
    BY DEF OnlyAlone
  <2>1. r \in Actors /\ bump[r] \in Int
    BY <1>3 DEF ArenaTypes, OwnersSound
  <2>2. r = arena_of[a] /\ base[a]
    BY <1>5, <1>6, <2>1
  <2> QED  BY <1>12, <2>2 DEF Working
<1>14. ASSUME Untouched, NEW x \in Working, NEW t \in Range(slots'[x])
       PROVE  Sound(bump', data', arena_of[x], t)
  <2>1. x \in Actors /\ arena_of[x] \in Actors
    BY WorksIn
  <2>2. CASE x = a
    BY <1>5, <1>6, <1>8, <1>14, <2>2
  <2>3. CASE x # a
    <3>1. bump'[arena_of[x]] = bump[arena_of[x]] /\ data'[arena_of[x]] = data[arena_of[x]]
      <4>1. CASE base[a]
        BY <1>5, <1>6, <1>12, <2>1, <2>3, <4>1
      <4>2. CASE ~ base[a]
        BY <1>5, <1>6, <4>2
      <4> QED  BY <4>1, <4>2
    <3>2. t \in Range(slots[x])
      BY <1>8, <1>14, <2>1, <2>3
    <3>3. bump[arena_of[x]] \in Int
      BY <1>3, <2>1 DEF ArenaTypes
    <3>4. /\ bump[arena_of[x]] <= bump'[arena_of[x]]
          /\ \A c \in 0 .. bump[arena_of[x]] - 1 : data'[arena_of[x]][c] = data[arena_of[x]][c]
      BY <3>1, <3>3
    <3> QED  BY <1>7, <1>14, <3>2, <3>4, StaysUntouched
  <2> QED  BY <2>2, <2>3
<1>15. Untouched => Untouched'
  BY <1>1, <1>14 DEF Untouched, Working, Ended
<1> QED  BY <1>11, <1>13, <1>15

(* The owner's death puts the cursor back to the start of the block, which  *)
(* is how the block can be freed; nobody works in it any more.              *)
LEMMA DieKeeps ==
    ASSUME ArenaAssumption, ArenaInv, NEW a \in Actors, Die(a)
    PROVE  ArenaInv' /\ OnlyAlone /\ (Untouched => Untouched')
<1>1. /\ a \in alive \ waits
      /\ IF base[a]
         THEN /\ bump' = [bump EXCEPT ![arena_of[a]] = 0]
              /\ mapped' = mapped \ {arena_of[a]}
              /\ misfreed' = (misfreed \/ bump'[arena_of[a]] # 0 \/ arena_of[a] \notin mapped)
         ELSE UNCHANGED << bump, mapped, misfreed >>
      /\ alive' = alive \ {a} /\ caller' = [caller EXCEPT ![a] = None]
      /\ arena_of' = [arena_of EXCEPT ![a] = None] /\ base' = [base EXCEPT ![a] = FALSE]
      /\ slots' = [slots EXCEPT ![a] = << >>]
      /\ UNCHANGED << waits, data >>
  BY DEF Die, Restored
<1>2. ArenaTypes /\ OwnersSound /\ Stacks
  BY DEF ArenaInv
<1>3. base[a] => arena_of[a] = a /\ a \in mapped /\ a \in Working
  BY <1>1, <1>2 DEF OwnersSound, Working, Ended
<1>4. /\ ~ base[a] => bump' = bump
      /\ base[a] => /\ bump' \in [Actors -> 0 .. Cap] /\ bump'[a] = 0
                    /\ \A q \in Actors \ {a} : bump'[q] = bump[q]
      /\ bump' \in [Actors -> 0 .. Cap]
  <2>1. bump \in [Actors -> 0 .. Cap] /\ 0 \in 0 .. Cap
    BY <1>2 DEF ArenaTypes, ArenaAssumption
  <2>2. CASE base[a]
    <3>1. bump' = [bump EXCEPT ![a] = 0]
      BY <1>1, <1>3, <2>2
    <3> QED  BY <2>1, <2>2, <3>1
  <2>3. CASE ~ base[a]
    BY <1>1, <2>1, <2>3
  <2> QED  BY <2>2, <2>3
<1>5. mapped' = (IF base[a] THEN mapped \ {arena_of[a]} ELSE mapped) /\ ~ misfreed'
  <2>1. ~ misfreed
    BY <1>2 DEF OwnersSound
  <2>2. CASE base[a]
    <3>1. ~ (misfreed \/ bump'[arena_of[a]] # 0 \/ arena_of[a] \notin mapped)
      BY <1>3, <1>4, <2>1, <2>2
    <3> QED  BY <1>1, <2>2, <3>1
  <2>3. CASE ~ base[a]
    BY <1>1, <2>1, <2>3
  <2> QED  BY <2>2, <2>3
<1>6. OwnersSound' /\ Stacks' /\ Working' = Working \ {a}
  BY <1>1, <1>5, DieStacks
<1>7. /\ slots' \in [Actors -> Seq(Kept)] /\ slots'[a] = << >>
      /\ \A x \in Actors \ {a} : slots'[x] = slots[x] /\ arena_of'[x] = arena_of[x]
  BY <1>1, <1>2 DEF ArenaTypes
<1>8. ASSUME NEW x \in Actors  PROVE Len(slots'[x]) <= MaxVars
  <2>1. CASE x = a
    <3>1. Len(slots'[x]) = 0 /\ MaxVars \in Nat
      BY <1>7, <2>1 DEF ArenaAssumption
    <3> QED  BY <3>1
  <2>2. CASE x # a
    <3>1. Len(slots[x]) <= MaxVars
      BY <1>2 DEF ArenaTypes
    <3> QED  BY <1>7, <2>2, <3>1
  <2> QED  BY <2>1, <2>2
<1>9. ArenaTypes'
  BY <1>1, <1>2, <1>4, <1>7, <1>8 DEF ArenaTypes
<1>10. base[a] => \A y \in Working : arena_of[y] = a => y = a
  BY <1>1, <1>3, OwnerAlone
<1>11. OnlyAlone
  <2> SUFFICES ASSUME NEW r \in mapped, bump'[r] < bump[r]
               PROVE  \A x, y \in { z \in alive : arena_of[z] = r /\ ~ Ended(z) } : x = y
    BY DEF OnlyAlone
  <2>1. r \in Actors /\ bump[r] \in Int
    BY <1>2 DEF ArenaTypes, OwnersSound
  <2>2. r = a /\ base[a]
    BY <1>4, <2>1
  <2> QED  BY <1>10, <2>2 DEF Working
<1>12. ASSUME Untouched, NEW x \in Working', NEW t \in Range(slots'[x])
       PROVE  Sound(bump', data', arena_of'[x], t)
  <2>1. x \in Working /\ x # a /\ x \in Actors /\ arena_of[x] \in Actors
    BY <1>6, WorksIn
  <2>2. bump'[arena_of[x]] = bump[arena_of[x]]
    BY <1>4, <1>10, <2>1
  <2>3. bump[arena_of[x]] \in Int
    BY <1>2, <2>1 DEF ArenaTypes
  <2>4. t \in Range(slots[x]) /\ arena_of'[x] = arena_of[x]
    BY <1>7, <1>12, <2>1
  <2>5. /\ bump[arena_of[x]] <= bump'[arena_of[x]]
        /\ \A c \in 0 .. bump[arena_of[x]] - 1 : data'[arena_of[x]][c] = data[arena_of[x]][c]
    BY <1>1, <2>2, <2>3
  <2> QED  BY <1>4, <1>12, <2>1, <2>4, <2>5, StaysUntouched
<1> QED  BY <1>6, <1>9, <1>11, <1>12 DEF ArenaInv, Untouched

-----------------------------------------------------------------------------
(* Only main lives, alone in its arena, and keeps nothing.                  *)
LEMMA ArenaInvInit == ArenaAssumption => (ArenaInit => ArenaInv /\ Untouched)
<1> SUFFICES ASSUME ArenaAssumption, ArenaInit  PROVE ArenaInv /\ Untouched
  OBVIOUS
<1>1. /\ Main \in Actors /\ Cap \in Nat \ {0} /\ MaxVars \in Nat \ {0}
      /\ None \notin Actors
  BY DEF ArenaAssumption
<1>2. ArenaTypes
  <2>1. data \in Memory
    BY <1>1 DEF ArenaInit, Memory, Contents
  <2>2. slots \in [Actors -> Seq(Kept)] /\ \A a \in Actors : Len(slots[a]) <= MaxVars
    <3>1. << >> \in Seq(Kept)
      OBVIOUS
    <3>2. \A a \in Actors : slots[a] = << >>
      BY DEF ArenaInit
    <3>3. \A a \in Actors : Len(slots[a]) = 0
      BY <3>2
    <3>4. \A a \in Actors : Len(slots[a]) <= MaxVars
      BY <1>1, <3>3
    <3> QED  BY <3>1, <3>4 DEF ArenaInit
  <2> QED  BY <1>1, <2>1, <2>2 DEF ArenaInit, ArenaTypes
<1>3. OwnersSound
  BY <1>1 DEF ArenaInit, OwnersSound
<1>4. Working = {Main} /\ base[Main] /\ arena_of[Main] = Main /\ waits = {}
  BY <1>1 DEF ArenaInit, Working, Ended
<1>5. Stacks
  <2>1. PICK pos \in [Actors -> Nat] : pos[Main] = 0
    <3>1. [a \in Actors |-> 0] \in [Actors -> Nat]
      OBVIOUS
    <3> QED  BY <1>1, <3>1
  <2>2. mapped = {Main}
    BY DEF ArenaInit
  <2>3. Stacked(pos)
    BY <1>4, <2>1, <2>2 DEF Stacked
  <2> QED  BY <1>4, <2>3 DEF Stacks
<1>6. Untouched
  <2>1. slots[Main] = << >>
    BY <1>1 DEF ArenaInit
  <2>2. Range(slots[Main]) = {}
    BY <2>1 DEF Range
  <2> QED  BY <1>4, <2>2 DEF Untouched
<1> QED  BY <1>2, <1>3, <1>5, <1>6 DEF ArenaInv

(* Every step keeps the invariant, takes a cursor back only under one actor *)
(* and, unless it is a send, leaves what is kept untouched.                 *)
LEMMA ArenaStep ==
    ASSUME ArenaAssumption, ArenaInv, [ArenaNext]_arenaVars
    PROVE  /\ ArenaInv' /\ [OnlyAlone]_arenaVars
           /\ "send" \notin Ops /\ Untouched => Untouched'
<1>1. CASE \E a \in Actors : Alloc(a)
  BY <1>1, AllocKeeps
<1>2. CASE \E a, b \in Actors : SpawnAsync(a, b)
  BY <1>2, SpawnKeeps
<1>3. CASE \E a, b \in Actors : CallSync(a, b)
  BY <1>3, CallKeeps
<1>4. CASE \E a \in Actors : Return(a)
  BY <1>4, ReturnKeeps
<1>5. CASE \E a \in Actors : Self(a)
  BY <1>5, SelfKeeps
<1>6. CASE \E a, b \in Actors : Send(a, b)
  BY <1>6, SendKeeps
<1>7. CASE \E a \in Actors : Die(a)
  BY <1>7, DieKeeps
<1>8. CASE UNCHANGED arenaVars
  <2>1. ArenaTypes'
    BY <1>8 DEF arenaVars, ArenaInv, ArenaTypes
  <2>2. OwnersSound' /\ Stacks'
    BY <1>8, SameStacks DEF arenaVars, ArenaInv
  <2>3. Untouched => Untouched'
    BY <1>8 DEF arenaVars, Untouched, Working, Ended
  <2> QED  BY <1>8, <2>1, <2>2, <2>3 DEF ArenaInv
<1> QED  BY <1>1, <1>2, <1>3, <1>4, <1>5, <1>6, <1>7, <1>8 DEF ArenaNext

(* The invariant holds, for every number of actors and every size of arena. *)
THEOREM ArenaInvariant ==
    ASSUME ArenaAssumption
    PROVE  ArenaSpec => []ArenaInv
<1>1. ArenaInit => ArenaInv
  BY ArenaInvInit
<1>2. ArenaInv /\ [ArenaNext]_arenaVars => ArenaInv'
  BY ArenaStep
<1> QED  BY <1>1, <1>2, PTL DEF ArenaSpec

(* An arena is allocated exactly as long as its owner lives, nobody who has *)
(* blocks to run works in one that was given back, nobody shares the one it *)
(* owns with another owner, and every block is freed by its own start: for  *)
(* any nesting of synchronous calls, asynchronous spawns and deaths.        *)
THEOREM ArenasAlwaysExact ==
    ASSUME ArenaAssumption
    PROVE  ArenaSpec => []ArenasExact
<1>1. ArenaInv => ArenasExact
  <2> SUFFICES ASSUME ArenaInv  PROVE ArenasExact
    OBVIOUS
  <2>1. ArenaTypes /\ OwnersSound /\ waits \subseteq Working
    BY DEF ArenaInv, Stacks
  <2>2. \A a \in Actors : \A s \in Range(slots[a]) :
            s.ptr.reg # Heap => Cells(s.ptr) \subseteq 0 .. Cap - 1
    BY <2>1, KeptOnes, CellsInside
  <2>3. ArenaTypeOK
    BY <2>1, <2>2 DEF ArenaTypeOK, ArenaTypes, OwnersSound, Working
  <2>4. mapped = { arena_of[a] : a \in { x \in alive : base[x] } }
    BY <2>1 DEF OwnersSound, ArenaTypes
  <2>5. \A a \in alive : ~ Ended(a) => arena_of[a] \in mapped
    BY WorksIn DEF Working
  <2>6. \A a, b \in alive : a # b /\ base[a] /\ base[b] => arena_of[a] # arena_of[b]
    BY <2>1 DEF OwnersSound, ArenaTypes
  <2>7. ArenasMatchOwners
    BY <2>1, <2>4, <2>5, <2>6 DEF ArenasMatchOwners, OwnersSound
  <2> QED  BY <2>3, <2>7 DEF ArenasExact
<1>2. ArenaSpec => []ArenaInv
  BY ArenaInvariant
<1> QED  BY <1>1, <1>2, PTL

(* The cursor of an arena goes back only when one actor at most works in    *)
(* it: self() never rewinds under a synchronous child, nor a child under    *)
(* its caller, and an owner that dies leaves nobody behind.                 *)
THEOREM RewoundOnlyAlone ==
    ASSUME ArenaAssumption
    PROVE  ArenaSpec => RewoundAlone
<1>1. ArenaInv /\ [ArenaNext]_arenaVars
        => [ \A r \in mapped : bump'[r] < bump[r] =>
                \A a, b \in { x \in alive : arena_of[x] = r /\ ~ Ended(x) } : a = b ]_arenaVars
  BY ArenaStep DEF OnlyAlone
<1>2. ArenaSpec => []ArenaInv
  BY ArenaInvariant
<1> QED  BY <1>1, <1>2, PTL DEF ArenaSpec, RewoundAlone

(* As long as no pointer travels in a message, what an actor keeps is what  *)
(* it was given: no argument, result or local is overwritten by what the    *)
(* actor, its children or its next iterations put in the arena.  (With      *)
(* messages it is not so: a pointer may outlive the arena it points into.)  *)
THEOREM ArgumentsStayIntact ==
    ASSUME ArenaAssumption, "send" \notin Ops
    PROVE  ArenaSpec => []ArgsIntact
<1>1. ArenaInit => Untouched
  BY ArenaInvInit
<1>2. ArenaInv /\ Untouched /\ [ArenaNext]_arenaVars => Untouched'
  BY ArenaStep
<1>3. ArenaSpec => []ArenaInv
  BY ArenaInvariant
<1>4. ArenaInv /\ Untouched => ArgsIntact
  <2> SUFFICES ASSUME ArenaInv, Untouched, NEW a \in alive, ~ Ended(a),
                      NEW s \in Range(slots[a])
               PROVE  Read(data, s) = s.val
    BY DEF ArgsIntact
  <2>1. a \in Working /\ a \in Actors /\ data \in Memory
    BY DEF Working, ArenaInv, ArenaTypes
  <2>2. s \in Kept /\ Sound(bump, data, arena_of[a], s)
    BY <2>1, KeptOnes DEF ArenaInv, Untouched
  <2> QED  BY <2>1, <2>2, ReadIs
<1> QED  BY <1>1, <1>2, <1>3, <1>4, PTL DEF ArenaSpec

-----------------------------------------------------------------------------
(***************************************************************************)
(* Scratch buffers, for every number of actors, blocks, buffers and slots:  *)
(* a buffer is long enough and its actor's alone, unless it is no buffer at *)
(* all but a word some other use of the block left in the ring.             *)
(***************************************************************************)
Pointers == Nat \cup {Bytes}
ScratchTypes ==
    /\ unborn \subseteq Owners
    /\ ctx \in [Owners -> Blocks \cup {NoCtx}]
    /\ free \in Seq(Blocks)
    /\ ring \in [Blocks -> [Slots -> [ptr : Pointers, cap : Nat]]]
    /\ bufs \in Seq(Nat)
    /\ holds \in [Owners -> SUBSET [buf : Pointers, size : Nat, slot : Slots]]

(* A block is the exec_ctx of one living actor, or once in the free list.   *)
BlocksOwned ==
    /\ \A a \in unborn : ctx[a] = NoCtx
    /\ \A a \in Owners : ctx[a] = NoCtx => holds[a] = {}
    /\ \A a, b \in Owners : ctx[a] = ctx[b] /\ ctx[a] # NoCtx => a = b
    /\ \A i, j \in 1 .. Len(free) : free[i] = free[j] => i = j
    /\ \A i \in 1 .. Len(free), a \in Owners : ctx[a] # free[i]

(* A pointer in a ring is null, a leftover, or a buffer at least as long as *)
(* the slot says, which no other slot of any ring has.                      *)
RingsSound ==
    /\ \A b \in Blocks, s \in Slots : ring[b][s].ptr \in Nat \ {0} =>
           /\ ring[b][s].ptr <= Len(bufs)
           /\ bufs[ring[b][s].ptr] >= ring[b][s].cap
    /\ \A b, c \in Blocks, s, t \in Slots :
           ring[b][s].ptr = ring[c][t].ptr /\ ring[b][s].ptr \in Nat \ {0} =>
               b = c /\ s = t

(* A buffer an actor was given is long enough; only its own ring may still  *)
(* have it, and no other actor was given it.                                *)
HoldsSound ==
    /\ \A a \in Owners : \A h \in holds[a] : h.buf # Bytes =>
           /\ h.buf \in 1 .. Len(bufs) /\ bufs[h.buf] >= h.size
           /\ \A b \in Blocks, s \in Slots : ring[b][s].ptr = h.buf => b = ctx[a]
    /\ \A a, b \in Owners : \A h \in holds[a], k \in holds[b] :
           a # b /\ h.buf # Bytes => h.buf # k.buf

ScratchInv == ScratchTypes /\ BlocksOwned /\ RingsSound /\ HoldsSound

-----------------------------------------------------------------------------
(* What the free list has at its head and behind.                           *)
LEMMA ListFacts ==
    ASSUME NEW S, NEW q \in Seq(S)
    PROVE  /\ Len(q) \in Nat /\ q = << >> <=> Len(q) = 0
           /\ \A i \in 1 .. Len(q) : q[i] \in S
           /\ q # << >> => /\ Head(q) = q[1] /\ 1 \in 1 .. Len(q)
                           /\ Tail(q) \in Seq(S) /\ Len(Tail(q)) = Len(q) - 1
                           /\ \A i \in 1 .. Len(q) - 1 : Tail(q)[i] = q[i + 1]
  OBVIOUS

(* At the start there is no block, no buffer and no holder.                 *)
LEMMA ScratchInvInit == ScratchInit => ScratchInv
<1> SUFFICES ASSUME ScratchInit  PROVE ScratchInv
  OBVIOUS
<1>1. SCRATCH_SLOTS \in Nat \ {0} /\ NoCtx \notin Blocks /\ Bytes \notin Nat
  BY ScratchAssumption
<1>2. ScratchTypes
  BY <1>1 DEF ScratchInit, ScratchTypes, Empty, Pointers
<1>3. /\ free = << >> /\ \A a \in Owners : ctx[a] = NoCtx /\ holds[a] = {}
      /\ unborn = Owners
      /\ \A b \in Blocks, s \in Slots : ring[b][s].ptr = 0
  BY DEF ScratchInit, Empty
<1>4. BlocksOwned /\ RingsSound /\ HoldsSound
  BY <1>3 DEF BlocksOwned, RingsSound, HoldsSound
<1> QED  BY <1>2, <1>4 DEF ScratchInv

(* A new actor gets a block of the free list, or one that was never used;   *)
(* its ring is as the block's last owner left it.                           *)
LEMMA ScratchSpawnKeeps ==
    ASSUME ScratchInv, NEW a \in Owners, Spawn(a)
    PROVE  ScratchInv'
<1>1. ScratchTypes /\ BlocksOwned /\ RingsSound /\ HoldsSound
  BY DEF ScratchInv
<1>2. /\ a \in unborn /\ unborn' = unborn \ {a} /\ ring' = ring /\ bufs' = bufs /\ holds' = holds
      /\ ctx[a] = NoCtx /\ holds[a] = {} /\ NoCtx \notin Blocks
  BY <1>1, ScratchAssumption DEF Spawn, BlocksOwned
<1>3. ctx \in [Owners -> Blocks \cup {NoCtx}] /\ free \in Seq(Blocks)
  BY <1>1 DEF ScratchTypes
<1>4. PICK b \in Blocks :
          /\ ctx' = [ctx EXCEPT ![a] = b]
          /\ \A c \in Owners : ctx[c] # b
          /\ \A i \in 1 .. Len(free') : free'[i] # b
          /\ free' \in Seq(Blocks)
          /\ \A i, j \in 1 .. Len(free') : free'[i] = free'[j] => i = j
          /\ \A i \in 1 .. Len(free'), c \in Owners : ctx[c] # free'[i]
  <2>1. CASE free # << >> /\ ctx' = [ctx EXCEPT ![a] = Head(free)] /\ free' = Tail(free)
    <3>1. /\ Len(free) \in Nat /\ Head(free) = free[1] /\ 1 \in 1 .. Len(free)
          /\ free' \in Seq(Blocks) /\ Len(free') = Len(free) - 1 /\ free[1] \in Blocks
          /\ \A i \in 1 .. Len(free) - 1 : free'[i] = free[i + 1]
      BY <1>3, <2>1, ListFacts
    <3>2. \A i \in 1 .. Len(free') : /\ i + 1 \in 1 .. Len(free) /\ free'[i] = free[i + 1]
                                     /\ i + 1 # 1
      BY <3>1
    <3>3. \A i, j \in 1 .. Len(free') : free'[i] = free'[j] => i = j
      <4> TAKE i, j \in 1 .. Len(free')
      <4> HAVE free'[i] = free'[j]
      <4>1. i + 1 = j + 1
        BY <1>1, <3>2 DEF BlocksOwned
      <4> QED  BY <3>1, <4>1
    <3>4. \A i \in 1 .. Len(free') : free'[i] # free[1]
      BY <1>1, <3>1, <3>2 DEF BlocksOwned
    <3>5. \A c \in Owners : ctx[c] # free[1]
      BY <1>1, <3>1 DEF BlocksOwned
    <3>6. \A i \in 1 .. Len(free'), c \in Owners : ctx[c] # free'[i]
      BY <1>1, <3>2 DEF BlocksOwned
    <3>7. ctx' = [ctx EXCEPT ![a] = free[1]]
      BY <2>1, <3>1
    <3> QED  BY <3>1, <3>3, <3>4, <3>5, <3>6, <3>7
  <2>2. CASE free = << >> /\ free' = free /\ \E b \in Fresh : ctx' = [ctx EXCEPT ![a] = b]
    <3>1. PICK b \in Fresh : ctx' = [ctx EXCEPT ![a] = b]
      BY <2>2
    <3>2. b \in Blocks /\ \A c \in Owners : ctx[c] # b
      BY <1>2 DEF Fresh, Living
    <3>3. Len(free') = 0 /\ free' \in Seq(Blocks)
      BY <1>3, <2>2
    <3>4. 1 .. Len(free') = {}
      BY <3>3
    <3> QED  BY <3>1, <3>2, <3>3, <3>4
  <2> QED  BY <2>1, <2>2 DEF Spawn
<1>5. \A c \in Owners : ctx'[c] = IF c = a THEN b ELSE ctx[c]
  BY <1>3, <1>4
<1>6. ScratchTypes'
  BY <1>1, <1>2, <1>4 DEF ScratchTypes
<1>7. BlocksOwned'
  <2>1. \A c \in unborn' : ctx'[c] = NoCtx
    BY <1>1, <1>2, <1>5 DEF BlocksOwned, ScratchTypes
  <2>2. \A c \in Owners : ctx'[c] = NoCtx => holds'[c] = {}
    BY <1>1, <1>2, <1>5 DEF BlocksOwned
  <2>3. \A c, d \in Owners : ctx'[c] = ctx'[d] /\ ctx'[c] # NoCtx => c = d
    BY <1>1, <1>4, <1>5 DEF BlocksOwned
  <2>4. \A i \in 1 .. Len(free'), c \in Owners : ctx'[c] # free'[i]
    BY <1>4, <1>5
  <2> QED  BY <1>4, <2>1, <2>2, <2>3, <2>4 DEF BlocksOwned
<1>8. RingsSound'
  BY <1>1, <1>2 DEF RingsSound
<1>9. HoldsSound'
  <2>1. \A c \in Owners : \A h \in holds[c] : ctx'[c] = ctx[c]
    BY <1>2, <1>5
  <2> QED  BY <1>1, <1>2, <2>1 DEF HoldsSound
<1> QED  BY <1>6, <1>7, <1>8, <1>9 DEF ScratchInv

(* A dead actor's block goes to the free list, its ring untouched.          *)
LEMMA FreeCtxKeeps ==
    ASSUME ScratchInv, NEW a \in Owners, FreeCtx(a)
    PROVE  ScratchInv'
<1>1. ScratchTypes /\ BlocksOwned /\ RingsSound /\ HoldsSound /\ NoCtx \notin Blocks
  BY ScratchAssumption DEF ScratchInv
<1>2. /\ ctx[a] # NoCtx /\ free' = << ctx[a] >> \o free
      /\ ctx' = [ctx EXCEPT ![a] = NoCtx] /\ holds' = [holds EXCEPT ![a] = {}]
      /\ unborn' = unborn /\ ring' = ring /\ bufs' = bufs
  BY DEF FreeCtx, Living
<1>3. ctx \in [Owners -> Blocks \cup {NoCtx}] /\ free \in Seq(Blocks) /\ ctx[a] \in Blocks
  BY <1>1, <1>2 DEF ScratchTypes
<1>4. /\ \A c \in Owners : ctx'[c] = IF c = a THEN NoCtx ELSE ctx[c]
      /\ \A c \in Owners : holds'[c] = IF c = a THEN {} ELSE holds[c]
  BY <1>1, <1>2, <1>3 DEF ScratchTypes
<1>5. /\ free' \in Seq(Blocks) /\ Len(free) \in Nat /\ Len(free') = Len(free) + 1
      /\ free'[1] = ctx[a] /\ \A i \in 1 .. Len(free') : i # 1 =>
                                  i - 1 \in 1 .. Len(free) /\ free'[i] = free[i - 1]
  BY <1>2, <1>3
<1>6. ScratchTypes'
  BY <1>1, <1>2, <1>5 DEF ScratchTypes
<1>7. BlocksOwned'
  <2>1. \A c \in unborn' : ctx'[c] = NoCtx
    BY <1>1, <1>2, <1>4 DEF BlocksOwned, ScratchTypes
  <2>2. \A c, d \in Owners : ctx'[c] = ctx'[d] /\ ctx'[c] # NoCtx => c = d
    BY <1>1, <1>4 DEF BlocksOwned
  <2>3. \A i, j \in 1 .. Len(free') : free'[i] = free'[j] => i = j
    <3> TAKE i, j \in 1 .. Len(free')
    <3> HAVE free'[i] = free'[j]
    <3>1. CASE i = 1 /\ j = 1
      BY <3>1
    <3>2. CASE (i = 1 /\ j # 1) \/ (i # 1 /\ j = 1)
      <4>1. \A k \in 1 .. Len(free') : k # 1 => free'[k] # ctx[a]
        BY <1>1, <1>5 DEF BlocksOwned
      <4> QED  BY <1>5, <3>2, <4>1
    <3>3. CASE i # 1 /\ j # 1
      <4>1. i - 1 = j - 1
        BY <1>1, <1>5, <3>3 DEF BlocksOwned
      <4> QED  BY <1>5, <4>1
    <3> QED  BY <3>1, <3>2, <3>3
  <2>4. \A i \in 1 .. Len(free'), c \in Owners : ctx'[c] # free'[i]
    <3> TAKE i \in 1 .. Len(free'), c \in Owners
    <3>1. CASE c = a
      <4>1. free'[i] \in Blocks
        BY <1>5
      <4> QED  BY <1>1, <1>4, <3>1, <4>1
    <3>2. CASE c # a
      BY <1>1, <1>2, <1>4, <1>5, <3>2 DEF BlocksOwned
    <3> QED  BY <3>1, <3>2
  <2>5. \A c \in Owners : ctx'[c] = NoCtx => holds'[c] = {}
    BY <1>1, <1>4 DEF BlocksOwned
  <2> QED  BY <2>1, <2>2, <2>3, <2>4, <2>5 DEF BlocksOwned
<1>8. RingsSound'
  BY <1>1, <1>2 DEF RingsSound
<1>9. HoldsSound'
  BY <1>1, <1>2, <1>4 DEF HoldsSound
<1> QED  BY <1>6, <1>7, <1>8, <1>9 DEF ScratchInv

(* Another use of a free block leaves no pointer to a buffer in it.         *)
LEMMA OtherUseKeeps ==
    ASSUME ScratchInv, OtherUse
    PROVE  ScratchInv'
<1>1. ScratchTypes /\ BlocksOwned /\ RingsSound /\ HoldsSound
  BY DEF ScratchInv
<1>2. PICK w \in OtherWords :
          /\ free # << >>
          /\ ring' = [ring EXCEPT ![Head(free)] =
                         [ t \in Slots |-> [ptr |-> w, cap |-> MaxBufs] ]]
          /\ unborn' = unborn /\ ctx' = ctx /\ free' = free /\ bufs' = bufs /\ holds' = holds
  BY DEF OtherUse
<1>3. w \in {0, Bytes} /\ MaxBufs \in Nat /\ Bytes \notin Nat
  BY ScratchAssumption
<1>4. Head(free) \in Blocks /\ ring \in [Blocks -> [Slots -> [ptr : Pointers, cap : Nat]]]
  <2>1. free \in Seq(Blocks)
    BY <1>1 DEF ScratchTypes
  <2>2. Head(free) = free[1] /\ free[1] \in Blocks
    BY <1>2, <2>1, ListFacts
  <2> QED  BY <1>1, <2>2 DEF ScratchTypes
<1>5. ring' \in [Blocks -> [Slots -> [ptr : Pointers, cap : Nat]]]
  BY <1>2, <1>3, <1>4 DEF Pointers
<1>6. \A b \in Blocks, s \in Slots : ring'[b][s] = ring[b][s] \/ ring'[b][s].ptr \in {0, Bytes}
  BY <1>2, <1>3, <1>4
<1>7. ScratchTypes' /\ BlocksOwned'
  BY <1>1, <1>2, <1>5 DEF ScratchTypes, BlocksOwned
<1>8. RingsSound'
  <2>1. \A b \in Blocks, s \in Slots :
            ring'[b][s].ptr \in Nat \ {0} => ring'[b][s] = ring[b][s]
    BY <1>3, <1>6
  <2> QED  BY <1>1, <1>2, <2>1 DEF RingsSound
<1>9. HoldsSound'
  <2>1. \A a \in Owners : \A h \in holds[a] : h.buf # Bytes =>
            \A b \in Blocks, s \in Slots : ring'[b][s].ptr = h.buf => ring[b][s].ptr = h.buf
    <3> SUFFICES ASSUME NEW a \in Owners, NEW h \in holds[a], h.buf # Bytes,
                        NEW b \in Blocks, NEW s \in Slots, ring'[b][s].ptr = h.buf
                 PROVE  ring[b][s].ptr = h.buf
      OBVIOUS
    <3>1. h.buf \in 1 .. Len(bufs) /\ h.buf # 0
      BY <1>1 DEF HoldsSound
    <3> QED  BY <1>6, <3>1
  <2> QED  BY <1>1, <1>2, <2>1 DEF HoldsSound
<1> QED  BY <1>7, <1>8, <1>9 DEF ScratchInv

(* rt_scratch_buf gives the buffer of the slot, or a new one that replaces  *)
(* it.                                                                      *)
LEMMA BufKeeps ==
    ASSUME ScratchInv, NEW a \in Owners, NEW size \in BufSizes, rt_scratch_buf(a, size)
    PROVE  ScratchInv'
<1> DEFINE c == ctx[a]  s == SlotOf(size)  slot == ring[c][s]  new == Len(bufs) + 1
           given(b) == [buf |-> b, size |-> size, slot |-> s]
<1>1. ScratchTypes /\ BlocksOwned /\ RingsSound /\ HoldsSound
  BY DEF ScratchInv
<1>2. /\ unborn' = unborn /\ ctx' = ctx /\ free' = free /\ c # NoCtx
  BY DEF rt_scratch_buf, Living
<1>3. size \in Nat /\ s \in Slots /\ Bytes \notin Nat /\ NoCtx \notin Blocks
  <2>1. SCRATCH_SLOTS \in Nat \ {0} /\ size \in Nat
    BY ScratchAssumption
  <2> QED  BY <2>1, ScratchAssumption DEF SlotOf, Slots
<1>4. /\ c \in Blocks /\ slot.ptr \in Pointers /\ slot.cap \in Nat
      /\ bufs \in Seq(Nat) /\ Len(bufs) \in Nat /\ new \in Nat \ {0}
      /\ ring \in [Blocks -> [Slots -> [ptr : Pointers, cap : Nat]]]
      /\ holds \in [Owners -> SUBSET [buf : Pointers, size : Nat, slot : Slots]]
  BY <1>1, <1>2, <1>3 DEF ScratchTypes
<1>5. ASSUME NEW b \in Pointers, holds' = [holds EXCEPT ![a] = @ \cup {given(b)}],
             ring' \in [Blocks -> [Slots -> [ptr : Pointers, cap : Nat]]],
             bufs' \in Seq(Nat)
      PROVE  ScratchTypes' /\ BlocksOwned'
  <2>1. given(b) \in [buf : Pointers, size : Nat, slot : Slots]
    BY <1>3
  <2>2. holds' \in [Owners -> SUBSET [buf : Pointers, size : Nat, slot : Slots]]
    BY <1>4, <1>5, <2>1
  <2>3. \A d \in Owners : ctx[d] = NoCtx => holds'[d] = holds[d]
    BY <1>2, <1>4, <1>5
  <2> HIDE DEF given
  <2> QED  BY <1>1, <1>2, <1>5, <2>2, <2>3 DEF ScratchTypes, BlocksOwned
<1>6. \A d \in Owners : d # a => ctx[d] # c
  BY <1>1, <1>2 DEF BlocksOwned
<1>7. CASE /\ Reuses(slot, size) /\ holds' = [holds EXCEPT ![a] = @ \cup {given(slot.ptr)}]
           /\ ring' = ring /\ bufs' = bufs
  <2>1. slot.ptr # 0 /\ slot.cap >= size
    BY <1>7 DEF Reuses
  <2>2. slot.ptr # Bytes =>
            /\ slot.ptr \in 1 .. Len(bufs) /\ bufs[slot.ptr] >= size
            /\ \A b \in Blocks, t \in Slots : ring[b][t].ptr = slot.ptr => b = c
    <3> SUFFICES ASSUME slot.ptr # Bytes
                 PROVE  /\ slot.ptr \in 1 .. Len(bufs) /\ bufs[slot.ptr] >= size
                        /\ \A b \in Blocks, t \in Slots : ring[b][t].ptr = slot.ptr => b = c
      OBVIOUS
    <3>1. slot.ptr \in Nat \ {0}
      BY <1>4, <2>1 DEF Pointers
    <3>2. /\ slot.ptr <= Len(bufs) /\ bufs[slot.ptr] >= slot.cap
          /\ \A b \in Blocks, t \in Slots : ring[b][t].ptr = slot.ptr => b = c
      BY <1>1, <1>3, <1>4, <3>1 DEF RingsSound
    <3>3. slot.ptr \in 1 .. Len(bufs) /\ bufs[slot.ptr] \in Nat
      BY <1>4, <3>1, <3>2
    <3> QED  BY <1>3, <1>4, <2>1, <3>2, <3>3
  <2>3. \A d \in Owners : \A h \in holds'[d] :
            h \in holds[d] \/ (d = a /\ h.buf = slot.ptr /\ h.size = size)
    BY <1>4, <1>7
  <2>4. \A d \in Owners : \A h \in holds[d] : h.buf = slot.ptr /\ h.buf # Bytes => d = a
    <3> SUFFICES ASSUME NEW d \in Owners, NEW h \in holds[d], h.buf = slot.ptr, h.buf # Bytes
                 PROVE  d = a
      OBVIOUS
    <3>1. \A b \in Blocks, t \in Slots : ring[b][t].ptr = h.buf => b = ctx[d]
      BY <1>1 DEF HoldsSound
    <3>2. ctx[d] = c
      BY <1>3, <1>4, <3>1
    <3> QED  BY <1>6, <3>2
  <2>5. HoldsSound'
    <3>1. ASSUME NEW d \in Owners, NEW h \in holds'[d], h.buf # Bytes
          PROVE  /\ h.buf \in 1 .. Len(bufs) /\ bufs[h.buf] >= h.size
                 /\ \A b \in Blocks, t \in Slots : ring[b][t].ptr = h.buf => b = ctx[d]
      BY <1>1, <2>2, <2>3, <3>1 DEF HoldsSound
    <3>2. ASSUME NEW d \in Owners, NEW e \in Owners, NEW h \in holds'[d], NEW k \in holds'[e],
                 d # e, h.buf # Bytes
          PROVE  h.buf # k.buf
      BY <1>1, <2>3, <2>4, <3>2 DEF HoldsSound
    <3> QED  BY <1>2, <1>7, <3>1, <3>2 DEF HoldsSound
  <2>6. RingsSound'
    BY <1>1, <1>7 DEF RingsSound
  <2>7. ScratchTypes' /\ BlocksOwned'
    BY <1>4, <1>5, <1>7
  <2> QED  BY <2>5, <2>6, <2>7 DEF ScratchInv
<1>8. CASE /\ bufs' = Append(bufs, size)
           /\ ring' = [ring EXCEPT ![c][s] = [ptr |-> new, cap |-> size]]
           /\ holds' = [holds EXCEPT ![a] = @ \cup {given(new)}]
  <2>1. /\ bufs' \in Seq(Nat) /\ Len(bufs') = new /\ bufs'[new] = size
        /\ \A i \in 1 .. Len(bufs) : i \in 1 .. Len(bufs') /\ bufs'[i] = bufs[i] /\ i # new
    BY <1>3, <1>4, <1>8
  <2>2. /\ \A b \in Blocks, t \in Slots : ring'[b][t] =
              IF b = c /\ t = s THEN [ptr |-> new, cap |-> size] ELSE ring[b][t]
        /\ ring' \in [Blocks -> [Slots -> [ptr : Pointers, cap : Nat]]]
    BY <1>3, <1>4, <1>8 DEF Pointers
  <2>3. \A b \in Blocks, t \in Slots : ring[b][t].ptr \in Nat \ {0} =>
            ring[b][t].ptr \in 1 .. Len(bufs) /\ ring[b][t].ptr # new
    BY <1>1, <1>4, <2>1 DEF RingsSound
  <2>4. RingsSound'
    <3>1. ASSUME NEW b \in Blocks, NEW t \in Slots, ring'[b][t].ptr \in Nat \ {0}
          PROVE  /\ ring'[b][t].ptr <= Len(bufs') /\ bufs'[ring'[b][t].ptr] >= ring'[b][t].cap
      <4>1. CASE b = c /\ t = s
        BY <1>3, <1>4, <2>1, <2>2, <4>1
      <4>2. CASE ~(b = c /\ t = s)
        <5>1. ring'[b][t] = ring[b][t]
          BY <2>2, <4>2
        <5>2. ring[b][t].ptr \in 1 .. Len(bufs) /\ bufs[ring[b][t].ptr] >= ring[b][t].cap
          BY <1>1, <2>3, <3>1, <5>1 DEF RingsSound
        <5> QED  BY <1>4, <2>1, <5>1, <5>2
      <4> QED  BY <4>1, <4>2
    <3>2. ASSUME NEW b \in Blocks, NEW d \in Blocks, NEW t \in Slots, NEW u \in Slots,
                 ring'[b][t].ptr = ring'[d][u].ptr, ring'[b][t].ptr \in Nat \ {0}
          PROVE  b = d /\ t = u
      <4>1. CASE b = c /\ t = s /\ ~(d = c /\ u = s)
        <5>1. ring'[b][t].ptr = new
          BY <2>2, <4>1
        <5>2. ring'[d][u] = ring[d][u]
          BY <2>2, <4>1
        <5>3. ring[d][u].ptr \in Nat \ {0} /\ ring[d][u].ptr = new
          BY <3>2, <5>1, <5>2
        <5> QED  BY <2>3, <5>3
      <4>2. CASE ~(b = c /\ t = s) /\ d = c /\ u = s
        <5>1. ring'[d][u].ptr = new
          BY <2>2, <4>2
        <5>2. ring'[b][t] = ring[b][t]
          BY <2>2, <4>2
        <5>3. ring[b][t].ptr \in Nat \ {0} /\ ring[b][t].ptr = new
          BY <3>2, <5>1, <5>2
        <5> QED  BY <2>3, <5>3
      <4>3. CASE ~(b = c /\ t = s) /\ ~(d = c /\ u = s)
        <5>1. ring'[b][t] = ring[b][t] /\ ring'[d][u] = ring[d][u]
          BY <2>2, <4>3
        <5> QED  BY <1>1, <3>2, <5>1 DEF RingsSound
      <4> QED  BY <4>1, <4>2, <4>3
    <3> QED  BY <3>1, <3>2 DEF RingsSound
  <2>5. \A d \in Owners : \A h \in holds'[d] :
            h \in holds[d] \/ (d = a /\ h.buf = new /\ h.size = size)
    BY <1>4, <1>8
  <2>6. \A d \in Owners : \A h \in holds[d] : h.buf # Bytes => h.buf \in 1 .. Len(bufs)
    BY <1>1 DEF HoldsSound
  <2>7. HoldsSound'
    <3>1. ASSUME NEW d \in Owners, NEW h \in holds'[d], h.buf # Bytes
          PROVE  /\ h.buf \in 1 .. Len(bufs') /\ bufs'[h.buf] >= h.size
                 /\ \A b \in Blocks, t \in Slots : ring'[b][t].ptr = h.buf => b = ctx[d]
      <4>1. CASE h \in holds[d]
        <5>1. /\ h.buf \in 1 .. Len(bufs) /\ bufs[h.buf] >= h.size
              /\ \A b \in Blocks, t \in Slots : ring[b][t].ptr = h.buf => b = ctx[d]
          BY <1>1, <3>1, <4>1 DEF HoldsSound
        <5>2. h.buf \in 1 .. Len(bufs') /\ bufs'[h.buf] = bufs[h.buf] /\ h.buf # new
          BY <2>1, <5>1
        <5>3. \A b \in Blocks, t \in Slots : ring'[b][t].ptr = h.buf => ring[b][t].ptr = h.buf
          <6> SUFFICES ASSUME NEW b \in Blocks, NEW t \in Slots, ring'[b][t].ptr = h.buf
                       PROVE  ring[b][t].ptr = h.buf
            OBVIOUS
          <6> HIDE DEF new
          <6> QED  BY <2>2, <5>2
        <5> HIDE DEF new
        <5> QED  BY <5>1, <5>2, <5>3
      <4>2. CASE d = a /\ h.buf = new /\ h.size = size
        <5>1. \A b \in Blocks, t \in Slots : ring'[b][t].ptr = new => b = c
          <6> SUFFICES ASSUME NEW b \in Blocks, NEW t \in Slots, ring'[b][t].ptr = new, b # c
                       PROVE  FALSE
            OBVIOUS
          <6>1. ring[b][t].ptr = new
            BY <2>2
          <6> QED  BY <1>4, <2>3, <6>1
        <5>2. new \in 1 .. Len(bufs') /\ bufs'[new] = size /\ ctx[a] = c /\ size \in Nat
          BY <1>3, <1>4, <2>1
        <5> HIDE DEF new, c
        <5> QED  BY <4>2, <5>1, <5>2
      <4> QED  BY <2>5, <4>1, <4>2
    <3>2. ASSUME NEW d \in Owners, NEW e \in Owners, NEW h \in holds'[d], NEW k \in holds'[e],
                 d # e, h.buf # Bytes
          PROVE  h.buf # k.buf
      <4>1. \A i \in 1 .. Len(bufs) : i # new /\ i # Bytes
        BY <1>3, <1>4
      <4>2. new # Bytes
        BY <1>3, <1>4
      <4> QED  BY <1>1, <2>5, <2>6, <3>2, <4>1, <4>2 DEF HoldsSound
    <3> QED  BY <1>2, <3>1, <3>2 DEF HoldsSound
  <2>8. ScratchTypes' /\ BlocksOwned'
    <3>1. new \in Pointers
      BY <1>4 DEF Pointers
    <3> QED  BY <1>5, <1>8, <2>1, <2>2, <3>1
  <2> QED  BY <2>4, <2>7, <2>8 DEF ScratchInv
<1> QED  BY <1>7, <1>8 DEF rt_scratch_buf, RingOf

(* The invariant of rings, blocks and holders.                              *)
THEOREM ScratchInvariant == ScratchSpec => []ScratchInv
<1>1. ScratchInit => ScratchInv
  BY ScratchInvInit
<1>2. ScratchInv /\ [ScratchNext]_scratchVars => ScratchInv'
  <2> SUFFICES ASSUME ScratchInv, [ScratchNext]_scratchVars  PROVE ScratchInv'
    OBVIOUS
  <2>1. CASE UNCHANGED scratchVars
    BY <2>1 DEF scratchVars, ScratchInv, ScratchTypes, BlocksOwned, RingsSound, HoldsSound
  <2> QED  BY <2>1, ScratchSpawnKeeps, FreeCtxKeeps, OtherUseKeeps, BufKeeps DEF ScratchNext
<1> QED  BY <1>1, <1>2, PTL DEF ScratchSpec

-----------------------------------------------------------------------------
(* Whatever pointer to a real buffer an actor was given, the buffer is long *)
(* enough and no other living actor has it, also when blocks of the size of *)
(* an exec_ctx serve other purposes.                                        *)
RealBuffersSound ==
    \A a \in Living : \A h \in holds[a] : h.buf # Bytes =>
        /\ h.buf \in DOMAIN bufs /\ bufs[h.buf] >= h.size
        /\ \A b \in Living : \A k \in holds[b] : a # b => h.buf # k.buf

(* rt_scratch_buf: a buffer it mapped itself is at least as long as was     *)
(* asked for, and no two living actors hold the same one, whatever the      *)
(* words of a block were used for before.                                   *)
THEOREM RealBuffersAlwaysSound == ScratchSpec => []RealBuffersSound
<1>1. ScratchInv => RealBuffersSound
  <2> SUFFICES ASSUME ScratchInv  PROVE RealBuffersSound
    OBVIOUS
  <2>1. DOMAIN bufs = 1 .. Len(bufs)
    BY DEF ScratchInv, ScratchTypes
  <2> QED  BY <2>1 DEF ScratchInv, HoldsSound, RealBuffersSound, Living
<1> QED  BY <1>1, ScratchInvariant, PTL

(* Where other uses of such a block leave zeroes only, a scratch buffer is  *)
(* always as long as it was asked to be and never shared by living actors.  *)
NoLeftovers ==
    /\ \A b \in Blocks, s \in Slots : ring[b][s].ptr # Bytes
    /\ \A a \in Owners : \A h \in holds[a] : h.buf # Bytes

(* rt_scratch_buf never trusts a leftover word and never hands a buffer to  *)
(* two actors, if the other uses of an exec_ctx block leave zeroes where    *)
(* the ring will be; ScratchStale shows what happens if they do not.        *)
THEOREM BuffersAlwaysSound ==
    ASSUME OtherWords \subseteq {0}
    PROVE  ScratchSpec => []BuffersSound
<1>1. ScratchInit => NoLeftovers
  BY ScratchAssumption DEF ScratchInit, NoLeftovers, Empty
<1>2. ScratchInv /\ NoLeftovers /\ [ScratchNext]_scratchVars => NoLeftovers'
  <2> SUFFICES ASSUME ScratchInv, NoLeftovers, [ScratchNext]_scratchVars  PROVE NoLeftovers'
    OBVIOUS
  <2>1. ScratchTypes /\ Bytes \notin Nat /\ SCRATCH_SLOTS \in Nat \ {0} /\ BufSizes \subseteq Nat \ {0}
    BY ScratchAssumption DEF ScratchInv
  <2>2. ASSUME NEW a \in Owners, Spawn(a)  PROVE NoLeftovers'
    BY <2>2 DEF Spawn, NoLeftovers
  <2>3. ASSUME NEW a \in Owners, FreeCtx(a)  PROVE NoLeftovers'
    BY <2>1, <2>3 DEF FreeCtx, NoLeftovers, ScratchTypes
  <2>4. CASE OtherUse
    <3>1. PICK w \in OtherWords :
              /\ ring' = [ring EXCEPT ![Head(free)] =
                             [ t \in Slots |-> [ptr |-> w, cap |-> MaxBufs] ]]
              /\ holds' = holds
      BY <2>4 DEF OtherUse
    <3>2. w # Bytes
      BY <2>1
    <3>3. \A b \in Blocks : ring'[b] = IF b = Head(free)
                                        THEN [ t \in Slots |-> [ptr |-> w, cap |-> MaxBufs] ]
                                        ELSE ring[b]
      BY <2>1, <3>1 DEF ScratchTypes
    <3>4. \A b \in Blocks, s \in Slots : ring'[b][s].ptr # Bytes
      BY <3>2, <3>3 DEF NoLeftovers
    <3> QED  BY <3>1, <3>4 DEF NoLeftovers
  <2>5. ASSUME NEW a \in Owners, NEW size \in BufSizes, rt_scratch_buf(a, size)
        PROVE  NoLeftovers'
    <3> DEFINE s == SlotOf(size)
    <3>1. ctx[a] \in Blocks /\ s \in Slots /\ Len(bufs) + 1 # Bytes
      <4>1. size \in Nat
        BY <2>1
      <4>2. s \in Slots
        BY <2>1, <4>1 DEF SlotOf, Slots
      <4>3. ctx[a] # NoCtx
        BY <2>5 DEF rt_scratch_buf, Living
      <4>4. ctx[a] \in Blocks /\ Len(bufs) \in Nat
        BY <2>1, <4>3 DEF ScratchTypes
      <4> QED  BY <2>1, <4>2, <4>4
    <3>2. PICK p : /\ p # Bytes
                   /\ holds' = [holds EXCEPT ![a] = @ \cup {[buf |-> p, size |-> size, slot |-> s]}]
                   /\ \/ ring' = ring
                      \/ ring' = [ring EXCEPT ![ctx[a]][s] = [ptr |-> p, cap |-> size]]
      BY <2>5, <3>1 DEF rt_scratch_buf, RingOf, NoLeftovers
    <3> HIDE DEF s
    <3>3. \A b \in Blocks, t \in Slots :
              ring'[b][t] = ring[b][t] \/ ring'[b][t] = [ptr |-> p, cap |-> size]
      <4>1. CASE ring' = ring
        BY <4>1
      <4>2. CASE ring' = [ring EXCEPT ![ctx[a]][s] = [ptr |-> p, cap |-> size]]
        <5>1. ring \in [Blocks -> [Slots -> [ptr : Pointers, cap : Nat]]]
          BY <2>1 DEF ScratchTypes
        <5> QED  BY <3>1, <4>2, <5>1
      <4> QED  BY <3>2, <4>1, <4>2
    <3>4. \A d \in Owners : \A h \in holds'[d] : h \in holds[d] \/ h.buf = p
      BY <2>1, <3>2 DEF ScratchTypes
    <3> QED  BY <3>2, <3>3, <3>4 DEF NoLeftovers
  <2>6. CASE UNCHANGED scratchVars
    BY <2>6 DEF scratchVars, NoLeftovers
  <2> QED  BY <2>2, <2>3, <2>4, <2>5, <2>6 DEF ScratchNext
<1>3. RealBuffersSound /\ NoLeftovers => BuffersSound
  BY DEF RealBuffersSound, NoLeftovers, BuffersSound, BufferHoldsRequest, BuffersPrivate, Living
<1> QED  BY <1>1, <1>2, <1>3, ScratchInvariant, RealBuffersAlwaysSound, PTL DEF ScratchSpec
=============================================================================
