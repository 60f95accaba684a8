--------------------------- MODULE Codegen_proofs ---------------------------
(***************************************************************************)
(* Guards: a call enters the branch its literal guards name, for every machine     *)
(* signature and every hash function: the compiler may dispatch through    *)
(* the one position it found best, by a chain of comparisons, a sorted     *)
(* switch or a perfect hash table, and reaches the same branch.            *)
(***************************************************************************)
EXTENDS Guards, Unroll, FiniteSetTheorems, FunctionTheorems, WellFoundedInduction, TLAPS

-----------------------------------------------------------------------------
(* Every nonempty set of numbers has a least one, which is its Least.       *)
LEMMA LeastOf ==
    ASSUME NEW T, T \subseteq Nat, T # {}
    PROVE  Least(T) \in T /\ \A y \in T : Least(T) <= y
<1> DEFINE R == OpToRel(<, Nat)
<1>1. IsWellFoundedOn(R, Nat)
  BY NatLessThanWellFounded
<1>2. \A x, y \in Nat : << x, y >> \in R <=> x < y
  BY DEF OpToRel
<1> HIDE DEF R
<1>3. PICK x \in T : \A y \in T : ~ << y, x >> \in R
  BY <1>1, WFMin
<1>4. ASSUME NEW y \in T  PROVE x <= y
  <2>1. x \in Nat /\ y \in Nat
    OBVIOUS
  <2>2. ~ y < x
    BY <1>2, <1>3, <2>1
  <2> QED  BY <2>1, <2>2
<1> QED  BY <1>3, <1>4 DEF Least

(* A nonempty set of numbers up to n has a greatest one.                    *)
LEMMA GreatestOf ==
    ASSUME NEW n \in Nat, NEW T, T \subseteq 0 .. n, T # {}
    PROVE  Greatest(T) \in T /\ \A y \in T : y <= Greatest(T)
<1> DEFINE U == { n - x : x \in T }
<1>1. U \subseteq Nat /\ U # {}
  <2>1. \A x \in T : x \in 0 .. n
    OBVIOUS
  <2>2. \A x \in 0 .. n : n - x \in Nat
    OBVIOUS
  <2> QED  BY <2>1, <2>2
<1>2. Least(U) \in U /\ \A u \in U : Least(U) <= u
  BY <1>1, LeastOf
<1>3. PICK x \in T : Least(U) = n - x
  BY <1>2
<1>4. \A y \in T : n - y \in U
  OBVIOUS
<1>5. \A y \in T : y <= x
  BY <1>2, <1>3, <1>4
<1> QED  BY <1>3, <1>5 DEF Greatest

-----------------------------------------------------------------------------
(* The branches of a machine: one literal of the signature, or none, in     *)
(* each position.                                                           *)
Guard(p) == sig[p] \cup {None}
Machine ==
    /\ sig \in Signatures
    /\ guards \in Seq([Positions -> UNION { sig[p] : p \in Positions } \cup {None}])
    /\ \A b \in Branches, p \in Positions : guards[b][p] \in Guard(p)

(* What the kinds of positions and literals say.                            *)
LEMMA MachineFacts ==
    ASSUME Machine
    PROVE  /\ Positions = 1 .. Len(sig) /\ Len(sig) \in Nat \ {0}
           /\ Branches = 1 .. Len(guards) /\ Len(guards) \in Nat
           /\ \A b \in Branches, p \in Positions :
                 guards[b][p] \in Ints \cup Strs \cup {None}
           /\ \A p \in Positions : sig[p] \subseteq Ints \cup Strs
<1>1. sig \in Seq(SUBSET (Ints \cup Strs)) /\ sig # << >>
  BY GuardAssumption DEF Machine
<1>2. Positions = 1 .. Len(sig) /\ Len(sig) \in Nat \ {0}
  BY <1>1 DEF Positions
<1>3. \A p \in Positions : sig[p] \subseteq Ints \cup Strs
  BY <1>1 DEF Positions
<1>4. Branches = 1 .. Len(guards) /\ Len(guards) \in Nat
  BY DEF Machine, Branches
<1> QED  BY <1>2, <1>3, <1>4 DEF Machine, Guard

(* A position has at most one literal for each branch, and as many only if  *)
(* every branch has one of its own.                                         *)
LEMMA LiteralsCounted ==
    ASSUME Machine, NEW p \in Positions
    PROVE  /\ IsFiniteSet(Literals(p))
           /\ Cardinality(Literals(p)) \in 0 .. Len(guards)
           /\ Cardinality(Literals(p)) = Len(guards)
                <=> /\ \A b \in Branches : guards[b][p] # None
                    /\ \A b, c \in Branches : guards[b][p] = guards[c][p] => b = c
<1> DEFINE B == { b \in Branches : guards[b][p] # None }
           f == [b \in B |-> guards[b][p]]
           Own == /\ \A b \in Branches : guards[b][p] # None
                  /\ \A b, c \in Branches : guards[b][p] = guards[c][p] => b = c
           n == Len(guards)
<1>1. Branches = 1 .. n /\ n \in Nat
  BY MachineFacts
<1>2. IsFiniteSet(Branches) /\ Cardinality(Branches) = n
  <2>1. \A k \in Nat : IF 1 > k THEN k = 0 ELSE k - 1 + 1 = k
    OBVIOUS
  <2>2. IsFiniteSet(1 .. n) /\ Cardinality(1 .. n) = IF 1 > n THEN 0 ELSE n - 1 + 1
    BY <1>1, FS_Interval
  <2> QED  BY <1>1, <2>1, <2>2
<1>3. /\ IsFiniteSet(B) /\ Cardinality(B) <= n
      /\ Cardinality(B) = n => B = Branches
  BY <1>2, FS_Subset
<1>4. f \in Surjection(B, Literals(p))
  BY Fun_IsSurj DEF Literals
<1>5. /\ IsFiniteSet(Literals(p))
      /\ Cardinality(Literals(p)) <= Cardinality(B)
      /\ Cardinality(Literals(p)) = Cardinality(B) <=> f \in Injection(B, Literals(p))
  BY <1>3, <1>4, FS_Surjection
<1>6. Cardinality(Literals(p)) \in Nat /\ Cardinality(B) \in Nat
  BY <1>3, <1>5, FS_CardinalityType
<1>7. Cardinality(Literals(p)) = n => Own
  <2> SUFFICES ASSUME Cardinality(Literals(p)) = n  PROVE Own
    OBVIOUS
  <2>1. Cardinality(B) = n
    BY <1>1, <1>3, <1>5, <1>6
  <2>2. B = Branches
    BY <1>3, <2>1
  <2>3. f \in Injection(B, Literals(p))
    BY <1>5, <2>1
  <2>4. \A b, c \in B : f[b] = f[c] => b = c
    BY <2>3 DEF Injection, IsInjective
  <2> QED  BY <2>2, <2>4
<1>8. Own => Cardinality(Literals(p)) = n
  <2> SUFFICES ASSUME Own  PROVE Cardinality(Literals(p)) = n
    OBVIOUS
  <2>1. B = Branches
    OBVIOUS
  <2>2. f \in Injection(B, Literals(p))
    BY <1>4, <2>1, Fun_IsInj DEF Surjection
  <2> QED  BY <1>2, <1>5, <2>1, <2>2
<1> QED  BY <1>1, <1>3, <1>5, <1>6, <1>7, <1>8

(* find_best_guard_pos finds a position no other has more literals than, if *)
(* any has one, and a position in any case.                                 *)
LEMMA BestPosition ==
    ASSUME Machine
    PROVE  /\ find_best_guard_pos \in Positions
           /\ \A p \in Positions :
                 Cardinality(Literals(p)) <= Cardinality(Literals(find_best_guard_pos))
           /\ \A p \in Positions :
                 Literals(p) # {} => Literals(find_best_guard_pos) # {}
<1> DEFINE Count(p) == Cardinality(Literals(p))
           Counts == { Count(p) : p \in Positions }
           Most == { p \in Positions : \A q \in Positions : Count(p) >= Count(q) }
<1>1. /\ Positions = 1 .. Len(sig) /\ Len(sig) \in Nat \ {0}
      /\ Len(guards) \in Nat
  BY MachineFacts
<1>2. \A p \in Positions : Count(p) \in 0 .. Len(guards)
  BY LiteralsCounted
<1>3. \A p \in Positions : Count(p) = 0 <=> Literals(p) = {}
  BY LiteralsCounted, FS_EmptySet
<1> HIDE DEF Count
<1>4. Counts \subseteq 0 .. Len(guards) /\ Counts # {}
  BY <1>1, <1>2
<1>5. Greatest(Counts) \in Counts /\ \A n \in Counts : n <= Greatest(Counts)
  BY <1>1, <1>4, GreatestOf
<1>6. PICK p \in Positions : Count(p) = Greatest(Counts)
  BY <1>5
<1>7. p \in Most
  BY <1>2, <1>4, <1>5, <1>6
<1>8. Least(Most) \in Most
  <2>1. Most \subseteq Nat /\ Most # {}
    BY <1>1, <1>7
  <2> HIDE DEF Most
  <2> QED  BY <2>1, LeastOf
<1>9. CASE Literals(Least(Most)) # {}
  <2>1. find_best_guard_pos = Least(Most)
    BY <1>9 DEF find_best_guard_pos, Count
  <2> QED  BY <1>2, <1>8, <1>9, <2>1 DEF Count
<1>10. CASE Literals(Least(Most)) = {}
  <2>1. Count(Least(Most)) = 0
    BY <1>3, <1>8, <1>10
  <2>2. \A q \in Positions : Count(q) = 0
    BY <1>2, <1>8, <2>1
  <2>3. \A q \in Positions : Literals(q) = {}
    BY <1>3, <2>2
  <2>4. \A b \in Branches : Guarded(b) = {}
    BY <2>3 DEF Guarded, Literals
  <2>5. find_best_guard_pos = 1
    BY <1>10, <2>4 DEF find_best_guard_pos, find_first_guard_pos, Count
  <2> QED  BY <1>1, <2>2, <2>3, <2>5 DEF Count
<1> QED  BY <1>9, <1>10

-----------------------------------------------------------------------------
(* A set of at most one element.                                            *)
LEMMA AtMostOne ==
    ASSUME NEW T, IsFiniteSet(T), Cardinality(T) <= 1, NEW x \in T, NEW y \in T
    PROVE  x = y
<1>1. Cardinality(T) \in Nat
  BY FS_CardinalityType
<1>2. Cardinality(T) # 0
  BY FS_EmptySet
<1>3. Cardinality(T) = 1
  BY <1>1, <1>2
<1>4. PICK z : T = {z}
  BY <1>3, FS_Singleton
<1> QED  BY <1>4

(* With literals in one position only, that is the best one.                *)
LEMMA OnlyBest ==
    ASSUME Machine, Cardinality(GuardedAt) <= 1, NEW b \in Branches
    PROVE  Guarded(b) \subseteq {find_best_guard_pos}
<1> SUFFICES ASSUME NEW p \in Guarded(b)  PROVE p = find_best_guard_pos
  OBVIOUS
<1>1. p \in Positions /\ Literals(p) # {}
  BY DEF Guarded, Literals
<1>2. find_best_guard_pos \in Positions /\ Literals(find_best_guard_pos) # {}
  BY <1>1, BestPosition
<1>3. IsFiniteSet(GuardedAt)
  <2>1. Positions = 1 .. Len(sig) /\ Len(sig) \in Nat
    BY MachineFacts
  <2>2. IsFiniteSet(Positions)
    BY <2>1, FS_Interval
  <2>3. GuardedAt \subseteq Positions
    BY DEF GuardedAt
  <2> QED  BY <2>2, <2>3, FS_Subset
<1>4. p \in GuardedAt /\ find_best_guard_pos \in GuardedAt
  BY <1>1, <1>2 DEF GuardedAt
<1> QED  BY <1>3, <1>4, AtMostOne

(* The kind of a dispatch is the kind of some literal at the best position, *)
(* and there is none at all if there is none there.                         *)
LEMMA KindOfLiteral ==
    ASSUME Machine
    PROVE  LET q == find_best_guard_pos IN
           /\ guard_kind \in {"Int", "Str", None}
           /\ guard_kind = "Str" => \E b \in Branches : guards[b][q] \in Strs
           /\ guard_kind # "Str" =>
                 \/ \A b \in Branches : guards[b][q] = None
                 \/ \E b \in Branches : guards[b][q] \in Ints
<1> DEFINE q == find_best_guard_pos
           at == { b \in Branches : guards[b][q] # None }
<1>1. q \in Positions
  BY BestPosition
<1>2. Branches = 1 .. Len(guards) /\ Len(guards) \in Nat
  BY MachineFacts
<1>3. \A b \in Branches : guards[b][q] \in Ints \cup Strs \cup {None}
  BY <1>1, MachineFacts
<1>4. CASE at = {}
  <2>1. guard_kind = None
    BY <1>4 DEF guard_kind
  <2>2. \A b \in Branches : guards[b][q] = None
    BY <1>4
  <2> QED  BY <2>1, <2>2, GuardAssumption
<1>5. CASE at # {}
  <2>1. Least(at) \in at
    <3>1. at \subseteq Nat
      BY <1>2
    <3> HIDE DEF at
    <3> QED  BY <1>5, <3>1, LeastOf
  <2>2. guard_kind = IF guards[Least(at)][q] \in Ints THEN "Int" ELSE "Str"
    BY <1>5 DEF guard_kind
  <2> QED  BY <1>3, <2>1, <2>2
<1> QED  BY <1>4, <1>5

-----------------------------------------------------------------------------
(* Entering b is right for a call if some branch fits it at all: b fits, and *)
(* has a literal if some branch with a literal fits.                        *)
Fitting(args) == { b \in Branches : Matches(b, args) }
Right(b, args) ==
    Fitting(args) # {} =>
        /\ Matches(b, args)
        /\ (\E c \in Fitting(args) : Guarded(c) # {}) => Guarded(b) # {}

(* What fits is decided at the one position that has literals.              *)
LEMMA FitsAtBest ==
    ASSUME Machine, Cardinality(GuardedAt) <= 1, NEW b \in Branches, NEW args
    PROVE  LET q == find_best_guard_pos IN
           /\ Matches(b, args) <=> guards[b][q] = None \/ guards[b][q] = args[q]
           /\ Guarded(b) # {} <=> guards[b][q] # None
<1> DEFINE q == find_best_guard_pos
<1>1. q \in Positions /\ Guarded(b) \subseteq {q}
  BY BestPosition, OnlyBest
<1>2. q \in Guarded(b) <=> guards[b][q] # None
  BY <1>1 DEF Guarded
<1> HIDE DEF q
<1> QED  BY <1>1, <1>2 DEF Matches, q

(* The default, a branch without the literal that was asked for.            *)
LEMMA DefaultOf ==
    ASSUME Machine, NEW T, T \subseteq Branches, T # {}
    PROVE  LastOrFirst(T) \in T
<1>1. Branches \subseteq 0 .. Len(guards) /\ Len(guards) \in Nat
  BY MachineFacts
<1> QED  BY <1>1, GreatestOf DEF LastOrFirst

(* A switch on numbers enters the right branch.                             *)
LEMMA SwitchRight ==
    ASSUME Machine, Cardinality(GuardedAt) <= 1, NEW args \in ArgsOf[sig],
           guard_kind # "Str", code = emit_int_guard_select, code.emit = "switch"
    PROVE  Right(SwitchOn(args[code.pos]), args)
<1> DEFINE q == find_best_guard_pos
           lit(b) == guards[b][q]
           entries == { b \in Branches : lit(b) \in Ints }
           disc == args[q]
           hits == { b \in entries : lit(b) = disc }
<1>1. q \in Positions
  BY BestPosition
<1>2. Branches = 1 .. Len(guards) /\ Len(guards) \in Nat
  BY MachineFacts
<1>3. \A b \in Branches : lit(b) \in Ints \cup Strs \cup {None} /\ lit(b) \in Guard(q)
  BY <1>1, MachineFacts DEF Machine
<1>4. \A b \in Branches : SwitchEntry(b) = IF lit(b) \in Ints THEN lit(b) ELSE None
  <2> TAKE b \in Branches
  <2>1. Guarded(b) = IF lit(b) = None THEN {} ELSE {q}
    BY <1>1, OnlyBest DEF Guarded
  <2>2. Least({q}) = q
    <3>1. q \in Nat
      BY <1>1, MachineFacts
    <3> HIDE DEF q
    <3> QED  BY <3>1, LeastOf
  <2> QED  BY <2>1, <2>2, GuardAssumption DEF SwitchEntry
<1>5. { b \in Branches : SwitchEntry(b) # None } = entries
  BY <1>4, GuardAssumption
<1>6. /\ code.pos = q /\ code.default = LastOrFirst(Branches \ entries)
      /\ code.arms = [ b \in entries |-> SwitchEntry(b) ]
  BY <1>5 DEF emit_int_guard_select
<1>7. DOMAIN code.arms = entries /\ \A b \in entries : code.arms[b] = lit(b)
  BY <1>4, <1>6
<1>8. SwitchOn(disc) = IF hits = {} THEN code.default ELSE Least(hits)
  BY <1>7 DEF SwitchOn
<1>9. \A b \in Branches : /\ Matches(b, args) <=> lit(b) = None \/ lit(b) = disc
                          /\ Guarded(b) # {} <=> lit(b) # None
  BY FitsAtBest
<1>10. \/ \A b \in Branches : lit(b) = None
       \/ disc \in Ints
  <2>1. CASE \A b \in Branches : lit(b) = None
    BY <2>1
  <2>2. CASE \E b \in Branches : lit(b) \in Ints
    BY <1>1, <1>3, <2>2, GuardAssumption DEF Machine, Guard, Positions
  <2> QED  BY <2>1, <2>2, KindOfLiteral
<1>11. \A b \in Branches : lit(b) \in Strs => disc \in Strs
  BY <1>1, <1>3, GuardAssumption DEF Machine, Guard, Positions
<1> HIDE DEF q, lit, disc
<1>12. CASE hits # {}
  <2>1. Least(hits) \in hits
    <3>1. hits \subseteq Nat
      BY <1>2
    <3> HIDE DEF hits
    <3> QED  BY <1>12, <3>1, LeastOf
  <2>2. SwitchOn(args[code.pos]) \in hits
    BY <1>6, <1>8, <1>12, <2>1 DEF disc
  <2> QED  BY <1>9, <2>2, GuardAssumption DEF Right
<1>13. CASE hits = {}
  <2> SUFFICES ASSUME NEW c \in Fitting(args)
               PROVE  Right(SwitchOn(args[code.pos]), args)
    BY DEF Right
  <2>1. c \in Branches /\ (lit(c) = None \/ lit(c) = disc)
    BY <1>9 DEF Fitting
  <2>2. \A b \in Fitting(args) : lit(b) = None
    BY <1>3, <1>9, <1>10, <1>11, <1>13, GuardAssumption DEF Fitting
  <2>3. c \in Branches \ entries
    BY <2>1, <2>2, GuardAssumption
  <2>4. SwitchOn(args[code.pos]) \in Branches \ entries
    BY <1>6, <1>8, <1>13, <2>3, DefaultOf DEF disc
  <2>5. PICK d \in Branches \ entries : d = SwitchOn(args[code.pos])
    BY <2>4
  <2>6. lit(d) = None
    BY <1>3, <1>10, <1>11, <2>5, GuardAssumption
  <2>7. Matches(d, args) /\ \A b \in Fitting(args) : Guarded(b) = {}
    BY <1>9, <2>2, <2>5, <2>6 DEF Fitting
  <2> QED  BY <2>5, <2>7 DEF Right
<1> QED  BY <1>12, <1>13

(* A perfect hash gives every string of the table a place of its own.       *)
LEMMA PlacesDiffer ==
    ASSUME Machine, NEW m \in PerfectHashes, NEW b \in StrBranches, NEW c \in StrBranches
    PROVE  LET spot(x) == m[fxhash[guards[x][find_best_guard_pos]]] IN
           /\ spot(b) \in 1 .. Cardinality(StrBranches)
           /\ spot(b) = spot(c) => b = c
<1> DEFINE spot(x) == m[fxhash[guards[x][find_best_guard_pos]]]
           n == Cardinality(StrBranches)
           f == [x \in StrBranches |-> spot(x)]
<1>1. { spot(x) : x \in StrBranches } = 1 .. n
  BY DEF PerfectHashes
<1>2. IsFiniteSet(StrBranches)
  <2>1. Branches = 1 .. Len(guards) /\ Len(guards) \in Nat
    BY MachineFacts
  <2>2. IsFiniteSet(Branches)
    BY <2>1, FS_Interval
  <2> QED  BY <2>2, FS_Subset DEF StrBranches
<1>3. n \in Nat
  BY <1>2, FS_CardinalityType
<1> HIDE DEF n, spot
<1>4. f \in Surjection(StrBranches, 1 .. n)
  BY <1>1, Fun_IsSurj
<1>5. Cardinality(1 .. n) = n
  <2>1. Cardinality(1 .. n) = IF 1 > n THEN 0 ELSE n - 1 + 1
    BY <1>3, FS_Interval
  <2> QED  BY <1>3, <2>1
<1>6. f \in Injection(StrBranches, 1 .. n)
  BY <1>2, <1>4, <1>5, FS_Surjection DEF n
<1>7. f[b] = f[c] => b = c
  BY <1>6 DEF Injection, IsInjective
<1>8. spot(b) \in 1 .. n
  BY <1>1
<1> QED  BY <1>7, <1>8 DEF n, spot

(* A table of strings enters the right branch.                              *)
LEMMA TableRight ==
    ASSUME Machine, Cardinality(GuardedAt) <= 1, NEW args \in ArgsOf[sig],
           guard_kind = "Str", code \in emit_str_guard_select, code.emit = "mphf"
    PROVE  Right(LookUp(args[code.pos]), args)
<1> DEFINE q == find_best_guard_pos
           lit(b) == guards[b][q]
           disc == args[q]
           n == Cardinality(StrBranches)
           none == { b \in Branches : lit(b) = None }
<1>1. q \in Positions
  BY BestPosition
<1>2. \A b \in Branches : lit(b) \in Ints \cup Strs \cup {None} /\ lit(b) \in Guard(q)
  BY <1>1, MachineFacts DEF Machine
<1>3. \A b \in Branches : lit(b) \notin Ints
  BY DEF emit_str_guard_select
<1>4. PICK m \in PerfectHashes :
         code = [emit |-> "mphf", kind |-> "Str", pos |-> q, mphf |-> m,
                 table |-> [ i \in 1 .. n |->
                               CHOOSE b \in StrBranches : m[fxhash[lit(b)]] = i ],
                 default |-> LastOrFirst(none)]
  BY <1>3 DEF emit_str_guard_select
<1>5. disc \in Strs
  BY <1>1, <1>2, KindOfLiteral, GuardAssumption DEF Machine, Guard, Positions
<1>6. StrBranches = { b \in Branches : lit(b) \in Strs }
  BY DEF StrBranches
<1>7. m[fxhash[disc]] \in 1 .. n
  BY <1>5 DEF PerfectHashes
<1> DEFINE i == m[fxhash[disc]]
           b0 == CHOOSE b \in StrBranches : m[fxhash[lit(b)]] = i
<1>8. b0 \in StrBranches /\ m[fxhash[lit(b0)]] = i
  <2>1. { m[fxhash[lit(b)]] : b \in StrBranches } = 1 .. n
    BY DEF PerfectHashes
  <2>2. \E b \in StrBranches : m[fxhash[lit(b)]] = i
    BY <1>7, <2>1
  <2> QED  BY <2>2
<1>9. LookUp(disc) = IF Verified(lit(b0), disc) THEN b0 ELSE LastOrFirst(none)
  <2>1. code.table = [ k \in 1 .. n |->
                          CHOOSE b \in StrBranches : m[fxhash[lit(b)]] = k ]
    BY <1>4
  <2>2. code.table[i] = b0
    BY <1>7, <2>1
  <2>3. code.pos = q /\ code.mphf = m /\ code.default = LastOrFirst(none)
    BY <1>4
  <2> HIDE DEF b0
  <2> QED  BY <2>2, <2>3 DEF LookUp
<1>10. ASSUME NEW b \in StrBranches, lit(b) = disc  PROVE b = b0
  <2>1. m[fxhash[lit(b)]] = m[fxhash[lit(b0)]]
    BY <1>8, <1>10
  <2>2. b0 \in StrBranches
    BY <1>8
  <2> HIDE DEF b0
  <2> QED  BY <2>1, <2>2, PlacesDiffer
<1>11. \A b \in Branches : /\ Matches(b, args) <=> lit(b) = None \/ lit(b) = disc
                           /\ Guarded(b) # {} <=> lit(b) # None
  BY FitsAtBest
<1>12. args[code.pos] = disc
  BY <1>4
<1> HIDE DEF q, lit, disc, i, b0, n
<1>13. CASE Verified(lit(b0), disc)
  <2>1. LookUp(args[code.pos]) = b0 /\ b0 \in Branches /\ lit(b0) = disc
    BY <1>6, <1>8, <1>9, <1>12, <1>13 DEF Verified
  <2> QED  BY <1>5, <1>11, <2>1, GuardAssumption DEF Right
<1>14. CASE ~ Verified(lit(b0), disc)
  <2> SUFFICES ASSUME NEW c \in Fitting(args)
               PROVE  Right(LookUp(args[code.pos]), args)
    BY DEF Right
  <2>1. lit(b0) # disc
    BY <1>14 DEF Verified
  <2>2. \A b \in Fitting(args) : lit(b) = None
    BY <1>5, <1>6, <1>10, <1>11, <2>1 DEF Fitting
  <2>3. c \in none
    BY <2>2 DEF Fitting
  <2>4. LookUp(args[code.pos]) \in none
    BY <1>9, <1>12, <1>14, <2>3, DefaultOf
  <2>5. /\ Matches(LookUp(args[code.pos]), args)
        /\ \A b \in Fitting(args) : Guarded(b) = {}
    BY <1>11, <2>2, <2>4 DEF Fitting
  <2> QED  BY <2>5 DEF Right
<1> QED  BY <1>13, <1>14

(* If some position tells the branches apart, so does the best one, and     *)
(* then nothing keeps the table from being built.                           *)
LEMMA DistinctCompile ==
    ASSUME Machine, Len(guards) > 1, guard_kind = "Str", code \in emit_str_guard_select,
           HashesDiffer, NEW p \in Positions, TellsApart(p)
    PROVE  code.emit = "mphf"
<1> DEFINE q == find_best_guard_pos
<1>1. q \in Positions /\ Cardinality(Literals(p)) <= Cardinality(Literals(q))
  BY BestPosition
<1>2. Branches = 1 .. Len(guards) /\ Len(guards) \in Nat
  BY MachineFacts
<1>3. Cardinality(Literals(p)) = Len(guards)
  <2>1. \A b \in Branches : guards[b][p] # None
    <3> TAKE b \in Branches
    <3>1. PICK c \in Branches : c # b
      BY <1>2
    <3> QED  BY <3>1, GuardAssumption DEF TellsApart
  <2>2. \A b, c \in Branches : guards[b][p] = guards[c][p] => b = c
    BY DEF TellsApart
  <2> QED  BY <2>1, <2>2, LiteralsCounted
<1>4. Cardinality(Literals(q)) = Len(guards)
  BY <1>1, <1>2, <1>3, LiteralsCounted
<1>5. /\ \A b \in Branches : guards[b][q] # None
      /\ \A b, c \in Branches : guards[b][q] = guards[c][q] => b = c
  BY <1>1, <1>4, LiteralsCounted
<1>6. PICK a \in Branches : guards[a][q] \in Strs
  BY KindOfLiteral
<1>7. \A b \in Branches : guards[b][q] \in Literals(q)
  BY <1>5 DEF Literals
<1>8. \A b \in Branches : guards[b][q] \in Strs
  BY <1>1, <1>5, <1>6, <1>7 DEF HashesDiffer
<1>9. \A b \in Branches : guards[b][q] \notin Ints
  BY <1>8, GuardAssumption
<1>10. \A b, c \in StrBranches :
          b # c => fxhash[guards[b][q]] # fxhash[guards[c][q]]
  BY <1>1, <1>5, <1>7, <1>8 DEF HashesDiffer, StrBranches
<1>11. /\ ~ \E b \in Branches : guards[b][q] \in Ints
       /\ ~ \E b, c \in StrBranches :
              b # c /\ fxhash[guards[b][q]] = fxhash[guards[c][q]]
  BY <1>9, <1>10
<1> DEFINE Table(m) ==
              [emit |-> "mphf", kind |-> "Str", pos |-> q, mphf |-> m,
               table |-> [ i \in 1 .. Cardinality(StrBranches) |->
                             CHOOSE b \in StrBranches : m[fxhash[guards[b][q]]] = i ],
               default |-> LastOrFirst({ b \in Branches : guards[b][q] = None })]
<1>12. code \in { Table(m) : m \in PerfectHashes }
  BY <1>11 DEF emit_str_guard_select
<1>13. \A m \in PerfectHashes : Table(m).emit = "mphf"
  OBVIOUS
<1> HIDE DEF Table
<1> QED  BY <1>12, <1>13

-----------------------------------------------------------------------------
(* What is compiled is the dispatch of the machine as it is, and what a call *)
(* entered is what that dispatch makes of its arguments.                    *)
Dispatched(args) ==
    IF code.emit = "switch" THEN SwitchOn(args[code.pos]) ELSE LookUp(args[code.pos])
CompiledOK ==
    code # None =>
        \/ Len(guards) = 1 /\ code = [emit |-> "const", kind |-> None]
        \/ Len(guards) > 1 /\ code \in emit_guard_select
CalledOK ==
    call # None =>
        /\ code # None /\ call.args \in ArgsOf[sig]
        /\ \/ code.emit = "const" /\ call.branch = 1
           \/ code.emit \in {"switch", "mphf"} /\ call.branch = Dispatched(call.args)
GuardInv == Machine /\ CompiledOK /\ CalledOK

(* What is compiled depends on the branches alone.                          *)
LEMMA SameMachine ==
    ASSUME Machine, UNCHANGED << sig, guards >>
    PROVE  Machine' /\ emit_guard_select' = emit_guard_select
BY DEF Machine, Branches, Positions, Guard,
   emit_guard_select, emit_str_guard_select, emit_int_guard_select, guard_kind,
   find_best_guard_pos, find_first_guard_pos, Literals, Guarded, SwitchEntry,
   StrBranches, PerfectHashes, LastOrFirst

(* A machine starts without branches.                                       *)
LEMMA GuardInvInit == GuardInit => GuardInv
<1> SUFFICES ASSUME GuardInit  PROVE GuardInv
  OBVIOUS
<1>1. sig \in Signatures /\ guards = << >> /\ code = None /\ call = None
  BY DEF GuardInit
<1>2. Machine
  BY <1>1 DEF Machine, Branches
<1> QED  BY <1>1, <1>2 DEF GuardInv, CompiledOK, CalledOK

(* Every step keeps the invariant: branches are indexed before the call is  *)
(* compiled, and it is compiled once.                                       *)
LEMMA GuardInvStep == GuardInv /\ [GuardNext]_guardVars => GuardInv'
<1> SUFFICES ASSUME GuardInv, [GuardNext]_guardVars  PROVE GuardInv'
  OBVIOUS
<1>1. CASE insert_branch
  <2>1. code = None /\ UNCHANGED << sig, code, call >> /\ call = None
    BY <1>1 DEF insert_branch, GuardInv, CalledOK
  <2>2. PICK g \in [Positions -> UNION { sig[p] : p \in Positions } \cup {None}] :
           /\ \A p \in Positions : g[p] \in Guard(p)
           /\ guards' = Append(guards, g)
    BY <1>1 DEF insert_branch, Guard
  <2>3. Machine'
    <3>1. /\ guards \in Seq([Positions -> UNION { sig[p] : p \in Positions } \cup {None}])
          /\ \A b \in 1 .. Len(guards), p \in Positions : guards[b][p] \in Guard(p)
          /\ sig \in Signatures /\ Len(guards) \in Nat
      BY DEF GuardInv, Machine, Branches
    <3>2. /\ guards' \in Seq([Positions -> UNION { sig[p] : p \in Positions } \cup {None}])
          /\ Len(guards') = Len(guards) + 1
          /\ guards'[Len(guards) + 1] = g
          /\ \A b \in 1 .. Len(guards) : guards'[b] = guards[b]
      BY <2>2, <3>1
    <3>3. \A b \in 1 .. Len(guards) + 1, p \in Positions : guards'[b][p] \in Guard(p)
      BY <2>2, <3>1, <3>2
    <3>4. Branches' = 1 .. Len(guards) + 1 /\ Positions' = Positions
      BY <2>1, <3>2 DEF Branches, Positions
    <3> QED  BY <2>1, <3>1, <3>2, <3>3, <3>4 DEF Machine, Guard, Positions
  <2> QED  BY <2>1, <2>3 DEF GuardInv, CompiledOK, CalledOK
<1>2. CASE CompileCall
  <2>1. code = None /\ UNCHANGED << sig, guards, call >> /\ call = None
    BY <1>2 DEF CompileCall, GuardInv, CalledOK
  <2>2. \/ Len(guards) > 1 /\ code' \in emit_guard_select
        \/ Len(guards) = 1 /\ code' = [emit |-> "const", kind |-> None]
    BY <1>2 DEF CompileCall
  <2>3. Machine' /\ emit_guard_select' = emit_guard_select
    BY <2>1, SameMachine DEF GuardInv
  <2> QED  BY <2>1, <2>2, <2>3 DEF GuardInv, CompiledOK, CalledOK
<1>3. CASE \E args \in ArgsOf[sig] : Call(args)
  <2>1. PICK args \in ArgsOf[sig] : Call(args)
    BY <1>3
  <2>2. code # None /\ UNCHANGED << sig, guards, code >>
    BY <2>1 DEF Call
  <2>3. Machine' /\ CompiledOK'
    BY <2>2, SameMachine DEF GuardInv, CompiledOK
  <2>4. \A x : Dispatched(x)' = Dispatched(x)
    BY <2>2 DEF Dispatched, SwitchOn, LookUp
  <2>5. /\ call'.args = args
        /\ \/ code.emit = "const" /\ call'.branch = 1
           \/ code.emit \in {"switch", "mphf"} /\ call'.branch = Dispatched(args)
    BY <2>1 DEF Call, Dispatched
  <2> QED  BY <2>2, <2>3, <2>4, <2>5 DEF GuardInv, CalledOK
<1>4. CASE UNCHANGED guardVars
  <2>1. UNCHANGED << sig, guards, code, call >>
    BY <1>4 DEF guardVars
  <2>2. Machine' /\ CompiledOK'
    BY <2>1, SameMachine DEF GuardInv, CompiledOK
  <2>3. \A x : Dispatched(x)' = Dispatched(x)
    BY <2>1 DEF Dispatched, SwitchOn, LookUp
  <2> QED  BY <2>1, <2>2, <2>3 DEF GuardInv, CalledOK
<1> QED  BY <1>1, <1>2, <1>3, <1>4 DEF GuardNext

-----------------------------------------------------------------------------
(* The dispatch of every call is that of its machine.                       *)
THEOREM DispatchInvariant == GuardSpec => []GuardInv
<1> QED  BY GuardInvInit, GuardInvStep, PTL DEF GuardSpec

(* A compiled call enters a right branch, whatever is compiled.             *)
LEMMA CallRight ==
    ASSUME GuardInv, call # None, Cardinality(GuardedAt) <= 1
    PROVE  Right(call.branch, call.args)
<1>1. Machine /\ code # None /\ call.args \in ArgsOf[sig]
  BY DEF GuardInv, CalledOK
<1>2. CASE Len(guards) = 1 /\ code = [emit |-> "const", kind |-> None]
  <2>1. call.branch = 1
    BY <1>2 DEF GuardInv, CalledOK
  <2>2. Branches = {1}
    BY <1>1, <1>2, MachineFacts
  <2> QED  BY <2>1, <2>2 DEF Right, Fitting
<1>3. CASE code \in emit_guard_select /\ guard_kind = "Str"
  <2>1. code \in emit_str_guard_select
    BY <1>3 DEF emit_guard_select
  <2>2. code.emit \in {"bail", "panic", "mphf"}
    <3> DEFINE q == find_best_guard_pos
               Table(m) ==
                  [emit |-> "mphf", kind |-> "Str", pos |-> q, mphf |-> m,
                   table |-> [ i \in 1 .. Cardinality(StrBranches) |->
                                 CHOOSE b \in StrBranches : m[fxhash[guards[b][q]]] = i ],
                   default |-> LastOrFirst({ b \in Branches : guards[b][q] = None })]
    <3>1. \/ code \in {[emit |-> "bail", kind |-> "Str"]}
          \/ code \in {[emit |-> "panic", kind |-> "Str"]}
          \/ code \in { Table(m) : m \in PerfectHashes }
      BY <2>1 DEF emit_str_guard_select
    <3>2. \A m \in PerfectHashes : Table(m).emit = "mphf"
      OBVIOUS
    <3> HIDE DEF Table
    <3> QED  BY <3>1, <3>2
  <2>3. code.emit = "mphf" /\ call.branch = LookUp(call.args[code.pos])
    BY <2>2 DEF GuardInv, CalledOK, Dispatched
  <2> QED  BY <1>1, <1>3, <2>1, <2>3, TableRight
<1>4. CASE code \in emit_guard_select /\ guard_kind # "Str"
  <2>1. code = emit_int_guard_select
    BY <1>4 DEF emit_guard_select
  <2>2. code.emit \in {"panic", "switch"}
    BY <2>1 DEF emit_int_guard_select
  <2>3. code.emit = "switch" /\ call.branch = SwitchOn(call.args[code.pos])
    BY <2>2 DEF GuardInv, CalledOK, Dispatched
  <2> QED  BY <1>1, <1>4, <2>1, <2>3, SwitchRight
<1> QED  BY <1>1, <1>2, <1>3, <1>4 DEF GuardInv, CompiledOK

(* For every number of branches, positions and literals: where literals     *)
(* stand in one position, a call enters a branch it fits, one with the      *)
(* literal if there is one; and if some position tells the branches of a    *)
(* string dispatch apart, the compiler builds its table.                    *)
THEOREM CallsEnterRightBranch == GuardSpec => []CallEntersRightBranch
<1>1. ASSUME GuardInv  PROVE CallEntersRightBranch
  <2>1. EntersMatchingBranch
    BY <1>1, CallRight DEF EntersMatchingBranch, Right, Fitting
  <2>2. PrefersLiteral
    BY <1>1, CallRight DEF PrefersLiteral, Right, Fitting
  <2>3. DistinctStringsCompile
    <3> SUFFICES ASSUME code # None, code.kind = "Str", HashesDiffer,
                        NEW p \in Positions, TellsApart(p)
                 PROVE  code.emit = "mphf"
      BY DEF DistinctStringsCompile
    <3>1. code # [emit |-> "const", kind |-> None]
      BY GuardAssumption
    <3>2. Machine /\ Len(guards) > 1 /\ code \in emit_guard_select
      BY <1>1, <3>1 DEF GuardInv, CompiledOK
    <3>3. emit_int_guard_select.kind = "Int"
      BY DEF emit_int_guard_select
    <3>4. guard_kind = "Str" /\ code \in emit_str_guard_select
      BY <3>2, <3>3 DEF emit_guard_select
    <3> QED  BY <3>2, <3>4, DistinctCompile
  <2> QED  BY <2>1, <2>2, <2>3 DEF CallEntersRightBranch
<1> QED  BY <1>1, DispatchInvariant, PTL

-----------------------------------------------------------------------------
(***************************************************************************)
(* An unrolled loop is the loop, for every well-formed branch, modulus,    *)
(* factor and quantum: of whatever number of turns a block is made, and in *)
(* whichever turn the loop is left.                                        *)
(***************************************************************************)
Value == 0 .. Modulus - 1

(* What the code keeps while it loops: one value per parameter, in the      *)
(* registers and in VARIABLES.                                              *)
UnrollInv ==
    /\ loop \in Loops /\ Detected(loop)
    /\ slot_vars \in [Params -> Value]
    /\ variables \in [Params -> Value]

-----------------------------------------------------------------------------
(* A sum is a value again.                                                  *)
LEMMA ModValue == \A n \in Nat : n % Modulus \in Value
  BY UnrollAssumption DEF Value

(* The operands a turn may have: a parameter, or the local.                 *)
LEMMA FoldValue ==
    ASSUME UnrollInv, NEW i \in 0 .. loop.params
    PROVE  /\ Fold(slot_vars, i) \in Value
           /\ Fold(slot_vars, i) = Loop!Seen(loop, slot_vars)[i]
<1>1. loop.params \in Nat \ {0} /\ loop.let \in Params
  BY UnrollAssumption DEF UnrollInv, WellFormed, Params
<1>2. slot_vars[loop.let] \in Nat
  BY <1>1, UnrollAssumption DEF UnrollInv, Value
<1>3. Local \in Value
  BY <1>2, ModValue DEF Local
<1>4. i < loop.params => i \in Params
  BY <1>1 DEF Params
<1>5. Fold(slot_vars, i) \in Value
  BY <1>3, <1>4 DEF Fold, UnrollInv
<1>6. Local = Loop!Let(loop, slot_vars)
  BY DEF Local, Loop!Let
<1>7. Loop!Seen(loop, slot_vars)[i]
        = IF i < loop.params THEN slot_vars[i] ELSE Loop!Let(loop, slot_vars)
  BY DEF Loop!Seen
<1> QED  BY <1>5, <1>6, <1>7 DEF Fold

(* The new values of a turn are values, and those of a turn of the loop.    *)
LEMMA NewValsOfTurn ==
    ASSUME UnrollInv
    PROVE  /\ NewVals \in [Params -> Value]
           /\ NewVals = [ i \in DOMAIN slot_vars |->
                 (Loop!Seen(loop, slot_vars)[loop.args[i].from] + loop.args[i].plus)
                    % Modulus ]
<1>1. DOMAIN slot_vars = Params
  BY DEF UnrollInv
<1>2. ASSUME NEW i \in Params
      PROVE  /\ Argument(slot_vars, i) \in Value
             /\ Argument(slot_vars, i)
                  = (Loop!Seen(loop, slot_vars)[loop.args[i].from] + loop.args[i].plus)
                       % Modulus
  <2>1. loop.args[i].from \in 0 .. loop.params /\ loop.args[i].plus \in Nat
    BY UnrollAssumption DEF UnrollInv, WellFormed, Params
  <2>2. /\ Fold(slot_vars, loop.args[i].from) \in Value
        /\ Fold(slot_vars, loop.args[i].from)
             = Loop!Seen(loop, slot_vars)[loop.args[i].from]
    BY <2>1, FoldValue
  <2>3. Fold(slot_vars, loop.args[i].from) + loop.args[i].plus \in Nat
    BY <2>1, <2>2 DEF Value
  <2> QED  BY <2>2, <2>3, ModValue DEF Argument
<1> QED  BY <1>1, <1>2 DEF NewVals

(* Whether the code takes the turn is what the arms of the when say, however *)
(* their keys divide the two values of the condition.                       *)
LEMMA SameCondition ==
    ASSUME UnrollInv
    PROVE  TakeIter <=> Loop!EntersSelf(loop, Loop!Condition(loop, slot_vars))
<1>1. loop.self_key \in Keys /\ loop.exit_key \in Keys
  BY UnrollAssumption DEF UnrollInv, WellFormed
<1>2. /\ << loop.self_key, loop.exit_key >> # << "_", "_" >>
      /\ loop.self_key # loop.exit_key
  BY DEF UnrollInv, Detected
<1>3. CASE slot_vars[0] # 0
  <2>1. TakeIter <=> continue_when_truthy(loop)
    BY <1>3 DEF TakeIter, Cond
  <2>2. Loop!EntersSelf(loop, TRUE) <=> continue_when_truthy(loop)
    BY <1>1, <1>2 DEF Loop!EntersSelf, Loop!Has, continue_when_truthy, Keys
  <2>3. Loop!Condition(loop, slot_vars) = TRUE
    BY <1>3 DEF Loop!Condition
  <2> QED  BY <2>1, <2>2, <2>3
<1>4. CASE slot_vars[0] = 0
  <2>1. TakeIter <=> ~ continue_when_truthy(loop)
    BY <1>4 DEF TakeIter, Cond
  <2>2. Loop!EntersSelf(loop, FALSE) <=> ~ continue_when_truthy(loop)
    BY <1>1, <1>2 DEF Loop!EntersSelf, Loop!Has, continue_when_truthy, Keys
  <2>3. Loop!Condition(loop, slot_vars) = FALSE
    BY <1>4 DEF Loop!Condition
  <2> QED  BY <2>1, <2>2, <2>3
<1> QED  BY <1>3, <1>4

-----------------------------------------------------------------------------
(* The invariant holds at first.                                            *)
LEMMA UnrollInvInit == UnrollInit => UnrollInv
BY UnrollAssumption DEF UnrollInit, UnrollInv, Value, Params

(* Every step keeps it.                                                     *)
LEMMA UnrollInvStep == UnrollInv /\ [UnrollNext]_unrollVars => UnrollInv'
<1> SUFFICES ASSUME UnrollInv, [UnrollNext]_unrollVars  PROVE UnrollInv'
  OBVIOUS
<1>1. CASE EntryLoad
  BY <1>1 DEF UnrollInv, EntryLoad, Detected, Params
<1>2. CASE Iteration
  <2>1. slot_vars' \in [Params -> Value]
    BY <1>2, NewValsOfTurn DEF Iteration
  <2> QED  BY <1>2, <2>1 DEF UnrollInv, Iteration, Detected, Params
<1>3. CASE ChunkEnd
  BY <1>3 DEF UnrollInv, ChunkEnd, Committed, Detected, Params
<1>4. CASE ExitBridge
  BY <1>4 DEF UnrollInv, ExitBridge, Committed, Detected, Params
<1>5. CASE Reenter
  <2>1. 0 \in Value
    BY UnrollAssumption DEF Value
  <2> QED  BY <1>5, <2>1 DEF UnrollInv, Reenter, Detected, Params
<1>6. CASE UNCHANGED unrollVars
  BY <1>6 DEF UnrollInv, unrollVars, Detected, Params
<1> QED  BY <1>1, <1>2, <1>3, <1>4, <1>5, <1>6 DEF UnrollNext

(* The registers and VARIABLES of an unrolled loop hold one value for each  *)
(* parameter, in every reachable state.                                     *)
THEOREM UnrollInvariant == UnrollSpec => []UnrollInv
<1> QED  BY UnrollInvInit, UnrollInvStep, PTL DEF UnrollSpec

-----------------------------------------------------------------------------
(* Where the loop of TailLoop finds its values.                             *)
LoopVals == IF place = "loop_top" THEN slot_vars ELSE variables
loopVars == << loop, LoopVals, stored, place = "exit_body" >>

(* A copy of the body is a turn.                                            *)
LEMMA IterationIsTurn == UnrollInv /\ Iteration => Loop!Turn
<1> SUFFICES ASSUME UnrollInv, Iteration  PROVE Loop!Turn
  OBVIOUS
<1>1. /\ place = "loop_top" /\ place' = "loop_top" /\ loop' = loop /\ TakeIter
      /\ slot_vars' = NewVals /\ stored' = Fold(slot_vars, loop.store)
  BY DEF Iteration
<1>2. loop.store \in 0 .. loop.params
  BY UnrollAssumption DEF UnrollInv, WellFormed
<1>3. stored' = Loop!Seen(loop, slot_vars)[loop.store]
  BY <1>1, <1>2, FoldValue
<1> QED  BY <1>1, <1>3, NewValsOfTurn, SameCondition DEF Loop!Turn

(* Leaving through the bridge is leaving the loop.                          *)
LEMMA ExitIsOut == UnrollInv /\ ExitBridge => Loop!Out
<1> SUFFICES ASSUME UnrollInv, ExitBridge  PROVE Loop!Out
  OBVIOUS
<1>1. /\ place = "loop_top" /\ place' = "exit_body" /\ ~ TakeIter
      /\ loop' = loop /\ variables' = slot_vars /\ stored' = stored
  BY DEF ExitBridge, Committed
<1> QED  BY <1>1, SameCondition DEF Loop!Out

(* Loading, committing and yielding change nothing that the program means.  *)
LEMMA Unseen ==
    UnrollInv /\ (EntryLoad \/ ChunkEnd \/ Reenter \/ UNCHANGED unrollVars)
        => UNCHANGED loopVars
<1>1. EntryLoad => UNCHANGED loopVars
  BY DEF EntryLoad, loopVars, LoopVals
<1>2. ChunkEnd => UNCHANGED loopVars
  BY DEF ChunkEnd, Committed, loopVars, LoopVals
<1>3. Reenter => UNCHANGED loopVars
  BY DEF Reenter, loopVars, LoopVals
<1>4. UNCHANGED unrollVars => UNCHANGED loopVars
  BY DEF unrollVars, loopVars, LoopVals
<1> QED  BY <1>1, <1>2, <1>3, <1>4

(* The code of emit_unrolled implements the branch it stands for: the same  *)
(* turns on the same values, whatever the factor and wherever the quantum   *)
(* runs out, and the same values in VARIABLES for the exit arm.             *)
THEOREM UnrolledLoopIsTheLoop == UnrollSpec => UnrollImplementsLoop
<1>1. UnrollInit => ~ (place = "exit_body")
  BY DEF UnrollInit
<1>2. UnrollInv /\ [UnrollNext]_unrollVars => [Loop!Turn \/ Loop!Out]_loopVars
  BY IterationIsTurn, ExitIsOut, Unseen DEF UnrollNext
<1> QED
  BY <1>1, <1>2, UnrollInvariant, PTL
     DEF UnrollSpec, UnrollImplementsLoop, Loop!LoopSpec, loopVars, LoopVals
=============================================================================
