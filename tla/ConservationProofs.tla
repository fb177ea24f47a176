-------------------------- MODULE ConservationProofs --------------------------
(***************************************************************************)
(* Proofs about the sums over a session: what MapThenSumSet adds up, what  *)
(* the queues and the recorded weeks therefore hold in total, that no unit *)
(* of goods or order is lost, and that the analytics add up.  Then what    *)
(* the loops of the export put into every row of its sheets, and that the  *)
(* sheets therefore agree.                                                 *)
(***************************************************************************)
EXTENDS Export, GameSessionProofs, FiniteSetTheorems, WellFoundedInduction


(* Induction on the natural numbers, for a set of them instead of a        *)
(* predicate: a set without a least counterexample has none.               *)
LEMMA SetInduction ==
  ASSUME NEW S, 0 \in S, \A n \in Nat : n \in S => n + 1 \in S
  PROVE  Nat \subseteq S
<1> DEFINE T == Nat \ S
           R == OpToRel(<, Nat)
<1>1. SUFFICES ASSUME T # {} PROVE FALSE
  OBVIOUS
<1>2. T \subseteq Nat /\ IsWellFoundedOn(R, Nat)
  BY NatLessThanWellFounded
<1> HIDE DEF R
<1>3. PICK x \in T : \A y \in T : ~(<<y, x>> \in R)
  <2> HIDE DEF T
  <2> QED BY <1>1, <1>2, WFMin
<1>4. x # 0 /\ x \in Nat
  OBVIOUS
<1>5. x - 1 \in Nat /\ x - 1 < x
  BY <1>4
<1>6. <<x - 1, x>> \in R
  BY <1>4, <1>5 DEF R, OpToRel
<1>7. x - 1 \notin T
  BY <1>3, <1>6
<1>8. x - 1 \in S
  BY <1>5, <1>7
<1>9. (x - 1) + 1 \in S
  BY <1>5, <1>8
<1> QED BY <1>4, <1>9

(* How MapThenSumSet adds up a function: the element picked from a set of  *)
(* arguments first, the rest of the set after it.                          *)
Picked(T) == CHOOSE x \in T : TRUE
SumsOf(f, g) ==
  g = [T \in SUBSET DOMAIN f |->
         IF T = {} THEN 0 ELSE f[Picked(T)] + g[T \ {Picked(T)}]]
SumOver(f, T) == (CHOOSE g : SumsOf(f, g))[T]

Summable(f) == IsFiniteSet(DOMAIN f) /\ f \in [DOMAIN f -> Int]

(* Total is the sum over all arguments. *)
LEMMA TotalIsSum == ASSUME NEW f  PROVE Total(f) = SumOver(f, DOMAIN f)
BY DEF Total, MapThenSumSet, MapThenFoldSet, SumOver, SumsOf, Picked

(* Such sums exist when there are finitely many arguments. *)
LEMMA SumsExist ==
  ASSUME NEW f, IsFiniteSet(DOMAIN f)
  PROVE  SumsOf(f, CHOOSE g : SumsOf(f, g))
<1>1. PICK S : S = DOMAIN f
  OBVIOUS
<1> DEFINE Small(n) == {T \in SUBSET S : Cardinality(T) <= n}
           Fits(g, n) == g = [T \in Small(n) |->
                                IF T = {} THEN 0 ELSE f[Picked(T)] + g[T \ {Picked(T)}]]
           P == {n \in Nat : \E g : Fits(g, n)}
<1>2. \A T \in SUBSET S : IsFiniteSet(T) /\ Cardinality(T) \in Nat
                          /\ Cardinality(T) <= Cardinality(S) /\ (Cardinality(T) = 0 <=> T = {})
  BY <1>1, FS_Subset, FS_CardinalityType, FS_EmptySet
<1>3. \A T \in SUBSET S : T # {} => /\ Picked(T) \in T /\ T \ {Picked(T)} \in SUBSET S
                                    /\ Cardinality(T \ {Picked(T)}) = Cardinality(T) - 1
  BY <1>2, FS_RemoveElement DEF Picked
<1>4. 0 \in P
  <2>1. \A T \in Small(0) : T = {}
    BY <1>2
  <2>2. Fits([T \in Small(0) |-> 0], 0)
    BY <2>1
  <2> QED  BY <2>2
<1>5. ASSUME NEW n \in Nat, n \in P  PROVE n + 1 \in P
  <2>1. PICK g : Fits(g, n)
    BY <1>5
  <2> DEFINE Value(T) == IF T = {} THEN 0 ELSE f[Picked(T)] + g[T \ {Picked(T)}]
             h == [T \in Small(n + 1) |-> Value(T)]
  <2>2. \A T \in Small(n) : T \in Small(n + 1) /\ g[T] = Value(T)
    <3>1. Small(n) \subseteq Small(n + 1)
      BY <1>2
    <3>2. \A T \in Small(n) : g[T] = Value(T)
      <4> HIDE DEF Small
      <4> QED  BY <2>1
    <3> QED  BY <3>1, <3>2
  <2>3. \A T \in Small(n) : h[T] = g[T]
    BY <2>2
  <2>4. \A T \in Small(n + 1) : T # {} => T \ {Picked(T)} \in Small(n)
    BY <1>2, <1>3
  <2>5. Fits(h, n + 1)
    <3>1. \A T \in Small(n + 1) :
            Value(T) = IF T = {} THEN 0 ELSE f[Picked(T)] + h[T \ {Picked(T)}]
      BY <2>3, <2>4
    <3> HIDE DEF Value, Small
    <3>2. h = [T \in Small(n + 1) |-> IF T = {} THEN 0 ELSE f[Picked(T)] + h[T \ {Picked(T)}]]
      BY <3>1
    <3> QED  BY <3>2
  <2> HIDE DEF h, Fits
  <2> QED  BY <2>5
<1>6. Cardinality(S) \in P
  <2> HIDE DEF P
  <2> QED  BY <1>1, <1>2, <1>4, <1>5, SetInduction
<1>7. PICK g : Fits(g, Cardinality(S))
  BY <1>6
<1>8. Small(Cardinality(S)) = SUBSET S
  BY <1>2
<1>9. SumsOf(f, g)
  BY <1>1, <1>7, <1>8 DEF SumsOf
<1> QED  BY <1>9

(* What the sum over a set of arguments is. *)
LEMMA SumFacts ==
  ASSUME NEW f, Summable(f), NEW T, T \subseteq DOMAIN f
  PROVE  /\ IsFiniteSet(T) /\ Cardinality(T) \in Nat
         /\ T = {} => SumOver(f, T) = 0
         /\ T # {} => /\ Picked(T) \in T /\ Cardinality(T \ {Picked(T)}) = Cardinality(T) - 1
                      /\ SumOver(f, T) = f[Picked(T)] + SumOver(f, T \ {Picked(T)})
<1>1. SumsOf(f, CHOOSE g : SumsOf(f, g))
  BY SumsExist DEF Summable
<1>2. SumOver(f, T) = IF T = {} THEN 0 ELSE f[Picked(T)] + SumOver(f, T \ {Picked(T)})
  <2>1. PICK g : g = CHOOSE h : SumsOf(f, h)
    OBVIOUS
  <2>2. g = [U \in SUBSET DOMAIN f |-> IF U = {} THEN 0 ELSE f[Picked(U)] + g[U \ {Picked(U)}]]
    BY <1>1, <2>1 DEF SumsOf
  <2>3. g[T] = IF T = {} THEN 0 ELSE f[Picked(T)] + g[T \ {Picked(T)}]
    BY <2>2
  <2> QED  BY <2>1, <2>3 DEF SumOver
<1>3. IsFiniteSet(T) /\ Cardinality(T) \in Nat
  BY FS_Subset, FS_CardinalityType DEF Summable
<1>4. T # {} => Picked(T) \in T
  BY DEF Picked
<1> QED  BY <1>2, <1>3, <1>4, FS_RemoveElement

(* It is a number, and it depends on the function's values there only. *)
LEMMA SumAgrees ==
  ASSUME NEW f, Summable(f), NEW h, Summable(h),
         NEW T, T \subseteq DOMAIN f, T \subseteq DOMAIN h, \A x \in T : f[x] = h[x]
  PROVE  SumOver(f, T) \in Int /\ SumOver(f, T) = SumOver(h, T)
<1> DEFINE P == {n \in Nat : \A V \in SUBSET T : Cardinality(V) = n =>
                   SumOver(f, V) \in Int /\ SumOver(f, V) = SumOver(h, V)}
<1>1. \A V \in SUBSET T :
        /\ IsFiniteSet(V)
        /\ V = {} => SumOver(f, V) = 0 /\ SumOver(h, V) = 0
        /\ V # {} => /\ Picked(V) \in V /\ Cardinality(V \ {Picked(V)}) = Cardinality(V) - 1
                     /\ SumOver(f, V) = f[Picked(V)] + SumOver(f, V \ {Picked(V)})
                     /\ SumOver(h, V) = h[Picked(V)] + SumOver(h, V \ {Picked(V)})
  <2> SUFFICES ASSUME NEW V \in SUBSET T
               PROVE  /\ IsFiniteSet(V)
                      /\ V = {} => SumOver(f, V) = 0 /\ SumOver(h, V) = 0
                      /\ V # {} =>
                           /\ Picked(V) \in V /\ Cardinality(V \ {Picked(V)}) = Cardinality(V) - 1
                           /\ SumOver(f, V) = f[Picked(V)] + SumOver(f, V \ {Picked(V)})
                           /\ SumOver(h, V) = h[Picked(V)] + SumOver(h, V \ {Picked(V)})
    OBVIOUS
  <2>1. V \subseteq DOMAIN f /\ V \subseteq DOMAIN h
    OBVIOUS
  <2> HIDE DEF P
  <2> QED  BY <2>1, SumFacts
<1>2. 0 \in P
  <2> SUFFICES ASSUME NEW V \in SUBSET T, Cardinality(V) = 0
               PROVE  SumOver(f, V) \in Int /\ SumOver(f, V) = SumOver(h, V)
    OBVIOUS
  <2>1. V = {}
    BY <1>1, FS_EmptySet
  <2>2. SumOver(f, V) = 0 /\ SumOver(h, V) = 0
    BY <1>1, <2>1, Zenon
  <2> QED  BY <2>2
<1>3. ASSUME NEW n \in Nat, n \in P  PROVE n + 1 \in P
  <2> SUFFICES ASSUME NEW V \in SUBSET T, Cardinality(V) = n + 1
               PROVE  SumOver(f, V) \in Int /\ SumOver(f, V) = SumOver(h, V)
    OBVIOUS
  <2>1. V # {}
    BY FS_EmptySet
  <2>2. PICK x, W : x = Picked(V) /\ W = V \ {x}
    OBVIOUS
  <2>3. x \in V /\ W \in SUBSET T /\ Cardinality(W) = n
    <3>1. x \in V /\ Cardinality(W) = Cardinality(V) - 1
      BY <1>1, <2>1, <2>2, Zenon
    <3>2. W \in SUBSET T
      BY <2>2
    <3> QED  BY <3>1, <3>2
  <2>4. SumOver(f, V) = f[x] + SumOver(f, W) /\ SumOver(h, V) = h[x] + SumOver(h, W)
    BY <1>1, <2>1, <2>2
  <2>5. SumOver(f, W) \in Int /\ SumOver(f, W) = SumOver(h, W)
    BY <1>3, <2>3
  <2>6. f[x] \in Int /\ f[x] = h[x]
    BY <2>3 DEF Summable
  <2> QED  BY <2>4, <2>5, <2>6
<1>4. Cardinality(T) \in P
  <2> HIDE DEF P
  <2>1. Nat \subseteq P
    BY <1>2, <1>3, SetInduction
  <2> QED  BY <2>1, SumFacts
<1> QED  BY <1>4

(* The elements can be added in any order. *)
LEMMA SumAnyOrder ==
  ASSUME NEW f, Summable(f), NEW T, T \subseteq DOMAIN f, NEW y \in T
  PROVE  SumOver(f, T) = f[y] + SumOver(f, T \ {y})
<1> DEFINE P == {n \in Nat : \A V \in SUBSET DOMAIN f : Cardinality(V) = n =>
                   \A z \in V : SumOver(f, V) = f[z] + SumOver(f, V \ {z})}
<1>1. \A V \in SUBSET DOMAIN f : SumOver(f, V) \in Int
  BY SumAgrees
<1>2. \A V \in SUBSET DOMAIN f :
        /\ IsFiniteSet(V)
        /\ V # {} => /\ Picked(V) \in V
                     /\ SumOver(f, V) = f[Picked(V)] + SumOver(f, V \ {Picked(V)})
  BY SumFacts
<1>3. \A V \in SUBSET DOMAIN f : \A z \in V : Cardinality(V \ {z}) = Cardinality(V) - 1
  BY <1>2, FS_RemoveElement
<1>4. 0 \in P
  <2>1. \A V \in SUBSET DOMAIN f : Cardinality(V) = 0 => V = {}
    BY <1>2, FS_EmptySet
  <2> QED  BY <2>1
<1>5. ASSUME NEW n \in Nat, n \in P  PROVE n + 1 \in P
  <2> SUFFICES ASSUME NEW V \in SUBSET DOMAIN f, Cardinality(V) = n + 1, NEW z \in V
               PROVE  SumOver(f, V) = f[z] + SumOver(f, V \ {z})
    OBVIOUS
  <2>1. PICK x : x = Picked(V)
    OBVIOUS
  <2>2. /\ x \in V /\ SumOver(f, V) = f[x] + SumOver(f, V \ {x})
        /\ Cardinality(V \ {x}) = n
    BY <1>2, <1>3, <2>1
  <2>3. Cardinality(V \ {z}) = n
    BY <1>3
  <2>4. CASE x # z
    <3>1. SumOver(f, V \ {x}) = f[z] + SumOver(f, (V \ {x}) \ {z})
      <4>1. V \ {x} \in SUBSET DOMAIN f /\ z \in V \ {x}
        BY <2>4
      <4> QED  BY <1>5, <2>2, <4>1
    <3>2. SumOver(f, V \ {z}) = f[x] + SumOver(f, (V \ {z}) \ {x})
      <4>1. V \ {z} \in SUBSET DOMAIN f /\ x \in V \ {z}
        BY <2>2, <2>4
      <4> QED  BY <1>5, <2>3, <4>1
    <3>3. (V \ {x}) \ {z} = (V \ {z}) \ {x}
      OBVIOUS
    <3>4. SumOver(f, (V \ {z}) \ {x}) \in Int /\ f[x] \in Int /\ f[z] \in Int
      BY <1>1, <2>2 DEF Summable
    <3>5. ASSUME NEW a \in Int, NEW b \in Int, NEW c \in Int
          PROVE  a + (b + c) = b + (a + c)
      OBVIOUS
    <3>6. SumOver(f, V) = f[x] + (f[z] + SumOver(f, (V \ {z}) \ {x}))
      BY <2>2, <3>1, <3>3, Zenon
    <3>7. SumOver(f, V) = f[z] + (f[x] + SumOver(f, (V \ {z}) \ {x}))
      BY <3>4, <3>5, <3>6, Zenon
    <3> QED  BY <3>2, <3>7, Zenon
  <2> QED  BY <2>2, <2>4
<1>6. Cardinality(T) \in P
  <2> HIDE DEF P
  <2>1. Nat \subseteq P
    BY <1>4, <1>5, SetInduction
  <2> QED  BY <2>1, SumFacts
<1> QED  BY <1>6

-----------------------------------------------------------------------------
(* Total, by what a sum is made of. *)
LEMMA TotalEmpty == ASSUME NEW f, DOMAIN f = {}  PROVE Total(f) = 0
<1>1. f \in [DOMAIN f -> Int] \/ f = [x \in {} |-> 0]
  OBVIOUS
<1>2. \A T \in SUBSET DOMAIN f : T = {}
  OBVIOUS
<1>3. SumsOf(f, CHOOSE g : SumsOf(f, g))
  BY FS_EmptySet, SumsExist
<1>4. SumOver(f, {}) = 0
  <2>1. PICK g : g = CHOOSE h : SumsOf(f, h)
    OBVIOUS
  <2>2. g[{}] = 0
    BY <1>3, <2>1 DEF SumsOf
  <2> QED  BY <2>1, <2>2 DEF SumOver
<1> QED  BY <1>4, TotalIsSum

(* A function on 1..n can be added up. *)
LEMMA WeeksSummable ==
  ASSUME NEW n \in Nat, NEW f \in [1..n -> Int]
  PROVE  Summable(f) /\ Total(f) \in Int
<1>1. Summable(f)
  BY FS_Interval DEF Summable
<1> QED  BY <1>1, SumAgrees, TotalIsSum

(* One more week adds its value. *)
LEMMA TotalGrows ==
  ASSUME NEW n \in Nat, NEW k \in Nat, k = n + 1, NEW f \in [1..n -> Int],
         NEW g \in [1..k -> Int], \A i \in 1..n : g[i] = f[i]
  PROVE  Total(g) = Total(f) + g[k]
<1>1. Summable(f) /\ Summable(g) /\ DOMAIN f = 1..n /\ DOMAIN g = 1..k
  BY WeeksSummable
<1>2. k \in 1..k /\ (1..k) \ {k} = 1..n /\ 1..n \subseteq 1..k
  OBVIOUS
<1>3. SumOver(g, 1..k) = g[k] + SumOver(g, 1..n)
  BY <1>1, <1>2, SumAnyOrder
<1>4. SumOver(f, 1..n) \in Int /\ SumOver(f, 1..n) = SumOver(g, 1..n)
  BY <1>1, <1>2, SumAgrees
<1>5. g[k] \in Int
  BY <1>2
<1> QED  BY <1>1, <1>3, <1>4, <1>5, TotalIsSum

(* Dropping the first week drops its value. *)
LEMMA TotalShrinks ==
  ASSUME NEW n \in Nat, NEW f \in [1..(n + 1) -> Int]
  PROVE  Total(f) = f[1] + Total([i \in 1..n |-> f[i + 1]])
<1> DEFINE Later(m, h) == [i \in 1..m |-> h[i + 1]]
           P == {m \in Nat : \A h \in [1..(m + 1) -> Int] : Total(h) = h[1] + Total(Later(m, h))}
<1>1. 0 \in P
  <2> SUFFICES ASSUME NEW h \in [1..(0 + 1) -> Int]
               PROVE  Total(h) = h[1] + Total(Later(0, h))
    OBVIOUS
  <2>1. Total(Later(0, h)) = 0
    BY TotalEmpty
  <2>2. PICK e : e = [i \in 1..0 |-> 0]
    OBVIOUS
  <2>3. e \in [1..0 -> Int] /\ Total(e) = 0
    BY <2>2, TotalEmpty
  <2>4. Total(h) = Total(e) + h[1]
    <3>1. PICK z \in Nat, k \in Nat : z = 0 /\ k = 1
      OBVIOUS
    <3>2. /\ k = z + 1 /\ e \in [1..z -> Int] /\ h \in [1..k -> Int]
          /\ \A i \in 1..z : h[i] = e[i]
      BY <2>3, <3>1
    <3> HIDE DEF P
    <3>3. Total(h) = Total(e) + h[k]
      BY <3>2, TotalGrows
    <3> QED  BY <3>1, <3>3
  <2>5. h[1] \in Int
    OBVIOUS
  <2> HIDE DEF Later
  <2> QED  BY <2>1, <2>3, <2>4, <2>5
<1>2. ASSUME NEW m \in Nat, m \in P  PROVE m + 1 \in P
  <2> SUFFICES ASSUME NEW h \in [1..((m + 1) + 1) -> Int]
               PROVE  Total(h) = h[1] + Total(Later(m + 1, h))
    <3> HIDE DEF Later
    <3> QED  OBVIOUS
  <2>1. PICK k : k = [i \in 1..(m + 1) |-> h[i]]
    OBVIOUS
  <2>2. k \in [1..(m + 1) -> Int] /\ k[1] = h[1] /\ k[1] \in Int
    BY <2>1
  <2>3. Total(h) = Total(k) + h[(m + 1) + 1]
    <3>1. \A i \in 1..(m + 1) : h[i] = k[i]
      BY <2>1
    <3> HIDE DEF P, Later
    <3> QED  BY <2>2, <3>1, TotalGrows, SMTT(30)
  <2>4. Total(k) = k[1] + Total(Later(m, k))
    BY <1>2, <2>2
  <2>5. Later(m, k) \in [1..m -> Int] /\ Later(m + 1, h) \in [1..(m + 1) -> Int]
    BY <2>2
  <2>6. \A i \in 1..m : Later(m + 1, h)[i] = Later(m, k)[i]
    BY <2>1
  <2>7. Later(m + 1, h)[m + 1] = h[(m + 1) + 1] /\ h[(m + 1) + 1] \in Int
    OBVIOUS
  <2> HIDE DEF P, Later
  <2>8. Total(Later(m + 1, h)) = Total(Later(m, k)) + Later(m + 1, h)[m + 1]
    <3>1. m + 1 \in Nat
      OBVIOUS
    <3> QED  BY <2>5, <2>6, <3>1, TotalGrows
  <2>9. Total(Later(m, k)) \in Int
    BY <2>5, WeeksSummable
  <2> QED  BY <2>2, <2>3, <2>4, <2>7, <2>8, <2>9
<1>3. n \in P
  <2> HIDE DEF P
  <2> QED  BY <1>1, <1>2, SetInduction
<1> QED  BY <1>3

(* What a queue holds in total after its first slot is taken out and a     *)
(* slot is added at its end (shiftPipeline, then appendPipeline).          *)
LEMMA TotalShiftAppend ==
  ASSUME NEW q \in Seq(Nat), Len(q) # 0, NEW e \in Nat
  PROVE  /\ Total(q) \in Int
         /\ Total(Append(rest(q), e)) = Total(q) - shifted(q) + e
<1>1. PICK n \in Nat : Len(q) = n + 1
  BY SMT
<1>2. /\ q \in [1..(n + 1) -> Int] /\ shifted(q) = q[1] /\ q[1] \in Int
      /\ rest(q) = Tail(q) /\ Tail(q) \in Seq(Nat) /\ Len(Tail(q)) = n
      /\ \A i \in 1..n : Tail(q)[i] = q[i + 1]
  BY <1>1, SMT DEF shifted, rest
<1>3. PICK t : t = [i \in 1..n |-> q[i + 1]]
  OBVIOUS
<1>4. t \in [1..n -> Int] /\ \A i \in 1..n : t[i] = q[i + 1]
  BY <1>2, <1>3, SMT
<1>5. Total(q) = q[1] + Total(t) /\ Total(t) \in Int
  BY <1>2, <1>3, <1>4, TotalShrinks, WeeksSummable
<1>6. PICK p : p = Append(Tail(q), e)
  OBVIOUS
<1>7. p \in [1..(n + 1) -> Int] /\ p[n + 1] = e /\ \A i \in 1..n : p[i] = Tail(q)[i]
  <2>1. PICK u \in Seq(Nat) : u = Tail(q)
    BY <1>2
  <2>2. p = Append(u, e) /\ Len(u) = n
    BY <1>2, <1>6, <2>1
  <2>3. p \in Seq(Nat) /\ Len(p) = n + 1 /\ p[n + 1] = e /\ \A i \in 1..n : p[i] = u[i]
    BY <2>2
  <2>4. p \in [1..(n + 1) -> Int]
    BY <2>3
  <2> QED  BY <2>1, <2>3, <2>4
<1>8. Total(p) = Total(t) + p[n + 1]
  <2>1. n + 1 \in Nat /\ \A i \in 1..n : p[i] = t[i]
    BY <1>2, <1>4, <1>7
  <2> QED  BY <1>4, <1>7, <2>1, TotalGrows
<1> QED  BY <1>2, <1>5, <1>6, <1>7, <1>8

(* There are finitely many roles. *)
LEMMA RolesFinite == IsFiniteSet(Roles) /\ IsFiniteSet(GoodsReceivers)
<1>1. IsFiniteSet({})
  BY FS_EmptySet
<1>2. IsFiniteSet({} \cup {"factory"})
  BY <1>1, FS_AddElement, Zenon
<1>3. IsFiniteSet(({} \cup {"factory"}) \cup {"distributor"})
  BY <1>2, FS_AddElement, Zenon
<1>4. IsFiniteSet((({} \cup {"factory"}) \cup {"distributor"}) \cup {"wholesaler"})
  BY <1>3, FS_AddElement, Zenon
<1>5. IsFiniteSet(((({} \cup {"factory"}) \cup {"distributor"}) \cup {"wholesaler"})
                    \cup {"retailer"})
  BY <1>4, FS_AddElement, Zenon
<1>6. Roles = ((({} \cup {"factory"}) \cup {"distributor"}) \cup {"wholesaler"})
                \cup {"retailer"}
  BY DEF Roles
<1>7. GoodsReceivers \in SUBSET Roles
  BY DEF Roles, GoodsReceivers
<1>8. IsFiniteSet(Roles)
  BY <1>5, <1>6, Zenon
<1> QED  BY <1>7, <1>8, FS_Subset

(* A sum over the roles has four terms, *)
LEMMA TotalOverRoles ==
  ASSUME NEW f \in [Roles -> Int]
  PROVE  Total(f) = f["factory"] + f["distributor"] + f["wholesaler"] + f["retailer"]
<1>1. DOMAIN f = Roles
  OBVIOUS
<1>3. Summable(f)
  BY <1>1, RolesFinite DEF Summable
<1>4. /\ SumOver(f, {}) = 0
      /\ SumOver(f, {"retailer"}) = f["retailer"] + SumOver(f, {"retailer"} \ {"retailer"})
      /\ SumOver(f, {"wholesaler", "retailer"})
           = f["wholesaler"] + SumOver(f, {"wholesaler", "retailer"} \ {"wholesaler"})
      /\ SumOver(f, {"distributor", "wholesaler", "retailer"})
           = f["distributor"]
             + SumOver(f, {"distributor", "wholesaler", "retailer"} \ {"distributor"})
      /\ SumOver(f, Roles) = f["factory"] + SumOver(f, Roles \ {"factory"})
  <2>1. {} \subseteq DOMAIN f /\ {"retailer"} \subseteq DOMAIN f
        /\ {"wholesaler", "retailer"} \subseteq DOMAIN f
        /\ {"distributor", "wholesaler", "retailer"} \subseteq DOMAIN f
        /\ Roles \subseteq DOMAIN f
    BY <1>1 DEF Roles
  <2>2. /\ "retailer" \in {"retailer"} /\ "wholesaler" \in {"wholesaler", "retailer"}
        /\ "distributor" \in {"distributor", "wholesaler", "retailer"}
        /\ "factory" \in Roles
    BY DEF Roles
  <2>3. SumOver(f, {}) = 0
    BY <1>3, <2>1, SumFacts
  <2>4. \A T : T \subseteq DOMAIN f =>
          \A y \in T : SumOver(f, T) = f[y] + SumOver(f, T \ {y})
    BY <1>3, SumAnyOrder
  <2> QED  BY <2>1, <2>2, <2>3, <2>4, Zenon
<1>5. /\ {"retailer"} \ {"retailer"} = {}
      /\ {"wholesaler", "retailer"} \ {"wholesaler"} = {"retailer"}
      /\ {"distributor", "wholesaler", "retailer"} \ {"distributor"} = {"wholesaler", "retailer"}
      /\ Roles \ {"factory"} = {"distributor", "wholesaler", "retailer"}
  BY DEF Roles
<1>6. /\ f["factory"] \in Int /\ f["distributor"] \in Int
      /\ f["wholesaler"] \in Int /\ f["retailer"] \in Int
  BY DEF Roles
<1>7. Total(f) = f["factory"] + (f["distributor"] + (f["wholesaler"] + (f["retailer"] + 0)))
  BY <1>1, <1>4, <1>5, TotalIsSum, Zenon
<1> QED  BY <1>6, <1>7

(* a sum over the roles goods travel to has three. *)
LEMMA TotalOverReceivers ==
  ASSUME NEW f \in [GoodsReceivers -> Int]
  PROVE  Total(f) = f["distributor"] + f["wholesaler"] + f["retailer"]
<1>1. DOMAIN f = GoodsReceivers
  OBVIOUS
<1>3. Summable(f)
  BY <1>1, RolesFinite DEF Summable
<1>4. /\ SumOver(f, {}) = 0
      /\ SumOver(f, {"retailer"}) = f["retailer"] + SumOver(f, {"retailer"} \ {"retailer"})
      /\ SumOver(f, {"wholesaler", "retailer"})
           = f["wholesaler"] + SumOver(f, {"wholesaler", "retailer"} \ {"wholesaler"})
      /\ SumOver(f, GoodsReceivers)
           = f["distributor"] + SumOver(f, GoodsReceivers \ {"distributor"})
  <2>1. {} \subseteq DOMAIN f /\ {"retailer"} \subseteq DOMAIN f
        /\ {"wholesaler", "retailer"} \subseteq DOMAIN f
        /\ GoodsReceivers \subseteq DOMAIN f
    BY <1>1 DEF GoodsReceivers
  <2>2. /\ "retailer" \in {"retailer"} /\ "wholesaler" \in {"wholesaler", "retailer"}
        /\ "distributor" \in GoodsReceivers
    BY DEF GoodsReceivers
  <2>3. SumOver(f, {}) = 0
    BY <1>3, <2>1, SumFacts
  <2>4. \A T : T \subseteq DOMAIN f =>
          \A y \in T : SumOver(f, T) = f[y] + SumOver(f, T \ {y})
    BY <1>3, SumAnyOrder
  <2> QED  BY <2>1, <2>2, <2>3, <2>4, Zenon
<1>5. /\ {"retailer"} \ {"retailer"} = {}
      /\ {"wholesaler", "retailer"} \ {"wholesaler"} = {"retailer"}
      /\ GoodsReceivers \ {"distributor"} = {"wholesaler", "retailer"}
  BY DEF GoodsReceivers
<1>6. f["distributor"] \in Int /\ f["wholesaler"] \in Int /\ f["retailer"] \in Int
  BY DEF GoodsReceivers
<1>7. Total(f) = f["distributor"] + (f["wholesaler"] + (f["retailer"] + 0))
  BY <1>1, <1>4, <1>5, TotalIsSum, Zenon
<1> QED  BY <1>6, <1>7

-----------------------------------------------------------------------------
(* What is recorded of a role every week. *)
Fields == {"Inventory", "Backlog", "IncomingOrder", "IncomingGoods", "PlacedOrder",
           "ActualShipment", "WeeklyCost"}
(* Each of them is a natural number. *)
LEMMA FieldFacts ==
  ASSUME NEW node \in NodeState, NEW field \in Fields
  PROVE  node[field] \in Nat
BY DEF NodeState, Fields

(* A field of a role, week by week. *)
Series(role, field) == [w \in DOMAIN history |-> history[w].Nodes[role][field]]
(* Such a series is a function on the weeks recorded. *)
LEMMA SeriesFacts ==
  ASSUME TypeOK, NEW role \in Roles, NEW field \in Fields
  PROVE  /\ Series(role, field) \in [1..Len(history) -> Nat]
         /\ Series(role, field) \in [1..Len(history) -> Int]
         /\ Len(history) \in Nat
<1>1. history \in Seq(WeekState)
  BY DEF TypeOK
<1>2. ASSUME NEW w \in 1..Len(history)  PROVE history[w].Nodes[role][field] \in Nat
  <2>1. history[w] \in WeekState
    BY <1>1
  <2>2. history[w].Nodes[role] \in NodeState
    BY <2>1 DEF WeekState
  <2> QED  BY <2>2, FieldFacts
<1> QED  BY <1>1, <1>2 DEF Series

(* Every week played adds to the history what the nodes then show. *)
LEMMA HistoryGrows ==
  ASSUME Inv, Inv', NEW decisions \in Decisions, AdvanceWeek(decisions),
         NEW role \in Roles, NEW field \in Fields
  PROVE  /\ OverHistory(role, field) \in Int
         /\ OverHistory(role, field)' = OverHistory(role, field) + nodes'[role][field]
         /\ nodes'[role][field] \in Nat
<1>1. /\ currentWeek \in Nat /\ Len(history) = currentWeek /\ Len(history') = currentWeek + 1
      /\ history'[currentWeek + 1].Nodes = nodes'
      /\ \A w \in 1..currentWeek : history'[w] = history[w]
  <2>1. weekState([r \in Roles |-> nextNode(r, decisions[r])]).Nodes
          = [r \in Roles |-> nextNode(r, decisions[r])]
    BY DEF weekState
  <2> QED  BY <2>1, StepFacts
<1>2. PICK f, g : f = Series(role, field) /\ g = Series(role, field)'
  OBVIOUS
<1>3. f \in [1..currentWeek -> Int]
  BY <1>1, <1>2, SeriesFacts DEF Inv
<1>4. /\ g \in [1..(currentWeek + 1) -> Int]
      /\ g[currentWeek + 1] = nodes'[role][field]
      /\ \A w \in 1..currentWeek : g[w] = f[w]
  <2>1. history \in Seq(WeekState) /\ history' \in Seq(WeekState)
    BY DEF Inv, TypeOK
  <2>2. DOMAIN history = 1..currentWeek /\ DOMAIN history' = 1..(currentWeek + 1)
    BY <1>1, <2>1
  <2>3. g = [w \in 1..(currentWeek + 1) |-> history'[w].Nodes[role][field]]
    BY <1>2, <2>2 DEF Series
  <2>4. f = [w \in 1..currentWeek |-> history[w].Nodes[role][field]]
    BY <1>2, <2>2 DEF Series
  <2>5. \A w \in 1..(currentWeek + 1) : history'[w].Nodes[role][field] \in Nat
    <3> TAKE w \in 1..(currentWeek + 1)
    <3>1. history'[w] \in WeekState
      BY <1>1, <2>1
    <3>2. history'[w].Nodes[role] \in NodeState
      BY <3>1 DEF WeekState
    <3> QED  BY <3>2, FieldFacts
  <2> QED  BY <1>1, <2>3, <2>4, <2>5
<1>5. Total(f) \in Int /\ Total(g) = Total(f) + g[currentWeek + 1]
  <2>1. currentWeek + 1 \in Nat
    BY <1>1
  <2> QED  BY <1>1, <1>3, <1>4, <2>1, WeeksSummable, TotalGrows
<1>6. OverHistory(role, field) = Total(f) /\ OverHistory(role, field)' = Total(g)
  BY <1>2 DEF OverHistory, Series
<1>7. nodes'[role][field] \in Nat
  BY FieldFacts DEF Inv, TypeOK
<1> QED  BY <1>4, <1>5, <1>6, <1>7

(* The bookkeeping of one node: what came in is on the shelf or shipped,   *)
(* what was ordered is shipped or owed.                                    *)
LEMMA NodeBalance ==
  ASSUME Inv, NEW decisions \in Decisions, AdvanceWeek(decisions), NEW r \in Roles
  PROVE  /\ incomingGoods[r] \in Nat /\ incomingOrders[r] \in Nat
         /\ nodes[r].Inventory \in Nat /\ nodes[r].Backlog \in Nat
         /\ nodes'[r].ActualShipment \in Nat
         /\ nodes'[r].Inventory = nodes[r].Inventory + incomingGoods[r] - nodes'[r].ActualShipment
         /\ nodes'[r].Backlog = nodes[r].Backlog + incomingOrders[r] - nodes'[r].ActualShipment
         /\ nodes'[r].PlacedOrder = decisions[r] /\ decisions[r] \in Nat
         /\ nodes'[r].IncomingOrder = incomingOrders[r]
         /\ nodes'[r].WeeklyCost = nodes'[r].Inventory * BaseScenario.HoldingCost
                                   + nodes'[r].Backlog * BaseScenario.BacklogCost
<1>1. /\ currentWeek < MaxWeeks /\ nodes'[r] = nextNode(r, decisions[r]) /\ decisions[r] \in Nat
  BY StepFacts
<1>2. incomingGoods[r] \in Nat /\ incomingOrders[r] \in Nat
  BY <1>1, IncomingFacts
<1>3. nodes[r].Inventory \in Nat /\ nodes[r].Backlog \in Nat
  BY DEF Inv, TypeOK, NodeState
<1>4. PICK avail \in Nat, req \in Nat : /\ avail = nodes[r].Inventory + incomingGoods[r]
                                        /\ req = requiredOf(incomingOrders[r], nodes[r])
                                        /\ req = incomingOrders[r] + nodes[r].Backlog
  BY <1>2, <1>3 DEF requiredOf
<1>5. /\ nextNode(r, decisions[r]).ActualShipment = minInt(avail, req)
      /\ nextNode(r, decisions[r]).Inventory = avail - minInt(avail, req)
      /\ nextNode(r, decisions[r]).Backlog = maxInt(req - minInt(avail, req), 0)
      /\ nextNode(r, decisions[r]).PlacedOrder = decisions[r]
      /\ nextNode(r, decisions[r]).IncomingOrder = incomingOrders[r]
      /\ nextNode(r, decisions[r]).WeeklyCost
           = nextNode(r, decisions[r]).Inventory * BaseScenario.HoldingCost
             + nextNode(r, decisions[r]).Backlog * BaseScenario.BacklogCost
  BY <1>4 DEF nextNode, shipmentOf
<1>6. minInt(avail, req) \in Nat /\ maxInt(req - minInt(avail, req), 0) = req - minInt(avail, req)
  BY DEF minInt, maxInt
<1> HIDE DEF requiredOf
<1>7. /\ nodes'[r].ActualShipment \in Nat
      /\ nodes'[r].Inventory = nodes[r].Inventory + incomingGoods[r] - nodes'[r].ActualShipment
      /\ nodes'[r].Backlog = nodes[r].Backlog + incomingOrders[r] - nodes'[r].ActualShipment
  BY <1>1, <1>2, <1>3, <1>4, <1>5, <1>6
<1> QED  BY <1>1, <1>2, <1>3, <1>5, <1>7

(* What the queues hold in total after the week. *)
LEMMA QueuesBalance ==
  ASSUME Inv, NEW decisions \in Decisions, AdvanceWeek(decisions)
  PROVE  /\ \A r \in GoodsReceivers :
              /\ Total(goodsPipelines[r]) \in Int
              /\ Total(goodsPipelines'[r]) = Total(goodsPipelines[r]) - incomingGoods[r]
                                             + nodes'[GoodsFrom[r]].ActualShipment
         /\ \A r \in OrderReceivers :
              /\ Total(orderPipelines[r]) \in Int
              /\ Total(orderPipelines'[r]) = Total(orderPipelines[r]) - incomingOrders[r]
                                             + nodes'[OrdersFrom[r]].PlacedOrder
         /\ Total(productionQueue) \in Int
         /\ Total(productionQueue') = Total(productionQueue) - incomingGoods["factory"]
                                      + nodes'["factory"].PlacedOrder
<1>1. /\ nodes' = [r \in Roles |-> nextNode(r, decisions[r])]
      /\ orderPipelines' = nextOrderPipelines(decisions)
      /\ productionQueue' = Append(rest(productionQueue), decisions["factory"])
      /\ goodsPipelines' = nextGoodsPipelines(nodes')
  BY DEF AdvanceWeek
<1>2. \A r \in Roles : /\ nodes'[r].ActualShipment \in Nat /\ nodes'[r].PlacedOrder = decisions[r]
                       /\ decisions[r] \in Nat
  BY NodeBalance
<1>3. ASSUME NEW r \in GoodsReceivers
      PROVE  /\ Total(goodsPipelines[r]) \in Int
             /\ Total(goodsPipelines'[r]) = Total(goodsPipelines[r]) - incomingGoods[r]
                                            + nodes'[GoodsFrom[r]].ActualShipment
  <2>1. r \in Roles /\ GoodsFrom[r] \in Roles
    BY DEF GoodsReceivers, GoodsFrom, Roles
  <2>2. goodsPipelines[r] \in Seq(Nat) /\ Len(goodsPipelines[r]) # 0
    BY ScenarioFacts DEF Inv, TypeOK, DelayLines
  <2>3. goodsPipelines'[r] = Append(rest(goodsPipelines[r]), nodes'[GoodsFrom[r]].ActualShipment)
    BY <1>1 DEF nextGoodsPipelines
  <2>4. incomingGoods[r] = shifted(goodsPipelines[r])
    BY <2>1 DEF incomingGoods
  <2> QED  BY <1>2, <2>1, <2>2, <2>3, <2>4, TotalShiftAppend
<1>4. ASSUME NEW r \in OrderReceivers
      PROVE  /\ Total(orderPipelines[r]) \in Int
             /\ Total(orderPipelines'[r]) = Total(orderPipelines[r]) - incomingOrders[r]
                                            + nodes'[OrdersFrom[r]].PlacedOrder
  <2>1. r \in Roles /\ OrdersFrom[r] \in Roles
    BY DEF OrderReceivers, OrdersFrom, Roles
  <2>2. orderPipelines[r] \in Seq(Nat) /\ Len(orderPipelines[r]) # 0
    BY ScenarioFacts DEF Inv, TypeOK, DelayLines
  <2>3. orderPipelines'[r] = Append(rest(orderPipelines[r]), nodes'[OrdersFrom[r]].PlacedOrder)
    BY <1>1, <1>2, <2>1 DEF nextOrderPipelines
  <2>4. incomingOrders[r] = shifted(orderPipelines[r])
    BY <2>1 DEF incomingOrders
  <2> QED  BY <1>2, <2>1, <2>2, <2>3, <2>4, TotalShiftAppend
<1>5. /\ Total(productionQueue) \in Int
      /\ Total(productionQueue') = Total(productionQueue) - incomingGoods["factory"]
                                   + nodes'["factory"].PlacedOrder
  <2>1. "factory" \in Roles /\ "factory" \notin GoodsReceivers
    BY DEF GoodsReceivers, Roles
  <2>2. productionQueue \in Seq(Nat) /\ Len(productionQueue) # 0
    BY ScenarioFacts DEF Inv, TypeOK, DelayLines
  <2>3. productionQueue' = Append(rest(productionQueue), nodes'["factory"].PlacedOrder)
    BY <1>1, <1>2, <2>1
  <2>4. incomingGoods["factory"] = shifted(productionQueue)
    BY <2>1 DEF incomingGoods
  <2>5. nodes'["factory"].PlacedOrder \in Nat
    BY <1>2, <2>1
  <2> QED  BY <2>2, <2>3, <2>4, <2>5, TotalShiftAppend
<1> QED  BY <1>3, <1>4, <1>5

-----------------------------------------------------------------------------
(* What is in stock, written out. *)
LEMMA StockedFacts ==
  ASSUME NEW n \in [Roles -> NodeState]
  PROVE  Total([r \in Roles |-> n[r].Inventory])
           = n["factory"].Inventory + n["distributor"].Inventory
             + n["wholesaler"].Inventory + n["retailer"].Inventory
<1>1. PICK f : f = [r \in Roles |-> n[r].Inventory]
  OBVIOUS
<1>2. f \in [Roles -> Int]
  BY <1>1 DEF NodeState
<1>3. /\ f["factory"] = n["factory"].Inventory
      /\ f["distributor"] = n["distributor"].Inventory
      /\ f["wholesaler"] = n["wholesaler"].Inventory
      /\ f["retailer"] = n["retailer"].Inventory
  BY <1>1 DEF Roles
<1> QED  BY <1>1, <1>2, <1>3, TotalOverRoles

(* The same for the goods in their queues. *)
LEMMA InTransitFacts ==
  ASSUME NEW p, \A r \in GoodsReceivers : Total(p[r]) \in Int
  PROVE  Total([r \in GoodsReceivers |-> Total(p[r])])
           = Total(p["distributor"]) + Total(p["wholesaler"]) + Total(p["retailer"])
<1>1. PICK f : f = [r \in GoodsReceivers |-> Total(p[r])]
  OBVIOUS
<1>2. f \in [GoodsReceivers -> Int]
  BY <1>1
<1>3. /\ f["distributor"] = Total(p["distributor"])
      /\ f["wholesaler"] = Total(p["wholesaler"])
      /\ f["retailer"] = Total(p["retailer"])
  BY <1>1 DEF GoodsReceivers
<1> QED  BY <1>1, <1>2, <1>3, TotalOverReceivers

(* NewGameSession: four nodes with the same stock and backlog, four queues *)
(* of the same goods, and nothing recorded yet.                            *)
LEMMA ConservedInitially == Init => GoodsConserved /\ OrdersAccounted
<1> SUFFICES ASSUME Init  PROVE GoodsConserved /\ OrdersAccounted
  OBVIOUS
<1>1. TypeOK /\ nodes = [r \in Roles |-> initialNode] /\ history = <<>>
  BY InitInv DEF Init, Inv
<1>2. PICK goods, orders : /\ goods = Total(BaseScenario.InitialPipelineGoods)
                           /\ orders = Total(BaseScenario.InitialPipelineOrders)
  OBVIOUS
<1>3. goods \in Int /\ orders \in Int
  <2>1. ASSUME NEW q \in Seq(Nat)  PROVE Total(q) \in Int
    <3>1. Len(q) \in Nat /\ q \in [1..Len(q) -> Int]
      OBVIOUS
    <3> QED  BY <3>1, WeeksSummable
  <2> QED  BY <1>2, <2>1, ScenarioFacts
<1>4. /\ \A r \in GoodsReceivers : Total(goodsPipelines[r]) = goods
      /\ \A r \in OrderReceivers : Total(orderPipelines[r]) = orders
      /\ Total(productionQueue) = goods
  BY <1>2 DEF Init
<1>5. ASSUME NEW role, NEW field  PROVE OverHistory(role, field) = 0
  <2>1. DOMAIN [w \in DOMAIN history |-> history[w].Nodes[role][field]] = {}
    BY <1>1
  <2> QED  BY <2>1, TotalEmpty DEF OverHistory
<1>6. /\ BaseScenario.InitialInventory \in Nat /\ BaseScenario.InitialBacklog \in Nat
      /\ \A r \in Roles : /\ nodes[r].Inventory = BaseScenario.InitialInventory
                          /\ nodes[r].Backlog = BaseScenario.InitialBacklog
  BY <1>1, ScenarioFacts DEF initialNode
<1>7. Stocked = BaseScenario.InitialInventory + BaseScenario.InitialInventory
                + BaseScenario.InitialInventory + BaseScenario.InitialInventory
  BY <1>1, <1>6, StockedFacts DEF Roles, TypeOK, Stocked
<1>8. InTransit = goods + goods + goods + goods
  BY <1>3, <1>4, InTransitFacts DEF GoodsReceivers, InTransit
<1>9. GoodsConserved
  <2>1. InitiallyStocked = 4 * (BaseScenario.InitialInventory + goods)
    BY <1>2 DEF InitiallyStocked
  <2> QED  BY <1>3, <1>5, <1>6, <1>7, <1>8, <2>1 DEF GoodsConserved
<1>10. OrdersAccounted
  <2>1. \A r \in OrderReceivers : r \in Roles
    BY DEF OrderReceivers, Roles
  <2> QED  BY <1>2, <1>3, <1>4, <1>5, <1>6, <2>1 DEF OrdersAccounted
<1> QED  BY <1>9, <1>10

(* A unit of goods that leaves a queue is on the shelf or shipped, and     *)
(* what is shipped enters the next queue or reaches the consumer.          *)
LEMMA GoodsStep ==
  ASSUME Inv, Inv', NEW decisions \in Decisions, AdvanceWeek(decisions), GoodsConserved
  PROVE  GoodsConserved'
<1>1. /\ "factory" \in Roles /\ "distributor" \in Roles
      /\ "wholesaler" \in Roles /\ "retailer" \in Roles
      /\ "distributor" \in GoodsReceivers /\ "wholesaler" \in GoodsReceivers
      /\ "retailer" \in GoodsReceivers
      /\ GoodsFrom["distributor"] = "factory" /\ GoodsFrom["wholesaler"] = "distributor"
      /\ GoodsFrom["retailer"] = "wholesaler"
      /\ "PlacedOrder" \in Fields /\ "ActualShipment" \in Fields
  BY DEF Roles, GoodsReceivers, GoodsFrom, Fields
<1>2. /\ OverHistory("factory", "PlacedOrder") \in Int
      /\ OverHistory("factory", "PlacedOrder")'
           = OverHistory("factory", "PlacedOrder") + nodes'["factory"].PlacedOrder
      /\ nodes'["factory"].PlacedOrder \in Nat
  BY <1>1, HistoryGrows
<1>3. /\ OverHistory("retailer", "ActualShipment") \in Int
      /\ OverHistory("retailer", "ActualShipment")'
           = OverHistory("retailer", "ActualShipment") + nodes'["retailer"].ActualShipment
  BY <1>1, HistoryGrows
<1>4. \A r \in Roles :
        /\ incomingGoods[r] \in Nat /\ nodes[r].Inventory \in Nat
        /\ nodes'[r].ActualShipment \in Nat
        /\ nodes'[r].Inventory = nodes[r].Inventory + incomingGoods[r] - nodes'[r].ActualShipment
  BY NodeBalance
<1>5. /\ Total(goodsPipelines'["distributor"])
           = Total(goodsPipelines["distributor"]) - incomingGoods["distributor"]
             + nodes'["factory"].ActualShipment
      /\ Total(goodsPipelines'["wholesaler"])
           = Total(goodsPipelines["wholesaler"]) - incomingGoods["wholesaler"]
             + nodes'["distributor"].ActualShipment
      /\ Total(goodsPipelines'["retailer"])
           = Total(goodsPipelines["retailer"]) - incomingGoods["retailer"]
             + nodes'["wholesaler"].ActualShipment
      /\ Total(productionQueue')
           = Total(productionQueue) - incomingGoods["factory"] + nodes'["factory"].PlacedOrder
      /\ \A r \in GoodsReceivers : Total(goodsPipelines[r]) \in Int
      /\ Total(productionQueue) \in Int
  BY <1>1, QueuesBalance
<1>6. \A r \in GoodsReceivers : Total(goodsPipelines'[r]) \in Int
  BY <1>1, <1>4, <1>5 DEF GoodsReceivers
<1>7. /\ Stocked = nodes["factory"].Inventory + nodes["distributor"].Inventory
                   + nodes["wholesaler"].Inventory + nodes["retailer"].Inventory
      /\ Stocked' = nodes'["factory"].Inventory + nodes'["distributor"].Inventory
                    + nodes'["wholesaler"].Inventory + nodes'["retailer"].Inventory
  <2>1. nodes \in [Roles -> NodeState] /\ nodes' \in [Roles -> NodeState]
    BY DEF Inv, TypeOK
  <2> QED  BY <2>1, StockedFacts DEF Stocked
<1>8. /\ InTransit = Total(goodsPipelines["distributor"]) + Total(goodsPipelines["wholesaler"])
                     + Total(goodsPipelines["retailer"]) + Total(productionQueue)
      /\ InTransit' = Total(goodsPipelines'["distributor"]) + Total(goodsPipelines'["wholesaler"])
                      + Total(goodsPipelines'["retailer"]) + Total(productionQueue')
  <2>1. InTransit = Total([r \in GoodsReceivers |-> Total(goodsPipelines[r])])
                    + Total(productionQueue)
    BY DEF InTransit
  <2>2. InTransit' = Total([r \in GoodsReceivers |-> Total(goodsPipelines'[r])])
                     + Total(productionQueue')
    BY DEF InTransit
  <2> QED  BY <1>5, <1>6, <2>1, <2>2, InTransitFacts
<1>9. Stocked' + InTransit' + nodes'["retailer"].ActualShipment
        = Stocked + InTransit + nodes'["factory"].PlacedOrder
  BY <1>1, <1>2, <1>4, <1>5, <1>7, <1>8
<1>10. Stocked \in Int /\ Stocked' \in Int /\ InTransit \in Int /\ InTransit' \in Int
  BY <1>1, <1>2, <1>4, <1>5, <1>7, <1>8
<1>11. InitiallyStocked' = InitiallyStocked
  BY DEF InitiallyStocked
<1>12. InitiallyStocked + OverHistory("factory", "PlacedOrder")
         = Stocked + InTransit + OverHistory("retailer", "ActualShipment")
  BY DEF GoodsConserved
<1>13. InitiallyStocked \in Int
  <2>1. \E q \in Seq(Nat) : q = BaseScenario.InitialPipelineGoods /\ Len(q) # 0
    BY ScenarioFacts
  <2>2. Total(BaseScenario.InitialPipelineGoods) \in Int
    BY <2>1, TotalShiftAppend
  <2> QED  BY <2>2, ScenarioFacts DEF InitiallyStocked
<1>14. InitiallyStocked + OverHistory("factory", "PlacedOrder")'
         = Stocked' + InTransit' + OverHistory("retailer", "ActualShipment")'
  BY <1>1, <1>2, <1>3, <1>4, <1>9, <1>10, <1>12, <1>13
<1> QED  BY <1>11, <1>14 DEF GoodsConserved

(* A unit ordered enters the queue, and what leaves the queue is shipped   *)
(* or owed.                                                                *)
LEMMA OrdersStep ==
  ASSUME Inv, Inv', NEW decisions \in Decisions, AdvanceWeek(decisions), OrdersAccounted
  PROVE  OrdersAccounted'
<1> SUFFICES ASSUME NEW r \in OrderReceivers
             PROVE  BaseScenario.InitialBacklog + Total(BaseScenario.InitialPipelineOrders)
                      + OverHistory(OrdersFrom[r], "PlacedOrder")'
                    = Total(orderPipelines'[r]) + nodes'[r].Backlog
                      + OverHistory(r, "ActualShipment")'
  BY DEF OrdersAccounted
<1>1. /\ r \in Roles /\ OrdersFrom[r] \in Roles
      /\ "PlacedOrder" \in Fields /\ "ActualShipment" \in Fields
  BY DEF Roles, OrderReceivers, OrdersFrom, Fields
<1>2. /\ OverHistory(OrdersFrom[r], "PlacedOrder") \in Int
      /\ OverHistory(OrdersFrom[r], "PlacedOrder")'
           = OverHistory(OrdersFrom[r], "PlacedOrder") + nodes'[OrdersFrom[r]].PlacedOrder
      /\ nodes'[OrdersFrom[r]].PlacedOrder \in Nat
  BY <1>1, HistoryGrows
<1>3. /\ OverHistory(r, "ActualShipment") \in Int
      /\ OverHistory(r, "ActualShipment")'
           = OverHistory(r, "ActualShipment") + nodes'[r].ActualShipment
  BY <1>1, HistoryGrows
<1>4. /\ incomingOrders[r] \in Nat /\ nodes[r].Backlog \in Nat /\ nodes'[r].ActualShipment \in Nat
      /\ nodes'[r].Backlog = nodes[r].Backlog + incomingOrders[r] - nodes'[r].ActualShipment
  BY <1>1, NodeBalance
<1>5. /\ Total(orderPipelines[r]) \in Int
      /\ Total(orderPipelines'[r])
           = Total(orderPipelines[r]) - incomingOrders[r] + nodes'[OrdersFrom[r]].PlacedOrder
  BY QueuesBalance
<1>6. BaseScenario.InitialBacklog + Total(BaseScenario.InitialPipelineOrders)
        + OverHistory(OrdersFrom[r], "PlacedOrder")
      = Total(orderPipelines[r]) + nodes[r].Backlog + OverHistory(r, "ActualShipment")
  BY DEF OrdersAccounted
<1>7. BaseScenario.InitialBacklog \in Int /\ Total(BaseScenario.InitialPipelineOrders) \in Int
  <2>1. \E q \in Seq(Nat) : q = BaseScenario.InitialPipelineOrders /\ Len(q) # 0
    BY ScenarioFacts
  <2> QED  BY <2>1, TotalShiftAppend, ScenarioFacts
<1> QED  BY <1>2, <1>3, <1>4, <1>5, <1>6, <1>7

(* No unit of goods is created or lost, whatever the scenario, the orders  *)
(* and the number of weeks.                                                *)
THEOREM GoodsStayConserved == Spec => []GoodsConserved
<1>1. Inv /\ Inv' /\ GoodsConserved /\ [Next]_vars => GoodsConserved'
  <2> SUFFICES ASSUME Inv, Inv', GoodsConserved, [Next]_vars  PROVE GoodsConserved'
    OBVIOUS
  <2>1. CASE UNCHANGED vars
    BY <2>1 DEF vars, GoodsConserved, Stocked, InTransit, InitiallyStocked, OverHistory
  <2>2. CASE Next
    BY <2>2, GoodsStep DEF Next
  <2> QED  BY <2>1, <2>2
<1> QED  BY <1>1, ConservedInitially, InductiveInvariant, PTL DEF Spec

(* No order is lost on its way to the supplier or in its books.            *)
THEOREM OrdersStayAccounted == Spec => []OrdersAccounted
<1>1. Inv /\ Inv' /\ OrdersAccounted /\ [Next]_vars => OrdersAccounted'
  <2> SUFFICES ASSUME Inv, Inv', OrdersAccounted, [Next]_vars  PROVE OrdersAccounted'
    OBVIOUS
  <2>1. CASE UNCHANGED vars
    BY <2>1 DEF vars, OrdersAccounted, OverHistory
  <2>2. CASE Next
    BY <2>2, OrdersStep DEF Next
  <2> QED  BY <2>1, <2>2
<1> QED  BY <1>1, ConservedInitially, InductiveInvariant, PTL DEF Spec

-----------------------------------------------------------------------------
(* One product out of a sum. *)
LEMMA LinearStep ==
  ASSUME NEW a \in Int, NEW b \in Int, NEW c \in Int, NEW m \in Nat,
         NEW x \in Int, NEW y \in Int, NEW p \in Int, NEW q \in Int
  PROVE  a * (x + p) + b * (y + q) + c * (m + 1)
           = (a * x + b * y + c * m) + (a * p + b * q + c)
<1>1. a * (x + p) = a * x + a * p /\ b * (y + q) = b * y + b * q /\ c * (m + 1) = c * m + c
  BY Distributes, SMT
<1>2. a * x \in Int /\ a * p \in Int /\ b * y \in Int /\ b * q \in Int /\ c * m \in Int
  BY SMT
<1> QED  BY <1>1, <1>2

(* The sum of a combination of two series is that combination of the sums. *)
Combined(h, a, f, b, g, c, n) ==
  /\ f \in [1..n -> Int] /\ g \in [1..n -> Int] /\ h \in [1..n -> Int]
  /\ a \in Int /\ b \in Int /\ c \in Int
  /\ \A i \in 1..n : h[i] = a * f[i] + b * g[i] + c
(* Total distributes over such a combination. *)
LEMMA TotalLinear ==
  ASSUME NEW n \in Nat, NEW f, NEW g, NEW h, NEW a, NEW b, NEW c,
         Combined(h, a, f, b, g, c, n)
  PROVE  Total(h) = a * Total(f) + b * Total(g) + c * n
<1>0. /\ f \in [1..n -> Int] /\ g \in [1..n -> Int] /\ h \in [1..n -> Int]
      /\ a \in Int /\ b \in Int /\ c \in Int
      /\ \A i \in 1..n : h[i] = a * f[i] + b * g[i] + c
  BY DEF Combined
<1> DEFINE First(m, k) == [i \in 1..m |-> k[i]]
           P == {m \in Nat : m <= n => Total(First(m, h)) = a * Total(First(m, f))
                                         + b * Total(First(m, g)) + c * m}
<1>1. 0 \in P
  <2>1. Total(First(0, f)) = 0 /\ Total(First(0, g)) = 0 /\ Total(First(0, h)) = 0
    BY TotalEmpty
  <2>2. a * 0 = 0 /\ b * 0 = 0 /\ c * 0 = 0
    BY <1>0, SMT
  <2> HIDE DEF First
  <2> QED  BY <2>1, <2>2
<1>2. ASSUME NEW m \in Nat, m \in P  PROVE m + 1 \in P
  <2> SUFFICES ASSUME m + 1 <= n
               PROVE  Total(First(m + 1, h)) = a * Total(First(m + 1, f))
                                                 + b * Total(First(m + 1, g)) + c * (m + 1)
    <3> HIDE DEF First
    <3> QED  OBVIOUS
  <2>1. Total(First(m, h)) = a * Total(First(m, f)) + b * Total(First(m, g)) + c * m
    <3> HIDE DEF First
    <3> QED  BY <1>2
  <2>2. ASSUME NEW k \in [1..n -> Int]
        PROVE  /\ Total(First(m, k)) \in Int /\ k[m + 1] \in Int
               /\ Total(First(m + 1, k)) = Total(First(m, k)) + k[m + 1]
    <3>1. /\ First(m, k) \in [1..m -> Int] /\ First(m + 1, k) \in [1..(m + 1) -> Int]
          /\ \A i \in 1..m : First(m + 1, k)[i] = First(m, k)[i]
          /\ First(m + 1, k)[m + 1] = k[m + 1] /\ k[m + 1] \in Int /\ m + 1 \in Nat
      OBVIOUS
    <3> HIDE DEF First, P
    <3>2. Total(First(m, k)) \in Int
      BY <3>1, WeeksSummable
    <3>3. Total(First(m + 1, k)) = Total(First(m, k)) + First(m + 1, k)[m + 1]
      BY <3>1, TotalGrows
    <3> QED  BY <3>1, <3>2, <3>3
  <2>3. h[m + 1] = a * f[m + 1] + b * g[m + 1] + c
    BY <1>0
  <2> HIDE DEF First, P
  <2>4. PICK x \in Int, y \in Int, p \in Int, q \in Int :
          /\ x = Total(First(m, f)) /\ y = Total(First(m, g))
          /\ p = f[m + 1] /\ q = g[m + 1]
          /\ Total(First(m + 1, f)) = x + p /\ Total(First(m + 1, g)) = y + q
    BY <1>0, <2>2
  <2>5. Total(First(m + 1, h)) = (a * x + b * y + c * m) + (a * p + b * q + c)
    BY <1>0, <2>1, <2>2, <2>3, <2>4
  <2>6. a * (x + p) + b * (y + q) + c * (m + 1) = (a * x + b * y + c * m) + (a * p + b * q + c)
    BY <1>0, LinearStep
  <2> QED  BY <2>4, <2>5, <2>6, Zenon
<1>3. n \in P
  <2> HIDE DEF P
  <2> QED  BY <1>1, <1>2, SetInduction
<1>4. First(n, f) = f /\ First(n, g) = g /\ First(n, h) = h
  BY <1>0
<1> HIDE DEF First
<1> QED  BY <1>3, <1>4

(* varianceInts sums the squares of the deviations; the other formula is   *)
(* as good, and the division in it leaves no rest.                         *)
LEMMA VarianceFormula ==
  ASSUME NEW n \in Nat, NEW v \in [1..n -> Int]
  PROVE  varianceInts(v) = SquaresLessSquare(v)
<1>1. PICK sq, dev, S :
        /\ sq = [i \in 1..n |-> v[i] * v[i]]
        /\ S = Total(v)
        /\ dev = [i \in 1..n |-> (n * v[i] - S) * (n * v[i] - S)]
  OBVIOUS
<1>2. S \in Int
  BY <1>1, WeeksSummable
<1>3. ASSUME NEW x \in Int
      PROVE  /\ x * x \in Int /\ n * x - S \in Int /\ (n * x - S) * (n * x - S) \in Int
             /\ (n * x - S) * (n * x - S) = (n * n) * (x * x) + (0 - 2 * (n * S)) * x + S * S
  BY <1>2, SMT
<1>4. /\ sq \in [1..n -> Int] /\ dev \in [1..n -> Int]
      /\ \A i \in 1..n : dev[i] = (n * n) * sq[i] + (0 - 2 * (n * S)) * v[i] + S * S
  BY <1>1, <1>3
<1>5. n * n \in Int /\ 0 - 2 * (n * S) \in Int /\ S * S \in Int
  BY <1>2, SMT
<1>6. PICK Q \in Int : Q = Total(sq)
  BY <1>4, WeeksSummable
<1>7. Total(dev) = (n * n) * Q + (0 - 2 * (n * S)) * S + (S * S) * n
  <2>1. PICK a \in Int, b \in Int, c \in Int :
          a = n * n /\ b = 0 - 2 * (n * S) /\ c = S * S
    BY <1>5
  <2>2. \A i \in 1..n : dev[i] = a * sq[i] + b * v[i] + c
    BY <1>4, <2>1, Zenon
  <2>3. Combined(dev, a, sq, b, v, c, n)
    BY <1>4, <2>2, Zenon DEF Combined
  <2>4. Total(dev) = a * Total(sq) + b * Total(v) + c * n
    BY <2>3, TotalLinear
  <2> QED  BY <1>1, <1>6, <2>1, <2>4, Zenon
<1>8. Total(dev) = n * (n * Q - S * S)
  BY <1>2, <1>7, SMT
<1>9. Len(v) = n /\ DOMAIN v = 1..n
  BY SMT
<1>10. varianceInts(v) = Total(dev) \div (IF n = 0 THEN 1 ELSE n)
  <2>1. [i \in DOMAIN v |-> [k \in DOMAIN v |-> Len(v) * v[k] - Total(v)][i]
                              * [k \in DOMAIN v |-> Len(v) * v[k] - Total(v)][i]] = dev
    BY <1>1, <1>9
  <2> QED  BY <1>9, <2>1 DEF varianceInts, sumInts
<1>11. SquaresLessSquare(v) = n * Q - S * S
  BY <1>1, <1>6, <1>9 DEF SquaresLessSquare, sumInts
<1>12. CASE n = 0
  <2>1. S = 0 /\ Q = 0
    BY <1>1, <1>6, <1>12, TotalEmpty
  <2> QED  BY <1>8, <1>10, <1>11, <1>12, <2>1
<1>13. CASE n # 0
  <2>1. n * Q - S * S \in Int
    BY <1>2, SMT
  <2>2. ASSUME NEW x \in Int  PROVE (n * x) \div n = x
    BY <1>13, SMT
  <2> QED  BY <1>8, <1>10, <1>11, <1>13, <2>1, <2>2
<1> QED  BY <1>12, <1>13

-----------------------------------------------------------------------------
(* What every recorded week says: its cost is that of its nodes, theirs is *)
(* the price of their stock and backlog, and the retailer was asked for    *)
(* the consumer's demand.                                                  *)
WeeksAddUp ==
  \A w \in 1..Len(history) :
    LET node(r) == history[w].Nodes[r]
    IN  /\ history[w].TotalCost = node("factory").WeeklyCost + node("distributor").WeeklyCost
                                  + node("wholesaler").WeeklyCost + node("retailer").WeeklyCost
        /\ \A r \in Roles : node(r).WeeklyCost = node(r).Inventory * BaseScenario.HoldingCost
                                                 + node(r).Backlog * BaseScenario.BacklogCost
        /\ node("retailer").IncomingOrder = demand[w]

(* A week played adds up as the ones before it do. *)
LEMMA WeeksAddUpStep ==
  ASSUME Inv, NEW decisions \in Decisions, AdvanceWeek(decisions), WeeksAddUp
  PROVE  WeeksAddUp'
<1>1. /\ currentWeek \in Nat /\ Len(history) = currentWeek /\ Len(history') = currentWeek + 1
      /\ currentWeek < MaxWeeks
      /\ history'[currentWeek + 1] = weekState(nodes')
      /\ \A w \in 1..currentWeek : history'[w] = history[w]
      /\ demand' = demand
  BY StepFacts
<1>2. /\ history'[currentWeek + 1].Nodes = nodes'
      /\ history'[currentWeek + 1].TotalCost
           = nodes'["factory"].WeeklyCost + nodes'["distributor"].WeeklyCost
             + nodes'["wholesaler"].WeeklyCost + nodes'["retailer"].WeeklyCost
  BY <1>1 DEF weekState
<1>3. \A r \in Roles : nodes'[r].WeeklyCost = nodes'[r].Inventory * BaseScenario.HoldingCost
                                              + nodes'[r].Backlog * BaseScenario.BacklogCost
  BY NodeBalance
<1>4. nodes'["retailer"].IncomingOrder = demand[currentWeek + 1]
  <2>1. "retailer" \in Roles
    BY DEF Roles
  <2>2. nodes'["retailer"].IncomingOrder = incomingOrders["retailer"]
    BY <2>1, NodeBalance
  <2>3. incomingOrders["retailer"] = Game!OrdersDue("retailer", currentWeek + 1)
    BY <1>1, <2>1, IncomingFacts
  <2> QED  BY <2>2, <2>3 DEF Game!OrdersDue
<1> SUFFICES ASSUME NEW w \in 1..(currentWeek + 1)
             PROVE  /\ history'[w].TotalCost
                         = history'[w].Nodes["factory"].WeeklyCost
                           + history'[w].Nodes["distributor"].WeeklyCost
                           + history'[w].Nodes["wholesaler"].WeeklyCost
                           + history'[w].Nodes["retailer"].WeeklyCost
                    /\ \A r \in Roles :
                         history'[w].Nodes[r].WeeklyCost
                           = history'[w].Nodes[r].Inventory * BaseScenario.HoldingCost
                             + history'[w].Nodes[r].Backlog * BaseScenario.BacklogCost
                    /\ history'[w].Nodes["retailer"].IncomingOrder = demand[w]
  BY <1>1 DEF WeeksAddUp
<1>5. CASE w = currentWeek + 1
  BY <1>2, <1>3, <1>4, <1>5
<1>6. CASE w \in 1..currentWeek
  BY <1>1, <1>6 DEF WeeksAddUp
<1> QED  BY <1>1, <1>5, <1>6

(* The weeks a session has recorded always add up. *)
THEOREM WeeksStayAddedUp == Spec => []WeeksAddUp
<1>1. Init => WeeksAddUp
  BY DEF Init, WeeksAddUp
<1>2. Inv /\ WeeksAddUp /\ [Next]_vars => WeeksAddUp'
  <2> SUFFICES ASSUME Inv, WeeksAddUp, [Next]_vars  PROVE WeeksAddUp'
    OBVIOUS
  <2>1. CASE UNCHANGED vars
    BY <2>1 DEF vars, WeeksAddUp
  <2>2. CASE Next
    BY <2>2, WeeksAddUpStep DEF Next
  <2> QED  BY <2>1, <2>2
<1> QED  BY <1>1, <1>2, InductiveInvariant, PTL DEF Spec

-----------------------------------------------------------------------------
(* The sum over the weeks of the sum over the roles. *)
LEMMA TotalCostByRole ==
  ASSUME TypeOK, WeeksAddUp
  PROVE  Total([w \in DOMAIN history |-> history[w].TotalCost])
           = OverHistory("factory", "WeeklyCost") + OverHistory("distributor", "WeeklyCost")
             + OverHistory("wholesaler", "WeeklyCost") + OverHistory("retailer", "WeeklyCost")
<1>1. PICK n \in Nat : n = Len(history) /\ DOMAIN history = 1..n
  BY DEF TypeOK
<1>2. PICK f, d, s, r, all :
        /\ f = Series("factory", "WeeklyCost") /\ d = Series("distributor", "WeeklyCost")
        /\ s = Series("wholesaler", "WeeklyCost") /\ r = Series("retailer", "WeeklyCost")
        /\ all = [w \in DOMAIN history |-> history[w].TotalCost]
  OBVIOUS
<1>3. /\ f \in [1..n -> Int] /\ d \in [1..n -> Int] /\ s \in [1..n -> Int] /\ r \in [1..n -> Int]
      /\ Total(f) \in Int /\ Total(d) \in Int /\ Total(s) \in Int /\ Total(r) \in Int
  <2>1. ASSUME NEW role \in Roles
        PROVE  Series(role, "WeeklyCost") \in [1..n -> Int] /\ Total(Series(role, "WeeklyCost")) \in Int
    <3>1. Series(role, "WeeklyCost") \in [1..n -> Int]
      BY <1>1, SeriesFacts DEF Fields
    <3> QED  BY <3>1, WeeksSummable
  <2> QED  BY <1>2, <2>1 DEF Roles
<1>4. \A w \in 1..n : all[w] = f[w] + d[w] + s[w] + r[w]
  BY <1>1, <1>2 DEF WeeksAddUp, Series
<1>5. all \in [1..n -> Int]
  <2>1. \A w \in 1..n : all[w] \in Int
    BY <1>3, <1>4
  <2> QED  BY <1>1, <1>2, <2>1
<1>6. PICK fd, sr : fd = [w \in 1..n |-> f[w] + d[w]] /\ sr = [w \in 1..n |-> s[w] + r[w]]
  OBVIOUS
<1>7. fd \in [1..n -> Int] /\ sr \in [1..n -> Int]
  <2>1. \A w \in 1..n : f[w] + d[w] \in Int /\ s[w] + r[w] \in Int
    BY <1>3
  <2> QED  BY <1>6, <2>1
<1>8. /\ Combined(fd, 1, f, 1, d, 0, n) /\ Combined(sr, 1, s, 1, r, 0, n)
      /\ Combined(all, 1, fd, 1, sr, 0, n)
  <2>1. ASSUME NEW x \in Int, NEW y \in Int  PROVE x + y = 1 * x + 1 * y + 0
    BY SMT
  <2>2. \A w \in 1..n : fd[w] = f[w] + d[w] /\ sr[w] = s[w] + r[w]
    BY <1>6
  <2>3. \A w \in 1..n : f[w] \in Int /\ d[w] \in Int /\ s[w] \in Int /\ r[w] \in Int
    BY <1>3
  <2>4. \A w \in 1..n : all[w] = fd[w] + sr[w] /\ fd[w] \in Int /\ sr[w] \in Int
    BY <1>4, <2>2, <2>3
  <2>5. \A w \in 1..n : /\ fd[w] = 1 * f[w] + 1 * d[w] + 0
                        /\ sr[w] = 1 * s[w] + 1 * r[w] + 0
                        /\ all[w] = 1 * fd[w] + 1 * sr[w] + 0
    BY <2>1, <2>2, <2>3, <2>4
  <2>6. 0 \in Int /\ 1 \in Int
    OBVIOUS
  <2> QED  BY <1>3, <1>5, <1>7, <2>5, <2>6, Zenon DEF Combined
<1>9. /\ Total(fd) = 1 * Total(f) + 1 * Total(d) + 0 * n
      /\ Total(sr) = 1 * Total(s) + 1 * Total(r) + 0 * n
      /\ Total(all) = 1 * Total(fd) + 1 * Total(sr) + 0 * n
  BY <1>8, TotalLinear
<1>10. Total(all) = Total(f) + Total(d) + Total(s) + Total(r)
  BY <1>3, <1>9
<1> QED  BY <1>2, <1>10 DEF OverHistory, Series

(* What a role pays is the price of its stock and backlog. *)
LEMMA CostOfRole ==
  ASSUME TypeOK, WeeksAddUp, NEW role \in Roles
  PROVE  /\ OverHistory(role, "WeeklyCost") \in Int
         /\ OverHistory(role, "Inventory") \in Int /\ OverHistory(role, "Backlog") \in Int
         /\ OverHistory(role, "WeeklyCost")
              = BaseScenario.HoldingCost * OverHistory(role, "Inventory")
                + BaseScenario.BacklogCost * OverHistory(role, "Backlog")
<1>1. PICK n \in Nat : n = Len(history) /\ DOMAIN history = 1..n
  BY DEF TypeOK
<1>2. PICK cost, stock, owed : /\ cost = Series(role, "WeeklyCost")
                               /\ stock = Series(role, "Inventory")
                               /\ owed = Series(role, "Backlog")
  OBVIOUS
<1>3. /\ cost \in [1..n -> Int] /\ stock \in [1..n -> Int] /\ owed \in [1..n -> Int]
  BY <1>1, <1>2, SeriesFacts DEF Fields
<1>4. PICK H \in Int, B \in Int : H = BaseScenario.HoldingCost /\ B = BaseScenario.BacklogCost
  BY ScenarioFacts
<1>5. \A w \in 1..n : cost[w] = stock[w] * H + owed[w] * B
  BY <1>1, <1>2, <1>4 DEF WeeksAddUp, Series
<1>6. ASSUME NEW w \in 1..n  PROVE cost[w] = H * stock[w] + B * owed[w] + 0
  <2>1. PICK x \in Int, y \in Int : x = stock[w] /\ y = owed[w]
    BY <1>3
  <2>2. x * H + y * B = H * x + B * y + 0
    BY SMT
  <2> QED  BY <1>5, <2>1, <2>2
<1>7. Combined(cost, H, stock, B, owed, 0, n)
  BY <1>3, <1>4, <1>6 DEF Combined
<1>8. Total(cost) = H * Total(stock) + B * Total(owed) + 0 * n
  BY <1>7, TotalLinear
<1>9. Total(cost) \in Int /\ Total(stock) \in Int /\ Total(owed) \in Int
  BY <1>3, WeeksSummable
<1>10. Total(cost) = H * Total(stock) + B * Total(owed)
  BY <1>8, <1>9, SMT
<1> QED  BY <1>2, <1>4, <1>9, <1>10 DEF OverHistory, Series

(* One price for four amounts. *)
LEMMA PricesDistribute ==
  ASSUME NEW H \in Int, NEW B \in Int, NEW i1 \in Int, NEW i2 \in Int, NEW i3 \in Int,
         NEW i4 \in Int, NEW b1 \in Int, NEW b2 \in Int, NEW b3 \in Int, NEW b4 \in Int
  PROVE  (H * i1 + B * b1) + (H * i2 + B * b2) + (H * i3 + B * b3) + (H * i4 + B * b4)
           = H * (i1 + i2 + i3 + i4) + B * (b1 + b2 + b3 + b4)
BY SMT

(* The demand the bullwhip effect is measured against is the consumer's. *)
LEMMA DemandAnalyzed ==
  ASSUME Inv, WeeksAddUp
  PROVE  /\ demandSeries = SubSeq(demand, 1, Len(history))
         /\ demandSeries \in [1..Len(history) -> Int] /\ Len(history) \in Nat
<1>1. PICK n \in Nat : n = Len(history) /\ DOMAIN history = 1..n /\ n <= MaxWeeks
  BY MaxWeeksAssumption DEF Inv, TypeOK, ClockConsistent
<1>2. demand \in [1..MaxWeeks -> Nat] /\ MaxWeeks \in Nat
  BY MaxWeeksAssumption DEF Inv, TypeOK
<1>3. demandSeries = [w \in 1..n |-> demand[w]]
  BY <1>1 DEF demandSeries, WeeksAddUp
<1>4. SubSeq(demand, 1, n) = [w \in 1..n |-> demand[w]]
  BY <1>1, <1>2
<1>5. [w \in 1..n |-> demand[w]] \in [1..n -> Int]
  BY <1>1, <1>2
<1> QED  BY <1>1, <1>3, <1>4, <1>5

(* CalculateSessionAnalytics agrees with the game and with itself, after   *)
(* any number of weeks of any game.                                        *)
THEOREM AnalyticsStayAgreed == Spec => []AnalyticsAgree
<1>1. Inv /\ WeeksAddUp => AnalyticsAgree
  <2> SUFFICES ASSUME Inv, WeeksAddUp  PROVE AnalyticsAgree
    OBVIOUS
  <2>1. TypeOK
    BY DEF Inv
  <2> DEFINE cost(r) == OverHistory(r, "WeeklyCost")
             stock(r) == OverHistory(r, "Inventory")
             owed(r) == OverHistory(r, "Backlog")
             H == BaseScenario.HoldingCost
             B == BaseScenario.BacklogCost
  <2>2. \A r \in Roles : /\ cost(r) \in Int /\ stock(r) \in Int /\ owed(r) \in Int
                         /\ cost(r) = H * stock(r) + B * owed(r)
    BY <2>1, CostOfRole
  <2>3. /\ SessionAnalytics.TotalWeeks = Len(history)
        /\ SessionAnalytics.TotalCost = Total([w \in DOMAIN history |-> history[w].TotalCost])
        /\ SessionAnalytics.DemandVariance = varianceInts(demandSeries)
        /\ \A r \in Roles : /\ SessionAnalytics.NodeAnalytics[r]["TotalCost"] = cost(r)
                            /\ SessionAnalytics.NodeAnalytics[r]["AverageInventory"] = stock(r)
                            /\ SessionAnalytics.NodeAnalytics[r]["TotalBacklog"] = owed(r)
    BY DEF SessionAnalytics, NodeAnalytics, sumInts, perRole, OverHistory
  <2>4. SessionAnalytics.TotalCost
          = cost("factory") + cost("distributor") + cost("wholesaler") + cost("retailer")
    BY <2>1, <2>3, TotalCostByRole
  <2> HIDE DEF cost, stock, owed
  <2>5. /\ sumInts([r \in Roles |-> SessionAnalytics.NodeAnalytics[r]["TotalCost"]])
             = cost("factory") + cost("distributor") + cost("wholesaler") + cost("retailer")
        /\ sumInts([r \in Roles |-> SessionAnalytics.NodeAnalytics[r]["AverageInventory"]])
             = stock("factory") + stock("distributor") + stock("wholesaler") + stock("retailer")
        /\ sumInts([r \in Roles |-> SessionAnalytics.NodeAnalytics[r]["TotalBacklog"]])
             = owed("factory") + owed("distributor") + owed("wholesaler") + owed("retailer")
    <3>1. PICK c, i, b :
            /\ c = [r \in Roles |-> SessionAnalytics.NodeAnalytics[r]["TotalCost"]]
            /\ i = [r \in Roles |-> SessionAnalytics.NodeAnalytics[r]["AverageInventory"]]
            /\ b = [r \in Roles |-> SessionAnalytics.NodeAnalytics[r]["TotalBacklog"]]
      OBVIOUS
    <3>2. \A r \in Roles : c[r] = cost(r) /\ i[r] = stock(r) /\ b[r] = owed(r)
      BY <2>3, <3>1
    <3>3. c \in [Roles -> Int] /\ i \in [Roles -> Int] /\ b \in [Roles -> Int]
      BY <2>2, <3>1, <3>2
    <3>4. /\ Total(c) = c["factory"] + c["distributor"] + c["wholesaler"] + c["retailer"]
          /\ Total(i) = i["factory"] + i["distributor"] + i["wholesaler"] + i["retailer"]
          /\ Total(b) = b["factory"] + b["distributor"] + b["wholesaler"] + b["retailer"]
      BY <3>3, TotalOverRoles
    <3>5. "factory" \in Roles /\ "distributor" \in Roles /\ "wholesaler" \in Roles
          /\ "retailer" \in Roles
      BY DEF Roles
    <3> QED  BY <3>1, <3>2, <3>4, <3>5 DEF sumInts
  <2>6. cost("factory") + cost("distributor") + cost("wholesaler") + cost("retailer")
          = H * (stock("factory") + stock("distributor") + stock("wholesaler") + stock("retailer"))
            + B * (owed("factory") + owed("distributor") + owed("wholesaler") + owed("retailer"))
    <3>1. "factory" \in Roles /\ "distributor" \in Roles /\ "wholesaler" \in Roles
          /\ "retailer" \in Roles /\ H \in Int /\ B \in Int
      BY ScenarioFacts DEF Roles
    <3> HIDE DEF H, B
    <3>2. (H * stock("factory") + B * owed("factory"))
            + (H * stock("distributor") + B * owed("distributor"))
            + (H * stock("wholesaler") + B * owed("wholesaler"))
            + (H * stock("retailer") + B * owed("retailer"))
          = H * (stock("factory") + stock("distributor") + stock("wholesaler") + stock("retailer"))
            + B * (owed("factory") + owed("distributor") + owed("wholesaler") + owed("retailer"))
      BY <2>2, <3>1, PricesDistribute
    <3>3. /\ cost("factory") = H * stock("factory") + B * owed("factory")
          /\ cost("distributor") = H * stock("distributor") + B * owed("distributor")
          /\ cost("wholesaler") = H * stock("wholesaler") + B * owed("wholesaler")
          /\ cost("retailer") = H * stock("retailer") + B * owed("retailer")
      BY <2>2, <3>1, Zenon
    <3> QED  BY <3>2, <3>3, Zenon
  <2>7. SessionAnalytics.DemandVariance
          = SquaresLessSquare(SubSeq(demand, 1, SessionAnalytics.TotalWeeks))
    BY <2>3, DemandAnalyzed, VarianceFormula
  <2> QED  BY <2>4, <2>5, <2>6, <2>7, Zenon DEF AnalyticsAgree
<1> QED  BY <1>1, WeeksStayAddedUp, InductiveInvariant, PTL

-----------------------------------------------------------------------------
(* The last element of a set of places. *)
LEMMA LastPlace ==
  ASSUME NEW n \in Nat, NEW T, T \subseteq 1..n, T # {}
  PROVE  Max(T) \in T /\ \A y \in T : y <= Max(T)
<1> DEFINE P == {m \in Nat : \A U \in SUBSET (1..m) : U # {} => \E x \in U : \A y \in U : x >= y}
<1>1. 0 \in P
  <2>1. \A U \in SUBSET (1..0) : U = {}
    OBVIOUS
  <2> QED  BY <2>1
<1>2. ASSUME NEW m \in Nat, m \in P  PROVE m + 1 \in P
  <2> SUFFICES ASSUME NEW U \in SUBSET (1..(m + 1)), U # {}
               PROVE  \E x \in U : \A y \in U : x >= y
    OBVIOUS
  <2>1. CASE m + 1 \in U
    BY <2>1
  <2>2. CASE m + 1 \notin U
    <3>1. U \subseteq 1..m
      BY <2>2
    <3> QED  BY <1>2, <3>1
  <2> QED  BY <2>1, <2>2
<1>3. n \in P
  <2> HIDE DEF P
  <2> QED  BY <1>1, <1>2, SetInduction
<1>4. \E x \in T : \A y \in T : x >= y
  BY <1>3
<1>5. \A x \in T : x \in Int
  OBVIOUS
<1> HIDE DEF P
<1> QED  BY <1>4, <1>5 DEF Max

(* Of the first m + 1 places it is m + 1, and the first m places are left. *)
LEMMA LastOfFirst ==
  ASSUME NEW m \in Nat
  PROVE  Max(1..(m + 1)) = m + 1 /\ (1..(m + 1)) \ {m + 1} = 1..m /\ 1..(m + 1) # {}
<1>1. m + 1 \in Nat /\ m + 1 \in 1..(m + 1)
  OBVIOUS
<1>2. Max(1..(m + 1)) \in 1..(m + 1) /\ m + 1 <= Max(1..(m + 1))
  BY <1>1, LastPlace
<1> QED  BY <1>2

(* Rows put one below the other: how FoldLeft goes over them, the last one *)
(* last.                                                                   *)
RowFold(at, rows, g) ==
  g = [T \in SUBSET DOMAIN rows |->
         IF T = {} THEN at ELSE withRow(g[T \ {Max(T)}], rows[Max(T)])]
RowsBelow(at, rows) == CHOOSE g : RowFold(at, rows, g)

(* There is such a function. *)
LEMMA RowFoldExists ==
  ASSUME NEW at, NEW n \in Nat, NEW rows, DOMAIN rows = 1..n
  PROVE  RowFold(at, rows, RowsBelow(at, rows))
<1> DEFINE Fits(g, m) ==
             g = [T \in SUBSET (1..m) |->
                    IF T = {} THEN at ELSE withRow(g[T \ {Max(T)}], rows[Max(T)])]
           P == {m \in Nat : \E g : Fits(g, m)}
<1>1. 0 \in P
  <2>1. \A T \in SUBSET (1..0) : T = {}
    OBVIOUS
  <2>2. Fits([T \in SUBSET (1..0) |-> at], 0)
    BY <2>1
  <2> QED  BY <2>2
<1>2. ASSUME NEW m \in Nat, m \in P  PROVE m + 1 \in P
  <2>1. PICK g : Fits(g, m)
    BY <1>2
  <2> DEFINE Value(T) == withRow(g[T \ {Max(T)}], rows[Max(T)])
             h == [T \in SUBSET (1..(m + 1)) |-> IF T \subseteq 1..m THEN g[T] ELSE Value(T)]
  <2>2. ASSUME NEW T \in SUBSET (1..(m + 1)), T # {}
        PROVE  /\ T \ {Max(T)} \subseteq 1..m /\ h[T \ {Max(T)}] = g[T \ {Max(T)}]
               /\ h[T] = Value(T)
    <3>1. m + 1 \in Nat
      OBVIOUS
    <3>2. Max(T) \in T /\ \A y \in T : y <= Max(T)
      BY <2>2, <3>1, LastPlace
    <3>3. T \ {Max(T)} \subseteq 1..m
      <4>1. PICK x : x = Max(T)
        OBVIOUS
      <4>2. x \in 1..(m + 1) /\ \A y \in T : y <= x /\ y \in 1..(m + 1)
        BY <3>2, <4>1
      <4>3. ASSUME NEW y \in T, y # x  PROVE y \in 1..m
        BY <4>2, <4>3
      <4> QED  BY <4>1, <4>3
    <3>4. T \subseteq 1..m => g[T] = Value(T)
      <4>1. SUFFICES ASSUME T \in SUBSET (1..m)  PROVE g[T] = Value(T)
        OBVIOUS
      <4> HIDE DEF h
      <4> QED  BY <2>1, <2>2, <4>1
    <3> HIDE DEF Value
    <3> QED  BY <3>3, <3>4
  <2>3. {} \in SUBSET (1..(m + 1)) /\ h[{}] = at
    <3>1. {} \in SUBSET (1..m) /\ g[{}] = at
      BY <2>1
    <3> HIDE DEF Value
    <3> QED  BY <3>1
  <2>4. Fits(h, m + 1)
    <3>1. \A T \in SUBSET (1..(m + 1)) :
            h[T] = IF T = {} THEN at ELSE withRow(h[T \ {Max(T)}], rows[Max(T)])
      BY <2>2, <2>3
    <3>2. h = [T \in SUBSET (1..(m + 1)) |-> h[T]]
      BY DEF h
    <3> HIDE DEF h
    <3> QED  BY <3>1, <3>2
  <2> HIDE DEF h, Fits
  <2> QED  BY <2>4
<1>3. n \in P
  <2> HIDE DEF P
  <2> QED  BY <1>1, <1>2, SetInduction
<1>4. PICK g : Fits(g, n)
  BY <1>3
<1>5. RowFold(at, rows, g)
  BY <1>4 DEF RowFold
<1> QED  BY <1>5 DEF RowsBelow

(* No row, and one row more than the first m. *)
LEMMA RowsFolded ==
  ASSUME NEW at, NEW n \in Nat, NEW rows, DOMAIN rows = 1..n,
         NEW m \in Nat, NEW k \in Nat, k = m + 1, k <= n
  PROVE  /\ RowsBelow(at, rows)[1..0] = at
         /\ RowsBelow(at, rows)[1..k] = withRow(RowsBelow(at, rows)[1..m], rows[k])
<1>1. PICK g : g = RowsBelow(at, rows)
  OBVIOUS
<1>2. g = [T \in SUBSET (1..n) |->
             IF T = {} THEN at ELSE withRow(g[T \ {Max(T)}], rows[Max(T)])]
  <2>1. RowFold(at, rows, g)
    BY <1>1, RowFoldExists
  <2> QED  BY <2>1 DEF RowFold
<1>3. g[1..0] = at
  <2>1. 1..0 = {} /\ {} \in SUBSET (1..n)
    OBVIOUS
  <2> QED  BY <1>2, <2>1
<1>4. g[1..k] = withRow(g[1..m], rows[k])
  <2>1. PICK T : T = 1..k
    OBVIOUS
  <2>2. T \in SUBSET (1..n) /\ Max(T) = k /\ T \ {k} = 1..m /\ T # {}
    <3>1. 1..k \subseteq 1..n
      OBVIOUS
    <3>2. Max(1..k) = k /\ (1..k) \ {k} = 1..m /\ 1..k # {}
      BY LastOfFirst
    <3> QED  BY <2>1, <3>1, <3>2, Zenon
  <2> QED  BY <1>2, <2>1, <2>2
<1> QED  BY <1>1, <1>3, <1>4

(* Four rows. *)
LEMMA FourRows ==
  ASSUME NEW at, NEW rows, DOMAIN rows = 1..4
  PROVE  RowsBelow(at, rows)[1..4]
           = withRow(withRow(withRow(withRow(at, rows[1]), rows[2]), rows[3]), rows[4])
<1> DEFINE g == RowsBelow(at, rows)
<1>1. PICK n \in Nat : n = 4
  OBVIOUS
<1>2. DOMAIN rows = 1..n
  BY <1>1
<1>3. ASSUME NEW m \in Nat, NEW k \in Nat, k = m + 1, k <= n
      PROVE  g[1..0] = at /\ g[1..k] = withRow(g[1..m], rows[k])
  BY <1>2, <1>3, RowsFolded
<1> HIDE DEF g
<1>4. g[1..0] = at /\ g[1..1] = withRow(g[1..0], rows[1])
  <2>1. 0 \in Nat /\ 1 \in Nat /\ 1 = 0 + 1 /\ 1 <= n
    BY <1>1
  <2> QED  BY <1>3, <2>1
<1>5. g[1..2] = withRow(g[1..1], rows[2])
  <2>1. 1 \in Nat /\ 2 \in Nat /\ 2 = 1 + 1 /\ 2 <= n
    BY <1>1
  <2> QED  BY <1>3, <2>1
<1>6. g[1..3] = withRow(g[1..2], rows[3])
  <2>1. 3 \in Nat /\ 2 \in Nat /\ 3 = 2 + 1 /\ 3 <= n
    BY <1>1
  <2> QED  BY <1>3, <2>1
<1>7. g[1..4] = withRow(g[1..3], rows[4])
  <2>1. 3 \in Nat /\ 4 \in Nat /\ 4 = 3 + 1 /\ 4 <= n
    BY <1>1
  <2> QED  BY <1>3, <2>1
<1> QED  BY <1>4, <1>5, <1>6, <1>7 DEF g

-----------------------------------------------------------------------------
(* Weeks put one below the other, each with its rows.                      *)
WeekFold(at, weeks, g) ==
  g = [T \in SUBSET DOMAIN weeks |->
         IF T = {} THEN at ELSE writeWeek(g[T \ {Max(T)}], weeks[Max(T)])]
WeeksBelow(at, weeks) == CHOOSE g : WeekFold(at, weeks, g)

(* Such a fold exists, too. *)
LEMMA WeekFoldExists ==
  ASSUME NEW at, NEW n \in Nat, NEW weeks, DOMAIN weeks = 1..n
  PROVE  WeekFold(at, weeks, WeeksBelow(at, weeks))
<1> DEFINE Fits(g, m) ==
             g = [T \in SUBSET (1..m) |->
                    IF T = {} THEN at ELSE writeWeek(g[T \ {Max(T)}], weeks[Max(T)])]
           P == {m \in Nat : \E g : Fits(g, m)}
<1>1. 0 \in P
  <2>1. \A T \in SUBSET (1..0) : T = {}
    OBVIOUS
  <2>2. Fits([T \in SUBSET (1..0) |-> at], 0)
    BY <2>1
  <2> QED  BY <2>2
<1>2. ASSUME NEW m \in Nat, m \in P  PROVE m + 1 \in P
  <2>1. PICK g : Fits(g, m)
    BY <1>2
  <2> DEFINE Value(T) == writeWeek(g[T \ {Max(T)}], weeks[Max(T)])
             h == [T \in SUBSET (1..(m + 1)) |-> IF T \subseteq 1..m THEN g[T] ELSE Value(T)]
  <2>2. ASSUME NEW T \in SUBSET (1..(m + 1)), T # {}
        PROVE  /\ T \ {Max(T)} \subseteq 1..m /\ h[T \ {Max(T)}] = g[T \ {Max(T)}]
               /\ h[T] = Value(T)
    <3>1. m + 1 \in Nat
      OBVIOUS
    <3>2. Max(T) \in T /\ \A y \in T : y <= Max(T)
      BY <2>2, <3>1, LastPlace
    <3>3. T \ {Max(T)} \subseteq 1..m
      <4>1. PICK x : x = Max(T)
        OBVIOUS
      <4>2. x \in 1..(m + 1) /\ \A y \in T : y <= x /\ y \in 1..(m + 1)
        BY <3>2, <4>1
      <4>3. ASSUME NEW y \in T, y # x  PROVE y \in 1..m
        BY <4>2, <4>3
      <4> QED  BY <4>1, <4>3
    <3>4. T \subseteq 1..m => g[T] = Value(T)
      <4>1. SUFFICES ASSUME T \in SUBSET (1..m)  PROVE g[T] = Value(T)
        OBVIOUS
      <4> HIDE DEF h
      <4> QED  BY <2>1, <2>2, <4>1
    <3> HIDE DEF Value
    <3> QED  BY <3>3, <3>4
  <2>3. {} \in SUBSET (1..(m + 1)) /\ h[{}] = at
    <3>1. {} \in SUBSET (1..m) /\ g[{}] = at
      BY <2>1
    <3> HIDE DEF Value
    <3> QED  BY <3>1
  <2>4. Fits(h, m + 1)
    <3>1. \A T \in SUBSET (1..(m + 1)) :
            h[T] = IF T = {} THEN at ELSE writeWeek(h[T \ {Max(T)}], weeks[Max(T)])
      BY <2>2, <2>3
    <3>2. h = [T \in SUBSET (1..(m + 1)) |-> h[T]]
      BY DEF h
    <3> HIDE DEF h
    <3> QED  BY <3>1, <3>2
  <2> HIDE DEF h, Fits
  <2> QED  BY <2>4
<1>3. n \in P
  <2> HIDE DEF P
  <2> QED  BY <1>1, <1>2, SetInduction
<1>4. PICK g : Fits(g, n)
  BY <1>3
<1>5. WeekFold(at, weeks, g)
  BY <1>4 DEF WeekFold
<1> QED  BY <1>5 DEF WeeksBelow

(* No week, and one week more than the first m. *)
LEMMA WeeksFolded ==
  ASSUME NEW at, NEW n \in Nat, NEW weeks, DOMAIN weeks = 1..n,
         NEW m \in Nat, NEW k \in Nat, k = m + 1, k <= n
  PROVE  /\ WeeksBelow(at, weeks)[1..0] = at
         /\ WeeksBelow(at, weeks)[1..k] = writeWeek(WeeksBelow(at, weeks)[1..m], weeks[k])
<1>1. PICK g : g = WeeksBelow(at, weeks)
  OBVIOUS
<1>2. g = [T \in SUBSET (1..n) |->
             IF T = {} THEN at ELSE writeWeek(g[T \ {Max(T)}], weeks[Max(T)])]
  <2>1. WeekFold(at, weeks, g)
    BY <1>1, WeekFoldExists
  <2> QED  BY <2>1 DEF WeekFold
<1>3. g[1..0] = at
  <2>1. 1..0 = {} /\ {} \in SUBSET (1..n)
    OBVIOUS
  <2> QED  BY <1>2, <2>1
<1>4. g[1..k] = writeWeek(g[1..m], weeks[k])
  <2>1. PICK T : T = 1..k
    OBVIOUS
  <2>2. T \in SUBSET (1..n) /\ Max(T) = k /\ T \ {k} = 1..m /\ T # {}
    <3>1. 1..k \subseteq 1..n
      OBVIOUS
    <3>2. Max(1..k) = k /\ (1..k) \ {k} = 1..m /\ 1..k # {}
      BY LastOfFirst
    <3> QED  BY <2>1, <3>1, <3>2, Zenon
  <2> QED  BY <1>2, <2>1, <2>2
<1> QED  BY <1>1, <1>3, <1>4

(* They are what the two loops write. *)
LEMMA WeeksAreFolded ==
  writeWeeks = WeeksBelow(withHeaders(weeksHeaders), history)[DOMAIN history].sheet
BY DEF writeWeeks, WeeksBelow, WeekFold, FoldLeft, MapThenFoldSet

WeekRows(week) == [c \in 1..4 |-> weeksRow(week, AllRoles[c])]

(* A week is written as its four rows are put. *)
LEMMA RowsAreFolded ==
  ASSUME NEW at, NEW week
  PROVE  writeWeek(at, week) = RowsBelow(at, WeekRows(week))[1..4]
<1>1. DOMAIN AllRoles = 1..4
  BY DEF AllRoles
<1>2. ASSUME NEW T \in SUBSET (1..4), T # {}
      PROVE  weeksRow(week, AllRoles[Max(T)]) = WeekRows(week)[Max(T)]
  <2>1. 4 \in Nat
    OBVIOUS
  <2>2. Max(T) \in 1..4
    BY <1>2, <2>1, LastPlace
  <2> QED  BY <2>2 DEF WeekRows
<1>3. DOMAIN WeekRows(week) = 1..4
  BY DEF WeekRows
<1> DEFINE Written(g) == g = [T \in SUBSET (1..4) |->
                IF T = {} THEN at
                ELSE withRow(g[T \ {Max(T)}], weeksRow(week, AllRoles[Max(T)]))]
<1>4. writeWeek(at, week) = (CHOOSE g : Written(g))[1..4]
  BY <1>1 DEF writeWeek, FoldLeft, MapThenFoldSet
<1>5. ASSUME NEW g  PROVE Written(g) <=> RowFold(at, WeekRows(week), g)
  <2>1. [T \in SUBSET (1..4) |->
           IF T = {} THEN at ELSE withRow(g[T \ {Max(T)}], weeksRow(week, AllRoles[Max(T)]))]
        = [T \in SUBSET (1..4) |->
             IF T = {} THEN at ELSE withRow(g[T \ {Max(T)}], WeekRows(week)[Max(T)])]
    BY <1>2, Zenon
  <2> QED  BY <1>3, <2>1 DEF RowFold
<1> HIDE DEF Written
<1>6. (CHOOSE g : Written(g)) = CHOOSE g : RowFold(at, WeekRows(week), g)
  BY <1>5
<1> QED  BY <1>4, <1>6 DEF RowsBelow

-----------------------------------------------------------------------------
(* A sheet whose first k rows below its headers are filled.                *)
Filled(headers, rows, k) ==
  [sheet    |-> [i \in 1..(k + 1) |-> IF i = 1 THEN headers ELSE rows[i - 1]],
   rowIndex |-> k + 2]

(* Writing the next row fills it, and overwrites none. *)
LEMMA RowFills ==
  ASSUME NEW headers, NEW rows, NEW k \in Nat, NEW l \in Nat, l = k + 1
  PROVE  withRow(Filled(headers, rows, k), rows[l]) = Filled(headers, rows, l)
<1>1. k + 2 = l + 1 /\ (k + 2) + 1 = l + 2 /\ l + 1 # 1 /\ (l + 1) - 1 = l
  OBVIOUS
<1>2. {l + 1} \cup 1..(k + 1) = 1..(l + 1)
  OBVIOUS
<1>3. \A i \in 1..(k + 1) : i # l + 1
  OBVIOUS
<1> DEFINE old == [i \in 1..(k + 1) |-> IF i = 1 THEN headers ELSE rows[i - 1]]
           new == [i \in 1..(l + 1) |-> IF i = 1 THEN headers ELSE rows[i - 1]]
<1>4. SetSheetRow(old, l + 1, rows[l]) = new
  <2>1. DOMAIN old = 1..(k + 1)
    OBVIOUS
  <2>2. SetSheetRow(old, l + 1, rows[l])
          = [i \in 1..(l + 1) |-> IF i = l + 1 THEN rows[l] ELSE old[i]]
    BY <1>2, <2>1 DEF SetSheetRow
  <2>3. \A i \in 1..(l + 1) : (IF i = l + 1 THEN rows[l] ELSE old[i]) = new[i]
    <3>1. ASSUME NEW i \in 1..(l + 1), i # l + 1  PROVE i \in 1..(k + 1)
      BY <3>1
    <3>2. l + 1 \in 1..(l + 1) /\ new[l + 1] = rows[l]
      BY <1>1
    <3> QED  BY <3>1, <3>2
  <2> HIDE DEF old
  <2> QED  BY <2>2, <2>3
<1>5. Filled(headers, rows, k).sheet = old /\ Filled(headers, rows, k).rowIndex = l + 1
  BY <1>1 DEF Filled
<1>6. Filled(headers, rows, l) = [sheet |-> new, rowIndex |-> (l + 1) + 1]
  BY <1>1 DEF Filled
<1> HIDE DEF old, new
<1> QED  BY <1>4, <1>5, <1>6 DEF withRow

(* The headers alone. *)
LEMMA HeadersFill ==
  ASSUME NEW headers, NEW rows
  PROVE  withHeaders(headers) = Filled(headers, rows, 0)
<1>1. SetSheetRow(<<>>, 1, headers) = [i \in 1..1 |-> IF i = 1 THEN headers ELSE rows[i - 1]]
  BY DEF SetSheetRow
<1> QED  BY <1>1 DEF withHeaders, Filled

(* Four rows fill four. *)
LEMMA FourFill ==
  ASSUME NEW headers, NEW rows, NEW k \in Nat, NEW four, DOMAIN four = 1..4,
         \A c \in 1..4 : four[c] = rows[k + c]
  PROVE  RowsBelow(Filled(headers, rows, k), four)[1..4] = Filled(headers, rows, k + 4)
<1>1. PICK k1 \in Nat, k2 \in Nat, k3 \in Nat, k4 \in Nat :
        k1 = k + 1 /\ k2 = k1 + 1 /\ k3 = k2 + 1 /\ k4 = k3 + 1 /\ k4 = k + 4
  OBVIOUS
<1>2. four[1] = rows[k1] /\ four[2] = rows[k2] /\ four[3] = rows[k3] /\ four[4] = rows[k4]
  <2>1. k + 2 = k2 /\ k + 3 = k3
    BY <1>1
  <2> QED  BY <1>1, <2>1
<1>3. withRow(Filled(headers, rows, k), four[1]) = Filled(headers, rows, k1)
  BY <1>1, <1>2, RowFills
<1>4. withRow(Filled(headers, rows, k1), four[2]) = Filled(headers, rows, k2)
  BY <1>1, <1>2, RowFills
<1>5. withRow(Filled(headers, rows, k2), four[3]) = Filled(headers, rows, k3)
  BY <1>1, <1>2, RowFills
<1>6. withRow(Filled(headers, rows, k3), four[4]) = Filled(headers, rows, k4)
  BY <1>1, <1>2, RowFills
<1> QED  BY <1>1, <1>3, <1>4, <1>5, <1>6, FourRows

-----------------------------------------------------------------------------
(* Which week and which role the k-th row is about.                        *)
WeekOf(k) == (k - 1) \div 4 + 1
PlaceOf(k) == ((k - 1) % 4) + 1
WeeksRows == [k \in 1..(4 * Len(history)) |->
                weeksRow(history[WeekOf(k)], AllRoles[PlaceOf(k)])]

(* The rows of week w are those from 4 * (w - 1) + 1 to 4 * w.             *)
LEMMA RowOfWeek ==
  ASSUME NEW w \in Nat \ {0}, NEW c \in 1..4
  PROVE  /\ 4 * (w - 1) + c \in Nat \ {0}
         /\ WeekOf(4 * (w - 1) + c) = w /\ PlaceOf(4 * (w - 1) + c) = c
<1>1. PICK v \in Nat : v = w - 1
  OBVIOUS
<1>2. 4 * v + c \in Nat \ {0}
  OBVIOUS
<1>3. (4 * v + c - 1) \div 4 = v
  BY SMT
<1>4. (4 * v + c - 1) % 4 = c - 1
  BY SMT
<1>5. v + 1 = w /\ (c - 1) + 1 = c
  BY <1>1
<1> QED  BY <1>1, <1>2, <1>3, <1>4, <1>5 DEF WeekOf, PlaceOf

(* Every row is one of some week. *)
LEMMA WeekOfRow ==
  ASSUME NEW n \in Nat, NEW k \in 1..(4 * n)
  PROVE  WeekOf(k) \in 1..n /\ PlaceOf(k) \in 1..4 /\ k = 4 * (WeekOf(k) - 1) + PlaceOf(k)
<1>1. PICK q, r : q = (k - 1) \div 4 /\ r = (k - 1) % 4
  OBVIOUS
<1>2. q \in Int /\ r \in 0..3 /\ k - 1 = 4 * q + r
  BY <1>1, SMT
<1>3. q + 1 \in 1..n /\ r + 1 \in 1..4 /\ k = 4 * ((q + 1) - 1) + (r + 1)
  BY <1>2, SMT
<1> QED  BY <1>1, <1>3 DEF WeekOf, PlaceOf

(* The weeks fill the sheet with those rows. *)
LEMMA WeeksFill ==
  ASSUME NEW n \in Nat, DOMAIN history = 1..n, Len(history) = n
  PROVE  writeWeeks = [i \in 1..(4 * n + 1) |->
                         IF i = 1 THEN weeksHeaders ELSE WeeksRows[i - 1]]
<1> DEFINE at == withHeaders(weeksHeaders)
           g == WeeksBelow(at, history)
           P == {m \in Nat : m <= n => g[1..m] = Filled(weeksHeaders, WeeksRows, 4 * m)}
<1>1. ASSUME NEW m \in Nat, NEW k \in Nat, k = m + 1, k <= n
      PROVE  g[1..0] = at /\ g[1..k] = writeWeek(g[1..m], history[k])
  BY <1>1, WeeksFolded
<1>2. at = Filled(weeksHeaders, WeeksRows, 0)
  BY HeadersFill
<1> HIDE DEF at, g
<1>3. ASSUME NEW m \in Nat, m \in P  PROVE m + 1 \in P
  <2>1. SUFFICES ASSUME m + 1 <= n
                 PROVE  g[1..(m + 1)] = Filled(weeksHeaders, WeeksRows, 4 * (m + 1))
    OBVIOUS
  <2>2. PICK k \in Nat, r \in Nat : k = m + 1 /\ r = 4 * m /\ r + 4 = 4 * k
    OBVIOUS
  <2>3. g[1..m] = Filled(weeksHeaders, WeeksRows, r)
    BY <1>3, <2>1, <2>2
  <2>4. g[1..k] = writeWeek(g[1..m], history[k])
    BY <1>1, <2>1, <2>2
  <2>5. writeWeek(g[1..m], history[k]) = RowsBelow(g[1..m], WeekRows(history[k]))[1..4]
    BY RowsAreFolded
  <2>6. ASSUME NEW c \in 1..4  PROVE WeekRows(history[k])[c] = WeeksRows[r + c]
    <3>1. k \in Nat \ {0} /\ r = 4 * (k - 1) /\ r + c \in 1..(4 * n)
      BY <2>1, <2>2
    <3>2. WeekOf(r + c) = k /\ PlaceOf(r + c) = c
      BY <3>1, RowOfWeek
    <3> QED  BY <3>1, <3>2 DEF WeeksRows, WeekRows
  <2>7. DOMAIN WeekRows(history[k]) = 1..4
    BY DEF WeekRows
  <2>8. RowsBelow(Filled(weeksHeaders, WeeksRows, r), WeekRows(history[k]))[1..4]
          = Filled(weeksHeaders, WeeksRows, r + 4)
    BY <2>6, <2>7, FourFill
  <2> QED  BY <2>2, <2>3, <2>4, <2>5, <2>8
<1>4. g[1..n] = Filled(weeksHeaders, WeeksRows, 4 * n)
  <2>1. CASE n = 0
    <3>1. g[{}] = at
      <4>1. WeekFold(at, history, g)
        BY WeekFoldExists DEF g
      <4>2. {} \in SUBSET DOMAIN history
        OBVIOUS
      <4> QED  BY <4>1, <4>2 DEF WeekFold
    <3>2. 1..n = {} /\ 4 * n = 0
      BY <2>1
    <3> QED  BY <1>2, <3>1, <3>2
  <2>2. CASE n # 0
    <3>1. 0 \in P
      <4>1. g[1..0] = at
        <5>1. 1 \in Nat /\ 0 \in Nat /\ 1 = 0 + 1 /\ 1 <= n
          BY <2>2
        <5> QED  BY <1>1, <5>1
      <4>2. 4 * 0 = 0
        OBVIOUS
      <4> QED  BY <1>2, <4>1, <4>2
    <3>2. n \in P
      <4> HIDE DEF P
      <4> QED  BY <1>3, <3>1, SetInduction
    <3> QED  BY <3>2
  <2> QED  BY <2>1, <2>2
<1>5. writeWeeks = g[1..n].sheet
  BY WeeksAreFolded DEF g, at
<1> QED  BY <1>4, <1>5 DEF Filled

-----------------------------------------------------------------------------
(* What stands under a heading that no other column has. *)
Holds(sheet, headers, rows, n) ==
  sheet = [i \in 1..(n + 1) |-> IF i = 1 THEN headers ELSE rows[i - 1]]
Heads(headers, c, heading) ==
  /\ c \in DOMAIN headers /\ headers[c] = heading
  /\ \A d \in DOMAIN headers : headers[d] = heading => d = c
Under(rows, n, c) == [i \in 2..(n + 1) |-> rows[i - 1][c]]
Shows(sheet, heading, rows, n, c) ==
  DOMAIN sheet \ {1} = 2..(n + 1) /\ Column(sheet, heading) = Under(rows, n, c)

(* A column of such a sheet shows what its place in the rows holds. *)
LEMMA ColumnUnder ==
  ASSUME NEW headers, NEW rows, NEW n \in Nat, NEW sheet, Holds(sheet, headers, rows, n),
         NEW c, NEW heading, Heads(headers, c, heading)
  PROVE  Shows(sheet, heading, rows, n, c)
<1> USE DEF Holds, Under, Heads, Shows
<1>1. 1 \in 1..(n + 1) /\ sheet[1] = headers
  OBVIOUS
<1>2. DOMAIN sheet \ {1} = 2..(n + 1)
  <2>1. (1..(n + 1)) \ {1} = 2..(n + 1)
    OBVIOUS
  <2> QED  BY <2>1
<1>3. (CHOOSE d \in DOMAIN sheet[1] : sheet[1][d] = heading) = c
  BY <1>1
<1>4. Column(sheet, heading) = [i \in DOMAIN sheet \ {1} |-> sheet[i][c]]
  BY <1>3 DEF Column
<1>5. \A i \in 2..(n + 1) : sheet[i] = rows[i - 1]
  OBVIOUS
<1> QED  BY <1>2, <1>4, <1>5

(* No two headings are the same. *)
LEMMA HeadingsDiffer ==
  /\ DOMAIN weeksHeaders = 1..9 /\ DOMAIN analyticsHeaders = 1..7
  /\ \A c, d \in 1..9 : weeksHeaders[d] = weeksHeaders[c] => d = c
  /\ \A c, d \in 1..7 : analyticsHeaders[d] = analyticsHeaders[c] => d = c
BY DEF weeksHeaders, analyticsHeaders

(* The books of the weeks, a number to a row. *)
RowAt(i) == history[WeekOf(i - 1)].Nodes[AllRoles[PlaceOf(i - 1)]]
ColumnIs(n, heading, field) ==
  Column(writeWeeks, heading) = [i \in 2..(4 * n + 1) |-> RowAt(i)[field]]

(* Under every heading of the sheet of the weeks stands its field. *)
LEMMA WeeksColumns ==
  ASSUME NEW n \in Nat, DOMAIN history = 1..n, Len(history) = n
  PROVE  /\ DOMAIN writeWeeks = 1..(4 * n + 1)
         /\ DOMAIN writeWeeks \ {1} = 2..(4 * n + 1)
         /\ Column(writeWeeks, "Week") = [i \in 2..(4 * n + 1) |-> history[WeekOf(i - 1)].Week]
         /\ Column(writeWeeks, "Role") = [i \in 2..(4 * n + 1) |-> AllRoles[PlaceOf(i - 1)]]
         /\ ColumnIs(n, "Incoming Order", "IncomingOrder")
         /\ ColumnIs(n, "Incoming Goods", "IncomingGoods")
         /\ ColumnIs(n, "Inventory", "Inventory") /\ ColumnIs(n, "Backlog", "Backlog")
         /\ ColumnIs(n, "Placed Order", "PlacedOrder")
         /\ ColumnIs(n, "Shipment", "ActualShipment")
         /\ ColumnIs(n, "Weekly Cost", "WeeklyCost")
<1>1. PICK m \in Nat : m = 4 * n
  OBVIOUS
<1>2. Holds(writeWeeks, weeksHeaders, WeeksRows, m)
  BY <1>1, WeeksFill DEF Holds
<1>3. ASSUME NEW c \in 1..9, NEW heading, heading = weeksHeaders[c]
      PROVE  /\ DOMAIN writeWeeks \ {1} = 2..(m + 1)
             /\ Column(writeWeeks, heading) = Under(WeeksRows, m, c)
  <2>1. Heads(weeksHeaders, c, heading)
    BY <1>3, HeadingsDiffer DEF Heads
  <2>2. Shows(writeWeeks, heading, WeeksRows, m, c)
    BY <1>2, <2>1, ColumnUnder
  <2> QED  BY <2>2 DEF Shows
<1>4. ASSUME NEW i \in 2..(m + 1)
      PROVE  /\ WeeksRows[i - 1][1] = history[WeekOf(i - 1)].Week
             /\ WeeksRows[i - 1][2] = AllRoles[PlaceOf(i - 1)]
             /\ WeeksRows[i - 1][3] = RowAt(i)["IncomingOrder"]
             /\ WeeksRows[i - 1][4] = RowAt(i)["IncomingGoods"]
             /\ WeeksRows[i - 1][5] = RowAt(i)["Inventory"]
             /\ WeeksRows[i - 1][6] = RowAt(i)["Backlog"]
             /\ WeeksRows[i - 1][7] = RowAt(i)["PlacedOrder"]
             /\ WeeksRows[i - 1][8] = RowAt(i)["ActualShipment"]
             /\ WeeksRows[i - 1][9] = RowAt(i)["WeeklyCost"]
  <2>1. i - 1 \in 1..(4 * n)
    BY <1>1
  <2> QED  BY <2>1 DEF WeeksRows, weeksRow, RowAt
<1>5. /\ weeksHeaders[1] = "Week" /\ weeksHeaders[2] = "Role"
      /\ weeksHeaders[3] = "Incoming Order" /\ weeksHeaders[4] = "Incoming Goods"
      /\ weeksHeaders[5] = "Inventory" /\ weeksHeaders[6] = "Backlog"
      /\ weeksHeaders[7] = "Placed Order" /\ weeksHeaders[8] = "Shipment"
      /\ weeksHeaders[9] = "Weekly Cost"
  BY DEF weeksHeaders
<1>6. DOMAIN writeWeeks = 1..(m + 1) /\ DOMAIN writeWeeks \ {1} = 2..(m + 1)
  BY <1>2, <1>3 DEF Holds
<1>7. Column(writeWeeks, "Week") = [i \in 2..(m + 1) |-> history[WeekOf(i - 1)].Week]
  <2>1. 1 \in 1..9
    OBVIOUS
  <2>2. Column(writeWeeks, "Week") = Under(WeeksRows, m, 1)
    BY <1>3, <1>5, <2>1, Zenon
  <2> QED  BY <1>4, <2>2 DEF Under
<1>8. Column(writeWeeks, "Role") = [i \in 2..(m + 1) |-> AllRoles[PlaceOf(i - 1)]]
  <2>1. 2 \in 1..9
    OBVIOUS
  <2>2. Column(writeWeeks, "Role") = Under(WeeksRows, m, 2)
    BY <1>3, <1>5, <2>1, Zenon
  <2> QED  BY <1>4, <2>2 DEF Under
<1>9. Column(writeWeeks, "Incoming Order") = [i \in 2..(m + 1) |-> RowAt(i)["IncomingOrder"]]
  <2>1. 3 \in 1..9
    OBVIOUS
  <2>2. Column(writeWeeks, "Incoming Order") = Under(WeeksRows, m, 3)
    BY <1>3, <1>5, <2>1, Zenon
  <2> QED  BY <1>4, <2>2 DEF Under
<1>10. Column(writeWeeks, "Incoming Goods") = [i \in 2..(m + 1) |-> RowAt(i)["IncomingGoods"]]
  <2>1. 4 \in 1..9
    OBVIOUS
  <2>2. Column(writeWeeks, "Incoming Goods") = Under(WeeksRows, m, 4)
    BY <1>3, <1>5, <2>1, Zenon
  <2> QED  BY <1>4, <2>2 DEF Under
<1>11. Column(writeWeeks, "Inventory") = [i \in 2..(m + 1) |-> RowAt(i)["Inventory"]]
  <2>1. 5 \in 1..9
    OBVIOUS
  <2>2. Column(writeWeeks, "Inventory") = Under(WeeksRows, m, 5)
    BY <1>3, <1>5, <2>1, Zenon
  <2> QED  BY <1>4, <2>2 DEF Under
<1>12. Column(writeWeeks, "Backlog") = [i \in 2..(m + 1) |-> RowAt(i)["Backlog"]]
  <2>1. 6 \in 1..9
    OBVIOUS
  <2>2. Column(writeWeeks, "Backlog") = Under(WeeksRows, m, 6)
    BY <1>3, <1>5, <2>1, Zenon
  <2> QED  BY <1>4, <2>2 DEF Under
<1>13. Column(writeWeeks, "Placed Order") = [i \in 2..(m + 1) |-> RowAt(i)["PlacedOrder"]]
  <2>1. 7 \in 1..9
    OBVIOUS
  <2>2. Column(writeWeeks, "Placed Order") = Under(WeeksRows, m, 7)
    BY <1>3, <1>5, <2>1, Zenon
  <2> QED  BY <1>4, <2>2 DEF Under
<1>14. Column(writeWeeks, "Shipment") = [i \in 2..(m + 1) |-> RowAt(i)["ActualShipment"]]
  <2>1. 8 \in 1..9
    OBVIOUS
  <2>2. Column(writeWeeks, "Shipment") = Under(WeeksRows, m, 8)
    BY <1>3, <1>5, <2>1, Zenon
  <2> QED  BY <1>4, <2>2 DEF Under
<1>15. Column(writeWeeks, "Weekly Cost") = [i \in 2..(m + 1) |-> RowAt(i)["WeeklyCost"]]
  <2>1. 9 \in 1..9
    OBVIOUS
  <2>2. Column(writeWeeks, "Weekly Cost") = Under(WeeksRows, m, 9)
    BY <1>3, <1>5, <2>1, Zenon
  <2> QED  BY <1>4, <2>2 DEF Under
<1> QED  BY <1>1, <1>6, <1>7, <1>8, <1>9, <1>10, <1>11, <1>12, <1>13, <1>14, <1>15 DEF ColumnIs

-----------------------------------------------------------------------------
(* The sum of a column is the total of its part in those rows. *)
PartOf(f, sheet, rows, heading) == f = [i \in rows |-> Column(sheet, heading)[i]]

(* So all that is known of totals holds of sums of columns. *)
LEMMA ColumnSumIsTotal ==
  ASSUME NEW sheet, NEW rows, NEW heading, NEW f, PartOf(f, sheet, rows, heading)
  PROVE  ColumnSum(sheet, rows, heading) = Total(f)
<1> DEFINE column == Column(sheet, heading)
           Written(g) == g = [T \in SUBSET rows |->
             IF T = {} THEN 0 ELSE column[Picked(T)] + g[T \ {Picked(T)}]]
<1>1. ColumnSum(sheet, rows, heading) = (CHOOSE g : Written(g))[rows]
  BY DEF ColumnSum, MapThenSumSet, MapThenFoldSet, Picked
<1>2. DOMAIN f = rows /\ \A i \in rows : f[i] = column[i]
  BY DEF PartOf
<1> HIDE DEF column
<1>3. ASSUME NEW T \in SUBSET rows, T # {}  PROVE column[Picked(T)] = f[Picked(T)]
  BY <1>2, <1>3 DEF Picked
<1>4. ASSUME NEW g  PROVE Written(g) <=> SumsOf(f, g)
  <2>1. [T \in SUBSET rows |-> IF T = {} THEN 0 ELSE column[Picked(T)] + g[T \ {Picked(T)}]]
        = [T \in SUBSET rows |-> IF T = {} THEN 0 ELSE f[Picked(T)] + g[T \ {Picked(T)}]]
    BY <1>3, Zenon
  <2> QED  BY <1>2, <2>1 DEF SumsOf
<1> HIDE DEF Written
<1>5. (CHOOSE g : Written(g)) = CHOOSE g : SumsOf(f, g)
  BY <1>4
<1> QED  BY <1>1, <1>2, <1>5, TotalIsSum DEF SumOver

(* A total is the same under other names for the arguments. *)
Renames(f, s, at, n) ==
  /\ s \in [1..n -> Int] /\ IsFiniteSet(DOMAIN f)
  /\ DOMAIN f = {at[w] : w \in 1..n} /\ f = [i \in DOMAIN f |-> f[i]]
  /\ \A w \in 1..n : f[at[w]] = s[w]
  /\ \A v, w \in 1..n : at[v] = at[w] => v = w

(* By induction on how many of them are summed. *)
LEMMA TotalRenamed ==
  ASSUME NEW n \in Nat, NEW s, NEW at, NEW f, Renames(f, s, at, n)
  PROVE  Total(f) = Total(s)
<1>0. s \in [1..n -> Int] /\ \A w \in 1..n : f[at[w]] = s[w]
  BY DEF Renames
<1>1. Summable(s) /\ DOMAIN s = 1..n
  BY <1>0, WeeksSummable
<1>2. Summable(f)
  <2>1. f \in [DOMAIN f -> Int]
    BY DEF Renames
  <2> QED  BY <2>1 DEF Renames, Summable
<1> DEFINE First(m) == {at[w] : w \in 1..m}
           P == {m \in Nat : m <= n => SumOver(f, First(m)) = SumOver(s, 1..m)}
<1>3. 0 \in P
  <2>1. First(0) = {} /\ 1..0 = {}
    OBVIOUS
  <2>2. SumOver(f, {}) = 0 /\ SumOver(s, {}) = 0
    BY <1>1, <1>2, SumFacts
  <2> QED  BY <2>1, <2>2
<1>4. ASSUME NEW m \in Nat, m \in P  PROVE m + 1 \in P
  <2>1. SUFFICES ASSUME m + 1 <= n
                 PROVE  SumOver(f, First(m + 1)) = SumOver(s, 1..(m + 1))
    OBVIOUS
  <2>2. PICK k \in 1..n : k = m + 1
    BY <2>1
  <2>3. /\ First(k) \subseteq DOMAIN f /\ at[k] \in First(k)
        /\ First(k) \ {at[k]} = First(m)
    <3>1. 1..k \subseteq 1..n /\ k \in 1..k /\ (1..k) \ {k} = 1..m
      BY <2>2
    <3>2. DOMAIN f = {at[w] : w \in 1..n} /\ \A v, w \in 1..n : at[v] = at[w] => v = w
      BY DEF Renames
    <3> QED  BY <3>1, <3>2
  <2>4. 1..k \subseteq DOMAIN s /\ k \in 1..k /\ (1..k) \ {k} = 1..m
    BY <2>2, <1>1
  <2> HIDE DEF First
  <2>5. SumOver(f, First(k)) = f[at[k]] + SumOver(f, First(m))
    <3>1. PICK T, U, y : T = First(k) /\ U = First(m) /\ y = at[k]
      OBVIOUS
    <3>2. T \subseteq DOMAIN f /\ y \in T /\ U = T \ {y}
      BY <2>3, <3>1
    <3>3. SumOver(f, T) = f[y] + SumOver(f, U)
      <4>1. SumOver(f, T) = f[y] + SumOver(f, T \ {y})
        BY <1>2, <3>2, SumAnyOrder
      <4> QED  BY <1>2, <3>2, <4>1, Zenon
    <3> QED  BY <3>1, <3>3
  <2>6. SumOver(s, 1..k) = s[k] + SumOver(s, 1..m)
    <3>1. PICK T, U : T = 1..k /\ U = 1..m
      OBVIOUS
    <3>2. T \subseteq DOMAIN s /\ k \in T /\ U = T \ {k}
      BY <2>4, <3>1
    <3>3. SumOver(s, T) = s[k] + SumOver(s, U)
      <4>1. SumOver(s, T) = s[k] + SumOver(s, T \ {k})
        BY <1>1, <3>2, SumAnyOrder
      <4> QED  BY <1>1, <3>2, <4>1, Zenon
    <3> QED  BY <3>1, <3>3
  <2>7. SumOver(f, First(m)) = SumOver(s, 1..m)
    BY <1>4, <2>1
  <2> QED  BY <1>0, <2>2, <2>5, <2>6, <2>7
<1>5. n \in P
  <2> HIDE DEF P
  <2> QED  BY <1>3, <1>4, SetInduction
<1>6. First(n) = DOMAIN f
  BY DEF Renames
<1> QED  BY <1>1, <1>5, <1>6, TotalIsSum

(* What the last place of an interval adds to the sum over it. *)
OnePlace(f, l, a, b) ==
  /\ l \in Nat /\ a \in Nat /\ b \in Nat /\ b = a + 1 /\ l <= b /\ l..b \subseteq DOMAIN f

(* The sum to the next place adds what stands there. *)
LEMMA SumToNext ==
  ASSUME NEW f, Summable(f), NEW l, NEW a, NEW b, OnePlace(f, l, a, b)
  PROVE  /\ SumOver(f, l..b) = f[b] + SumOver(f, l..a)
         /\ f[b] \in Int /\ SumOver(f, l..a) \in Int
<1> USE DEF OnePlace
<1>1. PICK T, U : T = l..b /\ U = l..a
  OBVIOUS
<1>2. b \in l..b /\ (l..b) \ {b} = l..a
  <2>1. \A i \in l..b : i # b => i \in l..a
    OBVIOUS
  <2>2. \A i \in l..a : i \in l..b /\ i # b
    OBVIOUS
  <2>3. b \in l..b
    OBVIOUS
  <2> QED  BY <2>1, <2>2, <2>3
<1>3. T \subseteq DOMAIN f /\ b \in T /\ U = T \ {b} /\ U \subseteq DOMAIN f
  BY <1>1, <1>2
<1>4. SumOver(f, T) = f[b] + SumOver(f, U)
  <2>1. SumOver(f, T) = f[b] + SumOver(f, T \ {b})
    BY <1>3, SumAnyOrder
  <2> QED  BY <1>3, <2>1, Zenon
<1>5. SumOver(f, U) \in Int
  BY <1>3, SumAgrees
<1>6. f[b] \in Int
  BY <1>3 DEF Summable
<1> QED  BY <1>1, <1>4, <1>5, <1>6

(* Four places more. *)
FourPlaces(f, l, b, b1, b2, b3, b4) ==
  OnePlace(f, l, b, b1) /\ OnePlace(f, l, b1, b2) /\ OnePlace(f, l, b2, b3)
    /\ OnePlace(f, l, b3, b4)

(* The sum to the fourth place after adds the four. *)
LEMMA SumToFourth ==
  ASSUME NEW f, Summable(f), NEW l, NEW b, NEW b1, NEW b2, NEW b3, NEW b4,
         FourPlaces(f, l, b, b1, b2, b3, b4)
  PROVE  /\ SumOver(f, l..b4) = (f[b1] + f[b2] + f[b3] + f[b4]) + SumOver(f, l..b)
         /\ SumOver(f, l..b) \in Int
<1>1. OnePlace(f, l, b, b1) /\ OnePlace(f, l, b1, b2) /\ OnePlace(f, l, b2, b3)
        /\ OnePlace(f, l, b3, b4)
  BY DEF FourPlaces
<1>2. SumOver(f, l..b1) = f[b1] + SumOver(f, l..b) /\ f[b1] \in Int /\ SumOver(f, l..b) \in Int
  BY <1>1, SumToNext
<1>3. SumOver(f, l..b2) = f[b2] + SumOver(f, l..b1) /\ f[b2] \in Int
  BY <1>1, SumToNext
<1>4. SumOver(f, l..b3) = f[b3] + SumOver(f, l..b2) /\ f[b3] \in Int
  BY <1>1, SumToNext
<1>5. SumOver(f, l..b4) = f[b4] + SumOver(f, l..b3) /\ f[b4] \in Int
  BY <1>1, SumToNext
<1> QED  BY <1>2, <1>3, <1>4, <1>5

(* A total of four rows a week is the total of the weeks. *)
ByFours(f, s, n) ==
  /\ s \in [1..n -> Int] /\ f \in [2..(4 * n + 1) -> Int]
  /\ \A w \in 1..n : LET i == 4 * (w - 1)
                      IN  s[w] = f[i + 2] + f[i + 3] + f[i + 4] + f[i + 5]

(* By induction on the weeks. *)
LEMMA TotalByFours ==
  ASSUME NEW n \in Nat, NEW s, NEW f, ByFours(f, s, n)
  PROVE  Total(f) = Total(s)
<1>1. Summable(s) /\ DOMAIN s = 1..n
  BY WeeksSummable DEF ByFours
<1>2. Summable(f) /\ DOMAIN f = 2..(4 * n + 1)
  BY FS_Interval DEF ByFours, Summable
<1> DEFINE P == {m \in Nat : m <= n => SumOver(f, 2..(4 * m + 1)) = SumOver(s, 1..m)}
<1>3. 0 \in P
  <2>1. 2..(4 * 0 + 1) = {} /\ 1..0 = {}
    OBVIOUS
  <2>2. SumOver(f, {}) = 0 /\ SumOver(s, {}) = 0
    BY <1>1, <1>2, SumFacts
  <2> QED  BY <2>1, <2>2
<1>4. ASSUME NEW m \in Nat, m \in P  PROVE m + 1 \in P
  <2>1. SUFFICES ASSUME m + 1 <= n
                 PROVE  SumOver(f, 2..(4 * (m + 1) + 1)) = SumOver(s, 1..(m + 1))
    OBVIOUS
  <2>2. PICK k \in 1..n : k = m + 1
    BY <2>1
  <2>3. PICK i \in Nat : i = 4 * m + 1 /\ i = 4 * (k - 1) + 1 /\ 4 * (m + 1) + 1 = i + 4
                        /\ i + 4 <= 4 * n + 1 /\ i >= 1
    BY <2>2
  <2>4. 2..(i + 4) \subseteq DOMAIN f
    BY <1>2, <2>3
  <2>5. /\ SumOver(f, 2..(i + 4))
             = (f[i + 1] + f[i + 2] + f[i + 3] + f[i + 4]) + SumOver(f, 2..i)
        /\ SumOver(f, 2..i) \in Int
    <3>1. PICK l \in Nat, b1 \in Nat, b2 \in Nat, b3 \in Nat, b4 \in Nat :
            l = 2 /\ b1 = i + 1 /\ b2 = i + 2 /\ b3 = i + 3 /\ b4 = i + 4
      OBVIOUS
    <3>2. b2 = b1 + 1 /\ b3 = b2 + 1 /\ b4 = b3 + 1 /\ l <= b1
      BY <2>3, <3>1
    <3>3. /\ l..b1 \subseteq l..b4 /\ l..b2 \subseteq l..b4 /\ l..b3 \subseteq l..b4
          /\ l..b4 \subseteq DOMAIN f
      BY <2>4, <3>1
    <3>4. FourPlaces(f, l, i, b1, b2, b3, b4)
      BY <3>1, <3>2, <3>3 DEF FourPlaces, OnePlace
    <3>5. /\ SumOver(f, l..b4) = (f[b1] + f[b2] + f[b3] + f[b4]) + SumOver(f, l..i)
          /\ SumOver(f, l..i) \in Int
      BY <1>2, <3>4, SumToFourth
    <3> QED  BY <3>1, <3>5
  <2>6. SumOver(s, 1..k) = s[k] + SumOver(s, 1..m)
    <3>1. PICK a \in Nat, b \in Nat, l \in Nat : /\ a = m /\ b = k /\ l = 1
                                                 /\ b = a + 1 /\ l <= b /\ b <= n
      BY <2>2
    <3>2. l..b \subseteq DOMAIN s
      BY <1>1, <3>1
    <3>3. OnePlace(s, l, a, b)
      BY <3>1, <3>2 DEF OnePlace
    <3>4. SumOver(s, l..b) = s[b] + SumOver(s, l..a)
      BY <1>1, <3>3, SumToNext
    <3> QED  BY <3>1, <3>4
  <2>7. SumOver(f, 2..i) = SumOver(s, 1..m)
    BY <1>4, <2>1, <2>3
  <2>8. s[k] = f[i + 1] + f[i + 2] + f[i + 3] + f[i + 4]
    <3>1. PICK j \in Nat : j = 4 * (k - 1) /\ j + 1 = i
      BY <2>3
    <3>2. s[k] = f[j + 2] + f[j + 3] + f[j + 4] + f[j + 5]
      BY <3>1 DEF ByFours
    <3>3. j + 2 = i + 1 /\ j + 3 = i + 2 /\ j + 4 = i + 3 /\ j + 5 = i + 4
      BY <3>1
    <3> QED  BY <3>2, <3>3
  <2>9. SumOver(f, 2..(i + 4)) = SumOver(s, 1..k)
    BY <2>5, <2>6, <2>7, <2>8
  <2> QED  BY <2>2, <2>3, <2>9
<1>5. n \in P
  <2> HIDE DEF P
  <2> QED  BY <1>3, <1>4, SetInduction
<1> QED  BY <1>1, <1>2, <1>5, TotalIsSum

-----------------------------------------------------------------------------
(* What is recorded of a week balances with what was recorded a week       *)
(* before, or what the game began with.                                    *)
Balanced(node, prev) ==
  /\ node.Inventory + node.ActualShipment = prev.Inventory + node.IncomingGoods
  /\ node.Backlog + node.ActualShipment = prev.Backlog + node.IncomingOrder
WeekBefore(w, r) == IF w = 1 THEN initialNode ELSE history[w - 1].Nodes[r]
BooksBalance ==
  \A w \in 1..Len(history) : \A r \in Roles :
    Balanced(history[w].Nodes[r], WeekBefore(w, r))

(* A week played balances, and those before it are as they were. *)
LEMMA BooksBalanceStep ==
  ASSUME Inv, NEW decisions \in Decisions, AdvanceWeek(decisions), BooksBalance
  PROVE  BooksBalance'
<1>1. /\ currentWeek \in Nat /\ Len(history) = currentWeek /\ Len(history') = currentWeek + 1
      /\ history'[currentWeek + 1] = weekState(nodes')
      /\ \A w \in 1..currentWeek : history'[w] = history[w]
  BY StepFacts
<1>2. nodes = IF currentWeek = 0 THEN [r \in Roles |-> initialNode] ELSE history[currentWeek].Nodes
  BY DEF Inv, ClockConsistent
<1>3. ASSUME NEW r \in Roles  PROVE Balanced(history'[currentWeek + 1].Nodes[r], nodes[r])
  <2>1. /\ incomingGoods[r] \in Nat /\ incomingOrders[r] \in Nat
        /\ nodes[r].Inventory \in Nat /\ nodes[r].Backlog \in Nat
        /\ nodes'[r].ActualShipment \in Nat
        /\ nodes'[r].Inventory = nodes[r].Inventory + incomingGoods[r] - nodes'[r].ActualShipment
        /\ nodes'[r].Backlog = nodes[r].Backlog + incomingOrders[r] - nodes'[r].ActualShipment
        /\ nodes'[r].IncomingOrder = incomingOrders[r]
    BY NodeBalance
  <2>2. nodes'[r].IncomingGoods = incomingGoods[r]
    <3>1. nodes'[r] = nextNode(r, decisions[r])
      BY StepFacts
    <3> QED  BY <3>1 DEF nextNode
  <2>3. history'[currentWeek + 1].Nodes = nodes'
    BY <1>1 DEF weekState
  <2>4. Balanced(nodes'[r], nodes[r])
    BY <2>1, <2>2 DEF Balanced
  <2> QED  BY <2>3, <2>4
<1>k. PICK k : k = currentWeek + 1
  OBVIOUS
<1>4. ASSUME NEW r \in Roles  PROVE WeekBefore(k, r)' = nodes[r]
  <2>1. CASE currentWeek = 0
    BY <1>k, <1>1, <1>2, <2>1 DEF WeekBefore, initialNode
  <2>2. CASE currentWeek # 0
    <3>1. k # 1 /\ k - 1 = currentWeek /\ currentWeek \in 1..currentWeek
      BY <1>1, <1>k, <2>2
    <3>2. WeekBefore(k, r)' = history'[k - 1].Nodes[r]
      BY <3>1 DEF WeekBefore
    <3> QED  BY <1>1, <1>2, <2>2, <3>1, <3>2
  <2> QED  BY <2>1, <2>2
<1>5. ASSUME NEW w \in 1..currentWeek, NEW r \in Roles
      PROVE  Balanced(history'[w].Nodes[r], WeekBefore(w, r)')
  <2>1. Balanced(history[w].Nodes[r], WeekBefore(w, r))
    BY <1>1 DEF BooksBalance
  <2>2. WeekBefore(w, r)' = WeekBefore(w, r)
    <3>1. w # 1 => w - 1 \in 1..currentWeek
      BY <1>1
    <3> QED  BY <1>1, <3>1 DEF WeekBefore, initialNode
  <2> QED  BY <1>1, <2>1, <2>2
<1>6. ASSUME NEW w \in 1..Len(history'), NEW r \in Roles
      PROVE  Balanced(history'[w].Nodes[r], WeekBefore(w, r)')
  <2>1. w = k \/ w \in 1..currentWeek
    BY <1>1, <1>k
  <2> QED  BY <1>3, <1>4, <1>5, <1>k, <2>1
<1> QED  BY <1>6 DEF BooksBalance

(* The books of every week balance. *)
THEOREM BooksStayBalanced == Spec => []BooksBalance
<1>1. Init => BooksBalance
  BY DEF Init, BooksBalance
<1>2. Inv /\ BooksBalance /\ [Next]_vars => BooksBalance'
  <2> SUFFICES ASSUME Inv, BooksBalance, [Next]_vars  PROVE BooksBalance'
    OBVIOUS
  <2>1. CASE UNCHANGED vars
    BY <2>1 DEF vars, BooksBalance, WeekBefore
  <2>2. CASE Next
    BY <2>2, BooksBalanceStep DEF Next
  <2> QED  BY <2>1, <2>2
<1> QED  BY <1>1, <1>2, InductiveInvariant, PTL DEF Spec

-----------------------------------------------------------------------------
(* What a row is about. *)
LEMMA RowFacts ==
  ASSUME TypeOK, NEW i \in 2..(4 * Len(history) + 1)
  PROVE  /\ WeekOf(i - 1) \in 1..Len(history) /\ PlaceOf(i - 1) \in 1..4
         /\ AllRoles[PlaceOf(i - 1)] \in Roles
         /\ i = 4 * (WeekOf(i - 1) - 1) + PlaceOf(i - 1) + 1
         /\ RowAt(i) \in NodeState
<1>1. Len(history) \in Nat /\ \A w \in 1..Len(history) : history[w] \in WeekState
  BY DEF TypeOK
<1>2. PICK n, k : n \in Nat /\ n = Len(history) /\ k = i - 1 /\ k \in 1..(4 * n)
  BY <1>1
<1>3. WeekOf(k) \in 1..n /\ PlaceOf(k) \in 1..4 /\ k = 4 * (WeekOf(k) - 1) + PlaceOf(k)
  BY <1>2, WeekOfRow
<1>4. \A c \in 1..4 : AllRoles[c] \in Roles
  BY DEF AllRoles, Roles
<1>5. history[WeekOf(k)].Nodes \in [Roles -> NodeState]
  BY <1>1, <1>2, <1>3 DEF WeekState
<1>6. i = k + 1
  BY <1>2
<1> QED  BY <1>2, <1>3, <1>4, <1>5, <1>6 DEF RowAt

(* The row for a role in a week. *)
IsRow(i, n, w, c) == n \in Nat /\ w \in 1..n /\ c \in 1..4 /\ i = 4 * (w - 1) + c + 1

(* Where it stands, there the week and the role are read off. *)
LEMMA RowOf ==
  ASSUME NEW n, NEW w, NEW c, NEW i, IsRow(i, n, w, c)
  PROVE  /\ i \in 2..(4 * n + 1)
         /\ WeekOf(i - 1) = w /\ PlaceOf(i - 1) = c
         /\ RowAt(i) = history[w].Nodes[AllRoles[c]]
<1> USE DEF IsRow
<1>1. w \in Nat \ {0} /\ i - 1 = 4 * (w - 1) + c
  OBVIOUS
<1>2. WeekOf(i - 1) = w /\ PlaceOf(i - 1) = c
  BY <1>1, RowOfWeek
<1>3. i \in 2..(4 * n + 1)
  OBVIOUS
<1> QED  BY <1>2, <1>3 DEF RowAt

(* Four rows up stands the same role, a week before. *)
LEMMA RowBefore ==
  ASSUME NEW n, NEW w, NEW c, NEW i, IsRow(i, n, w, c)
  PROVE  /\ w = 1 => i - 4 \notin 2..(4 * n + 1)
         /\ w # 1 => IsRow(i - 4, n, w - 1, c)
BY DEF IsRow

(* So the rows balance. *)
LEMMA RowsBalance ==
  ASSUME TypeOK, BooksBalance, NEW i \in 2..(4 * Len(history) + 1)
  PROVE  Balanced(RowAt(i), IF i - 4 \in 2..(4 * Len(history) + 1) THEN RowAt(i - 4)
                                                                  ELSE initialNode)
<1>1. PICK n \in Nat : n = Len(history)
  BY DEF TypeOK
<1>2. PICK w \in 1..n, c \in 1..4 : /\ w = WeekOf(i - 1) /\ c = PlaceOf(i - 1)
                                    /\ i = 4 * (w - 1) + c + 1 /\ AllRoles[c] \in Roles
  BY <1>1, RowFacts
<1>0. IsRow(i, n, w, c)
  BY <1>2 DEF IsRow
<1>3. PICK r \in Roles : r = AllRoles[c]
  BY <1>2
<1>4. RowAt(i) = history[w].Nodes[r] /\ Balanced(history[w].Nodes[r], WeekBefore(w, r))
  BY <1>1, <1>2, <1>3 DEF RowAt, BooksBalance
<1>5. CASE w = 1
  <2>1. i - 4 \notin 2..(4 * n + 1)
    BY <1>0, <1>5, RowBefore
  <2> QED  BY <1>1, <1>4, <1>5, <2>1 DEF WeekBefore
<1>6. CASE w # 1
  <2>1. PICK v : v = w - 1
    OBVIOUS
  <2>2. IsRow(i - 4, n, v, c)
    BY <1>0, <1>6, <2>1, RowBefore
  <2>3. i - 4 \in 2..(4 * n + 1) /\ RowAt(i - 4) = history[v].Nodes[AllRoles[c]]
    BY <2>2, RowOf
  <2> QED  BY <1>1, <1>3, <1>4, <1>6, <2>1, <2>3 DEF WeekBefore
<1> QED  BY <1>5, <1>6

(* All rows together cost what the weeks cost. *)
LEMMA SheetCost ==
  ASSUME TypeOK, WeeksAddUp
  PROVE  ColumnSum(writeWeeks, DOMAIN writeWeeks \ {1}, "Weekly Cost")
           = Total([w \in DOMAIN history |-> history[w].TotalCost])
<1>1. PICK n \in Nat : n = Len(history) /\ DOMAIN history = 1..n
  BY DEF TypeOK
<1>2. \A w \in 1..n : history[w] \in WeekState
  BY <1>1 DEF TypeOK
<1>3. PICK s, f : /\ s = [w \in 1..n |-> history[w].TotalCost]
                 /\ f = [i \in 2..(4 * n + 1) |-> RowAt(i)["WeeklyCost"]]
  OBVIOUS
<1>4. /\ DOMAIN writeWeeks \ {1} = 2..(4 * n + 1)
      /\ Column(writeWeeks, "Weekly Cost") = f
  BY <1>1, <1>3, WeeksColumns DEF ColumnIs
<1>5. ColumnSum(writeWeeks, 2..(4 * n + 1), "Weekly Cost") = Total(f)
  <2>1. PartOf(f, writeWeeks, 2..(4 * n + 1), "Weekly Cost")
    BY <1>3, <1>4 DEF PartOf
  <2> QED  BY <2>1, ColumnSumIsTotal
<1>6. ByFours(f, s, n)
  <2>1. s \in [1..n -> Int]
    BY <1>2, <1>3 DEF WeekState
  <2>2. f \in [2..(4 * n + 1) -> Int]
    <3>1. \A i \in 2..(4 * n + 1) : RowAt(i)["WeeklyCost"] \in Int
      BY <1>1, RowFacts DEF NodeState
    <3> QED  BY <1>3, <3>1
  <2>3. ASSUME NEW w \in 1..n, NEW i, i = 4 * (w - 1)
        PROVE  s[w] = f[i + 2] + f[i + 3] + f[i + 4] + f[i + 5]
    <3>1. ASSUME NEW c \in 1..4
          PROVE  f[i + c + 1] = history[w].Nodes[AllRoles[c]].WeeklyCost
      <4>1. PICK j : j = 4 * (w - 1) + c + 1 /\ j = i + c + 1
        BY <2>3
      <4>2. j \in 2..(4 * n + 1) /\ RowAt(j) = history[w].Nodes[AllRoles[c]]
        <5>1. IsRow(j, n, w, c)
          BY <4>1 DEF IsRow
        <5> QED  BY <5>1, RowOf
      <4> QED  BY <1>3, <4>1, <4>2
    <3>2. /\ AllRoles[1] = "factory" /\ AllRoles[2] = "distributor"
          /\ AllRoles[3] = "wholesaler" /\ AllRoles[4] = "retailer"
      BY DEF AllRoles
    <3>3. i \in Int /\ i + 1 + 1 = i + 2 /\ i + 2 + 1 = i + 3 /\ i + 3 + 1 = i + 4
          /\ i + 4 + 1 = i + 5
      BY <2>3
    <3>4. /\ f[i + 2] = history[w].Nodes["factory"].WeeklyCost
          /\ f[i + 3] = history[w].Nodes["distributor"].WeeklyCost
          /\ f[i + 4] = history[w].Nodes["wholesaler"].WeeklyCost
          /\ f[i + 5] = history[w].Nodes["retailer"].WeeklyCost
      BY <3>1, <3>2, <3>3
    <3>5. s[w] = history[w].Nodes["factory"].WeeklyCost + history[w].Nodes["distributor"].WeeklyCost
                 + history[w].Nodes["wholesaler"].WeeklyCost
                 + history[w].Nodes["retailer"].WeeklyCost
      BY <1>1, <1>3 DEF WeeksAddUp
    <3> QED  BY <3>4, <3>5
  <2> QED  BY <2>1, <2>2, <2>3 DEF ByFours
<1>7. Total(f) = Total(s)
  BY <1>6, TotalByFours
<1> QED  BY <1>1, <1>3, <1>4, <1>5, <1>7

(* The rows of a role. *)
RoleRows(c) == {i \in 2..(4 * Len(history) + 1) : PlaceOf(i - 1) = c}
RowNumbers(at, c) == at = [w \in 1..Len(history) |-> 4 * (w - 1) + c + 1]
Numbered(at, c) ==
  /\ RoleRows(c) = {at[w] : w \in 1..Len(history)}
  /\ \A w \in 1..Len(history) : at[w] \in RoleRows(c) /\ WeekOf(at[w] - 1) = w
                                /\ RowAt(at[w]) = history[w].Nodes[AllRoles[c]]
  /\ \A v, w \in 1..Len(history) : at[v] = at[w] => v = w

(* They are one a week, in the order of the weeks. *)
LEMMA RoleRowsFacts ==
  ASSUME TypeOK, NEW c \in 1..4, NEW at, RowNumbers(at, c)
  PROVE  Numbered(at, c)
<1>1. PICK n \in Nat : n = Len(history)
  BY DEF TypeOK
<1>2. ASSUME NEW w \in 1..n
      PROVE  /\ at[w] \in RoleRows(c) /\ WeekOf(at[w] - 1) = w
             /\ RowAt(at[w]) = history[w].Nodes[AllRoles[c]]
  <2>1. PICK i : i = 4 * (w - 1) + c + 1 /\ i = at[w]
    BY <1>1 DEF RowNumbers
  <2>2. /\ i \in 2..(4 * n + 1) /\ WeekOf(i - 1) = w /\ PlaceOf(i - 1) = c
        /\ RowAt(i) = history[w].Nodes[AllRoles[c]]
    <3>1. IsRow(i, n, w, c)
      BY <2>1 DEF IsRow
    <3> QED  BY <3>1, RowOf
  <2> QED  BY <1>1, <2>1, <2>2 DEF RoleRows
<1>3. ASSUME NEW i \in RoleRows(c)  PROVE \E w \in 1..n : i = at[w]
  <2>1. i \in 2..(4 * Len(history) + 1) /\ PlaceOf(i - 1) = c
    BY DEF RoleRows
  <2>2. WeekOf(i - 1) \in 1..n /\ i = 4 * (WeekOf(i - 1) - 1) + c + 1
    BY <1>1, <2>1, RowFacts
  <2> QED  BY <1>1, <2>2 DEF RowNumbers
<1>4. \A v, w \in 1..n : at[v] = at[w] => v = w
  BY <1>2
<1>5. RoleRows(c) = {at[w] : w \in 1..n}
  BY <1>2, <1>3
<1> QED  BY <1>1, <1>2, <1>4, <1>5 DEF Numbered

(* They are the rows that bear its name. *)
LEMMA RowsOfRole ==
  ASSUME TypeOK, NEW c \in 1..4
  PROVE  RowsOf(writeWeeks, AllRoles[c]) = RoleRows(c)
<1>1. PICK n \in Nat : n = Len(history) /\ DOMAIN history = 1..n
  BY DEF TypeOK
<1>2. Column(writeWeeks, "Role") = [i \in 2..(4 * n + 1) |-> AllRoles[PlaceOf(i - 1)]]
  BY <1>1, WeeksColumns
<1>3. \A d \in 1..4 : AllRoles[d] = AllRoles[c] => d = c
  BY DEF AllRoles
<1>4. \A i \in 2..(4 * n + 1) : PlaceOf(i - 1) \in 1..4
  BY <1>1, RowFacts
<1> QED  BY <1>1, <1>2, <1>3, <1>4 DEF RowsOf, RoleRows

(* What they sum up to is what the analytics report of the role. *)
LEMMA RoleSum ==
  ASSUME TypeOK, NEW c \in 1..4, NEW heading, NEW field \in Fields,
         ColumnIs(Len(history), heading, field)
  PROVE  ColumnSum(writeWeeks, RoleRows(c), heading) = sumInts(perRole(AllRoles[c], field))
<1>1. PICK n \in Nat : n = Len(history) /\ DOMAIN history = 1..n
  BY DEF TypeOK
<1>2. AllRoles[c] \in Roles
  BY DEF AllRoles, Roles
<1>3. PICK s, f, at : /\ s = Series(AllRoles[c], field)
                     /\ f = [i \in RoleRows(c) |-> RowAt(i)[field]]
                     /\ RowNumbers(at, c)
  BY DEF RowNumbers
<1>4. /\ RoleRows(c) = {at[w] : w \in 1..n}
      /\ \A w \in 1..n : RowAt(at[w]) = history[w].Nodes[AllRoles[c]]
      /\ \A v, w \in 1..n : at[v] = at[w] => v = w
  <2>1. Numbered(at, c)
    BY <1>3, RoleRowsFacts
  <2> QED  BY <1>1, <2>1 DEF Numbered
<1>5. RoleRows(c) \subseteq 2..(4 * n + 1)
  BY <1>1 DEF RoleRows
<1>6. PartOf(f, writeWeeks, RoleRows(c), heading)
  <2>1. Column(writeWeeks, heading) = [i \in 2..(4 * n + 1) |-> RowAt(i)[field]]
    BY <1>1 DEF ColumnIs
  <2> QED  BY <1>3, <1>5, <2>1 DEF PartOf
<1>7. Renames(f, s, at, n)
  <2>1. IsFiniteSet(RoleRows(c))
    <3>1. IsFiniteSet(2..(4 * n + 1))
      BY FS_Interval
    <3> QED  BY <1>5, <3>1, FS_Subset
  <2>2. s \in [1..n -> Int]
    BY <1>1, <1>2, <1>3, SeriesFacts
  <2>3. DOMAIN f = RoleRows(c) /\ f = [i \in DOMAIN f |-> f[i]]
    BY <1>3
  <2>4. \A w \in 1..n : f[at[w]] = s[w]
    BY <1>1, <1>3, <1>4 DEF Series
  <2> QED  BY <1>4, <2>1, <2>2, <2>3, <2>4 DEF Renames
<1>8. Total(f) = Total(s)
  BY <1>7, TotalRenamed
<1>9. ColumnSum(writeWeeks, RoleRows(c), heading) = Total(f)
  BY <1>6, ColumnSumIsTotal
<1> QED  BY <1>3, <1>8, <1>9 DEF sumInts, perRole, Series

(* They bear every week. *)
LEMMA RoleWeeks ==
  ASSUME Inv, NEW c \in 1..4
  PROVE  {Column(writeWeeks, "Week")[k] : k \in RoleRows(c)} = 1..Len(history)
<1>1. PICK n \in Nat : n = Len(history) /\ DOMAIN history = 1..n
  BY DEF Inv, TypeOK
<1>2. \A w \in 1..n : history[w].Week = w
  BY <1>1 DEF Inv, ClockConsistent
<1>3. Column(writeWeeks, "Week") = [i \in 2..(4 * n + 1) |-> history[WeekOf(i - 1)].Week]
  BY <1>1, WeeksColumns
<1>4. \A k \in RoleRows(c) : /\ k \in 2..(4 * n + 1) /\ WeekOf(k - 1) \in 1..n
                             /\ Column(writeWeeks, "Week")[k] = WeekOf(k - 1)
  <2>1. \A k \in RoleRows(c) : k \in 2..(4 * n + 1) /\ WeekOf(k - 1) \in 1..n
    BY <1>1, RowFacts DEF Inv, RoleRows
  <2> QED  BY <1>2, <1>3, <2>1
<1>5. ASSUME NEW w \in 1..n  PROVE \E k \in RoleRows(c) : WeekOf(k - 1) = w
  <2>1. PICK at : RowNumbers(at, c)
    BY DEF RowNumbers
  <2>2. Numbered(at, c)
    BY <2>1, RoleRowsFacts DEF Inv
  <2> QED  BY <1>1, <2>2 DEF Numbered
<1> QED  BY <1>1, <1>4, <1>5

-----------------------------------------------------------------------------
(* The sheet of the analytics: its headers alone, or a row for every role. *)
NodeRows == [c \in 1..4 |-> analyticsRow(SessionAnalytics, AllRoles[c])]

(* Before the first week it has its headers only. *)
LEMMA NoNodeRows ==
  ASSUME history = <<>>
  PROVE  DOMAIN writeAnalytics(SessionAnalytics) \ {1} = {}
<1> DEFINE at == withHeaders(analyticsHeaders)
           row(role) == analyticsRow(SessionAnalytics, role)
           Written(g) == g = [T \in SUBSET DOMAIN <<>> |->
             IF T = {} THEN at ELSE withRow(g[T \ {Max(T)}], row(<<>>[Max(T)]))]
<1>1. writeAnalytics(SessionAnalytics) = (CHOOSE g : Written(g))[DOMAIN <<>>].sheet
  BY DEF writeAnalytics, FoldLeft, MapThenFoldSet
<1>2. DOMAIN <<>> = {} /\ \A T \in SUBSET {} : T = {}
  OBVIOUS
<1> HIDE DEF at, row
<1>3. Written([T \in SUBSET {} |-> at])
  BY <1>2
<1>4. ASSUME NEW g, Written(g)  PROVE g[{}] = at
  BY <1>2, <1>4
<1> HIDE DEF Written
<1>5. (CHOOSE g : Written(g))[{}] = at
  BY <1>3, <1>4
<1>6. DOMAIN at.sheet = {1}
  <2>1. at.sheet = SetSheetRow(<<>>, 1, analyticsHeaders)
    BY DEF at, withHeaders
  <2> QED  BY <2>1 DEF SetSheetRow
<1> QED  BY <1>1, <1>2, <1>5, <1>6

(* From then on it holds its headers and a row for every role. *)
LEMMA AnalyticsFill ==
  ASSUME history # <<>>
  PROVE  Holds(writeAnalytics(SessionAnalytics), analyticsHeaders, NodeRows, 4)
<1> DEFINE at == withHeaders(analyticsHeaders)
           row(role) == analyticsRow(SessionAnalytics, role)
           Written(g) == g = [T \in SUBSET (1..4) |->
             IF T = {} THEN at ELSE withRow(g[T \ {Max(T)}], row(AllRoles[Max(T)]))]
<1>1. DOMAIN AllRoles = 1..4
  BY DEF AllRoles
<1>2. writeAnalytics(SessionAnalytics) = (CHOOSE g : Written(g))[1..4].sheet
  BY <1>1 DEF writeAnalytics, FoldLeft, MapThenFoldSet
<1> HIDE DEF at
<1>3. ASSUME NEW T \in SUBSET (1..4), T # {}  PROVE row(AllRoles[Max(T)]) = NodeRows[Max(T)]
  <2>1. 4 \in Nat
    OBVIOUS
  <2>2. Max(T) \in 1..4
    BY <1>3, <2>1, LastPlace
  <2> QED  BY <2>2 DEF NodeRows
<1> HIDE DEF row
<1>4. DOMAIN NodeRows = 1..4
  BY DEF NodeRows
<1>5. ASSUME NEW g  PROVE Written(g) <=> RowFold(at, NodeRows, g)
  <2>1. [T \in SUBSET (1..4) |->
           IF T = {} THEN at ELSE withRow(g[T \ {Max(T)}], row(AllRoles[Max(T)]))]
        = [T \in SUBSET (1..4) |->
             IF T = {} THEN at ELSE withRow(g[T \ {Max(T)}], NodeRows[Max(T)])]
    BY <1>3, Zenon
  <2> QED  BY <1>4, <2>1 DEF RowFold
<1> HIDE DEF Written
<1>6. (CHOOSE g : Written(g)) = CHOOSE g : RowFold(at, NodeRows, g)
  BY <1>5
<1>7. writeAnalytics(SessionAnalytics) = RowsBelow(at, NodeRows)[1..4].sheet
  BY <1>2, <1>6 DEF RowsBelow
<1>8. at = Filled(analyticsHeaders, NodeRows, 0)
  BY HeadersFill DEF at
<1>9. RowsBelow(Filled(analyticsHeaders, NodeRows, 0), NodeRows)[1..4]
        = Filled(analyticsHeaders, NodeRows, 0 + 4)
  <2>1. \A c \in 1..4 : NodeRows[c] = NodeRows[0 + c]
    OBVIOUS
  <2>2. 0 \in Nat
    OBVIOUS
  <2> QED  BY <1>4, <2>1, <2>2, FourFill
<1>10. Filled(analyticsHeaders, NodeRows, 0 + 4).sheet
         = [i \in 1..(4 + 1) |-> IF i = 1 THEN analyticsHeaders ELSE NodeRows[i - 1]]
  BY DEF Filled
<1> QED  BY <1>7, <1>8, <1>9, <1>10 DEF Holds

(* Its columns. *)
LEMMA AnalyticsColumns ==
  ASSUME history # <<>>
  PROVE  /\ DOMAIN writeAnalytics(SessionAnalytics) \ {1} = 2..5
         /\ \A i \in 2..5 :
              LET role == AllRoles[i - 1]
                  At(heading) == Column(writeAnalytics(SessionAnalytics), heading)[i]
              IN  /\ At("Role") = role
                  /\ At("Total Cost") = sumInts(perRole(role, "WeeklyCost"))
                  /\ At("Average Inventory") = sumInts(perRole(role, "Inventory"))
                  /\ At("Total Backlog") = sumInts(perRole(role, "Backlog"))
                  /\ At("Total Orders") = sumInts(perRole(role, "PlacedOrder"))
<1>1. PICK sheet, rows : sheet = writeAnalytics(SessionAnalytics) /\ rows = NodeRows
  OBVIOUS
<1>m. PICK m \in Nat : m = 4
  OBVIOUS
<1>h. Holds(sheet, analyticsHeaders, rows, m)
  BY <1>1, <1>m, AnalyticsFill
<1>2. ASSUME NEW c \in 1..7, NEW heading, heading = analyticsHeaders[c]
      PROVE  /\ DOMAIN sheet \ {1} = 2..5
             /\ \A i \in 2..5 : Column(sheet, heading)[i] = rows[i - 1][c]
  <2>1. Heads(analyticsHeaders, c, heading)
    BY <1>2, HeadingsDiffer DEF Heads
  <2>2. Shows(sheet, heading, rows, m, c)
    BY <1>h, <2>1, ColumnUnder
  <2>3. 2..(m + 1) = 2..5
    BY <1>m
  <2> QED  BY <2>2, <2>3 DEF Shows, Under
<1>3. ASSUME NEW i \in 2..5
      PROVE  /\ rows[i - 1][1] = AllRoles[i - 1]
             /\ rows[i - 1][2] = sumInts(perRole(AllRoles[i - 1], "WeeklyCost"))
             /\ rows[i - 1][3] = sumInts(perRole(AllRoles[i - 1], "Inventory"))
             /\ rows[i - 1][4] = sumInts(perRole(AllRoles[i - 1], "Backlog"))
             /\ rows[i - 1][5] = sumInts(perRole(AllRoles[i - 1], "PlacedOrder"))
  <2>1. PICK role \in Roles : role = AllRoles[i - 1] /\ i - 1 \in 1..4
    BY DEF AllRoles, Roles
  <2>2. rows[i - 1] = analyticsRow(SessionAnalytics, role)
    BY <1>1, <2>1 DEF NodeRows
  <2>3. SessionAnalytics.NodeAnalytics[role] = NodeAnalytics(role)
    BY DEF SessionAnalytics
  <2> QED  BY <2>1, <2>2, <2>3 DEF analyticsRow, NodeAnalytics
<1>4. /\ analyticsHeaders[1] = "Role" /\ analyticsHeaders[2] = "Total Cost"
      /\ analyticsHeaders[3] = "Average Inventory" /\ analyticsHeaders[4] = "Total Backlog"
      /\ analyticsHeaders[5] = "Total Orders"
  BY DEF analyticsHeaders
<1>5. 1 \in 1..7 /\ 2 \in 1..7 /\ 3 \in 1..7 /\ 4 \in 1..7 /\ 5 \in 1..7
  OBVIOUS
<1>6. DOMAIN sheet \ {1} = 2..5
  BY <1>2, <1>4, <1>5, Zenon
<1>7. /\ \A i \in 2..5 : Column(sheet, "Role")[i] = rows[i - 1][1]
      /\ \A i \in 2..5 : Column(sheet, "Total Cost")[i] = rows[i - 1][2]
      /\ \A i \in 2..5 : Column(sheet, "Average Inventory")[i] = rows[i - 1][3]
      /\ \A i \in 2..5 : Column(sheet, "Total Backlog")[i] = rows[i - 1][4]
      /\ \A i \in 2..5 : Column(sheet, "Total Orders")[i] = rows[i - 1][5]
  <2>1. \A i \in 2..5 : Column(sheet, "Role")[i] = rows[i - 1][1]
    BY <1>2, <1>4, <1>5, Zenon
  <2>2. \A i \in 2..5 : Column(sheet, "Total Cost")[i] = rows[i - 1][2]
    BY <1>2, <1>4, <1>5, Zenon
  <2>3. \A i \in 2..5 : Column(sheet, "Average Inventory")[i] = rows[i - 1][3]
    BY <1>2, <1>4, <1>5, Zenon
  <2>4. \A i \in 2..5 : Column(sheet, "Total Backlog")[i] = rows[i - 1][4]
    BY <1>2, <1>4, <1>5, Zenon
  <2>5. \A i \in 2..5 : Column(sheet, "Total Orders")[i] = rows[i - 1][5]
    BY <1>2, <1>4, <1>5, Zenon
  <2> QED  BY <2>1, <2>2, <2>3, <2>4, <2>5
<1> QED  BY <1>1, <1>3, <1>6, <1>7

-----------------------------------------------------------------------------
(* The sheets of a file agree. *)
Agreed(weeks, perNode, summary) ==
  LET Before(i, heading, initial) ==
        IF i - 4 \in DOMAIN weeks \ {1} THEN Column(weeks, heading)[i - 4] ELSE initial
      Now(i, heading) == Column(weeks, heading)[i]
  IN  /\ DOMAIN weeks = 1..(4 * summary.WeeksPlayed + 1)
      /\ \A i \in DOMAIN weeks \ {1} :
           /\ Now(i, "Inventory") + Now(i, "Shipment") =
                Before(i, "Inventory", BaseScenario.InitialInventory)
                + Now(i, "Incoming Goods")
           /\ Now(i, "Backlog") + Now(i, "Shipment") =
                Before(i, "Backlog", BaseScenario.InitialBacklog)
                + Now(i, "Incoming Order")
      /\ summary.TotalCost = ColumnSum(weeks, DOMAIN weeks \ {1}, "Weekly Cost")
      /\ \A i \in DOMAIN perNode \ {1} :
           LET rows == RowsOf(weeks, Column(perNode, "Role")[i])
               Agree(total, heading) ==
                 Column(perNode, total)[i] = ColumnSum(weeks, rows, heading)
           IN  /\ {Now(k, "Week") : k \in rows} = 1..Len(history)
               /\ Agree("Total Cost", "Weekly Cost")
               /\ Agree("Average Inventory", "Inventory")
               /\ Agree("Total Backlog", "Backlog")
               /\ Agree("Total Orders", "Placed Order")

(* They do when the weeks add up and the books balance. *)
LEMMA AgreeAll ==
  ASSUME Inv, WeeksAddUp, BooksBalance  PROVE SheetsAgree
<1>1. PICK n \in Nat : n = Len(history) /\ DOMAIN history = 1..n /\ (n = 0 <=> history = <<>>)
  BY DEF Inv, TypeOK
<1> DEFINE Now(i, heading) == Column(writeWeeks, heading)[i]
           Before(i, heading, initial) ==
             IF i - 4 \in DOMAIN writeWeeks \ {1} THEN Now(i - 4, heading) ELSE initial
           perNode == writeAnalytics(SessionAnalytics)
           Agree(i, rows, total, heading) ==
             Column(perNode, total)[i] = ColumnSum(writeWeeks, rows, heading)
           Rows(i) == RowsOf(writeWeeks, Column(perNode, "Role")[i])
<1>2. DOMAIN writeWeeks = 1..(4 * n + 1) /\ DOMAIN writeWeeks \ {1} = 2..(4 * n + 1)
  BY <1>1, WeeksColumns
<1>c. /\ ColumnIs(n, "Incoming Order", "IncomingOrder")
      /\ ColumnIs(n, "Incoming Goods", "IncomingGoods")
      /\ ColumnIs(n, "Inventory", "Inventory") /\ ColumnIs(n, "Backlog", "Backlog")
      /\ ColumnIs(n, "Shipment", "ActualShipment")
  BY <1>1, WeeksColumns
<1>3. ASSUME NEW i \in DOMAIN writeWeeks \ {1}
      PROVE  /\ Now(i, "Inventory") + Now(i, "Shipment")
                   = Before(i, "Inventory", BaseScenario.InitialInventory)
                     + Now(i, "Incoming Goods")
             /\ Now(i, "Backlog") + Now(i, "Shipment")
                   = Before(i, "Backlog", BaseScenario.InitialBacklog)
                     + Now(i, "Incoming Order")
  <2>1. PICK last : last = IF i - 4 \in 2..(4 * n + 1) THEN RowAt(i - 4) ELSE initialNode
    OBVIOUS
  <2>2. Balanced(RowAt(i), last)
    BY <1>1, <1>2, <1>3, <2>1, RowsBalance DEF Inv
  <2>3. /\ Now(i, "Inventory") = RowAt(i).Inventory
        /\ Now(i, "Shipment") = RowAt(i).ActualShipment
        /\ Now(i, "Incoming Goods") = RowAt(i).IncomingGoods
        /\ Now(i, "Backlog") = RowAt(i).Backlog
        /\ Now(i, "Incoming Order") = RowAt(i).IncomingOrder
    BY <1>2, <1>3, <1>c DEF ColumnIs
  <2>4. /\ Before(i, "Inventory", BaseScenario.InitialInventory) = last.Inventory
        /\ Before(i, "Backlog", BaseScenario.InitialBacklog) = last.Backlog
    BY <1>2, <1>c, <2>1 DEF ColumnIs, initialNode
  <2> QED  BY <2>2, <2>3, <2>4 DEF Balanced
<1>4. SessionAnalytics.TotalCost = ColumnSum(writeWeeks, DOMAIN writeWeeks \ {1}, "Weekly Cost")
  BY SheetCost DEF Inv, SessionAnalytics, sumInts
<1>5. ASSUME NEW i \in DOMAIN perNode \ {1}
      PROVE  /\ {Now(k, "Week") : k \in Rows(i)} = 1..Len(history)
             /\ Agree(i, Rows(i), "Total Cost", "Weekly Cost")
             /\ Agree(i, Rows(i), "Average Inventory", "Inventory")
             /\ Agree(i, Rows(i), "Total Backlog", "Backlog")
             /\ Agree(i, Rows(i), "Total Orders", "Placed Order")
  <2>1. history # <<>>
    BY <1>5, NoNodeRows
  <2>2. PICK c \in 1..4 : c = i - 1 /\ i \in 2..5
    <3>1. i \in 2..5
      BY <1>5, <2>1, AnalyticsColumns
    <3> QED  BY <3>1
  <2>3. Rows(i) = RoleRows(c)
    BY <2>1, <2>2, AnalyticsColumns, RowsOfRole DEF Inv
  <2>4. {Now(k, "Week") : k \in RoleRows(c)} = 1..Len(history)
    BY RoleWeeks
  <2>5. /\ ColumnIs(Len(history), "Weekly Cost", "WeeklyCost")
        /\ ColumnIs(Len(history), "Inventory", "Inventory")
        /\ ColumnIs(Len(history), "Backlog", "Backlog")
        /\ ColumnIs(Len(history), "Placed Order", "PlacedOrder")
    BY <1>1, WeeksColumns
  <2>6. /\ "WeeklyCost" \in Fields /\ "Inventory" \in Fields /\ "Backlog" \in Fields
        /\ "PlacedOrder" \in Fields
    BY DEF Fields
  <2>7. /\ ColumnSum(writeWeeks, RoleRows(c), "Weekly Cost")
              = sumInts(perRole(AllRoles[c], "WeeklyCost"))
        /\ ColumnSum(writeWeeks, RoleRows(c), "Inventory")
              = sumInts(perRole(AllRoles[c], "Inventory"))
        /\ ColumnSum(writeWeeks, RoleRows(c), "Backlog")
              = sumInts(perRole(AllRoles[c], "Backlog"))
        /\ ColumnSum(writeWeeks, RoleRows(c), "Placed Order")
              = sumInts(perRole(AllRoles[c], "PlacedOrder"))
    BY <2>5, <2>6, RoleSum DEF Inv
  <2>8. /\ Column(perNode, "Total Cost")[i] = sumInts(perRole(AllRoles[c], "WeeklyCost"))
        /\ Column(perNode, "Average Inventory")[i] = sumInts(perRole(AllRoles[c], "Inventory"))
        /\ Column(perNode, "Total Backlog")[i] = sumInts(perRole(AllRoles[c], "Backlog"))
        /\ Column(perNode, "Total Orders")[i] = sumInts(perRole(AllRoles[c], "PlacedOrder"))
    BY <2>1, <2>2, AnalyticsColumns
  <2> QED  BY <2>3, <2>4, <2>7, <2>8
<1>6. /\ ExportSession.Weeks = writeWeeks /\ ExportSession.Analytics = perNode
      /\ ExportSession.Summary.WeeksPlayed = n
      /\ ExportSession.Summary.TotalCost = SessionAnalytics.TotalCost
  BY <1>1 DEF ExportSession, writeSummary, SessionAnalytics
<1>7. /\ DOMAIN writeWeeks = 1..(4 * n + 1)
      /\ \A i \in DOMAIN writeWeeks \ {1} :
           /\ Now(i, "Inventory") + Now(i, "Shipment")
                = Before(i, "Inventory", BaseScenario.InitialInventory)
                  + Now(i, "Incoming Goods")
           /\ Now(i, "Backlog") + Now(i, "Shipment")
                = Before(i, "Backlog", BaseScenario.InitialBacklog)
                  + Now(i, "Incoming Order")
  BY <1>2, <1>3
<1>8. \A i \in DOMAIN perNode \ {1} :
        /\ {Now(k, "Week") : k \in Rows(i)} = 1..Len(history)
        /\ Agree(i, Rows(i), "Total Cost", "Weekly Cost")
        /\ Agree(i, Rows(i), "Average Inventory", "Inventory")
        /\ Agree(i, Rows(i), "Total Backlog", "Backlog")
        /\ Agree(i, Rows(i), "Total Orders", "Placed Order")
  BY <1>5
<1> HIDE DEF perNode
<1>9. PICK summary : summary = ExportSession.Summary
  OBVIOUS
<1>10. Agreed(writeWeeks, perNode, summary)
  <2>1. /\ DOMAIN writeWeeks = 1..(4 * summary.WeeksPlayed + 1)
        /\ summary.TotalCost = ColumnSum(writeWeeks, DOMAIN writeWeeks \ {1}, "Weekly Cost")
    BY <1>2, <1>4, <1>6, <1>9
  <2> QED  BY <1>7, <1>8, <2>1, Zenon DEF Agreed
<1>11. SheetsAgree <=> Agreed(ExportSession.Weeks, ExportSession.Analytics, ExportSession.Summary)
  BY Zenon DEF SheetsAgree, Agreed
<1> QED  BY <1>6, <1>9, <1>10, <1>11

(* The sheets of the exported file agree with one another and add up. *)
THEOREM SheetsStayAgreed == Spec => []SheetsAgree
<1>1. Inv /\ WeeksAddUp /\ BooksBalance => SheetsAgree
  BY AgreeAll
<1> QED  BY <1>1, InductiveInvariant, WeeksStayAddedUp, BooksStayBalanced, PTL
=============================================================================
