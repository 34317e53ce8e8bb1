---- MODULE Sums ----
(* Sums over finite sets, as the community modules define them by recursion: what a sum is when an
   element comes in, goes or changes. The induction is over the subsets of a finite set, by a
   smallest counterexample. *)
EXTENDS Integers, FiniteSets, Functions, FiniteSetTheorems, WellFoundedInduction, TLAPS

First(s) == CHOOSE x \in s : TRUE
IsSum(f, g, T) == f = [s \in SUBSET T |-> IF s = {} THEN 0 ELSE g[First(s)] + f[s \ {First(s)}]]

(* The sum is a value of the function its recursive definition chooses. *)
LEMMA SumIsChosen == ASSUME NEW g, NEW S PROVE SumFunctionOnSet(g, S) = (CHOOSE f : IsSum(f, g, S))[S]
BY Zenon DEF SumFunctionOnSet, FoldFunctionOnSet, IsSum, First, MapThenFoldSet

(* A set of subsets of a finite set has a smallest member. *)
LEMMA SmallestSet == ASSUME NEW S, IsFiniteSet(S), NEW B \in SUBSET SUBSET S, B # {} PROVE \E T \in B : \A U \in SUBSET T : U # T => U \notin B
<1> DEFINE R == StrictSubsetOrdering(S)
<1>1. IsWellFoundedOn(R, SUBSET S) BY FS_StrictSubsetOrderingWellFounded, FS_FiniteSubsetsOfFinite
<1>2. PICK T \in B : \A U \in B : <<U, T>> \notin R
 <2> HIDE DEF R
 <2> QED BY <1>1, WFMin
<1>3. ASSUME NEW U \in SUBSET T, U # T, U \in B PROVE FALSE BY <1>2,<1>3 DEF StrictSubsetOrdering
<1> QED BY <1>3

LEMMA FirstIn == ASSUME NEW s, s # {} PROVE First(s) \in s BY DEF First

(* Two functions that satisfy the recursion agree wherever both are defined. *)
LEMMA SumsAgree ==
  ASSUME NEW S, IsFiniteSet(S), NEW g, NEW f, NEW h, NEW U \in SUBSET S, NEW V \in SUBSET S,
      IsSum(f, g, U), IsSum(h, g, V), NEW T \in SUBSET (U \cap V)
  PROVE f[T] = h[T]
<1> DEFINE B == {s \in SUBSET (U \cap V) : f[s] # h[s]}
<1>1. SUFFICES ASSUME B # {} PROVE FALSE OBVIOUS
<1>2. PICK s \in B : \A r \in SUBSET s : r # s => r \notin B
 <2>1. B \in SUBSET SUBSET S OBVIOUS
 <2> HIDE DEF B
 <2> QED BY <1>1,<2>1, SmallestSet
<1>3. s \in SUBSET U /\ s \in SUBSET V /\ f[s] # h[s] OBVIOUS
<1>4. f[s] = IF s = {} THEN 0 ELSE g[First(s)] + f[s \ {First(s)}] BY <1>3 DEF IsSum
<1>5. h[s] = IF s = {} THEN 0 ELSE g[First(s)] + h[s \ {First(s)}] BY <1>3 DEF IsSum
<1>6. s # {} BY <1>3,<1>4,<1>5
<1>7. First(s) \in s BY <1>6, FirstIn
<1>8. f[s \ {First(s)}] = h[s \ {First(s)}] BY <1>2,<1>7
<1> QED BY <1>3,<1>4,<1>5,<1>8

(* There is one. *)
LEMMA SumsExist == ASSUME NEW S, IsFiniteSet(S), NEW g PROVE \A T \in SUBSET S : \E f : IsSum(f, g, T)
<1> DEFINE B == {T \in SUBSET S : ~ \E f : IsSum(f, g, T)}
<1>1. SUFFICES ASSUME B # {} PROVE FALSE OBVIOUS
<1>2. PICK T \in B : \A r \in SUBSET T : r # T => r \notin B
 <2>1. B \in SUBSET SUBSET S OBVIOUS
 <2> HIDE DEF B
 <2> QED BY <1>1,<2>1, SmallestSet
<1> DEFINE h(s) == CHOOSE f : IsSum(f, g, s)
<1>3. \A s \in SUBSET T : s # T => IsSum(h(s), g, s) BY <1>2
<1> DEFINE v(s) == IF s = {} THEN 0 ELSE g[First(s)] + h(s \ {First(s)})[s \ {First(s)}]
           F == [s \in SUBSET T |-> v(s)]
<1>4. ASSUME NEW s \in SUBSET T, s # {} PROVE F[s \ {First(s)}] = h(s \ {First(s)})[s \ {First(s)}]
 <2> DEFINE r == s \ {First(s)}
 <2>1. First(s) \in s BY <1>4, FirstIn
 <2>2. r \in SUBSET T /\ r # T /\ IsSum(h(r), g, r) BY <1>3,<2>1
 <2>3. h(r)[r] = IF r = {} THEN 0 ELSE g[First(r)] + h(r)[r \ {First(r)}] BY <2>2 DEF IsSum
 <2>4. r # {} => h(r)[r \ {First(r)}] = h(r \ {First(r)})[r \ {First(r)}]
  <3> SUFFICES ASSUME r # {} PROVE h(r)[r \ {First(r)}] = h(r \ {First(r)})[r \ {First(r)}] OBVIOUS
  <3>1. First(r) \in r BY FirstIn
  <3>2. r \ {First(r)} \in SUBSET T /\ r \ {First(r)} # T BY <2>2,<3>1
  <3>3. IsSum(h(r \ {First(r)}), g, r \ {First(r)}) BY <1>3,<3>2
  <3>4. r \ {First(r)} \in SUBSET (r \cap (r \ {First(r)})) OBVIOUS
  <3>5. r \in SUBSET S /\ r \ {First(r)} \in SUBSET S BY <2>2
  <3> HIDE DEF h, r
  <3> QED BY <2>2,<3>3,<3>4,<3>5, SumsAgree
 <2>5. F[r] = v(r) BY <2>2
 <2> HIDE DEF h, F
 <2> QED BY <2>3,<2>4,<2>5
<1>5. IsSum(F, g, T)
 <2>1. \A s \in SUBSET T : v(s) = IF s = {} THEN 0 ELSE g[First(s)] + F[s \ {First(s)}]
  <3> TAKE s \in SUBSET T
  <3>1. CASE s = {} BY <3>1
  <3>2. CASE s # {}
   <4>1. F[s \ {First(s)}] = h(s \ {First(s)})[s \ {First(s)}] BY <1>4,<3>2
   <4> HIDE DEF h, F
   <4> QED BY <3>2,<4>1
  <3> QED BY <3>1,<3>2
 <2>2. F = [s \in SUBSET T |-> v(s)] OBVIOUS
 <2> HIDE DEF v, F
 <2> QED BY <2>1,<2>2 DEF IsSum
<1> QED BY <1>2,<1>5

(* The rules of sums. *)
LEMMA SumRule ==
  ASSUME NEW S, IsFiniteSet(S), NEW g
  PROVE  /\ SumFunctionOnSet(g, {}) = 0
         /\ S # {} => SumFunctionOnSet(g, S) = g[First(S)] + SumFunctionOnSet(g, S \ {First(S)})
<1> DEFINE h(s) == CHOOSE f : IsSum(f, g, s)
<1>1. \A T \in SUBSET S : IsSum(h(T), g, T) BY SumsExist
<1>2. \A T \in SUBSET S : SumFunctionOnSet(g, T) = h(T)[T] BY SumIsChosen
<1>3. \A T \in SUBSET S : h(T)[T] = IF T = {} THEN 0 ELSE g[First(T)] + h(T)[T \ {First(T)}]
 <2> HIDE DEF h
 <2> QED BY <1>1 DEF IsSum
<1>4. SumFunctionOnSet(g, {}) = 0
 <2>1. {} \in SUBSET S OBVIOUS
 <2> HIDE DEF h
 <2> QED BY <1>2,<1>3,<2>1
<1>5. ASSUME S # {} PROVE SumFunctionOnSet(g, S) = g[First(S)] + SumFunctionOnSet(g, S \ {First(S)})
 <2>1. First(S) \in S BY <1>5, FirstIn
 <2>2. h(S)[S \ {First(S)}] = h(S \ {First(S)})[S \ {First(S)}]
  <3> HIDE DEF h
  <3> QED BY <1>1, SumsAgree
 <2> HIDE DEF h
 <2> QED BY <1>2,<1>3,<1>5,<2>2
<1> QED BY <1>4,<1>5

LEMMA SumIsInt == ASSUME NEW S, IsFiniteSet(S), NEW g, \A x \in S : g[x] \in Int PROVE SumFunctionOnSet(g, S) \in Int
<1> DEFINE Sum(T) == SumFunctionOnSet(g, T)
           B == {T \in SUBSET S : Sum(T) \notin Int}
<1>1. SUFFICES ASSUME B # {} PROVE FALSE OBVIOUS
<1>2. PICK T \in B : \A r \in SUBSET T : r # T => r \notin B
 <2>1. B \in SUBSET SUBSET S OBVIOUS
 <2> HIDE DEF B
 <2> QED BY <1>1,<2>1, SmallestSet
<1>3. IsFiniteSet(T) /\ T \in SUBSET S /\ Sum(T) \notin Int BY FS_Subset
<1>4. Sum({}) = 0 /\ (T # {} => Sum(T) = g[First(T)] + Sum(T \ {First(T)})) BY <1>3, SumRule
<1>5. T # {}
 <2>1. ASSUME T = {} PROVE Sum(T) = 0 BY <1>4,<2>1
 <2>2. 0 \in Int OBVIOUS
 <2> HIDE DEF Sum
 <2> QED BY <1>3,<2>1,<2>2
<1>6. First(T) \in T BY <1>5, FirstIn
<1>7. Sum(T \ {First(T)}) \in Int BY <1>2,<1>6
<1> HIDE DEF Sum
<1> QED BY <1>3,<1>4,<1>5,<1>6,<1>7

LEMMA SumRemove ==
  ASSUME NEW S, IsFiniteSet(S), NEW g, \A x \in S : g[x] \in Int, NEW x \in S PROVE SumFunctionOnSet(g, S) = g[x] + SumFunctionOnSet(g, S \ {x})
<1> DEFINE Sum(T) == SumFunctionOnSet(g, T)
           B == {T \in SUBSET S : \E y \in T : Sum(T) # g[y] + Sum(T \ {y})}
<1>1. SUFFICES ASSUME B # {} PROVE FALSE OBVIOUS
<1>2. PICK T \in B : \A r \in SUBSET T : r # T => r \notin B
 <2>1. B \in SUBSET SUBSET S OBVIOUS
 <2> HIDE DEF B
 <2> QED BY <1>1,<2>1, SmallestSet
<1>3. PICK y \in T : Sum(T) # g[y] + Sum(T \ {y}) OBVIOUS
<1>4. IsFiniteSet(T) /\ T \in SUBSET S /\ T # {} BY FS_Subset, <1>3
<1> DEFINE z == First(T)
<1>5. z \in T /\ Sum(T) = g[z] + Sum(T \ {z}) BY <1>4, SumRule, FirstIn
<1>6. y # z BY <1>3,<1>5
<1>7. Sum(T \ {z}) = g[y] + Sum((T \ {z}) \ {y})
 <2>1. T \ {z} \in SUBSET T /\ T \ {z} # T /\ y \in T \ {z} BY <1>5,<1>6
 <2>2. T \ {z} \notin B BY <1>2,<2>1
 <2> HIDE DEF Sum, z
 <2> QED BY <2>1,<2>2
<1>8. Sum(T \ {y}) = g[z] + Sum((T \ {y}) \ {z})
 <2>1. T \ {y} \in SUBSET T /\ T \ {y} # T /\ z \in T \ {y} BY <1>5,<1>6
 <2>2. T \ {y} \notin B BY <1>2,<2>1
 <2> HIDE DEF Sum, z
 <2> QED BY <2>1,<2>2
<1>9. (T \ {z}) \ {y} = (T \ {y}) \ {z} OBVIOUS
<1>10. Sum((T \ {y}) \ {z}) \in Int
 <2>1. (T \ {y}) \ {z} \in SUBSET S BY <1>4
 <2>2. IsFiniteSet((T \ {y}) \ {z}) BY <2>1, FS_Subset
 <2> QED BY <2>1,<2>2, SumIsInt
<1>11. g[y] \in Int /\ g[z] \in Int BY <1>4,<1>5
<1> DEFINE a == Sum(T)  b == Sum(T \ {z})  c == Sum(T \ {y})  d == Sum((T \ {y}) \ {z})
           gy == g[y]  gz == g[z]
<1>12. a # gy + c /\ a = gz + b /\ b = gy + d /\ c = gz + d BY <1>3,<1>5,<1>7,<1>8,<1>9
<1>13. d \in Int /\ gy \in Int /\ gz \in Int BY <1>10,<1>11
<1> HIDE DEF a, b, c, d, gy, gz
<1> QED BY <1>12,<1>13

LEMMA SumSame == ASSUME NEW S, IsFiniteSet(S), NEW g, NEW h, \A x \in S : g[x] = h[x] PROVE SumFunctionOnSet(g, S) = SumFunctionOnSet(h, S)
<1> DEFINE Sum(k, T) == SumFunctionOnSet(k, T)
           B == {T \in SUBSET S : Sum(g, T) # Sum(h, T)}
<1>1. SUFFICES ASSUME B # {} PROVE FALSE OBVIOUS
<1>2. PICK T \in B : \A r \in SUBSET T : r # T => r \notin B
 <2>1. B \in SUBSET SUBSET S OBVIOUS
 <2> HIDE DEF B
 <2> QED BY <1>1,<2>1, SmallestSet
<1>3. IsFiniteSet(T) /\ T \in SUBSET S /\ Sum(g, T) # Sum(h, T) BY FS_Subset
<1>4. \A k : Sum(k, {}) = 0 /\ (T # {} => Sum(k, T) = k[First(T)] + Sum(k, T \ {First(T)})) BY <1>3, SumRule
<1>5. T # {} BY <1>3,<1>4
<1>6. First(T) \in T BY <1>5, FirstIn
<1>7. Sum(g, T \ {First(T)}) = Sum(h, T \ {First(T)}) BY <1>2,<1>6
<1>8. g[First(T)] = h[First(T)] BY <1>3,<1>6
<1> HIDE DEF Sum
<1> QED BY <1>3,<1>4,<1>5,<1>6,<1>7,<1>8

LEMMA SumUpdate ==
  ASSUME NEW S, IsFiniteSet(S), NEW x \in S, NEW g, NEW h, \A y \in S : g[y] \in Int /\ h[y] \in Int, \A y \in S \ {x} : g[y] = h[y]
  PROVE SumFunctionOnSet(h, S) = SumFunctionOnSet(g, S) - g[x] + h[x]
<1>1. IsFiniteSet(S \ {x}) BY FS_RemoveElement
<1>2. SumFunctionOnSet(g, S \ {x}) = SumFunctionOnSet(h, S \ {x}) BY <1>1, SumSame
<1>3. SumFunctionOnSet(g, S) = g[x] + SumFunctionOnSet(g, S \ {x}) BY SumRemove
<1>4. SumFunctionOnSet(h, S) = h[x] + SumFunctionOnSet(h, S \ {x}) BY SumRemove
<1>5. SumFunctionOnSet(g, S \ {x}) \in Int BY <1>1, SumIsInt
<1>6. g[x] \in Int /\ h[x] \in Int OBVIOUS
<1> QED BY <1>2,<1>3,<1>4,<1>5,<1>6

LEMMA SumIsNat ==
  ASSUME NEW S, IsFiniteSet(S), NEW g, \A x \in S : g[x] \in Nat
  PROVE  /\ SumFunctionOnSet(g, S) \in Nat
         /\ \A x \in S : g[x] <= SumFunctionOnSet(g, S)
<1> DEFINE Sum(T) == SumFunctionOnSet(g, T)
           B == {T \in SUBSET S : Sum(T) \notin Nat}
<1>1. SUFFICES B = {}
 <2>1. \A T \in SUBSET S : Sum(T) \in Nat BY <1>1
 <2>2. \A x \in S : Sum(S) = g[x] + Sum(S \ {x}) BY SumRemove
 <2>3. \A x \in S : S \ {x} \in SUBSET S /\ S \in SUBSET S OBVIOUS
 <2> HIDE DEF Sum, B
 <2>4. ASSUME NEW x \in S PROVE g[x] <= Sum(S)
  <3>1. g[x] \in Nat /\ Sum(S \ {x}) \in Nat BY <2>1,<2>3
  <3>2. Sum(S) = g[x] + Sum(S \ {x}) BY <2>2
  <3> QED BY <3>1,<3>2
 <2> QED BY <2>1,<2>4 DEF Sum
<1>0. SUFFICES ASSUME B # {} PROVE FALSE OBVIOUS
<1>2. PICK T \in B : \A r \in SUBSET T : r # T => r \notin B
 <2>1. B \in SUBSET SUBSET S OBVIOUS
 <2> HIDE DEF B
 <2> QED BY <1>0,<2>1, SmallestSet
<1>3. IsFiniteSet(T) /\ T \in SUBSET S /\ Sum(T) \notin Nat BY FS_Subset
<1>4. Sum({}) = 0 /\ (T # {} => Sum(T) = g[First(T)] + Sum(T \ {First(T)})) BY <1>3, SumRule
<1>5. T # {} BY <1>3,<1>4
<1>6. First(T) \in T BY <1>5, FirstIn
<1>7. Sum(T \ {First(T)}) \in Nat BY <1>2,<1>6
<1> HIDE DEF Sum
<1> QED BY <1>3,<1>4,<1>5,<1>6,<1>7

(* A sum over what a condition picks is the sum over the whole of a function that is zero elsewhere. *)
LEMMA SumPicked ==
  ASSUME NEW S, IsFiniteSet(S), NEW T \in SUBSET S, NEW g, NEW h, \A x \in T : g[x] = h[x] /\ h[x] \in Int, \A x \in S \ T : h[x] = 0
  PROVE SumFunctionOnSet(g, T) = SumFunctionOnSet(h, S)
<1> DEFINE Sum(k, U) == SumFunctionOnSet(k, U)
           B == {U \in SUBSET (S \ T) : Sum(h, T \cup U) # Sum(h, T)}
<1>1. SUFFICES B = {}
 <2>1. T \cup (S \ T) = S /\ S \ T \in SUBSET (S \ T) OBVIOUS
 <2>2. Sum(h, S) = Sum(h, T)
  <3> SUFFICES Sum(h, T \cup (S \ T)) = Sum(h, T) BY <2>1
  <3>1. S \ T \notin B BY <1>1
  <3> HIDE DEF Sum
  <3> QED BY <2>1,<3>1
 <2>3. IsFiniteSet(T) BY FS_Subset
 <2>4. Sum(g, T) = Sum(h, T) BY <2>3, SumSame
 <2> QED BY <2>2,<2>4
<1>0. SUFFICES ASSUME B # {} PROVE FALSE OBVIOUS
<1>2. PICK U \in B : \A r \in SUBSET U : r # U => r \notin B
 <2>1. B \in SUBSET SUBSET S OBVIOUS
 <2> HIDE DEF B
 <2> QED BY <1>0,<2>1, SmallestSet
<1>3. U \in SUBSET (S \ T) /\ Sum(h, T \cup U) # Sum(h, T) OBVIOUS
<1>4. U # {}
 <2>1. U = {} => T \cup U = T OBVIOUS
 <2> HIDE DEF Sum
 <2> QED BY <1>3,<2>1
<1>5. PICK x : x \in U BY <1>4
<1>6. U \ {x} \in SUBSET U /\ U \ {x} # U BY <1>5
<1>7. Sum(h, T \cup (U \ {x})) = Sum(h, T)
 <2>1. U \ {x} \notin B BY <1>2,<1>6
 <2>2. U \ {x} \in SUBSET (S \ T) BY <1>3
 <2> HIDE DEF Sum
 <2> QED BY <2>1,<2>2
<1>8. IsFiniteSet(T \cup U)
 <2>1. T \cup U \subseteq S BY <1>3
 <2> QED BY <2>1, FS_Subset
<1>9. \A y \in T \cup U : h[y] \in Int BY <1>3
<1>10. x \in T \cup U /\ h[x] = 0 /\ (T \cup U) \ {x} = T \cup (U \ {x}) BY <1>3,<1>5
<1>11. Sum(h, T \cup U) = h[x] + Sum(h, (T \cup U) \ {x}) BY <1>8,<1>9,<1>10, SumRemove
<1>12. Sum(h, T \cup (U \ {x})) \in Int
 <2>1. T \cup (U \ {x}) \in SUBSET S BY <1>3
 <2>2. IsFiniteSet(T \cup (U \ {x})) BY <2>1, FS_Subset
 <2>3. \A y \in T \cup (U \ {x}) : h[y] \in Int BY <1>9
 <2> QED BY <2>2,<2>3, SumIsInt
<1>13. Sum(h, T \cup U) = 0 + Sum(h, T \cup (U \ {x}))
 <2> HIDE DEF Sum
 <2> QED BY <1>10,<1>11
<1>14. Sum(h, T \cup U) = Sum(h, T \cup (U \ {x}))
 <2> DEFINE a == Sum(h, T \cup U)  b == Sum(h, T \cup (U \ {x}))
 <2>1. a = 0 + b /\ b \in Int BY <1>12,<1>13
 <2> HIDE DEF a, b
 <2>2. a = b BY <2>1
 <2> QED BY <2>2 DEF a, b
<1> HIDE DEF Sum
<1> QED BY <1>3,<1>7,<1>14

(* The sum of a function is the sum over its domain. *)
LEMMA SumOfFunction == ASSUME NEW f PROVE SumFunction(f) = SumFunctionOnSet(f, DOMAIN f) BY Zenon DEF SumFunction, FoldFunction, SumFunctionOnSet

(* Sums of functions that are defined on a part of a finite set. *)
LEMMA SumOfPart ==
  ASSUME NEW S, IsFiniteSet(S), NEW f, DOMAIN f \subseteq S, \A x \in DOMAIN f : f[x] \in Int
  PROVE  /\ SumFunction(f) \in Int
         /\ DOMAIN f = {} => SumFunction(f) = 0
         /\ (\A x \in DOMAIN f : f[x] \in Nat) => SumFunction(f) \in Nat /\ \A x \in DOMAIN f : f[x] <= SumFunction(f)
<1>1. IsFiniteSet(DOMAIN f) BY FS_Subset
<1>2. SumFunction(f) \in Int BY <1>1, SumOfFunction, SumIsInt
<1>3. DOMAIN f = {} => SumFunction(f) = 0 BY <1>1, SumOfFunction, SumRule
<1>4. (\A x \in DOMAIN f : f[x] \in Nat) => SumFunction(f) \in Nat /\ \A x \in DOMAIN f : f[x] <= SumFunction(f) BY <1>1, SumOfFunction, SumIsNat
<1> QED BY <1>2,<1>3,<1>4

(* One element comes in, goes or changes. *)
LEMMA SumChanges ==
  ASSUME NEW S, IsFiniteSet(S), NEW f, NEW g, DOMAIN f \subseteq S, DOMAIN g \subseteq S,
      \A y \in DOMAIN f : f[y] \in Int, \A y \in DOMAIN g : g[y] \in Int, NEW x \in S,
      \A y \in S \ {x} : (y \in DOMAIN f <=> y \in DOMAIN g) /\ (y \in DOMAIN f => f[y] = g[y])
  PROVE SumFunction(g) = SumFunction(f) - (IF x \in DOMAIN f THEN f[x] ELSE 0) + (IF x \in DOMAIN g THEN g[x] ELSE 0)
<1> PICK fs : fs = [y \in S |-> IF y \in DOMAIN f THEN f[y] ELSE 0] OBVIOUS
<1> PICK gs : gs = [y \in S |-> IF y \in DOMAIN g THEN g[y] ELSE 0] OBVIOUS
<1>1. SumFunction(f) = SumFunctionOnSet(fs, S)
 <2>1. \A y \in DOMAIN f : f[y] = fs[y] /\ fs[y] \in Int OBVIOUS
 <2>2. \A y \in S \ DOMAIN f : fs[y] = 0 OBVIOUS
 <2>3. SumFunctionOnSet(f, DOMAIN f) = SumFunctionOnSet(fs, S) BY <2>1,<2>2, SumPicked
 <2> QED BY <2>3, SumOfFunction
<1>2. SumFunction(g) = SumFunctionOnSet(gs, S)
 <2>1. \A y \in DOMAIN g : g[y] = gs[y] /\ gs[y] \in Int OBVIOUS
 <2>2. \A y \in S \ DOMAIN g : gs[y] = 0 OBVIOUS
 <2>3. SumFunctionOnSet(g, DOMAIN g) = SumFunctionOnSet(gs, S) BY <2>1,<2>2, SumPicked
 <2> QED BY <2>3, SumOfFunction
<1>3. \A y \in S : fs[y] \in Int /\ gs[y] \in Int OBVIOUS
<1>4. \A y \in S \ {x} : fs[y] = gs[y] OBVIOUS
<1>5. SumFunctionOnSet(gs, S) = SumFunctionOnSet(fs, S) - fs[x] + gs[x] BY <1>3,<1>4, SumUpdate
<1>6. fs[x] = (IF x \in DOMAIN f THEN f[x] ELSE 0) /\ gs[x] = (IF x \in DOMAIN g THEN g[x] ELSE 0) OBVIOUS
<1> QED BY <1>1,<1>2,<1>5,<1>6

(* One element comes in. *)
LEMMA SumExtends ==
  ASSUME NEW S, IsFiniteSet(S), NEW f, NEW g, NEW x \in S, DOMAIN f \subseteq S, x \notin DOMAIN f, DOMAIN g = DOMAIN f \cup {x},
      \A y \in DOMAIN f : f[y] \in Int /\ g[y] = f[y], g[x] \in Int
  PROVE SumFunction(g) = SumFunction(f) + g[x] /\ SumFunction(f) \in Int
<1>1. DOMAIN g \subseteq S /\ (\A y \in DOMAIN f : f[y] \in Int) /\ \A y \in DOMAIN g : g[y] \in Int OBVIOUS
<1>2. \A y \in S \ {x} : (y \in DOMAIN f <=> y \in DOMAIN g) /\ (y \in DOMAIN f => f[y] = g[y]) OBVIOUS
<1>3. SumFunction(g) = SumFunction(f) - (IF x \in DOMAIN f THEN f[x] ELSE 0) + (IF x \in DOMAIN g THEN g[x] ELSE 0) BY <1>1,<1>2, SumChanges
<1>4. SumFunction(f) \in Int BY <1>1, SumOfPart
<1> QED BY <1>3,<1>4

(* Two parts that share nothing add up. *)
LEMMA SumOfUnion ==
  ASSUME NEW S, IsFiniteSet(S), NEW g, \A x \in S : g[x] \in Int, NEW T \in SUBSET S
  PROVE SumFunctionOnSet(g, S) = SumFunctionOnSet(g, T) + SumFunctionOnSet(g, S \ T)
<1> DEFINE Sum(U) == SumFunctionOnSet(g, U)
           B == {U \in SUBSET (S \ T) : Sum(T \cup U) # Sum(T) + Sum(U)}
<1>0. \A U \in SUBSET S : Sum(U) \in Int
 <2>1. TAKE U \in SUBSET S
 <2>2. IsFiniteSet(U) /\ \A x \in U : g[x] \in Int BY FS_Subset
 <2> QED BY <2>2, SumIsInt
<1>1. SUFFICES B = {}
 <2>1. T \cup (S \ T) = S /\ S \ T \in SUBSET (S \ T) OBVIOUS
 <2>2. S \ T \notin B BY <1>1
 <2> HIDE DEF Sum
 <2>3. Sum(T \cup (S \ T)) = Sum(T) + Sum(S \ T) BY <2>1,<2>2
 <2>4. Sum(S) = Sum(T) + Sum(S \ T) BY <2>1,<2>3
 <2> QED BY <2>4 DEF Sum
<1>2. SUFFICES ASSUME B # {} PROVE FALSE OBVIOUS
<1>3. PICK U \in B : \A r \in SUBSET U : r # U => r \notin B
 <2>1. B \in SUBSET SUBSET S OBVIOUS
 <2> HIDE DEF B
 <2> QED BY <1>2,<2>1, SmallestSet
<1>4. U \in SUBSET (S \ T) /\ Sum(T \cup U) # Sum(T) + Sum(U) OBVIOUS
<1>5. Sum(T) \in Int BY <1>0
<1>6. U # {}
 <2>1. IsFiniteSet({}) BY FS_EmptySet
 <2>2. Sum({}) = 0 BY <2>1, SumRule
 <2>3. ASSUME U = {} PROVE FALSE
  <3>1. T \cup U = T BY <2>3
  <3> HIDE DEF Sum, B
  <3>2. Sum(T \cup U) = Sum(T) BY <3>1
  <3>3. Sum(U) = 0 BY <2>2,<2>3
  <3> QED BY <1>4,<1>5,<3>2,<3>3
 <2> QED BY <2>3
<1>7. PICK x : x \in U BY <1>6
<1>8. U \ {x} \in SUBSET U /\ U \ {x} # U BY <1>7
<1>9. Sum(T \cup (U \ {x})) = Sum(T) + Sum(U \ {x})
 <2>1. U \ {x} \notin B BY <1>3,<1>8
 <2>2. U \ {x} \in SUBSET (S \ T) BY <1>4
 <2> HIDE DEF Sum
 <2> QED BY <2>1,<2>2
<1>10. Sum(U) = g[x] + Sum(U \ {x})
 <2>1. IsFiniteSet(U) /\ \A y \in U : g[y] \in Int BY <1>4, FS_Subset
 <2> QED BY <2>1,<1>7, SumRemove
<1>11. Sum(T \cup U) = g[x] + Sum(T \cup (U \ {x}))
 <2>1. T \cup U \in SUBSET S BY <1>4
 <2>2. IsFiniteSet(T \cup U) /\ \A y \in T \cup U : g[y] \in Int BY <2>1, FS_Subset
 <2>3. x \in T \cup U /\ (T \cup U) \ {x} = T \cup (U \ {x}) BY <1>4,<1>7
 <2>4. Sum(T \cup U) = g[x] + Sum((T \cup U) \ {x}) BY <2>2,<2>3, SumRemove
 <2> HIDE DEF Sum
 <2> QED BY <2>3,<2>4
<1>12. g[x] \in Int /\ Sum(U \ {x}) \in Int
 <2>1. x \in S /\ U \ {x} \in SUBSET S BY <1>4,<1>7
 <2> HIDE DEF Sum
 <2> QED BY <2>1,<1>0
<1> HIDE DEF Sum
<1> QED BY <1>4,<1>5,<1>9,<1>10,<1>11,<1>12

(* Larger values, a larger sum. *)
LEMMA SumIsMonotone ==
  ASSUME NEW S, IsFiniteSet(S), NEW g, NEW h, \A x \in S : g[x] \in Int /\ h[x] \in Int /\ g[x] <= h[x]
  PROVE SumFunctionOnSet(g, S) <= SumFunctionOnSet(h, S)
<1> DEFINE Sum(k, T) == SumFunctionOnSet(k, T)
           B == {T \in SUBSET S : ~(Sum(g, T) <= Sum(h, T))}
<1>1. SUFFICES ASSUME B # {} PROVE FALSE
 <2>1. B = {} BY <1>1
 <2>2. S \in SUBSET S OBVIOUS
 <2> HIDE DEF Sum
 <2>3. Sum(g, S) <= Sum(h, S) BY <2>1,<2>2
 <2> QED BY <2>3 DEF Sum
<1>2. PICK T \in B : \A r \in SUBSET T : r # T => r \notin B
 <2>1. B \in SUBSET SUBSET S OBVIOUS
 <2> HIDE DEF B
 <2> QED BY <1>1,<2>1, SmallestSet
<1>3. IsFiniteSet(T) /\ T \in SUBSET S /\ ~(Sum(g, T) <= Sum(h, T)) BY FS_Subset
<1>4. T # {}
 <2>1. Sum(g, {}) = 0 /\ Sum(h, {}) = 0 BY <1>3, SumRule
 <2> HIDE DEF Sum
 <2> QED BY <1>3,<2>1
<1>5. PICK x : x \in T BY <1>4
<1>6. Sum(g, T) = g[x] + Sum(g, T \ {x}) /\ Sum(h, T) = h[x] + Sum(h, T \ {x}) BY <1>3,<1>5, SumRemove
<1>7. Sum(g, T \ {x}) <= Sum(h, T \ {x})
 <2>1. T \ {x} \in SUBSET T /\ T \ {x} # T /\ T \ {x} \in SUBSET S BY <1>3,<1>5
 <2>2. T \ {x} \notin B BY <1>2,<2>1
 <2> HIDE DEF Sum
 <2> QED BY <2>1,<2>2
<1>8. Sum(g, T \ {x}) \in Int /\ Sum(h, T \ {x}) \in Int
 <2>1. IsFiniteSet(T \ {x}) BY <1>3, FS_RemoveElement
 <2>2. \A y \in T \ {x} : g[y] \in Int /\ h[y] \in Int BY <1>3
 <2> QED BY <2>1,<2>2, SumIsInt
<1>9. g[x] \in Int /\ h[x] \in Int /\ g[x] <= h[x] BY <1>3,<1>5
<1> HIDE DEF Sum
<1> QED BY <1>3,<1>6,<1>7,<1>8,<1>9

(* Values that are at most n, a sum that is at most n for each. *)
LEMMA SumIsBounded ==
  ASSUME NEW S, IsFiniteSet(S), NEW g, NEW n \in Int, \A x \in S : g[x] \in Int /\ g[x] <= n PROVE SumFunctionOnSet(g, S) <= n * Cardinality(S)
<1> DEFINE Sum(T) == SumFunctionOnSet(g, T)
           B == {T \in SUBSET S : ~(Sum(T) <= n * Cardinality(T))}
<1>1. SUFFICES ASSUME B # {} PROVE FALSE
 <2>1. B = {} BY <1>1
 <2>2. S \in SUBSET S OBVIOUS
 <2> HIDE DEF Sum
 <2>3. Sum(S) <= n * Cardinality(S) BY <2>1,<2>2
 <2> QED BY <2>3 DEF Sum
<1>2. PICK T \in B : \A r \in SUBSET T : r # T => r \notin B
 <2>1. B \in SUBSET SUBSET S OBVIOUS
 <2> HIDE DEF B
 <2> QED BY <1>1,<2>1, SmallestSet
<1>3. IsFiniteSet(T) /\ T \in SUBSET S /\ ~(Sum(T) <= n * Cardinality(T)) BY FS_Subset
<1>4. T # {}
 <2>1. Sum({}) = 0 BY <1>3, SumRule
 <2>2. Cardinality({}) = 0 BY FS_EmptySet
 <2> HIDE DEF Sum
 <2> QED BY <1>3,<2>1,<2>2
<1>5. PICK x : x \in T BY <1>4
<1>6. Sum(T) = g[x] + Sum(T \ {x}) BY <1>3,<1>5, SumRemove
<1>7. Sum(T \ {x}) <= n * Cardinality(T \ {x})
 <2>1. T \ {x} \in SUBSET T /\ T \ {x} # T /\ T \ {x} \in SUBSET S BY <1>3,<1>5
 <2>2. T \ {x} \notin B BY <1>2,<2>1
 <2> HIDE DEF Sum
 <2> QED BY <2>1,<2>2
<1>8. Sum(T \ {x}) \in Int
 <2>1. IsFiniteSet(T \ {x}) BY <1>3, FS_RemoveElement
 <2>2. \A y \in T \ {x} : g[y] \in Int BY <1>3
 <2> QED BY <2>1,<2>2, SumIsInt
<1>9. g[x] \in Int /\ g[x] <= n BY <1>3,<1>5
<1>10. Cardinality(T) \in Nat /\ Cardinality(T \ {x}) = Cardinality(T) - 1 BY <1>3,<1>5, FS_RemoveElement, FS_CardinalityType
<1>11. PICK c \in Nat : c = Cardinality(T) BY <1>10
<1>12. n * (c - 1) + n = n * c BY <1>11
<1>13. PICK a \in Int : a = n * (c - 1) OBVIOUS
<1>14. Sum(T \ {x}) <= a BY <1>7,<1>10,<1>11,<1>13
<1>15. a + n = n * c BY <1>12,<1>13
<1>16. ~(Sum(T) <= a + n) BY <1>3,<1>11,<1>15
<1> HIDE DEF Sum
<1> QED BY <1>6,<1>8,<1>9,<1>13,<1>14,<1>16

(* A finite set has an element of the greatest value. *)
LEMMA GreatestValue == ASSUME NEW S, IsFiniteSet(S), S # {}, NEW g, \A x \in S : g[x] \in Int PROVE \E x \in S : \A y \in S : g[y] <= g[x]
<1> DEFINE above(x) == {y \in S : g[y] > g[x]}
           B == {above(x) : x \in S}
<1>1. B \in SUBSET SUBSET S /\ B # {} OBVIOUS
<1>2. PICK T \in B : \A U \in SUBSET T : U # T => U \notin B
 <2> HIDE DEF B
 <2> QED BY <1>1, SmallestSet
<1>3. PICK x \in S : T = above(x) OBVIOUS
<1>4. ASSUME NEW y \in S, ~(g[y] <= g[x]) PROVE FALSE
 <2>1. g[x] \in Int /\ g[y] \in Int /\ g[y] > g[x] BY <1>4
 <2>2. above(y) \in SUBSET T
  <3>1. \A z \in S : g[z] \in Int OBVIOUS
  <3>2. ASSUME NEW z \in above(y) PROVE z \in above(x)
   <4>1. z \in S /\ g[z] > g[y] /\ g[z] \in Int BY <3>1,<3>2
   <4> QED BY <4>1,<2>1
  <3> QED BY <3>2,<1>3
 <2>3. y \in T /\ y \notin above(y) BY <2>1,<1>3
 <2>4. above(y) \in B OBVIOUS
 <2> QED BY <1>2,<2>2,<2>3,<2>4
<1> QED BY <1>4
====
