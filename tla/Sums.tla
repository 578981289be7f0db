-------------------------------- MODULE Sums --------------------------------
(***************************************************************************)
(* What the sum of a function over a finite set does: SumFunctionOnSet of  *)
(* the community modules, for every function and every finite set.         *)
(*                                                                         *)
(* The theorems on induction take an operator, so an induction is written  *)
(* as a search for the smallest set that has not got the property: every   *)
(* set of subsets of a finite set that is not empty has a minimal element. *)
(***************************************************************************)
EXTENDS Integers, Functions, FiniteSetTheorems, TLAPS

AnyOf(s) == CHOOSE x \in s : TRUE

\* g[s] is the sum of f over s, for every subset s of S.
AddsUp(g, f, S) ==
    g = [s \in SUBSET S |-> IF s = {} THEN 0 ELSE f[AnyOf(s)] + g[s \ {AnyOf(s)}]]

\* The function that SumFunctionOnSet makes for its set.
Adding(f, S) == CHOOSE g : AddsUp(g, f, S)

-----------------------------------------------------------------------------

\* Induction on finite sets: among the subsets of S that are bad there is one
\* of which every smaller subset is good.
LEMMA SmallestBad ==
    ASSUME NEW S, IsFiniteSet(S), NEW Bad \in SUBSET SUBSET S, Bad # {}
    PROVE  \E s \in Bad : /\ IsFiniteSet(s) /\ s \subseteq S
                          /\ \A r \in SUBSET s : r # s => r \notin Bad
<1> DEFINE R == StrictSubsetOrdering(S)
<1>1. IsWellFoundedOn(R, SUBSET S)
  BY FS_StrictSubsetOrderingWellFounded, FS_FiniteSubsetsOfFinite
<1>2. PICK s \in Bad : \A r \in Bad : ~(<<r, s>> \in R)
  BY <1>1, WFMin
<1>3. IsFiniteSet(s)
  BY FS_Subset
<1> QED BY <1>2, <1>3 DEF StrictSubsetOrdering

\* Two functions that add up f agree on every set they both add up.
LEMMA AddsUpOnce ==
    ASSUME NEW f, NEW g, NEW h, NEW S, NEW T, NEW V, IsFiniteSet(V),
           V \subseteq S, V \subseteq T, AddsUp(g, f, S), AddsUp(h, f, T)
    PROVE  g[V] = h[V]
<1> DEFINE Bad == {s \in SUBSET V : g[s] # h[s]}
<1> SUFFICES ASSUME Bad # {} PROVE FALSE
  OBVIOUS
<1>0. Bad \in SUBSET SUBSET V
  OBVIOUS
<1>1. PICK s \in Bad : \A r \in SUBSET s : r # s => r \notin Bad
  <2> HIDE DEF Bad
  <2> QED BY <1>0, SmallestBad
<1>2. s # {}
  BY <1>1 DEF AddsUp
<1>3. AnyOf(s) \in s
  BY <1>2 DEF AnyOf
<1>4. g[s \ {AnyOf(s)}] = h[s \ {AnyOf(s)}]
  BY <1>1, <1>3
<1>5. g[s] = f[AnyOf(s)] + g[s \ {AnyOf(s)}] /\ h[s] = f[AnyOf(s)] + h[s \ {AnyOf(s)}]
  BY <1>2 DEF AddsUp
<1> QED BY <1>1, <1>4, <1>5

\* There is such a function for every finite set.
LEMMA AddingAddsUp ==
    ASSUME NEW f, NEW S, IsFiniteSet(S)
    PROVE  AddsUp(Adding(f, S), f, S)
<1> DEFINE Bad == {s \in SUBSET S : ~\E g : AddsUp(g, f, s)}
<1> SUFFICES ASSUME Bad # {} PROVE FALSE
  BY DEF Adding
<1>0. Bad \in SUBSET SUBSET S
  OBVIOUS
<1>1. PICK s \in Bad : /\ IsFiniteSet(s) /\ s \subseteq S
                       /\ \A r \in SUBSET s : r # s => r \notin Bad
  <2> HIDE DEF Bad
  <2> QED BY <1>0, SmallestBad
<1>2. \A r \in SUBSET s : r # s => AddsUp(Adding(f, r), f, r) /\ IsFiniteSet(r)
  BY <1>1, FS_Subset DEF Adding
<1> DEFINE total(r) == Adding(f, r)[r]
           sum(r) == IF r = {} THEN 0 ELSE f[AnyOf(r)] + total(r \ {AnyOf(r)})
           g == [r \in SUBSET s |-> sum(r)]
<1>3. ASSUME NEW r \in SUBSET s, r # {}
      PROVE  g[r \ {AnyOf(r)}] = total(r \ {AnyOf(r)})
  <2> DEFINE q == r \ {AnyOf(r)}
  <2>1. AnyOf(r) \in r
    BY <1>3 DEF AnyOf
  <2>2. q \in SUBSET s /\ q # s
    BY <2>1
  <2>3. AddsUp(Adding(f, q), f, q) /\ IsFiniteSet(q)
    BY <1>2, <2>2
  <2>4. CASE q = {}
    BY <2>2, <2>3, <2>4 DEF AddsUp
  <2>5. CASE q # {}
    <3> DEFINE p == q \ {AnyOf(q)}
    <3>1. AnyOf(q) \in q
      BY <2>5 DEF AnyOf
    <3>2. p \subseteq q /\ p \in SUBSET s /\ p # s
      BY <2>2, <3>1
    <3>3. AddsUp(Adding(f, p), f, p) /\ IsFiniteSet(p)
      BY <1>2, <3>2
    <3>4. Adding(f, q)[p] = Adding(f, p)[p]
      <4> HIDE DEF p, q
      <4> QED BY <2>3, <3>2, <3>3, AddsUpOnce
    <3>5. Adding(f, q)[q] = f[AnyOf(q)] + Adding(f, q)[p]
      BY <2>3, <2>5 DEF AddsUp
    <3>6. g[q] = f[AnyOf(q)] + Adding(f, p)[p]
      BY <2>2, <2>5
    <3> QED BY <3>4, <3>5, <3>6
  <2> QED BY <2>4, <2>5
<1>4. \A r \in SUBSET s : g[r] = IF r = {} THEN 0 ELSE f[AnyOf(r)] + g[r \ {AnyOf(r)}]
  BY <1>3
<1>5. AddsUp(g, f, s)
  BY <1>4 DEF AddsUp
<1> QED BY <1>1, <1>5

\* SumFunctionOnSet makes this function.
LEMMA SumIsAdding ==
    ASSUME NEW f, NEW S
    PROVE  SumFunctionOnSet(f, S) = Adding(f, S)[S]
BY DEF SumFunctionOnSet, FoldFunctionOnSet, MapThenFoldSet, Adding, AddsUp, AnyOf

-----------------------------------------------------------------------------
(* The sum of a function.                                                  *)

\* A sum is the value at the element that is chosen and the sum over the rest.
LEMMA SumUnfolds ==
    ASSUME NEW f, NEW S, IsFiniteSet(S)
    PROVE  /\ S = {} => SumFunctionOnSet(f, S) = 0
           /\ S # {} => /\ AnyOf(S) \in S
                       /\ SumFunctionOnSet(f, S) =
                              f[AnyOf(S)] + SumFunctionOnSet(f, S \ {AnyOf(S)})
<1> DEFINE rest == S \ {AnyOf(S)}
<1>1. AddsUp(Adding(f, S), f, S)
  BY AddingAddsUp
<1>2. S = {} => Adding(f, S)[S] = 0
  BY <1>1 DEF AddsUp
<1>3. ASSUME S # {}
      PROVE  /\ AnyOf(S) \in S
             /\ Adding(f, S)[S] = f[AnyOf(S)] + Adding(f, rest)[rest]
  <2>1. AnyOf(S) \in S
    BY <1>3 DEF AnyOf
  <2>2. Adding(f, S)[S] = f[AnyOf(S)] + Adding(f, S)[rest]
    BY <1>1, <1>3 DEF AddsUp
  <2>3. IsFiniteSet(rest) /\ rest \subseteq S
    BY FS_RemoveElement
  <2>4. AddsUp(Adding(f, rest), f, rest)
    BY <2>3, AddingAddsUp
  <2>5. Adding(f, S)[rest] = Adding(f, rest)[rest]
    <3> HIDE DEF rest
    <3> QED BY <1>1, <2>3, <2>4, AddsUpOnce
  <2> QED BY <2>1, <2>2, <2>5
<1> QED BY <1>2, <1>3, SumIsAdding

LEMMA SumOfNone ==
    ASSUME NEW f
    PROVE  SumFunctionOnSet(f, {}) = 0
BY SumUnfolds, FS_EmptySet

\* A sum of integers is an integer.
LEMMA SumTyped ==
    ASSUME NEW f, NEW S, IsFiniteSet(S), \A x \in S : f[x] \in Int
    PROVE  SumFunctionOnSet(f, S) \in Int
<1> DEFINE Bad == {s \in SUBSET S : SumFunctionOnSet(f, s) \notin Int}
<1> SUFFICES ASSUME Bad # {} PROVE FALSE
  OBVIOUS
<1>0. Bad \in SUBSET SUBSET S
  OBVIOUS
<1>1. PICK s \in Bad : IsFiniteSet(s) /\ \A r \in SUBSET s : r # s => r \notin Bad
  <2> HIDE DEF Bad
  <2> QED BY <1>0, SmallestBad
<1>2. s # {}
  BY SumOfNone
<1>3. /\ AnyOf(s) \in s
      /\ SumFunctionOnSet(f, s) = f[AnyOf(s)] + SumFunctionOnSet(f, s \ {AnyOf(s)})
  BY <1>1, <1>2, SumUnfolds
<1>4. SumFunctionOnSet(f, s \ {AnyOf(s)}) \in Int
  BY <1>1, <1>3
<1> QED BY <1>3, <1>4

\* Any element can be taken out of a sum.
LEMMA SumWithout ==
    ASSUME NEW f, NEW S, IsFiniteSet(S), \A x \in S : f[x] \in Int, NEW x \in S
    PROVE  SumFunctionOnSet(f, S) = f[x] + SumFunctionOnSet(f, S \ {x})
<1> DEFINE Sum(s) == SumFunctionOnSet(f, s)
           Bad == {s \in SUBSET S : \E y \in s : Sum(s) # f[y] + Sum(s \ {y})}
<1> SUFFICES ASSUME Bad # {} PROVE FALSE
  OBVIOUS
<1>0. Bad \in SUBSET SUBSET S
  OBVIOUS
<1>1. PICK s \in Bad : IsFiniteSet(s) /\ \A r \in SUBSET s : r # s => r \notin Bad
  <2> HIDE DEF Bad
  <2> QED BY <1>0, SmallestBad
<1>2. PICK y \in s : Sum(s) # f[y] + Sum(s \ {y})
  OBVIOUS
<1> DEFINE c == AnyOf(s)
<1>3. c \in s /\ Sum(s) = f[c] + Sum(s \ {c})
  BY <1>1, <1>2, SumUnfolds
<1>4. c # y
  BY <1>2, <1>3
<1> HIDE DEF c, Sum
<1>5. Sum(s \ {c}) = f[y] + Sum((s \ {c}) \ {y})
  BY <1>1, <1>3, <1>4
<1>6. Sum(s \ {y}) = f[c] + Sum((s \ {y}) \ {c})
  BY <1>1, <1>3, <1>4
<1>7. Sum((s \ {c}) \ {y}) = Sum((s \ {y}) \ {c})
  <2>1. (s \ {c}) \ {y} = (s \ {y}) \ {c}
    OBVIOUS
  <2> QED BY <2>1
<1> DEFINE rest == Sum((s \ {y}) \ {c})
<1>8. rest \in Int
  <2>1. IsFiniteSet((s \ {y}) \ {c})
    BY <1>1, FS_RemoveElement
  <2> QED BY <2>1, SumTyped DEF Sum
<1>9. f[c] \in Int /\ f[y] \in Int
  BY <1>3
<1>10. Sum(s) = f[c] + (f[y] + rest) /\ Sum(s \ {y}) = f[c] + rest
  BY <1>3, <1>5, <1>6, <1>7
<1>11. Sum(s) = f[y] + Sum(s \ {y})
  <2> HIDE DEF rest
  <2> QED BY <1>8, <1>9, <1>10
<1> QED BY <1>2, <1>11

\* Sums of functions that agree on the set are equal.
LEMMA SumAgrees ==
    ASSUME NEW f, NEW g, NEW S, IsFiniteSet(S), \A x \in S : f[x] = g[x]
    PROVE  SumFunctionOnSet(f, S) = SumFunctionOnSet(g, S)
<1> DEFINE Bad == {s \in SUBSET S : SumFunctionOnSet(f, s) # SumFunctionOnSet(g, s)}
<1> SUFFICES ASSUME Bad # {} PROVE FALSE
  OBVIOUS
<1>0. Bad \in SUBSET SUBSET S
  OBVIOUS
<1>1. PICK s \in Bad : IsFiniteSet(s) /\ \A r \in SUBSET s : r # s => r \notin Bad
  <2> HIDE DEF Bad
  <2> QED BY <1>0, SmallestBad
<1>2. s # {}
  BY SumOfNone
<1> DEFINE c == AnyOf(s)
<1>3. /\ c \in s
      /\ SumFunctionOnSet(f, s) = f[c] + SumFunctionOnSet(f, s \ {c})
      /\ SumFunctionOnSet(g, s) = g[c] + SumFunctionOnSet(g, s \ {c})
  BY <1>1, <1>2, SumUnfolds
<1>4. SumFunctionOnSet(f, s \ {c}) = SumFunctionOnSet(g, s \ {c})
  BY <1>1, <1>3
<1> QED BY <1>3, <1>4

\* A sum of larger values is not smaller.
LEMMA SumGrows ==
    ASSUME NEW f, NEW g, NEW S, IsFiniteSet(S),
           \A x \in S : f[x] \in Int /\ g[x] \in Int /\ f[x] <= g[x]
    PROVE  SumFunctionOnSet(f, S) <= SumFunctionOnSet(g, S)
<1> DEFINE Bad == {s \in SUBSET S : ~(SumFunctionOnSet(f, s) <= SumFunctionOnSet(g, s))}
<1> SUFFICES ASSUME Bad # {} PROVE FALSE
  OBVIOUS
<1>0. Bad \in SUBSET SUBSET S
  OBVIOUS
<1>1. PICK s \in Bad : IsFiniteSet(s) /\ \A r \in SUBSET s : r # s => r \notin Bad
  <2> HIDE DEF Bad
  <2> QED BY <1>0, SmallestBad
<1>2. s # {}
  BY SumOfNone
<1> DEFINE c == AnyOf(s)
<1>3. /\ c \in s
      /\ SumFunctionOnSet(f, s) = f[c] + SumFunctionOnSet(f, s \ {c})
      /\ SumFunctionOnSet(g, s) = g[c] + SumFunctionOnSet(g, s \ {c})
  BY <1>1, <1>2, SumUnfolds
<1>4. SumFunctionOnSet(f, s \ {c}) <= SumFunctionOnSet(g, s \ {c})
  BY <1>1, <1>3
<1>5. SumFunctionOnSet(f, s \ {c}) \in Int /\ SumFunctionOnSet(g, s \ {c}) \in Int
  <2>1. IsFiniteSet(s \ {c})
    BY <1>1, FS_RemoveElement
  <2> QED BY <2>1, SumTyped
<1>6. f[c] \in Int /\ g[c] \in Int /\ f[c] <= g[c]
  BY <1>3
<1>7. SumFunctionOnSet(f, s) <= SumFunctionOnSet(g, s)
  <2> HIDE DEF c, Bad
  <2> QED BY <1>3, <1>4, <1>5, <1>6
<1> QED BY <1>7

\* The sum of natural numbers is a natural number.
LEMMA SumNat ==
    ASSUME NEW f, NEW S, IsFiniteSet(S), \A x \in S : f[x] \in Nat
    PROVE  SumFunctionOnSet(f, S) \in Nat
<1> DEFINE Bad == {s \in SUBSET S : SumFunctionOnSet(f, s) \notin Nat}
<1> SUFFICES ASSUME Bad # {} PROVE FALSE
  OBVIOUS
<1>0. Bad \in SUBSET SUBSET S
  OBVIOUS
<1>1. PICK s \in Bad : IsFiniteSet(s) /\ \A r \in SUBSET s : r # s => r \notin Bad
  <2> HIDE DEF Bad
  <2> QED BY <1>0, SmallestBad
<1>2. s # {}
  BY SumOfNone
<1>3. /\ AnyOf(s) \in s
      /\ SumFunctionOnSet(f, s) = f[AnyOf(s)] + SumFunctionOnSet(f, s \ {AnyOf(s)})
  BY <1>1, <1>2, SumUnfolds
<1>4. SumFunctionOnSet(f, s \ {AnyOf(s)}) \in Nat
  BY <1>1, <1>3
<1> QED BY <1>3, <1>4

\* The sum of sums is the sum of the two sums.
LEMMA SumAdds ==
    ASSUME NEW f, NEW g, NEW h, NEW S, IsFiniteSet(S),
           \A x \in S : f[x] \in Int /\ g[x] \in Int /\ h[x] = f[x] + g[x]
    PROVE  SumFunctionOnSet(h, S) = SumFunctionOnSet(f, S) + SumFunctionOnSet(g, S)
<1> DEFINE Bad == {s \in SUBSET S :
              SumFunctionOnSet(h, s) # SumFunctionOnSet(f, s) + SumFunctionOnSet(g, s)}
<1> SUFFICES ASSUME Bad # {} PROVE FALSE
  OBVIOUS
<1>0. Bad \in SUBSET SUBSET S
  OBVIOUS
<1>1. PICK s \in Bad : IsFiniteSet(s) /\ \A r \in SUBSET s : r # s => r \notin Bad
  <2> HIDE DEF Bad
  <2> QED BY <1>0, SmallestBad
<1>2. s # {}
  <2>1. /\ SumFunctionOnSet(f, {}) = 0 /\ SumFunctionOnSet(g, {}) = 0
        /\ SumFunctionOnSet(h, {}) = 0
    BY SumOfNone
  <2>2. {} \notin Bad
    BY <2>1
  <2> QED BY <2>2
<1> DEFINE c == AnyOf(s)
<1>3. /\ c \in s
      /\ SumFunctionOnSet(f, s) = f[c] + SumFunctionOnSet(f, s \ {c})
      /\ SumFunctionOnSet(g, s) = g[c] + SumFunctionOnSet(g, s \ {c})
      /\ SumFunctionOnSet(h, s) = h[c] + SumFunctionOnSet(h, s \ {c})
  BY <1>1, <1>2, SumUnfolds
<1>4. SumFunctionOnSet(h, s \ {c})
        = SumFunctionOnSet(f, s \ {c}) + SumFunctionOnSet(g, s \ {c})
  BY <1>1, <1>3
<1>5. SumFunctionOnSet(f, s \ {c}) \in Int /\ SumFunctionOnSet(g, s \ {c}) \in Int
  <2>1. IsFiniteSet(s \ {c})
    BY <1>1, FS_RemoveElement
  <2> QED BY <2>1, SumTyped
<1>6. f[c] \in Int /\ g[c] \in Int /\ h[c] = f[c] + g[c]
  BY <1>3
<1>7. SumFunctionOnSet(h, s) = SumFunctionOnSet(f, s) + SumFunctionOnSet(g, s)
  <2> HIDE DEF c, Bad
  <2> QED BY <1>3, <1>4, <1>5, <1>6
<1> QED BY <1>7

\* A change at one place changes the sum by as much.
LEMMA SumChanges ==
    ASSUME NEW f, NEW g, NEW S, IsFiniteSet(S), NEW x \in S,
           \A y \in S : f[y] \in Int /\ g[y] \in Int,
           \A y \in S \ {x} : g[y] = f[y]
    PROVE  SumFunctionOnSet(g, S) = SumFunctionOnSet(f, S) + g[x] - f[x]
<1> DEFINE rest == SumFunctionOnSet(f, S \ {x})
<1>1. IsFiniteSet(S \ {x})
  BY FS_RemoveElement
<1>2. SumFunctionOnSet(g, S \ {x}) = rest
  BY <1>1, SumAgrees
<1>3. SumFunctionOnSet(f, S) = f[x] + rest /\ SumFunctionOnSet(g, S) = g[x] + rest
  BY <1>2, SumWithout
<1>4. rest \in Int /\ f[x] \in Int /\ g[x] \in Int
  BY <1>1, SumTyped
<1> QED
  <2> HIDE DEF rest
  <2> QED BY <1>3, <1>4

LEMMA SumSame ==
    ASSUME NEW f, NEW g, DOMAIN f = DOMAIN g, IsFiniteSet(DOMAIN f),
           \A x \in DOMAIN f : f[x] = g[x]
    PROVE  SumFunction(f) = SumFunction(g)
BY SumAgrees DEF SumFunction

\* An amount that is served one place after the other, along a chain of sets that
\* grow by one: each place gets what it can take of what the ones before it left.
\* Together they get the amount, or all they can take.
LEMMA SumServed ==
    ASSUME NEW w, NEW g, NEW S, IsFiniteSet(S), NEW a \in Nat, NEW Chain \in SUBSET SUBSET S,
           \A x \in S : w[x] \in Nat,
           \A p \in Chain : p # {} =>
              \E x \in p :
                 /\ p \ {x} \in Chain
                 /\ g[x] = LET left == a - SumFunctionOnSet(w, p \ {x})
                           IN  IF left <= 0 THEN 0
                               ELSE IF left < w[x] THEN left ELSE w[x]
    PROVE  /\ \A p \in Chain : SumFunctionOnSet(g, p) =
                 IF a < SumFunctionOnSet(w, p) THEN a ELSE SumFunctionOnSet(w, p)
           /\ \A p \in Chain : \A x \in p : g[x] \in Nat
<1> DEFINE W(p) == SumFunctionOnSet(w, p)
           G(p) == SumFunctionOnSet(g, p)
           Bad == {p \in Chain : \/ G(p) # IF a < W(p) THEN a ELSE W(p)
                                 \/ \E x \in p : g[x] \notin Nat}
<1> SUFFICES ASSUME Bad # {} PROVE FALSE
  OBVIOUS
<1>0. Bad \in SUBSET SUBSET S
  OBVIOUS
<1>1. PICK p \in Bad : IsFiniteSet(p) /\ p \subseteq S /\ \A r \in SUBSET p : r # p => r \notin Bad
  <2> HIDE DEF Bad
  <2> QED BY <1>0, SmallestBad
<1>2. p \in Chain
  BY <1>1
<1>3. p # {}
  <2>1. SumFunctionOnSet(w, {}) = 0 /\ SumFunctionOnSet(g, {}) = 0
    BY SumOfNone
  <2>2. {} \notin Bad
    BY <2>1
  <2> QED BY <1>1, <2>2
<1>4. PICK x \in p :
         /\ p \ {x} \in Chain
         /\ g[x] = LET left == a - W(p \ {x})
                   IN  IF left <= 0 THEN 0 ELSE IF left < w[x] THEN left ELSE w[x]
  BY <1>2, <1>3
<1> DEFINE q == p \ {x}
<1>5. q \notin Bad /\ q \in Chain /\ IsFiniteSet(q) /\ \A y \in q : w[y] \in Nat
  <2>1. q \in SUBSET p /\ q # p /\ q \in Chain
    BY <1>4
  <2>2. IsFiniteSet(q)
    BY <1>1, FS_RemoveElement
  <2>3. q \notin Bad
    <3> HIDE DEF q, Bad
    <3> QED BY <1>1, <2>1
  <2> QED BY <1>1, <2>1, <2>2, <2>3
<1>6. G(q) = (IF a < W(q) THEN a ELSE W(q)) /\ \A y \in q : g[y] \in Nat
  BY <1>5
<1>7. W(q) \in Nat /\ w[x] \in Nat
  <2>1. W(q) \in Nat
    <3> HIDE DEF q
    <3> QED BY <1>5, SumNat
  <2> QED BY <1>1, <2>1
<1>8. g[x] \in Nat /\ g[x] = LET left == a - W(q)
                             IN  IF left <= 0 THEN 0 ELSE IF left < w[x] THEN left ELSE w[x]
  <2> HIDE DEF W
  <2> QED BY <1>4, <1>7
<1>9. W(p) = w[x] + W(q) /\ G(p) = g[x] + G(q)
  <2>1. \A y \in p : w[y] \in Int /\ g[y] \in Int
    BY <1>1, <1>6, <1>8
  <2> QED BY <1>1, <2>1, SumWithout
<1>10. G(p) = IF a < W(p) THEN a ELSE W(p)
  <2> HIDE DEF W, G, q
  <2> QED BY <1>6, <1>7, <1>8, <1>9
<1>11. \A y \in p : g[y] \in Nat
  BY <1>6, <1>8
<1> QED
  <2>1. p \notin Bad
    BY <1>10, <1>11
  <2> QED BY <1>1, <2>1

\* A sum of zeros.
LEMMA SumZero ==
    ASSUME NEW f, NEW S, IsFiniteSet(S), \A x \in S : f[x] = 0
    PROVE  SumFunctionOnSet(f, S) = 0
<1> DEFINE Bad == {s \in SUBSET S : SumFunctionOnSet(f, s) # 0}
<1> SUFFICES ASSUME Bad # {} PROVE FALSE
  OBVIOUS
<1>0. Bad \in SUBSET SUBSET S
  OBVIOUS
<1>1. PICK s \in Bad : IsFiniteSet(s) /\ \A r \in SUBSET s : r # s => r \notin Bad
  <2> HIDE DEF Bad
  <2> QED BY <1>0, SmallestBad
<1>2. s # {}
  BY SumOfNone
<1> DEFINE c == AnyOf(s)
<1>3. c \in s /\ SumFunctionOnSet(f, s) = f[c] + SumFunctionOnSet(f, s \ {c})
  BY <1>1, <1>2, SumUnfolds
<1>4. SumFunctionOnSet(f, s \ {c}) = 0 /\ f[c] = 0
  BY <1>1, <1>3
<1> QED
  <2> HIDE DEF c
  <2> QED BY <1>3, <1>4

\* Fewer natural numbers add up to no more.
LEMMA SumOfFewer ==
    ASSUME NEW f, NEW S, IsFiniteSet(S), NEW T \in SUBSET S, \A x \in S : f[x] \in Nat
    PROVE  SumFunctionOnSet(f, T) <= SumFunctionOnSet(f, S)
<1> DEFINE sum(s) == SumFunctionOnSet(f, s)
           Bad == {s \in SUBSET S : ~(sum(s \cap T) <= sum(s))}
<1>1. ASSUME Bad # {} PROVE FALSE
  <2>0. Bad \in SUBSET SUBSET S
    OBVIOUS
  <2>1. PICK s \in Bad : IsFiniteSet(s) /\ \A r \in SUBSET s : r # s => r \notin Bad
    <3> HIDE DEF Bad
    <3> QED BY <1>1, <2>0, SmallestBad
  <2>2. s # {}
    <3>1. s = {} => s \cap T = s
      OBVIOUS
    <3>2. SumFunctionOnSet(f, {}) = 0
      BY SumOfNone
    <3>3. s = {} => sum(s \cap T) <= sum(s)
      BY <3>1, <3>2
    <3> QED BY <2>1, <3>3
  <2> DEFINE c == AnyOf(s)
             rest == s \ {c}
  <2>3. c \in s /\ sum(s) = f[c] + sum(rest)
    BY <2>1, <2>2, SumUnfolds
  <2>4. IsFiniteSet(rest) /\ IsFiniteSet(s \cap T) /\ IsFiniteSet(rest \cap T)
    BY <2>1, FS_RemoveElement, FS_Subset
  <2>5. sum(rest \cap T) <= sum(rest)
    BY <2>1, <2>3
  <2>6. f[c] \in Nat /\ sum(rest) \in Nat /\ sum(rest \cap T) \in Nat
    BY <2>3, <2>4, SumNat
  <2>7. sum(s \cap T) \in {sum(rest \cap T), f[c] + sum(rest \cap T)}
    <3>1. CASE c \in T
      <4>1. (s \cap T) \ {c} = rest \cap T /\ c \in s \cap T
        BY <2>3, <3>1
      <4>2. \A x \in s \cap T : f[x] \in Int
        OBVIOUS
      <4>3. sum(s \cap T) = f[c] + sum((s \cap T) \ {c})
        BY <2>4, <4>1, <4>2, SumWithout
      <4> QED BY <4>1, <4>3
    <3>2. CASE c \notin T
      <4>1. s \cap T = rest \cap T
        BY <3>2
      <4> QED BY <4>1
    <3> QED BY <3>1, <3>2
  <2>8. sum(s \cap T) <= sum(s)
    <3> DEFINE a == sum(s \cap T)
               b == sum(rest \cap T)
               d == sum(rest)
               e == sum(s)
               k == f[c]
    <3>1. a \in {b, k + b} /\ e = k + d /\ b <= d /\ k \in Nat /\ b \in Nat /\ d \in Nat
      BY <2>3, <2>5, <2>6, <2>7
    <3> HIDE DEF a, b, d, e, k
    <3>2. a <= e
      BY <3>1
    <3> QED BY <3>2 DEF a, e
  <2> QED BY <2>1, <2>8
<1>2. S \cap T = T /\ S \notin Bad
  BY <1>1
<1> QED BY <1>2

\* The elements of T are in parts, p, of which g says which it is, and h is the
\* sum of f over every part.
InParts(f, g, h, p, T, D) ==
    /\ \A t \in T : f[t] \in Int /\ g[t] \in D
    /\ \A d \in D : p[d] \subseteq T /\ h[d] = SumFunctionOnSet(f, p[d])
    /\ \A d \in D, t \in T : t \in p[d] <=> g[t] = d

\* The sum over a set is the sum of the sums over its parts.
LEMMA SumOfParts ==
    ASSUME NEW f, NEW g, NEW h, NEW p, NEW T, NEW D, IsFiniteSet(T), IsFiniteSet(D),
           InParts(f, g, h, p, T, D)
    PROVE  SumFunctionOnSet(h, D) = SumFunctionOnSet(f, T)
<1> DEFINE part(s, d) == {t \in s : g[t] = d}
           sums(s) == [d \in D |-> SumFunctionOnSet(f, part(s, d))]
           Bad == {s \in SUBSET T : SumFunctionOnSet(sums(s), D) # SumFunctionOnSet(f, s)}
<1>0. \A t \in T : f[t] \in Int /\ g[t] \in D
  BY DEF InParts
<1>1. Bad = {}
  <2> SUFFICES ASSUME Bad # {} PROVE FALSE
    OBVIOUS
  <2>0. Bad \in SUBSET SUBSET T
    OBVIOUS
  <2>1. PICK s \in Bad : IsFiniteSet(s) /\ s \subseteq T /\ \A r \in SUBSET s : r # s => r \notin Bad
    <3> HIDE DEF Bad
    <3> QED BY <2>0, SmallestBad
  <2>2. s # {}
    <3>1. \A d \in D : part({}, d) = {}
      OBVIOUS
    <3>2. \A d \in D : sums({})[d] = 0
      BY <3>1, SumOfNone
    <3>3. SumFunctionOnSet(sums({}), D) = 0
      <4> HIDE DEF sums
      <4> QED BY <3>2, SumZero
    <3>4. SumFunctionOnSet(f, {}) = 0
      BY SumOfNone
    <3>5. {} \notin Bad
      <4> HIDE DEF sums
      <4> QED BY <3>3, <3>4
    <3> QED BY <3>5
  <2> DEFINE c == AnyOf(s)
             r == s \ {c}
  <2>3. c \in s /\ SumFunctionOnSet(f, s) = f[c] + SumFunctionOnSet(f, r)
    BY <2>1, <2>2, SumUnfolds
  <2>4. IsFiniteSet(r) /\ r \subseteq T
    BY <2>1, FS_RemoveElement
  <2>5. SumFunctionOnSet(sums(r), D) = SumFunctionOnSet(f, r)
    <3>1. r \in SUBSET s /\ r # s
      BY <2>3
    <3>2. r \notin Bad
      <4> HIDE DEF Bad
      <4> QED BY <2>1, <3>1
    <3> QED BY <2>4, <3>2
  <2> HIDE DEF c
  <2>6. g[c] \in D /\ f[c] \in Int
    BY <1>0, <2>1, <2>3
  <2>7. \A q \in SUBSET s, d \in D : SumFunctionOnSet(f, part(q, d)) \in Int
    <3> SUFFICES ASSUME NEW q \in SUBSET s, NEW d \in D
                 PROVE  SumFunctionOnSet(f, part(q, d)) \in Int
      OBVIOUS
    <3>1. IsFiniteSet(part(q, d)) /\ \A t \in part(q, d) : f[t] \in Int
      BY <1>0, <2>1, FS_Subset
    <3> HIDE DEF part
    <3> QED BY <3>1, SumTyped
  <2>8. PICK a, b, x : /\ a = [d \in D |-> SumFunctionOnSet(f, part(r, d))]
                       /\ b = [d \in D |-> SumFunctionOnSet(f, part(s, d))] /\ x = g[c]
    OBVIOUS
  <2>9. \A d \in D \ {x} : b[d] = a[d]
    <3> SUFFICES ASSUME NEW d \in D \ {x} PROVE part(s, d) = part(r, d)
      BY <2>8
    <3> QED BY <2>3, <2>8
  <2>10. b[x] = f[c] + a[x]
    <3>1. c \in part(s, x) /\ part(r, x) = part(s, x) \ {c}
      BY <2>3, <2>8
    <3>2. IsFiniteSet(part(s, x)) /\ \A t \in part(s, x) : f[t] \in Int
      BY <1>0, <2>1, FS_Subset
    <3>3. SumFunctionOnSet(f, part(s, x)) = f[c] + SumFunctionOnSet(f, part(s, x) \ {c})
      <4> HIDE DEF part
      <4> QED BY <3>1, <3>2, SumWithout
    <3>4. b[x] = SumFunctionOnSet(f, part(s, x)) /\ a[x] = SumFunctionOnSet(f, part(s, x) \ {c})
      BY <2>6, <2>8, <3>1
    <3> QED BY <3>3, <3>4
  <2>11. x \in D /\ \A d \in D : a[d] \in Int /\ b[d] \in Int
    BY <2>6, <2>7, <2>8
  <2>12. SumFunctionOnSet(b, D) = SumFunctionOnSet(a, D) + b[x] - a[x]
    BY <2>9, <2>11, SumChanges
  <2>13. SumFunctionOnSet(f, r) \in Int
    BY <1>0, <2>4, SumTyped
  <2>14. SumFunctionOnSet(a, D) = SumFunctionOnSet(f, r)
    BY <2>5, <2>8
  <2>15. SumFunctionOnSet(b, D) # SumFunctionOnSet(f, s)
    BY <2>1, <2>8
  <2> QED BY <2>3, <2>6, <2>8, <2>10, <2>11, <2>12, <2>13, <2>14, <2>15
<1>2. T \in SUBSET T /\ T \notin Bad
  <2> HIDE DEF Bad
  <2> QED BY <1>1
<1>3. SumFunctionOnSet(sums(T), D) = SumFunctionOnSet(f, T)
  BY <1>2
<1>4. \A d \in D : h[d] = sums(T)[d]
  <2>1. \A d \in D : p[d] = part(T, d) /\ h[d] = SumFunctionOnSet(f, p[d])
    BY DEF InParts
  <2> HIDE DEF part
  <2> QED BY <2>1
<1>5. SumFunctionOnSet(h, D) = SumFunctionOnSet(sums(T), D)
  <2> HIDE DEF sums
  <2> QED BY <1>4, SumAgrees
<1> QED BY <1>3, <1>5
=============================================================================
