---------------------------- MODULE SceneProofs -----------------------------
(***************************************************************************)
(* What the operators of Scene compute, for every value: sums over a set,  *)
(* a set in order, sequences joined.  The proofs about the store and about *)
(* the stream cite these lemmas.                                           *)
(*                                                                         *)
(* The induction principles are stated over sets, {n \in Nat : ...} or     *)
(* {T \in SUBSET S : ...}, and not over predicates: the provers take a     *)
(* theorem with an operator as parameter no further, but a set is a value. *)
(***************************************************************************)
EXTENDS Scene, FiniteSetTheorems, TLAPS

-----------------------------------------------------------------------------
(* Induction.                                                              *)

(* What holds of 0 and goes from each natural number to the next holds of  *)
(* all.                                                                    *)
LEMMA NaturalInduction ==
    ASSUME NEW N, 0 \in N, \A n \in Nat : n \in N => n + 1 \in N
    PROVE  \A n \in Nat : n \in N
<1> DEFINE Less == {ss \in Nat \X Nat : ss[1] < ss[2]}
           missed == Nat \ N
<1>1. IsWellFoundedOn(Less, Nat)
  BY NatLessThanWellFounded DEF OpToRel
<1>2. \A m, n \in Nat : m < n => <<m, n>> \in Less
  OBVIOUS
<1> SUFFICES ASSUME missed # {} PROVE FALSE
  OBVIOUS
<1>3. missed \subseteq Nat /\ missed # {}
  OBVIOUS
<1> HIDE DEF Less, missed
<1>4. PICK n \in missed : \A m \in missed : ~(<<m, n>> \in Less)
  BY <1>1, <1>3, WFMin
<1>5. n \in Nat /\ n \notin N /\ n # 0
  BY <1>4 DEF missed
<1>6. n - 1 \in Nat /\ (n - 1) + 1 = n
  BY <1>5
<1>7. n - 1 \in missed
  BY <1>5, <1>6 DEF missed
<1>8. <<n - 1, n>> \in Less
  BY <1>2, <1>5, <1>6
<1> QED BY <1>4, <1>7, <1>8

(* A collection of sets that has the empty set, and each set it has with   *)
(* one element more, has every finite set.                                 *)
LEMMA FiniteInduction ==
    ASSUME NEW S, IsFiniteSet(S), NEW Q, {} \in Q,
           \A T \in SUBSET S : \A x \in S \ T : T \in Q => T \cup {x} \in Q
    PROVE  S \in Q
<1> DEFINE N == {n \in Nat : \A T \in SUBSET S : Cardinality(T) = n => T \in Q}
<1>1. 0 \in N
  <2> SUFFICES ASSUME NEW T \in SUBSET S, Cardinality(T) = 0 PROVE T \in Q
    OBVIOUS
  <2>1. T = {}
    BY FS_Subset, FS_EmptySet
  <2> QED BY <2>1
<1>2. ASSUME NEW n \in Nat, n \in N
      PROVE  n + 1 \in N
  <2> SUFFICES ASSUME NEW T \in SUBSET S, Cardinality(T) = n + 1 PROVE T \in Q
    OBVIOUS
  <2>1. IsFiniteSet(T)
    BY FS_Subset
  <2>2. T # {}
    <3>1. Cardinality({}) = 0 /\ n + 1 # 0
      BY FS_EmptySet
    <3> QED BY <3>1
  <2>3. PICK x \in T : TRUE
    BY <2>2
  <2>4. Cardinality(T \ {x}) = n
    <3> HIDE DEF N
    <3>1. Cardinality(T \ {x}) = Cardinality(T) - 1
      BY <2>1, <2>3, FS_RemoveElement
    <3> QED BY <3>1
  <2>5. T \ {x} \in Q /\ T \ {x} \in SUBSET S /\ x \in S \ (T \ {x})
    BY <1>2, <2>3, <2>4
  <2>6. (T \ {x}) \cup {x} \in Q
    BY <2>5
  <2>7. (T \ {x}) \cup {x} = T
    BY <2>3
  <2> QED BY <2>6, <2>7
<1> HIDE DEF N
<1>3. Cardinality(S) \in N
  BY <1>1, <1>2, FS_CardinalityType, NaturalInduction
<1> QED BY <1>3 DEF N

-----------------------------------------------------------------------------
(* Sums: SumFunction adds the values of a function over its domain.        *)

(* The recursion of MapThenFoldSet, over the subsets of D.                 *)
Adds(f, D, iter) ==
    iter = [s \in SUBSET D |->
               IF s = {} THEN 0
               ELSE f[CHOOSE x \in s : TRUE] + iter[s \ {CHOOSE x \in s : TRUE}]]

(* It has a solution on a finite domain, and the sum is one.               *)
LEMMA SumIsAdded ==
    ASSUME NEW f, IsFiniteSet(DOMAIN f)
    PROVE  \E iter : Adds(f, DOMAIN f, iter) /\ SumFunction(f) = iter[DOMAIN f]
<1> DEFINE D == DOMAIN f
           Next(iter, s) ==
               IF s = {} THEN 0
               ELSE f[CHOOSE x \in s : TRUE] + iter[s \ {CHOOSE x \in s : TRUE}]
           Upto(n) == \E iter : \A s \in SUBSET D : Cardinality(s) <= n =>
                          iter[s] = Next(iter, s)
           N == {n \in Nat : Upto(n)}
<1>1. \A s \in SUBSET D : /\ IsFiniteSet(s)
                          /\ Cardinality(s) \in Nat
                          /\ Cardinality(s) <= Cardinality(D)
                          /\ Cardinality(s) = 0 <=> s = {}
                          /\ \A x \in s : Cardinality(s \ {x}) = Cardinality(s) - 1
  BY FS_Subset, FS_CardinalityType, FS_EmptySet, FS_RemoveElement
<1>2. 0 \in N
  <2> DEFINE iter == [s \in SUBSET D |-> 0]
  <2>1. \A s \in SUBSET D : Cardinality(s) <= 0 => iter[s] = Next(iter, s)
    BY <1>1
  <2> QED BY <2>1
<1>3. ASSUME NEW n \in Nat, n \in N
      PROVE  n + 1 \in N
  <2>1. PICK iter : \A s \in SUBSET D : Cardinality(s) <= n => iter[s] = Next(iter, s)
    BY <1>3
  <2> DEFINE more == [s \in SUBSET D |->
                         IF Cardinality(s) <= n THEN iter[s] ELSE Next(iter, s)]
  <2> SUFFICES ASSUME NEW s \in SUBSET D, Cardinality(s) <= n + 1
               PROVE  more[s] = Next(more, s)
    <3> HIDE DEF more, Next
    <3> QED OBVIOUS
  <2>2. CASE s = {}
    BY <2>1, <2>2, <1>1
  <2>3. CASE s # {}
    <3> DEFINE x == CHOOSE y \in s : TRUE
    <3>1. x \in s
      BY <2>3
    <3>2. s \ {x} \in SUBSET D /\ Cardinality(s \ {x}) <= n
      <4> HIDE DEF x
      <4> QED BY <1>1, <3>1
    <3>3. more[s \ {x}] = iter[s \ {x}]
      <4> HIDE DEF x, Next
      <4> QED BY <3>2
    <3>4. more[s] = f[x] + iter[s \ {x}]
      BY <2>1, <2>3
    <3> QED BY <2>3, <3>3, <3>4
  <2> QED BY <2>2, <2>3
<1>4. Cardinality(D) \in N
  <2> HIDE DEF N
  <2>1. Cardinality(D) \in Nat
    BY FS_CardinalityType
  <2> QED BY <1>2, <1>3, <2>1, NaturalInduction
<1>5. PICK iter : \A s \in SUBSET D : iter[s] = Next(iter, s)
  <2>1. PICK iter : \A s \in SUBSET D : Cardinality(s) <= Cardinality(D) =>
                        iter[s] = Next(iter, s)
    BY <1>4
  <2> QED BY <1>1, <2>1
<1> DEFINE whole == [s \in SUBSET D |-> iter[s]]
<1>6. Adds(f, D, whole)
  <2>1. \A s \in SUBSET D : s # {} => s \ {CHOOSE x \in s : TRUE} \in SUBSET D
    OBVIOUS
  <2>2. \A s \in SUBSET D : whole[s] = Next(whole, s)
    BY <1>5, <2>1
  <2>3. whole = [s \in SUBSET D |-> Next(whole, s)]
    <3> HIDE DEF Next
    <3> QED BY <2>2
  <2> QED BY <2>3 DEF Adds
<1> DEFINE chosen == CHOOSE g : Adds(f, D, g)
<1>7. Adds(f, D, chosen)
  BY <1>6
<1>8. SumFunction(f) = chosen[D]
  BY Zenon DEF SumFunction, SumFunctionOnSet, FoldFunctionOnSet, MapThenFoldSet, Adds
<1> QED BY <1>7, <1>8

(* Two functions that agree where both recursions go have the same sums.   *)
LEMMA SameSums ==
    ASSUME NEW f, NEW D, NEW h, Adds(f, D, h), NEW g, NEW E, NEW k, Adds(g, E, k),
           IsFiniteSet(E), E \subseteq D, \A x \in E : f[x] = g[x]
    PROVE  h[E] = k[E]
<1> DEFINE N == {n \in Nat : \A s \in SUBSET E : Cardinality(s) = n => h[s] = k[s]}
<1>1. \A s \in SUBSET E : /\ s \in SUBSET D
                          /\ IsFiniteSet(s)
                          /\ Cardinality(s) = 0 <=> s = {}
                          /\ \A x \in s : Cardinality(s \ {x}) = Cardinality(s) - 1
  BY FS_Subset, FS_CardinalityType, FS_EmptySet, FS_RemoveElement
<1>2. 0 \in N
  BY <1>1 DEF Adds
<1>3. ASSUME NEW n \in Nat, n \in N
      PROVE  n + 1 \in N
  <2> SUFFICES ASSUME NEW s \in SUBSET E, Cardinality(s) = n + 1 PROVE h[s] = k[s]
    OBVIOUS
  <2>1. s # {}
    BY <1>1
  <2> DEFINE x == CHOOSE y \in s : TRUE
             rest == s \ {x}
  <2>2. x \in s
    BY <2>1
  <2>3. h[s] = f[x] + h[rest] /\ k[s] = g[x] + k[rest]
    BY <1>1, <2>1 DEF Adds
  <2> HIDE DEF x
  <2>4. rest \in SUBSET E /\ Cardinality(rest) = n
    <3>1. Cardinality(rest) = Cardinality(s) - 1
      BY <1>1, <2>2
    <3> QED BY <3>1
  <2>5. h[rest] = k[rest]
    BY <1>3, <2>4
  <2> QED BY <2>2, <2>3, <2>5
<1> HIDE DEF N
<1>4. Cardinality(E) \in Nat /\ Cardinality(E) \in N
  BY <1>2, <1>3, FS_CardinalityType, NaturalInduction
<1> QED BY <1>4 DEF N

(* The sum of f over S.                                                    *)
Total(f, S) == SumFunction([x \in S |-> f[x]])

(* Nothing adds up to 0.                                                   *)
LEMMA SumOfNone == \A f : Total(f, {}) = 0
<1> TAKE f
<1> DEFINE g == [x \in {} |-> f[x]]
<1>1. DOMAIN g = {} /\ IsFiniteSet(DOMAIN g)
  BY FS_EmptySet
<1>2. PICK iter : Adds(g, DOMAIN g, iter) /\ SumFunction(g) = iter[DOMAIN g]
  <2> HIDE DEF g
  <2> QED BY <1>1, SumIsAdded
<1>3. iter[{}] = 0
  BY <1>1, <1>2 DEF Adds
<1> QED BY <1>1, <1>2, <1>3 DEF Total

(* The values of one recursion over the subsets of S are the sums.         *)
LEMMA SumsOfSubsets ==
    ASSUME NEW S, IsFiniteSet(S), NEW f
    PROVE  \E iter : Adds(f, S, iter) /\ \A T \in SUBSET S : Total(f, T) = iter[T]
<1> DEFINE g == [x \in S |-> f[x]]
<1>1. DOMAIN g = S /\ IsFiniteSet(DOMAIN g)
  OBVIOUS
<1>2. PICK iter : Adds(g, S, iter)
  <2> HIDE DEF g
  <2>1. \E iter : Adds(g, DOMAIN g, iter)
    BY <1>1, SumIsAdded
  <2> QED BY <1>1, <2>1
<1>3. Adds(f, S, iter)
  <2>1. \A s \in SUBSET S : s # {} =>
            g[CHOOSE x \in s : TRUE] = f[CHOOSE x \in s : TRUE]
    OBVIOUS
  <2> HIDE DEF g
  <2>2. [s \in SUBSET S |-> IF s = {} THEN 0
                            ELSE g[CHOOSE x \in s : TRUE] + iter[s \ {CHOOSE x \in s : TRUE}]]
        = [s \in SUBSET S |-> IF s = {} THEN 0
                            ELSE f[CHOOSE x \in s : TRUE] + iter[s \ {CHOOSE x \in s : TRUE}]]
    BY <2>1
  <2> QED BY <1>2, <2>2 DEF Adds
<1>4. ASSUME NEW T \in SUBSET S
      PROVE  Total(f, T) = iter[T]
  <2> DEFINE t == [x \in T |-> f[x]]
  <2>1. DOMAIN t = T /\ IsFiniteSet(T) /\ \A x \in T : f[x] = t[x]
    BY FS_Subset
  <2> HIDE DEF t
  <2>2. PICK k : Adds(t, T, k) /\ SumFunction(t) = k[T]
    BY <2>1, SumIsAdded
  <2>3. iter[T] = k[T]
    BY <1>3, <2>1, <2>2, SameSums
  <2> QED BY <2>2, <2>3 DEF Total, t
<1> QED BY <1>3, <1>4

(* A sum of integers is an integer.                                        *)
LEMMA SumType ==
    ASSUME NEW S, IsFiniteSet(S), NEW f, \A x \in S : f[x] \in Int
    PROVE  Total(f, S) \in Int
<1> DEFINE N == {n \in Nat : \A T \in SUBSET S : Cardinality(T) = n => Total(f, T) \in Int}
<1>1. PICK iter : Adds(f, S, iter) /\ \A T \in SUBSET S : Total(f, T) = iter[T]
  BY SumsOfSubsets
<1>2. \A s \in SUBSET S : /\ IsFiniteSet(s)
                          /\ Cardinality(s) \in Nat
                          /\ Cardinality(s) = 0 <=> s = {}
                          /\ \A x \in s : Cardinality(s \ {x}) = Cardinality(s) - 1
  BY FS_Subset, FS_CardinalityType, FS_EmptySet, FS_RemoveElement
<1>3. 0 \in N
  <2> SUFFICES ASSUME NEW T \in SUBSET S, Cardinality(T) = 0 PROVE Total(f, T) \in Int
    OBVIOUS
  <2>1. T = {}
    BY <1>2
  <2> QED BY <2>1, SumOfNone
<1>4. ASSUME NEW n \in Nat, n \in N
      PROVE  n + 1 \in N
  <2> SUFFICES ASSUME NEW T \in SUBSET S, Cardinality(T) = n + 1 PROVE Total(f, T) \in Int
    OBVIOUS
  <2>1. T # {}
    BY <1>2
  <2> DEFINE y == CHOOSE z \in T : TRUE
  <2>2. y \in T
    BY <2>1
  <2>3. iter[T] = f[y] + iter[T \ {y}]
    BY <1>1, <2>1 DEF Adds
  <2> HIDE DEF y
  <2>4. T \ {y} \in SUBSET S /\ Cardinality(T \ {y}) = n
    <3>1. Cardinality(T \ {y}) = Cardinality(T) - 1
      BY <1>2, <2>2
    <3> QED BY <3>1
  <2>5. Total(f, T \ {y}) \in Int
    BY <1>4, <2>4
  <2> QED BY <1>1, <2>2, <2>3, <2>4, <2>5
<1> HIDE DEF N
<1>5. Cardinality(S) \in Nat /\ Cardinality(S) \in N
  BY <1>2, <1>3, <1>4, NaturalInduction
<1> QED BY <1>5 DEF N

(* No order of adding matters.                                             *)
LEMMA SumStep ==
    ASSUME NEW S, IsFiniteSet(S), NEW f, \A x \in S : f[x] \in Int
    PROVE  \A T \in SUBSET S :
               /\ Total(f, T) \in Int
               /\ \A x \in T : Total(f, T) = f[x] + Total(f, T \ {x})
<1> DEFINE Holds(T) == /\ Total(f, T) \in Int
                       /\ \A x \in T : Total(f, T) = f[x] + Total(f, T \ {x})
           N == {n \in Nat : \A T \in SUBSET S : Cardinality(T) = n => Holds(T)}
<1>1. PICK iter : Adds(f, S, iter) /\ \A T \in SUBSET S : Total(f, T) = iter[T]
  BY SumsOfSubsets
<1>2. \A s \in SUBSET S : /\ IsFiniteSet(s)
                          /\ Cardinality(s) \in Nat
                          /\ Cardinality(s) = 0 <=> s = {}
                          /\ \A x \in s : Cardinality(s \ {x}) = Cardinality(s) - 1
  BY FS_Subset, FS_CardinalityType, FS_EmptySet, FS_RemoveElement
<1>3. 0 \in N
  BY <1>2, SumOfNone
<1>4. ASSUME NEW n \in Nat, n \in N
      PROVE  n + 1 \in N
  <2> SUFFICES ASSUME NEW T \in SUBSET S, Cardinality(T) = n + 1 PROVE Holds(T)
    OBVIOUS
  <2>1. T # {}
    BY <1>2
  <2> DEFINE y == CHOOSE z \in T : TRUE
  <2>2. y \in T
    BY <2>1
  <2>3. iter[T] = f[y] + iter[T \ {y}]
    BY <1>1, <2>1 DEF Adds
  <2>4. Total(f, T) = f[y] + Total(f, T \ {y})
    <3> HIDE DEF y
    <3> QED BY <1>1, <2>2, <2>3
  <2> HIDE DEF y
  <2>5. \A x \in T : T \ {x} \in SUBSET S /\ Holds(T \ {x})
    <3> TAKE x \in T
    <3>1. Cardinality(T \ {x}) = Cardinality(T) - 1
      BY <1>2
    <3>2. Cardinality(T \ {x}) = n /\ T \ {x} \in SUBSET S
      BY <3>1
    <3> HIDE DEF Holds
    <3> QED BY <1>4, <3>2
  <2>6. Total(f, T) \in Int
    BY <2>2, <2>4, <2>5
  <2>7. ASSUME NEW x \in T
        PROVE  Total(f, T) = f[x] + Total(f, T \ {x})
    <3>1. CASE x = y
      BY <2>4, <3>1
    <3>2. CASE x # y
      <4> DEFINE U == (T \ {x}) \ {y}
      <4>1. (T \ {y}) \ {x} = U /\ x \in T \ {y} /\ y \in T \ {x}
        BY <2>2, <3>2
      <4>2. Total(f, T \ {y}) = f[x] + Total(f, U)
        <5> HIDE DEF U
        <5> QED BY <2>2, <2>5, <4>1
      <4>3. Total(f, T \ {x}) = f[y] + Total(f, U)
        BY <2>5, <4>1
      <4>4. Total(f, U) \in Int
        <5>1. IsFiniteSet(U) /\ \A z \in U : f[z] \in Int
          BY <1>2
        <5> QED BY <5>1, SumType
      <4> HIDE DEF U
      <4>5. f[x] \in Int /\ f[y] \in Int
        BY <2>2
      <4> QED BY <2>4, <4>2, <4>3, <4>4, <4>5
    <3> QED BY <3>1, <3>2
  <2> QED BY <2>6, <2>7
<1> HIDE DEF N
<1>5. \A n \in Nat : n \in N
  BY <1>3, <1>4, NaturalInduction
<1>6. ASSUME NEW T \in SUBSET S PROVE Holds(T)
  <2>1. Cardinality(T) \in N
    BY <1>2, <1>5
  <2> HIDE DEF Holds
  <2> QED BY <2>1 DEF N
<1> QED BY <1>6

(* One element more.                                                       *)
LEMMA TotalAdd ==
    ASSUME NEW S, IsFiniteSet(S), NEW x, x \notin S, NEW f,
           \A y \in S \cup {x} : f[y] \in Int
    PROVE  Total(f, S \cup {x}) = Total(f, S) + f[x]
<1>1. IsFiniteSet(S \cup {x})
  BY FS_AddElement
<1>2. (S \cup {x}) \ {x} = S /\ S \in SUBSET (S \cup {x}) /\ x \in S \cup {x}
  OBVIOUS
<1>3. Total(f, S \cup {x}) = f[x] + Total(f, S)
  <2>1. Total(f, S \cup {x}) = f[x] + Total(f, (S \cup {x}) \ {x})
    BY <1>1, <1>2, SumStep
  <2>2. Total(f, (S \cup {x}) \ {x}) = Total(f, S)
    BY <1>2, Zenon
  <2> QED BY <2>1, <2>2
<1>4. Total(f, S) \in Int /\ f[x] \in Int
  BY SumType
<1> QED BY <1>3, <1>4

(* Another value for one element.                                          *)
LEMMA TotalChanged ==
    ASSUME NEW S, IsFiniteSet(S), NEW x \in S, NEW f, NEW g,
           \A y \in S : f[y] \in Int /\ g[y] \in Int,
           \A y \in S \ {x} : g[y] = f[y]
    PROVE  Total(g, S) = Total(f, S) - f[x] + g[x]
<1>1. IsFiniteSet(S \ {x}) /\ x \notin S \ {x} /\ (S \ {x}) \cup {x} = S
  BY FS_RemoveElement
<1>2. Total(f, S) = Total(f, S \ {x}) + f[x]
  BY <1>1, TotalAdd
<1>3. Total(g, S) = Total(g, S \ {x}) + g[x]
  BY <1>1, TotalAdd
<1>4. Total(g, S \ {x}) = Total(f, S \ {x})
  <2>1. [y \in S \ {x} |-> g[y]] = [y \in S \ {x} |-> f[y]]
    OBVIOUS
  <2> QED BY <2>1 DEF Total
<1>5. Total(f, S \ {x}) \in Int /\ f[x] \in Int /\ g[x] \in Int
  BY <1>1, SumType
<1> QED BY <1>2, <1>3, <1>4, <1>5

(* Two sets apart.                                                         *)
LEMMA TotalUnion ==
    ASSUME NEW S, IsFiniteSet(S), NEW T, IsFiniteSet(T), S \cap T = {}, NEW f,
           \A y \in S \cup T : f[y] \in Int
    PROVE  Total(f, S \cup T) = Total(f, S) + Total(f, T)
<1> DEFINE Q == {U \in SUBSET T : Total(f, S \cup U) = Total(f, S) + Total(f, U)}
<1>1. Total(f, S) \in Int
  BY SumType
<1>2. {} \in Q
  BY <1>1, SumOfNone
<1>3. ASSUME NEW U \in SUBSET T, NEW x \in T \ U, U \in Q
      PROVE  U \cup {x} \in Q
  <2>1. IsFiniteSet(U) /\ IsFiniteSet(S \cup U)
    BY FS_Subset, FS_Union
  <2>2. x \notin U /\ x \notin S \cup U /\ S \cup (U \cup {x}) = (S \cup U) \cup {x}
    OBVIOUS
  <2>3. Total(f, U \cup {x}) = Total(f, U) + f[x]
    BY <2>1, <2>2, TotalAdd
  <2>4. Total(f, (S \cup U) \cup {x}) = Total(f, S \cup U) + f[x]
    <3>1. \A y \in (S \cup U) \cup {x} : f[y] \in Int
      OBVIOUS
    <3> QED BY <2>1, <2>2, <3>1, TotalAdd
  <2>5. Total(f, U) \in Int /\ f[x] \in Int
    BY <2>1, SumType
  <2>6. Total(f, S \cup U) = Total(f, S) + Total(f, U)
    BY <1>3
  <2>7. Total(f, S \cup (U \cup {x})) = Total(f, S) + Total(f, U \cup {x})
    <3>1. Total(f, S \cup (U \cup {x})) = Total(f, (S \cup U) \cup {x})
      BY <2>2, Zenon
    <3> QED BY <1>1, <2>3, <2>4, <2>5, <2>6, <3>1
  <2> QED BY <2>7
<1>4. T \in Q
  <2> HIDE DEF Q
  <2> QED BY <1>2, <1>3, FiniteInduction
<1> QED BY <1>4

(* A part of what has no negative value adds up to no more than the whole. *)
LEMMA TotalOfPart ==
    ASSUME NEW S, IsFiniteSet(S), NEW T \in SUBSET S, NEW f, \A y \in S : f[y] \in Nat
    PROVE  Total(f, T) <= Total(f, S) /\ Total(f, T) \in Nat
<1>1. ASSUME NEW U, IsFiniteSet(U), \A y \in U : f[y] \in Nat
      PROVE  Total(f, U) \in Nat
  <2> DEFINE Q == {V \in SUBSET U : Total(f, V) \in Nat}
  <2>1. {} \in Q
    BY SumOfNone
  <2>2. ASSUME NEW V \in SUBSET U, NEW x \in U \ V, V \in Q
        PROVE  V \cup {x} \in Q
    <3>1. IsFiniteSet(V) /\ \A y \in V \cup {x} : f[y] \in Int
      BY <1>1, FS_Subset
    <3>2. Total(f, V \cup {x}) = Total(f, V) + f[x]
      BY <3>1, TotalAdd
    <3>3. f[x] \in Nat /\ Total(f, V) \in Nat
      BY <1>1, <2>2
    <3> QED BY <3>2, <3>3
  <2>3. U \in Q
    <3> HIDE DEF Q
    <3> QED BY <1>1, <2>1, <2>2, FiniteInduction
  <2> QED BY <2>3
<1>2. IsFiniteSet(T) /\ IsFiniteSet(S \ T)
  BY FS_Subset
<1>3. T \cup (S \ T) = S /\ T \cap (S \ T) = {}
  OBVIOUS
<1>4. Total(f, T) \in Nat /\ Total(f, S \ T) \in Nat
  BY <1>1, <1>2
<1>5. Total(f, S) = Total(f, T) + Total(f, S \ T)
  <2>1. \A y \in T \cup (S \ T) : f[y] \in Int
    OBVIOUS
  <2>2. Total(f, T \cup (S \ T)) = Total(f, S)
    BY <1>3, Zenon
  <2>3. Total(f, T \cup (S \ T)) = Total(f, T) + Total(f, S \ T)
    BY <1>2, <1>3, <2>1, TotalUnion
  <2> QED BY <2>2, <2>3
<1> QED BY <1>4, <1>5

(* The elements may be counted under other names.                          *)
LEMMA TotalRenamed ==
    ASSUME NEW S, IsFiniteSet(S), NEW name, \A x, y \in S : name[x] = name[y] => x = y,
           NEW f, \A x \in S : f[name[x]] \in Int
    PROVE  /\ IsFiniteSet({name[x] : x \in S})
           /\ Total(f, {name[x] : x \in S}) = Total([x \in S |-> f[name[x]]], S)
<1> DEFINE g == [x \in S |-> f[name[x]]]
           Named(T) == {name[x] : x \in T}
           Q == {T \in SUBSET S : IsFiniteSet(Named(T)) /\ Total(f, Named(T)) = Total(g, T)}
<1>1. {} \in Q
  <2>1. Named({}) = {}
    OBVIOUS
  <2> QED BY <2>1, SumOfNone, FS_EmptySet
<1>2. ASSUME NEW T \in SUBSET S, NEW x \in S \ T, T \in Q
      PROVE  T \cup {x} \in Q
  <2>1. Named(T \cup {x}) = Named(T) \cup {name[x]} /\ name[x] \notin Named(T)
    OBVIOUS
  <2>2. \A y \in Named(T) \cup {name[x]} : f[y] \in Int
    OBVIOUS
  <2>3. IsFiniteSet(Named(T)) /\ Total(f, Named(T)) = Total(g, T)
    BY <1>2
  <2>4. IsFiniteSet(Named(T) \cup {name[x]})
    BY <2>3, FS_AddElement
  <2>5. Total(f, Named(T) \cup {name[x]}) = Total(f, Named(T)) + f[name[x]]
    <3> HIDE DEF Named
    <3> QED BY <2>1, <2>2, <2>3, TotalAdd
  <2>6. Total(g, T \cup {x}) = Total(g, T) + g[x]
    <3>1. IsFiniteSet(T) /\ \A y \in T \cup {x} : g[y] \in Int
      BY FS_Subset
    <3> HIDE DEF g
    <3> QED BY <3>1, TotalAdd
  <2>7. g[x] = f[name[x]]
    OBVIOUS
  <2> HIDE DEF g, Named
  <2> QED BY <2>1, <2>3, <2>4, <2>5, <2>6, <2>7
<1>3. S \in Q
  <2> HIDE DEF Q
  <2> QED BY <1>1, <1>2, FiniteInduction
<1> QED BY <1>3

(* Zeros add nothing.                                                      *)
LEMMA TotalOfZeros ==
    ASSUME NEW S, IsFiniteSet(S), NEW f, \A x \in S : f[x] = 0
    PROVE  Total(f, S) = 0
<1> DEFINE Q == {T \in SUBSET S : Total(f, T) = 0}
<1>1. {} \in Q
  BY SumOfNone
<1>2. ASSUME NEW T \in SUBSET S, NEW x \in S \ T, T \in Q
      PROVE  T \cup {x} \in Q
  <2>1. IsFiniteSet(T) /\ \A y \in T \cup {x} : f[y] \in Int
    BY FS_Subset
  <2>2. Total(f, T \cup {x}) = Total(f, T) + f[x]
    BY <2>1, TotalAdd
  <2>3. Total(f, T) = 0 /\ f[x] = 0
    BY <1>2
  <2> QED BY <2>2, <2>3
<1>3. S \in Q
  <2> HIDE DEF Q
  <2> QED BY <1>1, <1>2, FiniteInduction
<1> QED BY <1>3

(* A sum does not ask for values outside its set.                          *)
LEMMA TotalSame ==
    ASSUME NEW S, NEW f, NEW g, \A x \in S : f[x] = g[x]
    PROVE  Total(f, S) = Total(g, S)
<1>1. [x \in S |-> f[x]] = [x \in S |-> g[x]]
  OBVIOUS
<1> QED BY <1>1 DEF Total

(* Parts that have nothing in common, each bounded.                        *)
LEMMA TotalOfParts ==
    ASSUME NEW S, IsFiniteSet(S), NEW part, NEW f, NEW g,
           \A c \in S : /\ IsFiniteSet(part[c]) /\ g[c] \in Nat
                        /\ \A x \in part[c] : f[x] \in Nat
                        /\ Total(f, part[c]) <= g[c],
           \A c, d \in S : c # d => part[c] \cap part[d] = {}
    PROVE  /\ IsFiniteSet(UNION {part[c] : c \in S})
           /\ Total(f, UNION {part[c] : c \in S}) <= Total(g, S)
<1> DEFINE U(T) == UNION {part[c] : c \in T}
           Q == {T \in SUBSET S : IsFiniteSet(U(T)) /\ Total(f, U(T)) <= Total(g, T)}
<1>1. {} \in Q
  <2>1. U({}) = {}
    OBVIOUS
  <2>2. Total(f, U({})) = Total(f, {})
    BY <2>1, Zenon
  <2>3. Total(f, {}) = 0 /\ Total(g, {}) = 0
    BY SumOfNone
  <2>4. IsFiniteSet(U({}))
    BY <2>1, FS_EmptySet, Zenon
  <2> HIDE DEF U
  <2> QED BY <2>2, <2>3, <2>4
<1>2. ASSUME NEW T \in SUBSET S, NEW c \in S \ T, T \in Q
      PROVE  T \cup {c} \in Q
  <2>1. U(T \cup {c}) = U(T) \cup part[c] /\ U(T) \cap part[c] = {}
    OBVIOUS
  <2>2. /\ IsFiniteSet(U(T)) /\ Total(f, U(T)) <= Total(g, T)
        /\ IsFiniteSet(T) /\ c \notin T
    BY <1>2, FS_Subset
  <2>3. \A x \in U(T) \cup part[c] : f[x] \in Int
    OBVIOUS
  <2>4. \A d \in T \cup {c} : g[d] \in Int
    OBVIOUS
  <2>5. IsFiniteSet(part[c]) /\ Total(f, part[c]) <= g[c] /\ g[c] \in Nat
    OBVIOUS
  <2> HIDE DEF U
  <2>6. Total(f, U(T) \cup part[c]) = Total(f, U(T)) + Total(f, part[c])
    BY ONLY <2>1, <2>2, <2>3, <2>5, TotalUnion
  <2>7. Total(g, T \cup {c}) = Total(g, T) + g[c]
    BY ONLY <2>2, <2>4, TotalAdd
  <2>8. Total(f, U(T \cup {c})) = Total(f, U(T) \cup part[c])
    BY <2>1, Zenon
  <2>9. Total(f, U(T)) \in Int /\ Total(f, part[c]) \in Int /\ Total(g, T) \in Int
    <3>1. \A x \in U(T) : f[x] \in Int
      BY <2>3
    <3>2. \A x \in part[c] : f[x] \in Int
      BY <2>3
    <3>3. \A d \in T : g[d] \in Int
      BY <2>4
    <3> QED BY ONLY <2>2, <2>5, <3>1, <3>2, <3>3, SumType
  <2>10. Total(f, U(T \cup {c})) <= Total(g, T \cup {c})
    BY <2>2, <2>5, <2>6, <2>7, <2>8, <2>9
  <2>11. IsFiniteSet(U(T \cup {c}))
    <3>1. IsFiniteSet(U(T) \cup part[c])
      BY ONLY <2>2, <2>5, FS_Union
    <3> QED BY <2>1, <3>1, Zenon
  <2> QED BY <2>10, <2>11
<1> HIDE DEF Q
<1>3. S \in Q
  BY <1>1, <1>2, FiniteInduction
<1> QED BY <1>3 DEF Q

-----------------------------------------------------------------------------
(* The resource limits.                                                    *)

(* The resources of a set of scenes, as ScenesFit holds them.              *)
Shared(s) == {[identity |-> s.identity, id |-> r, resource |-> s.resources[r]] :
                 r \in Present(s.resources)}

(* A resource that is held counts a natural number of bytes.               *)
Countable(held) == \A h \in held, p \in Planes : h.resource.bytes[p] \in Nat

(* The bytes of a part of what is held.                                    *)
LEMMA HeldIsTotal ==
    ASSUME NEW held, NEW part \in SUBSET held, NEW p
    PROVE  HeldBytes(part, p) = Total([h \in held |-> h.resource.bytes[p]], part)
<1>1. [h \in part |-> h.resource.bytes[p]]
          = [h \in part |-> [k \in held |-> k.resource.bytes[p]][h]]
  OBVIOUS
<1> QED BY <1>1, Zenon DEF HeldBytes, Total

(* Whoever holds less than what fits stays within the limits.              *)
LEMMA PartFits ==
    ASSUME NEW held, IsFiniteSet(held), Countable(held), HeldFits(held),
           NEW part \in SUBSET held
    PROVE  HeldFits(part)
<1>1. IsFiniteSet(part)
  BY FS_Subset
<1>2. ASSUME NEW big \in SUBSET held, NEW small \in SUBSET big, NEW p \in Planes
      PROVE  /\ HeldBytes(small, p) <= HeldBytes(big, p)
             /\ HeldBytes(small, p) \in Nat /\ HeldBytes(big, p) \in Nat
  <2> DEFINE f == [h \in held |-> h.resource.bytes[p]]
  <2>1. HeldBytes(small, p) = Total(f, small) /\ HeldBytes(big, p) = Total(f, big)
    <3>1. small \in SUBSET held
      OBVIOUS
    <3> QED BY <3>1, HeldIsTotal
  <2>2. \A h \in big : f[h] \in Nat
    BY DEF Countable
  <2>3. IsFiniteSet(big)
    BY FS_Subset
  <2> HIDE DEF f
  <2>4. Total(f, small) <= Total(f, big) /\ Total(f, small) \in Nat
    BY <2>2, <2>3, TotalOfPart
  <2>5. Total(f, big) \in Nat
    BY <2>2, <2>3, TotalOfPart
  <2> QED BY <2>1, <2>4, <2>5
<1>3. ASSUME NEW h \in part
      PROVE  /\ Cardinality(Of(part, h.identity)) <= MaximumResources
             /\ \A p \in Planes :
                    HeldBytes(Of(part, h.identity), p) <= MaximumProviderBytes[p]
  <2> DEFINE big == Of(held, h.identity)
             small == Of(part, h.identity)
  <2>1. big \in SUBSET held /\ small \in SUBSET big
    BY DEF Of
  <2>2. IsFiniteSet(big)
    BY <2>1, FS_Subset
  <2>3. /\ Cardinality(small) <= Cardinality(big)
        /\ Cardinality(small) \in Nat /\ Cardinality(big) \in Nat
    BY <2>1, <2>2, FS_Subset, FS_CardinalityType
  <2>4. /\ Cardinality(big) <= MaximumResources
        /\ \A p \in Planes : HeldBytes(big, p) <= MaximumProviderBytes[p]
    BY DEF HeldFits
  <2> HIDE DEF big, small
  <2>5. Cardinality(small) <= MaximumResources
    BY <2>3, <2>4, SceneAssumption
  <2>6. ASSUME NEW p \in Planes
        PROVE  HeldBytes(small, p) <= MaximumProviderBytes[p]
    <3>1. /\ HeldBytes(small, p) <= HeldBytes(big, p)
          /\ HeldBytes(small, p) \in Nat /\ HeldBytes(big, p) \in Nat
      BY <1>2, <2>1
    <3> QED BY <2>4, <3>1, SceneAssumption
  <2> QED BY <2>5, <2>6 DEF small
<1>4. ASSUME NEW p \in Planes
      PROVE  HeldBytes(part, p) <= MaximumGlobalBytes[p]
  <2>1. /\ HeldBytes(part, p) <= HeldBytes(held, p)
        /\ HeldBytes(part, p) \in Nat /\ HeldBytes(held, p) \in Nat
    BY <1>2
  <2>2. HeldBytes(held, p) <= MaximumGlobalBytes[p]
    BY DEF HeldFits
  <2> QED BY <2>1, <2>2, SceneAssumption
<1> QED BY <1>3, <1>4 DEF HeldFits

(* What one scene shares: as many resources as it has, as many bytes.      *)
LEMMA SharedByScene ==
    ASSUME NEW s \in Scenes, NEW p \in Planes
    PROVE  LET f == [r \in ResourceIds |-> s.resources[r].bytes[p]]
               h == [x \in Shared(s) |-> x.resource.bytes[p]]
           IN  /\ IsFiniteSet(Shared(s))
               /\ Cardinality(Shared(s)) = Cardinality(Present(s.resources))
               /\ Countable(Shared(s))
               /\ HeldBytes(Shared(s), p) = Total(f, Present(s.resources))
<1> DEFINE R == Present(s.resources)
           f == [r \in ResourceIds |-> s.resources[r].bytes[p]]
           name == [r \in R |-> [identity |-> s.identity, id |-> r, resource |-> s.resources[r]]]
           value == [x \in Shared(s) |-> x.resource.bytes[p]]
<1>1. /\ R \subseteq ResourceIds /\ IsFiniteSet(R)
      /\ \A r \in R : s.resources[r] \in Resources
  <2>1. s.resources \in ResourceMaps
    BY DEF Scenes
  <2>2. R \subseteq ResourceIds /\ \A r \in R : s.resources[r] \in Resources
    BY <2>1 DEF ResourceMaps, Present
  <2> QED BY <2>2, SceneAssumption, FS_Subset
<1>2. Shared(s) = {name[r] : r \in R}
  BY DEF Shared
<1>3. /\ \A q, r \in R : name[q] = name[r] => q = r
      /\ \A r \in R : name[r].resource = s.resources[r]
  OBVIOUS
<1>4. \A r \in R : \A q \in Planes : s.resources[r].bytes[q] \in Nat
  BY <1>1, SceneAssumption
<1>5. Countable(Shared(s))
  BY <1>2, <1>3, <1>4 DEF Countable
<1>6. \A r \in R : name[r] \in Shared(s) /\ value[name[r]] = f[r] /\ value[name[r]] \in Int
  BY <1>1, <1>2, <1>3, <1>4
<1>7. HeldBytes(Shared(s), p) = Total(value, Shared(s))
  BY HeldIsTotal
<1> HIDE DEF R, f, name, value
<1>8. /\ IsFiniteSet({name[r] : r \in R})
      /\ Total(value, {name[r] : r \in R}) = Total([r \in R |-> value[name[r]]], R)
  <2>1. IsFiniteSet(R) /\ \A q, r \in R : name[q] = name[r] => q = r
    BY <1>1, <1>3
  <2>2. \A r \in R : value[name[r]] \in Int
    BY <1>6
  <2> QED BY ONLY <2>1, <2>2, TotalRenamed, Zenon
<1>9. Total([r \in R |-> value[name[r]]], R) = Total(f, R)
  <2> DEFINE g == [r \in R |-> value[name[r]]]
  <2>1. \A r \in R : g[r] = f[r]
    BY <1>6
  <2> HIDE DEF g
  <2>2. Total(g, R) = Total(f, R)
    BY ONLY <2>1, TotalSame
  <2> QED BY <2>2 DEF g
<1>10. Total(value, Shared(s)) = Total(f, R) /\ IsFiniteSet(Shared(s))
  <2>1. Total(value, Shared(s)) = Total(value, {name[r] : r \in R})
        /\ IsFiniteSet(Shared(s))
    BY <1>2, <1>8, Zenon
  <2> QED BY <1>8, <1>9, <2>1
<1>11. Cardinality(Shared(s)) = Cardinality(R)
  <2>1. name \in Bijection(R, Shared(s))
    <3>1. name \in [R -> Shared(s)]
      BY <1>6 DEF name
    <3> QED BY <1>2, <1>3, <3>1 DEF Bijection, Injection, Surjection, IsInjective
  <2>2. ExistsBijection(R, Shared(s))
    BY <2>1 DEF ExistsBijection
  <2> QED BY ONLY <1>1, <2>2, FS_Bijection
<1> QED BY <1>5, <1>7, <1>10, <1>11 DEF R, f

-----------------------------------------------------------------------------
(* A set in order.                                                         *)

(* A linear order of S, as the set of what is below each element.          *)
Ranks(S, below) ==
    /\ below \in [S -> SUBSET S]
    /\ \A s \in S : s \notin below[s]
    /\ \A s, t \in S : s # t => s \in below[t] \/ t \in below[s]
    /\ \A s \in S : \A t \in below[s] : below[t] \subseteq below[s]

(* In a finite linear order the number of elements below one tells it from *)
(* all others, and every number up to the size of the set occurs.          *)
LEMMA RanksCount ==
    ASSUME NEW S, IsFiniteSet(S), NEW below, Ranks(S, below)
    PROVE  /\ \A s \in S, t \in S : t \in below[s] =>
                  Cardinality(below[t]) < Cardinality(below[s])
           /\ \A s \in S, t \in S : Cardinality(below[t]) = Cardinality(below[s]) => s = t
           /\ \A i \in 1..Cardinality(S) : \E s \in S : Cardinality(below[s]) = i - 1
<1> DEFINE n == Cardinality(S)
           rank == [s \in S |-> Cardinality(below[s])]
<1>1. \A s \in S : /\ IsFiniteSet(below[s]) /\ below[s] \in SUBSET S
                   /\ Cardinality(below[s]) \in Nat
  <2> SUFFICES ASSUME NEW s \in S
               PROVE  /\ IsFiniteSet(below[s]) /\ below[s] \in SUBSET S
                      /\ Cardinality(below[s]) \in Nat
    OBVIOUS
  <2>1. below[s] \in SUBSET S
    BY DEF Ranks
  <2> QED BY <2>1, FS_Subset, FS_CardinalityType
<1>2. ASSUME NEW s \in S, NEW t \in below[s]
      PROVE  Cardinality(below[t]) < Cardinality(below[s])
  <2>1. t \in S /\ t \notin below[t] /\ below[t] \cup {t} \in SUBSET below[s]
    BY <1>1 DEF Ranks
  <2>2. Cardinality(below[t] \cup {t}) = Cardinality(below[t]) + 1
    BY <1>1, <2>1, FS_AddElement
  <2>3. Cardinality(below[t] \cup {t}) <= Cardinality(below[s])
    BY <1>1, <2>1, FS_Subset
  <2> QED BY <1>1, <2>1, <2>2, <2>3
<1>3. ASSUME NEW s \in S, NEW t \in S, Cardinality(below[t]) = Cardinality(below[s])
      PROVE  s = t
  <2> SUFFICES ASSUME s # t PROVE FALSE
    OBVIOUS
  <2>1. s \in below[t] \/ t \in below[s]
    BY DEF Ranks
  <2>2. Cardinality(below[s]) < Cardinality(below[t])
            \/ Cardinality(below[t]) < Cardinality(below[s])
    BY <1>2, <2>1
  <2> QED BY <1>1, <1>3, <2>2
<1>4. n \in Nat
  BY FS_CardinalityType
<1>5. \A s \in S : rank[s] \in 0..n - 1
  <2> SUFFICES ASSUME NEW s \in S PROVE rank[s] \in 0..n - 1
    OBVIOUS
  <2>1. s \notin below[s] /\ below[s] \cup {s} \in SUBSET S
    BY <1>1 DEF Ranks
  <2>2. Cardinality(below[s] \cup {s}) = Cardinality(below[s]) + 1
    BY <1>1, <2>1, FS_AddElement
  <2>3. Cardinality(below[s] \cup {s}) <= n
    BY <2>1, FS_Subset
  <2> HIDE DEF n
  <2> QED BY <1>1, <1>4, <2>2, <2>3
<1>6. IsFiniteSet(0..n - 1) /\ Cardinality(0..n - 1) = n
  <2> HIDE DEF n
  <2>1. n - 1 \in Int /\ 0 \in Int
    BY <1>4
  <2>2. IsFiniteSet(0..n - 1)
        /\ Cardinality(0..n - 1) = IF 0 > n - 1 THEN 0 ELSE n - 1 - 0 + 1
    BY <2>1, FS_Interval
  <2> QED BY <1>4, <2>2
<1>7. rank \in Injection(S, 0..n - 1)
  <2>1. rank \in [S -> 0..n - 1]
    BY <1>5
  <2>2. \A s, t \in S : rank[s] = rank[t] => s = t
    BY <1>3
  <2> HIDE DEF rank, n
  <2> QED BY <2>1, <2>2 DEF Injection, IsInjective
<1>8. rank \in Surjection(S, 0..n - 1)
  <2> HIDE DEF rank
  <2> QED BY <1>6, <1>7, FS_Injection
<1>9. ASSUME NEW i \in 1..n
      PROVE  \E s \in S : Cardinality(below[s]) = i - 1
  <2>1. i - 1 \in 0..n - 1
    <3> HIDE DEF n
    <3> QED BY <1>4
  <2>2. \E s \in S : rank[s] = i - 1
    <3> HIDE DEF rank, n
    <3> QED BY <1>8, <2>1 DEF Surjection
  <2> QED BY <2>2
<1> HIDE DEF n
<1> QED BY <1>2, <1>3, <1>9 DEF n

(* Every rank below the number of elements is the rank of one of them.     *)
LEMMA RanksOccur ==
    ASSUME NEW S, IsFiniteSet(S), NEW below, Ranks(S, below)
    PROVE  \A i \in 1..Cardinality(S) : \E s \in S : Cardinality(below[s]) = i - 1
BY RanksCount

(* seq lists S, each element once.                                         *)
Enumerates(seq, S) ==
    /\ seq \in [1..Cardinality(S) -> S]
    /\ \A s \in S : \E i \in DOMAIN seq : seq[i] = s
    /\ \A i, j \in DOMAIN seq : seq[i] = seq[j] => i = j

(* A sequence that has at each place the element of that rank lists the    *)
(* set from below.                                                         *)
LEMMA RanksEnumerate ==
    ASSUME NEW S, IsFiniteSet(S), NEW below, Ranks(S, below),
           NEW seq, seq = [i \in 1..Cardinality(S) |-> seq[i]],
           \A i \in 1..Cardinality(S) : seq[i] \in S /\ Cardinality(below[seq[i]]) = i - 1
    PROVE  /\ Enumerates(seq, S)
           /\ \A i, j \in 1..Cardinality(S) : i < j => seq[i] \in below[seq[j]]
<1> DEFINE n == Cardinality(S)
<1>0. n \in Nat
  BY FS_CardinalityType
<1>1. \A s \in S : Cardinality(below[s]) \in Nat
  <2> SUFFICES ASSUME NEW s \in S PROVE Cardinality(below[s]) \in Nat
    OBVIOUS
  <2>1. below[s] \in SUBSET S
    BY DEF Ranks
  <2> QED BY <2>1, FS_Subset, FS_CardinalityType
<1>2. seq \in [1..n -> S] /\ DOMAIN seq = 1..n
  OBVIOUS
<1>3. ASSUME NEW s \in S
      PROVE  \E i \in 1..n : seq[i] = s
  <2> DEFINE i == Cardinality(below[s]) + 1
  <2>1. below[s] \cup {s} \in SUBSET S /\ s \notin below[s] /\ below[s] \in SUBSET S
    BY DEF Ranks
  <2>2. Cardinality(below[s] \cup {s}) = i /\ Cardinality(below[s] \cup {s}) <= n
    BY <2>1, FS_Subset, FS_AddElement
  <2>3. i \in 1..n /\ i - 1 = Cardinality(below[s])
    <3> HIDE DEF n
    <3> QED BY <1>0, <1>1, <2>2
  <2>4. Cardinality(below[seq[i]]) = Cardinality(below[s]) /\ seq[i] \in S
    <3> HIDE DEF i
    <3> QED BY <2>3
  <2>5. seq[i] = s
    <3> HIDE DEF i
    <3> QED BY <2>4, RanksCount
  <2> HIDE DEF i
  <2> QED BY <2>3, <2>5
<1>4. ASSUME NEW i \in 1..n, NEW j \in 1..n, seq[i] = seq[j]
      PROVE  i = j
  <2>1. i - 1 = j - 1
    BY <1>4
  <2> HIDE DEF n
  <2> QED BY <2>1, <1>0
<1>5. ASSUME NEW i \in 1..n, NEW j \in 1..n, i < j
      PROVE  seq[i] \in below[seq[j]]
  <2> SUFFICES ASSUME seq[i] \notin below[seq[j]] PROVE FALSE
    OBVIOUS
  <2>1. seq[i] # seq[j]
    BY <1>4, <1>5
  <2>2. seq[j] \in below[seq[i]]
    BY <2>1 DEF Ranks
  <2>3. Cardinality(below[seq[j]]) < Cardinality(below[seq[i]])
    BY <2>2, RanksCount
  <2>4. j - 1 < i - 1
    BY <2>3
  <2> HIDE DEF n
  <2> QED BY <1>0, <1>5, <2>4
<1>6. Enumerates(seq, S)
  BY <1>2, <1>3, <1>4 DEF Enumerates
<1> QED BY <1>5, <1>6

(* Numbers in order.                                                       *)
LEMMA NumbersInOrder ==
    ASSUME NEW S \in SUBSET Nat, IsFiniteSet(S)
    PROVE  LET seq == Ascending(S)
           IN  /\ Enumerates(seq, S)
               /\ \A i, j \in 1..Cardinality(S) : i < j => seq[i] < seq[j]
<1> DEFINE seq == Ascending(S)
           below == [s \in S |-> {t \in S : t < s}]
           n == Cardinality(S)
<1> HIDE DEF seq
<1>1. Ranks(S, below)
  <2>1. below \in [S -> SUBSET S] /\ \A s \in S : below[s] = {t \in S : t < s}
    OBVIOUS
  <2>2. \A s \in S : s \in Nat
    OBVIOUS
  <2>3. \A s, t \in S : t \in below[s] <=> t < s
    <3> HIDE DEF below
    <3> QED BY <2>1
  <2> HIDE DEF below
  <2>4. \A s \in S : s \notin below[s]
    BY <2>2, <2>3
  <2>5. \A s, t \in S : s # t => s \in below[t] \/ t \in below[s]
    BY <2>2, <2>3
  <2>6. \A s \in S : \A t \in below[s] : below[t] \subseteq below[s]
    <3> SUFFICES ASSUME NEW s \in S, NEW t \in below[s], NEW u \in below[t]
                 PROVE  u \in below[s]
      OBVIOUS
    <3>1. t \in S /\ u \in S
      BY <2>1
    <3>2. t < s /\ u < t
      BY <2>3, <3>1
    <3>3. u < s
      BY <2>2, <3>1, <3>2
    <3> QED BY <2>3, <3>1, <3>3
  <2> QED BY <2>1, <2>4, <2>5, <2>6 DEF Ranks
<1>2. \A i \in 1..n : \E s \in S : Cardinality({t \in S : t < s}) = i - 1
  <2>1. \A i \in 1..n : \E s \in S : Cardinality(below[s]) = i - 1
    <3> HIDE DEF below
    <3> QED BY ONLY <1>1, IsFiniteSet(S), RanksOccur
  <2> QED BY <2>1
<1>3. seq = [i \in 1..n |-> CHOOSE s \in S : Cardinality({t \in S : t < s}) = i - 1]
  BY DEF seq, Ascending, InOrder
<1>4. seq = [i \in 1..n |-> seq[i]]
  <2> DEFINE at(i) == CHOOSE s \in S : Cardinality({t \in S : t < s}) = i - 1
  <2>1. seq = [i \in 1..n |-> at(i)]
    BY <1>3, Zenon
  <2> HIDE DEF seq, at
  <2> QED BY <2>1
<1>5. ASSUME NEW i \in 1..n
      PROVE  seq[i] \in S /\ Cardinality(below[seq[i]]) = i - 1
  <2>1. seq[i] = CHOOSE s \in S : Cardinality({t \in S : t < s}) = i - 1
    <3> HIDE DEF seq
    <3> QED BY <1>3
  <2> HIDE DEF seq
  <2>2. seq[i] \in S /\ Cardinality({t \in S : t < seq[i]}) = i - 1
    BY <1>2, <2>1
  <2> QED BY <2>2
<1> HIDE DEF seq, below
<1>6. /\ Enumerates(seq, S)
      /\ \A i, j \in 1..n : i < j => seq[i] \in below[seq[j]]
  BY <1>1, <1>4, <1>5, RanksEnumerate
<1>7. \A i, j \in 1..n : i < j => seq[i] < seq[j]
  BY <1>5, <1>6 DEF below
<1> QED BY <1>6, <1>7 DEF seq

(* An interval in order counts through it.                                 *)
LEMMA IntervalInOrder ==
    ASSUME NEW a \in Nat, NEW b \in Nat, a <= b
    PROVE  /\ DOMAIN Ascending(a + 1..b) = 1..b - a
           /\ \A i \in 1..b - a : Ascending(a + 1..b)[i] = a + i
<1> DEFINE S == a + 1..b
           seq == Ascending(S)
<1> HIDE DEF seq
<1>1. IsFiniteSet(S) /\ Cardinality(S) = b - a
  <2>1. a + 1 \in Int /\ b \in Int
    OBVIOUS
  <2>2. IsFiniteSet(S) /\ Cardinality(S) = IF a + 1 > b THEN 0 ELSE b - (a + 1) + 1
    BY <2>1, FS_Interval
  <2> HIDE DEF S
  <2> QED BY <2>2
<1>2. seq = [i \in 1..Cardinality(S) |->
                CHOOSE s \in S : Cardinality({t \in S : t < s}) = i - 1]
  BY DEF seq, Ascending, InOrder
<1>3. ASSUME NEW s \in S
      PROVE  Cardinality({t \in S : t < s}) = s - a - 1
  <2>1. {t \in S : t < s} = a + 1..s - 1
    OBVIOUS
  <2>2. a + 1 \in Int /\ s - 1 \in Int
    OBVIOUS
  <2>3. Cardinality(a + 1..s - 1) = IF a + 1 > s - 1 THEN 0 ELSE s - 1 - (a + 1) + 1
    BY <2>2, FS_Interval
  <2>4. s \in Int /\ s >= a + 1
    OBVIOUS
  <2>5. Cardinality(a + 1..s - 1) = s - a - 1
    <3> HIDE DEF S
    <3> QED BY <2>3, <2>4
  <2> QED BY <2>1, <2>5, Zenon
<1>4. ASSUME NEW i \in 1..b - a
      PROVE  seq[i] = a + i
  <2>1. seq[i] = CHOOSE s \in S : Cardinality({t \in S : t < s}) = i - 1
    <3> HIDE DEF seq, S
    <3> QED BY <1>1, <1>2
  <2>2. a + i \in S /\ Cardinality({t \in S : t < a + i}) = i - 1
    <3>1. a + i \in S
      OBVIOUS
    <3>2. Cardinality({t \in S : t < a + i}) = (a + i) - a - 1
      <4> HIDE DEF S
      <4> QED BY <1>3, <3>1
    <3> HIDE DEF S
    <3> QED BY <3>1, <3>2
  <2> HIDE DEF seq
  <2>3. seq[i] \in S /\ Cardinality({t \in S : t < seq[i]}) = i - 1
    <3> HIDE DEF S
    <3> QED BY <2>1, <2>2
  <2>4. seq[i] - a - 1 = i - 1
    <3> HIDE DEF S
    <3> QED BY <1>3, <2>3
  <2> QED BY <2>3, <2>4
<1>5. DOMAIN seq = 1..b - a
  <2> HIDE DEF S, seq
  <2> QED BY <1>1, <1>2
<1> QED BY <1>4, <1>5 DEF seq

(* The order of the layers: l is drawn behind r.                           *)
Behind(order, l, r) ==
    \/ order[l.identity.application_id] < order[r.identity.application_id]
    \/ /\ order[l.identity.application_id] = order[r.identity.application_id]
       /\ l.identity.application_id < r.identity.application_id
    \/ /\ l.identity.application_id = r.identity.application_id
       /\ l.identity.instance_id < r.identity.instance_id

(* The layers list the scenes, each once: identities tell scenes apart, and *)
(* the order is linear on identities.                                       *)
LEMMA LayersEnumerate ==
    ASSUME NEW S \in SUBSET Scenes, IsFiniteSet(S),
           \A s, t \in S : s.identity = t.identity => s = t,
           NEW order, \A a \in ApplicationsOf(S) : order[a] \in Int
    PROVE  Enumerates(Layered(S, order), S)
<1> DEFINE seq == Layered(S, order)
           below == [s \in S |-> {t \in S : Behind(order, t, s)}]
<1> HIDE DEF seq
<1>1. \A s \in S : /\ s.identity \in Identities
                   /\ s.identity.application_id \in Nat
                   /\ s.identity.instance_id \in Nat
                   /\ order[s.identity.application_id] \in Int
  <2>1. \A s \in S : s.identity \in Identities /\ s.identity.application_id \in ApplicationsOf(S)
    BY DEF Scenes, ApplicationsOf
  <2> QED BY <2>1, SceneAssumption DEF Identities
<1>2. below \in [S -> SUBSET S] /\ \A s, t \in S : t \in below[s] <=> Behind(order, t, s)
  OBVIOUS
<1> HIDE DEF below
<1>3. Ranks(S, below)
  <2>1. ASSUME NEW s \in S PROVE s \notin below[s]
    <3>1. ~Behind(order, s, s)
      BY <1>1 DEF Behind
    <3> QED BY <1>2, <3>1
  <2>2. ASSUME NEW s \in S, NEW t \in S, s # t
        PROVE  s \in below[t] \/ t \in below[s]
    <3>1. s.identity # t.identity
      BY <2>2
    <3>2. \/ s.identity.application_id # t.identity.application_id
          \/ s.identity.instance_id # t.identity.instance_id
      BY <1>1, <3>1 DEF Identities
    <3>3. Behind(order, s, t) \/ Behind(order, t, s)
      BY <1>1, <3>2 DEF Behind
    <3> QED BY <1>2, <3>3
  <2>3. ASSUME NEW s \in S, NEW t \in below[s], NEW u \in below[t]
        PROVE  u \in below[s]
    <3>1. t \in S /\ u \in S
      BY <1>2
    <3>2. Behind(order, t, s) /\ Behind(order, u, t)
      BY <1>2, <3>1
    <3>3. Behind(order, u, s)
      BY <1>1, <3>1, <3>2 DEF Behind
    <3> QED BY <1>2, <3>1, <3>3
  <2> QED BY <1>2, <2>1, <2>2, <2>3 DEF Ranks
<1>4. seq = [i \in 1..Cardinality(S) |->
                CHOOSE s \in S : Cardinality({t \in S : Behind(order, t, s)}) = i - 1]
  BY Zenon DEF seq, Layered, InOrder, Behind
<1>5. \A i \in 1..Cardinality(S) :
          \E s \in S : Cardinality({t \in S : Behind(order, t, s)}) = i - 1
  <2>1. \A i \in 1..Cardinality(S) : \E s \in S : Cardinality(below[s]) = i - 1
    BY ONLY <1>3, IsFiniteSet(S), RanksOccur
  <2>2. \A s \in S : below[s] = {t \in S : Behind(order, t, s)}
    BY DEF below
  <2> QED BY <2>1, <2>2
<1>6. ASSUME NEW i \in 1..Cardinality(S)
      PROVE  seq[i] \in S /\ Cardinality(below[seq[i]]) = i - 1
  <2>1. seq[i] = CHOOSE s \in S : Cardinality({t \in S : Behind(order, t, s)}) = i - 1
    BY <1>4
  <2>2. seq[i] \in S /\ Cardinality({t \in S : Behind(order, t, seq[i])}) = i - 1
    BY <1>5, <2>1
  <2>3. below[seq[i]] = {t \in S : Behind(order, t, seq[i])}
    BY <2>2 DEF below
  <2> QED BY <2>2, <2>3
<1>7. seq = [i \in 1..Cardinality(S) |-> seq[i]]
  <2> DEFINE C(i) == CHOOSE s \in S : Cardinality({t \in S : Behind(order, t, s)}) = i - 1
  <2>1. seq = [i \in 1..Cardinality(S) |-> C(i)]
    BY <1>4
  <2> HIDE DEF C
  <2> QED BY <2>1
<1>8. Enumerates(seq, S)
  BY ONLY <1>3, <1>6, <1>7, IsFiniteSet(S), RanksEnumerate
<1> QED BY <1>8 DEF seq

-----------------------------------------------------------------------------
(* Sequences joined.                                                       *)

(* flat[i] is the first i sequences in one.                                *)
Joins(flat, seqs) ==
    flat = [i \in 1..Len(seqs) |-> IF i = 1 THEN seqs[i] ELSE flat[i - 1] \o seqs[i]]

(* FlattenSeq joins the sequences one after the other.                     *)
LEMMA FlattenJoins ==
    ASSUME NEW P, NEW seqs \in Seq(Seq(P)), Len(seqs) # 0
    PROVE  \E flat : Joins(flat, seqs) /\ FlattenSeq(seqs) = flat[Len(seqs)]
<1> DEFINE n == Len(seqs)
           Next(f, i) == IF i = 1 THEN seqs[i] ELSE f[i - 1] \o seqs[i]
           N == {k \in Nat : \E f : \A i \in 1..n : i <= k => f[i] = Next(f, i)}
<1>1. n \in Nat
  OBVIOUS
<1>2. 0 \in N
  OBVIOUS
<1>3. ASSUME NEW k \in Nat, k \in N
      PROVE  k + 1 \in N
  <2>1. PICK f : \A i \in 1..n : i <= k => f[i] = Next(f, i)
    BY <1>3
  <2> DEFINE more == [i \in 1..n |-> IF i <= k THEN f[i] ELSE Next(f, i)]
  <2>2. ASSUME NEW i \in 1..n, i <= k + 1
        PROVE  more[i] = Next(more, i)
    <3>1. more[i] = Next(f, i)
      BY <2>1
    <3>2. CASE i = 1
      BY <3>1, <3>2
    <3>3. CASE i # 1
      <4>1. i - 1 \in 1..n /\ i - 1 <= k
        BY <1>1, <2>2, <3>3
      <4>2. more[i - 1] = f[i - 1]
        BY <4>1
      <4> HIDE DEF more
      <4> QED BY <3>1, <3>3, <4>2
    <3> QED BY <3>2, <3>3
  <2> HIDE DEF more, Next
  <2> QED BY <2>2
<1>4. n \in N
  <2> HIDE DEF N, n
  <2> QED BY <1>1, <1>2, <1>3, NaturalInduction
<1>5. PICK f : \A i \in 1..n : f[i] = Next(f, i)
  BY <1>1, <1>4
<1> DEFINE whole == [i \in 1..n |-> f[i]]
           chosen == CHOOSE g : Joins(g, seqs)
<1>6. Joins(whole, seqs)
  <2>1. \A i \in 1..n : whole[i] = Next(whole, i)
    <3> SUFFICES ASSUME NEW i \in 1..n PROVE whole[i] = Next(whole, i)
      OBVIOUS
    <3>1. i # 1 => i - 1 \in 1..n
      BY <1>1
    <3>2. i # 1 => whole[i - 1] = f[i - 1]
      BY <3>1
    <3>3. whole[i] = Next(f, i)
      BY <1>5
    <3> HIDE DEF whole
    <3> QED BY <3>2, <3>3
  <2>2. whole = [i \in 1..n |-> Next(whole, i)]
    <3> HIDE DEF Next
    <3> QED BY <2>1
  <2> HIDE DEF whole
  <2> QED BY <2>2 DEF Joins
<1>7. Joins(chosen, seqs)
  BY <1>6
<1>8. FlattenSeq(seqs) = chosen[n]
  BY Zenon DEF FlattenSeq, Joins
<1> QED BY <1>7, <1>8

(* Each of the joined beginnings is a sequence of the same elements.       *)
LEMMA JoinsType ==
    ASSUME NEW P, NEW seqs \in Seq(Seq(P)), NEW flat, Joins(flat, seqs)
    PROVE  \A i \in 1..Len(seqs) : flat[i] \in Seq(P)
<1> DEFINE n == Len(seqs)
           N == {k \in Nat : k + 1 \in 1..n => flat[k + 1] \in Seq(P)}
<1>1. n \in Nat /\ \A i \in 1..n : seqs[i] \in Seq(P)
  OBVIOUS
<1>2. \A i \in 1..n : flat[i] = IF i = 1 THEN seqs[i] ELSE flat[i - 1] \o seqs[i]
  BY DEF Joins
<1> HIDE DEF n
<1>3. 0 \in N
  BY <1>1, <1>2
<1>4. ASSUME NEW k \in Nat, k \in N
      PROVE  k + 1 \in N
  <2> SUFFICES ASSUME k + 2 \in 1..n PROVE flat[k + 2] \in Seq(P)
    OBVIOUS
  <2>1. flat[k + 1] \in Seq(P)
    BY <1>1, <1>4
  <2>2. flat[k + 2] = flat[k + 1] \o seqs[k + 2]
    <3>1. k + 2 # 1 /\ (k + 2) - 1 = k + 1
      OBVIOUS
    <3>2. flat[k + 2] = flat[(k + 2) - 1] \o seqs[k + 2]
      BY <1>2, <3>1
    <3> QED BY <3>1, <3>2, Zenon
  <2> QED BY <1>1, <2>1, <2>2
<1>5. \A k \in Nat : k \in N
  <2> HIDE DEF N
  <2> QED BY <1>3, <1>4, NaturalInduction
<1> SUFFICES ASSUME NEW i \in 1..n PROVE flat[i] \in Seq(P)
  BY DEF n
<1>6. i - 1 \in Nat /\ i - 1 + 1 = i
  BY <1>1
<1>7. i - 1 \in N
  <2> HIDE DEF N
  <2> QED BY <1>5, <1>6
<1> QED BY <1>6, <1>7

=============================================================================
