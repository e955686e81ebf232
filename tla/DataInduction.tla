---------------------------- MODULE DataInduction ----------------------------
(***************************************************************************)
(* Induction over data, and the facts about sums and sequences that the    *)
(* proofs of more than one component need.  The principles are stated for  *)
(* sets and not for predicates: a reader of a lemma names the set of those *)
(* numbers, or of those subsets, for which a claim holds.  They follow     *)
(* from the library's fact that a nonempty set has a minimal element in a  *)
(* well-founded order.                                                     *)
(***************************************************************************)
EXTENDS Integers, Sequences, SequencesExt, FiniteSetsExt, FiniteSetTheorems,
        SequenceTheorems, TLAPS

-----------------------------------------------------------------------------
(* Induction                                                               *)

\* A nonempty set of naturals has a least element.
LEMMA LeastNatural ==
  ASSUME NEW N, N \subseteq Nat, N # {}
  PROVE  \E n \in N : \A m \in N : n <= m
<1> DEFINE R == OpToRel(<, Nat)
<1>1. IsWellFoundedOn(R, Nat)
  BY NatLessThanWellFounded
<1>2. PICK n \in N : \A m \in N : <<m, n>> \notin R
  BY <1>1, WFMin
<1>3. \A m \in N : ~ (m < n)
  BY <1>2 DEF OpToRel
<1> QED BY <1>3

\* Zero, and with every number the next: all numbers.
LEMMA NaturalsBySteps ==
  ASSUME NEW N, N \subseteq Nat, 0 \in N, \A n \in N : n + 1 \in N
  PROVE  N = Nat
<1>1. SUFFICES ASSUME Nat \ N # {} PROVE FALSE
  OBVIOUS
<1>2. PICK n \in Nat \ N : \A m \in Nat \ N : n <= m
  BY <1>1, LeastNatural, Nat \ N \subseteq Nat
<1>3. n - 1 \in Nat /\ ~ (n <= n - 1)
  OBVIOUS
<1>4. n - 1 \in N
  BY <1>2, <1>3
<1>5. (n - 1) + 1 = n
  OBVIOUS
<1> QED BY <1>4, <1>5

\* Of some parts of a finite set there is one with no other of them within it.
LEMMA MinimalPart ==
  ASSUME NEW S, IsFiniteSet(S), NEW B, B \subseteq SUBSET S, B # {}
  PROVE  \E U \in B : \A V \in B : V \subseteq U => V = U
<1> DEFINE R == StrictSubsetOrdering(S)
<1>1. IsWellFoundedOn(R, SUBSET S)
  BY FS_StrictSubsetOrderingWellFounded, FS_FiniteSubsetsOfFinite
<1>2. PICK U \in B : \A V \in B : <<V, U>> \notin R
  <2> HIDE DEF R
  <2> QED BY <1>1, WFMin
<1>3. \A V \in B : ~ (V \subseteq U /\ V # U)
  BY <1>2 DEF StrictSubsetOrdering
<1> QED BY <1>3

\* What holds of a part of a finite set whenever it holds of all smaller parts within it,
\* holds of every part.
LEMMA FiniteSetByParts ==
  ASSUME NEW S, IsFiniteSet(S), NEW Q,
         \A U \in SUBSET S : (\A V \in SUBSET U : V # U => V \in Q) => U \in Q
  PROVE  SUBSET S \subseteq Q
<1> DEFINE B == (SUBSET S) \ Q
<1>1. SUFFICES ASSUME B # {} PROVE FALSE
  OBVIOUS
<1>2. PICK U \in B : \A V \in B : V \subseteq U => V = U
  <2>1. B \subseteq SUBSET S
    OBVIOUS
  <2> HIDE DEF B
  <2> QED BY <1>1, <2>1, MinimalPart
<1>3. \A V \in SUBSET U : V # U => V \in Q
  BY <1>2
<1> QED BY <1>2, <1>3

\* The empty set, and with every subset the next larger ones: the whole finite set.
LEMMA FiniteSetBySteps ==
  ASSUME NEW S, IsFiniteSet(S), NEW Q, {} \in Q,
         \A U \in SUBSET S : \A x \in S \ U : U \in Q => U \cup {x} \in Q
  PROVE  S \in Q
<1>1. ASSUME NEW U \in SUBSET S, \A V \in SUBSET U : V # U => V \in Q, U # {}
      PROVE  U \in Q
  <2>1. PICK x : x \in U
    BY <1>1
  <2>2. U \ {x} \in Q
    BY <1>1, <2>1, U \ {x} \in SUBSET U, U \ {x} # U
  <2>3. U = (U \ {x}) \cup {x} /\ x \in S \ (U \ {x}) /\ U \ {x} \in SUBSET S
    BY <2>1
  <2> QED BY <2>2, <2>3
<1>2. \A U \in SUBSET S : (\A V \in SUBSET U : V # U => V \in Q) => U \in Q
  BY <1>1
<1> QED BY <1>2, FiniteSetByParts

\* The values of a function on a finite set are finitely many.
LEMMA ImageIsFinite ==
  ASSUME NEW S, IsFiniteSet(S), NEW f
  PROVE  IsFiniteSet({f[x] : x \in S})
<1> DEFINE T == {f[x] : x \in S}
           g == [x \in S |-> f[x]]
<1>1. g \in Surjection(S, T)
  BY DEF Surjection
<1> QED BY <1>1, FS_Surjection

-----------------------------------------------------------------------------
(* Sums                                                                    *)

\* Element by element SumFunction adds up a function.
SumOf(g, T) == SumFunction([y \in T |-> g[y]])
Some(T) == CHOOSE x \in T : TRUE
IsFold(g, U, h) ==
  h = [T \in SUBSET U |-> IF T = {} THEN 0 ELSE g[Some(T)] + h[T \ {Some(T)}]]

\* The definition of the library, with its recursive function as a value.
LEMMA SumIsFold ==
  ASSUME NEW g, NEW U, NEW k, IsFold([y \in U |-> g[y]], U, k)
  PROVE  \E h : IsFold([y \in U |-> g[y]], U, h) /\ SumOf(g, U) = h[U]
<1> DEFINE f == [y \in U |-> g[y]]
           R(h) == h = [s \in SUBSET DOMAIN f |->
                     IF s = {} THEN 0 ELSE f[CHOOSE x \in s : TRUE] + h[s \ {CHOOSE x \in s : TRUE}]]
<1>1. SumFunction(f) = (CHOOSE h : R(h))[DOMAIN f]
  BY DEF SumFunction, SumFunctionOnSet, FoldFunctionOnSet, MapThenFoldSet
<1>2. R(k)
  BY DEF IsFold, Some
<1>3. R(CHOOSE h : R(h))
  <2> HIDE DEF R
  <2> QED BY <1>2
<1>4. DOMAIN f = U
  OBVIOUS
<1>5. \A h : R(h) => IsFold(f, U, h)
  BY DEF IsFold, Some
<1> QED BY <1>1, <1>3, <1>4, <1>5 DEF SumOf

\* Of a function with whole numbers there is such a function of its parts: on those with
\* at most n elements for every n.
LEMMA FoldExists ==
  ASSUME NEW U, IsFiniteSet(U), NEW g \in [U -> Int]
  PROVE  \E h \in [SUBSET U -> Int] : IsFold(g, U, h)
<1> DEFINE Next(h, T) == IF T = {} THEN 0 ELSE g[Some(T)] + h[T \ {Some(T)}]
           N == {n \in Nat : \E h \in [SUBSET U -> Int] :
                    \A T \in SUBSET U : Cardinality(T) <= n => h[T] = Next(h, T)}
<1>1. \A T \in SUBSET U : IsFiniteSet(T) /\ Cardinality(T) \in Nat
                             /\ (Cardinality(T) = 0 <=> T = {})
  BY FS_Subset, FS_CardinalityType, FS_EmptySet
<1>2. \A T \in SUBSET U : T # {} => /\ Some(T) \in T
                                     /\ T \ {Some(T)} \in SUBSET U
                                     /\ Cardinality(T \ {Some(T)}) = Cardinality(T) - 1
  <2> SUFFICES ASSUME NEW T \in SUBSET U, T # {}
               PROVE  Some(T) \in T /\ T \ {Some(T)} \in SUBSET U
                        /\ Cardinality(T \ {Some(T)}) = Cardinality(T) - 1
    OBVIOUS
  <2>1. Some(T) \in T
    BY DEF Some
  <2> QED BY <1>1, <2>1, FS_RemoveElement
<1>3. 0 \in N
  <2> DEFINE h == [T \in SUBSET U |-> 0]
  <2>1. h \in [SUBSET U -> Int]
    OBVIOUS
  <2>2. \A T \in SUBSET U : Cardinality(T) <= 0 => T = {}
    BY <1>1
  <2>3. \A T \in SUBSET U : Cardinality(T) <= 0 => h[T] = Next(h, T)
    BY <2>2
  <2> QED BY <2>1, <2>3
<1>4. ASSUME NEW n \in N PROVE n + 1 \in N
  <2>1. PICK h \in [SUBSET U -> Int] :
          \A T \in SUBSET U : Cardinality(T) <= n => h[T] = Next(h, T)
    OBVIOUS
  <2> DEFINE k == [T \in SUBSET U |-> Next(h, T)]
  <2>2. k \in [SUBSET U -> Int]
    <3>1. ASSUME NEW T \in SUBSET U, T # {} PROVE g[Some(T)] \in Int /\ h[T \ {Some(T)}] \in Int
      BY <1>2, <3>1
    <3>2. \A T \in SUBSET U : Next(h, T) \in Int
      BY <3>1
    <3> HIDE DEF Next
    <3> QED BY <3>2
  <2>3. ASSUME NEW T \in SUBSET U, Cardinality(T) <= n + 1, T # {} PROVE k[T] = Next(k, T)
    <3> DEFINE R == T \ {Some(T)}
    <3>1. R \in SUBSET U /\ Cardinality(R) <= n
      BY <1>1, <1>2, <2>3
    <3>2. h[R] = k[R]
      BY <2>1, <3>1
    <3> QED BY <2>3, <3>2
  <2>4. \A T \in SUBSET U : Cardinality(T) <= n + 1 => k[T] = Next(k, T)
    <3>1. k[{}] = Next(k, {})
      OBVIOUS
    <3> HIDE DEF k
    <3> QED BY <2>3, <3>1
  <2> HIDE DEF k, Next
  <2> QED BY <2>2, <2>4
<1>5. N = Nat
  <2>1. N \subseteq Nat
    OBVIOUS
  <2> HIDE DEF N
  <2> QED BY <1>3, <1>4, <2>1, NaturalsBySteps
<1>6. Cardinality(U) \in N
  BY <1>1, <1>5
<1>7. PICK h \in [SUBSET U -> Int] :
        \A T \in SUBSET U : Cardinality(T) <= Cardinality(U) => h[T] = Next(h, T)
  BY <1>6
<1>8. \A T \in SUBSET U : Cardinality(T) <= Cardinality(U)
  BY FS_Subset
<1>9. \A T \in SUBSET U : h[T] = Next(h, T)
  BY <1>7, <1>8
<1> QED BY <1>9 DEF IsFold

\* In which order the elements are taken does not matter.
LEMMA FoldInAnyOrder ==
  ASSUME NEW U, IsFiniteSet(U), NEW g \in [U -> Int], NEW h \in [SUBSET U -> Int],
         IsFold(g, U, h)
  PROVE  /\ h[{}] = 0
         /\ \A T \in SUBSET U : \A x \in T : h[T] = g[x] + h[T \ {x}]
<1> DEFINE Q == {T \in SUBSET U : \A x \in T : h[T] = g[x] + h[T \ {x}]}
<1>1. h[{}] = 0
  BY DEF IsFold
<1>2. \A T \in SUBSET U : T # {} => Some(T) \in T /\ h[T] = g[Some(T)] + h[T \ {Some(T)}]
  BY DEF IsFold, Some
<1>3. ASSUME NEW T \in SUBSET U, \A V \in SUBSET T : V # T => V \in Q, NEW x \in T
      PROVE  h[T] = g[x] + h[T \ {x}]
  <2>0. PICK c \in T : h[T] = g[c] + h[T \ {c}]
    BY <1>2
  <2>1. CASE c = x
    BY <2>0, <2>1
  <2>2. CASE c # x
    <3>1. h[T \ {c}] = g[x] + h[(T \ {c}) \ {x}]
      BY <1>3, <2>2, T \ {c} \in SUBSET T, T \ {c} # T, x \in T \ {c}
    <3>2. h[T \ {x}] = g[c] + h[(T \ {x}) \ {c}]
      BY <1>3, <2>2, T \ {x} \in SUBSET T, T \ {x} # T, c \in T \ {x}
    <3>3. (T \ {c}) \ {x} = (T \ {x}) \ {c}
      OBVIOUS
    <3>4. h[T \ {c}] \in Int /\ h[T \ {x}] \in Int /\ h[(T \ {x}) \ {c}] \in Int
          /\ g[c] \in Int /\ g[x] \in Int
      OBVIOUS
    <3> DEFINE p == h[(T \ {c}) \ {x}]
    <3>5. h[T] = g[c] + (g[x] + p)
      BY <2>0, <3>1
    <3>6. h[T \ {x}] = g[c] + p
      BY <3>2, <3>3
    <3>7. p \in Int
      BY <3>4
    <3> HIDE DEF p, Q
    <3> QED BY <3>4, <3>5, <3>6, <3>7
  <2> QED BY <2>1, <2>2
<1>4. SUBSET U \subseteq Q
  <2>1. \A T \in SUBSET U : (\A V \in SUBSET T : V # T => V \in Q) => T \in Q
    BY <1>3
  <2> HIDE DEF Q
  <2> QED BY <2>1, FiniteSetByParts
<1> QED BY <1>1, <1>4

\* Where two functions agree their folds do.
LEMMA FoldsAgree ==
  ASSUME NEW U, IsFiniteSet(U), NEW T \in SUBSET U, NEW f, NEW g, \A x \in T : f[x] = g[x],
         NEW h, IsFold(f, T, h), NEW k, IsFold(g, U, k)
  PROVE  h[T] = k[T]
<1> DEFINE Q == {V \in SUBSET T : h[V] = k[V]}
<1>1. IsFiniteSet(T)
  BY FS_Subset
<1>2. /\ h[{}] = 0 /\ k[{}] = 0
      /\ \A V \in SUBSET T : V # {} => /\ Some(V) \in V
                                       /\ h[V] = f[Some(V)] + h[V \ {Some(V)}]
                                       /\ k[V] = g[Some(V)] + k[V \ {Some(V)}]
  BY DEF IsFold, Some
<1>3. ASSUME NEW V \in SUBSET T, \A W \in SUBSET V : W # V => W \in Q
      PROVE  V \in Q
  <2>1. CASE V = {}
    BY <1>2, <2>1
  <2>2. CASE V # {}
    <3>1. Some(V) \in V /\ V \ {Some(V)} \in SUBSET V /\ V \ {Some(V)} # V
      BY <1>2, <2>2
    <3>2. h[V \ {Some(V)}] = k[V \ {Some(V)}]
      BY <1>3, <3>1
    <3>3. f[Some(V)] = g[Some(V)]
      BY <3>1
    <3> QED BY <1>2, <2>2, <3>2, <3>3
  <2> QED BY <2>1, <2>2
<1>4. T \in Q
  <2> HIDE DEF Q
  <2> QED BY <1>1, <1>3, FiniteSetByParts
<1> QED BY <1>4

\* The sums over the parts of a finite set: nothing over the empty one, and with an
\* element its value more.
LEMMA SumsOfParts ==
  ASSUME NEW U, IsFiniteSet(U), NEW g \in [U -> Int]
  PROVE  /\ SumOf(g, {}) = 0
         /\ \A T \in SUBSET U : SumOf(g, T) \in Int
         /\ \A T \in SUBSET U : \A x \in T : SumOf(g, T) = g[x] + SumOf(g, T \ {x})
<1>1. PICK h \in [SUBSET U -> Int] : IsFold(g, U, h)
  BY FoldExists
<1>2. ASSUME NEW T \in SUBSET U PROVE SumOf(g, T) = h[T]
  <2> DEFINE f == [y \in T |-> g[y]]
  <2>1. IsFiniteSet(T) /\ f \in [T -> Int]
    BY FS_Subset
  <2>2. PICK k : IsFold(f, T, k)
    <3> HIDE DEF f
    <3> QED BY <2>1, FoldExists
  <2>3. PICK m : IsFold(f, T, m) /\ SumOf(g, T) = m[T]
    BY <2>2, SumIsFold
  <2>4. \A x \in T : f[x] = g[x]
    OBVIOUS
  <2> HIDE DEF f
  <2>5. m[T] = h[T]
    BY <1>1, <2>3, <2>4, FoldsAgree
  <2> QED BY <2>3, <2>5
<1>3. {} \in SUBSET U /\ \A T \in SUBSET U : \A x \in T : T \ {x} \in SUBSET U
  OBVIOUS
<1>4. /\ h[{}] = 0
      /\ \A T \in SUBSET U : \A x \in T : h[T] = g[x] + h[T \ {x}]
  BY <1>1, FoldInAnyOrder
<1>5. \A T \in SUBSET U : SumOf(g, T) = h[T] /\ h[T] \in Int
  BY <1>2
<1> QED BY <1>3, <1>4, <1>5

\* The sum of two numbers.
LEMMA SumOfTwo ==
  ASSUME NEW a, NEW b, a # b, NEW g \in [{a, b} -> Int]
  PROVE  SumOf(g, {a, b}) = g[a] + g[b]
<1> DEFINE U == {a, b}
<1>1. IsFiniteSet(U)
  <2>1. IsFiniteSet({a})
    BY FS_Singleton
  <2>2. IsFiniteSet({a} \cup {b})
    BY <2>1, FS_AddElement
  <2>3. U = {a} \cup {b}
    OBVIOUS
  <2> QED BY <2>2, <2>3
<1>2. a \in U /\ U \ {a} = {b} /\ U \in SUBSET U /\ {b} \in SUBSET U /\ {b} \ {b} = {}
      /\ g \in [U -> Int]
  OBVIOUS
<1> HIDE DEF U
<1>3. /\ SumOf(g, {}) = 0
      /\ \A T \in SUBSET U : \A x \in T : SumOf(g, T) = g[x] + SumOf(g, T \ {x})
  BY <1>1, <1>2, SumsOfParts
<1>4. SumOf(g, U) = g[a] + SumOf(g, {b})
  BY <1>2, <1>3
<1>5. SumOf(g, {b}) = g[b] + 0
  BY <1>2, <1>3
<1>6. g[a] \in Int /\ g[b] \in Int
  OBVIOUS
<1>7. SumOf(g, U) = g[a] + g[b]
  BY <1>4, <1>5, <1>6
<1> QED BY <1>7 DEF U

\* Of two parts with no element in common the sums add up.
LEMMA SumOfUnion ==
  ASSUME NEW U, IsFiniteSet(U), NEW g \in [U -> Int],
         NEW A \in SUBSET U, NEW B \in SUBSET U, A \cap B = {}
  PROVE  SumOf(g, A \cup B) = SumOf(g, A) + SumOf(g, B)
<1> DEFINE Q == {T \in SUBSET B : SumOf(g, A \cup T) = SumOf(g, A) + SumOf(g, T)}
<1>1. /\ SumOf(g, {}) = 0
      /\ \A T \in SUBSET U : SumOf(g, T) \in Int
      /\ \A T \in SUBSET U : \A x \in T : SumOf(g, T) = g[x] + SumOf(g, T \ {x})
  BY SumsOfParts
<1>2. {} \in Q
  BY <1>1, A \cup {} = A
<1>3. ASSUME NEW T \in SUBSET B, NEW x \in B \ T, T \in Q PROVE T \cup {x} \in Q
  <2> DEFINE V == T \cup {x}
  <2>1. V \in SUBSET U /\ x \in V /\ V \ {x} = T /\ V \in SUBSET B
    OBVIOUS
  <2>2. A \cup V \in SUBSET U /\ x \in A \cup V /\ (A \cup V) \ {x} = A \cup T
    OBVIOUS
  <2>3. SumOf(g, A \cup T) = SumOf(g, A) + SumOf(g, T)
    BY <1>3
  <2>4. g[x] \in Int /\ SumOf(g, A) \in Int /\ SumOf(g, T) \in Int
    BY <1>1
  <2> HIDE DEF V
  <2>5. SumOf(g, V) = g[x] + SumOf(g, T) /\ SumOf(g, A \cup V) = g[x] + SumOf(g, A \cup T)
    BY <1>1, <2>1, <2>2
  <2>6. SumOf(g, A \cup V) = SumOf(g, A) + SumOf(g, V)
    BY <2>3, <2>4, <2>5
  <2> QED BY <2>1, <2>6 DEF V
<1>4. IsFiniteSet(B)
  BY FS_Subset
<1>5. B \in Q
  <2> HIDE DEF Q
  <2> QED BY <1>2, <1>3, <1>4, FiniteSetBySteps
<1> QED BY <1>5

\* What is nowhere positive has no positive sum.
LEMMA SumOfNegatives ==
  ASSUME NEW U, IsFiniteSet(U), NEW g \in [U -> Int], \A x \in U : g[x] <= 0
  PROVE  SumOf(g, U) <= 0
<1> DEFINE Q == {T \in SUBSET U : SumOf(g, T) <= 0}
<1>1. /\ SumOf(g, {}) = 0
      /\ \A T \in SUBSET U : SumOf(g, T) \in Int
      /\ \A T \in SUBSET U : \A x \in T : SumOf(g, T) = g[x] + SumOf(g, T \ {x})
  BY SumsOfParts
<1>2. {} \in Q
  BY <1>1
<1>3. ASSUME NEW T \in SUBSET U, NEW x \in U \ T, T \in Q PROVE T \cup {x} \in Q
  <2>1. T \cup {x} \in SUBSET U /\ x \in T \cup {x} /\ (T \cup {x}) \ {x} = T
    OBVIOUS
  <2>2. SumOf(g, T \cup {x}) = g[x] + SumOf(g, T)
    BY <1>1, <2>1
  <2>3. g[x] \in Int /\ g[x] <= 0 /\ SumOf(g, T) \in Int /\ SumOf(g, T) <= 0
    BY <1>1, <1>3
  <2>4. SumOf(g, T \cup {x}) <= 0
    BY <2>2, <2>3
  <2> QED BY <2>1, <2>4
<1>4. U \in Q
  <2> HIDE DEF Q
  <2> QED BY <1>2, <1>3, FiniteSetBySteps
<1> QED BY <1>4

\* What is zero everywhere has the sum zero.
LEMMA SumOfZeros ==
  ASSUME NEW U, IsFiniteSet(U), NEW g \in [U -> Int], \A x \in U : g[x] = 0
  PROVE  SumOf(g, U) = 0
<1> DEFINE Q == {T \in SUBSET U : SumOf(g, T) = 0}
<1>1. /\ SumOf(g, {}) = 0
      /\ \A T \in SUBSET U : \A x \in T : SumOf(g, T) = g[x] + SumOf(g, T \ {x})
  BY SumsOfParts
<1>2. {} \in Q
  BY <1>1
<1>3. ASSUME NEW T \in SUBSET U, NEW x \in U \ T, T \in Q PROVE T \cup {x} \in Q
  <2>1. T \cup {x} \in SUBSET U /\ x \in T \cup {x} /\ (T \cup {x}) \ {x} = T
    OBVIOUS
  <2>2. SumOf(g, T \cup {x}) = g[x] + SumOf(g, T)
    BY <1>1, <2>1
  <2>3. g[x] = 0 /\ SumOf(g, T) = 0
    BY <1>3
  <2> QED BY <2>1, <2>2, <2>3
<1>4. U \in Q
  <2> HIDE DEF Q
  <2> QED BY <1>2, <1>3, FiniteSetBySteps
<1> QED BY <1>4

\* Of the opposite numbers the sum is the opposite.
LEMMA SumOfOpposites ==
  ASSUME NEW U, IsFiniteSet(U), NEW g \in [U -> Int], NEW k \in [U -> Int],
         \A x \in U : k[x] = -g[x]
  PROVE  SumOf(k, U) = -SumOf(g, U)
<1> DEFINE Q == {T \in SUBSET U : SumOf(k, T) = -SumOf(g, T)}
<1>1. /\ SumOf(g, {}) = 0
      /\ \A T \in SUBSET U : SumOf(g, T) \in Int
      /\ \A T \in SUBSET U : \A x \in T : SumOf(g, T) = g[x] + SumOf(g, T \ {x})
  BY SumsOfParts
<1>2. /\ SumOf(k, {}) = 0
      /\ \A T \in SUBSET U : \A x \in T : SumOf(k, T) = k[x] + SumOf(k, T \ {x})
  BY SumsOfParts
<1>3. {} \in Q
  BY <1>1, <1>2
<1>4. ASSUME NEW T \in SUBSET U, NEW x \in U \ T, T \in Q PROVE T \cup {x} \in Q
  <2>1. T \cup {x} \in SUBSET U /\ x \in T \cup {x} /\ (T \cup {x}) \ {x} = T
    OBVIOUS
  <2>2. /\ SumOf(g, T \cup {x}) = g[x] + SumOf(g, T)
        /\ SumOf(k, T \cup {x}) = k[x] + SumOf(k, T)
    BY <1>1, <1>2, <2>1
  <2>3. g[x] \in Int /\ SumOf(g, T) \in Int /\ k[x] = -g[x] /\ SumOf(k, T) = -SumOf(g, T)
    BY <1>1, <1>4
  <2> HIDE DEF Q
  <2>4. SumOf(k, T \cup {x}) = -SumOf(g, T \cup {x})
    BY <2>2, <2>3
  <2> QED BY <2>1, <2>4 DEF Q
<1>5. U \in Q
  <2> HIDE DEF Q
  <2> QED BY <1>3, <1>4, FiniteSetBySteps
<1> QED BY <1>5

\* Renaming the elements one to one leaves the sum.
LEMMA SumOfImage ==
  ASSUME NEW U, IsFiniteSet(U), NEW g \in [U -> Int], NEW V, NEW k \in [V -> Int],
         NEW b \in [U -> V], \A x, y \in U : b[x] = b[y] => x = y,
         \A x \in U : g[x] = k[b[x]], V = {b[x] : x \in U}
  PROVE  SumOf(g, U) = SumOf(k, V)
<1> DEFINE Image(T) == {b[x] : x \in T}
           Q == {T \in SUBSET U : SumOf(g, T) = SumOf(k, Image(T))}
<1>1. /\ SumOf(g, {}) = 0
      /\ \A T \in SUBSET U : SumOf(g, T) \in Int
      /\ \A T \in SUBSET U : \A x \in T : SumOf(g, T) = g[x] + SumOf(g, T \ {x})
  BY SumsOfParts
<1>2. IsFiniteSet(V)
  <2>1. b \in Surjection(U, V)
    BY DEF Surjection
  <2> QED BY <2>1, FS_Surjection
<1>3. /\ SumOf(k, {}) = 0
      /\ \A T \in SUBSET V : \A x \in T : SumOf(k, T) = k[x] + SumOf(k, T \ {x})
  BY <1>2, SumsOfParts
<1>4. {} \in Q
  <2>1. Image({}) = {}
    OBVIOUS
  <2> HIDE DEF Image
  <2> QED BY <1>1, <1>3, <2>1
<1>5. ASSUME NEW T \in SUBSET U, NEW x \in U \ T, T \in Q PROVE T \cup {x} \in Q
  <2>1. T \cup {x} \in SUBSET U /\ x \in T \cup {x} /\ (T \cup {x}) \ {x} = T
    OBVIOUS
  <2>2. /\ Image(T \cup {x}) \in SUBSET V /\ b[x] \in Image(T \cup {x})
        /\ Image(T \cup {x}) \ {b[x]} = Image(T)
    OBVIOUS
  <2>3. SumOf(g, T) = SumOf(k, Image(T))
    BY <1>5
  <2> HIDE DEF Image
  <2>4. SumOf(g, T \cup {x}) = g[x] + SumOf(g, T)
    BY <1>1, <2>1
  <2>5. SumOf(k, Image(T \cup {x})) = k[b[x]] + SumOf(k, Image(T))
    <3>1. PICK I \in SUBSET V, e \in V : I = Image(T \cup {x}) /\ e = b[x]
      BY <2>2
    <3>2. e \in I /\ I \ {e} = Image(T)
      BY <2>2, <3>1
    <3>3. SumOf(k, I) = k[e] + SumOf(k, I \ {e})
      BY <1>3, <3>2
    <3> QED BY <3>1, <3>2, <3>3
  <2>6. SumOf(g, T \cup {x}) = SumOf(k, Image(T \cup {x}))
    BY <2>3, <2>4, <2>5
  <2> QED BY <2>1, <2>6
<1>6. U \in Q
  <2> HIDE DEF Q
  <2> QED BY <1>4, <1>5, FiniteSetBySteps
<1>7. Image(U) = V
  OBVIOUS
<1> QED BY <1>6, <1>7

\* The sums of the groups of elements with the same key add up to the sum of all.
LEMMA SumOfGroups ==
  ASSUME NEW U, IsFiniteSet(U), NEW g \in [U -> Int], NEW K, IsFiniteSet(K), NEW key,
         NEW s \in [K -> Int], \A c \in K : s[c] = SumOf(g, {x \in U : key[x] = c})
  PROVE  SumOf(s, K) = SumOf(g, {x \in U : key[x] \in K})
<1> DEFINE Of(C) == {x \in U : key[x] \in C}
           Q == {C \in SUBSET K : SumOf(s, C) = SumOf(g, Of(C))}
<1>1. /\ SumOf(g, {}) = 0
      /\ \A T \in SUBSET U : SumOf(g, T) \in Int
  BY SumsOfParts
<1>2. /\ SumOf(s, {}) = 0
      /\ \A C \in SUBSET K : SumOf(s, C) \in Int
      /\ \A C \in SUBSET K : \A c \in C : SumOf(s, C) = s[c] + SumOf(s, C \ {c})
  BY SumsOfParts
<1>3. {} \in Q
  <2>1. Of({}) = {}
    OBVIOUS
  <2> HIDE DEF Of
  <2> QED BY <1>1, <1>2, <2>1
<1>4. ASSUME NEW C \in SUBSET K, NEW c \in K \ C, C \in Q PROVE C \cup {c} \in Q
  <2> DEFINE One == {x \in U : key[x] = c}
  <2>1. C \cup {c} \in SUBSET K /\ c \in C \cup {c} /\ (C \cup {c}) \ {c} = C
    OBVIOUS
  <2>2. /\ Of(C \cup {c}) = One \cup Of(C) /\ One \cap Of(C) = {}
        /\ One \in SUBSET U /\ Of(C) \in SUBSET U
    OBVIOUS
  <2>3. SumOf(s, C) = SumOf(g, Of(C)) /\ s[c] = SumOf(g, One)
    BY <1>4
  <2> HIDE DEF Of, One
  <2>4. SumOf(g, Of(C \cup {c})) = SumOf(g, One) + SumOf(g, Of(C))
    <3>1. PICK A \in SUBSET U, B \in SUBSET U : A = One /\ B = Of(C)
      BY <2>2
    <3>2. A \cap B = {} /\ Of(C \cup {c}) = A \cup B
      BY <2>2, <3>1
    <3>3. SumOf(g, A \cup B) = SumOf(g, A) + SumOf(g, B)
      BY <3>2, SumOfUnion
    <3> QED BY <3>1, <3>2, <3>3
  <2>5. SumOf(s, C \cup {c}) = s[c] + SumOf(s, C)
    BY <1>2, <2>1
  <2>6. SumOf(s, C \cup {c}) = SumOf(g, Of(C \cup {c}))
    BY <2>3, <2>4, <2>5
  <2> QED BY <2>1, <2>6
<1>5. K \in Q
  <2> HIDE DEF Q
  <2> QED BY <1>3, <1>4, FiniteSetBySteps
<1> QED BY <1>5

-----------------------------------------------------------------------------
(* Sequences                                                               *)

\* The least of some indices.
LEMMA LeastIsMin ==
  ASSUME NEW N, N \subseteq Nat, N # {}
  PROVE  Min(N) \in N /\ \A m \in N : Min(N) <= m
BY LeastNatural DEF Min

\* From a sequence without duplicates RemoveFirst takes the element out.
LEMMA RemoveFirstTakesOut ==
  ASSUME NEW S, NEW s \in Seq(S), IsInjective(s), NEW e \in ToSet(s)
  PROVE  /\ RemoveFirst(s, e) \in Seq(S) /\ IsInjective(RemoveFirst(s, e))
         /\ ToSet(RemoveFirst(s, e)) = ToSet(s) \ {e}
<1> DEFINE I == {j \in 1..Len(s) : s[j] = e}
           k == Min(I)
<1>1. PICK i \in 1..Len(s) : s[i] = e
  BY DEF ToSet
<1>2. k \in 1..Len(s) /\ s[k] = e
  BY <1>1, LeastIsMin, I \subseteq Nat
<1>3. RemoveFirst(s, e) = SubSeq(s, 1, k - 1) \o SubSeq(s, k + 1, Len(s))
  BY <1>1 DEF RemoveFirst, SelectInSeq, RemoveAt
<1> HIDE DEF I, k
<1> DEFINE b == SubSeq(s, 1, k - 1)
           c == SubSeq(s, k + 1, Len(s))
           r == b \o c
<1>4. /\ r \in Seq(S) /\ Len(r) = Len(s) - 1
      /\ \A j \in 1..Len(r) : r[j] = IF j < k THEN s[j] ELSE s[j + 1]
  <2>1. /\ b \in Seq(S) /\ Len(b) = k - 1
        /\ \A j \in 1..Len(b) : b[j] = s[j]
    BY <1>2
  <2>2. /\ c \in Seq(S) /\ Len(c) = Len(s) - k
        /\ \A j \in 1..Len(c) : c[j] = s[j + k]
    BY <1>2
  <2> HIDE DEF b, c
  <2>3. /\ r \in Seq(S) /\ Len(r) = Len(b) + Len(c)
        /\ \A j \in 1..Len(b) + Len(c) : r[j] = IF j <= Len(b) THEN b[j] ELSE c[j - Len(b)]
    BY <2>1, <2>2, ConcatProperties
  <2> HIDE DEF r
  <2>4. ASSUME NEW j \in 1..Len(r) PROVE r[j] = IF j < k THEN s[j] ELSE s[j + 1]
    <3>1. CASE j < k
      BY <3>1, <1>2, <2>1, <2>2, <2>3
    <3>2. CASE ~ (j < k)
      <4>1. j - Len(b) \in 1..Len(c) /\ r[j] = c[j - Len(b)]
        BY <3>2, <1>2, <2>1, <2>2, <2>3
      <4>2. (j - Len(b)) + k = j + 1
        BY <1>2, <2>1
      <4> QED BY <3>2, <4>1, <4>2, <2>2
    <3> QED BY <3>1, <3>2
  <2> QED BY <1>2, <2>1, <2>2, <2>3, <2>4
<1> HIDE DEF r
<1>5. \A m, n \in 1..Len(s) : s[m] = s[n] => m = n
  BY DEF IsInjective
<1>6. IsInjective(r)
  BY <1>2, <1>4, <1>5 DEF IsInjective
<1>7. ToSet(r) = {r[j] : j \in 1..Len(r)} /\ ToSet(s) = {s[j] : j \in 1..Len(s)}
  BY <1>4 DEF ToSet
<1>8. ASSUME NEW j \in 1..Len(r) PROVE r[j] \in ToSet(s) \ {e}
  BY <1>2, <1>4, <1>5, <1>7
<1>9. ASSUME NEW j \in 1..Len(s), j # k PROVE s[j] \in ToSet(r)
  <2>1. CASE j < k
    BY <2>1, <1>2, <1>4, <1>7
  <2>2. CASE j > k
    <3>1. j - 1 \in 1..Len(r) /\ r[j - 1] = s[j]
      BY <2>2, <1>2, <1>4
    <3> QED BY <3>1, <1>7
  <2> QED BY <1>9, <2>1, <2>2, <1>2
<1>10. ToSet(r) = ToSet(s) \ {e}
  BY <1>2, <1>7, <1>8, <1>9
<1> QED BY <1>3, <1>4, <1>6, <1>10 DEF r

\* One more element at the end.
LEMMA AppendAdds ==
  ASSUME NEW S, NEW s \in Seq(S), NEW e \in S
  PROVE  /\ Append(s, e) \in Seq(S) /\ ToSet(Append(s, e)) = ToSet(s) \cup {e}
         /\ IsInjective(s) /\ e \notin ToSet(s) => IsInjective(Append(s, e))
<1> DEFINE a == Append(s, e)
<1>1. /\ a \in Seq(S) /\ Len(a) = Len(s) + 1
      /\ \A j \in 1..Len(s) : a[j] = s[j]
      /\ a[Len(s) + 1] = e
  OBVIOUS
<1> HIDE DEF a
<1>2. ToSet(a) = {a[j] : j \in 1..Len(s) + 1} /\ ToSet(s) = {s[j] : j \in 1..Len(s)}
  BY <1>1 DEF ToSet
<1>3. ToSet(a) = ToSet(s) \cup {e}
  BY <1>1, <1>2
<1>4. ASSUME IsInjective(s), e \notin ToSet(s) PROVE IsInjective(a)
  BY <1>1, <1>2, <1>4 DEF IsInjective
<1> QED BY <1>1, <1>3, <1>4 DEF a

\* Sequences of one element and of two.
LEMMA ShortSeqs ==
  ASSUME NEW S, NEW x \in S, NEW y \in S
  PROVE  <<x>> \in Seq(S) /\ <<x, y>> \in Seq(S)
OBVIOUS
=============================================================================
