-------------------------- MODULE PerceptionProofs --------------------------
(***************************************************************************)
(* What the perception kernels promise, for frames of every size, colours, *)
(* recordings of every length, all maps of sensors and every sequence of   *)
(* calls.                                                                  *)
(*                                                                         *)
(* The calls are functions, so most of the argument is about them.  Two of *)
(* them are folds.  A sum does not depend on the order it is taken in      *)
(* (SumSplits), nor on what its terms are numbered with (SumRenumbered),   *)
(* by induction on the number of the terms.  The fold of Normalize has a   *)
(* closed form (NormalizeIsNormal), in which the last spelling of a name   *)
(* is the one that counts.                                                 *)
(*                                                                         *)
(* The invariant says where a session is: what is fed back is an input of  *)
(* the next call, pooling has kept the largest value, a tracker is near    *)
(* the batch estimate of what it measured, and what a first call returned  *)
(* is the result of that call.                                             *)
(***************************************************************************)
EXTENDS PerceptionSession, FiniteSetTheorems, SequenceTheorems, WellFoundedInduction, TLAPS

-----------------------------------------------------------------------------
(* Induction.                                                              *)

\* A non-empty set of natural numbers has a least element.
LEMMA NatMinimum ==
  ASSUME NEW S \in SUBSET Nat, S # {}
  PROVE  \E m \in S : \A n \in S : m <= n
<1> DEFINE R == {ss \in Nat \X Nat : ss[1] < ss[2]}
<1>1. IsWellFoundedOn(R, Nat)
  BY NatLessThanWellFounded DEF OpToRel
<1>2. \E m \in S : \A n \in S : <<n, m>> \notin R
  <2> HIDE DEF R
  <2>1. QED
    BY <1>1, WFMin
<1>3. PICK m \in S : \A n \in S : <<n, m>> \notin R
  BY <1>2
<1>4. ASSUME NEW n \in S PROVE m <= n
  <2>1. <<n, m>> \notin R /\ <<n, m>> \in Nat \X Nat
    BY <1>3
  <2>2. ~(n < m)
    BY <2>1
  <2>3. QED
    BY <2>2
<1>5. QED
  BY <1>4

\* Induction, about the set of the numbers that have a property: the provers
\* cannot instantiate a theorem about a predicate.
LEMMA Induction ==
  ASSUME NEW S, 0 \in S, \A n \in Nat : n \in S => n + 1 \in S
  PROVE  \A n \in Nat : n \in S
<1> DEFINE rest == Nat \ S
<1>1. SUFFICES ASSUME rest # {} PROVE FALSE
  OBVIOUS
<1>2. PICK m \in rest : \A n \in rest : m <= n
  <2> rest \in SUBSET Nat
    OBVIOUS
  <2> HIDE DEF rest
  <2> QED
    BY <1>1, NatMinimum
<1>3. m - 1 \in Nat /\ m - 1 \in S
  BY <1>2
<1>4. QED
  BY <1>2, <1>3

-----------------------------------------------------------------------------
(* Sums.                                                                   *)

\* The element that a sum takes first.
Some(S) == CHOOSE x \in S : TRUE

\* The partial sums of f over the subsets of S.
Sums(total, f, S) ==
  total = [T \in SUBSET S |-> IF T = {} THEN 0 ELSE f[Some(T)] + total[T \ {Some(T)}]]

SumOver(f, S) == SumFunctionOnSet(f, S)

\* A sum is the last of some partial sums.
LEMMA SumOverFacts ==
  ASSUME NEW f, NEW S
  PROVE  SumOver(f, S) = (CHOOSE total : Sums(total, f, S))[S]
BY DEF SumOver, SumFunctionOnSet, FoldFunctionOnSet, MapThenFoldSet, Sums, Some

\* A finite set has partial sums: those of its subsets with at most n elements,
\* by induction on n.
LEMMA SumsExist ==
  ASSUME NEW f, NEW S, IsFiniteSet(S)
  PROVE  \E total : Sums(total, f, S)
<1> DEFINE Small(n) == {T \in SUBSET S : Cardinality(T) <= n}
           Step(g, n) == [T \in Small(n) |-> IF T = {} THEN 0 ELSE f[Some(T)] + g[T \ {Some(T)}]]
           Reached == {n \in Nat : \E g : g = Step(g, n)}
<1>1. \A T \in SUBSET S : IsFiniteSet(T) /\ Cardinality(T) \in Nat /\ Cardinality(T) <= Cardinality(S)
  BY FS_Subset, FS_CardinalityType
<1>2. \A T \in SUBSET S : T # {} => Some(T) \in T /\ T \ {Some(T)} \in SUBSET S
                            /\ Cardinality(T \ {Some(T)}) = Cardinality(T) - 1
  BY <1>1, FS_RemoveElement DEF Some
<1>3. 0 \in Reached
  <2>1. \A T \in Small(0) : T = {}
    BY <1>1, FS_EmptySet
  <2>2. [T \in Small(0) |-> 0] = Step([T \in Small(0) |-> 0], 0)
    BY <2>1
  <2>3. QED
    BY <2>2
<1>4. ASSUME NEW n \in Nat, n \in Reached PROVE n + 1 \in Reached
  <2>1. PICK g : g = Step(g, n)
    BY <1>4
  <2> DEFINE h == Step(g, n + 1)
  <2>2. ASSUME NEW T \in Small(n + 1), T # {}
        PROVE  h[T \ {Some(T)}] = g[T \ {Some(T)}]
    <3>1. T \ {Some(T)} \in Small(n)
      BY <1>1, <1>2, <2>2
    <3>2. Small(n) \subseteq Small(n + 1)
      BY <1>1
    <3>3. QED
      BY <2>1, <3>1, <3>2
  <2>3. h = Step(h, n + 1)
    <3> SUFFICES ASSUME NEW T \in Small(n + 1)
                 PROVE  (IF T = {} THEN 0 ELSE f[Some(T)] + g[T \ {Some(T)}])
                          = (IF T = {} THEN 0 ELSE f[Some(T)] + h[T \ {Some(T)}])
      OBVIOUS
    <3> QED
      BY <2>2
  <2> HIDE DEF h
  <2>4. \E k : k = Step(k, n + 1)
    BY <2>3
  <2> HIDE DEF Step
  <2>5. QED
    BY <2>4
<1>5. Cardinality(S) \in Reached
  <2> HIDE DEF Reached
  <2> QED
    BY <1>3, <1>4, Induction, FS_CardinalityType
<1>6. PICK g : g = Step(g, Cardinality(S))
  BY <1>5
<1>7. Small(Cardinality(S)) = SUBSET S
  BY <1>1
<1>8. Sums(g, f, S)
  BY <1>6, <1>7 DEF Sums
<1>9. QED
  BY <1>8

\* Partial sums do not depend on the set they are the subsets of.
LEMMA SumsAgree ==
  ASSUME NEW f, NEW g, NEW S, NEW R, IsFiniteSet(S), S \subseteq R, \A x \in S : f[x] = g[x],
         NEW a, NEW b, Sums(a, f, S), Sums(b, g, R)
  PROVE  a[S] = b[S]
<1> DEFINE Alike == {n \in Nat : \A T \in SUBSET S : Cardinality(T) = n => a[T] = b[T]}
<1>1. \A T \in SUBSET S : IsFiniteSet(T) /\ Cardinality(T) \in Nat
  BY FS_Subset, FS_CardinalityType
<1>2. \A T \in SUBSET S : T # {} => Some(T) \in T /\ T \ {Some(T)} \in SUBSET S
                            /\ Cardinality(T \ {Some(T)}) = Cardinality(T) - 1
  BY <1>1, FS_RemoveElement DEF Some
<1>3. \A T \in SUBSET S : T # {} => a[T] = f[Some(T)] + a[T \ {Some(T)}]
                                 /\ b[T] = f[Some(T)] + b[T \ {Some(T)}]
  BY <1>2 DEF Sums
<1>4. a[{}] = 0 /\ b[{}] = 0
  BY DEF Sums
<1>5. 0 \in Alike
  BY <1>1, <1>4, FS_EmptySet
<1>6. \A n \in Nat : n \in Alike => n + 1 \in Alike
  <2> SUFFICES ASSUME NEW n \in Nat, n \in Alike, NEW T \in SUBSET S, Cardinality(T) = n + 1
               PROVE  a[T] = b[T]
    OBVIOUS
  <2>1. T # {}
    BY <1>1, FS_EmptySet
  <2>2. a[T \ {Some(T)}] = b[T \ {Some(T)}]
    <3>1. Cardinality(T \ {Some(T)}) = n
      BY <1>2, <2>1
    <3>2. QED
      BY <1>2, <2>1, <3>1
  <2>3. QED
    BY <1>3, <2>1, <2>2
<1>7. Cardinality(S) \in Alike
  <2> HIDE DEF Alike
  <2> QED
    BY <1>1, <1>5, <1>6, Induction
<1>8. QED
  BY <1>7

\* Nothing adds up to 0.
LEMMA SumOfNone == ASSUME NEW f PROVE SumOver(f, {}) = 0
<1>1. PICK total : Sums(total, f, {})
  BY SumsExist, FS_EmptySet
<1>2. Sums(CHOOSE t : Sums(t, f, {}), f, {})
  BY <1>1
<1>3. (CHOOSE t : Sums(t, f, {}))[{}] = 0
  BY <1>2 DEF Sums
<1>4. QED
  BY <1>3, SumOverFacts

\* A sum is that of some element and of the others.
LEMMA SumOfSome ==
  ASSUME NEW f, NEW S, IsFiniteSet(S), S # {}
  PROVE  SumOver(f, S) = f[Some(S)] + SumOver(f, S \ {Some(S)})
<1> DEFINE R == S \ {Some(S)}
           a == CHOOSE t : Sums(t, f, S)
           b == CHOOSE t : Sums(t, f, R)
<1>1. IsFiniteSet(R) /\ R \subseteq S
  BY FS_Subset
<1>2. Sums(a, f, S) /\ Sums(b, f, R)
  BY <1>1, SumsExist
<1>3. a[S] = f[Some(S)] + a[R]
  BY <1>2 DEF Sums
<1>4. b[R] = a[R]
  <2> HIDE DEF a, b, R
  <2> QED
    BY <1>1, <1>2, SumsAgree
<1>5. SumOver(f, S) = a[S] /\ SumOver(f, R) = b[R]
  BY SumOverFacts
<1>6. QED
  BY <1>3, <1>4, <1>5

\* A sum depends on the terms it has.
LEMMA SumOfEquals ==
  ASSUME NEW S, IsFiniteSet(S), NEW f, NEW g, \A x \in S : f[x] = g[x]
  PROVE  SumOver(f, S) = SumOver(g, S)
<1> DEFINE a == CHOOSE t : Sums(t, f, S)
           b == CHOOSE t : Sums(t, g, S)
<1>1. Sums(a, f, S) /\ Sums(b, g, S)
  BY SumsExist
<1>2. a[S] = b[S]
  <2> HIDE DEF a, b
  <2> QED
    BY <1>1, SumsAgree
<1>3. QED
  BY <1>2, SumOverFacts

\* A sum of integers is one, and any of its terms may be taken first.
LEMMA SumSplits ==
  ASSUME NEW S, IsFiniteSet(S), NEW f, \A x \in S : f[x] \in Int
  PROVE  /\ SumOver(f, S) \in Int
         /\ \A x \in S : SumOver(f, S) = f[x] + SumOver(f, S \ {x})
<1> DEFINE Fine(T) == /\ SumOver(f, T) \in Int
                      /\ \A x \in T : SumOver(f, T) = f[x] + SumOver(f, T \ {x})
           Good == {n \in Nat : \A T \in SUBSET S : Cardinality(T) <= n => Fine(T)}
<1>1. \A T \in SUBSET S : IsFiniteSet(T) /\ Cardinality(T) \in Nat
  BY FS_Subset, FS_CardinalityType
<1>2. \A T \in SUBSET S : \A U \in SUBSET T : U # T => Cardinality(U) < Cardinality(T)
  <2> SUFFICES ASSUME NEW T \in SUBSET S, NEW U \in SUBSET T, U # T
               PROVE  Cardinality(U) < Cardinality(T)
    OBVIOUS
  <2> QED
    BY <1>1, FS_Subset
<1>3. Fine({})
  BY SumOfNone
<1>4. ASSUME NEW T \in SUBSET S, T # {}, \A U \in SUBSET T : U # T => Fine(U)
      PROVE  Fine(T)
  <2> DEFINE y == Some(T)
  <2>1. y \in T /\ f[y] \in Int
    BY <1>4 DEF Some
  <2>2. SumOver(f, T) = f[y] + SumOver(f, T \ {y})
    BY <1>1, <1>4, SumOfSome
  <2> HIDE DEF y
  <2>3. \A x \in T : Fine(T \ {x})
    <3> HIDE DEF Fine
    <3> QED
      BY <1>4
  <2>4. ASSUME NEW x \in T, x # y PROVE SumOver(f, T) = f[x] + SumOver(f, T \ {x})
    <3> DEFINE U == (T \ {y}) \ {x}
    <3>1. Fine(U)
      <4> HIDE DEF Fine
      <4> QED
        BY <1>4
    <3>2. U = (T \ {x}) \ {y}
      OBVIOUS
    <3>3. x \in T \ {y} /\ y \in T \ {x} /\ f[x] \in Int
      BY <2>1, <2>4
    <3> HIDE DEF U
    <3>4. SumOver(f, T \ {y}) = f[x] + SumOver(f, U)
      BY <2>1, <2>3, <3>3 DEF U
    <3>5. SumOver(f, T \ {x}) = f[y] + SumOver(f, U)
      BY <2>3, <3>2, <3>3
    <3>6. QED
      BY <2>1, <2>2, <3>1, <3>3, <3>4, <3>5
  <2>5. SumOver(f, T) \in Int
    BY <2>1, <2>2, <2>3
  <2>6. QED
    BY <2>2, <2>4, <2>5
<1> HIDE DEF Fine
<1>5. 0 \in Good
  <2> SUFFICES ASSUME NEW T \in SUBSET S, Cardinality(T) <= 0 PROVE Fine(T)
    OBVIOUS
  <2>1. T = {}
    BY <1>1, FS_EmptySet
  <2>2. QED
    BY <1>3, <2>1
<1>6. \A n \in Nat : n \in Good => n + 1 \in Good
  <2> SUFFICES ASSUME NEW n \in Nat, n \in Good, NEW T \in SUBSET S, Cardinality(T) <= n + 1
               PROVE  Fine(T)
    OBVIOUS
  <2>1. \A U \in SUBSET T : U # T => Fine(U)
    <3> SUFFICES ASSUME NEW U \in SUBSET T, U # T PROVE Fine(U)
      OBVIOUS
    <3>1. U \in SUBSET S /\ Cardinality(U) < Cardinality(T)
      BY <1>2
    <3>2. Cardinality(U) <= n
      BY <1>1, <3>1
    <3>3. QED
      BY <3>1, <3>2
  <2>2. QED
    BY <1>3, <1>4, <2>1
<1>7. Cardinality(S) \in Good
  <2> HIDE DEF Good
  <2> QED
    BY <1>1, <1>5, <1>6, Induction
<1>8. Fine(S)
  BY <1>1, <1>7
<1>9. QED
  BY <1>8 DEF Fine

\* What holds of the empty set and of a set with one more element holds of all
\* finite sets; the sets are those of a set of subsets.
LEMMA SetInduction ==
  ASSUME NEW S, IsFiniteSet(S), NEW Good, {} \in Good,
         \A T \in SUBSET S, x \in S : T \in Good /\ x \notin T => T \cup {x} \in Good
  PROVE  S \in Good
<1> DEFINE Sizes == {n \in Nat : \A T \in SUBSET S : Cardinality(T) = n => T \in Good}
<1>1. \A T \in SUBSET S : IsFiniteSet(T) /\ Cardinality(T) \in Nat
  BY FS_Subset, FS_CardinalityType
<1>2. 0 \in Sizes
  BY <1>1, FS_EmptySet
<1>3. \A n \in Nat : n \in Sizes => n + 1 \in Sizes
  <2> SUFFICES ASSUME NEW n \in Nat, n \in Sizes, NEW T \in SUBSET S, Cardinality(T) = n + 1
               PROVE  T \in Good
    OBVIOUS
  <2>1. T # {}
    BY <1>1, FS_EmptySet
  <2>2. PICK x \in T : TRUE
    BY <2>1
  <2> DEFINE U == T \ {x}
  <2>3. U \in SUBSET S /\ x \in S /\ x \notin U /\ T = U \cup {x}
    OBVIOUS
  <2>4. Cardinality(U) = Cardinality(T) - 1
    BY <1>1, FS_RemoveElement
  <2> HIDE DEF U
  <2>5. Cardinality(U) = n
    BY <2>4
  <2>6. U \in Good
    BY <2>3, <2>5
  <2>7. QED
    BY <2>3, <2>6
<1>4. Cardinality(S) \in Sizes
  <2> HIDE DEF Sizes
  <2> QED
    BY <1>1, <1>2, <1>3, Induction
<1>5. QED
  BY <1>4

\* A sum grows by the term of a new element.
LEMMA SumGrows ==
  ASSUME NEW S, IsFiniteSet(S), NEW x, x \notin S, NEW f, \A y \in S \cup {x} : f[y] \in Int
  PROVE  SumOver(f, S \cup {x}) = SumOver(f, S) + f[x]
<1> DEFINE T == S \cup {x}
<1>1. IsFiniteSet(T) /\ T \ {x} = S /\ x \in T /\ f[x] \in Int
  BY FS_AddElement
<1>2. SumOver(f, S) \in Int
  BY SumSplits
<1> HIDE DEF T
<1>3. SumOver(f, T) = f[x] + SumOver(f, T \ {x})
  BY <1>1, SumSplits DEF T
<1>4. QED
  <2>1. SumOver(f, T) = f[x] + SumOver(f, S)
    BY <1>1, <1>3, Zenon
  <2>2. SumOver(f, T) = SumOver(f, S) + f[x]
    BY <1>1, <1>2, <2>1
  <2>3. QED
    BY <2>2 DEF T

\* A sum of natural numbers is one.
LEMMA SumOfNaturals ==
  ASSUME NEW S, IsFiniteSet(S), NEW f, \A x \in S : f[x] \in Nat
  PROVE  SumOver(f, S) \in Nat
<1> DEFINE Good == {T \in SUBSET S : SumOver(f, T) \in Nat}
<1>1. {} \in Good
  BY SumOfNone
<1>2. \A T \in SUBSET S, x \in S : T \in Good /\ x \notin T => T \cup {x} \in Good
  <2> SUFFICES ASSUME NEW T \in SUBSET S, NEW x \in S, SumOver(f, T) \in Nat, x \notin T
               PROVE  SumOver(f, T \cup {x}) \in Nat
    OBVIOUS
  <2>1. IsFiniteSet(T) /\ f[x] \in Nat /\ \A y \in T \cup {x} : f[y] \in Int
    BY FS_Subset
  <2>2. SumOver(f, T \cup {x}) = SumOver(f, T) + f[x]
    BY <2>1, SumGrows
  <2>3. QED
    BY <2>1, <2>2
<1>3. S \in Good
  <2> HIDE DEF Good
  <2> QED
    BY <1>1, <1>2, SetInduction
<1>4. QED
  BY <1>3

\* A sum over an image is the sum over what it is the image of.
LEMMA SumOfImage ==
  ASSUME NEW S, IsFiniteSet(S), NEW h, NEW f, NEW g,
         \A x, y \in S : h[x] = h[y] => x = y,
         \A x \in S : g[x] \in Int /\ f[h[x]] = g[x]
  PROVE  SumOver(g, S) = SumOver(f, {h[x] : x \in S})
<1> DEFINE Image(T) == {h[x] : x \in T}
           Good == {T \in SUBSET S : IsFiniteSet(Image(T)) /\ SumOver(g, T) = SumOver(f, Image(T))}
<1>1. {} \in Good
  <2>1. Image({}) = {}
    OBVIOUS
  <2> HIDE DEF Image
  <2>2. QED
    BY <2>1, SumOfNone, FS_EmptySet
<1>2. \A T \in SUBSET S, x \in S : T \in Good /\ x \notin T => T \cup {x} \in Good
  <2> SUFFICES ASSUME NEW T \in SUBSET S, NEW x \in S, T \in Good, x \notin T
               PROVE  T \cup {x} \in Good
    OBVIOUS
  <2>1. IsFiniteSet(T) /\ \A y \in T \cup {x} : g[y] \in Int
    BY FS_Subset
  <2>2. SumOver(g, T \cup {x}) = SumOver(g, T) + g[x]
    BY <2>1, SumGrows, ZenonT(40)
  <2>3. Image(T \cup {x}) = Image(T) \cup {h[x]}
    OBVIOUS
  <2>4. h[x] \notin Image(T) /\ \A y \in Image(T) \cup {h[x]} : f[y] \in Int
    OBVIOUS
  <2>5. IsFiniteSet(Image(T)) /\ SumOver(g, T) = SumOver(f, Image(T))
    OBVIOUS
  <2>6. SumOver(f, Image(T) \cup {h[x]}) = SumOver(f, Image(T)) + f[h[x]]
    <3> DEFINE A == Image(T)
               y == h[x]
    <3>1. IsFiniteSet(A) /\ y \notin A /\ \A z \in A \cup {y} : f[z] \in Int
      BY <2>4, <2>5
    <3> HIDE DEF A, y
    <3>2. SumOver(f, A \cup {y}) = SumOver(f, A) + f[y]
      BY <3>1, SumGrows
    <3>3. QED
      BY <3>2 DEF A, y
  <2> HIDE DEF Image
  <2>7. IsFiniteSet(Image(T) \cup {h[x]})
    BY <2>5, FS_AddElement
  <2>8. QED
    BY <2>2, <2>3, <2>5, <2>6, <2>7
<1>3. S \in Good
  <2> HIDE DEF Good
  <2> QED
    BY <1>1, <1>2, SetInduction
<1>4. QED
  BY <1>3

\* A sum does not depend on what its terms are numbered with.
LEMMA SumRenumbered ==
  ASSUME NEW S, IsFiniteSet(S), NEW R, NEW h \in Bijection(S, R), NEW f, NEW g,
         \A x \in S : g[x] \in Int /\ f[h[x]] = g[x]
  PROVE  SumOver(g, S) = SumOver(f, R)
<1>1. \A x, y \in S : h[x] = h[y] => x = y
  BY DEF Bijection, Injection, IsInjective
<1>2. {h[x] : x \in S} = R
  BY DEF Bijection, Injection, Surjection
<1>3. SumOver(g, S) = SumOver(f, {h[x] : x \in S})
  BY <1>1, SumOfImage
<1>4. QED
  BY <1>2, <1>3, Zenon

-----------------------------------------------------------------------------
(* Disabled sensors.                                                       *)

\* What is read of a sensor map are integers.
LEMMA NumbersAreIntegers ==
  ASSUME NEW m, IsSensorMap(m)
  PROVE  \A sensor, key : Number(m, sensor, key) \in Int /\ NumberIfOn(m, sensor, key) \in Int
BY DEF IsSensorMap, IsSensor, Number, NumberIfOn

\* Arithmetic of the fusion.
LEMMA ClampFacts ==
  ASSUME NEW n \in Int
  PROVE  /\ Clamp01Of(n) \in 0..100 /\ ClampSigned(n) \in -100..100
         /\ ClampSigned(-n) = -ClampSigned(n)
         /\ Clamp(-n, -10000, 10000) = -Clamp(n, -10000, 10000)
         /\ Clamp(-n, -1000000, 1000000) = -Clamp(n, -1000000, 1000000)
BY DEF Clamp01Of, ClampSigned, Clamp, AtLeast, AtMost

\* A sensor that is off is silenced in place.
LEMMA SilencedFacts ==
  ASSUME NEW m, IsSensorMap(m)
  PROVE  /\ IsSensorMap(Silenced(m))
         /\ \A s : Off(Silenced(m), s) <=> Off(m, s)
         /\ \A s, k : NumberIfOn(Silenced(m), s, k) = NumberIfOn(m, s, k)
         /\ \A s, k : ~Off(m, s) => Number(Silenced(m), s, k) = Number(m, s, k)
         /\ \A s, k : ~Off(m, s) => (Boolean(Silenced(m), s, k) <=> Boolean(m, s, k))
<1>1. DOMAIN Silenced(m) = DOMAIN m
  BY DEF Silenced
<1>2. \A s \in DOMAIN m : m[s].enabled => Silenced(m)[s] = m[s]
  BY DEF Silenced
<1>3. \A s \in DOMAIN m : ~m[s].enabled =>
        /\ DOMAIN Silenced(m)[s] = DOMAIN m[s]
        /\ Silenced(m)[s].enabled = m[s].enabled /\ Silenced(m)[s].confidence = m[s].confidence
        /\ Silenced(m)[s].numbers = <<>>
  BY DEF Silenced, IsSensorMap, IsSensor
<1>4. \A s : Off(Silenced(m), s) <=> Off(m, s)
  BY <1>1, <1>2, <1>3 DEF Off
<1>5. \A s, k : ~Off(m, s) => Number(Silenced(m), s, k) = Number(m, s, k)
  BY <1>1, <1>2 DEF Off, Number
<1>6. \A s, k : ~Off(m, s) => (Boolean(Silenced(m), s, k) <=> Boolean(m, s, k))
  BY <1>1, <1>2 DEF Off, Boolean
<1>7. \A s, k : NumberIfOn(Silenced(m), s, k) = NumberIfOn(m, s, k)
  BY <1>4, <1>5 DEF NumberIfOn
<1>8. IsSensorMap(Silenced(m))
  <2>1. \A s \in DOMAIN m : IsSensor(Silenced(m)[s])
    BY <1>2, <1>3 DEF IsSensorMap, IsSensor
  <2>2. QED
    BY <1>1, <2>1 DEF IsSensorMap
<1>9. QED
  BY <1>4, <1>5, <1>6, <1>7, <1>8

\* A disabled sensor turns no direction and requests no retry.
LEMMA SilenceKeepsSteering ==
  ASSUME NEW m, IsSensorMap(m)
  PROVE  /\ [Fuse(m) EXCEPT !.eventDetected = Fuse(Silenced(m)).eventDetected] = Fuse(Silenced(m))
         /\ ResolveRetryIntent(m) = ResolveRetryIntent(Silenced(m))
<1> DEFINE q == Silenced(m)
<1>1. \A s, k : NumberIfOn(q, s, k) = NumberIfOn(m, s, k)
  BY SilencedFacts
<1>2. \A s : Off(q, s) <=> Off(m, s)
  BY SilencedFacts
<1>3. \A s, k : ~Off(m, s) => Number(q, s, k) = Number(m, s, k)
  BY SilencedFacts
<1>4. VisualDirection(q) = VisualDirection(m)
  BY <1>1 DEF VisualDirection, CompassBias
<1>5. Confidence(q) = Confidence(m)
  BY <1>1 DEF Confidence
<1>6. AuditoryCorrection(q) = AuditoryCorrection(m)
  <2>1. CASE Off(m, "audio")
    <3>1. NumberIfOn(m, "audio", "balance") = 0 /\ NumberIfOn(q, "audio", "balance") = 0
      BY <1>2, <2>1 DEF NumberIfOn
    <3>2. Number(m, "audio", "correctionGain") \in Int /\ Number(q, "audio", "correctionGain") \in Int
      BY NumbersAreIntegers, SilencedFacts
    <3>3. \A n \in Int : 100 * ClampSigned(0) * (IF n = 0 THEN DefaultAuditoryCorrectionGain ELSE n) = 0
      BY DEF ClampSigned, Clamp, AtLeast, AtMost, DefaultAuditoryCorrectionGain
    <3>4. QED
      BY <3>1, <3>2, <3>3 DEF AuditoryCorrection
  <2>2. CASE ~Off(m, "audio")
    BY <1>1, <1>3, <2>2 DEF AuditoryCorrection
  <2>3. QED
    BY <2>1, <2>2
<1>7. ResolveRetryIntent(m) = ResolveRetryIntent(q)
  <2>1. CASE "health" \in DOMAIN m /\ ~Off(m, "health")
    <3>1. "health" \in DOMAIN q /\ ~Off(q, "health") /\ q["health"] = m["health"]
      BY <2>1 DEF Off, Silenced
    <3>2. /\ Number(q, "health", "zeroScore") = Number(m, "health", "zeroScore")
          /\ Boolean(q, "health", "likelyDead") <=> Boolean(m, "health", "likelyDead")
      BY <2>1, SilencedFacts
    <3>3. QED
      BY <2>1, <3>1, <3>2 DEF ResolveRetryIntent
  <2>2. CASE ~("health" \in DOMAIN m /\ ~Off(m, "health"))
    <3>1. ~("health" \in DOMAIN q /\ ~Off(q, "health"))
      BY <1>2, <2>2 DEF Silenced
    <3>2. QED
      BY <2>2, <3>1 DEF ResolveRetryIntent
  <2>3. QED
    BY <2>1, <2>2
<1>8. [Fuse(m) EXCEPT !.eventDetected = Fuse(q).eventDetected] = Fuse(q)
  <2> HIDE DEF q
  <2>1. CASE Off(m, "spatial")
    <3> DEFINE Still(event) ==
                 [visualDirection |-> 0, auditoryCorrection |-> 0, fusedDirection |-> 0,
                  hudX |-> 50, hudY |-> 45, confidence |-> 0, eventDetected |-> event]
    <3>1. Fuse(m) = Still(FALSE) /\ Fuse(q) = Still(FALSE)
      BY <1>2, <2>1 DEF Fuse
    <3>2. \A a, b : [Still(a) EXCEPT !.eventDetected = b] = Still(b) /\ Still(b).eventDetected = b
      OBVIOUS
    <3> HIDE DEF Still
    <3>3. QED
      BY <3>1, <3>2
  <2>2. CASE ~Off(m, "spatial")
    <3> DEFINE fused == VisualDirection(m) + AuditoryCorrection(m)
               Fused(event) ==
                 [visualDirection |-> RoundDiv(VisualDirection(m), 10000),
                  auditoryCorrection |-> RoundDiv(AuditoryCorrection(m), 10000),
                  fusedDirection |-> RoundDiv(fused, 10000),
                  hudX |-> RoundDiv(450000000 + 4 * Clamp(fused, -90000000, 90000000), 9000000),
                  hudY |-> RoundDiv(460000 - 16 * Confidence(m), 10000),
                  confidence |-> RoundDiv(Confidence(m), 100),
                  eventDetected |-> event]
    <3>1. Fuse(m) = Fused(EventDetected(m))
      BY <2>2 DEF Fuse
    <3>2. Fuse(q) = Fused(EventDetected(q))
      BY <1>2, <1>4, <1>5, <1>6, <2>2 DEF Fuse
    <3>3. \A a, b : [Fused(a) EXCEPT !.eventDetected = b] = Fused(b) /\ Fused(b).eventDetected = b
      OBVIOUS
    <3> HIDE DEF Fused
    <3>4. QED
      BY <3>1, <3>2, <3>3
  <2>3. QED
    BY <2>1, <2>2
<1>9. QED
  BY <1>7, <1>8

-----------------------------------------------------------------------------
(* Left and right.                                                         *)

\* A quotient of natural numbers is where it should be.
LEMMA QuotientFacts ==
  ASSUME NEW a \in Int, NEW b \in Nat \ {0}
  PROVE  a \div b \in Int /\ b * (a \div b) <= a /\ a < b * (a \div b) + b
OBVIOUS

\* A number that is where the quotient should be is the quotient.
LEMMA QuotientIs ==
  ASSUME NEW a \in Int, NEW b \in Nat \ {0}, NEW q \in Int, b * q <= a, a < b * q + b
  PROVE  a \div b = q
<1> DEFINE p == a \div b
<1>1. p \in Int /\ b * p <= a /\ a < b * p + b
  BY QuotientFacts
<1> HIDE DEF p
<1>2. b * p < b * (q + 1) /\ b * q < b * (p + 1)
  BY <1>1
<1>3. p < q + 1 /\ q < p + 1
  <2>1. \A x, y \in Int : b * x < b * y => x < y
    OBVIOUS
  <2>2. QED
    BY <1>1, <1>2, <2>1
<1>4. QED
  BY <1>1, <1>3 DEF p

\* Negation, which the provers do not calculate with when it is that of 0.
LEMMA Negation ==
  /\ \A a \in Int : -a = 0 - a
  /\ \A a \in Int : a = 0 => -a = a
OBVIOUS

\* Rounding is odd.
LEMMA RoundDivIsOdd ==
  ASSUME NEW a \in Int, NEW b \in Nat \ {0}
  PROVE  RoundDiv(a, b) \in Int /\ RoundDiv(-a, b) = -RoundDiv(a, b)
<1>1. (2 * a + b) \div (2 * b) \in Int /\ (b - 2 * a) \div (2 * b) \in Int
  <2>1. 2 * b \in Nat \ {0} /\ 2 * a + b \in Int /\ b - 2 * a \in Int
    OBVIOUS
  <2>2. QED
    BY <2>1, QuotientFacts
<1>2. b \div (2 * b) = 0
  <2>1. 2 * b \in Nat \ {0} /\ (2 * b) * 0 <= b /\ b < (2 * b) * 0 + 2 * b
    OBVIOUS
  <2>2. QED
    BY <2>1, QuotientIs
<1>3. CASE a = 0
  <2>1. 2 * a + b = b /\ a >= 0
    BY <1>3
  <2>2. RoundDiv(a, b) = a
    BY <1>2, <1>3, <2>1 DEF RoundDiv
  <2>3. -a = a
    BY <1>3, Negation
  <2>4. QED
    BY <2>2, <2>3
<1>4. CASE a > 0
  <2>1. b - 2 * (-a) = 2 * a + b /\ ~(-a >= 0)
    BY <1>4
  <2>2. RoundDiv(a, b) = (2 * a + b) \div (2 * b)
    BY <1>4 DEF RoundDiv
  <2>3. RoundDiv(-a, b) = -((2 * a + b) \div (2 * b))
    BY <2>1 DEF RoundDiv
  <2>4. QED
    BY <1>1, <2>2, <2>3
<1>5. CASE a < 0
  <2>1. 2 * (-a) + b = b - 2 * a /\ -a >= 0
    BY <1>5
  <2>2. RoundDiv(a, b) = -((b - 2 * a) \div (2 * b))
    BY <1>5 DEF RoundDiv
  <2>3. RoundDiv(-a, b) = (b - 2 * a) \div (2 * b)
    BY <2>1 DEF RoundDiv
  <2>4. QED
    BY <1>1, <2>2, <2>3
<1>6. QED
  BY <1>3, <1>4, <1>5

\* The keys that have a side.
Lateral == {"bias", "vectorX", "balance", "heading"}

\* A mirrored map has the lateral numbers negated, and nothing else changed.
LEMMA MirroredFacts ==
  ASSUME NEW m, IsSensorMap(m)
  PROVE  /\ \A s : Off(Mirrored(m), s) <=> Off(m, s)
         /\ \A s, k : Boolean(Mirrored(m), s, k) <=> Boolean(m, s, k)
         /\ \A s, k : k \notin Lateral => Number(Mirrored(m), s, k) = Number(m, s, k)
         /\ \A s, k : k \notin Lateral => NumberIfOn(Mirrored(m), s, k) = NumberIfOn(m, s, k)
         /\ \A s, k : k \in Lateral => NumberIfOn(Mirrored(m), s, k) = -NumberIfOn(m, s, k)
<1>1. DOMAIN Mirrored(m) = DOMAIN m
  BY DEF Mirrored
<1>2. \A s \in DOMAIN m :
        /\ Mirrored(m)[s].enabled = m[s].enabled /\ Mirrored(m)[s].flags = m[s].flags
        /\ Mirrored(m)[s].numbers =
             [k \in DOMAIN m[s].numbers |-> IF k \in Lateral THEN -m[s].numbers[k] ELSE m[s].numbers[k]]
  BY DEF Mirrored, IsSensorMap, IsSensor, Lateral
<1>3. \A s : Off(Mirrored(m), s) <=> Off(m, s)
  BY <1>1, <1>2 DEF Off
<1>4. \A s, k : Boolean(Mirrored(m), s, k) <=> Boolean(m, s, k)
  BY <1>1, <1>2 DEF Boolean
<1>5. \A s, k : k \notin Lateral => Number(Mirrored(m), s, k) = Number(m, s, k)
  BY <1>1, <1>2, ZenonT(40) DEF Number
<1>6. \A s, k : k \in Lateral => Number(Mirrored(m), s, k) = -Number(m, s, k)
  <2> SUFFICES ASSUME NEW s, NEW k, k \in Lateral
               PROVE  Number(Mirrored(m), s, k) = -Number(m, s, k)
    OBVIOUS
  <2> DEFINE n == Number(m, s, k)
  <2>1. CASE s \in DOMAIN m /\ k \in DOMAIN m[s].numbers
    BY <1>1, <1>2, <2>1 DEF Number
  <2>2. CASE ~(s \in DOMAIN m /\ k \in DOMAIN m[s].numbers)
    <3>1. n = 0 /\ Number(Mirrored(m), s, k) = 0
      BY <1>1, <1>2, <2>2, ZenonT(40) DEF Number
    <3> HIDE DEF n
    <3>2. n \in Int
      BY <3>1
    <3>3. -n = n
      BY <3>1, <3>2, Negation, Zenon
    <3>4. QED
      BY <3>1, <3>3 DEF n
  <2>3. QED
    BY <2>1, <2>2
<1>7. \A s, k : k \in Lateral => NumberIfOn(Mirrored(m), s, k) = -NumberIfOn(m, s, k)
  <2> SUFFICES ASSUME NEW s, NEW k, k \in Lateral
               PROVE  NumberIfOn(Mirrored(m), s, k) = -NumberIfOn(m, s, k)
    OBVIOUS
  <2> DEFINE n == NumberIfOn(m, s, k)
  <2>1. CASE Off(m, s)
    <3>1. n = 0 /\ n \in Int /\ NumberIfOn(Mirrored(m), s, k) = 0
      BY <1>3, <2>1 DEF NumberIfOn
    <3> HIDE DEF n
    <3>2. -n = n
      BY <3>1, Negation, Zenon
    <3>3. QED
      BY <3>1, <3>2 DEF n
  <2>2. CASE ~Off(m, s)
    BY <1>3, <1>6, <2>2 DEF NumberIfOn
  <2>3. QED
    BY <2>1, <2>2
<1>8. \A s, k : k \notin Lateral => NumberIfOn(Mirrored(m), s, k) = NumberIfOn(m, s, k)
  BY <1>3, <1>5 DEF NumberIfOn
<1>9. QED
  BY <1>3, <1>4, <1>5, <1>7, <1>8

\* A heading of less than half a turn is its own angle.
LEMMA RelativeFacts ==
  ASSUME NEW h \in Int, -180 < h, h < 180
  PROVE  Relative(h) = h
<1>1. Rem(h + 540, 360) = h + 180
  BY DEF Rem
<1>2. QED
  BY <1>1 DEF Relative, Clamp, AtLeast, AtMost

\* The mirrored map is fused to the mirrored directions.
LEMMA MirrorTurnsFusion ==
  ASSUME NEW m, IsSensorMap(m), AbsOf(Number(m, "compass", "heading")) < 180
  PROVE  /\ Fuse(Mirrored(m)).visualDirection = -Fuse(m).visualDirection
         /\ Fuse(Mirrored(m)).auditoryCorrection = -Fuse(m).auditoryCorrection
         /\ Fuse(Mirrored(m)).fusedDirection = -Fuse(m).fusedDirection
         /\ Fuse(Mirrored(m)).confidence = Fuse(m).confidence
         /\ Fuse(Mirrored(m)).eventDetected = Fuse(m).eventDetected
<1> DEFINE q == Mirrored(m)
           num(s, k) == NumberIfOn(m, s, k)
<1>1. \A s, k : num(s, k) \in Int /\ Number(m, s, k) \in Int
  BY NumbersAreIntegers
<1>2. \A s, k : k \notin Lateral => NumberIfOn(q, s, k) = num(s, k)
  BY MirroredFacts
<1>3. \A s, k : k \in Lateral => NumberIfOn(q, s, k) = -num(s, k)
  BY MirroredFacts
<1>4. /\ \A s : Off(q, s) <=> Off(m, s)
      /\ \A s, k : Boolean(q, s, k) <=> Boolean(m, s, k)
      /\ \A s, k : k \notin Lateral => Number(q, s, k) = Number(m, s, k)
  BY MirroredFacts
<1>5. CompassBias(m) \in Int /\ CompassBias(q) = -CompassBias(m)
  <2> DEFINE h == num("compass", "heading")
             c == Clamp01Of(num("compass", "confidence"))
  <2>1. h \in Int /\ -180 < h /\ h < 180 /\ c \in Int
    <3>1. \A n \in Int : AbsOf(n) < 180 => -180 < n /\ n < 180
      BY DEF AbsOf, AtLeast
    <3>2. Number(m, "compass", "heading") \in Int /\ num("compass", "confidence") \in Int
      BY <1>1
    <3>3. h = 0 \/ h = Number(m, "compass", "heading")
      BY DEF NumberIfOn
    <3>4. c \in Int
      BY <3>2, ClampFacts
    <3> HIDE DEF h, c, num
    <3>5. QED
      BY <3>1, <3>2, <3>3, <3>4
  <2>2. Relative(h) = h /\ Relative(-h) = -h
    BY <2>1, RelativeFacts
  <2>3. NumberIfOn(q, "compass", "heading") = -h /\ Clamp01Of(NumberIfOn(q, "compass", "confidence")) = c
    BY <1>2, <1>3 DEF Lateral
  <2> HIDE DEF h, c
  <2>4. 5 * h * c \in Int /\ 5 * (-h) * c = -(5 * h * c)
    BY <2>1
  <2>5. RoundDiv(5 * h * c, 9) \in Int /\ RoundDiv(5 * (-h) * c, 9) = -RoundDiv(5 * h * c, 9)
    BY <2>4, RoundDivIsOdd, SMTT(40)
  <2>6. CompassBias(m) = RoundDiv(5 * h * c, 9)
    BY <2>2 DEF CompassBias, h, c
  <2>7. CompassBias(q) = RoundDiv(5 * (-h) * c, 9)
    BY <2>2, <2>3 DEF CompassBias
  <2>8. QED
    BY <2>5, <2>6, <2>7
<1>6. VisualDirection(m) \in Int /\ VisualDirection(q) = -VisualDirection(m)
  <2> DEFINE b == ClampSigned(num("visual", "bias"))
             x == ClampSigned(num("movement", "vectorX"))
             y == Clamp(45 * num("motor", "vectorX"), -10000, 10000)
             z == CompassBias(m)
             total == 55 * 100 * b + 20 * 100 * x + 15 * y + 10 * z
  <2>1. b \in Int /\ x \in Int /\ y \in Int /\ z \in Int
    <3>1. \A n \in Int : ClampSigned(n) \in Int /\ Clamp(n, -10000, 10000) \in Int
      BY DEF ClampSigned, Clamp, AtLeast, AtMost
    <3>2. /\ num("visual", "bias") \in Int /\ num("movement", "vectorX") \in Int
          /\ 45 * num("motor", "vectorX") \in Int
      BY <1>1
    <3> HIDE DEF num
    <3>3. QED
      BY <1>5, <3>1, <3>2
  <2>2. /\ ClampSigned(NumberIfOn(q, "visual", "bias")) = -b
        /\ ClampSigned(NumberIfOn(q, "movement", "vectorX")) = -x
    BY <1>1, <1>3, ClampFacts DEF Lateral
  <2>3. Clamp(45 * NumberIfOn(q, "motor", "vectorX"), -10000, 10000) = -y
    <3>1. NumberIfOn(q, "motor", "vectorX") = -num("motor", "vectorX")
      BY <1>3 DEF Lateral
    <3>2. 45 * (-num("motor", "vectorX")) = -(45 * num("motor", "vectorX"))
      BY <1>1
    <3>3. 45 * num("motor", "vectorX") \in Int
      BY <1>1
    <3>4. QED
      BY <3>1, <3>2, <3>3, ClampFacts
  <2>4. VisualDirection(m) = 45 * Clamp(total, -1000000, 1000000)
    BY DEF VisualDirection
  <2>5. VisualDirection(q) = 45 * Clamp(55 * 100 * (-b) + 20 * 100 * (-x) + 15 * (-y) + 10 * (-z),
                                        -1000000, 1000000)
    BY <1>5, <2>2, <2>3 DEF VisualDirection
  <2> HIDE DEF b, x, y, z
  <2>6. total \in Int /\ 55 * 100 * (-b) + 20 * 100 * (-x) + 15 * (-y) + 10 * (-z) = -total
    BY <2>1
  <2> HIDE DEF total
  <2>7. /\ Clamp(total, -1000000, 1000000) \in Int
        /\ Clamp(-total, -1000000, 1000000) = -Clamp(total, -1000000, 1000000)
    BY <2>6, ClampFacts DEF Clamp, AtLeast, AtMost
  <2>8. QED
    BY <2>4, <2>5, <2>6, <2>7
<1>7. AuditoryCorrection(m) \in Int /\ AuditoryCorrection(q) = -AuditoryCorrection(m)
  <2> DEFINE b == ClampSigned(num("audio", "balance"))
             n == Number(m, "audio", "correctionGain")
             g == IF n = 0 THEN DefaultAuditoryCorrectionGain ELSE n
  <2>1. b \in Int /\ g \in Int
    BY <1>1, ClampFacts DEF DefaultAuditoryCorrectionGain
  <2>2. ClampSigned(NumberIfOn(q, "audio", "balance")) = -b
    BY <1>1, <1>3, ClampFacts DEF Lateral
  <2>3. Number(q, "audio", "correctionGain") = n
    BY <1>4 DEF Lateral
  <2>4. AuditoryCorrection(m) = 100 * b * g /\ AuditoryCorrection(q) = 100 * (-b) * g
    BY <2>2, <2>3 DEF AuditoryCorrection
  <2> HIDE DEF b, g
  <2>5. QED
    BY <2>1, <2>4
<1>8. Confidence(q) = Confidence(m)
  BY <1>2 DEF Confidence, Lateral
<1>9. EventDetected(q) = EventDetected(m)
  <2>1. NumberIfOn(q, "visual", "confidence") = num("visual", "confidence")
    BY <1>2 DEF Lateral
  <2>2. AbsOf(VisualDirection(q) + AuditoryCorrection(q)) = AbsOf(VisualDirection(m) + AuditoryCorrection(m))
    BY <1>6, <1>7 DEF AbsOf, AtLeast
  <2>3. QED
    BY <1>4, <1>8, <2>1, <2>2 DEF EventDetected
<1> HIDE DEF q
<1>10. CASE Off(m, "spatial")
  <2> DEFINE Still(n) ==
               [visualDirection |-> n, auditoryCorrection |-> n, fusedDirection |-> n,
                hudX |-> 50, hudY |-> 45, confidence |-> n, eventDetected |-> FALSE]
  <2>1. PICK n \in Int : n = 0
    OBVIOUS
  <2>2. -n = n
    BY <2>1, Negation, Zenon
  <2>3. Fuse(m) = Still(n) /\ Fuse(q) = Still(n)
    BY <1>4, <1>10, <2>1 DEF Fuse
  <2>4. /\ Still(n).visualDirection = n /\ Still(n).auditoryCorrection = n
        /\ Still(n).fusedDirection = n
    OBVIOUS
  <2> HIDE DEF Still
  <2>5. QED
    BY <2>2, <2>3, <2>4, Zenon DEF q
<1>11. CASE ~Off(m, "spatial")
  <2> DEFINE v == VisualDirection(m)
             a == AuditoryCorrection(m)
             w == VisualDirection(q)
             c == AuditoryCorrection(q)
             Fused(x, y, confidence, event) ==
               [visualDirection |-> RoundDiv(x, 10000),
                auditoryCorrection |-> RoundDiv(y, 10000),
                fusedDirection |-> RoundDiv(x + y, 10000),
                hudX |-> RoundDiv(450000000 + 4 * Clamp(x + y, -90000000, 90000000), 9000000),
                hudY |-> RoundDiv(460000 - 16 * confidence, 10000),
                confidence |-> RoundDiv(confidence, 100),
                eventDetected |-> event]
  <2>1. v \in Int /\ a \in Int /\ w = -v /\ c = -a
    BY <1>6, <1>7
  <2>2. /\ Fuse(m) = Fused(v, a, Confidence(m), EventDetected(m))
        /\ Fuse(q) = Fused(w, c, Confidence(m), EventDetected(q))
    BY <1>4, <1>8, <1>11 DEF Fuse
  <2> HIDE DEF v, a, w, c
  <2>3. w + c = -(v + a) /\ v + a \in Int
    BY <2>1
  <2>4. /\ RoundDiv(w, 10000) = -RoundDiv(v, 10000)
        /\ RoundDiv(c, 10000) = -RoundDiv(a, 10000)
        /\ RoundDiv(w + c, 10000) = -RoundDiv(v + a, 10000)
    <3>1. 10000 \in Nat \ {0}
      OBVIOUS
    <3>2. QED
      BY <2>1, <2>3, <3>1, RoundDivIsOdd
  <2>5. \A x, y, z, event :
          /\ Fused(x, y, z, event).visualDirection = RoundDiv(x, 10000)
          /\ Fused(x, y, z, event).auditoryCorrection = RoundDiv(y, 10000)
          /\ Fused(x, y, z, event).fusedDirection = RoundDiv(x + y, 10000)
          /\ Fused(x, y, z, event).confidence = RoundDiv(z, 100)
          /\ Fused(x, y, z, event).eventDetected = event
    OBVIOUS
  <2> HIDE DEF Fused
  <2>6. QED
    BY <1>9, <2>2, <2>4, <2>5 DEF q
<1>12. QED
  BY <1>10, <1>11 DEF q

\* How loud a channel is: Level of QuantizeBinauralDirection.
Loudness(channel) == SumFunction([i \in DOMAIN channel |-> AbsOf(channel[i])])

\* Loudness is a natural number.
LEMMA LoudnessFacts ==
  ASSUME NEW channel \in Seq(Int)
  PROVE  Loudness(channel) \in Nat
<1> DEFINE f == [i \in DOMAIN channel |-> AbsOf(channel[i])]
<1>1. IsFiniteSet(DOMAIN channel)
  <2>1. Len(channel) \in Nat /\ DOMAIN channel = 1..Len(channel)
    OBVIOUS
  <2>2. QED
    BY <2>1, FS_Interval
<1>2. \A i \in DOMAIN f : f[i] \in Nat
  BY DEF AbsOf, AtLeast
<1>3. SumOver(f, DOMAIN f) \in Nat
  <2>1. DOMAIN f = DOMAIN channel
    OBVIOUS
  <2> HIDE DEF f
  <2>2. QED
    BY <1>1, <1>2, <2>1, SumOfNaturals
<1>4. QED
  BY <1>3 DEF Loudness, SumFunction, SumOver

\* The balance of the exchanged channels is the negated one.
LEMMA ExchangedBalance ==
  ASSUME NEW l \in Nat, NEW r \in Nat, l + r # 0
  PROVE  RoundDiv(10000 * (l - r), l + r) = -RoundDiv(10000 * (r - l), l + r)
<1> DEFINE t == l + r
<1>1. t \in Nat \ {0} /\ 10000 * (r - l) \in Int /\ -(10000 * (r - l)) = 10000 * (l - r)
  OBVIOUS
<1> HIDE DEF t
<1>2. RoundDiv(10000 * (l - r), t) = -RoundDiv(10000 * (r - l), t)
  BY <1>1, RoundDivIsOdd
<1>3. QED
  BY <1>2 DEF t

\* The directions mirror each other, up to a half that both round up.
LEMMA ExchangedDirections ==
  ASSUME NEW l \in Nat, NEW r \in Nat, NEW t \in Nat \ {0}, t = l + r, NEW n \in Nat
  PROVE  RoundDiv(r * n, t) + RoundDiv(l * n, t) \in {n, n + 1}
<1> DEFINE x == r * n
           y == l * n
<1>1. x \in Nat /\ y \in Nat /\ x + y = t * n
  OBVIOUS
<1> HIDE DEF x, y
<1>2. RoundDiv(x, t) + RoundDiv(y, t) \in {n, n + 1}
  <2> DEFINE p == (2 * x + t) \div (2 * t)
             q == (2 * y + t) \div (2 * t)
             u == t * p
             v == t * q
             w == t * n
  <2>1. 2 * t \in Nat \ {0} /\ 2 * x + t \in Int /\ 2 * y + t \in Int
    BY <1>1
  <2>2. /\ p \in Int /\ (2 * t) * p <= 2 * x + t /\ 2 * x + t < (2 * t) * p + 2 * t
        /\ q \in Int /\ (2 * t) * q <= 2 * y + t /\ 2 * y + t < (2 * t) * q + 2 * t
    BY <2>1, QuotientFacts
  <2>3. RoundDiv(x, t) = p /\ RoundDiv(y, t) = q
    BY <1>1 DEF RoundDiv
  <2> HIDE DEF p, q
  <2>4. (2 * t) * p = 2 * u /\ (2 * t) * q = 2 * v /\ u \in Int /\ v \in Int /\ w \in Int
    BY <1>1, <2>2
  <2>5. u + v <= w + t /\ w < u + v + t
    BY <1>1, <2>2, <2>4
  <2>6. t * (p + q) < t * (n + 2) /\ t * n < t * (p + q + 1)
    BY <1>1, <2>2, <2>5
  <2>7. \A a, b \in Int : t * a < t * b => a < b
    BY <1>1
  <2>8. p + q < n + 2 /\ n < p + q + 1
    BY <2>2, <2>6, <2>7
  <2>9. QED
    BY <2>2, <2>3, <2>8
<1>3. QED
  BY <1>2 DEF x, y

\* A function on a finite set of integers has a largest value.
LEMMA LargestValue ==
  ASSUME NEW S, IsFiniteSet(S), S # {}, NEW f, \A x \in S : f[x] \in Int
  PROVE  \E x \in S : \A y \in S : f[y] <= f[x]
<1> DEFINE Good == {T \in SUBSET S : T = {} \/ \E x \in T : \A y \in T : f[y] <= f[x]}
<1>1. {} \in Good
  OBVIOUS
<1>2. \A T \in SUBSET S, x \in S : T \in Good /\ x \notin T => T \cup {x} \in Good
  <2> SUFFICES ASSUME NEW T \in SUBSET S, NEW x \in S, T \in Good
               PROVE  \E z \in T \cup {x} : \A y \in T \cup {x} : f[y] <= f[z]
    OBVIOUS
  <2>1. CASE T = {}
    BY <2>1
  <2>2. CASE \E z \in T : \A y \in T : f[y] <= f[z]
    <3>1. PICK z \in T : \A y \in T : f[y] <= f[z]
      BY <2>2
    <3>2. CASE f[x] <= f[z]
      BY <3>1, <3>2
    <3>3. CASE f[z] < f[x]
      <4>1. \A y \in T \cup {x} : f[y] <= f[x]
        BY <3>1, <3>3
      <4>2. QED
        BY <4>1
    <3>4. QED
      BY <3>2, <3>3
  <2>3. QED
    BY <2>1, <2>2
<1>3. S \in Good
  <2> HIDE DEF Good
  <2> QED
    BY <1>1, <1>2, SetInduction
<1>4. QED
  BY <1>3

\* A score is a sum of integers, and that of the channels exchanged and the lag
\* negated.
LEMMA ScoreFacts ==
  ASSUME NEW left \in Seq(Int), NEW right \in Seq(Int), NEW lag \in Int
  PROVE  Score(left, right, lag) \in Int /\ Score(right, left, -lag) = Score(left, right, lag)
<1> DEFINE S == {i \in DOMAIN left : i + lag \in DOMAIN right}
           R == {j \in DOMAIN right : j + (-lag) \in DOMAIN left}
           g == [i \in S |-> left[i] * right[i + lag]]
           f == [j \in R |-> right[j] * left[j + (-lag)]]
           h == [i \in S |-> i + lag]
<1>1. /\ Len(left) \in Nat /\ DOMAIN left = 1..Len(left) /\ \A i \in DOMAIN left : left[i] \in Int
      /\ Len(right) \in Nat /\ DOMAIN right = 1..Len(right) /\ \A i \in DOMAIN right : right[i] \in Int
  OBVIOUS
<1>2. IsFiniteSet(S)
  <2>1. IsFiniteSet(DOMAIN left) /\ S \subseteq DOMAIN left
    BY <1>1, FS_Interval
  <2>2. QED
    BY <2>1, FS_Subset
<1>3. \A i \in S : g[i] \in Int /\ h[i] \in R /\ f[h[i]] = g[i]
  <2> SUFFICES ASSUME NEW i \in S PROVE g[i] \in Int /\ h[i] \in R /\ f[h[i]] = g[i]
    OBVIOUS
  <2>1. i \in Int /\ left[i] \in Int /\ right[i + lag] \in Int /\ (i + lag) + (-lag) = i
    BY <1>1
  <2>2. h[i] = i + lag /\ i + lag \in R
    BY <1>1, <2>1
  <2>3. f[i + lag] = right[i + lag] * left[i]
    BY <2>1, <2>2
  <2>4. QED
    BY <2>1, <2>2, <2>3
<1>4. h \in Bijection(S, R)
  <2>1. \A i, j \in S : h[i] = h[j] => i = j
    BY <1>1
  <2>2. ASSUME NEW j \in R PROVE \E i \in S : h[i] = j
    <3>1. j + (-lag) \in S /\ h[j + (-lag)] = j
      BY <1>1
    <3>2. QED
      BY <3>1
  <2>3. h \in [S -> R]
    BY <1>3
  <2> HIDE DEF S, R, h
  <2>4. QED
    BY <2>1, <2>2, <2>3 DEF Bijection, Injection, IsInjective, Surjection
<1>5. SumOver(g, S) \in Int /\ SumOver(g, S) = SumOver(f, R)
  <2>1. \A i \in S : g[i] \in Int /\ f[h[i]] = g[i]
    BY <1>3
  <2> HIDE DEF S, R, f, g, h
  <2>2. SumOver(g, S) = SumOver(f, R)
    BY <1>2, <1>4, <2>1, SumRenumbered
  <2>3. SumOver(g, S) \in Int
    BY <1>2, <2>1, SumSplits
  <2>4. QED
    BY <2>2, <2>3
<1>6. Score(left, right, lag) = SumOver(g, S) /\ Score(right, left, -lag) = SumOver(f, R)
  <2>1. DOMAIN g = S /\ DOMAIN f = R
    OBVIOUS
  <2>2. Score(left, right, lag) = SumFunction(g)
    BY DEF Score
  <2>3. Score(right, left, -lag) = SumFunction(f)
    BY DEF Score
  <2> HIDE DEF S, R, f, g
  <2>4. SumFunction(g) = SumOver(g, S) /\ SumFunction(f) = SumOver(f, R)
    BY <2>1 DEF SumFunction, SumOver
  <2>5. QED
    BY <2>2, <2>3, <2>4
<1>7. QED
  BY <1>5, <1>6

\* The estimated delay has the best score.
LEMMA DelayFacts ==
  ASSUME NEW left \in Seq(Int), NEW right \in Seq(Int)
  PROVE  /\ EstimateStereoDelay(left, right) \in -MaxLag..MaxLag
         /\ \A k \in -MaxLag..MaxLag :
              Score(left, right, k) <= Score(left, right, EstimateStereoDelay(left, right))
<1> DEFINE lags == -MaxLag..MaxLag
           First(lag) == \A k \in lags : \/ Score(left, right, k) < Score(left, right, lag)
                                         \/ Score(left, right, k) = Score(left, right, lag) /\ lag <= k
           f == [k \in lags |-> 100 * Score(left, right, k) - k]
<1>1. \A k \in lags : k \in Int /\ -8 <= k /\ k <= 8 /\ Score(left, right, k) \in Int
  <2>1. \A k \in lags : k \in Int /\ -8 <= k /\ k <= 8
    BY DEF MaxLag
  <2> HIDE DEF lags
  <2>2. QED
    BY <2>1, ScoreFacts
<1>2. IsFiniteSet(lags) /\ 0 \in lags
  <2>1. -MaxLag \in Int /\ MaxLag \in Int /\ -MaxLag <= 0 /\ 0 <= MaxLag
    BY DEF MaxLag
  <2>2. QED
    BY <2>1, FS_Interval
<1>3. PICK lag \in lags : \A k \in lags : f[k] <= f[lag]
  <2>1. \A k \in lags : f[k] \in Int
    BY <1>1
  <2> HIDE DEF lags, f
  <2>2. QED
    BY <1>2, <2>1, LargestValue
<1>4. First(lag)
  BY <1>1, <1>3
<1>5. EstimateStereoDelay(left, right) = CHOOSE d \in lags : First(d)
  BY DEF EstimateStereoDelay
<1>6. EstimateStereoDelay(left, right) \in lags /\ First(EstimateStereoDelay(left, right))
  <2> HIDE DEF First, lags
  <2> QED
    BY <1>4, <1>5
<1>7. QED
  BY <1>1, <1>6

\* The direction of the exchanged channels.
LEMMA ExchangeTurnsDirection ==
  ASSUME NEW left \in Seq(Int), NEW right \in Seq(Int), NEW bins \in Nat \ {0}
  PROVE  LET heard == QuantizeBinauralDirection(left, right, bins)
             mirror == QuantizeBinauralDirection(right, left, bins)
         IN  /\ mirror.balance = -heard.balance
             /\ heard.directionIndex + mirror.directionIndex \in {bins - 1, bins}
             /\ Score(left, right, heard.delaySamples) = Score(left, right, -mirror.delaySamples)
<1> DEFINE l == Loudness(left)
           r == Loudness(right)
           heard == QuantizeBinauralDirection(left, right, bins)
           mirror == QuantizeBinauralDirection(right, left, bins)
           d == EstimateStereoDelay(left, right)
           e == EstimateStereoDelay(right, left)
<1>1. l \in Nat /\ r \in Nat
  BY LoudnessFacts
<1>2. /\ heard.balance = (IF l + r = 0 THEN 0 ELSE RoundDiv(10000 * (r - l), l + r))
      /\ mirror.balance = (IF r + l = 0 THEN 0 ELSE RoundDiv(10000 * (l - r), r + l))
      /\ heard.directionIndex =
           (IF l + r = 0 THEN RoundDiv(bins - 1, 2) ELSE RoundDiv(r * (bins - 1), l + r))
      /\ mirror.directionIndex =
           (IF r + l = 0 THEN RoundDiv(bins - 1, 2) ELSE RoundDiv(l * (bins - 1), r + l))
      /\ heard.delaySamples = d /\ mirror.delaySamples = e
  BY DEF QuantizeBinauralDirection, Loudness
<1> HIDE DEF l, r, heard, mirror
<1>3. mirror.balance = -heard.balance
  BY <1>1, <1>2, ExchangedBalance
<1>4. heard.directionIndex + mirror.directionIndex \in {bins - 1, bins}
  <2>1. CASE l + r = 0
    <3>1. RoundDiv(bins - 1, 2) + RoundDiv(bins - 1, 2) \in {bins - 1, bins}
      BY DEF RoundDiv
    <3>2. QED
      BY <1>1, <1>2, <2>1, <3>1
  <2>2. CASE l + r # 0
    <3> DEFINE t == l + r
               n == bins - 1
    <3>1. n \in Nat /\ n + 1 = bins /\ r + l = t /\ t \in Nat \ {0}
      BY <1>1, <2>2
    <3> HIDE DEF t, n
    <3>2. RoundDiv(r * n, t) + RoundDiv(l * n, t) \in {n, n + 1}
      BY <1>1, <3>1, ExchangedDirections DEF t
    <3>3. heard.directionIndex = RoundDiv(r * n, t) /\ mirror.directionIndex = RoundDiv(l * n, t)
      BY <1>2, <2>2, <3>1 DEF t, n
    <3>4. QED
      BY <3>1, <3>2, <3>3 DEF n
  <2>3. QED
    BY <2>1, <2>2
<1>5. Score(left, right, d) = Score(left, right, -e)
  <2>1. d \in -MaxLag..MaxLag /\ e \in -MaxLag..MaxLag
    BY DelayFacts
  <2>2. d \in Int /\ e \in Int /\ -d \in -MaxLag..MaxLag /\ -e \in -MaxLag..MaxLag /\ -(-d) = d /\ -(-e) = e
    <3>1. \A k \in -MaxLag..MaxLag : k \in Int /\ -8 <= k /\ k <= 8
      BY DEF MaxLag
    <3>2. \A k \in Int : -8 <= k /\ k <= 8 => -8 <= -k /\ -k <= 8 /\ -k \in Int /\ -(-k) = k
      OBVIOUS
    <3>3. \A k \in Int : -8 <= k /\ k <= 8 => k \in -MaxLag..MaxLag
      BY DEF MaxLag
    <3> HIDE DEF d, e
    <3>4. QED
      BY <2>1, <3>1, <3>2, <3>3
  <2>3. Score(left, right, -e) <= Score(left, right, d)
    BY <2>2, DelayFacts
  <2>4. Score(right, left, -d) <= Score(right, left, e)
    BY <2>2, DelayFacts
  <2>5. Score(right, left, -d) = Score(left, right, d) /\ Score(left, right, -e) = Score(right, left, e)
    BY <2>2, ScoreFacts
  <2>6. Score(left, right, d) \in Int /\ Score(left, right, -e) \in Int
    BY <2>2, ScoreFacts
  <2>7. QED
    BY <2>3, <2>4, <2>5, <2>6
<1>6. QED
  BY <1>2, <1>3, <1>4, <1>5 DEF heard, mirror

-----------------------------------------------------------------------------
(* Normalisation.                                                          *)

\* The names in order: all of them, the ordinally smaller ones first.
LEMMA OrderFacts ==
  ASSUME NEW S \in SUBSET Names, IsFiniteSet(S), NEW e, ToSet(e) = S
  PROVE  /\ OrderByName(e) \in [1..Cardinality(S) -> S]
         /\ \A name \in S : \E i \in 1..Cardinality(S) : OrderByName(e)[i] = name
         /\ \A i, j \in 1..Cardinality(S) : i < j =>
              Position[OrderByName(e)[i]] < Position[OrderByName(e)[j]]
<1> DEFINE size == Cardinality(S)
           before(p) == {q \in S : Position[q] < Position[p]}
           rank(p) == Cardinality(before(p))
           Place == [p \in S |-> rank(p)]
           order == OrderByName(e)
<1>1. size \in Nat
  BY FS_CardinalityType
<1>2. \A p \in S : Position[p] \in Int
  BY SensorAssumption
<1>3. ASSUME NEW p \in S
      PROVE  IsFiniteSet(before(p)) /\ rank(p) \in Nat /\ rank(p) < size
  <2>1. before(p) \in SUBSET S /\ p \notin before(p)
    BY <1>2
  <2>2. IsFiniteSet(before(p)) /\ rank(p) \in Nat /\ rank(p) <= size
    BY <1>1, <2>1, FS_Subset, FS_CardinalityType
  <2>3. rank(p) = size => before(p) = S
    BY <1>1, <2>1, FS_Subset
  <2>4. QED
    BY <1>1, <2>1, <2>2, <2>3
<1>4. ASSUME NEW p \in S, NEW q \in S, Position[p] < Position[q]
      PROVE  rank(p) < rank(q)
  <2>1. before(p) \in SUBSET before(q)
    BY <1>2, <1>4
  <2>2. p \in before(q) /\ p \notin before(p)
    BY <1>2, <1>4
  <2>3. rank(p) <= rank(q) /\ (rank(p) = rank(q) => before(p) = before(q))
    BY <1>3, <2>1, FS_Subset
  <2>4. rank(p) # rank(q)
    BY <2>2, <2>3
  <2>5. rank(p) \in Nat /\ rank(q) \in Nat
    BY <1>3
  <2> HIDE DEF rank, before
  <2>6. QED
    BY <2>3, <2>4, <2>5
<1>5. \A p \in S : rank(p) \in Nat /\ rank(p) < size
  BY <1>3
<1>6. \A p, q \in S : p # q => Position[p] < Position[q] \/ Position[q] < Position[p]
  <2> SUFFICES ASSUME NEW p \in S, NEW q \in S, p # q
               PROVE  Position[p] < Position[q] \/ Position[q] < Position[p]
    OBVIOUS
  <2>1. Position[p] # Position[q]
    BY SensorAssumption
  <2>2. QED
    BY <1>2, <2>1
<1>7. \A p, q \in S : rank(p) = rank(q) => p = q
  <2> SUFFICES ASSUME NEW p \in S, NEW q \in S, rank(p) = rank(q), p # q PROVE FALSE
    OBVIOUS
  <2>1. rank(p) < rank(q) \/ rank(q) < rank(p)
    BY <1>4, <1>6
  <2>2. QED
    BY <1>3, <2>1, SMTT(40)
<1>8. \A n \in 1..size : \E p \in S : rank(p) = n - 1
  <2> HIDE DEF before, rank, size
  <2>1. Place \in Injection(S, 0..(size - 1))
    BY <1>1, <1>5, <1>7 DEF Injection, IsInjective
  <2>2. IsFiniteSet(0..(size - 1)) /\ Cardinality(0..(size - 1)) = size
    BY <1>1, FS_Interval
  <2>3. Cardinality(S) = Cardinality(0..(size - 1))
    BY <2>2 DEF size
  <2>4. Place \in Surjection(S, 0..(size - 1))
    BY <2>1, <2>2, <2>3, FS_Injection
  <2>5. \A n \in 0..(size - 1) : \E p \in S : Place[p] = n
    BY <2>4 DEF Surjection
  <2>6. QED
    BY <1>1, <2>5
<1>9. order = [n \in 1..size |-> CHOOSE p \in S : rank(p) = n - 1]
  BY DEF OrderByName
<1> HIDE DEF before, rank, size, order
<1>10. \A n \in 1..size : order[n] \in S /\ rank(order[n]) = n - 1
  <2> TAKE n \in 1..size
  <2>1. order[n] = CHOOSE p \in S : rank(p) = n - 1
    BY <1>9
  <2>2. QED
    BY <1>8, <2>1
<1>11. order \in [1..size -> S]
  BY <1>9, <1>10
<1>12. \A p \in S : \E n \in 1..size : order[n] = p
  <2> TAKE p \in S
  <2>1. rank(p) + 1 \in 1..size
    BY <1>1, <1>5
  <2>2. rank(order[rank(p) + 1]) = rank(p) /\ order[rank(p) + 1] \in S
    BY <1>5, <1>10, <2>1
  <2>3. QED
    BY <1>7, <2>1, <2>2
<1>13. ASSUME NEW i \in 1..size, NEW j \in 1..size, i < j
       PROVE  Position[order[i]] < Position[order[j]]
  <2>1. order[i] \in S /\ order[j] \in S /\ rank(order[i]) < rank(order[j])
    BY <1>1, <1>10, <1>13
  <2>2. order[i] # order[j] /\ ~(rank(order[j]) < rank(order[i]))
    BY <1>5, <2>1
  <2>3. QED
    BY <1>4, <1>6, <2>1, <2>2
<1>14. QED
  BY <1>11, <1>12, <1>13 DEF order, size

\* The largest element of a set of indexes.
LEMMA MaxFacts ==
  ASSUME NEW n \in Nat, NEW T \in SUBSET (1..n), T # {}
  PROVE  Max(T) \in T /\ \A i \in T : i <= Max(T)
<1> DEFINE f == [i \in T |-> i]
<1>1. IsFiniteSet(T) /\ \A i \in T : f[i] \in Int
  <2>1. IsFiniteSet(1..n)
    BY FS_Interval
  <2>2. IsFiniteSet(T)
    BY <2>1, FS_Subset
  <2>3. \A i \in T : i \in Int
    OBVIOUS
  <2>4. QED
    BY <2>2, <2>3
<1>2. \E x \in T : \A y \in T : f[y] <= f[x]
  <2> HIDE DEF f
  <2> QED
    BY <1>1, LargestValue
<1>3. \E x \in T : \A y \in T : x >= y
  BY <1>2
<1>4. QED
  BY <1>3 DEF Max

\* The map with the state of one more spelling.
Entered(normalized, m, raw) ==
  [name \in DOMAIN normalized \cup {NormalizeName(raw)} |->
     IF name = NormalizeName(raw) THEN m[raw] ELSE normalized[name]]

\* The map that Normalize starts from.
Defaults == [name \in DefaultSensors |-> CreateDefault(name)]

\* The normalised maps of the subsets of the spellings that order lists.
Normals(maps, m, order) ==
  maps = [T \in SUBSET (DOMAIN order) |->
            IF T = {} THEN Defaults ELSE Entered(maps[T \ {Max(T)}], m, order[Max(T)])]

\* Normalize is one of these maps.
LEMMA NormalizeIsAFold ==
  ASSUME NEW m, NEW e
  PROVE  Normalize(m, e)
           = (CHOOSE maps : Normals(maps, m, OrderByName(e)))[DOMAIN OrderByName(e)]
BY DEF Normalize, FoldLeft, MapThenFoldSet, Normals, Entered, Defaults

\* The last of the indexes in T whose spellings mean the name, and the map that
\* the spellings in T make.
Means(order, i, name) == NormalizeName(order[i]) = name
LastIndex(order, T, name) ==
  CHOOSE i \in T : Means(order, i, name) /\ \A j \in T : Means(order, j, name) => j <= i
Normal(m, order, T) ==
  [name \in DefaultSensors \cup {NormalizeName(order[i]) : i \in T} |->
     IF \E i \in T : Means(order, i, name) THEN m[order[LastIndex(order, T, name)]]
     ELSE CreateDefault(name)]

\* The last index is what it is called.
LEMMA LastFacts ==
  ASSUME NEW n \in Nat, NEW T \in SUBSET (1..n), NEW order, NEW name,
         NEW i \in T, Means(order, i, name), \A j \in T : Means(order, j, name) => j <= i
  PROVE  LastIndex(order, T, name) = i
<1> DEFINE Is(k) == Means(order, k, name) /\ \A j \in T : Means(order, j, name) => j <= k
           k == CHOOSE k \in T : Is(k)
<1>1. k \in T /\ Is(k)
  OBVIOUS
<1> HIDE DEF k
<1>2. i <= k /\ k <= i
  BY <1>1
<1>3. k = i
  <2>1. i \in Int /\ k \in Int
    BY <1>1
  <2>2. QED
    BY <1>2, <2>1
<1>4. QED
  BY <1>3 DEF LastIndex, k

\* There is a last index when there is one.
LEMMA LastExists ==
  ASSUME NEW n \in Nat, NEW T \in SUBSET (1..n), NEW order, NEW name,
         \E i \in T : Means(order, i, name)
  PROVE  \E i \in T : Means(order, i, name) /\ \A j \in T : Means(order, j, name) => j <= i
<1> DEFINE U == {i \in T : Means(order, i, name)}
<1>1. U \in SUBSET (1..n) /\ U # {}
  OBVIOUS
<1>2. Max(U) \in U /\ \A i \in U : i <= Max(U)
  <2> HIDE DEF U
  <2> QED
    BY <1>1, MaxFacts
<1>3. QED
  BY <1>2

\* The map of some spellings is that of all but the last, with the last entered.
LEMMA NormalGrows ==
  ASSUME NEW n \in Nat, NEW T \in SUBSET (1..n), T # {}, NEW m, NEW order
  PROVE  Normal(m, order, T)
           = Entered(Normal(m, order, T \ {Max(T)}), m, order[Max(T)])
<1> DEFINE x == Max(T)
           U == T \ {x}
           last == NormalizeName(order[x])
           old == Normal(m, order, U)
           new == Normal(m, order, T)
           D == DefaultSensors \cup {NormalizeName(order[i]) : i \in T}
<1>1. x \in T /\ \A i \in T : i <= x
  BY MaxFacts
<1> HIDE DEF x
<1>2. DOMAIN old = DefaultSensors \cup {NormalizeName(order[i]) : i \in U}
  BY DEF Normal
<1>3. DOMAIN old \cup {last} = D
  BY <1>1, <1>2
<1>4. ASSUME NEW name \in D
      PROVE  (IF \E i \in T : Means(order, i, name) THEN m[order[LastIndex(order, T, name)]]
              ELSE CreateDefault(name))
               = (IF name = last THEN m[order[x]] ELSE old[name])
  <2>1. CASE name = last
    <3>1. Means(order, x, name)
      BY <2>1 DEF Means
    <3>2. LastIndex(order, T, name) = x
      BY <1>1, <3>1, LastFacts
    <3>3. QED
      BY <1>1, <2>1, <3>1, <3>2
  <2>2. CASE name # last
    <3>1. ~Means(order, x, name)
      BY <2>2 DEF Means
    <3>2. old[name] = IF \E i \in U : Means(order, i, name) THEN m[order[LastIndex(order, U, name)]]
                      ELSE CreateDefault(name)
      BY <1>2, <1>3, <2>2 DEF Normal
    <3>3. CASE \E i \in U : Means(order, i, name)
      <4>1. U \in SUBSET (1..n)
        OBVIOUS
      <4>2. PICK i \in U : Means(order, i, name) /\ \A j \in U : Means(order, j, name) => j <= i
        BY <3>3, <4>1, LastExists
      <4>3. LastIndex(order, U, name) = i
        BY <4>1, <4>2, LastFacts
      <4>4. i \in T /\ \A j \in T : Means(order, j, name) => j <= i
        BY <3>1, <4>2
      <4>5. LastIndex(order, T, name) = i
        BY <4>2, <4>4, LastFacts
      <4>6. QED
        BY <2>2, <3>2, <3>3, <4>2, <4>3, <4>4, <4>5
    <3>4. CASE ~\E i \in U : Means(order, i, name)
      BY <2>2, <3>1, <3>2, <3>4
    <3>5. QED
      BY <3>3, <3>4
  <2>3. QED
    BY <2>1, <2>2
<1>5. new = [name \in D |-> IF name = last THEN m[order[x]] ELSE old[name]]
  BY <1>4 DEF Normal
<1>6. QED
  BY <1>3, <1>5 DEF Entered, x

\* The fold makes the map of all spellings.
LEMMA NormalizeIsNormal ==
  ASSUME NEW m, NEW e, NEW n \in Nat, DOMAIN OrderByName(e) = 1..n
  PROVE  Normalize(m, e) = Normal(m, OrderByName(e), 1..n)
<1> DEFINE order == OrderByName(e)
           all == [T \in SUBSET (DOMAIN order) |-> Normal(m, order, T)]
           maps == CHOOSE maps : Normals(maps, m, order)
           Right == {k \in Nat : k <= n => maps[1..k] = Normal(m, order, 1..k)}
<1>1. Normal(m, order, {}) = Defaults
  BY DEF Normal, Defaults
<1> HIDE DEF order
<1>2. DOMAIN order = 1..n
  BY DEF order
<1>3. Normals(all, m, order)
  <2>1. ASSUME NEW T \in SUBSET (1..n)
        PROVE  Normal(m, order, T) = IF T = {} THEN Defaults
                                     ELSE Entered(all[T \ {Max(T)}], m, order[Max(T)])
    <3>1. CASE T = {}
      BY <1>1, <3>1
    <3>2. CASE T # {}
      <4>1. all[T \ {Max(T)}] = Normal(m, order, T \ {Max(T)})
        BY <1>2
      <4>2. Normal(m, order, T) = Entered(Normal(m, order, T \ {Max(T)}), m, order[Max(T)])
        BY <3>2, NormalGrows
      <4> HIDE DEF all
      <4>3. QED
        BY <3>2, <4>1, <4>2
    <3>3. QED
      BY <3>1, <3>2
  <2>2. QED
    BY <1>2, <2>1 DEF Normals
<1>4. Normals(maps, m, order)
  <2> HIDE DEF all
  <2> QED
    BY <1>3
<1> HIDE DEF maps
<1>5. \A T \in SUBSET (1..n) :
        maps[T] = IF T = {} THEN Defaults ELSE Entered(maps[T \ {Max(T)}], m, order[Max(T)])
  BY <1>2, <1>4 DEF Normals
<1>6. 0 \in Right
  <2>1. 1..0 = {}
    OBVIOUS
  <2>2. maps[{}] = Defaults
    BY <1>5
  <2>3. maps[1..0] = Normal(m, order, 1..0)
    BY <1>1, <2>1, <2>2, Zenon
  <2>4. QED
    BY <2>3
<1>7. ASSUME NEW k \in Nat, k \in Right PROVE k + 1 \in Right
  <2> SUFFICES ASSUME k + 1 <= n PROVE maps[1..(k + 1)] = Normal(m, order, 1..(k + 1))
    OBVIOUS
  <2> DEFINE T == 1..(k + 1)
  <2>1. T \in SUBSET (1..n) /\ T # {}
    OBVIOUS
  <2>2. Max(T) = k + 1
    <3>1. k + 1 \in T
      OBVIOUS
    <3>2. \A i \in T : i <= k + 1
      OBVIOUS
    <3> HIDE DEF T
    <3>3. Max(T) \in T /\ k + 1 <= Max(T)
      BY <2>1, <3>1, MaxFacts
    <3>4. Max(T) \in Int
      <4>1. \A i \in T : i \in Int
        BY <2>1
      <4>2. QED
        BY <3>3, <4>1
    <3> DEFINE x == Max(T)
    <3>5. x \in Int /\ x <= k + 1 /\ k + 1 <= x
      BY <3>2, <3>3, <3>4
    <3> HIDE DEF x
    <3>6. x = k + 1
      BY <3>5
    <3>7. QED
      BY <3>6 DEF x
  <2>3. (1..(k + 1)) \ {k + 1} = 1..k
    OBVIOUS
  <2>4. maps[1..k] = Normal(m, order, 1..k)
    BY <1>7
  <2> HIDE DEF T
  <2>5. T \ {Max(T)} = 1..k
    BY <2>2, <2>3, Zenon DEF T
  <2>6. maps[T] = Entered(maps[T \ {Max(T)}], m, order[Max(T)])
    BY <1>5, <2>1
  <2>7. Normal(m, order, T) = Entered(Normal(m, order, T \ {Max(T)}), m, order[Max(T)])
    BY <2>1, NormalGrows
  <2>8. maps[T] = Normal(m, order, T)
    BY <2>4, <2>5, <2>6, <2>7, Zenon
  <2>9. QED
    BY <2>8 DEF T
<1>8. n \in Right
  <2> HIDE DEF Right
  <2> QED
    BY <1>6, <1>7, Induction
<1>9. maps[1..n] = Normal(m, order, 1..n)
  BY <1>8
<1>10. QED
  BY <1>2, <1>9, NormalizeIsAFold, Zenon DEF maps, order

\* A normalised map names the known sensors and those that were reported, has
\* for each the state under the last of its spellings, and otherwise the default.
LEMMA NormalizeFacts ==
  ASSUME NEW m, IsSensorMap(m), NEW e, ToSet(e) = DOMAIN m
  PROVE  /\ DOMAIN Normalize(m, e) = DefaultSensors \cup {NormalizeName(raw) : raw \in DOMAIN m}
         /\ \A name \in DefaultSensors : (\A raw \in DOMAIN m : NormalizeName(raw) # name) =>
              Normalize(m, e)[name] = CreateDefault(name)
         /\ \A raw \in DOMAIN m :
              (\A other \in DOMAIN m : NormalizeName(other) = NormalizeName(raw) =>
                 Position[other] <= Position[raw])
              => Normalize(m, e)[NormalizeName(raw)] = m[raw]
<1> DEFINE S == DOMAIN m
           n == Cardinality(S)
           order == OrderByName(e)
           T == 1..n
           map == Normalize(m, e)
<1>1. S \in SUBSET Names /\ IsFiniteSet(S) /\ n \in Nat
  BY FS_CardinalityType DEF IsSensorMap
<1>2. /\ order \in [T -> S]
      /\ \A name \in S : \E i \in T : order[i] = name
      /\ \A i, j \in T : i < j => Position[order[i]] < Position[order[j]]
  BY <1>1, OrderFacts
<1>3. map = Normal(m, order, T)
  BY <1>1, <1>2, NormalizeIsNormal
<1> HIDE DEF S, n, order, T, map
<1>4. {NormalizeName(order[i]) : i \in T} = {NormalizeName(raw) : raw \in S}
  BY <1>2
<1>5. DOMAIN map = DefaultSensors \cup {NormalizeName(raw) : raw \in S}
  BY <1>3, <1>4 DEF Normal
<1>6. \A name \in DOMAIN map :
        map[name] = IF \E i \in T : Means(order, i, name) THEN m[order[LastIndex(order, T, name)]]
                    ELSE CreateDefault(name)
  BY <1>3 DEF Normal
<1>7. ASSUME NEW name \in DefaultSensors, \A raw \in S : NormalizeName(raw) # name
      PROVE  map[name] = CreateDefault(name)
  <2>1. ~\E i \in T : Means(order, i, name)
    BY <1>2, <1>7 DEF Means
  <2>2. QED
    BY <1>5, <1>6, <2>1
<1>8. ASSUME NEW raw \in S,
             \A other \in S : NormalizeName(other) = NormalizeName(raw) => Position[other] <= Position[raw]
      PROVE  map[NormalizeName(raw)] = m[raw]
  <2> DEFINE name == NormalizeName(raw)
  <2>1. PICK i \in T : order[i] = raw
    BY <1>2
  <2>2. Means(order, i, name)
    BY <2>1 DEF Means
  <2> HIDE DEF name
  <2>3. ASSUME NEW j \in T, Means(order, j, name) PROVE j <= i
    <3>1. order[j] \in S /\ order[i] \in S /\ NormalizeName(order[j]) = name
      BY <1>2, <2>3 DEF Means
    <3>2. Position[order[j]] <= Position[order[i]]
      BY <1>8, <2>1, <3>1 DEF name
    <3>3. Position[order[j]] \in Int /\ Position[order[i]] \in Int
      BY <1>1, <3>1, SensorAssumption
    <3>4. ~(i < j)
      BY <1>2, <3>2, <3>3
    <3>5. i \in Int /\ j \in Int
      BY DEF T
    <3>6. QED
      BY <3>4, <3>5
  <2>4. LastIndex(order, T, name) = i
    BY <1>1, <2>2, <2>3, LastFacts DEF T
  <2>5. name \in DOMAIN map
    BY <1>5 DEF name
  <2>6. map[name] = m[order[i]]
    BY <1>6, <2>2, <2>4, <2>5
  <2>7. QED
    BY <2>1, <2>6 DEF name
<1>9. QED
  BY <1>5, <1>7, <1>8 DEF S, map

\* Of the spellings of a sensor, one is ordinally last.
LEMMA LatestSpelling ==
  ASSUME NEW m, IsSensorMap(m), NEW raw \in DOMAIN m
  PROVE  \E last \in DOMAIN m :
           /\ NormalizeName(last) = NormalizeName(raw)
           /\ \A other \in DOMAIN m : NormalizeName(other) = NormalizeName(raw) =>
                Position[other] <= Position[last]
<1> DEFINE S == {other \in DOMAIN m : NormalizeName(other) = NormalizeName(raw)}
<1>1. IsFiniteSet(S) /\ S # {}
  <2>1. S \subseteq DOMAIN m /\ IsFiniteSet(DOMAIN m) /\ raw \in S
    BY DEF IsSensorMap
  <2> HIDE DEF S
  <2>2. QED
    BY <2>1, FS_Subset
<1>2. \A other \in S : Position[other] \in Int
  BY SensorAssumption DEF IsSensorMap
<1>3. \E last \in S : \A other \in S : Position[other] <= Position[last]
  <2> HIDE DEF S
  <2> QED
    BY <1>1, <1>2, LargestValue
<1>4. QED
  BY <1>3

\* Normalised names are names.
LEMMA NamesStayNames ==
  ASSUME NEW raw \in Names
  PROVE  NormalizeName(raw) \in Names
<1>1. {"visual", "audio", "compass"} \subseteq Names /\ Folded[raw] \in Names
  BY SensorAssumption DEF DefaultSensors
<1>2. NormalizeName(raw) \in {"visual", "audio", "compass", Folded[raw]}
  BY DEF NormalizeName
<1>3. QED
  BY <1>1, <1>2

\* A normalised map is a map of sensors.
LEMMA NormalizeKeepsMaps ==
  ASSUME NEW m, IsSensorMap(m), NEW e, ToSet(e) = DOMAIN m
  PROVE  IsSensorMap(Normalize(m, e))
<1> DEFINE map == Normalize(m, e)
           S == DOMAIN m
           new == {NormalizeName(raw) : raw \in S}
           f == [raw \in S |-> NormalizeName(raw)]
<1>1. DOMAIN map = DefaultSensors \cup new
  BY NormalizeFacts
<1>2. new \subseteq Names /\ DefaultSensors \subseteq Names
  BY NamesStayNames, SensorAssumption DEF IsSensorMap
<1>3. IsFiniteSet(DOMAIN map)
  <2>1. f \in Surjection(S, new)
    BY DEF Surjection
  <2>2. IsFiniteSet(S)
    BY DEF IsSensorMap
  <2>3. IsFiniteSet(new)
    <3> HIDE DEF f, S, new
    <3> QED
      BY <2>1, <2>2, FS_Surjection
  <2>4. IsFiniteSet(DefaultSensors)
    <3>1. \A A, x : IsFiniteSet(A) => IsFiniteSet(A \cup {x})
      BY FS_AddElement
    <3>2. DefaultSensors = {} \cup {"visual"} \cup {"audio"} \cup {"motor"} \cup {"movement"}
                              \cup {"compass"} \cup {"spatial"} \cup {"health"}
      BY DEF DefaultSensors
    <3>3. QED
      BY <3>1, <3>2, FS_EmptySet
  <2>5. QED
    BY <1>1, <2>3, <2>4, FS_Union
<1>4. ASSUME NEW name \in DOMAIN map PROVE IsSensor(map[name])
  <2>1. CASE name \in new
    <3>1. PICK raw \in S : NormalizeName(raw) = name
      BY <2>1
    <3>2. PICK last \in S :
            /\ NormalizeName(last) = NormalizeName(raw)
            /\ \A other \in S : NormalizeName(other) = NormalizeName(raw) =>
                 Position[other] <= Position[last]
      BY LatestSpelling
    <3>3. map[NormalizeName(last)] = m[last]
      BY <3>2, NormalizeFacts, ZenonT(40)
    <3>4. QED
      BY <3>1, <3>2, <3>3 DEF IsSensorMap
  <2>2. CASE name \notin new
    <3>1. map[name] = CreateDefault(name)
      BY <1>1, <2>2, NormalizeFacts
    <3>2. IsSensor(CreateDefault(name))
      BY DEF IsSensor, CreateDefault
    <3>3. QED
      BY <3>1, <3>2
  <2>3. QED
    BY <2>1, <2>2
<1>5. QED
  BY <1>1, <1>2, <1>3, <1>4 DEF IsSensorMap

\* The default of a sensor says what its absence says.
LEMMA DefaultsAreSilent ==
  ASSUME NEW m, IsSensorMap(m), NEW e, ToSet(e) = DOMAIN m,
         \A raw \in DOMAIN m : NormalizeName(raw) = raw
  PROVE  LET map == Normalize(m, e) IN
         /\ \A s : Off(map, s) <=> Off(m, s)
         /\ \A s, k : Number(map, s, k) = Number(m, s, k)
         /\ \A s, k : Boolean(map, s, k) <=> Boolean(m, s, k)
         /\ "health" \in DOMAIN map
         /\ "health" \in DOMAIN m => map["health"] = m["health"]
<1> DEFINE map == Normalize(m, e)
<1>1. /\ \A s \in DOMAIN m : s \in DOMAIN map /\ map[s] = m[s]
      /\ "health" \in DOMAIN map
  <2>1. \A s \in DOMAIN m : \A other \in DOMAIN m :
          NormalizeName(other) = NormalizeName(s) => other = s
    OBVIOUS
  <2>2. \A s \in DOMAIN m : Position[s] <= Position[s]
    BY SensorAssumption DEF IsSensorMap
  <2>3. ASSUME NEW s \in DOMAIN m PROVE map[s] = m[s]
    <3>1. \A other \in DOMAIN m : NormalizeName(other) = NormalizeName(s) =>
            Position[other] <= Position[s]
      BY <2>1, <2>2
    <3>2. map[NormalizeName(s)] = m[s]
      BY <3>1, NormalizeFacts, ZenonT(40)
    <3>3. QED
      BY <3>2
  <2>4. DOMAIN map = DefaultSensors \cup {NormalizeName(raw) : raw \in DOMAIN m}
    BY NormalizeFacts
  <2>5. QED
    BY <2>3, <2>4 DEF DefaultSensors
<1>2. \A s : s \in DOMAIN map /\ s \notin DOMAIN m => map[s] = CreateDefault(s)
  <2> SUFFICES ASSUME NEW s \in DOMAIN map, s \notin DOMAIN m PROVE map[s] = CreateDefault(s)
    OBVIOUS
  <2>1. DOMAIN map = DefaultSensors \cup {NormalizeName(raw) : raw \in DOMAIN m}
    BY NormalizeFacts
  <2>2. s \in DefaultSensors /\ \A raw \in DOMAIN m : NormalizeName(raw) # s
    BY <2>1
  <2>3. \A name \in DefaultSensors : (\A raw \in DOMAIN m : NormalizeName(raw) # name) =>
          map[name] = CreateDefault(name)
    BY NormalizeFacts, Zenon
  <2> HIDE DEF map
  <2>4. QED
    BY <2>2, <2>3, Zenon
<1>3. \A s : /\ CreateDefault(s).enabled /\ DOMAIN CreateDefault(s).numbers = {}
             /\ CreateDefault(s).flags = {}
  BY DEF CreateDefault
<1> HIDE DEF map
<1>4. \A s : Off(map, s) <=> Off(m, s)
  BY <1>1, <1>2, <1>3 DEF Off
<1>5. \A s, k : Number(map, s, k) = Number(m, s, k)
  <2> SUFFICES ASSUME NEW s, NEW k PROVE Number(map, s, k) = Number(m, s, k)
    OBVIOUS
  <2>1. CASE s \in DOMAIN m
    BY <1>1, <2>1 DEF Number
  <2>2. CASE s \notin DOMAIN m
    BY <1>2, <1>3, <2>2 DEF Number
  <2>3. QED
    BY <2>1, <2>2
<1>6. \A s, k : Boolean(map, s, k) <=> Boolean(m, s, k)
  <2> SUFFICES ASSUME NEW s, NEW k PROVE Boolean(map, s, k) <=> Boolean(m, s, k)
    OBVIOUS
  <2>1. CASE s \in DOMAIN m
    BY <1>1, <2>1 DEF Boolean
  <2>2. CASE s \notin DOMAIN m
    BY <1>2, <1>3, <2>2 DEF Boolean
  <2>3. QED
    BY <2>1, <2>2
<1>7. QED
  BY <1>1, <1>4, <1>5, <1>6 DEF map

\* So neither the fusion nor the retry changes.
LEMMA NormalizeKeepsDecisions ==
  ASSUME NEW m, IsSensorMap(m), NEW e, ToSet(e) = DOMAIN m,
         \A raw \in DOMAIN m : NormalizeName(raw) = raw
  PROVE  /\ Fuse(Normalize(m, e)) = Fuse(m)
         /\ ResolveRetryIntent(Normalize(m, e)) = ResolveRetryIntent(m)
<1> DEFINE map == Normalize(m, e)
<1>1. /\ \A s : Off(map, s) <=> Off(m, s)
      /\ \A s, k : Number(map, s, k) = Number(m, s, k)
      /\ \A s, k : Boolean(map, s, k) <=> Boolean(m, s, k)
      /\ "health" \in DOMAIN map
      /\ "health" \in DOMAIN m => map["health"] = m["health"]
  BY DefaultsAreSilent
<1> HIDE DEF map
<1>2. \A s, k : NumberIfOn(map, s, k) = NumberIfOn(m, s, k)
  BY <1>1 DEF NumberIfOn
<1>3. CompassBias(map) = CompassBias(m)
  BY <1>2 DEF CompassBias
<1>4. VisualDirection(map) = VisualDirection(m)
  BY <1>2, <1>3 DEF VisualDirection
<1>5. AuditoryCorrection(map) = AuditoryCorrection(m)
  BY <1>1, <1>2 DEF AuditoryCorrection
<1>6. Confidence(map) = Confidence(m)
  BY <1>2 DEF Confidence
<1>7. EventDetected(map) = EventDetected(m)
  BY <1>1, <1>2, <1>4, <1>5, <1>6 DEF EventDetected
<1>8. Fuse(map) = Fuse(m)
  <2>1. CASE Off(m, "spatial")
    BY <1>1, <2>1 DEF Fuse
  <2>2. CASE ~Off(m, "spatial")
    BY <1>1, <1>4, <1>5, <1>6, <1>7, <2>2 DEF Fuse
  <2>3. QED
    BY <2>1, <2>2
<1>9. ResolveRetryIntent(map) = ResolveRetryIntent(m)
  <2>1. CASE "health" \in DOMAIN m
    BY <1>1, <2>1 DEF ResolveRetryIntent
  <2>2. CASE "health" \notin DOMAIN m
    <3>1. Number(map, "health", "zeroScore") = 0 /\ ~Boolean(map, "health", "likelyDead")
      BY <1>1, <2>2 DEF Number, Boolean
    <3>2. Clamp01Of(0) = 0
      BY DEF Clamp01Of, Clamp, AtLeast, AtMost
    <3>3. ResolveRetryIntent(m) = NoRetry
      BY <2>2 DEF ResolveRetryIntent
    <3>4. ~(Clamp01Of(Number(map, "health", "zeroScore")) >= 78)
      BY <3>1, <3>2
    <3>5. ResolveRetryIntent(map) = NoRetry
      BY <3>1, <3>4 DEF ResolveRetryIntent
    <3>6. QED
      BY <3>3, <3>5
  <2>3. QED
    BY <2>1, <2>2
<1>10. QED
  BY <1>8, <1>9 DEF map

-----------------------------------------------------------------------------
(* Frames.                                                                 *)

\* A remainder is what the quotient leaves.
LEMMA RemainderFacts ==
  ASSUME NEW a \in Int, NEW b \in Nat \ {0}
  PROVE  a % b \in 0..(b - 1) /\ a = b * (a \div b) + (a % b)
OBVIOUS

\* Products of natural numbers.
LEMMA ProductFacts ==
  /\ \A a, b, c \in Nat : a <= b => a * c <= b * c
  /\ \A a, b, c \in Nat : a * c < b * c => a < b
  /\ \A a, b \in Nat : a * b \in Nat
  /\ \A a, b \in Nat \ {0} : a * b \in Nat \ {0}
OBVIOUS

\* A column and a row make an index, from which they can be read.
LEMMA CellFacts ==
  ASSUME NEW w \in Nat \ {0}, NEW h \in Nat \ {0}, NEW x \in 0..(w - 1), NEW y \in 0..(h - 1)
  PROVE  /\ y * w + x \in 0..(w * h - 1)
         /\ (y * w + x) % w = x /\ (y * w + x) \div w = y
<1>1. y * w \in Nat /\ x \in Nat
  BY ProductFacts
<1>2. y * w + x < w * h
  <2>1. (y + 1) * w <= h * w
    <3>1. y + 1 \in Nat /\ h \in Nat /\ w \in Nat /\ y + 1 <= h
      OBVIOUS
    <3>2. QED
      BY <3>1, ProductFacts
  <2>2. (y + 1) * w = y * w + w /\ h * w = w * h
    OBVIOUS
  <2>3. QED
    BY <1>1, <2>1, <2>2
<1>3. (y * w + x) \div w = y
  <2>1. w * y = y * w
    OBVIOUS
  <2>2. y * w + x \in Int /\ w * y <= y * w + x /\ y * w + x < w * y + w
    BY <1>1, <2>1
  <2>3. QED
    BY <2>2, QuotientIs
<1>4. (y * w + x) % w = x
  <2>1. y * w + x \in Int
    BY <1>1
  <2>2. y * w + x = w * y + ((y * w + x) % w)
    BY <1>3, <2>1, RemainderFacts
  <2>3. w * y = y * w /\ (y * w + x) % w \in Int
    BY <2>1, RemainderFacts
  <2>4. QED
    BY <1>1, <2>2, <2>3
<1>5. QED
  BY <1>1, <1>2, <1>3, <1>4

\* An index has a column and a row.
LEMMA IndexFacts ==
  ASSUME NEW w \in Nat \ {0}, NEW h \in Nat \ {0}, NEW i \in 0..(w * h - 1)
  PROVE  /\ i % w \in 0..(w - 1) /\ i \div w \in 0..(h - 1)
         /\ i = (i \div w) * w + (i % w)
<1> DEFINE x == i % w
           y == i \div w
<1>1. w * h \in Nat /\ i \in Nat /\ i < w * h
  BY ProductFacts
<1>2. x \in 0..(w - 1) /\ i = w * y + x /\ y \in Int
  BY <1>1, RemainderFacts, QuotientFacts
<1>3. w * y = y * w /\ w * h = h * w
  BY <1>2
<1> HIDE DEF x, y
<1>4. y * w < h * w
  BY <1>1, <1>2, <1>3
<1>5. y >= 0
  <2>1. ASSUME y <= -1 PROVE FALSE
    <3>1. y * w <= (-1) * w
      BY <1>2, <2>1
    <3>2. QED
      BY <1>1, <1>2, <1>3, <3>1
  <2>2. QED
    BY <1>2, <2>1
<1>6. y < h
  BY <1>2, <1>4, <1>5, ProductFacts
<1>7. y \in 0..(h - 1) /\ i = y * w + x
  BY <1>2, <1>3, <1>5, <1>6
<1>8. QED
  BY <1>2, <1>7, Zenon DEF x, y

\* A finite set of integers has a largest and a smallest element.
LEMMA ExtremeFacts ==
  ASSUME NEW S \in SUBSET Int, IsFiniteSet(S), S # {}
  PROVE  /\ Max(S) \in S /\ \A n \in S : n <= Max(S)
         /\ Min(S) \in S /\ \A n \in S : Min(S) <= n
<1>1. \E x \in S : \A y \in S : x >= y
  <2> DEFINE f == [n \in S |-> n]
  <2>1. \A n \in S : f[n] \in Int
    OBVIOUS
  <2>2. \E x \in S : \A y \in S : f[y] <= f[x]
    <3> HIDE DEF f
    <3> QED
      BY <2>1, LargestValue
  <2>3. QED
    BY <2>2
<1>2. \E x \in S : \A y \in S : x <= y
  <2> DEFINE f == [n \in S |-> -n]
  <2>1. \A n \in S : f[n] \in Int
    OBVIOUS
  <2>2. \E x \in S : \A y \in S : f[y] <= f[x]
    <3> HIDE DEF f
    <3> QED
      BY <2>1, LargestValue
  <2>3. QED
    BY <2>2
<1>3. Max(S) \in S /\ \A n \in S : Max(S) >= n
  BY <1>1 DEF Max
<1>4. Min(S) \in S /\ \A n \in S : Min(S) <= n
  BY <1>2 DEF Min
<1>5. QED
  BY <1>3, <1>4

\* An element that bounds a set is its extreme.
LEMMA ExtremeIs ==
  ASSUME NEW S \in SUBSET Int, NEW m \in S
  PROVE  /\ (\A n \in S : n <= m) => Max(S) = m
         /\ (\A n \in S : m <= n) => Min(S) = m
<1>1. ASSUME \A n \in S : n <= m PROVE Max(S) = m
  <2>1. \E x \in S : \A n \in S : x >= n
    BY <1>1
  <2>2. Max(S) \in S /\ \A n \in S : Max(S) >= n
    BY <2>1 DEF Max
  <2>3. Max(S) <= m /\ m <= Max(S) /\ m \in Int /\ Max(S) \in Int
    BY <1>1, <2>2
  <2>4. QED
    BY <2>3
<1>2. ASSUME \A n \in S : m <= n PROVE Min(S) = m
  <2>1. \E x \in S : \A n \in S : x <= n
    BY <1>2
  <2>2. Min(S) \in S /\ \A n \in S : Min(S) <= n
    BY <2>1 DEF Min
  <2>3. Min(S) <= m /\ m <= Min(S) /\ m \in Int /\ Min(S) \in Int
    BY <1>2, <2>2
  <2>4. QED
    BY <2>3
<1>3. QED
  BY <1>1, <1>2

\* A frame has finitely many values, and at least one.
LEMMA FrameFacts ==
  ASSUME NEW f, IsFrame(f)
  PROVE  /\ PixelValues(f) \in SUBSET Int /\ IsFiniteSet(PixelValues(f)) /\ PixelValues(f) # {}
         /\ \A i \in Indexes(f) : f.at[i] \in PixelValues(f)
         /\ 0 \in Indexes(f)
<1>1. f.w * f.h \in Nat \ {0}
  BY ProductFacts DEF IsFrame
<1>2. 0 \in Indexes(f)
  BY <1>1 DEF Indexes
<1>3. IsFiniteSet(Indexes(f))
  BY <1>1, FS_Interval DEF Indexes
<1>4. IsFiniteSet(PixelValues(f))
  <2> DEFINE at == [i \in Indexes(f) |-> f.at[i]]
  <2>1. at \in [Indexes(f) -> PixelValues(f)]
    BY DEF PixelValues
  <2>2. \A v \in PixelValues(f) : \E i \in Indexes(f) : at[i] = v
    BY DEF PixelValues
  <2> HIDE DEF at
  <2>3. at \in Surjection(Indexes(f), PixelValues(f))
    BY <2>1, <2>2 DEF Surjection
  <2>4. QED
    BY <1>3, <2>3, FS_Surjection
<1>5. QED
  BY <1>2, <1>4 DEF PixelValues, IsFrame

-----------------------------------------------------------------------------
(* Pooling.                                                                *)

\* The blocks lie in the frame, and none is empty.
LEMMA BlockFacts ==
  ASSUME NEW size \in Nat \ {0}, NEW out \in Nat \ {0}, NEW o \in 0..(out - 1)
  PROVE  /\ Block(o, size, out) \subseteq 0..(size - 1)
         /\ (o * size) \div out \in Block(o, size, out)
         /\ ((o + 1) * size) \div out <= size
<1> DEFINE first == (o * size) \div out
           next == ((o + 1) * size) \div out
<1>1. o \in Nat /\ o + 1 <= out /\ size \in Nat
  OBVIOUS
<1>2. o * size \in Nat /\ (o + 1) * size \in Nat /\ o * size < out * size /\ (o + 1) * size <= out * size
  <2>1. (o + 1) * size <= out * size /\ o * size \in Nat /\ (o + 1) * size \in Nat
    BY <1>1, ProductFacts
  <2>2. (o + 1) * size = o * size + size
    BY <1>1
  <2>3. QED
    BY <2>1, <2>2
<1>3. first \in Int /\ out * first <= o * size /\ o * size < out * first + out
      /\ next \in Int /\ out * next <= (o + 1) * size
  BY <1>2, QuotientFacts
<1> HIDE DEF first, next
<1>4. first >= 0
  <2>1. ASSUME first <= -1 PROVE FALSE
    <3>1. out * first <= out * (-1)
      BY <1>3, <2>1
    <3>2. QED
      BY <1>2, <1>3, <3>1
  <2>2. QED
    BY <1>3, <2>1
<1>5. out * first < out * size /\ out * next <= out * size
  BY <1>2, <1>3
<1>6. first < size /\ next <= size
  <2>1. \A a, b \in Int : out * a < out * b => a < b
    OBVIOUS
  <2>2. \A a, b \in Int : out * a <= out * b => a <= b
    OBVIOUS
  <2>3. QED
    BY <1>3, <1>5, <2>1, <2>2
<1>7. Block(o, size, out) = first..(AtLeast(first + 1, next) - 1)
  BY DEF Block, first, next
<1>8. first + 1 <= AtLeast(first + 1, next) /\ AtLeast(first + 1, next) <= size /\ AtLeast(first + 1, next) \in Int
  BY <1>3, <1>6 DEF AtLeast
<1>9. first \in Block(o, size, out) /\ Block(o, size, out) \subseteq 0..(size - 1)
  BY <1>3, <1>4, <1>7, <1>8
<1>10. QED
  BY <1>6, <1>9 DEF first, next

\* The blocks leave out nothing.
LEMMA BlocksCover ==
  ASSUME NEW size \in Nat \ {0}, NEW out \in Nat \ {0}, NEW x \in 0..(size - 1)
  PROVE  \E o \in 0..(out - 1) : x \in Block(o, size, out)
<1> DEFINE First(o) == (o * size) \div out
           S == {o \in 0..(out - 1) : First(o) <= x}
<1>1. 0 \in S
  <2>1. 0 * size = 0 /\ out * 0 = 0
    OBVIOUS
  <2>2. First(0) = 0
    BY <2>1, QuotientIs
  <2>3. QED
    BY <2>2
<1>2. S \in SUBSET Int /\ IsFiniteSet(S)
  <2>1. IsFiniteSet(0..(out - 1))
    BY FS_Interval
  <2>2. QED
    BY <2>1, FS_Subset
<1> DEFINE o == Max(S)
<1>3. o \in S /\ \A p \in S : p <= o
  BY <1>1, <1>2, ExtremeFacts
<1> HIDE DEF S
<1>4. o \in 0..(out - 1) /\ First(o) <= x
  BY <1>3 DEF S
<1> HIDE DEF o
<1>5. First(o) \in Int /\ First(o + 1) \in Int
  <2>1. o * size \in Int /\ (o + 1) * size \in Int
    BY <1>4
  <2>2. QED
    BY <2>1, QuotientFacts
<1>6. x < First(o + 1)
  <2>1. CASE o = out - 1
    <3>1. (o + 1) * size = out * size
      BY <2>1
    <3>2. out * size \in Int /\ out * size <= out * size /\ out * size < out * size + out
      OBVIOUS
    <3>3. (out * size) \div out = size
      BY <3>2, QuotientIs
    <3>4. QED
      BY <3>1, <3>3
  <2>2. CASE o # out - 1
    <3>1. o + 1 \in 0..(out - 1)
      BY <1>4, <2>2
    <3>2. o + 1 \notin S
      BY <1>3, <1>4
    <3>3. ~(First(o + 1) <= x)
      BY <3>1, <3>2 DEF S
    <3>4. QED
      BY <1>5, <3>3
  <2>3. QED
    BY <2>1, <2>2
<1>7. x \in First(o)..(AtLeast(First(o) + 1, First(o + 1)) - 1)
  <2> HIDE DEF First
  <2> QED
    BY <1>4, <1>5, <1>6 DEF AtLeast
<1>8. x \in Block(o, size, out)
  BY <1>7 DEF Block
<1>9. QED
  BY <1>4, <1>8

\* A pooled frame is a frame of the asked size with values of the frame, the
\* largest among them.
LEMMA MaxPoolFacts ==
  ASSUME NEW f, IsFrame(f), NEW ow \in Nat \ {0}, NEW oh \in Nat \ {0}
  PROVE  /\ IsFrame(MaxPool(f, ow, oh))
         /\ PixelValues(MaxPool(f, ow, oh)) \subseteq PixelValues(f)
         /\ Max(PixelValues(f)) \in PixelValues(MaxPool(f, ow, oh))
<1> DEFINE g == MaxPool(f, ow, oh)
           Pool(i) == {f.at[y * f.w + x] : x \in Block(i % ow, f.w, ow), y \in Block(i \div ow, f.h, oh)}
           at == [i \in 0..(ow * oh - 1) |-> Max(Pool(i))]
<1>1. f.w \in Nat \ {0} /\ f.h \in Nat \ {0} /\ Indexes(f) = 0..(f.w * f.h - 1)
  BY DEF IsFrame, Indexes
<1>2. g = Frame(ow, oh, at)
  BY DEF MaxPool
<1>3. g.w = ow /\ g.h = oh /\ g.at = at /\ Indexes(g) = 0..(ow * oh - 1) /\ g = Frame(g.w, g.h, g.at)
  <2> HIDE DEF at
  <2> QED
    BY <1>2 DEF Frame, Indexes
<1>4. ASSUME NEW i \in 0..(ow * oh - 1)
      PROVE  /\ Pool(i) \in SUBSET PixelValues(f) /\ Pool(i) \in SUBSET Int /\ IsFiniteSet(Pool(i))
             /\ Pool(i) # {}
             /\ Max(Pool(i)) \in Pool(i) /\ \A n \in Pool(i) : n <= Max(Pool(i))
  <2>1. i % ow \in 0..(ow - 1) /\ i \div ow \in 0..(oh - 1)
    BY IndexFacts
  <2> DEFINE X == Block(i % ow, f.w, ow)
             Y == Block(i \div ow, f.h, oh)
  <2>2. X \subseteq 0..(f.w - 1) /\ Y \subseteq 0..(f.h - 1) /\ X # {} /\ Y # {}
    BY <1>1, <2>1, BlockFacts
  <2> HIDE DEF X, Y
  <2>3. \A x \in X, y \in Y : y * f.w + x \in Indexes(f)
    BY <1>1, <2>2, CellFacts
  <2>4. Pool(i) = {f.at[y * f.w + x] : x \in X, y \in Y}
    BY DEF X, Y
  <2>5. Pool(i) \in SUBSET PixelValues(f) /\ Pool(i) # {}
    <3> DEFINE P == {f.at[y * f.w + x] : x \in X, y \in Y}
    <3>1. \A x \in X, y \in Y : f.at[y * f.w + x] \in PixelValues(f)
      BY <2>3, FrameFacts
    <3>2. P \in SUBSET PixelValues(f)
      BY <3>1
    <3>3. P # {}
      <4>1. PICK x \in X, y \in Y : TRUE
        BY <2>2
      <4>2. f.at[y * f.w + x] \in P
        BY <4>1
      <4> HIDE DEF P
      <4>3. QED
        BY <4>2
    <3> HIDE DEF P, Pool
    <3>4. Pool(i) = P
      BY <2>4 DEF P
    <3>5. QED
      BY <3>2, <3>3, <3>4
  <2> HIDE DEF Pool
  <2>6. Pool(i) \in SUBSET Int /\ IsFiniteSet(Pool(i))
    BY <2>5, FrameFacts, FS_Subset
  <2>7. QED
    BY <2>5, <2>6, ExtremeFacts
<1>5. \A i \in 0..(ow * oh - 1) : at[i] \in PixelValues(f)
  <2> HIDE DEF Pool
  <2> QED
    BY <1>4
<1>6. IsFrame(g)
  <2> HIDE DEF at, g
  <2>1. \A i \in Indexes(g) : g.at[i] \in Int
    BY <1>3, <1>5, FrameFacts
  <2>2. DOMAIN g.at = Indexes(g)
    BY <1>3 DEF at
  <2>3. QED
    BY <1>3, <2>1, <2>2 DEF IsFrame
<1>7. PixelValues(g) \subseteq PixelValues(f)
  <2> HIDE DEF at, g
  <2> QED
    BY <1>3, <1>5 DEF PixelValues
<1>8. Max(PixelValues(f)) \in PixelValues(g)
  <2> DEFINE top == Max(PixelValues(f))
  <2>1. top \in PixelValues(f) /\ top \in Int /\ \A n \in PixelValues(f) : n <= top
    BY FrameFacts, ExtremeFacts
  <2> HIDE DEF top
  <2>2. PICK j \in Indexes(f) : f.at[j] = top
    BY <2>1 DEF PixelValues
  <2>3. j % f.w \in 0..(f.w - 1) /\ j \div f.w \in 0..(f.h - 1) /\ j = (j \div f.w) * f.w + (j % f.w)
    BY <1>1, IndexFacts
  <2>4. PICK x \in 0..(ow - 1) : j % f.w \in Block(x, f.w, ow)
    BY <1>1, <2>3, BlocksCover
  <2>5. PICK y \in 0..(oh - 1) : j \div f.w \in Block(y, f.h, oh)
    BY <1>1, <2>3, BlocksCover
  <2> DEFINE i == y * ow + x
  <2>6. i \in 0..(ow * oh - 1) /\ i % ow = x /\ i \div ow = y
    BY CellFacts
  <2> HIDE DEF i
  <2>7. top \in Pool(i)
    <3>1. Pool(i) = {f.at[v * f.w + u] : u \in Block(x, f.w, ow), v \in Block(y, f.h, oh)}
      BY <2>6
    <3>2. f.at[(j \div f.w) * f.w + (j % f.w)] = top
      BY <2>2, <2>3
    <3> DEFINE P == {f.at[v * f.w + u] : u \in Block(x, f.w, ow), v \in Block(y, f.h, oh)}
    <3>3. f.at[(j \div f.w) * f.w + (j % f.w)] \in P
      BY <2>4, <2>5
    <3> HIDE DEF Pool, P
    <3>4. Pool(i) = P
      BY <3>1 DEF P
    <3>5. QED
      BY <3>2, <3>3, <3>4
  <2>8. /\ Pool(i) \in SUBSET PixelValues(f)
        /\ Max(Pool(i)) \in Pool(i) /\ \A n \in Pool(i) : n <= Max(Pool(i))
    <3> HIDE DEF Pool
    <3> QED
      BY <1>4, <2>6
  <2> HIDE DEF Pool
  <2>9. Max(Pool(i)) <= top /\ top <= Max(Pool(i)) /\ Max(Pool(i)) \in Int
    BY <2>1, <2>7, <2>8, FrameFacts
  <2>10. Max(Pool(i)) = top
    BY <2>1, <2>9
  <2>11. g.at[i] = top
    BY <1>3, <2>6, <2>10
  <2> HIDE DEF g
  <2>12. top \in PixelValues(g)
    BY <1>3, <2>6, <2>11 DEF PixelValues
  <2>13. QED
    BY <2>12 DEF top
<1>9. QED
  BY <1>6, <1>7, <1>8

\* The peak of a pooled frame is that of the frame.
LEMMA PeaksSurvive ==
  ASSUME NEW f, IsFrame(f), NEW ow \in Nat \ {0}, NEW oh \in Nat \ {0}
  PROVE  Max(PixelValues(MaxPool(f, ow, oh))) = Max(PixelValues(f))
<1> DEFINE g == MaxPool(f, ow, oh)
           top == Max(PixelValues(f))
<1>1. PixelValues(g) \subseteq PixelValues(f) /\ top \in PixelValues(g)
  BY MaxPoolFacts
<1>2. PixelValues(f) \in SUBSET Int /\ \A n \in PixelValues(f) : n <= top
  BY FrameFacts, ExtremeFacts
<1> HIDE DEF g, top
<1>3. Max(PixelValues(g)) = top
  BY <1>1, <1>2, ExtremeIs
<1>4. QED
  BY <1>3 DEF g, top

-----------------------------------------------------------------------------
(* Filters.                                                                *)

\* Rounding stays between integers.
LEMMA RoundDivBounds ==
  ASSUME NEW a \in Int, NEW b \in Nat \ {0}, NEW lo \in Int, NEW hi \in Int, b * lo <= a, a <= b * hi
  PROVE  RoundDiv(a, b) \in Int /\ lo <= RoundDiv(a, b) /\ RoundDiv(a, b) <= hi
<1>1. ASSUME NEW n \in Nat, NEW l \in Int, NEW u \in Int, b * l <= n, n <= b * u
      PROVE  l <= RoundDiv(n, b) /\ RoundDiv(n, b) <= u
  <2> DEFINE q == (2 * n + b) \div (2 * b)
  <2>1. 2 * b \in Nat \ {0} /\ 2 * n + b \in Int
    OBVIOUS
  <2>2. q \in Int /\ (2 * b) * q <= 2 * n + b /\ 2 * n + b < (2 * b) * q + 2 * b
    BY <2>1, QuotientFacts
  <2>3. RoundDiv(n, b) = q
    BY DEF RoundDiv
  <2> HIDE DEF q
  <2>4. b * q < b * (u + 1) /\ b * l < b * (q + 1)
    <3>1. (2 * b) * q = 2 * (b * q) /\ b * (u + 1) = b * u + b /\ b * (q + 1) = b * q + b
      BY <2>2
    <3>2. b * q \in Int /\ b * u \in Int /\ b * l \in Int
      BY <2>2
    <3>3. QED
      BY <1>1, <2>2, <3>1, <3>2
  <2>5. \A x, y \in Int : b * x < b * y => x < y
    OBVIOUS
  <2>6. q < u + 1 /\ l < q + 1
    BY <2>2, <2>4, <2>5
  <2>7. QED
    BY <2>2, <2>3, <2>6
<1>2. RoundDiv(a, b) \in Int /\ RoundDiv(-a, b) = -RoundDiv(a, b)
  BY RoundDivIsOdd
<1>3. CASE a >= 0
  BY <1>1, <1>2, <1>3
<1>4. CASE a < 0
  <2>1. -a \in Nat /\ -hi \in Int /\ -lo \in Int /\ b * (-hi) <= -a /\ -a <= b * (-lo)
    <3>1. b * (-hi) = -(b * hi) /\ b * (-lo) = -(b * lo) /\ b * hi \in Int /\ b * lo \in Int
      OBVIOUS
    <3>2. QED
      BY <1>4, <3>1
  <2>2. -hi <= RoundDiv(-a, b) /\ RoundDiv(-a, b) <= -lo
    BY <1>1, <2>1
  <2>3. QED
    BY <1>2, <2>2
<1>5. QED
  BY <1>3, <1>4

\* An average of two numbers lies between any bounds of them.
LEMMA AveragesStayBetween ==
  ASSUME NEW previous \in Int, NEW current \in Int, NEW alpha \in Int, NEW lo \in Int, NEW hi \in Int,
         lo <= previous, previous <= hi, lo <= current, current <= hi
  PROVE  /\ ApplyEma(previous, current, alpha) \in Int
         /\ lo <= ApplyEma(previous, current, alpha) /\ ApplyEma(previous, current, alpha) <= hi
<1> DEFINE k == Clamp01(alpha)
           n == previous * (100 - k) + current * k
<1>1. k \in Nat /\ 100 - k \in Nat
  BY DEF Clamp01, Clamp, AtLeast, AtMost
<1>2. ApplyEma(previous, current, alpha) = RoundDiv(n, 100)
  BY DEF ApplyEma
<1> HIDE DEF k
<1>3. \A x, y \in Int, c \in Nat : x <= y => x * c <= y * c
  OBVIOUS
<1>4. /\ lo * (100 - k) <= previous * (100 - k) /\ previous * (100 - k) <= hi * (100 - k)
      /\ lo * k <= current * k /\ current * k <= hi * k
  BY <1>1, <1>3
<1>5. lo * (100 - k) = 100 * lo - lo * k /\ hi * (100 - k) = 100 * hi - hi * k
  BY <1>1
<1>6. previous * (100 - k) \in Int /\ current * k \in Int /\ lo * k \in Int /\ hi * k \in Int
  BY <1>1
<1>7. n \in Int /\ 100 * lo <= n /\ n <= 100 * hi
  BY <1>4, <1>5, <1>6
<1> HIDE DEF n
<1>9. RoundDiv(n, 100) \in Int /\ lo <= RoundDiv(n, 100) /\ RoundDiv(n, 100) <= hi
  BY <1>7, RoundDivBounds
<1>8. QED
  BY <1>2, <1>9

\* A leaky integrator holds no more than before and what was put in.
LEMMA LeaksAddNothing ==
  ASSUME NEW previous \in Int, NEW impulse \in Int, NEW leakRate \in Int, NEW maxValue \in Int
  PROVE  ApplyLeakyIntegrator(previous, impulse, leakRate, maxValue)
           <= AtLeast(0, previous) + AtLeast(0, impulse)
<1> DEFINE k == 100 - Clamp01(leakRate)
           n == previous * k + 100 * impulse
           top == 100 * AtLeast(0, maxValue)
           most == AtLeast(0, previous) + AtLeast(0, impulse)
<1>1. k \in Nat /\ k <= 100 /\ top \in Nat
  BY DEF Clamp01, Clamp, AtLeast, AtMost
<1>2. ApplyLeakyIntegrator(previous, impulse, leakRate, maxValue) = RoundDiv(Clamp(n, 0, top), 100)
  BY DEF ApplyLeakyIntegrator
<1> HIDE DEF k, top
<1>3. previous * k <= 100 * AtLeast(0, previous)
  <2>1. CASE previous >= 0
    <3>1. previous * k <= previous * 100
      BY <1>1, <2>1, ProductFacts
    <3>2. QED
      BY <2>1, <3>1 DEF AtLeast
  <2>2. CASE previous < 0
    <3>1. previous * k <= 0 * k
      <4>1. \A x, y \in Int, c \in Nat : x <= y => x * c <= y * c
        OBVIOUS
      <4>2. QED
        BY <1>1, <2>2, <4>1
    <3>2. 0 * k = 0
      BY <1>1
    <3>3. QED
      BY <2>2, <3>1, <3>2 DEF AtLeast
  <2>3. QED
    BY <2>1, <2>2
<1>4. previous * k \in Int
  BY <1>1
<1>5. n \in Int /\ n <= 100 * most /\ most \in Nat
  BY <1>3, <1>4 DEF AtLeast
<1> HIDE DEF n, most
<1>6. Clamp(n, 0, top) \in Int /\ 100 * 0 <= Clamp(n, 0, top) /\ Clamp(n, 0, top) <= 100 * most
  BY <1>1, <1>5 DEF Clamp, AtLeast, AtMost
<1>7. RoundDiv(Clamp(n, 0, top), 100) <= most
  BY <1>5, <1>6, RoundDivBounds
<1>8. QED
  BY <1>2, <1>7 DEF most

-----------------------------------------------------------------------------
(* Palettes.                                                               *)

\* Distances of colours are natural numbers, and 0 for the same colour only.
LEMMA DistanceFacts ==
  ASSUME NEW c, NEW d, IsColour(c), IsColour(d)
  PROVE  /\ RgbDistance(c, d) \in Nat
         /\ RgbDistance(c, d) = 0 <=> c.r = d.r /\ c.g = d.g /\ c.b = d.b
<1>1. \A n \in Int : n * n \in Nat /\ (n * n = 0 <=> n = 0)
  OBVIOUS
<1> DEFINE x == c.r - d.r
           y == c.g - d.g
           z == c.b - d.b
<1>0. c.r \in Int /\ c.g \in Int /\ c.b \in Int /\ d.r \in Int /\ d.g \in Int /\ d.b \in Int
  BY SMTT(40) DEF IsColour
<1>2. x \in Int /\ y \in Int /\ z \in Int
  BY <1>0
<1>3. RgbDistance(c, d) = x * x + y * y + z * z
  BY DEF RgbDistance
<1>4. (x = 0 <=> c.r = d.r) /\ (y = 0 <=> c.g = d.g) /\ (z = 0 <=> c.b = d.b)
  BY <1>0
<1> HIDE DEF x, y, z
<1>5. /\ x * x \in Nat /\ y * y \in Nat /\ z * z \in Nat
      /\ x * x = 0 <=> x = 0
      /\ y * y = 0 <=> y = 0
      /\ z * z = 0 <=> z = 0
  BY <1>1, <1>2
<1>6. \A p, q, r \in Nat : p + q + r \in Nat /\ (p + q + r = 0 <=> p = 0 /\ q = 0 /\ r = 0)
  OBVIOUS
<1>7. x * x + y * y + z * z \in Nat /\ (x * x + y * y + z * z = 0 <=> x = 0 /\ y = 0 /\ z = 0)
  <2>1. \A p, q, r : p \in Nat /\ q \in Nat /\ r \in Nat =>
          p + q + r \in Nat /\ (p + q + r = 0 <=> p = 0 /\ q = 0 /\ r = 0)
    BY <1>6
  <2> DEFINE p == x * x
             q == y * y
             r == z * z
  <2>2. /\ p \in Nat /\ q \in Nat /\ r \in Nat
        /\ p = 0 <=> x = 0
        /\ q = 0 <=> y = 0
        /\ r = 0 <=> z = 0
    BY <1>5
  <2> HIDE DEF p, q, r
  <2>3. p + q + r \in Nat /\ (p + q + r = 0 <=> x = 0 /\ y = 0 /\ z = 0)
    BY <2>1, <2>2
  <2>4. QED
    BY <2>3 DEF p, q, r
<1>8. QED
  BY <1>3, <1>4, <1>7

\* The entry that a colour is quantised to.
Closest(j, c, palette) ==
  \A k \in DOMAIN palette :
    \/ RgbDistance(c, palette[j]) < RgbDistance(c, palette[k])
    \/ RgbDistance(c, palette[j]) = RgbDistance(c, palette[k]) /\ j <= k

\* There is a closest entry, and only one.
LEMMA ClosestFacts ==
  ASSUME NEW c, IsColour(c), NEW n \in Nat \ {0}, NEW palette, DOMAIN palette = 1..n,
         \A j \in 1..n : IsColour(palette[j])
  PROVE  /\ \E j \in DOMAIN palette : Closest(j, c, palette)
         /\ \A j, k \in DOMAIN palette : Closest(j, c, palette) /\ Closest(k, c, palette) => j = k
<1> DEFINE D(j) == RgbDistance(c, palette[j])
<1>1. \A j \in 1..n : D(j) \in Nat
  BY DistanceFacts
<1>2. \E j \in DOMAIN palette : Closest(j, c, palette)
  <2> DEFINE S == {D(j) : j \in 1..n}
  <2>1. S \in SUBSET Nat /\ S # {}
    <3>1. 1 \in 1..n
      OBVIOUS
    <3>2. D(1) \in S
      BY <3>1
    <3> HIDE DEF D
    <3>3. QED
      BY <1>1, <3>2
  <2>2. PICK m \in S : \A d \in S : m <= d
    <3> HIDE DEF S
    <3> QED
      BY <2>1, NatMinimum
  <2> DEFINE T == {j \in 1..n : D(j) = m}
  <2>3. T \in SUBSET Nat /\ T # {}
    BY <2>2
  <2>4. PICK j \in T : \A k \in T : j <= k
    <3> HIDE DEF T
    <3> QED
      BY <2>3, NatMinimum
  <2>5. j \in 1..n /\ D(j) = m /\ \A k \in 1..n : m <= D(k) /\ (D(k) = m => j <= k)
    BY <2>2, <2>4
  <2> HIDE DEF D
  <2>6. m \in Nat
    BY <1>1, <2>5
  <2>7. \A k \in 1..n : D(j) < D(k) \/ (D(j) = D(k) /\ j <= k)
    BY <1>1, <2>5, <2>6
  <2>8. QED
    BY <2>5, <2>7 DEF D, Closest
<1>3. ASSUME NEW j \in 1..n, NEW k \in 1..n, Closest(j, c, palette), Closest(k, c, palette)
      PROVE  j = k
  <2>1. D(j) < D(k) \/ (D(j) = D(k) /\ j <= k)
    BY <1>3 DEF Closest
  <2>2. D(k) < D(j) \/ (D(k) = D(j) /\ k <= j)
    BY <1>3 DEF Closest
  <2> HIDE DEF D
  <2>3. QED
    BY <1>1, <2>1, <2>2
<1>4. QED
  BY <1>2, <1>3

\* A quantised colour is the index of its closest entry, or 0.
LEMMA PaletteFacts ==
  ASSUME NEW colours, NEW i \in DOMAIN colours, IsColour(colours[i]),
         NEW n \in Nat \ {0}, NEW palette, DOMAIN palette = 1..n,
         \A j \in 1..n : IsColour(palette[j]),
         NEW best \in 1..n, Closest(best, colours[i], palette)
  PROVE  QuantizeSemanticPalette(colours, palette)[i]
           = IF RgbDistance(colours[i], palette[best])
                  <= AtLeast(0, palette[best].tolerance) * AtLeast(0, palette[best].tolerance)
             THEN best ELSE 0
<1> DEFINE c == colours[i]
           b == CHOOSE j \in DOMAIN palette : Closest(j, c, palette)
<1>1. b \in DOMAIN palette /\ Closest(b, c, palette)
  BY ClosestFacts
<1>2. b = best
  BY <1>1, ClosestFacts
<1>3. QuantizeSemanticPalette(colours, palette)[i]
        = IF RgbDistance(c, palette[b])
               <= AtLeast(0, palette[b].tolerance) * AtLeast(0, palette[b].tolerance)
          THEN b ELSE 0
  BY DEF QuantizeSemanticPalette, Closest
<1> HIDE DEF b
<1>4. QED
  BY <1>2, <1>3

\* An image that is painted with the colours it was quantised to.
Painted(colours, palette) ==
  [i \in DOMAIN colours |->
     IF QuantizeSemanticPalette(colours, palette)[i] = 0 THEN colours[i]
     ELSE palette[QuantizeSemanticPalette(colours, palette)[i]]]

\* It is quantised to the same colours.
LEMMA PaletteIsIdempotent ==
  ASSUME NEW colours, \A i \in DOMAIN colours : IsColour(colours[i]),
         NEW n \in Nat \ {0}, NEW palette, DOMAIN palette = 1..n,
         \A j \in 1..n : IsColour(palette[j]) /\ palette[j].tolerance \in Int
  PROVE  QuantizeSemanticPalette(Painted(colours, palette), palette)
           = QuantizeSemanticPalette(colours, palette)
<1> DEFINE painted == Painted(colours, palette)
           Q(x) == QuantizeSemanticPalette(x, palette)
<1>1. DOMAIN Q(painted) = DOMAIN painted /\ DOMAIN Q(colours) = DOMAIN colours
      /\ DOMAIN painted = DOMAIN colours
      /\ Q(painted) = [i \in DOMAIN colours |-> Q(painted)[i]]
      /\ Q(colours) = [i \in DOMAIN colours |-> Q(colours)[i]]
  <2>1. DOMAIN painted = DOMAIN colours
    BY DEF Painted
  <2>2. ASSUME NEW x
        PROVE  DOMAIN Q(x) = DOMAIN x /\ Q(x) = [i \in DOMAIN x |-> Q(x)[i]]
    BY DEF QuantizeSemanticPalette
  <2> HIDE DEF painted
  <2>3. QED
    BY <2>1, <2>2
<1>2. ASSUME NEW i \in DOMAIN colours PROVE Q(painted)[i] = Q(colours)[i]
  <2> DEFINE c == colours[i]
  <2>1. IsColour(c)
    OBVIOUS
  <2>2. PICK best \in 1..n : Closest(best, c, palette)
    BY ClosestFacts
  <2> DEFINE Fits(d, j) == RgbDistance(d, palette[j])
                             <= AtLeast(0, palette[j].tolerance) * AtLeast(0, palette[j].tolerance)
  <2>3. Q(colours)[i] = IF Fits(c, best) THEN best ELSE 0
    BY <2>2, PaletteFacts
  <2>4. CASE ~Fits(c, best)
    <3>1. Q(colours)[i] = 0
      BY <2>3, <2>4
    <3>2. painted[i] = c
      BY <3>1 DEF Painted
    <3>3. Q(painted)[i] = IF Fits(c, best) THEN best ELSE 0
      BY <1>1, <2>2, <3>2, PaletteFacts
    <3>4. QED
      BY <2>4, <3>1, <3>3
  <2>5. CASE Fits(c, best)
    <3> DEFINE d == palette[best]
    <3>1. Q(colours)[i] = best /\ best # 0
      BY <2>3, <2>5
    <3>2. painted[i] = d
      BY <3>1 DEF Painted
    <3>3. IsColour(d) /\ RgbDistance(d, d) = 0 /\ d.tolerance \in Int
      BY DistanceFacts
    <3>4. Closest(best, d, palette)
      <4> SUFFICES ASSUME NEW k \in 1..n
                   PROVE  \/ RgbDistance(d, d) < RgbDistance(d, palette[k])
                          \/ RgbDistance(d, d) = RgbDistance(d, palette[k]) /\ best <= k
        BY DEF Closest
      <4>1. RgbDistance(d, palette[k]) \in Nat
        BY <3>3, DistanceFacts
      <4>2. CASE RgbDistance(d, palette[k]) # 0
        BY <3>3, <4>1, <4>2
      <4>3. CASE RgbDistance(d, palette[k]) = 0
        <5>1. d.r = palette[k].r /\ d.g = palette[k].g /\ d.b = palette[k].b
          BY <3>3, <4>3, DistanceFacts
        <5>2. RgbDistance(c, palette[best]) = RgbDistance(c, palette[k])
          BY <5>1 DEF RgbDistance
        <5>3. \/ RgbDistance(c, palette[best]) < RgbDistance(c, palette[k])
              \/ RgbDistance(c, palette[best]) = RgbDistance(c, palette[k]) /\ best <= k
          BY <2>2 DEF Closest
        <5>4. RgbDistance(c, palette[k]) \in Nat
          BY <2>1, DistanceFacts
        <5>5. best <= k
          BY <5>2, <5>3, <5>4
        <5>6. QED
          BY <3>3, <4>3, <5>5
      <4>4. QED
        BY <4>2, <4>3
    <3>5. Q(painted)[i] = IF Fits(d, best) THEN best ELSE 0
      BY <1>1, <3>2, <3>3, <3>4, PaletteFacts
    <3>6. Fits(d, best)
      <4>1. AtLeast(0, d.tolerance) \in Nat
        BY <3>3 DEF AtLeast
      <4>2. \A t \in Nat : 0 <= t * t
        OBVIOUS
      <4>3. QED
        BY <3>3, <4>1, <4>2
    <3>7. QED
      BY <3>1, <3>5, <3>6
  <2>6. QED
    BY <2>4, <2>5
<1> DEFINE new == Q(painted)
           old == Q(colours)
<1>3. /\ new = [i \in DOMAIN colours |-> new[i]]
      /\ old = [i \in DOMAIN colours |-> old[i]]
      /\ \A i \in DOMAIN colours : new[i] = old[i]
  BY <1>1, <1>2
<1> HIDE DEF new, old
<1>4. new = old
  BY <1>3
<1>5. QED
  BY <1>4 DEF new, old

-----------------------------------------------------------------------------
(* Frequency bands.                                                        *)

\* A sum over two sets without a common element.
LEMMA SumOfUnion ==
  ASSUME NEW S, IsFiniteSet(S), NEW R, IsFiniteSet(R), S \cap R = {},
         NEW f, \A x \in S \cup R : f[x] \in Int
  PROVE  SumOver(f, S \cup R) = SumOver(f, S) + SumOver(f, R)
<1> DEFINE Good == {T \in SUBSET R : SumOver(f, S \cup T) = SumOver(f, S) + SumOver(f, T)}
<1>1. \A T \in SUBSET R : IsFiniteSet(T) /\ IsFiniteSet(S \cup T)
  BY FS_Subset, FS_Union
<1>2. \A T \in SUBSET R : SumOver(f, T) \in Int
  BY <1>1, SumSplits
<1>3. SumOver(f, S) \in Int
  BY SumSplits
<1>4. {} \in Good
  <2>1. S \cup {} = S
    OBVIOUS
  <2>2. QED
    BY <1>3, <2>1, SumOfNone
<1>5. \A T \in SUBSET R, x \in R : T \in Good /\ x \notin T => T \cup {x} \in Good
  <2> SUFFICES ASSUME NEW T \in SUBSET R, NEW x \in R, T \in Good, x \notin T
               PROVE  T \cup {x} \in Good
    OBVIOUS
  <2>1. S \cup (T \cup {x}) = (S \cup T) \cup {x} /\ x \notin S \cup T
    OBVIOUS
  <2>2. SumOver(f, (S \cup T) \cup {x}) = SumOver(f, S \cup T) + f[x]
    <3>1. \A y \in (S \cup T) \cup {x} : f[y] \in Int
      OBVIOUS
    <3>2. QED
      BY <1>1, <2>1, <3>1, SumGrows
  <2>3. SumOver(f, T \cup {x}) = SumOver(f, T) + f[x]
    <3>1. \A y \in T \cup {x} : f[y] \in Int
      OBVIOUS
    <3>2. QED
      BY <1>1, <3>1, SumGrows
  <2>4. SumOver(f, S \cup T) = SumOver(f, S) + SumOver(f, T)
    OBVIOUS
  <2>5. f[x] \in Int
    OBVIOUS
  <2>6. SumOver(f, S \cup (T \cup {x})) = SumOver(f, S) + SumOver(f, T \cup {x})
    <3>1. SumOver(f, S \cup (T \cup {x})) = SumOver(f, (S \cup T) \cup {x})
      BY <2>1, Zenon
    <3>2. SumOver(f, S) \in Int /\ SumOver(f, T) \in Int
      BY <1>2, <1>3
    <3>3. QED
      BY <2>2, <2>3, <2>4, <2>5, <3>1, <3>2
  <2>7. QED
    BY <2>6
<1>6. R \in Good
  <2> HIDE DEF Good
  <2> QED
    BY <1>4, <1>5, SetInduction
<1>7. QED
  BY <1>6

\* A sum with one more term at its end.
LEMMA SumOfNext ==
  ASSUME NEW n \in Nat, NEW f, \A i \in 1..(n + 1) : f[i] \in Int
  PROVE  SumOver(f, 1..(n + 1)) = SumOver(f, 1..n) + f[n + 1]
<1>1. 1..(n + 1) = (1..n) \cup {n + 1} /\ n + 1 \notin 1..n
  OBVIOUS
<1>2. IsFiniteSet(1..n)
  BY FS_Interval
<1>3. \A i \in (1..n) \cup {n + 1} : f[i] \in Int
  BY <1>1
<1> DEFINE S == 1..n
           x == n + 1
<1>4. IsFiniteSet(S) /\ x \notin S /\ \A i \in S \cup {x} : f[i] \in Int
  BY <1>1, <1>2, <1>3
<1> HIDE DEF S, x
<1>5. SumOver(f, S \cup {x}) = SumOver(f, S) + f[x]
  BY <1>4, SumGrows
<1>6. QED
  BY <1>1, <1>5 DEF S, x

\* The sums that are written out.
LEMMA SumOfFour ==
  ASSUME NEW f, f[1] \in Int, f[2] \in Int, f[3] \in Int, f[4] \in Int
  PROVE  SumOver(f, 1..4) = f[1] + f[2] + f[3] + f[4]
<1>1. SumOver(f, 1..0) = 0
  <2>1. 1..0 = {}
    OBVIOUS
  <2>2. QED
    BY <2>1, SumOfNone
<1>2. ASSUME NEW n \in 0..3 PROVE SumOver(f, 1..(n + 1)) = SumOver(f, 1..n) + f[n + 1]
  <2>1. n \in Nat /\ \A i \in 1..(n + 1) : f[i] \in Int
    OBVIOUS
  <2>2. QED
    BY <2>1, SumOfNext
<1>3. /\ SumOver(f, 1..1) = SumOver(f, 1..0) + f[1]
      /\ SumOver(f, 1..2) = SumOver(f, 1..1) + f[2]
      /\ SumOver(f, 1..3) = SumOver(f, 1..2) + f[3]
      /\ SumOver(f, 1..4) = SumOver(f, 1..3) + f[4]
  <2>1. \A n \in 0..3 : SumOver(f, 1..(n + 1)) = SumOver(f, 1..n) + f[n + 1]
    BY <1>2
  <2>2. 0 + 1 = 1 /\ 1 + 1 = 2 /\ 2 + 1 = 3 /\ 3 + 1 = 4 /\ {0, 1, 2, 3} \subseteq 0..3
    OBVIOUS
  <2>3. QED
    BY <2>1, <2>2
<1>4. QED
  BY <1>1, <1>3

\* Those of eight terms.
LEMMA SumOfEight ==
  ASSUME NEW f, f[1] \in Int, f[2] \in Int, f[3] \in Int, f[4] \in Int,
                f[5] \in Int, f[6] \in Int, f[7] \in Int, f[8] \in Int,
         DOMAIN f = 1..8
  PROVE  SumFunction(f) = f[1] + f[2] + f[3] + f[4] + f[5] + f[6] + f[7] + f[8]
<1>1. SumOver(f, 1..4) = f[1] + f[2] + f[3] + f[4]
  BY SumOfFour
<1>2. ASSUME NEW n \in 4..7 PROVE SumOver(f, 1..(n + 1)) = SumOver(f, 1..n) + f[n + 1]
  <2>1. n \in Nat /\ \A i \in 1..(n + 1) : f[i] \in Int
    OBVIOUS
  <2>2. QED
    BY <2>1, SumOfNext
<1>3. /\ SumOver(f, 1..5) = SumOver(f, 1..4) + f[5]
      /\ SumOver(f, 1..6) = SumOver(f, 1..5) + f[6]
      /\ SumOver(f, 1..7) = SumOver(f, 1..6) + f[7]
      /\ SumOver(f, 1..8) = SumOver(f, 1..7) + f[8]
  <2>1. \A n \in 4..7 : SumOver(f, 1..(n + 1)) = SumOver(f, 1..n) + f[n + 1]
    BY <1>2
  <2>2. 4 + 1 = 5 /\ 5 + 1 = 6 /\ 6 + 1 = 7 /\ 7 + 1 = 8 /\ {4, 5, 6, 7} \subseteq 4..7
    OBVIOUS
  <2>3. QED
    BY <2>1, <2>2
<1>4. SumOver(f, 1..8) = f[1] + f[2] + f[3] + f[4] + f[5] + f[6] + f[7] + f[8]
  BY <1>1, <1>3
<1>5. SumFunction(f) = SumOver(f, 1..8)
  BY DEF SumFunction, SumOver
<1>6. QED
  BY <1>4, <1>5

\* The cosine and the sine of a bin, each as a number and one of which 1/sqrt(2)
\* is to be taken.
Transform(x, bin, shift, part) ==
  SumFunction([i \in 1..FrameCount |-> x[i] * Cosine(bin * (i - 1) + shift)[part]])

\* The first bin.
LEMMA FirstBin ==
  ASSUME NEW x, x[1] \in Int, x[2] \in Int, x[3] \in Int, x[4] \in Int,
                x[5] \in Int, x[6] \in Int, x[7] \in Int, x[8] \in Int
  PROVE  /\ Transform(x, 1, 0, 1) = x[1] - x[5]
         /\ Transform(x, 1, 0, 2) = x[2] - x[4] - x[6] + x[8]
         /\ Transform(x, 1, 2, 1) = 0 - x[3] + x[7]
         /\ Transform(x, 1, 2, 2) = 0 - x[2] - x[4] + x[6] + x[8]
<1>1. Transform(x, 1, 0, 1) = x[1] - x[5]
  <2> DEFINE f == [i \in 1..FrameCount |-> x[i] * Cosine(1 * (i - 1) + 0)[1]]
  <2>1. /\ f[1] = x[1] /\ f[2] = 0 /\ f[3] = 0 /\ f[4] = 0
        /\ f[5] = 0 - x[5] /\ f[6] = 0 /\ f[7] = 0 /\ f[8] = 0
    BY DEF Cosine, FrameCount
  <2>2. DOMAIN f = 1..8
    BY DEF FrameCount
  <2> HIDE DEF f
  <2>3. /\ f[1] \in Int /\ f[2] \in Int /\ f[3] \in Int /\ f[4] \in Int
        /\ f[5] \in Int /\ f[6] \in Int /\ f[7] \in Int /\ f[8] \in Int
    BY <2>1
  <2>4. SumFunction(f) = f[1] + f[2] + f[3] + f[4] + f[5] + f[6] + f[7] + f[8]
    BY <2>2, <2>3, SumOfEight
  <2>5. SumFunction(f) = x[1] - x[5]
    BY <2>1, <2>4
  <2>6. QED
    BY <2>5 DEF f, Transform
<1>2. Transform(x, 1, 0, 2) = x[2] - x[4] - x[6] + x[8]
  <2> DEFINE f == [i \in 1..FrameCount |-> x[i] * Cosine(1 * (i - 1) + 0)[2]]
  <2>1. /\ f[1] = 0 /\ f[2] = x[2] /\ f[3] = 0 /\ f[4] = 0 - x[4]
        /\ f[5] = 0 /\ f[6] = 0 - x[6] /\ f[7] = 0 /\ f[8] = x[8]
    BY DEF Cosine, FrameCount
  <2>2. DOMAIN f = 1..8
    BY DEF FrameCount
  <2> HIDE DEF f
  <2>3. /\ f[1] \in Int /\ f[2] \in Int /\ f[3] \in Int /\ f[4] \in Int
        /\ f[5] \in Int /\ f[6] \in Int /\ f[7] \in Int /\ f[8] \in Int
    BY <2>1
  <2>4. SumFunction(f) = f[1] + f[2] + f[3] + f[4] + f[5] + f[6] + f[7] + f[8]
    BY <2>2, <2>3, SumOfEight
  <2>5. SumFunction(f) = x[2] - x[4] - x[6] + x[8]
    BY <2>1, <2>4
  <2>6. QED
    BY <2>5 DEF f, Transform
<1>3. Transform(x, 1, 2, 1) = 0 - x[3] + x[7]
  <2> DEFINE f == [i \in 1..FrameCount |-> x[i] * Cosine(1 * (i - 1) + 2)[1]]
  <2>1. /\ f[1] = 0 /\ f[2] = 0 /\ f[3] = 0 - x[3] /\ f[4] = 0
        /\ f[5] = 0 /\ f[6] = 0 /\ f[7] = x[7] /\ f[8] = 0
    BY DEF Cosine, FrameCount
  <2>2. DOMAIN f = 1..8
    BY DEF FrameCount
  <2> HIDE DEF f
  <2>3. /\ f[1] \in Int /\ f[2] \in Int /\ f[3] \in Int /\ f[4] \in Int
        /\ f[5] \in Int /\ f[6] \in Int /\ f[7] \in Int /\ f[8] \in Int
    BY <2>1
  <2>4. SumFunction(f) = f[1] + f[2] + f[3] + f[4] + f[5] + f[6] + f[7] + f[8]
    BY <2>2, <2>3, SumOfEight
  <2>5. SumFunction(f) = 0 - x[3] + x[7]
    BY <2>1, <2>4
  <2>6. QED
    BY <2>5 DEF f, Transform
<1>4. Transform(x, 1, 2, 2) = 0 - x[2] - x[4] + x[6] + x[8]
  <2> DEFINE f == [i \in 1..FrameCount |-> x[i] * Cosine(1 * (i - 1) + 2)[2]]
  <2>1. /\ f[1] = 0 /\ f[2] = 0 - x[2] /\ f[3] = 0 /\ f[4] = 0 - x[4]
        /\ f[5] = 0 /\ f[6] = x[6] /\ f[7] = 0 /\ f[8] = x[8]
    BY DEF Cosine, FrameCount
  <2>2. DOMAIN f = 1..8
    BY DEF FrameCount
  <2> HIDE DEF f
  <2>3. /\ f[1] \in Int /\ f[2] \in Int /\ f[3] \in Int /\ f[4] \in Int
        /\ f[5] \in Int /\ f[6] \in Int /\ f[7] \in Int /\ f[8] \in Int
    BY <2>1
  <2>4. SumFunction(f) = f[1] + f[2] + f[3] + f[4] + f[5] + f[6] + f[7] + f[8]
    BY <2>2, <2>3, SumOfEight
  <2>5. SumFunction(f) = 0 - x[2] - x[4] + x[6] + x[8]
    BY <2>1, <2>4
  <2>6. QED
    BY <2>5 DEF f, Transform
<1>5. QED
  BY <1>1, <1>2, <1>3, <1>4

\* The second bin.
LEMMA SecondBin ==
  ASSUME NEW x, x[1] \in Int, x[2] \in Int, x[3] \in Int, x[4] \in Int,
                x[5] \in Int, x[6] \in Int, x[7] \in Int, x[8] \in Int
  PROVE  /\ Transform(x, 2, 0, 1) = x[1] - x[3] + x[5] - x[7]
         /\ Transform(x, 2, 0, 2) = 0
         /\ Transform(x, 2, 2, 1) = 0 - x[2] + x[4] - x[6] + x[8]
         /\ Transform(x, 2, 2, 2) = 0
<1>1. Transform(x, 2, 0, 1) = x[1] - x[3] + x[5] - x[7]
  <2> DEFINE f == [i \in 1..FrameCount |-> x[i] * Cosine(2 * (i - 1) + 0)[1]]
  <2>1. /\ f[1] = x[1] /\ f[2] = 0 /\ f[3] = 0 - x[3] /\ f[4] = 0
        /\ f[5] = x[5] /\ f[6] = 0 /\ f[7] = 0 - x[7] /\ f[8] = 0
    BY DEF Cosine, FrameCount
  <2>2. DOMAIN f = 1..8
    BY DEF FrameCount
  <2> HIDE DEF f
  <2>3. /\ f[1] \in Int /\ f[2] \in Int /\ f[3] \in Int /\ f[4] \in Int
        /\ f[5] \in Int /\ f[6] \in Int /\ f[7] \in Int /\ f[8] \in Int
    BY <2>1
  <2>4. SumFunction(f) = f[1] + f[2] + f[3] + f[4] + f[5] + f[6] + f[7] + f[8]
    BY <2>2, <2>3, SumOfEight
  <2>5. SumFunction(f) = x[1] - x[3] + x[5] - x[7]
    BY <2>1, <2>4
  <2>6. QED
    BY <2>5 DEF f, Transform
<1>2. Transform(x, 2, 0, 2) = 0
  <2> DEFINE f == [i \in 1..FrameCount |-> x[i] * Cosine(2 * (i - 1) + 0)[2]]
  <2>1. /\ f[1] = 0 /\ f[2] = 0 /\ f[3] = 0 /\ f[4] = 0
        /\ f[5] = 0 /\ f[6] = 0 /\ f[7] = 0 /\ f[8] = 0
    BY DEF Cosine, FrameCount
  <2>2. DOMAIN f = 1..8
    BY DEF FrameCount
  <2> HIDE DEF f
  <2>3. /\ f[1] \in Int /\ f[2] \in Int /\ f[3] \in Int /\ f[4] \in Int
        /\ f[5] \in Int /\ f[6] \in Int /\ f[7] \in Int /\ f[8] \in Int
    BY <2>1
  <2>4. SumFunction(f) = f[1] + f[2] + f[3] + f[4] + f[5] + f[6] + f[7] + f[8]
    BY <2>2, <2>3, SumOfEight
  <2>5. SumFunction(f) = 0
    BY <2>1, <2>4
  <2>6. QED
    BY <2>5 DEF f, Transform
<1>3. Transform(x, 2, 2, 1) = 0 - x[2] + x[4] - x[6] + x[8]
  <2> DEFINE f == [i \in 1..FrameCount |-> x[i] * Cosine(2 * (i - 1) + 2)[1]]
  <2>1. /\ f[1] = 0 /\ f[2] = 0 - x[2] /\ f[3] = 0 /\ f[4] = x[4]
        /\ f[5] = 0 /\ f[6] = 0 - x[6] /\ f[7] = 0 /\ f[8] = x[8]
    BY DEF Cosine, FrameCount
  <2>2. DOMAIN f = 1..8
    BY DEF FrameCount
  <2> HIDE DEF f
  <2>3. /\ f[1] \in Int /\ f[2] \in Int /\ f[3] \in Int /\ f[4] \in Int
        /\ f[5] \in Int /\ f[6] \in Int /\ f[7] \in Int /\ f[8] \in Int
    BY <2>1
  <2>4. SumFunction(f) = f[1] + f[2] + f[3] + f[4] + f[5] + f[6] + f[7] + f[8]
    BY <2>2, <2>3, SumOfEight
  <2>5. SumFunction(f) = 0 - x[2] + x[4] - x[6] + x[8]
    BY <2>1, <2>4
  <2>6. QED
    BY <2>5 DEF f, Transform
<1>4. Transform(x, 2, 2, 2) = 0
  <2> DEFINE f == [i \in 1..FrameCount |-> x[i] * Cosine(2 * (i - 1) + 2)[2]]
  <2>1. /\ f[1] = 0 /\ f[2] = 0 /\ f[3] = 0 /\ f[4] = 0
        /\ f[5] = 0 /\ f[6] = 0 /\ f[7] = 0 /\ f[8] = 0
    BY DEF Cosine, FrameCount
  <2>2. DOMAIN f = 1..8
    BY DEF FrameCount
  <2> HIDE DEF f
  <2>3. /\ f[1] \in Int /\ f[2] \in Int /\ f[3] \in Int /\ f[4] \in Int
        /\ f[5] \in Int /\ f[6] \in Int /\ f[7] \in Int /\ f[8] \in Int
    BY <2>1
  <2>4. SumFunction(f) = f[1] + f[2] + f[3] + f[4] + f[5] + f[6] + f[7] + f[8]
    BY <2>2, <2>3, SumOfEight
  <2>5. SumFunction(f) = 0
    BY <2>1, <2>4
  <2>6. QED
    BY <2>5 DEF f, Transform
<1>5. QED
  BY <1>1, <1>2, <1>3, <1>4

\* The third bin.
LEMMA ThirdBin ==
  ASSUME NEW x, x[1] \in Int, x[2] \in Int, x[3] \in Int, x[4] \in Int,
                x[5] \in Int, x[6] \in Int, x[7] \in Int, x[8] \in Int
  PROVE  /\ Transform(x, 3, 0, 1) = x[1] - x[5]
         /\ Transform(x, 3, 0, 2) = 0 - x[2] + x[4] + x[6] - x[8]
         /\ Transform(x, 3, 2, 1) = x[3] - x[7]
         /\ Transform(x, 3, 2, 2) = 0 - x[2] - x[4] + x[6] + x[8]
<1>1. Transform(x, 3, 0, 1) = x[1] - x[5]
  <2> DEFINE f == [i \in 1..FrameCount |-> x[i] * Cosine(3 * (i - 1) + 0)[1]]
  <2>1. /\ f[1] = x[1] /\ f[2] = 0 /\ f[3] = 0 /\ f[4] = 0
        /\ f[5] = 0 - x[5] /\ f[6] = 0 /\ f[7] = 0 /\ f[8] = 0
    BY DEF Cosine, FrameCount
  <2>2. DOMAIN f = 1..8
    BY DEF FrameCount
  <2> HIDE DEF f
  <2>3. /\ f[1] \in Int /\ f[2] \in Int /\ f[3] \in Int /\ f[4] \in Int
        /\ f[5] \in Int /\ f[6] \in Int /\ f[7] \in Int /\ f[8] \in Int
    BY <2>1
  <2>4. SumFunction(f) = f[1] + f[2] + f[3] + f[4] + f[5] + f[6] + f[7] + f[8]
    BY <2>2, <2>3, SumOfEight
  <2>5. SumFunction(f) = x[1] - x[5]
    BY <2>1, <2>4
  <2>6. QED
    BY <2>5 DEF f, Transform
<1>2. Transform(x, 3, 0, 2) = 0 - x[2] + x[4] + x[6] - x[8]
  <2> DEFINE f == [i \in 1..FrameCount |-> x[i] * Cosine(3 * (i - 1) + 0)[2]]
  <2>1. /\ f[1] = 0 /\ f[2] = 0 - x[2] /\ f[3] = 0 /\ f[4] = x[4]
        /\ f[5] = 0 /\ f[6] = x[6] /\ f[7] = 0 /\ f[8] = 0 - x[8]
    BY DEF Cosine, FrameCount
  <2>2. DOMAIN f = 1..8
    BY DEF FrameCount
  <2> HIDE DEF f
  <2>3. /\ f[1] \in Int /\ f[2] \in Int /\ f[3] \in Int /\ f[4] \in Int
        /\ f[5] \in Int /\ f[6] \in Int /\ f[7] \in Int /\ f[8] \in Int
    BY <2>1
  <2>4. SumFunction(f) = f[1] + f[2] + f[3] + f[4] + f[5] + f[6] + f[7] + f[8]
    BY <2>2, <2>3, SumOfEight
  <2>5. SumFunction(f) = 0 - x[2] + x[4] + x[6] - x[8]
    BY <2>1, <2>4
  <2>6. QED
    BY <2>5 DEF f, Transform
<1>3. Transform(x, 3, 2, 1) = x[3] - x[7]
  <2> DEFINE f == [i \in 1..FrameCount |-> x[i] * Cosine(3 * (i - 1) + 2)[1]]
  <2>1. /\ f[1] = 0 /\ f[2] = 0 /\ f[3] = x[3] /\ f[4] = 0
        /\ f[5] = 0 /\ f[6] = 0 /\ f[7] = 0 - x[7] /\ f[8] = 0
    BY DEF Cosine, FrameCount
  <2>2. DOMAIN f = 1..8
    BY DEF FrameCount
  <2> HIDE DEF f
  <2>3. /\ f[1] \in Int /\ f[2] \in Int /\ f[3] \in Int /\ f[4] \in Int
        /\ f[5] \in Int /\ f[6] \in Int /\ f[7] \in Int /\ f[8] \in Int
    BY <2>1
  <2>4. SumFunction(f) = f[1] + f[2] + f[3] + f[4] + f[5] + f[6] + f[7] + f[8]
    BY <2>2, <2>3, SumOfEight
  <2>5. SumFunction(f) = x[3] - x[7]
    BY <2>1, <2>4
  <2>6. QED
    BY <2>5 DEF f, Transform
<1>4. Transform(x, 3, 2, 2) = 0 - x[2] - x[4] + x[6] + x[8]
  <2> DEFINE f == [i \in 1..FrameCount |-> x[i] * Cosine(3 * (i - 1) + 2)[2]]
  <2>1. /\ f[1] = 0 /\ f[2] = 0 - x[2] /\ f[3] = 0 /\ f[4] = 0 - x[4]
        /\ f[5] = 0 /\ f[6] = x[6] /\ f[7] = 0 /\ f[8] = x[8]
    BY DEF Cosine, FrameCount
  <2>2. DOMAIN f = 1..8
    BY DEF FrameCount
  <2> HIDE DEF f
  <2>3. /\ f[1] \in Int /\ f[2] \in Int /\ f[3] \in Int /\ f[4] \in Int
        /\ f[5] \in Int /\ f[6] \in Int /\ f[7] \in Int /\ f[8] \in Int
    BY <2>1
  <2>4. SumFunction(f) = f[1] + f[2] + f[3] + f[4] + f[5] + f[6] + f[7] + f[8]
    BY <2>2, <2>3, SumOfEight
  <2>5. SumFunction(f) = 0 - x[2] - x[4] + x[6] + x[8]
    BY <2>1, <2>4
  <2>6. QED
    BY <2>5 DEF f, Transform
<1>5. QED
  BY <1>1, <1>2, <1>3, <1>4

\* The last bin.
LEMMA LastBin ==
  ASSUME NEW x, x[1] \in Int, x[2] \in Int, x[3] \in Int, x[4] \in Int,
                x[5] \in Int, x[6] \in Int, x[7] \in Int, x[8] \in Int
  PROVE  /\ Transform(x, 4, 0, 1) = x[1] - x[2] + x[3] - x[4] + x[5] - x[6] + x[7] - x[8]
         /\ Transform(x, 4, 0, 2) = 0
         /\ Transform(x, 4, 2, 1) = 0
         /\ Transform(x, 4, 2, 2) = 0
<1>1. Transform(x, 4, 0, 1) = x[1] - x[2] + x[3] - x[4] + x[5] - x[6] + x[7] - x[8]
  <2> DEFINE f == [i \in 1..FrameCount |-> x[i] * Cosine(4 * (i - 1) + 0)[1]]
  <2>1. /\ f[1] = x[1] /\ f[2] = 0 - x[2] /\ f[3] = x[3] /\ f[4] = 0 - x[4]
        /\ f[5] = x[5] /\ f[6] = 0 - x[6] /\ f[7] = x[7] /\ f[8] = 0 - x[8]
    BY DEF Cosine, FrameCount
  <2>2. DOMAIN f = 1..8
    BY DEF FrameCount
  <2> HIDE DEF f
  <2>3. /\ f[1] \in Int /\ f[2] \in Int /\ f[3] \in Int /\ f[4] \in Int
        /\ f[5] \in Int /\ f[6] \in Int /\ f[7] \in Int /\ f[8] \in Int
    BY <2>1
  <2>4. SumFunction(f) = f[1] + f[2] + f[3] + f[4] + f[5] + f[6] + f[7] + f[8]
    BY <2>2, <2>3, SumOfEight
  <2>5. SumFunction(f) = x[1] - x[2] + x[3] - x[4] + x[5] - x[6] + x[7] - x[8]
    BY <2>1, <2>4
  <2>6. QED
    BY <2>5 DEF f, Transform
<1>2. Transform(x, 4, 0, 2) = 0
  <2> DEFINE f == [i \in 1..FrameCount |-> x[i] * Cosine(4 * (i - 1) + 0)[2]]
  <2>1. /\ f[1] = 0 /\ f[2] = 0 /\ f[3] = 0 /\ f[4] = 0
        /\ f[5] = 0 /\ f[6] = 0 /\ f[7] = 0 /\ f[8] = 0
    BY DEF Cosine, FrameCount
  <2>2. DOMAIN f = 1..8
    BY DEF FrameCount
  <2> HIDE DEF f
  <2>3. /\ f[1] \in Int /\ f[2] \in Int /\ f[3] \in Int /\ f[4] \in Int
        /\ f[5] \in Int /\ f[6] \in Int /\ f[7] \in Int /\ f[8] \in Int
    BY <2>1
  <2>4. SumFunction(f) = f[1] + f[2] + f[3] + f[4] + f[5] + f[6] + f[7] + f[8]
    BY <2>2, <2>3, SumOfEight
  <2>5. SumFunction(f) = 0
    BY <2>1, <2>4
  <2>6. QED
    BY <2>5 DEF f, Transform
<1>3. Transform(x, 4, 2, 1) = 0
  <2> DEFINE f == [i \in 1..FrameCount |-> x[i] * Cosine(4 * (i - 1) + 2)[1]]
  <2>1. /\ f[1] = 0 /\ f[2] = 0 /\ f[3] = 0 /\ f[4] = 0
        /\ f[5] = 0 /\ f[6] = 0 /\ f[7] = 0 /\ f[8] = 0
    BY DEF Cosine, FrameCount
  <2>2. DOMAIN f = 1..8
    BY DEF FrameCount
  <2> HIDE DEF f
  <2>3. /\ f[1] \in Int /\ f[2] \in Int /\ f[3] \in Int /\ f[4] \in Int
        /\ f[5] \in Int /\ f[6] \in Int /\ f[7] \in Int /\ f[8] \in Int
    BY <2>1
  <2>4. SumFunction(f) = f[1] + f[2] + f[3] + f[4] + f[5] + f[6] + f[7] + f[8]
    BY <2>2, <2>3, SumOfEight
  <2>5. SumFunction(f) = 0
    BY <2>1, <2>4
  <2>6. QED
    BY <2>5 DEF f, Transform
<1>4. Transform(x, 4, 2, 2) = 0
  <2> DEFINE f == [i \in 1..FrameCount |-> x[i] * Cosine(4 * (i - 1) + 2)[2]]
  <2>1. /\ f[1] = 0 /\ f[2] = 0 /\ f[3] = 0 /\ f[4] = 0
        /\ f[5] = 0 /\ f[6] = 0 /\ f[7] = 0 /\ f[8] = 0
    BY DEF Cosine, FrameCount
  <2>2. DOMAIN f = 1..8
    BY DEF FrameCount
  <2> HIDE DEF f
  <2>3. /\ f[1] \in Int /\ f[2] \in Int /\ f[3] \in Int /\ f[4] \in Int
        /\ f[5] \in Int /\ f[6] \in Int /\ f[7] \in Int /\ f[8] \in Int
    BY <2>1
  <2>4. SumFunction(f) = f[1] + f[2] + f[3] + f[4] + f[5] + f[6] + f[7] + f[8]
    BY <2>2, <2>3, SumOfEight
  <2>5. SumFunction(f) = 0
    BY <2>1, <2>4
  <2>6. QED
    BY <2>5 DEF f, Transform
<1>5. QED
  BY <1>1, <1>2, <1>3, <1>4

\* The powers of the four bins, of which the third differs from the first in signs only.
LEMMA BinPowers ==
  ASSUME NEW x, x[1] \in Int, x[2] \in Int, x[3] \in Int, x[4] \in Int,
                x[5] \in Int, x[6] \in Int, x[7] \in Int, x[8] \in Int
  PROVE  LET u == x[1] - x[5]
             v == x[7] - x[3]
             p == x[2] - x[4] - x[6] + x[8]
             q == 0 - x[2] - x[4] + x[6] + x[8]
             s == x[1] - x[3] + x[5] - x[7]
             t == 0 - x[2] + x[4] - x[6] + x[8]
             n == x[1] - x[2] + x[3] - x[4] + x[5] - x[6] + x[7] - x[8]
         IN  /\ DftPower(x, 1) = <<2 * u * u + p * p + (2 * v * v + q * q), 2 * u * p + 2 * v * q>>
             /\ DftPower(x, 3) = <<2 * u * u + p * p + (2 * v * v + q * q), -(2 * u * p + 2 * v * q)>>
             /\ DftPower(x, 2) = <<2 * s * s + 2 * t * t, 0>>
             /\ DftPower(x, 4) = <<2 * n * n, 0>>
<1> DEFINE Sum(bin, shift, part) == Transform(x, bin, shift, part)
<1>1. \A bin : DftPower(x, bin)
        = <<2 * Sum(bin, 0, 1) * Sum(bin, 0, 1) + Sum(bin, 0, 2) * Sum(bin, 0, 2)
              + (2 * Sum(bin, 2, 1) * Sum(bin, 2, 1) + Sum(bin, 2, 2) * Sum(bin, 2, 2)),
            2 * Sum(bin, 0, 1) * Sum(bin, 0, 2) + 2 * Sum(bin, 2, 1) * Sum(bin, 2, 2)>>
  BY DEF DftPower, Transform
<1> DEFINE u == x[1] - x[5]
           v == x[7] - x[3]
           p == x[2] - x[4] - x[6] + x[8]
           q == 0 - x[2] - x[4] + x[6] + x[8]
           s == x[1] - x[3] + x[5] - x[7]
           t == 0 - x[2] + x[4] - x[6] + x[8]
           n == x[1] - x[2] + x[3] - x[4] + x[5] - x[6] + x[7] - x[8]
<1>2. u \in Int /\ v \in Int /\ p \in Int /\ q \in Int /\ s \in Int /\ t \in Int /\ n \in Int
  OBVIOUS
<1>3. DftPower(x, 1) = <<2 * u * u + p * p + (2 * v * v + q * q), 2 * u * p + 2 * v * q>>
  <2>1. Sum(1, 0, 1) = u /\ Sum(1, 0, 2) = p /\ Sum(1, 2, 1) = v /\ Sum(1, 2, 2) = q
    BY FirstBin
  <2> HIDE DEF Sum, u, v, p, q
  <2>2. QED
    BY <1>1, <2>1
<1>4. DftPower(x, 3) = <<2 * u * u + p * p + (2 * v * v + q * q), -(2 * u * p + 2 * v * q)>>
  <2>1. Sum(3, 0, 1) = u /\ Sum(3, 0, 2) = -p /\ Sum(3, 2, 1) = -v /\ Sum(3, 2, 2) = q
    BY ThirdBin
  <2> HIDE DEF Sum, u, v, p, q
  <2>2. (-p) * (-p) = p * p /\ 2 * (-v) * (-v) = 2 * v * v
        /\ 2 * u * (-p) + 2 * (-v) * q = -(2 * u * p + 2 * v * q)
    BY <1>2
  <2>3. QED
    BY <1>1, <2>1, <2>2
<1>5. DftPower(x, 2) = <<2 * s * s + 2 * t * t, 0>>
  <2>1. Sum(2, 0, 1) = s /\ Sum(2, 0, 2) = 0 /\ Sum(2, 2, 1) = t /\ Sum(2, 2, 2) = 0
    BY SecondBin
  <2> HIDE DEF Sum, s, t
  <2>2. 2 * s * s + 0 * 0 + (2 * t * t + 0 * 0) = 2 * s * s + 2 * t * t /\ 2 * s * 0 + 2 * t * 0 = 0
    BY <1>2
  <2>3. QED
    BY <1>1, <2>1, <2>2
<1>6. DftPower(x, 4) = <<2 * n * n, 0>>
  <2>1. Sum(4, 0, 1) = n /\ Sum(4, 0, 2) = 0 /\ Sum(4, 2, 1) = 0 /\ Sum(4, 2, 2) = 0
    BY LastBin
  <2> HIDE DEF Sum, n
  <2>2. 2 * n * n + 0 * 0 + (2 * 0 * 0 + 0 * 0) = 2 * n * n /\ 2 * n * 0 + 2 * 0 * 0 = 0
    BY <1>2
  <2>3. QED
    BY <1>1, <2>1, <2>2
<1>7. QED
  BY <1>3, <1>4, <1>5, <1>6

\* The identity behind Parseval's theorem for eight samples.
LEMMA Parseval ==
  ASSUME NEW x, x[1] \in Int, x[2] \in Int, x[3] \in Int, x[4] \in Int,
                x[5] \in Int, x[6] \in Int, x[7] \in Int, x[8] \in Int
  PROVE  LET u == x[1] - x[5]
             v == x[7] - x[3]
             p == x[2] - x[4] - x[6] + x[8]
             q == 0 - x[2] - x[4] + x[6] + x[8]
             s == x[1] - x[3] + x[5] - x[7]
             t == 0 - x[2] + x[4] - x[6] + x[8]
             n == x[1] - x[2] + x[3] - x[4] + x[5] - x[6] + x[7] - x[8]
             m == x[1] + x[2] + x[3] + x[4] + x[5] + x[6] + x[7] + x[8]
         IN  2 * (2 * u * u + p * p + (2 * v * v + q * q)) + (2 * s * s + 2 * t * t) + 2 * n * n
               = 8 * (x[1] * x[1] + x[2] * x[2] + x[3] * x[3] + x[4] * x[4]
                      + x[5] * x[5] + x[6] * x[6] + x[7] * x[7] + x[8] * x[8]) - m * m + n * n
<1> DEFINE a == x[1]
           b == x[2]
           c == x[3]
           d == x[4]
           e == x[5]
           f == x[6]
           g == x[7]
           h == x[8]
           u == a - e
           v == g - c
           p == b - d - f + h
           q == 0 - b - d + f + h
           s == a - c + e - g
           t == 0 - b + d - f + h
           n == a - b + c - d + e - f + g - h
           m == a + b + c + d + e + f + g + h
<1>1. a \in Int /\ b \in Int /\ c \in Int /\ d \in Int /\ e \in Int /\ f \in Int /\ g \in Int /\ h \in Int
  OBVIOUS
<1> HIDE DEF a, b, c, d, e, f, g, h
<1>2. 2 * (2 * u * u + p * p + (2 * v * v + q * q)) + (2 * s * s + 2 * t * t) + 2 * n * n
        = 8 * (a * a + b * b + c * c + d * d + e * e + f * f + g * g + h * h) - m * m + n * n
  BY <1>1
<1>3. QED
  BY <1>2, Zenon DEF a, b, c, d, e, f, g, h

\* The sum over the three bands.
LEMMA SumOfBands ==
  ASSUME NEW f, DOMAIN f = {"low", "mid", "high"},
         f["low"] \in Int, f["mid"] \in Int, f["high"] \in Int
  PROVE  SumFunction(f) = f["low"] + f["mid"] + f["high"]
<1>1. SumFunction(f) = SumOver(f, {"low", "mid", "high"})
  BY DEF SumFunction, SumOver
<1>2. SumOver(f, {}) = 0
  BY SumOfNone
<1>3. SumOver(f, {"low"}) = f["low"]
  <2>1. IsFiniteSet({}) /\ "low" \notin {} /\ {} \cup {"low"} = {"low"} /\ \A y \in {} \cup {"low"} : f[y] \in Int
    BY FS_EmptySet
  <2>2. SumOver(f, {} \cup {"low"}) = SumOver(f, {}) + f["low"]
    BY <2>1, SumGrows
  <2>3. QED
    BY <1>2, <2>1, <2>2
<1>4. SumOver(f, {"low", "mid"}) = f["low"] + f["mid"]
  <2>1. IsFiniteSet({"low"}) /\ "mid" \notin {"low"} /\ {"low"} \cup {"mid"} = {"low", "mid"}
        /\ \A y \in {"low"} \cup {"mid"} : f[y] \in Int
    BY FS_Singleton
  <2>2. SumOver(f, {"low"} \cup {"mid"}) = SumOver(f, {"low"}) + f["mid"]
    BY <2>1, SumGrows
  <2>3. QED
    BY <1>3, <2>1, <2>2
<1>5. SumOver(f, {"low", "mid", "high"}) = f["low"] + f["mid"] + f["high"]
  <2>1. {"low"} \cup {"mid"} = {"low", "mid"}
    OBVIOUS
  <2>2. IsFiniteSet({"low"})
    BY FS_Singleton
  <2>3. IsFiniteSet({"low", "mid"})
    BY <2>1, <2>2, FS_AddElement
  <2>4. "high" \notin {"low", "mid"} /\ {"low", "mid"} \cup {"high"} = {"low", "mid", "high"}
        /\ \A y \in {"low", "mid"} \cup {"high"} : f[y] \in Int
    OBVIOUS
  <2>5. SumOver(f, {"low", "mid"} \cup {"high"}) = SumOver(f, {"low", "mid"}) + f["high"]
    BY <2>3, <2>4, SumGrows
  <2>6. QED
    BY <1>4, <2>4, <2>5
<1>6. QED
  BY <1>1, <1>5

\* There are four bins.
LEMMA BinsAreFinite == IsFiniteSet(1..4)
<1>1. 1 \in Int /\ 4 \in Int
  OBVIOUS
<1>2. QED
  BY <1>1, FS_Interval, Zenon

\* The bands have each bin once.
LEMMA BandsShareBins ==
  ASSUME NEW x, NEW rate, NEW part \in {1, 2}, \A bin \in 1..4 : DftPower(x, bin)[part] \in Int
  PROVE  LET power == SplitFrequencyBands(x, rate).power
         IN  SumFunction([band \in DOMAIN power |-> power[band][part]])
               = DftPower(x, 1)[part] + DftPower(x, 2)[part] + DftPower(x, 3)[part] + DftPower(x, 4)[part]
<1> DEFINE power == SplitFrequencyBands(x, rate).power
           Of(band) == {bin \in 1..4 : BandOf(bin * rate) = band}
           g == [bin \in 1..4 |-> DftPower(x, bin)[part]]
           G(band) == SumFunction([bin \in Of(band) |-> DftPower(x, bin)[part]])
           f == [band \in {"low", "mid", "high"} |-> G(band)]
<1>1. AtLeast(3, FrameCount \div 2) = 4
  BY DEF AtLeast, FrameCount
<1>2. /\ DOMAIN power = {"low", "mid", "high"}
      /\ \A band \in {"low", "mid", "high"} : power[band][part] = G(band)
  <2> DEFINE H(band, k) == SumFunction([bin \in Of(band) |-> DftPower(x, bin)[k]])
             P == [band \in {"low", "mid", "high"} |-> <<H(band, 1), H(band, 2)>>]
  <2>1. power = P
    BY <1>1 DEF SplitFrequencyBands
  <2>2. DOMAIN P = {"low", "mid", "high"}
    OBVIOUS
  <2>3. \A band : G(band) = H(band, part)
    OBVIOUS
  <2> HIDE DEF H, G, power
  <2>4. \A band \in {"low", "mid", "high"} : P[band][part] = H(band, part)
    OBVIOUS
  <2> HIDE DEF P
  <2>5. QED
    BY <2>1, <2>2, <2>3, <2>4
<1>3. [band \in DOMAIN power |-> power[band][part]] = f
  <2> HIDE DEF power, G
  <2> QED
    BY <1>2
<1>4. \A bin \in 1..4 : g[bin] \in Int
  OBVIOUS
<1>0. IsFiniteSet(1..4)
  BY BinsAreFinite
<1>5. ASSUME NEW band PROVE G(band) = SumOver(g, Of(band)) /\ IsFiniteSet(Of(band)) /\ G(band) \in Int
  <2>1. IsFiniteSet(Of(band))
    BY <1>0, FS_Subset
  <2> DEFINE S == Of(band)
             h == [bin \in S |-> DftPower(x, bin)[part]]
  <2>2. \A bin \in S : h[bin] = g[bin] /\ g[bin] \in Int
    BY <1>4
  <2>3. DOMAIN h = S
    OBVIOUS
  <2> HIDE DEF S, g, h
  <2>4. SumFunction(h) = SumOver(h, S)
    BY <2>3 DEF SumFunction, SumOver
  <2>5. SumOver(h, S) = SumOver(g, S) /\ SumOver(g, S) \in Int
    BY <2>1, <2>2, SumOfEquals, SumSplits DEF S
  <2>6. SumFunction(h) = SumOver(g, S) /\ SumFunction(h) \in Int
    BY <2>4, <2>5
  <2>7. QED
    BY <2>1, <2>6 DEF S, h
<1>6. /\ Of("low") \cap Of("mid") = {} /\ (Of("low") \cup Of("mid")) \cap Of("high") = {}
      /\ (Of("low") \cup Of("mid")) \cup Of("high") = 1..4
  BY DEF BandOf
<1>7. f["low"] = G("low") /\ f["mid"] = G("mid") /\ f["high"] = G("high") /\ DOMAIN f = {"low", "mid", "high"}
  OBVIOUS
<1> HIDE DEF Of, G, g, f
<1>8. SumFunction(f) = G("low") + G("mid") + G("high")
  BY <1>5, <1>7, SumOfBands
<1> DEFINE S == Of("low") \cup Of("mid")
<1>9. SumOver(g, S) = G("low") + G("mid")
  <2>1. \A bin \in Of("low") \cup Of("mid") : g[bin] \in Int
    BY <1>4, <1>6
  <2>2. QED
    BY <1>5, <1>6, <2>1, SumOfUnion
<1>10. SumOver(g, 1..4) = SumOver(g, S) + G("high")
  <2>1. IsFiniteSet(S)
    BY <1>5, FS_Union
  <2>2. \A bin \in S \cup Of("high") : g[bin] \in Int
    BY <1>4, <1>6
  <2>3. S \cap Of("high") = {} /\ S \cup Of("high") = 1..4
    BY <1>6
  <2> HIDE DEF S
  <2>4. SumOver(g, S \cup Of("high")) = SumOver(g, S) + SumOver(g, Of("high"))
    BY <1>5, <2>1, <2>2, <2>3, SumOfUnion
  <2>5. QED
    BY <1>5, <2>3, <2>4
<1>11. SumOver(g, 1..4) = g[1] + g[2] + g[3] + g[4]
  <2>1. \A i \in 1..4 : i = 1 \/ i = 2 \/ i = 3 \/ i = 4
    OBVIOUS
  <2>2. g[1] \in Int /\ g[2] \in Int /\ g[3] \in Int /\ g[4] \in Int
    BY <1>4
  <2>3. QED
    BY <2>2, SumOfFour
<1>12. SumFunction(f) = g[1] + g[2] + g[3] + g[4]
  BY <1>5, <1>8, <1>9, <1>10, <1>11
<1>13. QED
  BY <1>3, <1>12 DEF g

\* The bands share out the energy of the samples but for their mean, and no
\* root remains.
LEMMA BandsShareEnergy ==
  ASSUME NEW x, DOMAIN x = 1..8,
         x[1] \in Int, x[2] \in Int, x[3] \in Int, x[4] \in Int,
         x[5] \in Int, x[6] \in Int, x[7] \in Int, x[8] \in Int,
         NEW rate
  PROVE  LET power == SplitFrequencyBands(x, rate).power
             squares == SumFunction([i \in DOMAIN x |-> x[i] * x[i]])
             mean    == SumFunction(x)
             nyquist == SumFunction([i \in DOMAIN x |-> IF i % 2 = 0 THEN x[i] ELSE -x[i]])
         IN  /\ SumFunction([band \in DOMAIN power |-> power[band][1]])
                  = FrameCount * squares - mean * mean + nyquist * nyquist
             /\ SumFunction([band \in DOMAIN power |-> power[band][2]]) = 0
<1> DEFINE power == SplitFrequencyBands(x, rate).power
           squares == SumFunction([i \in DOMAIN x |-> x[i] * x[i]])
           mean    == SumFunction(x)
           nyquist == SumFunction([i \in DOMAIN x |-> IF i % 2 = 0 THEN x[i] ELSE -x[i]])
           Total(part) == SumFunction([band \in DOMAIN power |-> power[band][part]])
<1> DEFINE u == x[1] - x[5]
           v == x[7] - x[3]
           p == x[2] - x[4] - x[6] + x[8]
           q == 0 - x[2] - x[4] + x[6] + x[8]
           s == x[1] - x[3] + x[5] - x[7]
           t == 0 - x[2] + x[4] - x[6] + x[8]
           n == x[1] - x[2] + x[3] - x[4] + x[5] - x[6] + x[7] - x[8]
           m == x[1] + x[2] + x[3] + x[4] + x[5] + x[6] + x[7] + x[8]
           first == 2 * u * u + p * p + (2 * v * v + q * q)
           cross == 2 * u * p + 2 * v * q
<1>3. /\ DftPower(x, 1) = <<first, cross>> /\ DftPower(x, 3) = <<first, -cross>>
      /\ DftPower(x, 2) = <<2 * s * s + 2 * t * t, 0>> /\ DftPower(x, 4) = <<2 * n * n, 0>>
  BY BinPowers
<1>4. u \in Int /\ v \in Int /\ p \in Int /\ q \in Int /\ s \in Int /\ t \in Int /\ n \in Int /\ m \in Int
  OBVIOUS
<1>5. 2 * first + (2 * s * s + 2 * t * t) + 2 * n * n
        = 8 * (x[1] * x[1] + x[2] * x[2] + x[3] * x[3] + x[4] * x[4]
               + x[5] * x[5] + x[6] * x[6] + x[7] * x[7] + x[8] * x[8]) - m * m + n * n
  BY Parseval
<1>6. squares = x[1] * x[1] + x[2] * x[2] + x[3] * x[3] + x[4] * x[4]
                + x[5] * x[5] + x[6] * x[6] + x[7] * x[7] + x[8] * x[8]
  <2> DEFINE f == [i \in DOMAIN x |-> x[i] * x[i]]
  <2>1. /\ f[1] = x[1] * x[1] /\ f[2] = x[2] * x[2] /\ f[3] = x[3] * x[3] /\ f[4] = x[4] * x[4]
        /\ f[5] = x[5] * x[5] /\ f[6] = x[6] * x[6] /\ f[7] = x[7] * x[7] /\ f[8] = x[8] * x[8]
        /\ DOMAIN f = 1..8
    OBVIOUS
  <2> HIDE DEF f
  <2>2. \A a \in Int : a * a \in Int
    OBVIOUS
  <2>3. /\ f[1] \in Int /\ f[2] \in Int /\ f[3] \in Int /\ f[4] \in Int
        /\ f[5] \in Int /\ f[6] \in Int /\ f[7] \in Int /\ f[8] \in Int
    BY <2>1, <2>2
  <2>4. SumFunction(f) = f[1] + f[2] + f[3] + f[4] + f[5] + f[6] + f[7] + f[8]
    BY <2>1, <2>3, SumOfEight
  <2>5. QED
    BY <2>1, <2>4 DEF f
<1>7. mean = m
  BY SumOfEight
<1>8. nyquist = -n
  <2> DEFINE f == [i \in DOMAIN x |-> IF i % 2 = 0 THEN x[i] ELSE -x[i]]
  <2>1. /\ f[1] = -x[1] /\ f[2] = x[2] /\ f[3] = -x[3] /\ f[4] = x[4]
        /\ f[5] = -x[5] /\ f[6] = x[6] /\ f[7] = -x[7] /\ f[8] = x[8]
        /\ DOMAIN f = 1..8
    OBVIOUS
  <2> HIDE DEF f
  <2>2. /\ f[1] \in Int /\ f[2] \in Int /\ f[3] \in Int /\ f[4] \in Int
        /\ f[5] \in Int /\ f[6] \in Int /\ f[7] \in Int /\ f[8] \in Int
    BY <2>1
  <2>3. SumFunction(f) = f[1] + f[2] + f[3] + f[4] + f[5] + f[6] + f[7] + f[8]
    BY <2>1, <2>2, SumOfEight
  <2>4. SumFunction(f) = -n
    BY <2>1, <2>3
  <2>5. QED
    BY <2>4 DEF f
<1> HIDE DEF u, v, p, q, s, t, n, m
<1>9. first \in Int /\ cross \in Int /\ 2 * s * s + 2 * t * t \in Int /\ 2 * n * n \in Int
  BY <1>4
<1> HIDE DEF first, cross
<1>10. Total(1) = first + (2 * s * s + 2 * t * t) + first + 2 * n * n
  <2>1. \A bin \in 1..4 : DftPower(x, bin)[1] \in Int
    <3>1. \A bin \in 1..4 : bin = 1 \/ bin = 2 \/ bin = 3 \/ bin = 4
      OBVIOUS
    <3>2. QED
      BY <1>3, <1>9, <3>1
  <2>2. Total(1) = DftPower(x, 1)[1] + DftPower(x, 2)[1] + DftPower(x, 3)[1] + DftPower(x, 4)[1]
    BY <2>1, BandsShareBins
  <2> HIDE DEF Total
  <2>3. QED
    BY <1>3, <2>2
<1>11. Total(2) = 0
  <2>1. \A bin \in 1..4 : DftPower(x, bin)[2] \in Int
    <3>1. \A bin \in 1..4 : bin = 1 \/ bin = 2 \/ bin = 3 \/ bin = 4
      OBVIOUS
    <3>2. QED
      BY <1>3, <1>9, <3>1
  <2>2. Total(2) = DftPower(x, 1)[2] + DftPower(x, 2)[2] + DftPower(x, 3)[2] + DftPower(x, 4)[2]
    BY <2>1, BandsShareBins
  <2> HIDE DEF Total
  <2>3. QED
    BY <1>3, <1>9, <2>2
<1> HIDE DEF Total, squares, mean, nyquist
<1>12. Total(1) = FrameCount * squares - mean * mean + nyquist * nyquist
  <2>1. nyquist * nyquist = n * n
    BY <1>4, <1>8
  <2>2. QED
    BY <1>4, <1>5, <1>6, <1>7, <1>9, <1>10, <2>1 DEF FrameCount
<1>13. QED
  BY <1>11, <1>12 DEF Total, squares, mean, nyquist

-----------------------------------------------------------------------------
(* What has moved.                                                         *)

\* The sum of sums.
LEMMA SumOfSums ==
  ASSUME NEW S, IsFiniteSet(S), NEW f, NEW g, NEW h,
         \A x \in S : f[x] \in Int /\ g[x] \in Int /\ h[x] = f[x] + g[x]
  PROVE  SumOver(h, S) = SumOver(f, S) + SumOver(g, S)
<1> DEFINE Good == {T \in SUBSET S : SumOver(h, T) = SumOver(f, T) + SumOver(g, T)}
<1>1. {} \in Good
  BY SumOfNone
<1>2. \A T \in SUBSET S, x \in S : T \in Good /\ x \notin T => T \cup {x} \in Good
  <2> SUFFICES ASSUME NEW T \in SUBSET S, NEW x \in S, x \notin T,
                      SumOver(h, T) = SumOver(f, T) + SumOver(g, T)
               PROVE  SumOver(h, T \cup {x}) = SumOver(f, T \cup {x}) + SumOver(g, T \cup {x})
    OBVIOUS
  <2>1. IsFiniteSet(T)
    BY FS_Subset
  <2>2. \A y \in T \cup {x} : f[y] \in Int /\ g[y] \in Int /\ h[y] \in Int
    OBVIOUS
  <2>3. /\ SumOver(f, T \cup {x}) = SumOver(f, T) + f[x]
        /\ SumOver(g, T \cup {x}) = SumOver(g, T) + g[x]
        /\ SumOver(h, T \cup {x}) = SumOver(h, T) + h[x]
    BY <2>1, <2>2, SumGrows
  <2>4. SumOver(f, T) \in Int /\ SumOver(g, T) \in Int
    BY <2>1, <2>2, SumSplits
  <2>5. f[x] \in Int /\ g[x] \in Int /\ h[x] = f[x] + g[x]
    OBVIOUS
  <2>6. QED
    BY <2>3, <2>4, <2>5
<1>3. S \in Good
  <2> HIDE DEF Good
  <2> QED
    BY <1>1, <1>2, SetInduction
<1>4. QED
  BY <1>3

\* A sum of natural numbers is as large as each of them.
LEMMA SumIsLarge ==
  ASSUME NEW S, IsFiniteSet(S), NEW f, \A x \in S : f[x] \in Nat, NEW y \in S
  PROVE  f[y] <= SumOver(f, S)
<1>1. \A x \in S : f[x] \in Int
  OBVIOUS
<1>2. SumOver(f, S) = f[y] + SumOver(f, S \ {y})
  BY <1>1, SumSplits
<1>3. SumOver(f, S \ {y}) \in Nat
  <2>1. IsFiniteSet(S \ {y}) /\ \A x \in S \ {y} : f[x] \in Nat
    BY FS_Subset
  <2>2. QED
    BY <2>1, SumOfNaturals
<1>4. QED
  BY <1>2, <1>3

\* What adds nothing may be left out of a sum.
LEMMA SumOfSupport ==
  ASSUME NEW S, IsFiniteSet(S), NEW T \in SUBSET S, NEW f,
         \A x \in T : f[x] \in Int, \A x \in S \ T : f[x] = 0
  PROVE  SumOver(f, S) = SumOver(f, T)
<1> DEFINE R == S \ T
           zero == [x \in R |-> 0]
<1>1. IsFiniteSet(T) /\ IsFiniteSet(R) /\ T \cap R = {} /\ T \cup R = S
  BY FS_Subset
<1>2. \A x \in S : f[x] \in Int
  OBVIOUS
<1>3. \A x \in R : f[x] = 0
  OBVIOUS
<1> HIDE DEF R
<1>4. SumOver(f, T \cup R) = SumOver(f, T) + SumOver(f, R)
  <2>1. \A x \in T \cup R : f[x] \in Int
    BY <1>1, <1>2
  <2>2. QED
    BY <1>1, <2>1, SumOfUnion
<1>5. SumOver(f, R) = 0
  <2> DEFINE Good == {U \in SUBSET R : SumOver(f, U) = 0}
  <2>1. {} \in Good
    BY SumOfNone
  <2>2. \A U \in SUBSET R, x \in R : U \in Good /\ x \notin U => U \cup {x} \in Good
    <3> SUFFICES ASSUME NEW U \in SUBSET R, NEW x \in R, x \notin U, SumOver(f, U) = 0
                 PROVE  SumOver(f, U \cup {x}) = 0
      OBVIOUS
    <3>1. IsFiniteSet(U) /\ f[x] = 0 /\ \A y \in U \cup {x} : f[y] \in Int
      BY <1>1, <1>3, FS_Subset
    <3>2. SumOver(f, U \cup {x}) = SumOver(f, U) + f[x]
      BY <3>1, SumGrows
    <3>3. QED
      BY <3>1, <3>2
  <2>3. R \in Good
    <3> HIDE DEF Good
    <3> QED
      BY <1>1, <2>1, <2>2, SetInduction
  <2>4. QED
    BY <2>3
<1>6. SumOver(f, T) \in Int
  BY <1>1, <1>2, SumSplits
<1>7. QED
  <2>1. SumOver(f, S) = SumOver(f, T) + SumOver(f, R)
    BY <1>1, <1>4, Zenon
  <2>2. QED
    BY <1>5, <1>6, <2>1

\* A signal is its samples, and silent before and after them.
Signal(channel) == [i \in Int |-> IF i \in DOMAIN channel THEN channel[i] ELSE 0]

\* The product of a signal with itself, some samples later.
Overlap(x, n, s) == SumOver([i \in Int |-> x[i] * x[i + s]], 1..n)

\* A signal that is not silent resembles nothing as much as itself.
LEMMA SignalsResembleThemselves ==
  ASSUME NEW n \in Nat, NEW x, \A i \in Int : x[i] \in Int,
         \A i \in Int \ (1..n) : x[i] = 0, \E i \in 1..n : x[i] # 0,
         NEW s \in Int, s # 0
  PROVE  Overlap(x, n, s) \in Int /\ Overlap(x, n, 0) \in Int /\ Overlap(x, n, s) < Overlap(x, n, 0)
<1> DEFINE S == 1..n
           p == [i \in Int |-> x[i] * x[i + s]]
           e == [i \in Int |-> x[i] * x[i]]
           m == [i \in Int |-> x[i + s] * x[i + s]]
           q == [i \in Int |-> (x[i] - x[i + s]) * (x[i] - x[i + s])]
           both == [i \in Int |-> e[i] + m[i]]
           twice == [i \in Int |-> p[i] + p[i]]
<1>1. IsFiniteSet(S) /\ \A i \in S : i \in Int
  BY FS_Interval
<1>2. \A a \in Int : a * a \in Nat /\ (a # 0 => a * a > 0)
  OBVIOUS
<1>3. \A a, b \in Int : a * b \in Int /\ (a - b) * (a - b) + (a * b + a * b) = a * a + b * b
  OBVIOUS
<1>4. \A i \in Int : /\ e[i] \in Nat /\ m[i] \in Nat /\ q[i] \in Nat
                     /\ e[i] \in Int /\ m[i] \in Int /\ q[i] \in Int /\ p[i] \in Int /\ twice[i] \in Int
                     /\ both[i] = e[i] + m[i] /\ twice[i] = p[i] + p[i]
                     /\ both[i] = q[i] + twice[i]
  <2> SUFFICES ASSUME NEW i \in Int
               PROVE  /\ e[i] \in Nat /\ m[i] \in Nat /\ q[i] \in Nat
                      /\ e[i] \in Int /\ m[i] \in Int /\ q[i] \in Int /\ p[i] \in Int /\ twice[i] \in Int
                      /\ both[i] = e[i] + m[i] /\ twice[i] = p[i] + p[i]
                      /\ both[i] = q[i] + twice[i]
    OBVIOUS
  <2>1. x[i] \in Int /\ x[i + s] \in Int /\ x[i] - x[i + s] \in Int
    OBVIOUS
  <2>2. e[i] = x[i] * x[i] /\ m[i] = x[i + s] * x[i + s] /\ p[i] = x[i] * x[i + s]
        /\ q[i] = (x[i] - x[i + s]) * (x[i] - x[i + s])
    OBVIOUS
  <2>3. e[i] \in Nat /\ m[i] \in Nat /\ q[i] \in Nat /\ p[i] \in Int
    BY <1>2, <1>3, <2>1, <2>2
  <2>4. both[i] = e[i] + m[i] /\ twice[i] = p[i] + p[i]
    OBVIOUS
  <2>5. q[i] + (p[i] + p[i]) = e[i] + m[i]
    BY <1>3, <2>1, <2>2
  <2> HIDE DEF e, m, p, q, both, twice
  <2>6. QED
    BY <2>3, <2>4, <2>5
<1>5. Overlap(x, n, s) = SumOver(p, S)
  BY DEF Overlap
<1>6. Overlap(x, n, 0) = SumOver(e, S)
  <2> DEFINE f == [i \in Int |-> x[i] * x[i + 0]]
  <2>1. \A i \in S : f[i] = e[i]
    BY <1>1
  <2>2. Overlap(x, n, 0) = SumOver(f, S)
    BY DEF Overlap
  <2> HIDE DEF f, e, S
  <2>3. QED
    BY <1>1, <2>1, <2>2, SumOfEquals
<1>7. SumOver(m, S) <= SumOver(e, S) /\ SumOver(m, S) \in Int
  <2> DEFINE h == [i \in S |-> i + s]
             R == {h[i] : i \in S}
             U == S \cup R
  <2>1. \A i, j \in S : h[i] = h[j] => i = j
    BY <1>1
  <2>2. \A i \in S : m[i] \in Int /\ e[h[i]] = m[i] /\ h[i] \in Int
    <3>1. \A i \in S : h[i] \in Int /\ e[h[i]] = m[i]
      BY <1>1
    <3>2. QED
      BY <1>1, <1>4, <3>1, Zenon
  <2>3. \A i \in Int \ S : e[i] = 0
    OBVIOUS
  <2>4. IsFiniteSet(R)
    <3>1. h \in Surjection(S, R)
      BY DEF Surjection
    <3> HIDE DEF R, h, S
    <3>2. QED
      BY <1>1, <3>1, FS_Surjection
  <2> HIDE DEF h, S, e, m
  <2>5. SumOver(m, S) = SumOver(e, R)
    BY <1>1, <2>1, <2>2, SumOfImage
  <2>6. R \subseteq Int
    BY <2>2
  <2> HIDE DEF R
  <2>7. IsFiniteSet(U) /\ IsFiniteSet(U \ R) /\ R \cap (U \ R) = {} /\ R \cup (U \ R) = U
    BY <1>1, <2>4, FS_Union, FS_Subset
  <2>8. \A i \in U : e[i] \in Nat
    BY <1>1, <1>4, <2>6
  <2>9. SumOver(e, U) = SumOver(e, S)
    <3>1. \A i \in U \ S : e[i] = 0
      BY <2>3, <2>6
    <3>2. \A i \in S : e[i] \in Int
      BY <1>1, <1>4, Zenon
    <3>3. S \in SUBSET U
      OBVIOUS
    <3> HIDE DEF U
    <3>4. QED
      BY <2>7, <3>1, <3>2, <3>3, SumOfSupport
  <2> HIDE DEF U
  <2> DEFINE V == U \ R
  <2>10. SumOver(e, R \cup V) = SumOver(e, R) + SumOver(e, V)
    <3>1. \A i \in R \cup V : e[i] \in Int
      BY <2>7, <2>8
    <3> HIDE DEF V
    <3>2. QED
      BY <2>4, <2>7, <3>1, SumOfUnion DEF V
  <2>11. SumOver(e, V) \in Nat
    <3>1. \A i \in V : e[i] \in Nat
      BY <2>8
    <3> HIDE DEF V
    <3>2. QED
      BY <2>7, <3>1, SumOfNaturals DEF V
  <2>12. SumOver(e, R) \in Int
    <3>1. \A i \in R : e[i] \in Int
      BY <1>4, <2>6, Zenon
    <3>2. QED
      BY <2>4, <3>1, SumSplits
  <2>13. R \cup V = U
    BY <2>7
  <2> HIDE DEF V
  <2>14. SumOver(e, S) = SumOver(e, R) + SumOver(e, V)
    BY <2>9, <2>10, <2>13, Zenon
  <2>15. QED
    BY <2>5, <2>11, <2>12, <2>14
<1>8. \E i \in S : q[i] > 0
  <2> DEFINE H == {i \in S : x[i] # 0}
             ext == [i \in H |-> IF s > 0 THEN i ELSE -i]
  <2>1. IsFiniteSet(H) /\ H # {} /\ \A i \in H : ext[i] \in Int
    BY <1>1, FS_Subset
  <2> HIDE DEF H
  <2>2. PICK i \in H : \A j \in H : ext[j] <= ext[i]
    <3> HIDE DEF ext
    <3> QED
      BY <2>1, LargestValue
  <2>3. i \in Int /\ i + s \in Int /\ i \in S
    BY <1>1 DEF H
  <2>4. i + s \notin H
    <3> SUFFICES ASSUME i + s \in H PROVE FALSE
      OBVIOUS
    <3>1. ext[i + s] <= ext[i]
      BY <2>2
    <3>2. CASE s > 0
      BY <2>3, <3>1, <3>2
    <3>3. CASE s < 0
      BY <2>3, <3>1, <3>3
    <3>4. QED
      BY <3>2, <3>3
  <2>5. x[i + s] = 0
    BY <2>3, <2>4 DEF H
  <2>6. x[i] # 0 /\ x[i] \in Int
    BY <2>3 DEF H
  <2>7. q[i] = (x[i] - 0) * (x[i] - 0)
    BY <2>3, <2>5
  <2>8. q[i] > 0
    <3>1. x[i] - 0 = x[i]
      BY <2>6
    <3>2. QED
      BY <1>2, <2>6, <2>7, <3>1
  <2>9. QED
    BY <2>3, <2>8
<1> HIDE DEF S, e, m, p, q, both, twice
<1>9. SumOver(q, S) > 0 /\ SumOver(q, S) \in Int
  <2>1. PICK i \in S : q[i] > 0
    BY <1>8
  <2>2. \A j \in S : q[j] \in Nat
    BY <1>1, <1>4, Zenon
  <2>3. q[i] <= SumOver(q, S) /\ SumOver(q, S) \in Nat
    BY <1>1, <2>2, SumIsLarge, SumOfNaturals
  <2>4. q[i] \in Nat
    BY <2>2
  <2>5. QED
    BY <2>1, <2>3, <2>4
<1>10. SumOver(e, S) \in Int /\ SumOver(p, S) \in Int
  <2>1. \A i \in S : e[i] \in Int /\ p[i] \in Int
    BY <1>1, <1>4, Zenon
  <2>2. QED
    BY <1>1, <2>1, SumSplits
<1>11. SumOver(both, S) = SumOver(e, S) + SumOver(m, S)
  <2>1. \A i \in S : e[i] \in Int /\ m[i] \in Int /\ both[i] = e[i] + m[i]
    BY <1>1, <1>4, Zenon
  <2>2. QED
    BY <1>1, <2>1, SumOfSums
<1>12. SumOver(twice, S) = SumOver(p, S) + SumOver(p, S)
  <2>1. \A i \in S : p[i] \in Int /\ twice[i] = p[i] + p[i]
    BY <1>1, <1>4, Zenon
  <2>2. QED
    BY <1>1, <2>1, SumOfSums
<1>13. SumOver(both, S) = SumOver(q, S) + SumOver(twice, S)
  <2>1. \A i \in S : q[i] \in Int /\ twice[i] \in Int /\ both[i] = q[i] + twice[i]
    BY <1>1, <1>4, Zenon
  <2>2. QED
    BY <1>1, <2>1, SumOfSums
<1>14. QED
  BY <1>5, <1>6, <1>7, <1>9, <1>10, <1>11, <1>12, <1>13

\* The score of a lag, when the right channel is the left one some samples later.
LEMMA ScoreOfShifted ==
  ASSUME NEW left \in Seq(Int), NEW right \in Seq(Int), Len(left) = Len(right),
         NEW d \in Int, \A i \in Int : Signal(right)[i + d] = Signal(left)[i], NEW k \in Int
  PROVE  Score(left, right, k) = Overlap(Signal(left), Len(left), k - d)
<1> DEFINE n == Len(left)
           x == Signal(left)
           y == Signal(right)
           s == k - d
           T == {i \in DOMAIN left : i + k \in DOMAIN right}
           g == [i \in T |-> left[i] * right[i + k]]
           f == [i \in Int |-> x[i] * x[i + s]]
<1>1. n \in Nat /\ DOMAIN left = 1..n /\ DOMAIN right = 1..n
  OBVIOUS
<1>2. \A i \in 1..n : i \in Int /\ left[i] \in Int /\ right[i] \in Int
  BY <1>1
<1>3. \A i \in Int : /\ i \in 1..n => x[i] = left[i] /\ y[i] = right[i]
                     /\ i \notin 1..n => x[i] = 0 /\ y[i] = 0
                     /\ x[i] \in Int /\ y[i] \in Int
  BY <1>1, <1>2 DEF Signal
<1>4. \A i \in Int : y[i + d] = x[i]
  OBVIOUS
<1> HIDE DEF n, x, y
<1>5. \A i \in Int : x[i + s] = y[i + k]
  <2> SUFFICES ASSUME NEW i \in Int PROVE x[i + s] = y[i + k]
    OBVIOUS
  <2>1. i + s \in Int /\ (i + s) + d = i + k
    OBVIOUS
  <2> HIDE DEF s
  <2>2. QED
    BY <1>4, <2>1
<1>6. T \in SUBSET (1..n) /\ IsFiniteSet(1..n) /\ IsFiniteSet(T)
  <2>1. T \in SUBSET (1..n)
    BY <1>1
  <2> HIDE DEF T
  <2>2. IsFiniteSet(1..n)
    BY <1>1, FS_Interval
  <2>3. QED
    BY <2>1, <2>2, FS_Subset
<1>7. \A i \in Int : f[i] = x[i] * y[i + k]
  BY <1>5
<1>8. \A i \in T : g[i] = f[i] /\ f[i] \in Int
  <2> SUFFICES ASSUME NEW i \in T PROVE g[i] = f[i] /\ f[i] \in Int
    OBVIOUS
  <2>1. i \in Int /\ i \in 1..n /\ i + k \in Int /\ i + k \in 1..n
    BY <1>1
  <2>2. f[i] = left[i] * right[i + k]
    BY <1>3, <1>7, <2>1
  <2>3. left[i] * right[i + k] \in Int
    BY <1>2, <2>1
  <2>4. QED
    BY <2>2, <2>3
<1>9. \A i \in (1..n) \ T : f[i] = 0
  <2> SUFFICES ASSUME NEW i \in (1..n) \ T PROVE f[i] = 0
    OBVIOUS
  <2>1. i \in Int /\ i + k \in Int /\ i + k \notin 1..n
    BY <1>1
  <2>2. f[i] = x[i] * 0 /\ x[i] \in Int
    BY <1>3, <1>7, <2>1
  <2>3. \A a \in Int : a * 0 = 0
    OBVIOUS
  <2> HIDE DEF f
  <2>4. QED
    BY <2>2, <2>3, Zenon
<1>10. Score(left, right, k) = SumFunction(g) /\ DOMAIN g = T
  BY DEF Score
<1>11. Overlap(x, n, s) = SumOver(f, 1..n)
  BY DEF Overlap
<1> HIDE DEF T, f, g
<1>12. SumFunction(g) = SumOver(g, T)
  BY <1>10 DEF SumFunction, SumOver
<1>13. SumOver(g, T) = SumOver(f, T)
  BY <1>6, <1>8, SumOfEquals
<1>14. SumOver(f, 1..n) = SumOver(f, T)
  BY <1>6, <1>8, <1>9, SumOfSupport
<1>15. Score(left, right, k) = Overlap(x, n, s)
  BY <1>10, <1>11, <1>12, <1>13, <1>14
<1>16. QED
  BY <1>15 DEF n, x

\* The samples of a channel that are not silent.
Heard(channel) == {i \in DOMAIN channel : channel[i] # 0}

\* A sound is found at the lag it comes with.
LEMMA DelayIsFound ==
  ASSUME NEW left \in Seq(Int), NEW right \in Seq(Int), Len(left) = Len(right),
         NEW d \in -MaxLag..MaxLag, Heard(left) # {},
         Heard(right) = {i + d : i \in Heard(left)},
         \A i \in Heard(left) : right[i + d] = left[i]
  PROVE  EstimateStereoDelay(left, right) = d
<1> DEFINE n == Len(left)
           x == Signal(left)
           y == Signal(right)
<1>1. n \in Nat /\ DOMAIN left = 1..n /\ DOMAIN right = 1..n
  OBVIOUS
<1>2. \A i \in 1..n : i \in Int /\ left[i] \in Int /\ right[i] \in Int
  OBVIOUS
<1>3. d \in Int
  BY DEF MaxLag
<1>4. \A i \in Int : /\ i \in Heard(left) => i \in 1..n /\ x[i] = left[i] /\ x[i] # 0
                     /\ i \notin Heard(left) => x[i] = 0
                     /\ i \in Heard(right) => y[i] = right[i]
                     /\ i \notin Heard(right) => y[i] = 0
  BY <1>1 DEF Signal, Heard
<1>5. \A i \in Int : x[i] \in Int
  BY <1>1, <1>2 DEF Signal
<1>6. \A i \in Int \ (1..n) : x[i] = 0
  BY <1>1 DEF Signal
<1>7. \A i \in Int : i \in Heard(left) <=> i + d \in Heard(right)
  <2>1. \A i \in Heard(left) : i \in Int
    BY <1>1 DEF Heard
  <2>2. QED
    BY <1>3, <2>1
<1>8. \A i \in Int : y[i + d] = x[i]
  <2> SUFFICES ASSUME NEW i \in Int PROVE y[i + d] = x[i]
    OBVIOUS
  <2>1. i + d \in Int
    BY <1>3
  <2>2. CASE i \in Heard(left)
    <3>1. y[i + d] = right[i + d] /\ x[i] = left[i]
      BY <1>4, <1>7, <2>1, <2>2
    <3>2. QED
      BY <2>2, <3>1
  <2>3. CASE i \notin Heard(left)
    BY <1>4, <1>7, <2>1, <2>3
  <2>4. QED
    BY <2>2, <2>3
<1>9. \A k \in -MaxLag..MaxLag : k \in Int /\ Score(left, right, k) = Overlap(x, n, k - d)
  <2>1. \A k \in -MaxLag..MaxLag : k \in Int
    BY DEF MaxLag
  <2>2. QED
    BY <1>3, <1>8, <2>1, ScoreOfShifted
<1>10. \E i \in 1..n : x[i] # 0
  BY <1>1, <1>4 DEF Heard
<1> DEFINE best == EstimateStereoDelay(left, right)
<1>11. best \in -MaxLag..MaxLag /\ Score(left, right, d) <= Score(left, right, best)
  BY DelayFacts
<1> HIDE DEF n, x, y, best
<1>12. SUFFICES ASSUME best # d PROVE FALSE
  BY DEF best
<1>13. best \in Int /\ best - d \in Int /\ best - d # 0 /\ d - d = 0
  BY <1>3, <1>9, <1>11, <1>12
<1> DEFINE s == best - d
<1>14. s \in Int /\ s # 0
  BY <1>13
<1>15. Score(left, right, best) = Overlap(x, n, s) /\ Score(left, right, d) = Overlap(x, n, 0)
  BY <1>9, <1>11, <1>13
<1> HIDE DEF s
<1>16. Overlap(x, n, s) \in Int /\ Overlap(x, n, 0) \in Int /\ Overlap(x, n, s) < Overlap(x, n, 0)
  BY <1>1, <1>5, <1>6, <1>10, <1>14, SignalsResembleThemselves
<1>17. QED
  BY <1>11, <1>15, <1>16

\* The better of two offsets.
Misses(previous, current, i, d) ==
  AbsOf(current.at[i] - At(previous, (i % current.w) + d.x, (i \div current.w) + d.y))
Precedes(d, e) == d.y < e.y \/ (d.y = e.y /\ d.x <= e.x)
Offsets(radius) == [x : (-radius)..radius, y : (-radius)..radius]
IsBest(d, previous, current, i, radius) ==
  \A e \in Offsets(radius) :
    \/ Misses(previous, current, i, d) < Misses(previous, current, i, e)
    \/ Misses(previous, current, i, d) = Misses(previous, current, i, e) /\ Precedes(d, e)

\* Outside the frame there are the values of its border.
LEMMA AtFacts ==
  ASSUME NEW f, IsFrame(f), NEW x \in Int, NEW y \in Int
  PROVE  At(f, x, y) \in PixelValues(f) /\ At(f, x, y) \in Int
<1> DEFINE c == Clamp(x, 0, f.w - 1)
           r == Clamp(y, 0, f.h - 1)
<1>1. f.w \in Nat \ {0} /\ f.h \in Nat \ {0}
  BY DEF IsFrame
<1>2. c \in 0..(f.w - 1) /\ r \in 0..(f.h - 1)
  BY <1>1 DEF Clamp, AtLeast, AtMost
<1> HIDE DEF c, r
<1>3. r * f.w + c \in Indexes(f)
  BY <1>1, <1>2, CellFacts DEF Indexes
<1>4. At(f, x, y) = f.at[r * f.w + c]
  BY DEF At, c, r
<1>5. QED
  BY <1>3, <1>4 DEF PixelValues, IsFrame

\* The miss of an offset is a natural number.
LEMMA MissesFacts ==
  ASSUME NEW previous, IsFrame(previous), NEW current, IsFrame(current),
         current.w = previous.w, current.h = previous.h,
         NEW i \in Indexes(current), NEW d, d.x \in Int, d.y \in Int
  PROVE  Misses(previous, current, i, d) \in Nat
<1> DEFINE x == (i % current.w) + d.x
           y == (i \div current.w) + d.y
<1>1. current.w \in Nat \ {0} /\ current.h \in Nat \ {0} /\ current.at[i] \in Int
  BY DEF IsFrame
<1>2. x \in Int /\ y \in Int
  <2>1. i % current.w \in 0..(current.w - 1) /\ i \div current.w \in 0..(current.h - 1)
    BY <1>1, IndexFacts DEF Indexes
  <2>2. QED
    BY <1>1, <2>1
<1> HIDE DEF x, y
<1>3. At(previous, x, y) \in Int
  BY <1>2, AtFacts
<1>4. Misses(previous, current, i, d) = AbsOf(current.at[i] - At(previous, x, y))
  BY DEF Misses, x, y
<1>5. QED
  BY <1>1, <1>3, <1>4 DEF AbsOf, AtLeast

\* There is a best offset, and only one.
LEMMA BestFacts ==
  ASSUME NEW previous, IsFrame(previous), NEW current, IsFrame(current),
         current.w = previous.w, current.h = previous.h,
         NEW i \in Indexes(current), NEW radius \in 1..4
  PROVE  /\ \E d \in Offsets(radius) : IsBest(d, previous, current, i, radius)
         /\ \A d, e \in Offsets(radius) : IsBest(d, previous, current, i, radius)
                                          /\ IsBest(e, previous, current, i, radius) => d = e
<1> DEFINE S == Offsets(radius)
           M(d) == Misses(previous, current, i, d)
           f == [d \in S |-> -(1000 * M(d) + 20 * d.y + d.x)]
<1>1. \A d \in S : d.x \in Int /\ d.y \in Int /\ -4 <= d.x /\ d.x <= 4 /\ -4 <= d.y /\ d.y <= 4
  BY DEF Offsets
<1>2. IsFiniteSet(S) /\ S # {}
  <2> DEFINE R == (-radius)..radius
             g == [p \in R \X R |-> [x |-> p[1], y |-> p[2]]]
  <2>1. IsFiniteSet(R) /\ 0 \in R
    BY FS_Interval
  <2>2. g \in Surjection(R \X R, [x : R, y : R])
    <3>1. g \in [R \X R -> [x : R, y : R]]
      OBVIOUS
    <3>2. ASSUME NEW d \in [x : R, y : R] PROVE \E p \in R \X R : g[p] = d
      <4>1. <<d.x, d.y>> \in R \X R /\ g[<<d.x, d.y>>] = d
        OBVIOUS
      <4>2. QED
        BY <4>1
    <3> HIDE DEF g, R
    <3>3. QED
      BY <3>1, <3>2 DEF Surjection
  <2>3. S = [x : R, y : R] /\ [x |-> 0, y |-> 0] \in S
    BY <2>1 DEF Offsets
  <2> HIDE DEF R, g, S
  <2>4. IsFiniteSet(R \X R)
    BY <2>1, FS_Product
  <2>5. QED
    BY <2>2, <2>3, <2>4, FS_Surjection
<1>3. \A d \in S : M(d) \in Nat
  BY <1>1, MissesFacts
<1> HIDE DEF M
<1>4. \A d \in S : f[d] \in Int /\ f[d] = -(1000 * M(d) + 20 * d.y + d.x)
  BY <1>1, <1>3
<1> HIDE DEF S, f
<1>5. PICK d \in S : \A e \in S : f[e] <= f[d]
  BY <1>2, <1>4, LargestValue
<1>6. IsBest(d, previous, current, i, radius)
  <2> SUFFICES ASSUME NEW e \in S
               PROVE  M(d) < M(e) \/ (M(d) = M(e) /\ Precedes(d, e))
    BY DEF IsBest, M, S
  <2>1. f[e] <= f[d]
    BY <1>5
  <2>2. 1000 * M(d) + 20 * d.y + d.x <= 1000 * M(e) + 20 * e.y + e.x
    BY <1>1, <1>3, <1>4, <2>1
  <2>3. M(d) <= M(e)
    BY <1>1, <1>3, <2>2
  <2>4. ASSUME M(d) = M(e) PROVE Precedes(d, e)
    <3> DEFINE a == d.x
               b == d.y
               g == e.x
               h == e.y
               m == M(d)
    <3>1. /\ a \in Int /\ b \in Int /\ g \in Int /\ h \in Int /\ m \in Int
          /\ -4 <= a /\ a <= 4 /\ -4 <= g /\ g <= 4
      BY <1>1, <1>3
    <3>2. 1000 * m + 20 * b + a <= 1000 * m + 20 * h + g
      BY <2>2, <2>4
    <3> HIDE DEF a, b, g, h, m
    <3>3. b < h \/ (b = h /\ a <= g)
      BY <3>1, <3>2
    <3>4. QED
      BY <3>3 DEF Precedes, a, b, g, h
  <2>5. QED
    BY <1>3, <2>3, <2>4
<1>7. ASSUME NEW a \in S, NEW b \in S,
             IsBest(a, previous, current, i, radius), IsBest(b, previous, current, i, radius)
      PROVE  a = b
  <2>1. M(a) < M(b) \/ (M(a) = M(b) /\ Precedes(a, b))
    BY <1>7 DEF IsBest, M, S
  <2>2. M(b) < M(a) \/ (M(b) = M(a) /\ Precedes(b, a))
    BY <1>7 DEF IsBest, M, S
  <2>3. Precedes(a, b) /\ Precedes(b, a)
    BY <1>3, <2>1, <2>2
  <2>4. a.x = b.x /\ a.y = b.y
    BY <1>1, <2>3 DEF Precedes
  <2>5. QED
    BY <2>4 DEF S, Offsets
<1>8. QED
  BY <1>5, <1>6, <1>7 DEF S

\* The vector of a pixel is its best offset.
LEMMA BestOffsetIs ==
  ASSUME NEW previous, IsFrame(previous), NEW current, IsFrame(current),
         current.w = previous.w, current.h = previous.h,
         NEW i \in Indexes(current), NEW radius \in 1..4,
         NEW d \in Offsets(radius), IsBest(d, previous, current, i, radius)
  PROVE  BestOffset(previous, current, i, radius)
           = [x |-> d.x, y |-> d.y, confidence |-> RoundDiv(10000, 1 + Misses(previous, current, i, d))]
<1> DEFINE best == CHOOSE e \in Offsets(radius) : IsBest(e, previous, current, i, radius)
<1>1. BestOffset(previous, current, i, radius)
        = [x |-> best.x, y |-> best.y,
           confidence |-> RoundDiv(10000, 1 + Misses(previous, current, i, best))]
  BY DEF BestOffset, IsBest, Misses, Precedes, Offsets
<1>2. best = d
  <2>1. best \in Offsets(radius) /\ IsBest(best, previous, current, i, radius)
    OBVIOUS
  <2> HIDE DEF best
  <2>2. QED
    BY <2>1, BestFacts
<1> HIDE DEF best
<1>3. QED
  BY <1>1, <1>2

\* A larger miss gives no more confidence.
LEMMA ConfidenceFalls ==
  ASSUME NEW a \in Nat, NEW b \in Nat, a <= b
  PROVE  RoundDiv(10000, 1 + b) <= RoundDiv(10000, 1 + a)
<1> DEFINE p == 1 + a
           q == 1 + b
           m == (20000 + p) \div (2 * p)
           n == (20000 + q) \div (2 * q)
<1>1. p \in Nat \ {0} /\ q \in Nat \ {0} /\ p <= q
  OBVIOUS
<1>2. RoundDiv(10000, 1 + a) = m /\ RoundDiv(10000, 1 + b) = n
  BY DEF RoundDiv
<1> HIDE DEF p, q
<1>3. /\ m \in Int /\ 20000 + p < (2 * p) * m + 2 * p
      /\ n \in Int /\ (2 * q) * n <= 20000 + q
  <2> DEFINE c == 20000 + p
             d == 20000 + q
             f == 2 * p
             g == 2 * q
  <2>1. f \in Nat \ {0} /\ g \in Nat \ {0} /\ c \in Int /\ d \in Int
    BY <1>1
  <2> HIDE DEF c, d, f, g
  <2>2. /\ c \div f \in Int /\ c < f * (c \div f) + f
        /\ d \div g \in Int /\ g * (d \div g) <= d
    BY <2>1, QuotientFacts
  <2>3. QED
    BY <2>2 DEF c, d, f, g
<1> HIDE DEF m, n
<1>4. SUFFICES ASSUME m < n PROVE FALSE
  BY <1>2, <1>3
<1>5. m >= 0
  <2>1. \A k \in Int : k < 0 => (2 * p) * k <= 0 - 2 * p
    BY <1>1
  <2>2. QED
    BY <1>1, <1>3, <2>1
<1>6. q * (2 * m + 1) <= 20000
  <2>1. \A k \in Int : m + 1 <= k => (2 * q) * (m + 1) <= (2 * q) * k
    BY <1>1, <1>3
  <2>2. (2 * q) * (m + 1) <= 20000 + q
    BY <1>1, <1>3, <1>4, <2>1
  <2>3. (2 * q) * (m + 1) = q * (2 * m + 1) + q
    BY <1>1, <1>3
  <2>4. q * (2 * m + 1) \in Int /\ (2 * q) * (m + 1) \in Int
    BY <1>1, <1>3
  <2>5. QED
    BY <1>1, <2>2, <2>3, <2>4
<1>7. p * (2 * m + 1) <= q * (2 * m + 1)
  <2>1. 2 * m + 1 \in Nat
    BY <1>3, <1>5
  <2>2. QED
    BY <1>1, <2>1, ProductFacts
<1>8. (2 * p) * m + 2 * p = p * (2 * m + 1) + p
  BY <1>1, <1>3
<1>9. p * (2 * m + 1) \in Int /\ q * (2 * m + 1) \in Int
  BY <1>1, <1>3
<1>10. QED
  BY <1>1, <1>3, <1>6, <1>7, <1>8, <1>9

\* In a frame of different values, the value of a pixel that is not in the
\* first row or column is found nowhere to the left of it or above.
LEMMA ValuesAreUnique ==
  ASSUME NEW f, IsFrame(f), IsInjective(f.at),
         NEW c \in 1..(f.w - 1), NEW r \in 1..(f.h - 1),
         NEW x \in Int, NEW y \in Int, At(f, x, y) = At(f, c, r)
  PROVE  c <= x /\ r <= y
<1> DEFINE w == f.w
           h == f.h
           k == Clamp(x, 0, w - 1)
           l == Clamp(y, 0, h - 1)
<1>1. w \in Nat \ {0} /\ h \in Nat \ {0} /\ DOMAIN f.at = 0..(w * h - 1)
  BY DEF IsFrame, Indexes
<1>2. Clamp(c, 0, w - 1) = c /\ Clamp(r, 0, h - 1) = r
  BY <1>1 DEF Clamp, AtLeast, AtMost
<1>3. At(f, c, r) = f.at[r * w + c] /\ At(f, x, y) = f.at[l * w + k]
  BY <1>2 DEF At
<1>4. k \in 0..(w - 1) /\ l \in 0..(h - 1) /\ c \in 0..(w - 1) /\ r \in 0..(h - 1)
  BY <1>1, SMTT(40) DEF Clamp, AtLeast, AtMost
<1>5. /\ c \in Int /\ r \in Int /\ c > 0 /\ r > 0
      /\ k <= x \/ k = 0
      /\ l <= y \/ l = 0
  BY <1>1 DEF Clamp, AtLeast, AtMost
<1> HIDE DEF k, l
<1>6. /\ l * w + k \in 0..(w * h - 1) /\ (l * w + k) % w = k /\ (l * w + k) \div w = l
      /\ r * w + c \in 0..(w * h - 1) /\ (r * w + c) % w = c /\ (r * w + c) \div w = r
  <2> HIDE DEF w, h
  <2> QED
    BY <1>1, <1>4, CellFacts
<1>7. l * w + k = r * w + c
  BY <1>1, <1>3, <1>6 DEF IsInjective
<1>8. k = c /\ l = r
  BY <1>6, <1>7
<1>9. QED
  BY <1>5, <1>8

\* A pixel is found where it was.
LEMMA FlowIsFound ==
  ASSUME NEW previous, IsFrame(previous), NEW current, IsFrame(current),
         current.w = previous.w, current.h = previous.h, IsInjective(previous.at),
         NEW i \in Indexes(current), NEW radius \in 1..4, NEW d \in Offsets(radius),
         (i % previous.w) + d.x \in 1..(previous.w - 1),
         (i \div previous.w) + d.y \in 1..(previous.h - 1),
         current.at[i] = At(previous, (i % previous.w) + d.x, (i \div previous.w) + d.y)
  PROVE  IsBest(d, previous, current, i, radius)
<1> DEFINE x == i % previous.w
           y == i \div previous.w
<1>1. previous.w \in Nat \ {0} /\ previous.h \in Nat \ {0} /\ current.at[i] \in Int
  BY DEF IsFrame
<1>2. x \in Int /\ y \in Int
  <2>1. x \in 0..(previous.w - 1) /\ y \in 0..(previous.h - 1)
    BY <1>1, IndexFacts DEF Indexes
  <2>2. QED
    BY <1>1, <2>1
<1>3. /\ x + d.x \in 1..(previous.w - 1) /\ y + d.y \in 1..(previous.h - 1)
      /\ current.at[i] = At(previous, x + d.x, y + d.y)
  OBVIOUS
<1>4. \A e : Misses(previous, current, i, e) = AbsOf(current.at[i] - At(previous, x + e.x, y + e.y))
  BY DEF Misses
<1>5. \A e \in Offsets(radius) : e.x \in Int /\ e.y \in Int
  BY DEF Offsets
<1>6. \A e \in Offsets(radius) : Misses(previous, current, i, e) \in Nat
  BY <1>5, MissesFacts
<1> HIDE DEF x, y
<1>7. Misses(previous, current, i, d) = 0
  BY <1>1, <1>3, <1>4 DEF AbsOf, AtLeast
<1> SUFFICES ASSUME NEW e \in Offsets(radius),
                    ~(Misses(previous, current, i, d) < Misses(previous, current, i, e))
             PROVE  Misses(previous, current, i, d) = Misses(previous, current, i, e)
                    /\ Precedes(d, e)
  BY DEF IsBest
<1>8. Misses(previous, current, i, e) = 0
  BY <1>6, <1>7
<1>9. At(previous, x + e.x, y + e.y) = At(previous, x + d.x, y + d.y)
  <2> DEFINE v == At(previous, x + e.x, y + e.y)
             u == current.at[i]
  <2>1. v \in Int
    <3>1. x + e.x \in Int /\ y + e.y \in Int
      BY <1>2, <1>5
    <3>2. QED
      BY <3>1, AtFacts
  <2>2. AbsOf(u - v) = 0 /\ u \in Int
    BY <1>1, <1>4, <1>8
  <2> HIDE DEF u, v
  <2>3. u = v
    BY <2>1, <2>2 DEF AbsOf, AtLeast
  <2>4. QED
    BY <1>3, <2>3 DEF u, v
<1>10. x + d.x <= x + e.x /\ y + d.y <= y + e.y
  <2>1. x + e.x \in Int /\ y + e.y \in Int
    BY <1>2, <1>5
  <2>2. QED
    BY <1>3, <1>9, <2>1, ValuesAreUnique
<1>11. d.x <= e.x /\ d.y <= e.y
  BY <1>2, <1>5, <1>10
<1>12. Precedes(d, e)
  BY <1>5, <1>11 DEF Precedes
<1>13. QED
  BY <1>7, <1>8, <1>12

\* Staying where it was is one of the offsets of a pixel.
LEMMA FlowIsNoWorse ==
  ASSUME NEW previous, IsFrame(previous), NEW current, IsFrame(current),
         current.w = previous.w, current.h = previous.h,
         NEW i \in Indexes(current), NEW radius \in 1..4,
         NEW d \in Offsets(radius), IsBest(d, previous, current, i, radius)
  PROVE  LET still == AbsOf(current.at[i] - previous.at[i]) IN
         /\ still \in Nat
         /\ RoundDiv(10000, 1 + Misses(previous, current, i, d)) >= RoundDiv(10000, 1 + still)
<1> DEFINE none == [x |-> 0, y |-> 0]
           M(e) == Misses(previous, current, i, e)
           still == AbsOf(current.at[i] - previous.at[i])
<1>1. none \in Offsets(radius) /\ none.x = 0 /\ none.y = 0
  BY DEF Offsets
<1>2. d.x \in Int /\ d.y \in Int
  BY DEF Offsets
<1>3. M(d) \in Nat /\ M(none) \in Nat
  BY <1>1, <1>2, MissesFacts
<1>4. M(d) <= M(none)
  <2>1. M(d) < M(none) \/ M(d) = M(none)
    BY <1>1 DEF IsBest
  <2> HIDE DEF M
  <2>2. QED
    BY <1>3, <2>1
<1>5. M(none) = still
  <2> DEFINE w == previous.w
             h == previous.h
             x == i % w
             y == i \div w
  <2>1. w \in Nat \ {0} /\ h \in Nat \ {0}
    BY DEF IsFrame
  <2>2. x \in 0..(w - 1) /\ y \in 0..(h - 1) /\ i = y * w + x
    BY <2>1, IndexFacts DEF Indexes
  <2> HIDE DEF x, y
  <2>3. Clamp(x + 0, 0, w - 1) = x /\ Clamp(y + 0, 0, h - 1) = y
    BY <2>1, <2>2 DEF Clamp, AtLeast, AtMost
  <2>4. At(previous, x + 0, y + 0) = previous.at[i]
    BY <2>2, <2>3 DEF At
  <2>5. M(none) = AbsOf(current.at[i] - At(previous, x + 0, y + 0))
    BY <1>1 DEF Misses, x, y
  <2>6. QED
    BY <2>4, <2>5
<1> HIDE DEF M, still
<1>6. RoundDiv(10000, 1 + still) <= RoundDiv(10000, 1 + M(d))
  BY <1>3, <1>4, <1>5, ConfidenceFalls
<1>7. RoundDiv(10000, 1 + still) \in Int /\ RoundDiv(10000, 1 + M(d)) \in Int
  <2> DEFINE all == 10000
             a == 1 + still
             b == 1 + M(d)
  <2>1. all \in Int /\ a \in Nat \ {0} /\ b \in Nat \ {0}
    BY <1>3, <1>5
  <2> HIDE DEF all, a, b
  <2>2. RoundDiv(all, a) \in Int /\ RoundDiv(all, b) \in Int
    BY <2>1, RoundDivIsOdd
  <2>3. QED
    BY <2>2 DEF all, a, b
<1>8. QED
  BY <1>3, <1>5, <1>6, <1>7 DEF M, still

\* The cell to the left or to the right of a cell, and points that all moved to one side.
Beside(cell, side) == [cell EXCEPT !.x = IF side > 0 THEN @ + 1 ELSE @ - 1]
Shifted(points, side) == [i \in DOMAIN points |-> [points[i] EXCEPT !.x = @ + side]]

\* Points that move by one cell are in the next cells, and visit them as often.
LEMMA HashFollows ==
  ASSUME NEW points, \A i \in DOMAIN points : points[i] \in [x : Int, y : Int],
         NEW cellSize \in Int, NEW side, side = -AtLeast(1, cellSize) \/ side = AtLeast(1, cellSize),
         NEW i \in DOMAIN points
  PROVE  LET moved == QuantizeSpatialHash(Shifted(points, side), cellSize)
             still == QuantizeSpatialHash(points, cellSize)
         IN  /\ moved.cells[i] = Beside(still.cells[i], side)
             /\ moved.visits[moved.cells[i]] = still.visits[still.cells[i]]
<1> DEFINE size == AtLeast(1, cellSize)
           sign == IF side > 0 THEN 1 ELSE -1
           shifted == Shifted(points, side)
           moved == QuantizeSpatialHash(shifted, cellSize)
           still == QuantizeSpatialHash(points, cellSize)
           D == DOMAIN points
<1>0. side \in Int /\ sign \in {-1, 1} /\ side = sign * size
  BY DEF AtLeast
<1>1. size \in Nat \ {0} /\ \A p : CellOf(p, cellSize) = [x |-> p.x \div size, y |-> p.y \div size]
  BY DEF AtLeast, CellOf
<1>2. \A j \in D : points[j].x \in Int /\ points[j].y \in Int
  OBVIOUS
<1>3. \A j \in D : shifted[j].x = points[j].x + side /\ shifted[j].y = points[j].y
  BY DEF Shifted
<1>4. /\ still.cells = [j \in D |-> CellOf(points[j], cellSize)]
      /\ moved.cells = [j \in D |-> CellOf(shifted[j], cellSize)]
      /\ still.visits = [c \in {still.cells[j] : j \in D} |-> Cardinality({j \in D : still.cells[j] = c})]
      /\ moved.visits = [c \in {moved.cells[j] : j \in D} |-> Cardinality({j \in D : moved.cells[j] = c})]
  BY DEF QuantizeSpatialHash, Shifted
<1> HIDE DEF size, shifted, moved, still, sign
<1>5. \A a \in Int : a \div size \in Int /\ (a + side) \div size = (a \div size) + sign
  <2> SUFFICES ASSUME NEW a \in Int
               PROVE  a \div size \in Int /\ (a + side) \div size = (a \div size) + sign
    OBVIOUS
  <2> DEFINE q == a \div size
  <2>1. q \in Int /\ size * q <= a /\ a < size * q + size
    BY <1>1, QuotientFacts
  <2> HIDE DEF q
  <2>2. size * (q + sign) = size * q + side /\ side \in Int /\ size * q \in Int
    <3>1. CASE sign = 1
      BY <1>0, <1>1, <2>1, <3>1
    <3>2. CASE sign = -1
      BY <1>0, <1>1, <2>1, <3>2
    <3>3. QED
      BY <1>0, <3>1, <3>2
  <2>3. size * (q + sign) <= a + side /\ a + side < size * (q + sign) + size
    BY <1>1, <2>1, <2>2
  <2>4. (a + side) \div size = q + sign
    <3>1. q + sign \in Int /\ a + side \in Int
      BY <1>0, <2>1
    <3>2. QED
      BY <1>1, <2>3, <3>1, QuotientIs
  <2>5. QED
    BY <2>1, <2>4 DEF q
<1>6. \A j \in D : /\ still.cells[j] = [x |-> points[j].x \div size, y |-> points[j].y \div size]
                   /\ moved.cells[j] = [x |-> (points[j].x \div size) + sign, y |-> points[j].y \div size]
                   /\ points[j].x \div size \in Int
  <2> SUFFICES ASSUME NEW j \in D
               PROVE  /\ still.cells[j] = [x |-> points[j].x \div size, y |-> points[j].y \div size]
                      /\ moved.cells[j] = [x |-> (points[j].x \div size) + sign, y |-> points[j].y \div size]
                      /\ points[j].x \div size \in Int
    OBVIOUS
  <2>1. still.cells[j] = CellOf(points[j], cellSize) /\ moved.cells[j] = CellOf(shifted[j], cellSize)
    BY <1>4
  <2>2. shifted[j].x \div size = (points[j].x \div size) + sign /\ points[j].x \div size \in Int
    BY <1>2, <1>3, <1>5
  <2>3. shifted[j].y \div size = points[j].y \div size
    BY <1>3
  <2>4. QED
    BY <1>1, <2>1, <2>2, <2>3
<1>7. \A j \in D : moved.cells[j] = moved.cells[i] <=> still.cells[j] = still.cells[i]
  <2> SUFFICES ASSUME NEW j \in D
               PROVE  moved.cells[j] = moved.cells[i] <=> still.cells[j] = still.cells[i]
    OBVIOUS
  <2> DEFINE a == points[j].x \div size
             b == points[j].y \div size
             c == points[i].x \div size
             d == points[i].y \div size
  <2>1. /\ still.cells[j] = [x |-> a, y |-> b] /\ moved.cells[j] = [x |-> a + sign, y |-> b]
        /\ still.cells[i] = [x |-> c, y |-> d] /\ moved.cells[i] = [x |-> c + sign, y |-> d]
        /\ a \in Int /\ c \in Int
    BY <1>6
  <2> HIDE DEF a, b, c, d
  <2>2. a + sign = c + sign <=> a = c
    BY <1>0, <2>1
  <2>3. /\ [x |-> a, y |-> b] = [x |-> c, y |-> d] <=> a = c /\ b = d
        /\ [x |-> a + sign, y |-> b] = [x |-> c + sign, y |-> d] <=> a + sign = c + sign /\ b = d
    OBVIOUS
  <2>4. QED
    BY <2>1, <2>2, <2>3
<1>8. moved.visits[moved.cells[i]] = Cardinality({j \in D : moved.cells[j] = moved.cells[i]})
  BY <1>4
<1>9. still.visits[still.cells[i]] = Cardinality({j \in D : still.cells[j] = still.cells[i]})
  BY <1>4
<1>10. {j \in D : moved.cells[j] = moved.cells[i]} = {j \in D : still.cells[j] = still.cells[i]}
  BY <1>7
<1>11. moved.visits[moved.cells[i]] = still.visits[still.cells[i]]
  BY <1>8, <1>9, <1>10, Zenon
<1>12. moved.cells[i] = [still.cells[i] EXCEPT !.x = IF side > 0 THEN @ + 1 ELSE @ - 1]
  <2> DEFINE c == points[i].x \div size
             d == points[i].y \div size
  <2>1. still.cells[i] = [x |-> c, y |-> d] /\ moved.cells[i] = [x |-> c + sign, y |-> d] /\ c \in Int
    BY <1>6
  <2> HIDE DEF c, d
  <2>2. c + sign = IF side > 0 THEN c + 1 ELSE c - 1
    BY <2>1 DEF sign
  <2>3. QED
    BY <2>1, <2>2
<1>13. QED
  BY <1>11, <1>12 DEF moved, still, shifted, Beside

-----------------------------------------------------------------------------
(* The Kalman filter without process noise and control.                    *)

\* Inequalities of products.
LEMMA ProductsGrow ==
  /\ \A a, b, c, d \in Nat : a <= b /\ c <= d => a * c <= b * d
  /\ \A x \in Int, b, c \in Nat : -b <= x /\ x <= b => -(b * c) <= x * c /\ x * c <= b * c
  /\ \A x, y \in Int, d \in Nat \ {0} : x * d <= y * d => x <= y
  /\ \A x, y \in Int, c \in Nat : x <= y => x * c <= y * c
<1>1. ASSUME NEW a \in Nat, NEW b \in Nat, NEW c \in Nat, NEW d \in Nat, a <= b, c <= d
      PROVE  a * c <= b * d
  <2>1. a * c <= b * c
    BY <1>1
  <2>2. b * c <= b * d
    BY <1>1
  <2>3. a * c \in Int /\ b * c \in Int /\ b * d \in Int
    OBVIOUS
  <2>4. QED
    BY <2>1, <2>2, <2>3
<1>2. ASSUME NEW x \in Int, NEW b \in Nat, NEW c \in Nat, -b <= x, x <= b
      PROVE  -(b * c) <= x * c /\ x * c <= b * c
  <2>1. (-b) * c <= x * c /\ x * c <= b * c
    BY <1>2
  <2>2. (-b) * c = -(b * c)
    OBVIOUS
  <2>3. QED
    BY <2>1, <2>2
<1>3. ASSUME NEW x \in Int, NEW y \in Int, NEW d \in Nat \ {0}, x * d <= y * d
      PROVE  x <= y
  BY <1>3
<1>4. \A x, y \in Int, c \in Nat : x <= y => x * c <= y * c
  OBVIOUS
<1>5. QED
  BY <1>1, <1>2, <1>3, <1>4

\* A rounded quotient is off by at most a half.
LEMMA RoundingError ==
  ASSUME NEW a \in Int, NEW b \in Nat \ {0}
  PROVE  /\ RoundDiv(a, b) \in Int
         /\ \E e \in Int : /\ RoundDiv(a, b) * b = a + e
                           /\ -b <= 2 * e /\ 2 * e <= b
<1>1. ASSUME NEW n \in Nat
      PROVE  \E e \in Int : RoundDiv(n, b) * b = n + e /\ -b <= 2 * e /\ 2 * e <= b
  <2> DEFINE q == (2 * n + b) \div (2 * b)
  <2>1. 2 * b \in Nat \ {0} /\ 2 * n + b \in Int
    OBVIOUS
  <2>2. q \in Int /\ (2 * b) * q <= 2 * n + b /\ 2 * n + b < (2 * b) * q + 2 * b
    BY <2>1, QuotientFacts
  <2>3. RoundDiv(n, b) = q
    BY DEF RoundDiv
  <2> HIDE DEF q
  <2>4. (2 * b) * q = 2 * (q * b) /\ q * b \in Int
    BY <2>2
  <2> DEFINE e == q * b - n
  <2>5. e \in Int /\ q * b = n + e /\ -b <= 2 * e /\ 2 * e <= b
    BY <2>2, <2>4
  <2>6. QED
    BY <2>3, <2>5
<1>2. RoundDiv(a, b) \in Int /\ RoundDiv(-a, b) = -RoundDiv(a, b)
  BY RoundDivIsOdd
<1>3. CASE a >= 0
  <2>1. a \in Nat
    BY <1>3
  <2>2. \E e \in Int : RoundDiv(a, b) * b = a + e /\ -b <= 2 * e /\ 2 * e <= b
    BY <1>1, <2>1
  <2>3. QED
    BY <1>2, <2>2
<1>4. CASE a < 0
  <2>1. PICK e \in Int : RoundDiv(-a, b) * b = -a + e /\ -b <= 2 * e /\ 2 * e <= b
    BY <1>1, <1>4
  <2> DEFINE q == RoundDiv(a, b)
  <2>2. q \in Int /\ (-q) * b = -a + e
    BY <1>2, <2>1
  <2> HIDE DEF q
  <2>3. (-q) * b = -(q * b) /\ q * b \in Int
    BY <2>2
  <2>4. q * b = a + (-e) /\ -e \in Int /\ -b <= 2 * (-e) /\ 2 * (-e) <= b
    BY <2>1, <2>2, <2>3
  <2>5. QED
    BY <1>2, <2>4 DEF q
<1>5. QED
  BY <1>2, <1>3, <1>4

\* The covariance stays close to that of the batch.
LEMMA CovarianceStep ==
  ASSUME NEW r \in Nat \ {0}, NEW p \in Nat, NEW n \in Nat, NEW T \in Nat, T = r + n * p,
         NEW c \in Nat, -(n * T) <= 2 * (c * T - r * p), 2 * (c * T - r * p) <= n * T,
         NEW next \in Int, NEW e \in Int, next * (c + r) = r * c + e,
         -(c + r) <= 2 * e, 2 * e <= c + r
  PROVE  /\ -((n + 1) * (T + p)) <= 2 * (next * (T + p) - r * p)
         /\ 2 * (next * (T + p) - r * p) <= (n + 1) * (T + p)
<1> DEFINE D == c + r
           U == T + p
           g == c * T - r * p
           G == next * U - r * p
<1>1. D \in Nat \ {0} /\ U \in Nat /\ g \in Int /\ G \in Int /\ r <= D /\ T <= U
  OBVIOUS
<1>2. G * D = r * g + e * U
  <2>1. G * D = (next * D) * U - (r * p) * D
    BY <1>1
  <2>2. (next * D) * U = (r * c) * U + e * U
    OBVIOUS
  <2>3. (r * c) * U - (r * p) * D = r * g
    OBVIOUS
  <2>4. (r * c) * U \in Int /\ e * U \in Int /\ (r * p) * D \in Int /\ r * g \in Int
    BY <1>1
  <2>5. QED
    BY <2>1, <2>2, <2>3, <2>4
<1>3. -(n * T) <= 2 * g /\ 2 * g <= n * T /\ -D <= 2 * e /\ 2 * e <= D
  OBVIOUS
<1> HIDE DEF D, U, g, G
<1>4. -((n * T) * r) <= (2 * g) * r /\ (2 * g) * r <= (n * T) * r
  <2>1. n * T \in Nat /\ 2 * g \in Int
    BY <1>1, ProductFacts
  <2>2. QED
    BY <1>3, <2>1, ProductsGrow
<1>5. (n * T) * r <= (n * U) * D
  <2>1. n * T \in Nat /\ n * U \in Nat /\ n * T <= n * U
    BY <1>1, ProductFacts, ProductsGrow
  <2>2. QED
    BY <1>1, <2>1, ProductsGrow
<1>6. -(D * U) <= (2 * e) * U /\ (2 * e) * U <= D * U
  <2>1. 2 * e \in Int
    OBVIOUS
  <2>2. QED
    BY <1>1, <1>3, <2>1, ProductsGrow
<1>7. -(((n + 1) * U) * D) <= (2 * G) * D /\ (2 * G) * D <= ((n + 1) * U) * D
  <2>1. /\ (2 * G) * D = 2 * (G * D) /\ (2 * g) * r = 2 * (r * g) /\ (2 * e) * U = 2 * (e * U)
        /\ ((n + 1) * U) * D = (n * U) * D + D * U
    BY <1>1
  <2>2. /\ G * D \in Int /\ r * g \in Int /\ e * U \in Int /\ (n * U) * D \in Int /\ D * U \in Int
        /\ (n * T) * r \in Int
    BY <1>1
  <2>3. QED
    BY <1>2, <1>4, <1>5, <1>6, <2>1, <2>2
<1>8. -((n + 1) * U) <= 2 * G /\ 2 * G <= (n + 1) * U
  <2>1. (n + 1) * U \in Int /\ -((n + 1) * U) \in Int /\ 2 * G \in Int
    BY <1>1
  <2>2. (-((n + 1) * U)) * D = -(((n + 1) * U) * D)
    BY <1>1
  <2>3. QED
    BY <1>1, <1>7, <2>1, <2>2, ProductsGrow
<1>9. QED
  BY <1>8 DEF G, U

\* A product of two numbers is bounded by the product of their bounds.
LEMMA ProductIsBounded ==
  ASSUME NEW a \in Int, NEW b \in Nat, -b <= a, a <= b, NEW c \in Int, NEW d \in Nat, -d <= c, c <= d
  PROVE  -(b * d) <= a * c /\ a * c <= b * d
<1>1. CASE c >= 0
  <2>1. c \in Nat
    BY <1>1
  <2>2. -(b * c) <= a * c /\ a * c <= b * c
    BY <2>1, ProductsGrow
  <2>3. b * c <= b * d
    BY <2>1, ProductsGrow
  <2>4. a * c \in Int /\ b * c \in Int /\ b * d \in Int
    OBVIOUS
  <2>5. QED
    BY <2>2, <2>3, <2>4
<1>2. CASE c < 0
  <2> DEFINE f == -c
  <2>1. f \in Nat /\ f <= d /\ a * c = -(a * f)
    BY <1>2
  <2> HIDE DEF f
  <2>2. -(b * f) <= a * f /\ a * f <= b * f
    BY <2>1, ProductsGrow
  <2>3. b * f <= b * d
    BY <2>1, ProductsGrow
  <2>4. a * f \in Int /\ b * f \in Int /\ b * d \in Int
    BY <2>1
  <2>5. QED
    BY <2>1, <2>2, <2>3, <2>4
<1>3. QED
  BY <1>1, <1>2

\* The estimate stays close to that of the batch.
LEMMA EstimateStep ==
  ASSUME NEW r \in Nat \ {0}, NEW p \in Nat, NEW n \in Nat, NEW T \in Nat, T = r + n * p,
         NEW c \in Nat, -(n * T) <= 2 * (c * T - r * p), 2 * (c * T - r * p) <= n * T,
         NEW x \in Int, NEW m \in Int, NEW S \in Int,
         NEW s \in Nat, NEW z \in Nat, s <= z, -z <= m - x, m - x <= z,
         NEW k \in Nat, k = n * (n - 1),
         -((2 * (n * r) + k * s) * T) <= (4 * r) * (x * T - S),
         (4 * r) * (x * T - S) <= (2 * (n * r) + k * s) * T,
         NEW next \in Int, NEW e \in Int, next * (c + r) = x * (c + r) + c * (m - x) + e,
         -(c + r) <= 2 * e, 2 * e <= c + r
  PROVE  LET bound == (2 * ((n + 1) * r) + ((n + 1) * n) * z) * (T + p)
         IN  /\ -bound <= (4 * r) * (next * (T + p) - (S + p * m))
             /\ (4 * r) * (next * (T + p) - (S + p * m)) <= bound
<1> DEFINE D == c + r
           U == T + p
           g == c * T - r * p
           h == m - x
           E == x * T - S
           F == next * U - (S + p * m)
           B == 2 * (n * r) + k * s
           C == 2 * (n * r) + k * z
           G == 2 * ((n + 1) * r) + ((n + 1) * n) * z
<1>1. /\ D \in Nat \ {0} /\ U \in Nat /\ g \in Int /\ h \in Int /\ E \in Int /\ F \in Int
      /\ r <= D /\ T <= U
  OBVIOUS
<1>2. F * D = E * D + g * h + e * U
  <2>1. F * D = (next * D) * U - S * D - (p * m) * D
    OBVIOUS
  <2>2. (next * D) * U = (x * D) * U + (c * h) * U + e * U
    OBVIOUS
  <2>3. (x * D) * U + (c * h) * U - S * D - (p * m) * D = E * D + g * h
    OBVIOUS
  <2>4. /\ (next * D) * U \in Int /\ S * D \in Int /\ (p * m) * D \in Int /\ (x * D) * U \in Int
        /\ (c * h) * U \in Int /\ e * U \in Int /\ E * D \in Int /\ g * h \in Int
    BY <1>1
  <2>5. QED
    BY <2>1, <2>2, <2>3, <2>4
<1>3. /\ -(n * T) <= 2 * g /\ 2 * g <= n * T /\ -D <= 2 * e /\ 2 * e <= D
      /\ -z <= h /\ h <= z
      /\ -(B * T) <= (4 * r) * E /\ (4 * r) * E <= B * T
  OBVIOUS
<1>4. B \in Nat /\ C \in Nat /\ G \in Nat /\ B <= C /\ G * U = C * U + 2 * ((n * U) * z) + 2 * (r * U)
  <2>1. k * s \in Nat /\ k * z \in Nat /\ n * r \in Nat /\ k * s <= k * z
    BY ProductsGrow, ProductFacts
  <2>2. (n + 1) * r \in Nat /\ ((n + 1) * n) * z \in Nat
    <3>1. n + 1 \in Nat /\ (n + 1) * n \in Nat
      BY ProductFacts
    <3>2. QED
      BY <3>1, ProductFacts
  <2>3. ((n + 1) * n) * z = k * z + 2 * (n * z) /\ (n + 1) * r = n * r + r
    OBVIOUS
  <2>4. G = C + 2 * (n * z) + 2 * r
    <3>1. n * z \in Int
      OBVIOUS
    <3>2. QED
      BY <2>1, <2>3, <3>1
  <2>5. (C + 2 * (n * z) + 2 * r) * U = C * U + 2 * ((n * U) * z) + 2 * (r * U)
    BY <1>1, <2>1
  <2>6. QED
    BY <2>1, <2>2, <2>4, <2>5
<1> HIDE DEF D, U, g, h, E, F, B, C, G
<1>5. -((C * U) * D) <= ((4 * r) * E) * D /\ ((4 * r) * E) * D <= (C * U) * D
  <2>1. B * T \in Nat /\ C * U \in Nat /\ B * T <= C * U
    BY <1>1, <1>4, ProductFacts, ProductsGrow
  <2>2. (4 * r) * E \in Int /\ -(C * U) <= (4 * r) * E /\ (4 * r) * E <= C * U
    BY <1>1, <1>3, <2>1
  <2>3. QED
    BY <1>1, <2>1, <2>2, ProductsGrow
<1>6. -(((n * U) * z) * D) <= ((2 * g) * h) * r /\ ((2 * g) * h) * r <= ((n * U) * z) * D
  <2>1. n * T \in Nat /\ n * U \in Nat /\ n * T <= n * U
    BY <1>1, ProductFacts, ProductsGrow
  <2>2. 2 * g \in Int /\ -(n * U) <= 2 * g /\ 2 * g <= n * U
    BY <1>1, <1>3, <2>1
  <2>3. (n * U) * z \in Nat /\ (2 * g) * h \in Int
    BY <1>1, <2>1, <2>2, ProductFacts
  <2>4. -((n * U) * z) <= (2 * g) * h /\ (2 * g) * h <= (n * U) * z
    BY <1>1, <1>3, <2>1, <2>2, ProductIsBounded
  <2>5. /\ -(((n * U) * z) * r) <= ((2 * g) * h) * r /\ ((2 * g) * h) * r <= ((n * U) * z) * r
        /\ ((n * U) * z) * r <= ((n * U) * z) * D
    BY <1>1, <2>3, <2>4, ProductsGrow
  <2>6. ((2 * g) * h) * r \in Int /\ ((n * U) * z) * r \in Int /\ ((n * U) * z) * D \in Int
    BY <1>1, <2>3
  <2>7. QED
    BY <2>5, <2>6
<1>7. -((r * U) * D) <= ((2 * e) * U) * r /\ ((2 * e) * U) * r <= (r * U) * D
  <2>1. 2 * e \in Int /\ D * U \in Nat /\ (2 * e) * U \in Int
    BY <1>1, ProductFacts
  <2>2. -(D * U) <= (2 * e) * U /\ (2 * e) * U <= D * U
    BY <1>1, <1>3, <2>1, ProductsGrow
  <2>3. -((D * U) * r) <= ((2 * e) * U) * r /\ ((2 * e) * U) * r <= (D * U) * r
    BY <2>1, <2>2, ProductsGrow
  <2>4. (D * U) * r = (r * U) * D
    BY <1>1
  <2>5. QED
    BY <2>3, <2>4
<1>8. -((G * U) * D) <= ((4 * r) * F) * D /\ ((4 * r) * F) * D <= (G * U) * D
  <2>1. ((4 * r) * F) * D = ((4 * r) * E) * D + 2 * (((2 * g) * h) * r) + 2 * (((2 * e) * U) * r)
    <3>1. ((4 * r) * F) * D = (4 * r) * (F * D)
      BY <1>1
    <3>2. (4 * r) * (E * D + g * h + e * U)
            = ((4 * r) * E) * D + 2 * (((2 * g) * h) * r) + 2 * (((2 * e) * U) * r)
      BY <1>1
    <3>3. QED
      BY <1>2, <3>1, <3>2
  <2>2. (G * U) * D = (C * U) * D + 2 * (((n * U) * z) * D) + 2 * ((r * U) * D)
    <3>1. (C * U + 2 * ((n * U) * z) + 2 * (r * U)) * D
            = (C * U) * D + 2 * (((n * U) * z) * D) + 2 * ((r * U) * D)
      BY <1>1, <1>4
    <3>2. QED
      BY <1>4, <3>1
  <2>3. /\ ((4 * r) * E) * D \in Int /\ ((2 * g) * h) * r \in Int /\ ((2 * e) * U) * r \in Int
        /\ (C * U) * D \in Int /\ ((n * U) * z) * D \in Int /\ (r * U) * D \in Int
    BY <1>1, <1>4
  <2>4. QED
    BY <1>5, <1>6, <1>7, <2>1, <2>2, <2>3
<1>9. -(G * U) <= (4 * r) * F /\ (4 * r) * F <= G * U
  <2>1. G * U \in Int /\ -(G * U) \in Int /\ (4 * r) * F \in Int
    BY <1>1, <1>4
  <2>2. (-(G * U)) * D = -((G * U) * D)
    BY <1>1, <2>1
  <2>3. QED
    BY <1>1, <1>8, <2>1, <2>2, ProductsGrow
<1>10. QED
  BY <1>9 DEF F, G, U

\* What the bounds of the steps say after n of them.
LEMMA BatchBound ==
  ASSUME NEW r \in Nat \ {0}, NEW n \in Nat, NEW T \in Nat, NEW s \in Nat, NEW E \in Int,
         -((2 * (n * r) + (n * (n - 1)) * s) * T) <= (4 * r) * E,
         (4 * r) * E <= (2 * (n * r) + (n * (n - 1)) * s) * T
  PROVE  AbsOf(E) <= n * T * (1 + ((n * s) \div r))
<1> DEFINE k == (n * s) \div r
           B == 2 * (n * r) + (n * (n - 1)) * s
           C == n * (1 + k)
           W == C * T
<1>1. k \in Nat /\ n * s <= r * k + r
  <2>1. n * s \in Nat
    BY ProductFacts
  <2>2. k \in Int /\ r * k <= n * s /\ n * s < r * k + r
    BY <2>1, QuotientFacts
  <2> HIDE DEF k
  <2>3. k >= 0
    <3>1. 0 < r * k + r /\ r * k + r = (k + 1) * r /\ 0 * r = 0
      BY <2>1, <2>2
    <3>2. (k + 1) * r \in Int /\ k + 1 \in Int
      BY <2>2
    <3>3. CASE k + 1 <= 0
      <4> DEFINE j == -(k + 1)
      <4>1. j \in Nat /\ j * r = -((k + 1) * r)
        BY <2>2, <3>3
      <4> HIDE DEF j
      <4>2. j * r \in Nat
        BY <4>1, ProductFacts
      <4>3. QED
        BY <3>1, <3>2, <4>1, <4>2
    <3>4. QED
      BY <2>2, <3>2, <3>3
  <2>4. r * k \in Int
    BY <2>2
  <2>5. QED
    BY <2>2, <2>3, <2>4
<1>2. -(B * T) <= (4 * r) * E /\ (4 * r) * E <= B * T
  OBVIOUS
<1> HIDE DEF k
<1>3. C \in Nat /\ W \in Nat
  BY <1>1, ProductFacts
<1>4. B \in Nat /\ B <= (4 * r) * C
  <2>1. n * (n - 1) \in Nat /\ n * (n - 1) <= n * n /\ n * n \in Nat
    <3>1. CASE n = 0
      BY <3>1
    <3>2. CASE n # 0
      <4>1. n - 1 \in Nat /\ n - 1 <= n
        BY <3>2
      <4> DEFINE j == n - 1
      <4> HIDE DEF j
      <4>2. j \in Nat /\ j <= n
        BY <4>1 DEF j
      <4>3. n * j \in Nat /\ n * j <= n * n /\ n * n \in Nat
        BY <4>2, ProductFacts, ProductsGrow
      <4>4. QED
        BY <4>3 DEF j
    <3>3. QED
      BY <3>1, <3>2
  <2>2. (n * (n - 1)) * s \in Nat /\ (n * (n - 1)) * s <= (n * n) * s
    BY <2>1, ProductFacts, ProductsGrow
  <2>3. (n * n) * s <= n * (r * k + r)
    <3>1. (n * n) * s = n * (n * s)
      OBVIOUS
    <3>2. n * s \in Nat /\ r * k + r \in Nat
      BY <1>1, ProductFacts
    <3>3. n * (n * s) <= n * (r * k + r)
      BY <1>1, <3>2, ProductsGrow
    <3>4. QED
      BY <3>1, <3>3
  <2>4. n * r \in Nat /\ (n * r) * k \in Nat
    BY <1>1, ProductFacts
  <2>5. n * (r * k + r) = (n * r) * k + n * r /\ (4 * r) * C = 4 * ((n * r) * k) + 4 * (n * r)
    BY <1>1
  <2>6. (n * n) * s \in Int
    BY <2>1
  <2>7. QED
    BY <2>2, <2>3, <2>4, <2>5, <2>6
<1>5. n * T * (1 + k) = W
  BY <1>1
<1> HIDE DEF B, C
<1>6. B * T <= ((4 * r) * C) * T
  <2>1. (4 * r) * C \in Nat
    BY <1>3, ProductFacts
  <2>2. QED
    BY <1>4, <2>1, ProductsGrow
<1>7. ((4 * r) * C) * T = W * (4 * r) /\ (4 * r) * E = E * (4 * r) /\ (-W) * (4 * r) = -(W * (4 * r))
  BY <1>3
<1>8. B * T \in Int /\ W * (4 * r) \in Int /\ E * (4 * r) \in Int
  BY <1>3, <1>4
<1> HIDE DEF W
<1>9. -W <= E /\ E <= W
  <2>1. (-W) * (4 * r) <= E * (4 * r) /\ E * (4 * r) <= W * (4 * r)
    BY <1>2, <1>6, <1>7, <1>8
  <2>2. 4 * r \in Nat \ {0} /\ -W \in Int /\ W \in Int
    BY <1>3
  <2>3. QED
    BY <2>1, <2>2, ProductsGrow
<1>10. QED
  BY <1>3, <1>5, <1>9 DEF AbsOf, AtLeast, k

-----------------------------------------------------------------------------
(* Morphology.                                                             *)

\* A window has finitely many values of its frame, and at least one.
LEMMA WindowFacts ==
  ASSUME NEW f, IsFrame(f), NEW i \in Indexes(f), NEW radius \in Int
  PROVE  /\ Window(f, i, radius) \subseteq PixelValues(f)
         /\ IsFiniteSet(Window(f, i, radius)) /\ Window(f, i, radius) # {}
<1>1. f.w \in Nat \ {0} /\ f.h \in Nat \ {0}
  BY DEF IsFrame
<1>2. i % f.w \in 0..(f.w - 1) /\ i \div f.w \in 0..(f.h - 1)
  BY <1>1, IndexFacts DEF Indexes
<1> DEFINE x == i % f.w
           y == i \div f.w
           range == (-AtLeast(1, radius))..AtLeast(1, radius)
<1>3. \A dx, dy \in range : At(f, x + dx, y + dy) \in PixelValues(f)
  <2>1. x \in Int /\ y \in Int /\ range \subseteq Int
    BY <1>2 DEF AtLeast
  <2> HIDE DEF x, y, range
  <2>2. \A dx, dy \in range : x + dx \in Int /\ y + dy \in Int
    BY <2>1
  <2>3. QED
    BY <2>2, AtFacts
<1>4. 0 \in range
  BY DEF AtLeast
<1>5. Window(f, i, radius) = {At(f, x + dx, y + dy) : dx, dy \in range}
  BY DEF Window
<1> DEFINE V(dx, dy) == At(f, x + dx, y + dy)
<1>6. Window(f, i, radius) \subseteq PixelValues(f) /\ Window(f, i, radius) # {}
  <2>1. Window(f, i, radius) = {V(dx, dy) : dx, dy \in range}
    BY <1>5
  <2>2. \A dx, dy \in range : V(dx, dy) \in PixelValues(f)
    BY <1>3
  <2> HIDE DEF V, range
  <2> DEFINE W == Window(f, i, radius)
             A == PixelValues(f)
  <2>3. W = {V(dx, dy) : dx, dy \in range}
    BY <2>1
  <2> HIDE DEF W, A
  <2>4. W \subseteq A
    BY <2>2, <2>3 DEF A
  <2>5. V(0, 0) \in W
    BY <1>4, <2>3
  <2>6. QED
    BY <2>4, <2>5 DEF W, A
<1>7. IsFiniteSet(Window(f, i, radius))
  BY <1>6, FrameFacts, FS_Subset
<1>8. QED
  BY <1>6, <1>7

\* A morphology of a frame is a frame of the same size.
LEMMA MorphologyKeepsFrames ==
  ASSUME NEW f, IsFrame(f), NEW operation, NEW radius \in Int
  PROVE  IsFrame(ApplyMorphology(f, operation, radius))
<1> DEFINE at == [i \in Indexes(f) |->
                    IF UsesErosion(operation) THEN Min(Window(f, i, radius))
                    ELSE Max(Window(f, i, radius))]
           result == ApplyMorphology(f, operation, radius)
<1>1. f = Frame(f.w, f.h, f.at) /\ f.w \in Nat \ {0} /\ f.h \in Nat \ {0}
  BY DEF IsFrame
<1>2. result = [f EXCEPT !.at = at]
  BY DEF ApplyMorphology
<1>3. \A i \in Indexes(f) : at[i] \in Int
  <2> SUFFICES ASSUME NEW i \in Indexes(f) PROVE at[i] \in Int
    OBVIOUS
  <2> DEFINE S == Window(f, i, radius)
  <2>1. S \in SUBSET Int /\ IsFiniteSet(S) /\ S # {}
    BY WindowFacts, FrameFacts
  <2> HIDE DEF S
  <2>2. Min(S) \in Int /\ Max(S) \in Int
    BY <2>1, ExtremeFacts
  <2>3. QED
    BY <2>2 DEF S
<1>4. DOMAIN at = Indexes(f)
  OBVIOUS
<1> HIDE DEF at
<1>5. result = Frame(f.w, f.h, at)
  BY <1>1, <1>2 DEF Frame
<1> HIDE DEF result
<1>6. result.w = f.w /\ result.h = f.h /\ result.at = at
  BY <1>5 DEF Frame
<1>7. Indexes(result) = Indexes(f)
  BY <1>6 DEF Indexes
<1>8. IsFrame(result)
  BY <1>1, <1>3, <1>4, <1>5, <1>6, <1>7 DEF IsFrame
<1>9. QED
  BY <1>8 DEF result

\* The indexes around an index.
Near(f, i, radius) ==
  {j \in Indexes(f) : /\ AbsOf((j % f.w) - (i % f.w)) <= AtLeast(1, radius)
                      /\ AbsOf((j \div f.w) - (i \div f.w)) <= AtLeast(1, radius)}

\* A window has the values around its index, and an index is around those that are
\* around it.
LEMMA NearFacts ==
  ASSUME NEW f, IsFrame(f), NEW i \in Indexes(f), NEW radius \in Int
  PROVE  /\ Window(f, i, radius) = {f.at[j] : j \in Near(f, i, radius)}
         /\ i \in Near(f, i, radius)
         /\ \A j \in Near(f, i, radius) : j \in Indexes(f) /\ i \in Near(f, j, radius)
<1> DEFINE R == AtLeast(1, radius)
           range == (-R)..R
           w == f.w
           h == f.h
           x == i % w
           y == i \div w
           V(dx, dy) == At(f, x + dx, y + dy)
           N == Near(f, i, radius)
<1>1. w \in Nat \ {0} /\ h \in Nat \ {0} /\ R \in Nat \ {0} /\ i \in 0..(w * h - 1)
  BY DEF IsFrame, AtLeast, Indexes
<1>2. \A j \in Indexes(f) : /\ j % w \in 0..(w - 1) /\ j \div w \in 0..(h - 1)
                             /\ (j \div w) * w + (j % w) = j
  <2> SUFFICES ASSUME NEW j \in 0..(w * h - 1)
               PROVE  /\ j % w \in 0..(w - 1) /\ j \div w \in 0..(h - 1)
                      /\ (j \div w) * w + (j % w) = j
    BY DEF Indexes
  <2> HIDE DEF w, h
  <2> QED
    BY <1>1, IndexFacts
<1>3. Window(f, i, radius) = {V(dx, dy) : dx, dy \in range}
  BY DEF Window
<1>4. \A dx, dy \in range : \E j \in N : V(dx, dy) = f.at[j]
  <2> SUFFICES ASSUME NEW dx \in range, NEW dy \in range PROVE \E j \in N : V(dx, dy) = f.at[j]
    OBVIOUS
  <2> DEFINE c == Clamp(x + dx, 0, w - 1)
             r == Clamp(y + dy, 0, h - 1)
             j == r * w + c
  <2>1. x \in 0..(w - 1) /\ y \in 0..(h - 1) /\ dx \in Int /\ dy \in Int
        /\ -R <= dx /\ dx <= R /\ -R <= dy /\ dy <= R
    BY <1>1, <1>2
  <2> HIDE DEF x, y, w, h, R
  <2>2. /\ c \in 0..(w - 1) /\ r \in 0..(h - 1)
        /\ AbsOf(c - x) <= R /\ AbsOf(r - y) <= R
    BY <1>1, <2>1 DEF Clamp, AbsOf, AtLeast, AtMost
  <2> HIDE DEF c, r
  <2>3. j \in 0..(w * h - 1) /\ j % w = c /\ j \div w = r
    BY <1>1, <2>2, CellFacts
  <2>4. V(dx, dy) = f.at[j]
    BY DEF At, c, r, w, h
  <2> HIDE DEF j
  <2>5. j \in N
    BY <2>2, <2>3 DEF Near, Indexes, x, y, w, h, R
  <2>6. QED
    BY <2>4, <2>5
<1>5. \A j \in N : \E dx, dy \in range : V(dx, dy) = f.at[j]
  <2> SUFFICES ASSUME NEW j \in N PROVE \E dx, dy \in range : V(dx, dy) = f.at[j]
    OBVIOUS
  <2> DEFINE c == j % w
             r == j \div w
             dx == c - x
             dy == r - y
  <2>1. j \in Indexes(f) /\ AbsOf(c - x) <= R /\ AbsOf(r - y) <= R
    BY DEF Near
  <2>2. /\ c \in 0..(w - 1) /\ r \in 0..(h - 1) /\ r * w + c = j
        /\ x \in 0..(w - 1) /\ y \in 0..(h - 1)
    BY <1>2, <2>1
  <2> HIDE DEF c, r, x, y, w, h, R
  <2>3. dx \in range /\ dy \in range /\ x + dx = c /\ y + dy = r
    BY <1>1, <2>1, <2>2 DEF AbsOf, AtLeast
  <2>4. Clamp(c, 0, w - 1) = c /\ Clamp(r, 0, h - 1) = r
    BY <1>1, <2>2 DEF Clamp, AtLeast, AtMost
  <2>5. At(f, c, r) = f.at[j]
    BY <2>2, <2>4 DEF At, w, h
  <2> HIDE DEF dx, dy
  <2>6. V(dx, dy) = f.at[j]
    BY <2>3, <2>5
  <2>7. QED
    BY <2>3, <2>6
<1>6. Window(f, i, radius) = {f.at[j] : j \in N}
  <2> HIDE DEF V, N, range
  <2> DEFINE A == {V(dx, dy) : dx, dy \in range}
             B == {f.at[j] : j \in N}
  <2>1. A \subseteq B
    BY <1>4
  <2>2. B \subseteq A
    BY <1>5
  <2>3. Window(f, i, radius) = A
    BY <1>3
  <2> HIDE DEF A, B
  <2>4. Window(f, i, radius) = B
    BY <2>1, <2>2, <2>3
  <2>5. QED
    BY <2>4 DEF B
<1>7. i \in N
  <2>1. AbsOf(x - x) = 0 /\ AbsOf(y - y) = 0
    BY <1>2 DEF AbsOf, AtLeast
  <2>2. QED
    BY <1>1, <2>1 DEF Near, Indexes
<1>8. \A j \in N : j \in Indexes(f) /\ i \in Near(f, j, radius)
  <2> SUFFICES ASSUME NEW j \in N PROVE j \in Indexes(f) /\ i \in Near(f, j, radius)
    OBVIOUS
  <2> DEFINE c == j % w
             r == j \div w
  <2>1. j \in Indexes(f) /\ AbsOf(c - x) <= R /\ AbsOf(r - y) <= R
    BY DEF Near
  <2>2. c \in Int /\ r \in Int /\ x \in Int /\ y \in Int
    BY <1>2, <2>1
  <2>3. AbsOf(x - c) <= R /\ AbsOf(y - r) <= R
    <3> HIDE DEF c, r, x, y, R
    <3> QED
      BY <1>1, <2>1, <2>2 DEF AbsOf, AtLeast
  <2>4. QED
    BY <1>1, <2>1, <2>3 DEF Near, Indexes
<1>9. QED
  BY <1>6, <1>7, <1>8

\* The two morphologies of a frame.
Eroded(f, radius)  == ApplyMorphology(f, "erosion", radius)
Dilated(f, radius) == ApplyMorphology(f, "dilation", radius)

\* An erosion has the smallest value around an index, a dilation the largest.
LEMMA MorphologyFacts ==
  ASSUME NEW f, IsFrame(f), NEW radius \in Int
  PROVE  /\ IsFrame(Eroded(f, radius)) /\ IsFrame(Dilated(f, radius))
         /\ Eroded(f, radius).w = f.w /\ Eroded(f, radius).h = f.h
         /\ Dilated(f, radius).w = f.w /\ Dilated(f, radius).h = f.h
         /\ Eroded(f, radius).at \in [Indexes(Eroded(f, radius)) -> Int]
         /\ Dilated(f, radius).at \in [Indexes(Dilated(f, radius)) -> Int]
         /\ \A i \in Indexes(f) :
              /\ \A j \in Near(f, i, radius) : /\ Eroded(f, radius).at[i] <= f.at[j]
                                              /\ f.at[j] <= Dilated(f, radius).at[i]
              /\ \E j \in Near(f, i, radius) : Eroded(f, radius).at[i] = f.at[j]
              /\ \E j \in Near(f, i, radius) : Dilated(f, radius).at[i] = f.at[j]
<1>1. UsesErosion("erosion") /\ ~UsesErosion("dilation")
  BY DEF UsesErosion
<1>2. IsFrame(Eroded(f, radius)) /\ IsFrame(Dilated(f, radius))
  BY MorphologyKeepsFrames DEF Eroded, Dilated
<1>3. f = Frame(f.w, f.h, f.at)
  BY DEF IsFrame
<1>4. /\ Eroded(f, radius) = Frame(f.w, f.h, [i \in Indexes(f) |-> Min(Window(f, i, radius))])
      /\ Dilated(f, radius) = Frame(f.w, f.h, [i \in Indexes(f) |-> Max(Window(f, i, radius))])
  BY <1>1, <1>3 DEF Eroded, Dilated, ApplyMorphology, Frame
<1>5. /\ Eroded(f, radius).w = f.w /\ Eroded(f, radius).h = f.h
      /\ Dilated(f, radius).w = f.w /\ Dilated(f, radius).h = f.h
      /\ \A i \in Indexes(f) : /\ Eroded(f, radius).at[i] = Min(Window(f, i, radius))
                                /\ Dilated(f, radius).at[i] = Max(Window(f, i, radius))
  BY <1>4 DEF Frame
<1>6. ASSUME NEW i \in Indexes(f)
      PROVE  /\ \A j \in Near(f, i, radius) : /\ Eroded(f, radius).at[i] <= f.at[j]
                                             /\ f.at[j] <= Dilated(f, radius).at[i]
             /\ \E j \in Near(f, i, radius) : Eroded(f, radius).at[i] = f.at[j]
             /\ \E j \in Near(f, i, radius) : Dilated(f, radius).at[i] = f.at[j]
  <2> DEFINE S == Window(f, i, radius)
             N == Near(f, i, radius)
  <2>1. S \in SUBSET Int /\ IsFiniteSet(S) /\ S # {}
    BY WindowFacts, FrameFacts
  <2>2. S = {f.at[j] : j \in N}
    BY NearFacts
  <2>3. Eroded(f, radius).at[i] = Min(S) /\ Dilated(f, radius).at[i] = Max(S)
    BY <1>5
  <2> HIDE DEF S, N
  <2>4. /\ Max(S) \in S /\ \A n \in S : n <= Max(S)
        /\ Min(S) \in S /\ \A n \in S : Min(S) <= n
    BY <2>1, ExtremeFacts
  <2>5. \A j \in N : Min(S) <= f.at[j] /\ f.at[j] <= Max(S)
    BY <2>2, <2>4
  <2>6. (\E j \in N : Min(S) = f.at[j]) /\ (\E j \in N : Max(S) = f.at[j])
    BY <2>2, <2>4
  <2>7. QED
    BY <2>3, <2>5, <2>6 DEF N
<1>7. ASSUME NEW g, IsFrame(g), NEW at, at = [i \in Indexes(f) |-> at[i]], g = Frame(f.w, f.h, at)
      PROVE  g.at \in [Indexes(g) -> Int]
  <2>1. Indexes(g) = Indexes(f) /\ g.at = at
    BY <1>7 DEF Indexes, Frame
  <2>2. \A i \in Indexes(f) : at[i] \in Int
    BY <1>7, <2>1 DEF IsFrame
  <2>3. QED
    BY <1>7, <2>1, <2>2
<1>8. /\ Eroded(f, radius).at \in [Indexes(Eroded(f, radius)) -> Int]
      /\ Dilated(f, radius).at \in [Indexes(Dilated(f, radius)) -> Int]
  <2> DEFINE a == [i \in Indexes(f) |-> Min(Window(f, i, radius))]
             b == [i \in Indexes(f) |-> Max(Window(f, i, radius))]
  <2>1. a = [i \in Indexes(f) |-> a[i]] /\ b = [i \in Indexes(f) |-> b[i]]
    OBVIOUS
  <2>2. Eroded(f, radius) = Frame(f.w, f.h, a) /\ Dilated(f, radius) = Frame(f.w, f.h, b)
    BY <1>4
  <2> HIDE DEF a, b
  <2>3. QED
    BY <1>2, <1>7, <2>1, <2>2
<1>9. QED
  BY <1>2, <1>5, <1>6, <1>8

\* Frames of one size have the same neighbourhoods.
LEMMA NearOfSize ==
  ASSUME NEW f, NEW g, g.w = f.w, g.h = f.h
  PROVE  Indexes(g) = Indexes(f) /\ \A i, radius : Near(g, i, radius) = Near(f, i, radius)
BY DEF Indexes, Near

\* Frames of one size that are below each other are the same.
LEMMA BelowIsAnOrder ==
  ASSUME NEW f, IsFrame(f), f.at \in [Indexes(f) -> Int],
         NEW g, IsFrame(g), g.at \in [Indexes(g) -> Int],
         g.w = f.w, g.h = f.h, Below(f, g), Below(g, f)
  PROVE  f = g
<1>1. Indexes(g) = Indexes(f)
  BY DEF Indexes
<1>2. \A i \in Indexes(f) : f.at[i] \in Int /\ g.at[i] \in Int /\ f.at[i] <= g.at[i] /\ g.at[i] <= f.at[i]
  BY <1>1 DEF Below
<1>3. \A i \in Indexes(f) : f.at[i] = g.at[i]
  BY <1>2
<1>4. f.at = g.at
  BY <1>1, <1>3
<1>5. f = Frame(f.w, f.h, f.at) /\ g = Frame(g.w, g.h, g.at)
  BY DEF IsFrame
<1>6. QED
  BY <1>4, <1>5

\* A frame below another stays below it.
LEMMA MorphologyIsMonotone ==
  ASSUME NEW f, IsFrame(f), NEW g, IsFrame(g), g.w = f.w, g.h = f.h, Below(f, g), NEW radius \in Int
  PROVE  Below(Eroded(f, radius), Eroded(g, radius)) /\ Below(Dilated(f, radius), Dilated(g, radius))
<1>1. Indexes(g) = Indexes(f) /\ \A i : Near(g, i, radius) = Near(f, i, radius)
  BY NearOfSize
<1>2. Indexes(Eroded(f, radius)) = Indexes(f) /\ Indexes(Dilated(f, radius)) = Indexes(f)
  BY MorphologyFacts DEF Indexes
<1>3. \A i \in Indexes(f) : f.at[i] \in Int /\ g.at[i] \in Int /\ f.at[i] <= g.at[i]
  BY <1>1 DEF Below, IsFrame
<1>4. ASSUME NEW i \in Indexes(f)
      PROVE  /\ Eroded(f, radius).at[i] <= Eroded(g, radius).at[i]
             /\ Dilated(f, radius).at[i] <= Dilated(g, radius).at[i]
  <2> DEFINE N == Near(f, i, radius)
             a == Eroded(f, radius).at[i]
             b == Eroded(g, radius).at[i]
             c == Dilated(f, radius).at[i]
             d == Dilated(g, radius).at[i]
  <2>1. \A j \in N : j \in Indexes(f)
    BY NearFacts
  <2>2. /\ \A j \in N : a <= f.at[j] /\ f.at[j] <= c
        /\ \E j \in N : a = f.at[j]
        /\ \E j \in N : c = f.at[j]
    BY MorphologyFacts
  <2>3. /\ \A j \in N : b <= g.at[j] /\ g.at[j] <= d
        /\ \E j \in N : b = g.at[j]
        /\ \E j \in N : d = g.at[j]
    <3>1. i \in Indexes(g) /\ N = Near(g, i, radius)
      BY <1>1
    <3> HIDE DEF N
    <3>2. QED
      BY <3>1, MorphologyFacts
  <2> HIDE DEF N, a, b, c, d
  <2>4. a <= b
    <3>1. PICK j \in N : b = g.at[j]
      BY <2>3
    <3>2. PICK k \in N : a = f.at[k]
      BY <2>2
    <3>3. QED
      BY <1>3, <2>1, <2>2, <3>1, <3>2
  <2>5. c <= d
    <3>1. PICK j \in N : c = f.at[j]
      BY <2>2
    <3>2. PICK k \in N : d = g.at[k]
      BY <2>3
    <3>3. QED
      BY <1>3, <2>1, <2>3, <3>1, <3>2
  <2>6. QED
    BY <2>4, <2>5 DEF a, b, c, d
<1>5. QED
  BY <1>2, <1>4 DEF Below

\* An opening is below its frame, a closing above it.
LEMMA OpeningIsBelow ==
  ASSUME NEW f, IsFrame(f), NEW radius \in Int
  PROVE  Below(Dilated(Eroded(f, radius), radius), f) /\ Below(f, Eroded(Dilated(f, radius), radius))
<1> DEFINE e == Eroded(f, radius)
           d == Dilated(f, radius)
<1>1. /\ IsFrame(e) /\ e.w = f.w /\ e.h = f.h /\ IsFrame(d) /\ d.w = f.w /\ d.h = f.h
      /\ \A i \in Indexes(f) : \A j \in Near(f, i, radius) : e.at[i] <= f.at[j] /\ f.at[j] <= d.at[i]
  BY MorphologyFacts
<1> HIDE DEF e, d
<1>2. /\ Indexes(e) = Indexes(f) /\ \A i : Near(e, i, radius) = Near(f, i, radius)
      /\ Indexes(d) = Indexes(f) /\ \A i : Near(d, i, radius) = Near(f, i, radius)
  BY <1>1, NearOfSize
<1>3. /\ Indexes(Dilated(e, radius)) = Indexes(f)
      /\ \A i \in Indexes(f) : \E j \in Near(f, i, radius) : Dilated(e, radius).at[i] = e.at[j]
  BY <1>1, <1>2, MorphologyFacts, SMTT(40) DEF Indexes
<1>4. \A i \in Indexes(f) : \E j \in Near(f, i, radius) : Eroded(d, radius).at[i] = d.at[j]
  <2>1. \A i \in Indexes(d) : \E j \in Near(d, i, radius) : Eroded(d, radius).at[i] = d.at[j]
    BY <1>1, MorphologyFacts
  <2>2. QED
    BY <1>2, <2>1
<1>5. \A i \in Indexes(f) : \A j \in Near(f, i, radius) : j \in Indexes(f) /\ i \in Near(f, j, radius)
  BY NearFacts
<1>6. \A i \in Indexes(f) : Dilated(e, radius).at[i] <= f.at[i]
  BY <1>1, <1>3, <1>5
<1>7. \A i \in Indexes(f) : f.at[i] <= Eroded(d, radius).at[i]
  BY <1>1, <1>4, <1>5
<1>8. QED
  BY <1>3, <1>6, <1>7 DEF Below, e, d

\* A second opening, or closing, changes nothing.
LEMMA OpeningIsIdempotent ==
  ASSUME NEW f, IsFrame(f), NEW radius \in Int
  PROVE  LET opened == Dilated(Eroded(f, radius), radius)
             closed == Eroded(Dilated(f, radius), radius)
         IN  /\ Dilated(Eroded(opened, radius), radius) = opened
             /\ Eroded(Dilated(closed, radius), radius) = closed
<1> DEFINE e == Eroded(f, radius)
           d == Dilated(f, radius)
           opened == Dilated(e, radius)
           closed == Eroded(d, radius)
           again == Dilated(Eroded(opened, radius), radius)
           twice == Eroded(Dilated(closed, radius), radius)
<1>1. /\ IsFrame(e) /\ e.w = f.w /\ e.h = f.h
      /\ IsFrame(d) /\ d.w = f.w /\ d.h = f.h
  BY MorphologyFacts
<1> HIDE DEF e, d
<1>2. /\ IsFrame(opened) /\ opened.w = f.w /\ opened.h = f.h /\ opened.at \in [Indexes(opened) -> Int]
      /\ IsFrame(closed) /\ closed.w = f.w /\ closed.h = f.h /\ closed.at \in [Indexes(closed) -> Int]
  BY <1>1, MorphologyFacts
<1>3. Below(e, Eroded(opened, radius)) /\ Below(Dilated(closed, radius), d)
  BY <1>1, OpeningIsBelow
<1> HIDE DEF opened, closed
<1> DEFINE eroded == Eroded(opened, radius)
           dilated == Dilated(closed, radius)
<1>4. /\ IsFrame(eroded) /\ eroded.w = f.w /\ eroded.h = f.h
      /\ IsFrame(dilated) /\ dilated.w = f.w /\ dilated.h = f.h
  BY <1>2, MorphologyFacts
<1>5. Below(again, opened) /\ Below(closed, twice)
  BY <1>2, OpeningIsBelow
<1>6. Below(e, eroded) /\ Below(dilated, d)
  BY <1>3
<1> HIDE DEF eroded, dilated
<1>7. Below(opened, Dilated(eroded, radius)) /\ Below(Eroded(dilated, radius), closed)
  BY <1>1, <1>4, <1>6, MorphologyIsMonotone DEF opened, closed
<1>8. again = Dilated(eroded, radius) /\ twice = Eroded(dilated, radius)
  BY DEF eroded, dilated
<1>9. /\ IsFrame(again) /\ again.w = f.w /\ again.h = f.h /\ again.at \in [Indexes(again) -> Int]
      /\ IsFrame(twice) /\ twice.w = f.w /\ twice.h = f.h /\ twice.at \in [Indexes(twice) -> Int]
  BY <1>4, <1>8, MorphologyFacts
<1>10. Below(opened, again) /\ Below(twice, closed)
  BY <1>7, <1>8
<1> HIDE DEF again, twice
<1>11. again = opened /\ twice = closed
  BY <1>2, <1>5, <1>9, <1>10, BelowIsAnOrder
<1>12. QED
  BY <1>11 DEF again, twice, opened, closed, e, d

-----------------------------------------------------------------------------
(* Transposed frames.                                                      *)

\* The index that comes to an index when a frame is transposed.
Turned(f, i) == (i % f.h) * f.w + (i \div f.h)

\* Transposing exchanges columns and rows, and reaches every index.
LEMMA TurnedFacts ==
  ASSUME NEW f, f.w \in Nat \ {0}, f.h \in Nat \ {0}
  PROVE  /\ \A i \in Indexes(f) : /\ Turned(f, i) \in Indexes(f)
                                   /\ Turned(f, i) % f.w = i \div f.h
                                   /\ Turned(f, i) \div f.w = i % f.h
         /\ \A x \in 0..(f.w - 1), y \in 0..(f.h - 1) :
              x * f.h + y \in Indexes(f) /\ Turned(f, x * f.h + y) = y * f.w + x
         /\ \A j \in Indexes(f) : \E i \in Indexes(f) : Turned(f, i) = j
<1> DEFINE w == f.w
           h == f.h
<1>1. w \in Nat \ {0} /\ h \in Nat \ {0} /\ Indexes(f) = 0..(w * h - 1) /\ h * w = w * h
  BY DEF Indexes
<1>2. \A i : Turned(f, i) = (i % h) * w + (i \div h)
  BY DEF Turned
<1> HIDE DEF w, h
<1>3. \A i \in Indexes(f) : i % h \in 0..(h - 1) /\ i \div h \in 0..(w - 1)
  <2>1. \A i \in 0..(h * w - 1) : i % h \in 0..(h - 1) /\ i \div h \in 0..(w - 1)
    BY <1>1, IndexFacts
  <2>2. QED
    BY <1>1, <2>1
<1>4. ASSUME NEW x \in 0..(w - 1), NEW y \in 0..(h - 1)
      PROVE  /\ y * w + x \in Indexes(f) /\ (y * w + x) % w = x /\ (y * w + x) \div w = y
             /\ x * h + y \in Indexes(f) /\ (x * h + y) % h = y /\ (x * h + y) \div h = x
  <2>1. y * w + x \in 0..(w * h - 1) /\ (y * w + x) % w = x /\ (y * w + x) \div w = y
    BY <1>1, CellFacts
  <2>2. x * h + y \in 0..(h * w - 1) /\ (x * h + y) % h = y /\ (x * h + y) \div h = x
    BY <1>1, CellFacts
  <2>3. QED
    BY <1>1, <2>1, <2>2
<1>5. ASSUME NEW i \in Indexes(f)
      PROVE  /\ Turned(f, i) \in Indexes(f)
             /\ Turned(f, i) % w = i \div h
             /\ Turned(f, i) \div w = i % h
  <2> DEFINE x == i \div h
             y == i % h
  <2>1. x \in 0..(w - 1) /\ y \in 0..(h - 1) /\ Turned(f, i) = y * w + x
    BY <1>2, <1>3
  <2> HIDE DEF x, y
  <2>2. Turned(f, i) \in Indexes(f) /\ Turned(f, i) % w = x /\ Turned(f, i) \div w = y
    BY <1>4, <2>1
  <2>3. QED
    BY <2>2 DEF x, y
<1>6. ASSUME NEW x \in 0..(w - 1), NEW y \in 0..(h - 1)
      PROVE  x * h + y \in Indexes(f) /\ Turned(f, x * h + y) = y * w + x
  <2> DEFINE i == x * h + y
  <2>1. i \in Indexes(f) /\ i % h = y /\ i \div h = x
    BY <1>4
  <2> HIDE DEF i
  <2>2. i \in Indexes(f) /\ Turned(f, i) = y * w + x
    BY <1>2, <2>1
  <2>3. QED
    BY <2>2 DEF i
<1>7. ASSUME NEW j \in Indexes(f) PROVE \E i \in Indexes(f) : Turned(f, i) = j
  <2> DEFINE x == j % w
             y == j \div w
  <2>1. x \in 0..(w - 1) /\ y \in 0..(h - 1) /\ j = y * w + x
    BY <1>1, IndexFacts
  <2> HIDE DEF x, y
  <2>2. QED
    BY <1>6, <2>1
<1>8. QED
  BY <1>5, <1>6, <1>7 DEF w, h

\* A transposed frame is a frame.
LEMMA TransposedFacts ==
  ASSUME NEW f, IsFrame(f)
  PROVE  /\ IsFrame(Transposed(f)) /\ Transposed(f).w = f.h /\ Transposed(f).h = f.w
         /\ Indexes(Transposed(f)) = Indexes(f)
         /\ \A i \in Indexes(f) : Transposed(f).at[i] = f.at[Turned(f, i)]
<1> DEFINE g == Transposed(f)
           at == [i \in Indexes(f) |-> f.at[Turned(f, i)]]
<1>1. f.w \in Nat \ {0} /\ f.h \in Nat \ {0} /\ \A i \in Indexes(f) : f.at[i] \in Int
  BY DEF IsFrame
<1>2. DOMAIN at = Indexes(f) /\ \A i \in Indexes(f) : at[i] = f.at[Turned(f, i)] /\ at[i] \in Int
  BY <1>1, TurnedFacts
<1>3. g = Frame(f.h, f.w, at)
  BY DEF Transposed, Turned
<1> HIDE DEF at
<1>4. g.w = f.h /\ g.h = f.w /\ g.at = at
  BY <1>3 DEF Frame
<1>5. Indexes(g) = Indexes(f)
  <2>1. f.w * f.h = f.h * f.w
    BY <1>1
  <2>2. QED
    BY <1>4, <2>1 DEF Indexes
<1> HIDE DEF g
<1>6. g = Frame(g.w, g.h, g.at)
  BY <1>3, <1>4
<1>7. IsFrame(g)
  BY <1>1, <1>2, <1>4, <1>5, <1>6 DEF IsFrame
<1>8. QED
  BY <1>2, <1>4, <1>5, <1>7 DEF g

\* What is at an index of one function is at the index that comes there in the other.
IsTurned(w, h, p, q) ==
  /\ p = [i \in 0..(w * h - 1) |-> p[i]] /\ q = [i \in 0..(w * h - 1) |-> q[i]]
  /\ \A i \in 0..(w * h - 1) : q[i] = p[(i % h) * w + (i \div h)]

\* A kernel that gives at an index of the transposed frame what it gives at the
\* index that comes there, gives the transposed result.
LEMMA TransposedIs ==
  ASSUME NEW w \in Nat \ {0}, NEW h \in Nat \ {0}, NEW p, NEW q, IsTurned(w, h, p, q)
  PROVE  Transposed(Frame(w, h, p)) = Frame(h, w, q)
<1> DEFINE f == Frame(w, h, p)
           at == [i \in 0..(w * h - 1) |-> p[(i % h) * w + (i \div h)]]
<1>1. f.w = w /\ f.h = h /\ f.at = p /\ Indexes(f) = 0..(w * h - 1)
  BY DEF Frame, Indexes
<1>2. at = q
  BY DEF IsTurned
<1> HIDE DEF f, at
<1>3. Transposed(f) = Frame(h, w, [i \in 0..(w * h - 1) |-> p[(i % h) * w + (i \div h)]])
  BY <1>1 DEF Transposed
<1>4. QED
  BY <1>2, <1>3 DEF f, at

\* A neighbourhood of the transposed frame is a transposed neighbourhood.
LEMMA WindowsTurn ==
  ASSUME NEW f, IsFrame(f), NEW i \in Indexes(f), NEW radius \in Int
  PROVE  Window(Transposed(f), i, radius) = Window(f, Turned(f, i), radius)
<1> DEFINE g == Transposed(f)
           k == Turned(f, i)
           M == Near(g, i, radius)
           N == Near(f, k, radius)
           R == AtLeast(1, radius)
<1>1. /\ IsFrame(g) /\ g.w = f.h /\ g.h = f.w /\ Indexes(g) = Indexes(f)
      /\ \A j \in Indexes(f) : g.at[j] = f.at[Turned(f, j)]
  BY TransposedFacts
<1>2. f.w \in Nat \ {0} /\ f.h \in Nat \ {0}
  BY DEF IsFrame
<1>3. \A j \in Indexes(f) : /\ Turned(f, j) \in Indexes(f)
                             /\ Turned(f, j) % f.w = j \div f.h
                             /\ Turned(f, j) \div f.w = j % f.h
  BY <1>2, TurnedFacts
<1>4. \A j \in Indexes(f) : \E l \in Indexes(f) : Turned(f, l) = j
  BY <1>2, TurnedFacts
<1>5. k \in Indexes(f)
  BY <1>3
<1>6. Window(g, i, radius) = {g.at[j] : j \in M} /\ Window(f, k, radius) = {f.at[j] : j \in N}
  <2>1. Window(f, k, radius) = {f.at[j] : j \in N}
    BY <1>5, NearFacts
  <2>2. Window(g, i, radius) = {g.at[j] : j \in M}
    <3> HIDE DEF g
    <3> QED
      BY <1>1, NearFacts
  <2>3. QED
    BY <2>1, <2>2
<1>7. \A j \in Indexes(f) : j \in M <=> Turned(f, j) \in N
  BY <1>1, <1>3, <1>5 DEF Near
<1>8. M \subseteq Indexes(f) /\ N \subseteq Indexes(f)
  BY <1>1 DEF Near
<1> HIDE DEF g, k, M, N
<1>9. {g.at[j] : j \in M} = {f.at[j] : j \in N}
  <2>1. \A j \in M : g.at[j] = f.at[Turned(f, j)] /\ Turned(f, j) \in N
    BY <1>1, <1>7, <1>8
  <2>2. \A j \in N : \E l \in M : Turned(f, l) = j /\ g.at[l] = f.at[j]
    BY <1>1, <1>4, <1>7, <1>8
  <2>3. QED
    BY <2>1, <2>2
<1>10. QED
  BY <1>6, <1>9 DEF g, k

\* Morphology treats rows and columns alike.
LEMMA MorphologyTurns ==
  ASSUME NEW f, IsFrame(f), NEW operation, NEW radius \in Int
  PROVE  ApplyMorphology(Transposed(f), operation, radius)
           = Transposed(ApplyMorphology(f, operation, radius))
<1> DEFINE g == Transposed(f)
           w == f.w
           h == f.h
           p == [i \in 0..(w * h - 1) |->
                   IF UsesErosion(operation) THEN Min(Window(f, i, radius)) ELSE Max(Window(f, i, radius))]
           q == [i \in 0..(w * h - 1) |->
                   IF UsesErosion(operation) THEN Min(Window(g, i, radius)) ELSE Max(Window(g, i, radius))]
<1>1. IsFrame(g) /\ g.w = h /\ g.h = w /\ Indexes(g) = Indexes(f)
  BY TransposedFacts
<1>2. /\ f = Frame(w, h, f.at) /\ w \in Nat \ {0} /\ h \in Nat \ {0} /\ Indexes(f) = 0..(w * h - 1)
      /\ g = Frame(h, w, g.at)
  BY <1>1 DEF IsFrame, Indexes
<1>3. ApplyMorphology(f, operation, radius) = Frame(w, h, p)
  BY <1>2 DEF ApplyMorphology, Frame
<1>4. ApplyMorphology(g, operation, radius) = Frame(h, w, q)
  <2> HIDE DEF g
  <2> QED
    BY <1>1, <1>2 DEF ApplyMorphology, Frame
<1>5. \A i \in 0..(w * h - 1) : q[i] = p[(i % h) * w + (i \div h)]
  <2> SUFFICES ASSUME NEW i \in 0..(w * h - 1) PROVE q[i] = p[(i % h) * w + (i \div h)]
    OBVIOUS
  <2> DEFINE j == Turned(f, i)
  <2>1. j \in 0..(w * h - 1) /\ j = (i % h) * w + (i \div h)
    BY <1>2, TurnedFacts DEF Turned
  <2>2. Window(g, i, radius) = Window(f, j, radius)
    BY <1>2, WindowsTurn
  <2> HIDE DEF j, w, h, g
  <2>3. q[i] = p[j]
    BY <2>1, <2>2
  <2>4. QED
    BY <2>1, <2>3
<1>6. p = [i \in 0..(w * h - 1) |-> p[i]] /\ q = [i \in 0..(w * h - 1) |-> q[i]]
  OBVIOUS
<1> HIDE DEF p, q, w, h, g
<1>7. Transposed(Frame(w, h, p)) = Frame(h, w, q)
  <2>1. w \in Nat \ {0} /\ h \in Nat \ {0}
    BY <1>2
  <2>2. IsTurned(w, h, p, q)
    BY <1>5, <1>6 DEF IsTurned
  <2>3. QED
    BY <2>1, <2>2, TransposedIs
<1>8. QED
  BY <1>3, <1>4, <1>7 DEF g

\* So does pooling: the blocks of rows and of columns are cut in the same way.
LEMMA PoolingTurns ==
  ASSUME NEW f, IsFrame(f), NEW ow \in Nat \ {0}, NEW oh \in Nat \ {0}
  PROVE  MaxPool(Transposed(f), oh, ow) = Transposed(MaxPool(f, ow, oh))
<1> DEFINE g == Transposed(f)
           w == f.w
           h == f.h
           Pool(i) == {f.at[y * w + x] : x \in Block(i % ow, w, ow), y \in Block(i \div ow, h, oh)}
           Loop(i) == {g.at[x * h + y] : y \in Block(i % oh, h, oh), x \in Block(i \div oh, w, ow)}
           p == [i \in 0..(ow * oh - 1) |-> Max(Pool(i))]
           q == [i \in 0..(ow * oh - 1) |-> Max(Loop(i))]
<1>1. IsFrame(g) /\ g.w = h /\ g.h = w /\ Indexes(g) = Indexes(f)
  BY TransposedFacts
<1>2. w \in Nat \ {0} /\ h \in Nat \ {0} /\ oh * ow = ow * oh
  BY DEF IsFrame
<1>3. MaxPool(f, ow, oh) = Frame(ow, oh, p)
  BY DEF MaxPool
<1>4. MaxPool(g, oh, ow) = Frame(oh, ow, q)
  <2> DEFINE r == [i \in 0..(oh * ow - 1) |-> Max(Loop(i))]
  <2>1. MaxPool(g, oh, ow) = Frame(oh, ow, r)
    <3> HIDE DEF g, w, h
    <3>1. MaxPool(g, oh, ow)
            = Frame(oh, ow,
                [i \in 0..(oh * ow - 1) |->
                   Max({g.at[y * g.w + x] : x \in Block(i % oh, g.w, oh), y \in Block(i \div oh, g.h, ow)})])
      BY DEF MaxPool
    <3>2. QED
      BY <1>1, <3>1
  <2>2. r = q
    BY <1>2
  <2> HIDE DEF r, q, g
  <2>3. QED
    BY <2>1, <2>2
<1>5. ASSUME NEW x \in 0..(w - 1), NEW y \in 0..(h - 1) PROVE g.at[x * h + y] = f.at[y * w + x]
  <2>1. x * h + y \in Indexes(f) /\ Turned(f, x * h + y) = y * w + x
    BY <1>2, TurnedFacts
  <2>2. \A i \in Indexes(f) : g.at[i] = f.at[Turned(f, i)]
    BY TransposedFacts
  <2> HIDE DEF g
  <2>3. QED
    BY <2>1, <2>2
<1>6. ASSUME NEW i \in 0..(ow * oh - 1) PROVE q[i] = p[(i % oh) * ow + (i \div oh)]
  <2> DEFINE c == i \div oh
             r == i % oh
             j == r * ow + c
             X == Block(c, w, ow)
             Y == Block(r, h, oh)
  <2>1. c \in 0..(ow - 1) /\ r \in 0..(oh - 1)
    BY <1>2, IndexFacts
  <2> HIDE DEF c, r
  <2>2. j \in 0..(ow * oh - 1) /\ j % ow = c /\ j \div ow = r
    BY <2>1, CellFacts
  <2>3. X \subseteq 0..(w - 1) /\ Y \subseteq 0..(h - 1)
    BY <1>2, <2>1, BlockFacts
  <2> HIDE DEF j
  <2>4. Pool(j) = {f.at[y * w + x] : x \in X, y \in Y}
    BY <2>2
  <2>5. Loop(i) = {g.at[x * h + y] : y \in Y, x \in X}
    BY DEF c, r
  <2>6. q[i] = Max(Loop(i)) /\ p[j] = Max(Pool(j))
    BY <2>2
  <2> HIDE DEF X, Y, Pool, Loop, p, q, g, w, h
  <2>7. \A x \in X, y \in Y : g.at[x * h + y] = f.at[y * w + x]
    BY <1>5, <2>3
  <2>8. Loop(i) = Pool(j)
    <3> DEFINE G(y, x) == g.at[x * h + y]
               F(x, y) == f.at[y * w + x]
    <3>1. Pool(j) = {F(x, y) : x \in X, y \in Y} /\ Loop(i) = {G(y, x) : y \in Y, x \in X}
      BY <2>4, <2>5
    <3>2. \A x \in X, y \in Y : G(y, x) = F(x, y)
      BY <2>7
    <3> HIDE DEF F, G
    <3>3. QED
      BY <3>1, <3>2
  <2>9. QED
    BY <2>6, <2>8 DEF j, c, r
<1>7. p = [i \in 0..(ow * oh - 1) |-> p[i]] /\ q = [i \in 0..(ow * oh - 1) |-> q[i]]
  OBVIOUS
<1> HIDE DEF p, q, g
<1>8. Transposed(Frame(ow, oh, p)) = Frame(oh, ow, q)
  <2>1. \A i \in 0..(ow * oh - 1) : q[i] = p[(i % oh) * ow + (i \div oh)]
    BY <1>6
  <2>2. IsTurned(ow, oh, p, q)
    BY <1>7, <2>1 DEF IsTurned
  <2>3. QED
    BY <2>2, TransposedIs
<1>9. QED
  BY <1>3, <1>4, <1>8 DEF g

\* So does the Laplacian, whose neighbours are a row and a column away.
LEMMA EdgeStrengthTurns ==
  ASSUME NEW f, IsFrame(f), NEW i \in Indexes(f)
  PROVE  /\ EdgeStrength(Transposed(f), i) = EdgeStrength(f, Turned(f, i))
         /\ EdgeStrength(f, i) \in Nat
<1> DEFINE g == Transposed(f)
           w == f.w
           h == f.h
           x == i % h
           y == i \div h
           j == Turned(f, i)
<1>1. g.w = h /\ g.h = w /\ \A k \in Indexes(f) : g.at[k] = f.at[Turned(f, k)]
  BY TransposedFacts
<1>2. /\ w \in Nat \ {0} /\ h \in Nat \ {0} /\ DOMAIN f.at = Indexes(f)
      /\ \A k \in Indexes(f) : f.at[k] \in Int
  BY DEF IsFrame
<1>3. j \in Indexes(f) /\ j % w = y /\ j \div w = x
  BY <1>2, TurnedFacts
<1>4. x \in 0..(h - 1) /\ y \in 0..(w - 1) /\ i = y * h + x
  <2>1. i \in 0..(h * w - 1)
    BY <1>2 DEF Indexes
  <2> HIDE DEF w, h
  <2>2. QED
    BY <1>2, <2>1, IndexFacts
<1>5. ASSUME NEW c \in 0..(w - 1), NEW r \in 0..(h - 1)
      PROVE  c * h + r \in Indexes(f) /\ g.at[c * h + r] = f.at[r * w + c] /\ r * w + c \in Indexes(f)
  <2>1. c * h + r \in Indexes(f) /\ Turned(f, c * h + r) = r * w + c
    BY <1>2, TurnedFacts
  <2>2. Turned(f, c * h + r) \in Indexes(f)
    BY <1>2, <2>1, TurnedFacts
  <2> HIDE DEF g
  <2>3. QED
    BY <1>1, <2>1, <2>2
<1>6. j = x * w + y
  BY DEF Turned
<1> DEFINE inner == x \in 1..(h - 2) /\ y \in 1..(w - 2)
           strength == AbsOf(4 * g.at[i] - g.at[i - 1] - g.at[i + 1] - g.at[i - h] - g.at[i + h])
           turned == AbsOf(4 * f.at[j] - f.at[j - 1] - f.at[j + 1] - f.at[j - w] - f.at[j + w])
<1>7. EdgeStrength(g, i) = IF inner THEN strength ELSE 0
  <2> HIDE DEF g
  <2> QED
    BY <1>1 DEF EdgeStrength
<1>8. EdgeStrength(f, j) = IF inner THEN turned ELSE 0
  <2>1. j % f.w = y /\ j \div f.w = x
    BY <1>3
  <2> HIDE DEF j, x, y
  <2>2. QED
    BY <2>1 DEF EdgeStrength
<1>9. inner => strength = turned
  <2> SUFFICES ASSUME inner PROVE strength = turned
    OBVIOUS
  <2> HIDE DEF g, w, h, x, y, j
  <2>1. /\ x \in Int /\ y \in Int /\ x - 1 \in 0..(h - 1) /\ x + 1 \in 0..(h - 1)
        /\ y - 1 \in 0..(w - 1) /\ y + 1 \in 0..(w - 1)
    BY <1>2, <1>4
  <2>2. /\ y * h + (x - 1) = i - 1 /\ (x - 1) * w + y = j - w
        /\ y * h + (x + 1) = i + 1 /\ (x + 1) * w + y = j + w
        /\ (y - 1) * h + x = i - h /\ x * w + (y - 1) = j - 1
        /\ (y + 1) * h + x = i + h /\ x * w + (y + 1) = j + 1
    BY <1>2, <1>4, <1>6, <2>1
  <2>3. /\ g.at[i] = f.at[j]
        /\ g.at[i - 1] = f.at[j - w] /\ g.at[i + 1] = f.at[j + w]
        /\ g.at[i - h] = f.at[j - 1] /\ g.at[i + h] = f.at[j + 1]
    <3>1. g.at[y * h + x] = f.at[x * w + y]
      BY <1>4, <1>5
    <3>2. g.at[y * h + (x - 1)] = f.at[(x - 1) * w + y] /\ g.at[y * h + (x + 1)] = f.at[(x + 1) * w + y]
      BY <1>4, <1>5, <2>1
    <3>3. g.at[(y - 1) * h + x] = f.at[x * w + (y - 1)] /\ g.at[(y + 1) * h + x] = f.at[x * w + (y + 1)]
      BY <1>4, <1>5, <2>1
    <3>4. QED
      BY <1>4, <1>6, <2>2, <3>1, <3>2, <3>3
  <2>4. /\ f.at[j] \in Int /\ f.at[j - 1] \in Int /\ f.at[j + 1] \in Int
        /\ f.at[j - w] \in Int /\ f.at[j + w] \in Int
    <3>1. /\ x * w + (y - 1) \in Indexes(f) /\ x * w + (y + 1) \in Indexes(f)
          /\ (x - 1) * w + y \in Indexes(f) /\ (x + 1) * w + y \in Indexes(f)
      BY <1>4, <1>5, <2>1
    <3>2. QED
      BY <1>2, <1>3, <2>2, <3>1
  <2> DEFINE a == f.at[j]
             b == f.at[j - 1]
             c == f.at[j + 1]
             d == f.at[j - w]
             e == f.at[j + w]
  <2>5. a \in Int /\ b \in Int /\ c \in Int /\ d \in Int /\ e \in Int
    BY <2>4
  <2>6. strength = AbsOf(4 * a - d - e - b - c) /\ turned = AbsOf(4 * a - b - c - d - e)
    BY <2>3
  <2> HIDE DEF a, b, c, d, e
  <2>7. 4 * a - d - e - b - c = 4 * a - b - c - d - e
    BY <2>5
  <2>8. QED
    BY <2>6, <2>7
<1>10. EdgeStrength(g, i) = EdgeStrength(f, j)
  BY <1>7, <1>8, <1>9
<1>11. EdgeStrength(f, i) \in Nat
  <2> DEFINE s == i % w
             t == i \div w
  <2>1. s \in 0..(w - 1) /\ t \in 0..(h - 1) /\ i = t * w + s
    <3>1. i \in 0..(w * h - 1)
      BY DEF Indexes
    <3> HIDE DEF w, h
    <3>2. QED
      BY <1>2, <3>1, IndexFacts
  <2>2. CASE s \in 1..(w - 2) /\ t \in 1..(h - 2)
    <3> HIDE DEF w, h, g, s, t
    <3>1. /\ s - 1 \in 0..(w - 1) /\ s + 1 \in 0..(w - 1)
          /\ t - 1 \in 0..(h - 1) /\ t + 1 \in 0..(h - 1)
      BY <1>2, <2>2
    <3>2. /\ t * w + (s - 1) = i - 1 /\ t * w + (s + 1) = i + 1
          /\ (t - 1) * w + s = i - w /\ (t + 1) * w + s = i + w
      BY <1>2, <2>1
    <3>3. /\ t * w + (s - 1) \in Indexes(f) /\ t * w + (s + 1) \in Indexes(f)
          /\ (t - 1) * w + s \in Indexes(f) /\ (t + 1) * w + s \in Indexes(f)
      BY <1>5, <2>1, <3>1
    <3>4. /\ f.at[i] \in Int /\ f.at[i - 1] \in Int /\ f.at[i + 1] \in Int
          /\ f.at[i - w] \in Int /\ f.at[i + w] \in Int
      BY <1>2, <3>2, <3>3
    <3> DEFINE n == 4 * f.at[i] - f.at[i - 1] - f.at[i + 1] - f.at[i - w] - f.at[i + w]
    <3>5. n \in Int
      BY <3>4
    <3>6. EdgeStrength(f, i) = AbsOf(n)
      BY <2>2 DEF EdgeStrength, s, t, w, h
    <3> HIDE DEF n
    <3>7. QED
      BY <3>5, <3>6 DEF AbsOf, AtLeast
  <2>3. CASE ~(s \in 1..(w - 2) /\ t \in 1..(h - 2))
    BY <2>3 DEF EdgeStrength
  <2>4. QED
    BY <2>2, <2>3
<1>12. QED
  BY <1>10, <1>11 DEF g, j

\* The edges are scaled by the same strongest one.
LEMMA EdgesTurn ==
  ASSUME NEW f, IsFrame(f)
  PROVE  DetectLaplacianEdges(Transposed(f)) = Transposed(DetectLaplacianEdges(f))
<1> DEFINE g == Transposed(f)
           w == f.w
           h == f.h
           S == {EdgeStrength(f, i) : i \in Indexes(f)}
           T == {EdgeStrength(g, i) : i \in Indexes(f)}
           p == [i \in 0..(w * h - 1) |->
                   IF Max(S) > 0 THEN RoundDiv(10000 * EdgeStrength(f, i), Max(S)) ELSE 0]
           q == [i \in 0..(w * h - 1) |->
                   IF Max(T) > 0 THEN RoundDiv(10000 * EdgeStrength(g, i), Max(T)) ELSE 0]
<1>1. IsFrame(g) /\ g.w = h /\ g.h = w /\ Indexes(g) = Indexes(f)
  BY TransposedFacts
<1>2. /\ f = Frame(w, h, f.at) /\ w \in Nat \ {0} /\ h \in Nat \ {0} /\ Indexes(f) = 0..(w * h - 1)
      /\ g = Frame(h, w, g.at)
  BY <1>1 DEF IsFrame, Indexes
<1>3. DetectLaplacianEdges(f) = Frame(w, h, p)
  <2>1. DetectLaplacianEdges(f)
          = [f EXCEPT !.at = [i \in Indexes(f) |->
               IF Max(S) > 0 THEN RoundDiv(10000 * EdgeStrength(f, i), Max(S)) ELSE 0]]
    BY DEF DetectLaplacianEdges
  <2> HIDE DEF S
  <2>2. DetectLaplacianEdges(f) = [f EXCEPT !.at = p]
    BY <1>2, <2>1
  <2> HIDE DEF p
  <2>3. QED
    BY <1>2, <2>2 DEF Frame
<1>4. DetectLaplacianEdges(g) = Frame(h, w, q)
  <2> HIDE DEF g
  <2>1. DetectLaplacianEdges(g)
          = [g EXCEPT !.at = [i \in Indexes(f) |->
               IF Max(T) > 0 THEN RoundDiv(10000 * EdgeStrength(g, i), Max(T)) ELSE 0]]
    BY <1>1 DEF DetectLaplacianEdges
  <2> HIDE DEF T
  <2>2. DetectLaplacianEdges(g) = [g EXCEPT !.at = q]
    BY <1>2, <2>1
  <2> HIDE DEF q, w, h
  <2>3. QED
    BY <1>2, <2>2 DEF Frame
<1>5. \A i \in Indexes(f) : Turned(f, i) \in Indexes(f) /\ EdgeStrength(g, i) = EdgeStrength(f, Turned(f, i))
  BY <1>2, TurnedFacts, EdgeStrengthTurns
<1>6. \A j \in Indexes(f) : \E i \in Indexes(f) : Turned(f, i) = j
  BY <1>2, TurnedFacts
<1>7. S = T
  <2> HIDE DEF g
  <2>1. \A i \in Indexes(f) : EdgeStrength(g, i) \in S
    BY <1>5
  <2>2. \A j \in Indexes(f) : EdgeStrength(f, j) \in T
    BY <1>5, <1>6
  <2>3. T \subseteq S
    <3> HIDE DEF S
    <3> QED
      BY <2>1
  <2>4. S \subseteq T
    <3> HIDE DEF T
    <3> QED
      BY <2>2
  <2> HIDE DEF S, T
  <2>5. QED
    BY <2>3, <2>4
<1>8. ASSUME NEW i \in 0..(w * h - 1) PROVE q[i] = p[(i % h) * w + (i \div h)]
  <2> DEFINE j == Turned(f, i)
  <2>1. j \in 0..(w * h - 1) /\ j = (i % h) * w + (i \div h) /\ EdgeStrength(g, i) = EdgeStrength(f, j)
    BY <1>2, <1>5 DEF Turned
  <2> HIDE DEF j, w, h, g, S, T
  <2>2. q[i] = p[j]
    BY <1>7, <2>1
  <2>3. QED
    BY <2>1, <2>2
<1>9. p = [i \in 0..(w * h - 1) |-> p[i]] /\ q = [i \in 0..(w * h - 1) |-> q[i]]
  OBVIOUS
<1> HIDE DEF p, q, w, h, g
<1>10. Transposed(Frame(w, h, p)) = Frame(h, w, q)
  <2>1. w \in Nat \ {0} /\ h \in Nat \ {0}
    BY <1>2
  <2>2. \A i \in 0..(w * h - 1) : q[i] = p[(i % h) * w + (i \div h)]
    BY <1>8
  <2>3. IsTurned(w, h, p, q)
    BY <1>9, <2>2 DEF IsTurned
  <2>4. QED
    BY <2>1, <2>3, TransposedIs
<1>11. QED
  BY <1>3, <1>4, <1>10 DEF g

-----------------------------------------------------------------------------
(* Hues.                                                                   *)

\* Three numbers have a largest and a smallest one.
LEMMA ExtremesOfThree ==
  ASSUME NEW a \in Int, NEW b \in Int, NEW c \in Int
  PROVE  LET S == {a, b, c} IN
         /\ Max(S) \in {a, b, c} /\ a <= Max(S) /\ b <= Max(S) /\ c <= Max(S)
         /\ Min(S) \in {a, b, c} /\ Min(S) <= a /\ Min(S) <= b /\ Min(S) <= c
<1> DEFINE S == {a, b, c}
<1>1. IsFiniteSet(S)
  <2>1. IsFiniteSet({c})
    BY FS_Singleton
  <2>2. IsFiniteSet({c} \cup {b})
    BY <2>1, FS_AddElement
  <2>3. IsFiniteSet(({c} \cup {b}) \cup {a})
    BY <2>2, FS_AddElement
  <2>4. S = ({c} \cup {b}) \cup {a}
    OBVIOUS
  <2>5. QED
    BY <2>3, <2>4
<1>2. S \in SUBSET Int /\ S # {} /\ a \in S /\ b \in S /\ c \in S
  OBVIOUS
<1>3. S = {a, b, c}
  OBVIOUS
<1> HIDE DEF S
<1>4. /\ Max(S) \in S /\ \A n \in S : n <= Max(S)
      /\ Min(S) \in S /\ \A n \in S : Min(S) <= n
  BY <1>1, <1>2, ExtremeFacts
<1>5. /\ Max(S) \in S /\ a <= Max(S) /\ b <= Max(S) /\ c <= Max(S)
      /\ Min(S) \in S /\ Min(S) <= a /\ Min(S) <= b /\ Min(S) <= c
  BY <1>2, <1>4
<1>6. QED
  BY <1>5 DEF S

\* Sixty degrees times a part of a spread.
LEMMA SixthsFacts ==
  ASSUME NEW d \in Nat \ {0}, NEW n \in Int, -d <= n, n <= d
  PROVE  /\ (60 * n) \div d \in -60..60
         /\ (60 * d) \div d = 60 /\ (60 * (-d)) \div d = -60
<1> DEFINE q == (60 * n) \div d
<1>1. q \in Int /\ d * q <= 60 * n /\ 60 * n < d * q + d
  <2>1. 60 * n \in Int
    OBVIOUS
  <2>2. QED
    BY <2>1, QuotientFacts
<1>2. d * 60 <= 60 * d /\ 60 * d < d * 60 + d /\ 60 * d \in Int
  OBVIOUS
<1>3. d * (-60) <= 60 * (-d) /\ 60 * (-d) < d * (-60) + d /\ 60 * (-d) \in Int
  OBVIOUS
<1>4. (60 * d) \div d = 60
  BY <1>2, QuotientIs
<1>5. (60 * (-d)) \div d = -60
  <2> DEFINE m == 60 * (-d)
             k == -60
  <2>1. k \in Int /\ m \in Int /\ d * k <= m /\ m < d * k + d
    BY <1>3
  <2> HIDE DEF m, k
  <2>2. m \div d = k
    BY <2>1, QuotientIs
  <2>3. QED
    BY <2>2 DEF m, k
<1> HIDE DEF q
<1>6. q <= 60
  <2>1. ASSUME q >= 61 PROVE FALSE
    <3>1. \A a, b \in Int : a <= b => d * a <= d * b
      OBVIOUS
    <3>2. d * 61 <= d * q
      BY <1>1, <2>1, <3>1
    <3>3. QED
      BY <1>1, <3>2
  <2>2. QED
    BY <1>1, <2>1
<1>7. q >= -60
  <2>1. ASSUME q <= -61 PROVE FALSE
    <3>1. \A a, b \in Int : a <= b => d * a <= d * b
      OBVIOUS
    <3>2. d * q <= d * (-61)
      BY <1>1, <2>1, <3>1
    <3>3. d * (-61) = -(61 * d) /\ -(60 * d) <= 60 * n
      OBVIOUS
    <3>4. QED
      BY <1>1, <3>2, <3>3
  <2>2. QED
    BY <1>1, <2>1
<1>8. q \in -60..60
  BY <1>1, <1>6, <1>7
<1>9. QED
  BY <1>4, <1>5, <1>8 DEF q

\* The largest byte of a colour, and how far its bytes are spread.
Largest(c) == Max({c.r, c.g, c.b})
Spread(c) == Largest(c) - Min({c.r, c.g, c.b})

\* The hue of a colour that is not grey, by its largest byte.
LEMMA HueIs ==
  ASSUME NEW c, IsColour(c), ~(c.r = c.g /\ c.g = c.b)
  PROVE  LET q(n) == (60 * n) \div Spread(c) IN
         /\ Spread(c) \in Nat \ {0}
         /\ \A a, b \in {c.r, c.g, c.b} : -Spread(c) <= a - b /\ a - b <= Spread(c)
         /\ Largest(c) = c.r =>
              Hue(c) = IF q(c.g - c.b) < 0 THEN q(c.g - c.b) + 360 ELSE q(c.g - c.b)
         /\ Largest(c) # c.r /\ Largest(c) = c.g => Hue(c) = q(c.b - c.r) + 120
         /\ Largest(c) # c.r /\ Largest(c) # c.g => Hue(c) = q(c.r - c.g) + 240
<1> DEFINE q(n) == (60 * n) \div Spread(c)
           d == Spread(c)
           max == Largest(c)
           min == Min({c.r, c.g, c.b})
<1>1. c.r \in Int /\ c.g \in Int /\ c.b \in Int
  BY DEF IsColour
<1>2. /\ max \in {c.r, c.g, c.b} /\ c.r <= max /\ c.g <= max /\ c.b <= max
      /\ min \in {c.r, c.g, c.b} /\ min <= c.r /\ min <= c.g /\ min <= c.b
  BY <1>1, ExtremesOfThree DEF Largest
<1>3. d = max - min
  BY DEF Spread
<1> HIDE DEF d, max, min
<1>4. d \in Nat \ {0} /\ \A a, b \in {c.r, c.g, c.b} : -d <= a - b /\ a - b <= d
  BY <1>1, <1>2, <1>3
<1>5. \A a, b \in {c.r, c.g, c.b} : (60 * (a - b)) \div d \in -60..60
  <2> SUFFICES ASSUME NEW a \in {c.r, c.g, c.b}, NEW b \in {c.r, c.g, c.b}
               PROVE  (60 * (a - b)) \div d \in -60..60
    OBVIOUS
  <2> DEFINE n == a - b
  <2>1. n \in Int /\ -d <= n /\ n <= d
    BY <1>1, <1>4
  <2> HIDE DEF n
  <2>2. (60 * n) \div d \in -60..60
    BY <1>4, <2>1, SixthsFacts
  <2>3. QED
    BY <2>2 DEF n
<1> DEFINE hue == CASE d = 0 -> 0
                    [] d > 0 /\ max = c.r -> Rem((60 * (c.g - c.b)) \div d, 360)
                    [] d > 0 /\ max # c.r /\ max = c.g -> ((60 * (c.b - c.r)) \div d) + 120
                    [] OTHER -> ((60 * (c.r - c.g)) \div d) + 240
<1>6. Hue(c) = IF hue < 0 THEN hue + 360 ELSE hue
  BY <1>3 DEF Hue, max, min, Largest
<1>7. \A n \in -60..60 : Rem(n, 360) = n
  BY DEF Rem
<1> DEFINE x == (60 * (c.g - c.b)) \div d
           y == (60 * (c.b - c.r)) \div d
           z == (60 * (c.r - c.g)) \div d
<1>8. x \in -60..60 /\ y \in -60..60 /\ z \in -60..60
  BY <1>5
<1>9. /\ max = c.r => hue = x
      /\ max # c.r /\ max = c.g => hue = y + 120
      /\ max # c.r /\ max # c.g => hue = z + 240
  <2>1. d > 0 /\ d # 0
    BY <1>4
  <2> HIDE DEF x, y, z
  <2>2. Rem(x, 360) = x
    BY <1>7, <1>8
  <2>3. hue = CASE d = 0 -> 0
                [] d > 0 /\ max = c.r -> Rem(x, 360)
                [] d > 0 /\ max # c.r /\ max = c.g -> y + 120
                [] OTHER -> z + 240
    BY DEF x, y, z
  <2> HIDE DEF hue
  <2>4. max = c.r => hue = x
    BY <2>1, <2>2, <2>3
  <2>5. max # c.r /\ max = c.g => hue = y + 120
    BY <2>1, <2>3
  <2>6. max # c.r /\ max # c.g => hue = z + 240
    BY <2>1, <2>3
  <2>7. QED
    BY <2>4, <2>5, <2>6
<1> HIDE DEF hue, x, y, z
<1>10. /\ max = c.r => Hue(c) = IF x < 0 THEN x + 360 ELSE x
       /\ max # c.r /\ max = c.g => Hue(c) = y + 120
       /\ max # c.r /\ max # c.g => Hue(c) = z + 240
  BY <1>6, <1>8, <1>9
<1>11. QED
  BY <1>4, <1>10 DEF max, d, x, y, z

\* A hue turned by a third of the circle.
Third(hue) == IF hue >= 240 THEN hue - 240 ELSE hue + 120

\* A colour whose channels are rotated.
Rotated(c) == [r |-> c.b, g |-> c.r, b |-> c.g]

\* Hues are degrees, and rotating the channels turns them by a third.
LEMMA HueFacts ==
  ASSUME NEW c, IsColour(c)
  PROVE  /\ Hue(c) \in 0..359
         /\ Largest(Rotated(c)) = Largest(c) /\ Spread(Rotated(c)) = Spread(c)
         /\ (c.r = c.g /\ c.g = c.b) \/ Hue(Rotated(c)) = Third(Hue(c))
<1> DEFINE t == Rotated(c)
<1>1. /\ c.r \in Int /\ c.g \in Int /\ c.b \in Int
      /\ t.r = c.b /\ t.g = c.r /\ t.b = c.g
  BY DEF IsColour, Rotated
<1>2. IsColour(t)
  BY <1>1 DEF IsColour
<1>3. Largest(t) = Largest(c) /\ Spread(t) = Spread(c)
  <2> HIDE DEF t
  <2>1. {t.r, t.g, t.b} = {c.r, c.g, c.b}
    BY <1>1
  <2>2. QED
    BY <2>1 DEF Largest, Spread
<1> HIDE DEF t
<1>4. ASSUME ~(c.r = c.g /\ c.g = c.b) PROVE Hue(c) \in 0..359 /\ Hue(t) = Third(Hue(c))
  <2> DEFINE d == Spread(c)
             max == Largest(c)
             x == (60 * (c.g - c.b)) \div d
             y == (60 * (c.b - c.r)) \div d
             z == (60 * (c.r - c.g)) \div d
  <2>1. /\ d \in Nat \ {0}
        /\ \A a, b \in {c.r, c.g, c.b} : -d <= a - b /\ a - b <= d
        /\ max = c.r => Hue(c) = IF x < 0 THEN x + 360 ELSE x
        /\ max # c.r /\ max = c.g => Hue(c) = y + 120
        /\ max # c.r /\ max # c.g => Hue(c) = z + 240
    BY <1>4, HueIs
  <2>2. /\ max = c.b => Hue(t) = IF z < 0 THEN z + 360 ELSE z
        /\ max # c.b /\ max = c.r => Hue(t) = x + 120
        /\ max # c.b /\ max # c.r => Hue(t) = y + 240
    <3>1. ~(t.r = t.g /\ t.g = t.b)
      BY <1>1, <1>4
    <3>2. /\ Largest(t) = t.r => Hue(t) = IF (60 * (t.g - t.b)) \div Spread(t) < 0
                                          THEN (60 * (t.g - t.b)) \div Spread(t) + 360
                                          ELSE (60 * (t.g - t.b)) \div Spread(t)
          /\ Largest(t) # t.r /\ Largest(t) = t.g => Hue(t) = ((60 * (t.b - t.r)) \div Spread(t)) + 120
          /\ Largest(t) # t.r /\ Largest(t) # t.g => Hue(t) = ((60 * (t.r - t.g)) \div Spread(t)) + 240
      BY <1>2, <3>1, HueIs
    <3>3. QED
      BY <1>1, <1>3, <3>2
  <2>3. /\ max \in {c.r, c.g, c.b} /\ c.r <= max /\ c.g <= max /\ c.b <= max
        /\ \E min \in {c.r, c.g, c.b} :
             d = max - min /\ min <= c.r /\ min <= c.g /\ min <= c.b
    <3> DEFINE min == Min({c.r, c.g, c.b})
    <3>1. /\ max \in {c.r, c.g, c.b} /\ c.r <= max /\ c.g <= max /\ c.b <= max
          /\ min \in {c.r, c.g, c.b} /\ min <= c.r /\ min <= c.g /\ min <= c.b
      BY <1>1, ExtremesOfThree DEF Largest
    <3>2. d = max - min
      BY DEF Spread
    <3> HIDE DEF min, max, d
    <3>3. QED
      BY <3>1, <3>2
  <2> HIDE DEF d, max
  <2>4. \A a, b \in {c.r, c.g, c.b} :
          /\ (60 * (a - b)) \div d \in -60..60
          /\ a - b = d => (60 * (a - b)) \div d = 60
          /\ a - b = -d => (60 * (a - b)) \div d = -60
    <3> SUFFICES ASSUME NEW a \in {c.r, c.g, c.b}, NEW b \in {c.r, c.g, c.b}
                 PROVE  /\ (60 * (a - b)) \div d \in -60..60
                        /\ a - b = d => (60 * (a - b)) \div d = 60
                        /\ a - b = -d => (60 * (a - b)) \div d = -60
      OBVIOUS
    <3> DEFINE n == a - b
    <3>1. n \in Int /\ -d <= n /\ n <= d
      BY <1>1, <2>1
    <3> HIDE DEF n
    <3>2. (60 * n) \div d \in -60..60 /\ (60 * d) \div d = 60 /\ (60 * (-d)) \div d = -60
      BY <2>1, <3>1, SixthsFacts
    <3>3. QED
      BY <3>2 DEF n
  <2>5. /\ x \in -60..60 /\ y \in -60..60 /\ z \in -60..60
        /\ c.b - c.r = d => y = 60
        /\ c.r - c.g = d => z = 60
        /\ c.r - c.g = -d => z = -60
        /\ c.g - c.b = -d => x = -60
    BY <2>4
  <2> HIDE DEF x, y, z
  <2>6. CASE max = c.r /\ max # c.b
    BY <2>1, <2>2, <2>5, <2>6 DEF Third
  <2>7. CASE max = c.r /\ max = c.b
    <3>1. c.r - c.g = d /\ c.g - c.b = -d
      BY <1>1, <1>4, <2>3, <2>7
    <3>2. QED
      BY <2>1, <2>2, <2>5, <2>7, <3>1 DEF Third
  <2>8. CASE max # c.r /\ max = c.g /\ max # c.b
    BY <2>1, <2>2, <2>5, <2>8 DEF Third
  <2>9. CASE max # c.r /\ max = c.g /\ max = c.b
    <3>1. c.r - c.g = -d /\ c.b - c.r = d
      BY <1>1, <1>4, <2>3, <2>9
    <3>2. QED
      BY <2>1, <2>2, <2>5, <2>9, <3>1 DEF Third
  <2>10. CASE max # c.r /\ max # c.g
    <3>1. max = c.b
      BY <2>3, <2>10
    <3>2. QED
      BY <2>1, <2>2, <2>5, <2>10, <3>1 DEF Third
  <2>11. QED
    BY <2>6, <2>7, <2>8, <2>9, <2>10
<1>5. ASSUME c.r = c.g /\ c.g = c.b PROVE Hue(c) = 0
  <2>1. Max({c.r, c.g, c.b}) = c.r /\ Min({c.r, c.g, c.b}) = c.r
    BY <1>1, <1>5, ExtremesOfThree
  <2> DEFINE S == {c.r, c.g, c.b}
  <2>2. Max(S) - Min(S) = 0
    BY <1>1, <2>1
  <2> HIDE DEF S
  <2>3. QED
    BY <2>2 DEF Hue, S
<1>6. QED
  BY <1>3, <1>4, <1>5 DEF t

\* A hue is taken to its remainder.
LEMMA NormalizeHueFacts ==
  ASSUME NEW hue \in Int
  PROVE  /\ NormalizeHue(hue) \in 0..359
         /\ hue \in 0..359 => NormalizeHue(hue) = hue
         /\ NormalizeHue(hue + 120) = Third(NormalizeHue(hue))
<1>1. \A n \in Int : NormalizeHue(n) = n % 360
  <2> SUFFICES ASSUME NEW n \in Int PROVE NormalizeHue(n) = n % 360
    OBVIOUS
  <2>1. CASE n >= 0
    BY <2>1 DEF NormalizeHue, Rem
  <2>2. CASE n < 0
    <3> DEFINE r == (-n) % 360
    <3>1. r \in 0..359 /\ Rem(n, 360) = -r
      BY <2>2 DEF Rem
    <3>2. (360 - r) % 360 = n % 360
      BY <2>2
    <3> HIDE DEF r
    <3>3. NormalizeHue(n) = (360 - r) % 360
      BY <3>1 DEF NormalizeHue, Rem
    <3>4. QED
      BY <3>2, <3>3
  <2>3. QED
    BY <2>1, <2>2
<1>2. hue % 360 \in 0..359 /\ (hue \in 0..359 => hue % 360 = hue)
  OBVIOUS
<1>3. (hue + 120) % 360 = Third(hue % 360)
  BY DEF Third
<1>4. hue + 120 \in Int
  OBVIOUS
<1>5. QED
  BY <1>1, <1>2, <1>3, <1>4

\* Ranges of hues are arcs: there are two between two hues, which share their
\* ends, and an arc turns with its ends.
LEMMA ArcFacts ==
  ASSUME NEW hue \in 0..359, NEW a \in Int, NEW b \in Int
  PROVE  /\ HueInRange(hue, hue, hue)
         /\ NormalizeHue(a) # NormalizeHue(b) =>
              /\ HueInRange(hue, a, b) \/ HueInRange(hue, b, a)
              /\ HueInRange(hue, a, b) /\ HueInRange(hue, b, a) =>
                   hue \in {NormalizeHue(a), NormalizeHue(b)}
         /\ HueInRange(Third(hue), a + 120, b + 120) <=> HueInRange(hue, a, b)
<1> DEFINE m == NormalizeHue(a)
           n == NormalizeHue(b)
<1>1. /\ m \in 0..359 /\ n \in 0..359 /\ NormalizeHue(hue) = hue
      /\ NormalizeHue(a + 120) = Third(m) /\ NormalizeHue(b + 120) = Third(n)
  BY NormalizeHueFacts
<1>2. HueInRange(hue, hue, hue)
  BY <1>1 DEF HueInRange
<1>3. /\ HueInRange(hue, a, b) <=> IF m <= n THEN hue >= m /\ hue <= n ELSE hue >= m \/ hue <= n
      /\ HueInRange(hue, b, a) <=> IF n <= m THEN hue >= n /\ hue <= m ELSE hue >= n \/ hue <= m
      /\ HueInRange(Third(hue), a + 120, b + 120) <=>
           IF Third(m) <= Third(n) THEN Third(hue) >= Third(m) /\ Third(hue) <= Third(n)
           ELSE Third(hue) >= Third(m) \/ Third(hue) <= Third(n)
  BY <1>1 DEF HueInRange
<1> HIDE DEF m, n
<1>4. m # n => /\ HueInRange(hue, a, b) \/ HueInRange(hue, b, a)
               /\ HueInRange(hue, a, b) /\ HueInRange(hue, b, a) => hue \in {m, n}
  BY <1>1, <1>3
<1>5. HueInRange(Third(hue), a + 120, b + 120) <=> HueInRange(hue, a, b)
  BY <1>1, <1>3 DEF Third
<1>6. QED
  BY <1>2, <1>4, <1>5 DEF m, n

\* What a mask asks of a colour besides its hue.
IsStrong(c, request) ==
  /\ IF Largest(c) = 0 THEN request.minSaturation <= 0
     ELSE 100 * Spread(c) >= request.minSaturation * Largest(c)
  /\ request.ignoreValue \/ 100 * Largest(c) >= 255 * request.minValue

\* A mask has the colours that are strong and of a hue in the range.
LEMMA MaskFacts ==
  ASSUME NEW colours, NEW request, NEW i \in DOMAIN colours, NEW c, colours[i] = c,
         NEW min, request.minHue = min, NEW max, request.maxHue = max
  PROVE  CreateHsvThresholdMask(colours, request)[i]
           = IF HueInRange(Hue(c), min, max) /\ IsStrong(c, request) THEN 1 ELSE 0
BY DEF CreateHsvThresholdMask, IsStrong, Largest, Spread

\* The laws of a mask, about one of its colours.
MaskIsLawful(image, request, i) ==
  LET a       == request.minHue
      b       == request.maxHue
      other   == [request EXCEPT !.minHue = b, !.maxHue = a]
      turned  == [request EXCEPT !.minHue = a + 120, !.maxHue = b + 120]
      point   == [request EXCEPT !.minHue = Hue(image[i]), !.maxHue = Hue(image[i])]
      rotated == [j \in DOMAIN image |-> Rotated(image[j])]
      here    == CreateHsvThresholdMask(image, request)[i]
      there   == CreateHsvThresholdMask(image, other)[i]
  IN  /\ NormalizeHue(a) # NormalizeHue(b) =>
           /\ AtLeast(here, there) = CreateHsvThresholdMask(<<image[i]>>, point)[1]
           /\ here = 1 /\ there = 1 => Hue(image[i]) \in {NormalizeHue(a), NormalizeHue(b)}
      /\ \/ image[i].r = image[i].g /\ image[i].g = image[i].b
         \/ CreateHsvThresholdMask(rotated, turned)[i] = here

\* Every mask obeys them.
LEMMA MaskLaws ==
  ASSUME NEW image, NEW i \in DOMAIN image, IsColour(image[i]),
         NEW request \in [minHue : Int, maxHue : Int, minSaturation : Int, minValue : Int,
                          ignoreValue : BOOLEAN]
  PROVE  MaskIsLawful(image, request, i)
<1> DEFINE a == request.minHue
           b == request.maxHue
           c == image[i]
           t == Rotated(c)
           h == Hue(c)
           alone == <<c>>
           other == [request EXCEPT !.minHue = b, !.maxHue = a]
           turned == [request EXCEPT !.minHue = a + 120, !.maxHue = b + 120]
           point == [request EXCEPT !.minHue = h, !.maxHue = h]
           rotated == [j \in DOMAIN image |-> Rotated(image[j])]
<1>0. a \in Int /\ b \in Int /\ request.minHue = a /\ request.maxHue = b
  OBVIOUS
<1>1. /\ other.minHue = b /\ other.maxHue = a
      /\ turned.minHue = a + 120 /\ turned.maxHue = b + 120
      /\ point.minHue = h /\ point.maxHue = h
      /\ rotated[i] = t /\ i \in DOMAIN rotated /\ alone[1] = c /\ 1 \in DOMAIN alone
  OBVIOUS
<1>2. /\ other.minSaturation = request.minSaturation /\ other.minValue = request.minValue
      /\ other.ignoreValue = request.ignoreValue
      /\ turned.minSaturation = request.minSaturation /\ turned.minValue = request.minValue
      /\ turned.ignoreValue = request.ignoreValue
      /\ point.minSaturation = request.minSaturation /\ point.minValue = request.minValue
      /\ point.ignoreValue = request.ignoreValue
  OBVIOUS
<1>3. /\ IsStrong(c, other) <=> IsStrong(c, request)
      /\ IsStrong(c, point) <=> IsStrong(c, request)
      /\ IsStrong(c, turned) <=> IsStrong(c, request)
  <2> HIDE DEF c
  <2>1. QED
    BY <1>2 DEF IsStrong
<1>4. /\ h \in 0..359 /\ Largest(t) = Largest(c) /\ Spread(t) = Spread(c)
      /\ (c.r = c.g /\ c.g = c.b) \/ Hue(t) = Third(h)
  BY HueFacts
<1>5. IsStrong(t, turned) <=> IsStrong(c, turned)
  BY <1>4 DEF IsStrong
<1> HIDE DEF a, b, c, t, h, alone, other, turned, point, rotated
<1>6. /\ CreateHsvThresholdMask(image, request)[i]
           = IF HueInRange(h, a, b) /\ IsStrong(c, request) THEN 1 ELSE 0
      /\ CreateHsvThresholdMask(image, other)[i]
           = IF HueInRange(h, b, a) /\ IsStrong(c, request) THEN 1 ELSE 0
      /\ CreateHsvThresholdMask(alone, point)[1]
           = IF HueInRange(h, h, h) /\ IsStrong(c, request) THEN 1 ELSE 0
      /\ CreateHsvThresholdMask(rotated, turned)[i]
           = IF HueInRange(Hue(t), a + 120, b + 120) /\ IsStrong(c, request) THEN 1 ELSE 0
  <2>1. /\ IsStrong(c, other) <=> IsStrong(c, request)
        /\ IsStrong(c, point) <=> IsStrong(c, request)
        /\ IsStrong(t, turned) <=> IsStrong(c, request)
    BY <1>3, <1>5
  <2>2. h = Hue(c) /\ image[i] = c
    BY DEF h, c
  <2>3. CreateHsvThresholdMask(image, request)[i]
           = IF HueInRange(h, a, b) /\ IsStrong(c, request) THEN 1 ELSE 0
    BY <1>0, <2>2, MaskFacts
  <2>4. CreateHsvThresholdMask(image, other)[i]
           = IF HueInRange(h, b, a) /\ IsStrong(c, other) THEN 1 ELSE 0
    <3>1. other.minHue = b /\ other.maxHue = a
      BY <1>1
    <3>2. QED
      BY ONLY i \in DOMAIN image, <2>2, <3>1, MaskFacts
  <2>5. CreateHsvThresholdMask(alone, point)[1]
           = IF HueInRange(h, h, h) /\ IsStrong(c, point) THEN 1 ELSE 0
    BY ONLY <1>1, <2>2, MaskFacts
  <2>6. CreateHsvThresholdMask(rotated, turned)[i]
           = IF HueInRange(Hue(t), a + 120, b + 120) /\ IsStrong(t, turned) THEN 1 ELSE 0
    BY ONLY <1>1, MaskFacts
  <2>7. QED
    BY <2>1, <2>3, <2>4, <2>5, <2>6
<1>7. /\ HueInRange(h, h, h)
      /\ NormalizeHue(a) # NormalizeHue(b) =>
              /\ HueInRange(h, a, b) \/ HueInRange(h, b, a)
              /\ HueInRange(h, a, b) /\ HueInRange(h, b, a) =>
                   h \in {NormalizeHue(a), NormalizeHue(b)}
      /\ HueInRange(Third(h), a + 120, b + 120) <=> HueInRange(h, a, b)
  BY <1>0, <1>4, ArcFacts, ZenonT(40)
<1>8. NormalizeHue(a) # NormalizeHue(b) =>
        /\ AtLeast(CreateHsvThresholdMask(image, request)[i], CreateHsvThresholdMask(image, other)[i])
             = CreateHsvThresholdMask(alone, point)[1]
        /\ CreateHsvThresholdMask(image, request)[i] = 1 /\ CreateHsvThresholdMask(image, other)[i] = 1 =>
             h \in {NormalizeHue(a), NormalizeHue(b)}
  BY <1>6, <1>7 DEF AtLeast
<1>9. \/ c.r = c.g /\ c.g = c.b
      \/ CreateHsvThresholdMask(rotated, turned)[i] = CreateHsvThresholdMask(image, request)[i]
  BY <1>4, <1>6, <1>7
<1>10. QED
  BY <1>8, <1>9 DEF MaskIsLawful, a, b, c, h, alone, other, turned, point, rotated

-----------------------------------------------------------------------------
(* The inductive invariant.                                                *)

\* What was put into a leaky integrator.
Put(start, calls) ==
  AtLeast(0, start) + SumFunction([i \in DOMAIN calls |-> AtLeast(0, calls[i].arg)])

\* What a session started from and what its calls were given.
Seen == {Args(i) : i \in DOMAIN trail} \cup {input}

\* What a tracker knows of an estimate, and the sum of what it measured.
Measured(start, calls) == {calls[i].arg.m : i \in DOMAIN calls} \cup {start.estimate}
Measurements(calls) == SumFunction([i \in DOMAIN calls |-> calls[i].arg.m])

\* A tracker without process noise and control.
IsSteady(start, calls) ==
  /\ start.process = 0 /\ start.errorCovariance >= 0 /\ start.measurement > 0
  /\ \A i \in DOMAIN calls : calls[i].arg.u = 0

\* Where n calls leave such a tracker, with noise r and a covariance of p at the
\* start, what it knows between low and high and its weighted sum: twice the
\* covariance is off by less than one for every call, and each call moves the
\* estimate by no more than its rounding and what the gains before it are off.
IsNear(r, p, n, sum, low, high, state) ==
  LET total == r + n * p
      slack == (2 * (n * r) + (n * (n - 1)) * (high - low)) * total
  IN  /\ low <= state.estimate /\ state.estimate <= high
      /\ -(n * total) <= 2 * (state.errorCovariance * total - r * p)
      /\ 2 * (state.errorCovariance * total - r * p) <= n * total
      /\ -slack <= (4 * r) * (state.estimate * total - sum)
      /\ (4 * r) * (state.estimate * total - sum) <= slack
IsNearBatch(start, calls, state) ==
  IsNear(start.measurement, start.errorCovariance, Len(calls),
         start.measurement * start.estimate + start.errorCovariance * Measurements(calls),
         Min(Measured(start, calls)), Max(Measured(start, calls)), state)

\* The result of two morphologies.
IsComposed(start, calls, result) ==
  Len(calls) = 2 /\ {calls[1].op, calls[2].op} \subseteq {"erosion", "dilation"} =>
    /\ calls[1].arg \in Int /\ calls[2].arg \in Int
    /\ result = ApplyMorphology(ApplyMorphology(start, calls[1].op, calls[1].arg),
                               calls[2].op, calls[2].arg)

\* What is fed back to the next call is an input of it, and until the first
\* call it is what the session started from.
FedBack ==
  /\ trail = <<>> => value = input
  /\ kind = "frame" => /\ IsFrame(input) /\ IsFrame(value)
                       /\ CallsOnly("pool") =>
                            /\ Max(PixelValues(value)) = Max(PixelValues(input))
                            /\ PixelValues(value) \subseteq PixelValues(input)
                       /\ IsComposed(input, trail, value)
  /\ kind = "image" => input \in Images /\ value = input
  /\ kind = "average" => /\ Seen \subseteq Int /\ value \in Int
                         /\ \E low, high \in Seen : low <= value /\ value <= high
  /\ kind = "charge" => /\ Seen \subseteq Int /\ value \in Int /\ (trail # <<>> => value >= 0)
                        /\ AtLeast(0, value) <= Put(input, trail)
  /\ kind = "tracker" => /\ input \in Trackers /\ value.estimate \in Int /\ value.errorCovariance \in Int
                         /\ trail # <<>> => value.errorCovariance >= 0
                         /\ \A i \in DOMAIN trail : trail[i].arg.m \in Int
                         /\ IsSteady(input, trail) => IsNearBatch(input, trail, value)
  /\ kind = "stereo"  => input \in Stereo /\ value = input
  /\ kind = "pcm" => input \in Recordings /\ value = input
  /\ kind = "video" => input \in Videos /\ value = input
  /\ kind = "track" => input \in Tracks /\ value = input
  /\ kind = "sensors" => IsSensorMap(input) /\ IsSensorMap(value)

\* What a call returns that is the first one of its session.
Answer(op, start, arg, result) ==
  /\ op \in {"erosion", "dilation"} => arg \in Int /\ result = ApplyMorphology(start, op, arg)
  /\ op = "mask" =>
       start \in Images /\ arg \in HsvRequests /\ result = CreateHsvThresholdMask(start, arg)
  /\ op = "palette" =>
       start \in Images /\ arg \in Palettes /\ result = QuantizeSemanticPalette(start, arg)
  /\ op = "bands" =>
       start \in Recordings /\ Len(start) = FrameCount /\ result = SplitFrequencyBands(start, arg)
  /\ op = "direction" =>
       /\ start \in Stereo /\ arg \in DirectionBins
       /\ result = QuantizeBinauralDirection(start.left, start.right, arg)
  /\ op = "flow" =>
       /\ start \in Videos /\ arg \in Radii
       /\ result = EstimateDenseOpticalFlow(start.previous, start.current, arg)
  /\ op = "hash" =>
       start \in Tracks /\ arg \in CellSizes /\ result = QuantizeSpatialHash(start, arg)
  /\ op = "normalize" =>
       \E enumeration \in SetToSeqs(DOMAIN start) : result = Normalize(start, enumeration)
\* What the session holds after its first call is the answer to it.
Returned == Len(trail) = 1 => Answer(trail[1].op, input, trail[1].arg, value)

\* What a session works on, and the inductive invariant.
Kinds == {"frame", "image", "average", "charge", "tracker", "stereo", "pcm",
          "video", "track", "sensors", "done"}
IInv ==
  /\ kind \in Kinds
  /\ trail \in Seq(ToSet(trail)) /\ Len(trail) <= MaxCalls
  /\ FedBack /\ Returned

\* The invariant is stronger than the types.
LEMMA IInvImpliesTypeOK == ASSUME IInv PROVE TypeOK
<1>1. kind = "frame" => DOMAIN value.at = Indexes(value)
  BY DEF IInv, FedBack, IsFrame
<1>2. QED
  BY <1>1 DEF IInv, Kinds, FedBack, TypeOK

\* A call is entered behind the earlier ones.
LEMMA CallFacts ==
  ASSUME trail \in Seq(ToSet(trail)), Len(trail) <= MaxCalls,
         NEW from, NEW to, NEW op, NEW arg, NEW result, Call(from, to, op, arg, result)
  PROVE  /\ trail' \in Seq(ToSet(trail')) /\ Len(trail') <= MaxCalls /\ trail' # <<>>
         /\ Len(trail') = 1 => trail = <<>> /\ trail'[1] = [op |-> op, arg |-> arg]
<1> DEFINE call == [op |-> op, arg |-> arg]
           S == ToSet(trail) \cup {call}
<1>1. trail \in Seq(S) /\ call \in S
  OBVIOUS
<1>2. trail' = Append(trail, call) /\ Len(trail) < MaxCalls /\ Len(trail) \in Nat
  BY DEF Call
<1> HIDE DEF S, call
<1>3. trail' \in Seq(S) /\ Len(trail') = Len(trail) + 1 /\ trail'[Len(trail) + 1] = call
  BY <1>1, <1>2
<1>4. trail' \in Seq(ToSet(trail'))
  <2>1. DOMAIN trail' = 1..Len(trail') /\ Len(trail') \in Nat
    BY <1>3
  <2>2. \A i \in 1..Len(trail') : trail'[i] \in ToSet(trail')
    BY <2>1 DEF ToSet
  <2>3. trail' = [i \in 1..Len(trail') |-> trail'[i]]
    BY <1>3
  <2>4. QED
    BY <2>1, <2>2, <2>3
<1>5. Len(trail') <= MaxCalls /\ trail' # <<>>
  BY <1>2, <1>3, SessionAssumption
<1>6. Len(trail') = 1 => trail = <<>> /\ trail'[1] = call
  BY <1>1, <1>2, <1>3
<1>7. QED
  BY <1>4, <1>5, <1>6 DEF call

\* A session of one call has one entry.
LEMMA OnlyCall ==
  ASSUME trail \in Seq(ToSet(trail)), NEW name, Ops = <<name>>
  PROVE  Len(trail) = 1 /\ trail[1].op = name
<1>1. DOMAIN trail = 1..Len(trail) /\ Len(trail) \in Nat
  OBVIOUS
<1>2. Ops = [i \in DOMAIN trail |-> trail[i].op]
  BY DEF Ops
<1>3. DOMAIN trail = 1..1
  <2>1. DOMAIN Ops = 1..1
    OBVIOUS
  <2>2. DOMAIN Ops = DOMAIN trail
    BY <1>2
  <2>3. QED
    BY <2>1, <2>2, Zenon
<1>4. Len(trail) = 1
  <2>1. 1 \in 1..1 /\ 2 \notin 1..1
    OBVIOUS
  <2>2. 1..Len(trail) = 1..1
    BY <1>1, <1>3, Zenon
  <2>3. 1 \in 1..Len(trail) /\ 2 \notin 1..Len(trail)
    BY <2>1, <2>2, Zenon
  <2>4. QED
    BY <1>1, <2>3
<1>5. Ops[1] = name /\ 1 \in 1..1
  OBVIOUS
<1>6. Ops[1] = trail[1].op
  BY <1>2, <1>3, <1>5, Zenon
<1>7. QED
  BY <1>4, <1>5, <1>6

\* The earlier calls stay what they were.
LEMMA CallAppends ==
  ASSUME trail \in Seq(ToSet(trail)),
         NEW from, NEW to, NEW op, NEW arg, NEW result, Call(from, to, op, arg, result)
  PROVE  /\ Len(trail) \in Nat /\ DOMAIN trail = 1..Len(trail)
         /\ DOMAIN trail' = 1..(Len(trail) + 1) /\ input' = input
         /\ \A i \in 1..Len(trail) : trail'[i] = trail[i]
         /\ trail'[Len(trail) + 1] = [op |-> op, arg |-> arg]
<1> DEFINE call == [op |-> op, arg |-> arg]
           S == ToSet(trail) \cup {call}
<1>1. trail \in Seq(S) /\ call \in S
  OBVIOUS
<1>2. trail' = Append(trail, call) /\ input' = input
  BY DEF Call
<1> HIDE DEF S, call
<1>3. /\ Len(trail) \in Nat /\ DOMAIN trail = 1..Len(trail)
      /\ DOMAIN trail' = 1..(Len(trail) + 1)
      /\ \A i \in 1..Len(trail) : trail'[i] = trail[i]
      /\ trail'[Len(trail) + 1] = call
  BY <1>1, <1>2
<1>4. QED
  BY <1>2, <1>3 DEF call

\* The trail is one call longer.
LEMMA CallLengthens ==
  ASSUME trail \in Seq(ToSet(trail)),
         NEW from, NEW to, NEW op, NEW arg, NEW result, Call(from, to, op, arg, result)
  PROVE  Len(trail') = Len(trail) + 1
<1> DEFINE call == [op |-> op, arg |-> arg]
           S == ToSet(trail) \cup {call}
<1>1. trail \in Seq(S) /\ call \in S
  OBVIOUS
<1>2. trail' = Append(trail, call)
  BY DEF Call
<1> HIDE DEF S, call
<1>3. QED
  BY <1>1, <1>2

\* A session of two calls has two entries.
LEMMA TwoCalls ==
  ASSUME trail \in Seq(ToSet(trail)), NEW first, NEW second, Ops = <<first, second>>
  PROVE  Len(trail) = 2 /\ DOMAIN trail = 1..2 /\ trail[1].op = first /\ trail[2].op = second
<1>1. DOMAIN trail = 1..Len(trail) /\ Len(trail) \in Nat
  OBVIOUS
<1>2. Ops = [i \in DOMAIN trail |-> trail[i].op]
  BY DEF Ops
<1>3. DOMAIN trail = 1..2
  <2>1. DOMAIN Ops = 1..2
    OBVIOUS
  <2>2. DOMAIN Ops = DOMAIN trail
    BY <1>2
  <2>3. QED
    BY <2>1, <2>2, Zenon
<1>4. Len(trail) = 2
  <2>1. 2 \in 1..2 /\ 3 \notin 1..2
    OBVIOUS
  <2>2. 1..Len(trail) = 1..2
    BY <1>1, <1>3, Zenon
  <2>3. 2 \in 1..Len(trail) /\ 3 \notin 1..Len(trail)
    BY <2>1, <2>2, Zenon
  <2>4. QED
    BY <1>1, <2>3
<1>5. Ops[1] = first /\ Ops[2] = second /\ 1 \in 1..2 /\ 2 \in 1..2
  OBVIOUS
<1>6. Ops[1] = trail[1].op /\ Ops[2] = trail[2].op
  BY <1>2, <1>3, <1>5, Zenon
<1>7. QED
  BY <1>3, <1>4, <1>5, <1>6

\* A call adds what it is given to what was seen.
LEMMA SeenGrows ==
  ASSUME trail \in Seq(ToSet(trail)),
         NEW from, NEW to, NEW op, NEW arg, NEW result, Call(from, to, op, arg, result)
  PROVE  Seen' = Seen \cup {arg}
<1> DEFINE n == Len(trail)
<1>1. /\ n \in Nat /\ DOMAIN trail = 1..n /\ DOMAIN trail' = 1..(n + 1) /\ input' = input
      /\ \A i \in 1..n : trail'[i] = trail[i]
      /\ trail'[n + 1] = [op |-> op, arg |-> arg]
  BY CallAppends
<1> HIDE DEF n
<1>2. 1..(n + 1) = (1..n) \cup {n + 1}
  BY <1>1
<1>3. \A i \in 1..n : trail'[i].arg = trail[i].arg
  BY <1>1
<1>4. trail'[n + 1].arg = arg
  BY <1>1
<1>5. Seen = {trail[i].arg : i \in 1..n} \cup {input}
  BY <1>1 DEF Seen, Args
<1>6. Seen' = {trail'[i].arg : i \in (1..n) \cup {n + 1}} \cup {input}
  BY <1>1, <1>2 DEF Seen, Args
<1>7. QED
  BY <1>3, <1>4, <1>5, <1>6

\* After a call a session has only pooled if it had before and the call pools.
LEMMA PoolingGoesOn ==
  ASSUME trail \in Seq(ToSet(trail)), CallsOnly("pool")',
         NEW from, NEW to, NEW op, NEW arg, NEW result, Call(from, to, op, arg, result)
  PROVE  op = "pool" /\ CallsOnly("pool")
<1> DEFINE n == Len(trail)
<1>1. /\ n \in Nat /\ DOMAIN trail = 1..n /\ DOMAIN trail' = 1..(n + 1)
      /\ \A i \in 1..n : trail'[i] = trail[i]
      /\ trail'[n + 1] = [op |-> op, arg |-> arg]
  BY CallAppends
<1> HIDE DEF n
<1>2. \A i \in 1..(n + 1) : trail'[i].op = "pool"
  BY <1>1 DEF CallsOnly
<1>3. op = "pool"
  <2>1. n + 1 \in 1..(n + 1)
    BY <1>1
  <2>2. QED
    BY <1>1, <1>2, <2>1
<1>4. \A i \in 1..n : trail[i].op = "pool"
  <2>1. \A i \in 1..n : i \in 1..(n + 1)
    BY <1>1
  <2>2. QED
    BY <1>1, <1>2, <2>1
<1>5. QED
  BY <1>1, <1>3, <1>4 DEF CallsOnly

\* What was put into an integrator is an integer.
LEMMA PutFacts ==
  ASSUME NEW start \in Int, NEW n \in Nat, NEW calls, DOMAIN calls = 1..n,
         \A i \in 1..n : calls[i].arg \in Int
  PROVE  /\ Put(start, calls) \in Int
         /\ Put(start, calls)
              = AtLeast(0, start) + SumOver([i \in 1..n |-> AtLeast(0, calls[i].arg)], 1..n)
<1> DEFINE f == [i \in 1..n |-> AtLeast(0, calls[i].arg)]
<1>1. \A i \in 1..n : f[i] \in Int
  BY DEF AtLeast
<1>2. IsFiniteSet(1..n)
  BY FS_Interval
<1>3. AtLeast(0, start) \in Int
  BY DEF AtLeast
<1>4. Put(start, calls) = AtLeast(0, start) + SumFunction(f)
  BY DEF Put
<1>5. DOMAIN f = 1..n
  OBVIOUS
<1> HIDE DEF f
<1>6. SumFunction(f) = SumOver(f, 1..n)
  BY <1>5 DEF SumFunction, SumOver
<1>7. SumOver(f, 1..n) \in Int
  BY <1>1, <1>2, SumSplits
<1>8. QED
  BY <1>3, <1>4, <1>6, <1>7 DEF f

\* It grows by what a call puts in.
LEMMA PutGrows ==
  ASSUME trail \in Seq(ToSet(trail)), Seen \subseteq Int,
         NEW from, NEW to, NEW op, NEW arg \in Int, NEW result, Call(from, to, op, arg, result)
  PROVE  Put(input', trail') = Put(input, trail) + AtLeast(0, arg) /\ Put(input, trail) \in Int
<1> DEFINE n == Len(trail)
           f == [i \in 1..n |-> AtLeast(0, trail[i].arg)]
           g == [i \in 1..(n + 1) |-> AtLeast(0, trail'[i].arg)]
<1>1. /\ n \in Nat /\ DOMAIN trail = 1..n /\ DOMAIN trail' = 1..(n + 1) /\ input' = input
      /\ \A i \in 1..n : trail'[i] = trail[i]
      /\ trail'[n + 1] = [op |-> op, arg |-> arg]
  BY CallAppends
<1>2. \A i \in 1..n : trail[i].arg \in Int /\ trail'[i].arg = trail[i].arg
  BY <1>1 DEF Seen, Args
<1>3. trail'[n + 1].arg = arg
  BY <1>1
<1> HIDE DEF n
<1>4. \A i \in 1..(n + 1) : i \in 1..n \/ i = n + 1
  BY <1>1
<1>5. \A i \in 1..(n + 1) : trail'[i].arg \in Int
  BY <1>2, <1>3, <1>4
<1>6. input \in Int
  BY DEF Seen
<1>7. Put(input, trail) = AtLeast(0, input) + SumOver(f, 1..n) /\ Put(input, trail) \in Int
  BY <1>1, <1>2, <1>6, PutFacts
<1>8. Put(input', trail') = AtLeast(0, input) + SumOver(g, 1..(n + 1))
  <2>1. n + 1 \in Nat
    BY <1>1
  <2>2. QED
    BY <1>1, <1>5, <1>6, <2>1, PutFacts
<1>9. \A i \in 1..n : f[i] \in Int /\ g[i] = f[i]
  <2>1. \A i \in 1..n : i \in 1..(n + 1)
    BY <1>1
  <2>2. QED
    BY <1>2, <2>1 DEF AtLeast
<1>10. g[n + 1] = AtLeast(0, arg) /\ AtLeast(0, arg) \in Int
  <2>1. n + 1 \in 1..(n + 1)
    BY <1>1
  <2>2. QED
    BY <1>3, <2>1 DEF AtLeast
<1> HIDE DEF f, g
<1>11. SumOver(g, 1..(n + 1)) = SumOver(g, 1..n) + g[n + 1]
  <2>1. \A i \in 1..(n + 1) : g[i] \in Int
    BY <1>4, <1>9, <1>10
  <2>2. QED
    BY <1>1, <2>1, SumOfNext
<1>12. SumOver(g, 1..n) = SumOver(f, 1..n) /\ SumOver(f, 1..n) \in Int
  <2>1. IsFiniteSet(1..n)
    BY <1>1, FS_Interval
  <2>2. QED
    BY <1>9, <2>1, SumOfEquals, SumSplits
<1>13. AtLeast(0, input) \in Int
  BY <1>6 DEF AtLeast
<1>14. QED
  BY <1>7, <1>8, <1>10, <1>11, <1>12, <1>13

\* The values of a finite sequence are finitely many.
LEMMA ImageIsFinite ==
  ASSUME NEW n \in Nat, NEW f, DOMAIN f = 1..n
  PROVE  IsFiniteSet({f[i] : i \in 1..n})
<1> DEFINE D == 1..n
           S == {f[i] : i \in D}
           g == [i \in D |-> f[i]]
<1>1. IsFiniteSet(D)
  BY FS_Interval
<1>2. g \in Surjection(D, S)
  BY DEF Surjection
<1> HIDE DEF D, S, g
<1>3. IsFiniteSet(S)
  BY <1>1, <1>2, FS_Surjection
<1>4. QED
  BY <1>3 DEF S, D

\* What is known of an estimate are finitely many integers.
LEMMA MeasuredFacts ==
  ASSUME NEW n \in Nat, NEW calls, DOMAIN calls = 1..n, \A i \in 1..n : calls[i].arg.m \in Int,
         NEW start, start.estimate \in Int
  PROVE  /\ Measured(start, calls) \subseteq Int /\ IsFiniteSet(Measured(start, calls))
         /\ Measured(start, calls) # {}
         /\ Measurements(calls) = SumOver([i \in 1..n |-> calls[i].arg.m], 1..n)
         /\ Measurements(calls) \in Int
<1> DEFINE f == [i \in 1..n |-> calls[i].arg.m]
           S == {f[i] : i \in 1..n}
<1>1. DOMAIN f = 1..n /\ \A i \in 1..n : f[i] = calls[i].arg.m /\ f[i] \in Int
  OBVIOUS
<1>2. Measured(start, calls) = S \cup {start.estimate}
  BY DEF Measured
<1>3. Measurements(calls) = SumFunction(f)
  BY DEF Measurements
<1> HIDE DEF f
<1>4. S \subseteq Int /\ IsFiniteSet(S)
  BY <1>1, ImageIsFinite
<1> HIDE DEF S
<1>5. IsFiniteSet(S \cup {start.estimate})
  BY <1>4, FS_AddElement
<1>6. SumFunction(f) = SumOver(f, 1..n)
  BY <1>1 DEF SumFunction, SumOver
<1>7. SumOver(f, 1..n) \in Int
  <2>1. IsFiniteSet(1..n)
    BY FS_Interval
  <2>2. QED
    BY <1>1, <2>1, SumSplits
<1>8. QED
  BY <1>2, <1>3, <1>4, <1>5, <1>6, <1>7 DEF f

\* A call adds what it measures.
LEMMA MeasuredGrows ==
  ASSUME trail \in Seq(ToSet(trail)), \A i \in DOMAIN trail : trail[i].arg.m \in Int,
         input.estimate \in Int, NEW m \in Int, NEW u,
         NEW from, NEW to, NEW op, NEW result, Call(from, to, op, [m |-> m, u |-> u], result)
  PROVE  /\ \A i \in DOMAIN trail' : trail'[i].arg.m \in Int
         /\ Measured(input', trail') = Measured(input, trail) \cup {m}
         /\ Measurements(trail') = Measurements(trail) + m
         /\ IsSteady(input', trail') => u = 0 /\ IsSteady(input, trail)
<1> DEFINE n == Len(trail)
           f == [i \in 1..n |-> trail[i].arg.m]
           g == [i \in 1..(n + 1) |-> trail'[i].arg.m]
<1>1. /\ n \in Nat /\ DOMAIN trail = 1..n /\ DOMAIN trail' = 1..(n + 1) /\ input' = input
      /\ \A i \in 1..n : trail'[i] = trail[i]
      /\ trail'[n + 1] = [op |-> op, arg |-> [m |-> m, u |-> u]]
  BY CallAppends
<1> HIDE DEF n
<1>2. n + 1 \in Nat /\ n + 1 \in 1..(n + 1) /\ 1..(n + 1) = (1..n) \cup {n + 1}
  BY <1>1
<1>3. /\ \A i \in 1..n : trail'[i].arg.m = trail[i].arg.m /\ trail'[i].arg.u = trail[i].arg.u
      /\ trail'[n + 1].arg.m = m /\ trail'[n + 1].arg.u = u
  BY <1>1
<1>4. \A i \in 1..(n + 1) : trail'[i].arg.m \in Int
  BY <1>1, <1>2, <1>3
<1>5. Measured(input', trail') = Measured(input, trail) \cup {m}
  <2> DEFINE A == {trail[i].arg.m : i \in 1..n}
             B == {trail'[i].arg.m : i \in 1..(n + 1)}
  <2>1. Measured(input, trail) = A \cup {input.estimate} /\ Measured(input', trail') = B \cup {input.estimate}
    BY <1>1 DEF Measured
  <2>2. m \in B
    BY <1>2, <1>3
  <2>3. ASSUME NEW i \in 1..n PROVE trail[i].arg.m \in B
    <3>1. i \in 1..(n + 1) /\ trail'[i].arg.m = trail[i].arg.m
      BY <1>2, <1>3
    <3>2. QED
      BY <3>1
  <2>4. ASSUME NEW i \in 1..(n + 1) PROVE trail'[i].arg.m \in A \cup {m}
    <3>1. CASE i = n + 1
      BY <1>3, <3>1
    <3>2. CASE i \in 1..n
      BY <1>3, <3>2
    <3>3. QED
      BY <1>2, <3>1, <3>2
  <2>5. A \subseteq B /\ B \subseteq A \cup {m}
    BY <2>3, <2>4
  <2> HIDE DEF A, B
  <2>6. QED
    BY <2>1, <2>2, <2>5
<1>6. Measurements(trail') = Measurements(trail) + m
  <2>1. Measurements(trail) = SumOver(f, 1..n)
    BY <1>1, MeasuredFacts
  <2>2. Measurements(trail') = SumOver(g, 1..(n + 1))
    BY <1>1, <1>2, <1>4, MeasuredFacts
  <2>3. \A i \in 1..n : f[i] = g[i]
    BY <1>2, <1>3
  <2>4. g[n + 1] = m /\ \A i \in 1..(n + 1) : g[i] \in Int
    BY <1>2, <1>3, <1>4
  <2> HIDE DEF f, g
  <2>5. SumOver(g, 1..(n + 1)) = SumOver(g, 1..n) + g[n + 1]
    BY <1>1, <2>4, SumOfNext
  <2>6. SumOver(f, 1..n) = SumOver(g, 1..n)
    <3>1. 1 \in Int /\ n \in Int
      BY <1>1
    <3>2. IsFiniteSet(1..n)
      BY <3>1, FS_Interval, Zenon
    <3>3. QED
      BY <2>3, <3>2, SumOfEquals
  <2>7. QED
    BY <2>1, <2>2, <2>4, <2>5, <2>6
<1>7. IsSteady(input', trail') => u = 0 /\ IsSteady(input, trail)
  <2> SUFFICES ASSUME IsSteady(input', trail') PROVE u = 0 /\ IsSteady(input, trail)
    OBVIOUS
  <2>1. \A i \in 1..(n + 1) : trail'[i].arg.u = 0
    BY <1>1 DEF IsSteady
  <2>2. u = 0
    BY <1>2, <1>3, <2>1
  <2>3. \A i \in 1..n : trail[i].arg.u = 0
    BY <1>2, <1>3, <2>1
  <2>4. QED
    BY <1>1, <2>2, <2>3 DEF IsSteady
<1>8. QED
  BY <1>1, <1>4, <1>5, <1>6, <1>7

\* The spread of a set grows with it.
LEMMA SpreadGrows ==
  ASSUME NEW S \in SUBSET Int, IsFiniteSet(S), S # {}, NEW m \in Int, NEW R, R = S \cup {m}
  PROVE  /\ Min(S) \in Int /\ Max(S) \in Int /\ Min(S) <= Max(S)
         /\ Min(R) \in Int /\ Max(R) \in Int
         /\ Min(R) <= Min(S) /\ Max(S) <= Max(R) /\ Min(R) <= m /\ m <= Max(R)
<1>1. R \in SUBSET Int /\ R # {} /\ IsFiniteSet(R)
  BY FS_AddElement
<1>2. /\ Max(S) \in S /\ \A n \in S : n <= Max(S)
      /\ Min(S) \in S /\ \A n \in S : Min(S) <= n
  BY ExtremeFacts
<1>3. /\ Max(R) \in R /\ \A n \in R : n <= Max(R)
      /\ Min(R) \in R /\ \A n \in R : Min(R) <= n
  BY <1>1, ExtremeFacts
<1>4. QED
  BY <1>1, <1>2, <1>3

\* One step of a steady tracker.
LEMMA SteadyStep ==
  ASSUME NEW r \in Nat \ {0}, NEW p \in Nat, NEW n \in Nat, NEW state, NEW m \in Int, NEW S \in Int,
         state.estimate \in Int, state.errorCovariance \in Nat,
         NEW low \in Int, NEW high \in Int, NEW lower \in Int, NEW higher \in Int,
         lower <= low, high <= higher, lower <= m, m <= higher,
         IsNear(r, p, n, S, low, high, state)
  PROVE  IsNear(r, p, n + 1, S + p * m, lower, higher, ApplyKalman(state, m, 0, 0, r))
<1> DEFINE T == r + n * p
<1>0. /\ T \in Nat /\ r + (n + 1) * p = T + p /\ (n + 1) - 1 = n
      /\ low <= state.estimate /\ state.estimate <= high
      /\ -(n * T) <= 2 * (state.errorCovariance * T - r * p)
      /\ 2 * (state.errorCovariance * T - r * p) <= n * T
      /\ -((2 * (n * r) + (n * (n - 1)) * (high - low)) * T) <= (4 * r) * (state.estimate * T - S)
      /\ (4 * r) * (state.estimate * T - S) <= (2 * (n * r) + (n * (n - 1)) * (high - low)) * T
  <2>1. n * p \in Nat /\ (n + 1) * p = n * p + p
    BY ProductFacts
  <2>2. T \in Nat /\ r + (n + 1) * p = T + p /\ (n + 1) - 1 = n
    BY <2>1
  <2>3. QED
    BY <2>2 DEF IsNear
<1>00. T = r + n * p
  OBVIOUS
<1> HIDE DEF T
<1> DEFINE x == state.estimate
           c == state.errorCovariance
           D == c + r
           next == ApplyKalman(state, m, 0, 0, r)
           s == high - low
           z == higher - lower
           k == n * (n - 1)
<1>1. /\ Predicted(state, 0, 0).estimate = x /\ Predicted(state, 0, 0).errorCovariance = c
      /\ AtLeast(1, c + AtLeast(0, r)) = D
  BY DEF Predicted, AtLeast
<1>2. next.estimate = RoundDiv(x * D + c * (m - x), D) /\ next.errorCovariance = RoundDiv((D - c) * c, D)
  BY <1>1 DEF ApplyKalman
<1> DEFINE a == (D - c) * c
           b == x * D + c * (m - x)
<1>3. D \in Nat \ {0} /\ b \in Int /\ a = r * c /\ a \in Int
  OBVIOUS
<1> HIDE DEF next
<1>4. PICK e \in Int : /\ next.errorCovariance * D = r * c + e /\ next.errorCovariance \in Int
                       /\ -D <= 2 * e /\ 2 * e <= D
  <2>1. next.errorCovariance = RoundDiv(a, D)
    BY <1>2
  <2> HIDE DEF D, c, a
  <2>2. QED
    BY <1>3, <2>1, RoundingError
<1>5. PICK f \in Int : /\ next.estimate * D = x * D + c * (m - x) + f /\ next.estimate \in Int
                       /\ -D <= 2 * f /\ 2 * f <= D
  <2>1. next.estimate = RoundDiv(b, D)
    BY <1>2
  <2> HIDE DEF D, b
  <2> DEFINE q == RoundDiv(b, D)
  <2>2. q \in Int /\ \E f \in Int : q * D = b + f /\ -D <= 2 * f /\ 2 * f <= D
    BY <1>3, RoundingError, Zenon
  <2> HIDE DEF q
  <2>3. PICK f \in Int : q * D = b + f /\ -D <= 2 * f /\ 2 * f <= D
    BY <2>2
  <2>4. QED
    BY <2>1, <2>2, <2>3 DEF q, b
<1>6. lower <= next.estimate /\ next.estimate <= higher
  <2>1. x * D + c * (m - x) = x * r + m * c
    OBVIOUS
  <2>2. D * lower = lower * r + lower * c /\ D * higher = higher * r + higher * c
    OBVIOUS
  <2>3. lower * r <= x * r /\ x * r <= higher * r
    <3>1. lower <= x /\ x <= higher /\ x \in Int
      BY <1>0
    <3> HIDE DEF x
    <3>2. QED
      BY <3>1, ProductsGrow
  <2>4. lower * c <= m * c /\ m * c <= higher * c
    <3>1. c \in Nat
      OBVIOUS
    <3> HIDE DEF c
    <3>2. QED
      BY <3>1, ProductsGrow
  <2>5. /\ lower * r \in Int /\ x * r \in Int /\ higher * r \in Int
        /\ lower * c \in Int /\ m * c \in Int /\ higher * c \in Int
    OBVIOUS
  <2>6. D * lower <= b /\ b <= D * higher
    BY <2>1, <2>2, <2>3, <2>4, <2>5
  <2>7. next.estimate = RoundDiv(b, D)
    BY <1>2
  <2> HIDE DEF D, b
  <2>8. QED
    BY <1>3, <2>6, <2>7, RoundDivBounds
<1>7. /\ -((n + 1) * (T + p)) <= 2 * (next.errorCovariance * (T + p) - r * p)
      /\ 2 * (next.errorCovariance * (T + p) - r * p) <= (n + 1) * (T + p)
  BY <1>0, <1>00, <1>4, CovarianceStep
<1>8. /\ -((2 * ((n + 1) * r) + ((n + 1) * n) * z) * (T + p))
           <= (4 * r) * (next.estimate * (T + p) - (S + p * m))
      /\ (4 * r) * (next.estimate * (T + p) - (S + p * m))
           <= (2 * ((n + 1) * r) + ((n + 1) * n) * z) * (T + p)
  <2>1. s \in Nat /\ z \in Nat /\ s <= z /\ -z <= m - x /\ m - x <= z
    BY <1>0
  <2>2. k \in Nat
    <3>1. CASE n = 0
      BY <3>1
    <3>2. CASE n # 0
      <4> DEFINE j == n - 1
      <4>1. j \in Nat
        BY <3>2
      <4> HIDE DEF j
      <4>2. n * j \in Nat
        BY <4>1, ProductFacts
      <4>3. QED
        BY <4>2 DEF j
    <3>3. QED
      BY <3>1, <3>2
  <2>3. /\ -((2 * (n * r) + k * s) * T) <= (4 * r) * (x * T - S)
        /\ (4 * r) * (x * T - S) <= (2 * (n * r) + k * s) * T
    BY <1>0
  <2> DEFINE q == next.estimate
  <2>4. /\ k = n * (n - 1) /\ x \in Int /\ c \in Nat /\ T \in Nat /\ T = r + n * p /\ q \in Int
        /\ q * (c + r) = x * (c + r) + c * (m - x) + f
        /\ -(c + r) <= 2 * f /\ 2 * f <= c + r
        /\ -(n * T) <= 2 * (c * T - r * p) /\ 2 * (c * T - r * p) <= n * T
    BY <1>0, <1>00, <1>5
  <2> HIDE DEF s, z, k, x, c, q
  <2> DEFINE bound == (2 * ((n + 1) * r) + ((n + 1) * n) * z) * (T + p)
  <2>5. /\ -bound <= (4 * r) * (q * (T + p) - (S + p * m))
        /\ (4 * r) * (q * (T + p) - (S + p * m)) <= bound
    BY <2>1, <2>2, <2>3, <2>4, EstimateStep
  <2>6. QED
    BY <2>5 DEF q
<1>9. IsNear(r, p, n + 1, S + p * m, lower, higher, next)
  BY <1>0, <1>6, <1>7, <1>8 DEF IsNear
<1>10. QED
  BY <1>9 DEF next

\* A call keeps a steady tracker near the batch.
LEMMA BatchGoesOn ==
  ASSUME trail \in Seq(ToSet(trail)), \A i \in DOMAIN trail : trail[i].arg.m \in Int,
         input.estimate \in Int, input.errorCovariance \in Int, input.measurement \in Int,
         value.estimate \in Int, value.errorCovariance \in Nat,
         NEW m \in Int, NEW u, NEW from, NEW to, NEW op,
         Call(from, to, op, [m |-> m, u |-> u],
              ApplyKalman(value, m, u, input.process, input.measurement)),
         IsSteady(input, trail) => IsNearBatch(input, trail, value), IsSteady(input', trail')
  PROVE  IsNearBatch(input', trail', value')
<1> DEFINE n == Len(trail)
           r == input.measurement
           p == input.errorCovariance
           A == Measurements(trail)
           S == r * input.estimate + p * A
           M == Measured(input, trail)
           N == Measured(input', trail')
           next == ApplyKalman(value, m, 0, 0, r)
<1>1. /\ n \in Nat /\ DOMAIN trail = 1..n /\ DOMAIN trail' = 1..(n + 1) /\ input' = input
  BY CallAppends
<1>2. /\ N = M \cup {m} /\ Measurements(trail') = A + m
      /\ u = 0 /\ IsSteady(input, trail)
  BY MeasuredGrows
<1>3. input.process = 0 /\ p \in Nat /\ r \in Nat \ {0} /\ IsNearBatch(input, trail, value)
  BY <1>2 DEF IsSteady
<1>4. value' = next
  BY <1>2, <1>3 DEF Call
<1>5. Len(trail') = n + 1
  <2>1. trail' = Append(trail, [op |-> op, arg |-> [m |-> m, u |-> u]])
    BY DEF Call
  <2> DEFINE call == [op |-> op, arg |-> [m |-> m, u |-> u]]
             R == ToSet(trail) \cup {call}
  <2>2. trail \in Seq(R) /\ call \in R
    OBVIOUS
  <2> HIDE DEF R
  <2>3. QED
    BY <2>1, <2>2
<1>6. M \in SUBSET Int /\ IsFiniteSet(M) /\ M # {} /\ A \in Int
  <2> HIDE DEF n
  <2> QED
    BY <1>1, MeasuredFacts
<1>7. /\ Min(M) \in Int /\ Max(M) \in Int
      /\ Min(N) \in Int /\ Max(N) \in Int
      /\ Min(N) <= Min(M) /\ Max(M) <= Max(N) /\ Min(N) <= m /\ m <= Max(N)
  <2> HIDE DEF M, N
  <2> QED
    BY <1>2, <1>6, SpreadGrows
<1>8. IsNear(r, p, n, S, Min(M), Max(M), value)
  BY <1>3 DEF IsNearBatch
<1>9. S \in Int /\ S + p * m = r * input.estimate + p * (A + m)
  <2> DEFINE x0 == input.estimate
  <2>1. x0 \in Int /\ S = r * x0 + p * A
    OBVIOUS
  <2>2. p \in Int /\ r \in Nat /\ A \in Int
    BY <1>3, <1>6
  <2> HIDE DEF A, r, p, x0
  <2>3. r * x0 \in Int /\ p * A \in Int /\ p * m \in Int /\ p * (A + m) = p * A + p * m
    BY <2>1, <2>2
  <2> HIDE DEF S
  <2>4. S \in Int /\ S + p * m = r * x0 + p * (A + m)
    BY <2>1, <2>3
  <2>5. QED
    BY <2>4 DEF x0
<1>10. IsNear(r, p, n + 1, S + p * m, Min(N), Max(N), next)
  <2> DEFINE low == Min(M)
             high == Max(M)
             lower == Min(N)
             higher == Max(N)
  <2>1. /\ low \in Int /\ high \in Int /\ lower \in Int /\ higher \in Int
        /\ lower <= low /\ high <= higher /\ lower <= m /\ m <= higher
        /\ IsNear(r, p, n, S, low, high, value)
    BY <1>7, <1>8
  <2> HIDE DEF n, r, p, S, M, N, A, low, high, lower, higher
  <2>2. IsNear(r, p, n + 1, S + p * m, lower, higher, next)
    BY <1>1, <1>3, <1>9, <2>1, SteadyStep
  <2>3. QED
    BY <2>2 DEF lower, higher
<1> HIDE DEF n, A, next
<1>11. IsNearBatch(input, trail', next)
  BY <1>1, <1>2, <1>5, <1>9, <1>10 DEF IsNearBatch
<1>12. QED
  BY <1>1, <1>4, <1>11

\* Before the first call a tracker is where it started.
LEMMA BatchOfNone ==
  ASSUME NEW start, start.estimate \in Int, start.errorCovariance \in Int, start.measurement \in Int,
         IsSteady(start, <<>>)
  PROVE  IsNearBatch(start, <<>>, start)
<1> DEFINE n == 0
           r == start.measurement
           p == start.errorCovariance
           x == start.estimate
           M == Measured(start, <<>>)
           A == Measurements(<<>>)
           f == [i \in 1..n |-> <<>>[i].arg.m]
<1>1. r \in Nat \ {0} /\ p \in Nat
  BY DEF IsSteady
<1>2. n \in Nat /\ DOMAIN <<>> = 1..n /\ 1..n = {}
  OBVIOUS
<1>3. M = {x}
  BY DEF Measured
<1>4. A = 0
  <2> HIDE DEF n
  <2>1. A = SumOver(f, 1..n)
    BY <1>2, MeasuredFacts
  <2> HIDE DEF f, A
  <2>2. QED
    BY <1>2, <2>1, SumOfNone
<1>5. Min(M) = x /\ Max(M) = x
  <2>1. M \in SUBSET Int /\ IsFiniteSet(M) /\ M # {}
    BY <1>3, FS_Singleton
  <2> HIDE DEF M
  <2>2. Min(M) \in M /\ Max(M) \in M
    BY <2>1, ExtremeFacts
  <2>3. QED
    BY <1>3, <2>2
<1>6. Len(<<>>) = 0
  OBVIOUS
<1> HIDE DEF A, M
<1>7. IsNear(r, p, 0, r * x + p * A, x, x, start)
  <2>1. r \in Int /\ p \in Int /\ x \in Int /\ start.estimate = x /\ start.errorCovariance = p
    BY <1>1
  <2> HIDE DEF r, p, x
  <2>2. r + 0 * p = r /\ p * r - r * p = 0 /\ x * r - r * x = 0
    BY <2>1
  <2>3. r * x + p * A = r * x
    BY <1>4, <2>1
  <2>4. 0 * r = 0 /\ (2 * (0 * r) + (0 * (0 - 1)) * (x - x)) * r = 0 /\ (4 * r) * 0 = 0
    BY <2>1
  <2>5. QED
    BY <2>1, <2>2, <2>3, <2>4 DEF IsNear
<1>8. QED
  BY <1>5, <1>6, <1>7 DEF IsNearBatch, A, M

\* An enumeration lists all of a finite set.
LEMMA EnumerationFacts ==
  ASSUME NEW S, IsFiniteSet(S), NEW e \in SetToSeqs(S)
  PROVE  ToSet(e) = S
<1> DEFINE D == 1..Cardinality(S)
<1>1. e \in [D -> S] /\ \A i, j \in D : i # j => e[i] # e[j]
  BY DEF SetToSeqs
<1>2. Cardinality(S) \in Nat
  BY FS_CardinalityType
<1>3. IsFiniteSet(D) /\ Cardinality(D) = Cardinality(S)
  BY <1>2, FS_Interval
<1> HIDE DEF D
<1>4. e \in Injection(D, S)
  BY <1>1 DEF Injection, IsInjective
<1>5. e \in Surjection(D, S)
  BY <1>3, <1>4, FS_Injection
<1>6. QED
  BY <1>1, <1>5 DEF Surjection, ToSet

\* A quotient of natural numbers is rounded to one.
LEMMA RoundDivOfNaturals ==
  ASSUME NEW a \in Nat, NEW b \in Nat \ {0}
  PROVE  RoundDiv(a, b) \in Nat
<1> DEFINE c == 2 * a + b
           d == 2 * b
<1>1. c \in Nat /\ d \in Nat \ {0}
  OBVIOUS
<1>2. RoundDiv(a, b) = c \div d
  BY DEF RoundDiv
<1> HIDE DEF c, d
<1>3. c \div d \in Nat
  BY <1>1
<1>4. QED
  BY <1>2, <1>3

\* A leaky integrator is not negative.
LEMMA ChargeFacts ==
  ASSUME NEW previous \in Int, NEW impulse \in Int, NEW leakRate \in Int, NEW maxValue \in Int
  PROVE  ApplyLeakyIntegrator(previous, impulse, leakRate, maxValue) \in Nat
<1> DEFINE n == previous * (100 - Clamp01(leakRate)) + 100 * impulse
           top == 100 * AtLeast(0, maxValue)
<1>1. n \in Int /\ top \in Nat
  BY DEF Clamp01, Clamp, AtLeast, AtMost
<1> HIDE DEF n, top
<1>2. Clamp(n, 0, top) \in Nat
  BY <1>1 DEF Clamp, AtLeast, AtMost
<1>3. RoundDiv(Clamp(n, 0, top), 100) \in Nat
  BY <1>2, RoundDivOfNaturals
<1>4. QED
  BY <1>3 DEF ApplyLeakyIntegrator, n, top

\* A covariance is not negative, whatever was passed for the noise.
LEMMA KalmanFacts ==
  ASSUME NEW state, state.estimate \in Int, state.errorCovariance \in Int,
         NEW m \in Int, NEW u \in Int, NEW q \in Int, NEW r \in Int
  PROVE  LET next == ApplyKalman(state, m, u, q, r)
         IN  next.estimate \in Int /\ next.errorCovariance \in Nat
<1> DEFINE x == state.estimate + u
           p == AtLeast(0, state.errorCovariance) + AtLeast(0, q)
           total == AtLeast(1, p + AtLeast(0, r))
<1>1. x \in Int /\ p \in Nat
  BY DEF AtLeast
<1> HIDE DEF p
<1>2. total \in Nat \ {0} /\ total - p \in Nat
  BY <1>1 DEF AtLeast
<1>3. /\ Predicted(state, u, q).estimate = x
      /\ Predicted(state, u, q).errorCovariance = p
  BY DEF Predicted, p
<1> HIDE DEF x, total
<1>4. x * total + p * (m - x) \in Int /\ (total - p) * p \in Nat
  BY <1>1, <1>2
<1>5. RoundDiv(x * total + p * (m - x), total) \in Int /\ RoundDiv((total - p) * p, total) \in Nat
  BY <1>2, <1>4, RoundDivIsOdd, RoundDivOfNaturals
<1>6. ApplyKalman(state, m, u, q, r)
        = [estimate |-> RoundDiv(x * total + p * (m - x), total),
           errorCovariance |-> RoundDiv((total - p) * p, total)]
  BY <1>3 DEF ApplyKalman, total
<1>7. QED
  BY <1>5, <1>6

-----------------------------------------------------------------------------
(* The invariant is inductive.                                             *)

\* A session starts with an input of its kind.
LEMMA InitIsGood == ASSUME Init PROVE IInv
<1>1. kind \in Kinds /\ trail = <<>> /\ value = input
  BY DEF Init, Kinds
<1>2. trail \in Seq(ToSet(trail)) /\ Len(trail) <= MaxCalls /\ Len(trail) # 1
  BY <1>1, SessionAssumption
<1>3. FedBack
  <2>1. /\ kind = "frame" => input \in Frames
        /\ kind = "image" => input \in Images
        /\ kind \in {"average", "charge"} => input \in Levels
        /\ kind = "tracker" => input \in Trackers
        /\ kind = "stereo" => input \in Stereo
        /\ kind = "pcm" => input \in Recordings
        /\ kind = "video" => input \in Videos
        /\ kind = "track" => input \in Tracks
        /\ kind = "sensors" => input \in SensorMaps
    BY DEF Init
  <2>2. kind = "frame" => IsFrame(input)
    BY <2>1, SessionAssumption
  <2>3. kind \in {"average", "charge"} => input \in Int
    BY <2>1, SessionAssumption
  <2>4. kind = "tracker" =>
          /\ value.estimate \in Int /\ value.errorCovariance \in Int
          /\ DOMAIN trail = {}
          /\ IsSteady(input, trail) => IsNearBatch(input, trail, value)
    <3> SUFFICES ASSUME kind = "tracker"
                 PROVE  /\ value.estimate \in Int /\ value.errorCovariance \in Int
                        /\ DOMAIN trail = {}
                        /\ IsSteady(input, trail) => IsNearBatch(input, trail, value)
      OBVIOUS
    <3>1. input.estimate \in Int /\ input.errorCovariance \in Int /\ input.measurement \in Int
      BY <2>1, SessionAssumption
    <3>2. IsSteady(input, <<>>) => IsNearBatch(input, <<>>, input)
      BY <3>1, BatchOfNone
    <3>3. QED
      BY <1>1, <3>1, <3>2
  <2>5. kind = "sensors" => IsSensorMap(input)
    BY <2>1, SessionAssumption
  <2>6. Seen = {input}
    BY <1>1 DEF Seen
  <2>7. kind = "average" => \E low, high \in Seen : low <= value /\ value <= high
    <3>1. kind = "average" => input <= value /\ value <= input
      BY <1>1, <2>3
    <3>2. QED
      BY <2>6, <3>1
  <2>8. kind = "charge" => AtLeast(0, value) <= Put(input, trail)
    <3> SUFFICES ASSUME kind = "charge" PROVE AtLeast(0, value) <= Put(input, trail)
      OBVIOUS
    <3> DEFINE n == 0
               f == [i \in 1..n |-> AtLeast(0, trail[i].arg)]
    <3>1. input \in Int /\ n \in Nat /\ DOMAIN trail = 1..n /\ 1..n = {}
      BY <1>1, <2>3
    <3> HIDE DEF n
    <3>2. Put(input, trail) = AtLeast(0, input) + SumOver(f, 1..n)
      BY <3>1, PutFacts
    <3> HIDE DEF f
    <3>3. SumOver(f, 1..n) = 0
      BY <3>1, SumOfNone
    <3>4. AtLeast(0, input) \in Int
      BY <3>1 DEF AtLeast
    <3>5. QED
      BY <1>1, <3>2, <3>3, <3>4
  <2>9. QED
    BY <1>1, <2>1, <2>2, <2>3, <2>4, <2>5, <2>6, <2>7, <2>8 DEF FedBack, IsComposed
<1>4. QED
  BY <1>1, <1>2, <1>3 DEF IInv, Returned

\* No two morphologies end with another call.
LEMMA ComposedByNone ==
  ASSUME trail \in Seq(ToSet(trail)), NEW op, op \notin {"erosion", "dilation"},
         NEW from, NEW to, NEW arg, NEW result, Call(from, to, op, arg, result)
  PROVE  IsComposed(input', trail', value')
<1> DEFINE n == Len(trail)
           m == Len(trail')
<1>1. n \in Nat /\ trail'[n + 1] = [op |-> op, arg |-> arg]
  BY CallAppends
<1>2. m = n + 1
  BY CallLengthens
<1> HIDE DEF n, m
<1>3. m = 2 => trail'[2].op = op
  BY <1>1, <1>2
<1>4. QED
  BY <1>3 DEF IsComposed, m

\* A second morphology is one of the result of the first.
LEMMA ComposedByTwo ==
  ASSUME trail \in Seq(ToSet(trail)), Returned, NEW op, op \in {"erosion", "dilation"},
         NEW arg \in Int, NEW result, NEW from, NEW to, Call(from, to, op, arg, result),
         result = ApplyMorphology(value, op, arg)
  PROVE  IsComposed(input', trail', value')
<1> DEFINE n == Len(trail)
           first == trail[1]
           second == trail'[2]
           call == [op |-> op, arg |-> arg]
           m == Len(trail')
<1>1. /\ n \in Nat /\ input' = input /\ trail'[n + 1] = call
      /\ \A i \in 1..n : trail'[i] = trail[i]
  BY CallAppends
<1>2. m = n + 1 /\ value' = ApplyMorphology(value, op, arg)
  BY CallLengthens DEF Call
<1>3. n = 1 => Answer(first.op, input, first.arg, value)
  BY DEF Returned
<1>4. call.op = op /\ call.arg = arg
  OBVIOUS
<1> SUFFICES ASSUME m = 2, {trail'[1].op, second.op} \subseteq {"erosion", "dilation"}
             PROVE  /\ trail'[1].arg \in Int /\ second.arg \in Int
                    /\ value' = ApplyMorphology(ApplyMorphology(input', trail'[1].op, trail'[1].arg),
                                                second.op, second.arg)
  BY DEF IsComposed
<1> HIDE DEF n, m, first, second, call
<1>5. n = 1
  BY <1>1, <1>2
<1>6. trail'[1] = first
  BY <1>1, <1>5 DEF first
<1>7. second = call
  BY <1>1, <1>5 DEF second
<1>8. first.arg \in Int /\ value = ApplyMorphology(input, first.op, first.arg)
  BY <1>3, <1>5, <1>6 DEF Answer
<1>9. QED
  BY <1>1, <1>2, <1>4, <1>6, <1>7, <1>8

\* A call that feeds back what it should, and answers as it should if it is the
\* first one.
LEMMA GoodCall ==
  ASSUME IInv, NEW from, NEW to \in Kinds, NEW op, NEW arg, NEW result,
         Call(from, to, op, arg, result),
         FedBack', trail = <<>> => Answer(op, input, arg, result)
  PROVE  IInv'
<1>1. /\ trail' \in Seq(ToSet(trail')) /\ Len(trail') <= MaxCalls
      /\ Len(trail') = 1 => trail = <<>> /\ trail'[1] = [op |-> op, arg |-> arg]
  BY CallFacts DEF IInv
<1>2. kind' = to /\ value' = result /\ input' = input
  BY DEF Call
<1>3. Returned'
  BY <1>1, <1>2 DEF Returned
<1>4. QED
  BY <1>1, <1>2, <1>3 DEF IInv

\* After a call the session has a trail.
LEMMA TrailIsLeft ==
  ASSUME IInv, NEW from, NEW to, NEW op, NEW arg, NEW result, Call(from, to, op, arg, result)
  PROVE  trail' # <<>>
BY CallFacts DEF IInv

\* A call whose result is not fed back.
LEMMA FinalCall ==
  ASSUME IInv, NEW from, NEW op, NEW arg, NEW result, Call(from, "done", op, arg, result),
         trail = <<>> => Answer(op, input, arg, result)
  PROVE  IInv'
<1>1. kind' = "done" /\ "done" \in Kinds
  BY DEF Call, Kinds
<1>2. FedBack'
  BY <1>1, TrailIsLeft DEF FedBack
<1>3. QED
  BY <1>1, <1>2, GoodCall

\* Every call keeps the invariant.
LEMMA StepsAreGood == ASSUME IInv, [Next]_vars PROVE IInv'
<1>1. ASSUME NEW ow \in OutputSizes, NEW oh \in OutputSizes, MaxPoolAsync(ow, oh) PROVE IInv'
  <2>1. kind = "frame" /\ Call("frame", "frame", "pool", <<ow, oh>>, MaxPool(value, ow, oh))
    BY <1>1 DEF MaxPoolAsync
  <2>2. kind' = "frame" /\ value' = MaxPool(value, ow, oh) /\ input' = input
    BY <2>1 DEF Call
  <2>3. IsFrame(input) /\ IsFrame(value) /\ ow \in Nat \ {0} /\ oh \in Nat \ {0}
    BY <2>1, SessionAssumption DEF IInv, FedBack
  <2>4. IsFrame(value') /\ PixelValues(value') \subseteq PixelValues(value)
        /\ Max(PixelValues(value')) = Max(PixelValues(value))
    BY <2>2, <2>3, MaxPoolFacts, PeaksSurvive
  <2>5. CallsOnly("pool")' => CallsOnly("pool")
    BY <2>1, PoolingGoesOn DEF IInv
  <2>6. FedBack'
    <3>1. CallsOnly("pool") => /\ Max(PixelValues(value)) = Max(PixelValues(input))
                               /\ PixelValues(value) \subseteq PixelValues(input)
      BY <2>1 DEF IInv, FedBack
    <3>2. QED
      BY <2>1, <2>2, <2>3, <2>4, <2>5, <3>1, TrailIsLeft, ComposedByNone DEF FedBack, IInv
  <2>7. Answer("pool", input, <<ow, oh>>, MaxPool(value, ow, oh)) /\ "frame" \in Kinds
    BY DEF Answer, Kinds
  <2>8. QED
    BY <2>1, <2>6, <2>7, GoodCall
<1>2. ASSUME NEW operation, NEW radius \in Radii, ApplyMorphologyAsync(operation, radius) PROVE IInv'
  <2> DEFINE op == IF UsesErosion(operation) THEN "erosion" ELSE "dilation"
  <2>1. kind = "frame" /\ Call("frame", "frame", op, radius, ApplyMorphology(value, operation, radius))
    BY <1>2 DEF ApplyMorphologyAsync
  <2>2. kind' = "frame" /\ value' = ApplyMorphology(value, operation, radius) /\ input' = input
    BY <2>1 DEF Call
  <2>3. IsFrame(input) /\ IsFrame(value) /\ radius \in Int
    BY <2>1, SessionAssumption DEF IInv, FedBack
  <2>4. IsFrame(value')
    BY <2>2, <2>3, MorphologyKeepsFrames
  <2>5. /\ op # "pool" /\ op \in {"erosion", "dilation"} /\ "frame" \in Kinds
        /\ value' = ApplyMorphology(value, op, radius)
    BY <2>2 DEF Kinds, ApplyMorphology, UsesErosion
  <2> HIDE DEF op
  <2>6. ~CallsOnly("pool")'
    BY <2>1, <2>5, PoolingGoesOn DEF IInv
  <2>7. IsComposed(input', trail', value')
    BY <2>1, <2>2, <2>3, <2>5, ComposedByTwo DEF IInv, Returned
  <2>8. FedBack'
    BY <2>1, <2>2, <2>3, <2>4, <2>6, <2>7, TrailIsLeft DEF FedBack
  <2>9. trail = <<>> => Answer(op, input, radius, value')
    <3>1. trail = <<>> => value = input
      BY DEF IInv, FedBack
    <3>2. QED
      BY <2>3, <2>5, <3>1 DEF Answer
  <2>10. QED
    BY <2>1, <2>2, <2>5, <2>8, <2>9, GoodCall
<1>3. CASE DetectEdgesAsync
  BY <1>3, FinalCall DEF DetectEdgesAsync, Answer
<1>4. ASSUME NEW request \in HsvRequests, CreateHsvThresholdMaskAsync(request) PROVE IInv'
  <2>1. /\ kind = "image"
        /\ Call("image", "done", "mask", request, CreateHsvThresholdMask(value, request))
    BY <1>4 DEF CreateHsvThresholdMaskAsync
  <2>2. input \in Images /\ value = input
    BY <2>1 DEF IInv, FedBack
  <2>3. Answer("mask", input, request, CreateHsvThresholdMask(value, request))
    BY <2>1, <2>2 DEF Answer
  <2>4. QED
    BY <2>1, <2>3, FinalCall
<1>5. ASSUME NEW sample \in Samples, NEW rate \in Rates, ApplyEmaAsync(sample, rate) PROVE IInv'
  <2>1. kind = "average" /\ Call("average", "average", "ema", sample, ApplyEma(value, sample, rate))
    BY <1>5 DEF ApplyEmaAsync
  <2>2. kind' = "average" /\ value' = ApplyEma(value, sample, rate)
    BY <2>1 DEF Call
  <2>3. sample \in Int /\ rate \in Int
    BY SessionAssumption
  <2>4. /\ Seen \subseteq Int /\ value \in Int
        /\ \E low, high \in Seen : low <= value /\ value <= high
    BY <2>1 DEF IInv, FedBack
  <2>5. PICK low \in Seen, high \in Seen : low <= value /\ value <= high
    BY <2>4
  <2>6. Seen' = Seen \cup {sample}
    BY <2>1, SeenGrows DEF IInv
  <2> DEFINE lo == AtMost(sample, low)
             hi == AtLeast(sample, high)
  <2>7. low \in Int /\ high \in Int
    BY <2>4, <2>5
  <2>8. /\ lo \in Int /\ lo \in Seen \cup {sample} /\ lo <= value /\ lo <= sample
        /\ hi \in Int /\ hi \in Seen \cup {sample} /\ value <= hi /\ sample <= hi
    BY <2>3, <2>4, <2>5, <2>7 DEF AtLeast, AtMost
  <2> HIDE DEF lo, hi
  <2>9. value' \in Int /\ lo <= value' /\ value' <= hi
    BY <2>2, <2>3, <2>4, <2>8, AveragesStayBetween
  <2>10. FedBack'
    <3>1. Seen' \subseteq Int
      BY <2>3, <2>4, <2>6
    <3>2. \E l, h \in Seen' : l <= value' /\ value' <= h
      BY <2>6, <2>8, <2>9
    <3>3. QED
      BY <2>1, <2>2, <2>9, <3>1, <3>2, TrailIsLeft DEF FedBack
  <2>11. Answer("ema", input, sample, value') /\ "average" \in Kinds
    BY DEF Answer, Kinds
  <2>12. QED
    BY <2>1, <2>2, <2>10, <2>11, GoodCall
<1>6. ASSUME NEW sample \in Samples, NEW rate \in Rates, NEW maxValue \in Samples,
             ApplyLeakyIntegratorAsync(sample, rate, maxValue)
      PROVE  IInv'
  <2>1. /\ kind = "charge"
        /\ Call("charge", "charge", "leak", sample, ApplyLeakyIntegrator(value, sample, rate, maxValue))
    BY <1>6 DEF ApplyLeakyIntegratorAsync
  <2>2. kind' = "charge" /\ value' = ApplyLeakyIntegrator(value, sample, rate, maxValue)
    BY <2>1 DEF Call
  <2>3. value \in Int /\ sample \in Int /\ rate \in Int /\ maxValue \in Int
    BY <2>1, SessionAssumption DEF IInv, FedBack
  <2>4. value' \in Nat /\ value' <= AtLeast(0, value) + AtLeast(0, sample)
    BY <2>2, <2>3, ChargeFacts, LeaksAddNothing
  <2>5. Seen \subseteq Int /\ AtLeast(0, value) <= Put(input, trail)
    BY <2>1 DEF IInv, FedBack
  <2>6. Seen' = Seen \cup {sample}
    BY <2>1, SeenGrows DEF IInv
  <2>7. /\ Put(input', trail') = Put(input, trail) + AtLeast(0, sample)
        /\ Put(input, trail) \in Int
    BY <2>1, <2>3, <2>5, PutGrows DEF IInv
  <2>8. AtLeast(0, value') <= Put(input', trail')
    <3>1. AtLeast(0, value) \in Int /\ AtLeast(0, sample) \in Int /\ AtLeast(0, value') = value'
      BY <2>3, <2>4 DEF AtLeast
    <3>2. QED
      BY <2>4, <2>5, <2>7, <3>1
  <2>9. FedBack'
    BY <2>1, <2>2, <2>3, <2>4, <2>5, <2>6, <2>8, TrailIsLeft DEF FedBack
  <2>10. Answer("leak", input, sample, value') /\ "charge" \in Kinds
    BY DEF Answer, Kinds
  <2>11. QED
    BY <2>1, <2>2, <2>9, <2>10, GoodCall
<1>7. ASSUME NEW measurement \in Samples, NEW control \in Samples, ApplyKalmanAsync(measurement, control)
      PROVE  IInv'
  <2> DEFINE next == ApplyKalman(value, measurement, control, input.process, input.measurement)
  <2>1. kind = "tracker" /\ Call("tracker", "tracker", "kalman", [m |-> measurement, u |-> control], next)
    BY <1>7 DEF ApplyKalmanAsync
  <2>2. kind' = "tracker" /\ value' = next /\ input' = input
    BY <2>1 DEF Call
  <2>3. next.estimate \in Int /\ next.errorCovariance \in Nat
    <3>1. input \in Trackers /\ value.estimate \in Int /\ value.errorCovariance \in Int
      BY <2>1 DEF IInv, FedBack
    <3>2. input.process \in Int /\ input.measurement \in Int /\ measurement \in Int /\ control \in Int
      BY <3>1, SessionAssumption
    <3>3. QED
      BY <3>1, <3>2, KalmanFacts
  <2> HIDE DEF next
  <2>4. FedBack'
    <3>1. /\ input \in Trackers /\ value.estimate \in Int /\ value.errorCovariance \in Int
          /\ trail = <<>> => value = input
          /\ trail # <<>> => value.errorCovariance >= 0
          /\ \A i \in DOMAIN trail : trail[i].arg.m \in Int
          /\ IsSteady(input, trail) => IsNearBatch(input, trail, value)
          /\ trail \in Seq(ToSet(trail))
      BY <2>1 DEF IInv, FedBack
    <3>2. /\ measurement \in Int /\ input.estimate \in Int
          /\ input.errorCovariance \in Int /\ input.measurement \in Int
      BY <3>1, SessionAssumption
    <3>3. \A i \in DOMAIN trail' : trail'[i].arg.m \in Int
      BY <2>1, <3>1, <3>2, MeasuredGrows
    <3>4. IsSteady(input', trail') => IsNearBatch(input', trail', value')
      <4> SUFFICES ASSUME IsSteady(input', trail') PROVE IsNearBatch(input', trail', value')
        OBVIOUS
      <4>1. IsSteady(input, trail)
        BY <2>1, <3>1, <3>2, MeasuredGrows
      <4>2. value.errorCovariance \in Nat
        BY <3>1, <4>1 DEF IsSteady
      <4>3. QED
        BY <2>1, <3>1, <3>2, <4>2, BatchGoesOn DEF next
    <3>5. QED
      BY <2>1, <2>2, <2>3, <3>1, <3>3, <3>4, TrailIsLeft DEF FedBack
  <2>5. Answer("kalman", input, [m |-> measurement, u |-> control], next) /\ "tracker" \in Kinds
    BY DEF Answer, Kinds
  <2>6. QED
    BY <2>1, <2>4, <2>5, GoodCall
<1>8. ASSUME NEW palette \in Palettes, QuantizePaletteAsync(palette) PROVE IInv'
  <2>1. /\ kind = "image"
        /\ Call("image", "done", "palette", palette,
                QuantizeSemanticPalette(value, palette))
    BY <1>8 DEF QuantizePaletteAsync
  <2>2. input \in Images /\ value = input
    BY <2>1 DEF IInv, FedBack
  <2>3. Answer("palette", input, palette, QuantizeSemanticPalette(value, palette))
    BY <2>1, <2>2 DEF Answer
  <2>4. QED
    BY <2>1, <2>3, FinalCall
<1>9. ASSUME NEW threshold, CalculateTemporalDifferenceAsync(threshold) PROVE IInv'
  BY <1>9, FinalCall DEF CalculateTemporalDifferenceAsync, Answer
<1>10. ASSUME NEW radius \in Radii, EstimateDenseOpticalFlowAsync(radius) PROVE IInv'
  <2>1. /\ kind = "video"
        /\ Call("video", "done", "flow", radius,
                EstimateDenseOpticalFlow(value.previous, value.current, radius))
    BY <1>10 DEF EstimateDenseOpticalFlowAsync
  <2>2. input \in Videos /\ value = input
    BY <2>1 DEF IInv, FedBack
  <2>3. Answer("flow", input, radius, EstimateDenseOpticalFlow(value.previous, value.current, radius))
    BY <2>1, <2>2 DEF Answer
  <2>4. QED
    BY <2>1, <2>3, FinalCall
<1>11. ASSUME NEW cellSize \in CellSizes, QuantizeSpatialHashAsync(cellSize) PROVE IInv'
  <2>1. /\ kind = "track"
        /\ Call("track", "done", "hash", cellSize,
                QuantizeSpatialHash(value, cellSize))
    BY <1>11 DEF QuantizeSpatialHashAsync
  <2>2. input \in Tracks /\ value = input
    BY <2>1 DEF IInv, FedBack
  <2>3. Answer("hash", input, cellSize, QuantizeSpatialHash(value, cellSize))
    BY <2>1, <2>2 DEF Answer
  <2>4. QED
    BY <2>1, <2>3, FinalCall
<1>12. ASSUME NEW bins \in DirectionBins, QuantizeBinauralDirectionAsync(bins) PROVE IInv'
  <2>1. /\ kind = "stereo"
        /\ Call("stereo", "done", "direction", bins,
                QuantizeBinauralDirection(value.left, value.right, bins))
    BY <1>12 DEF QuantizeBinauralDirectionAsync
  <2>2. input \in Stereo /\ value = input
    BY <2>1 DEF IInv, FedBack
  <2>3. Answer("direction", input, bins, QuantizeBinauralDirection(value.left, value.right, bins))
    BY <2>1, <2>2 DEF Answer
  <2>4. QED
    BY <2>1, <2>3, FinalCall
<1>13. ASSUME NEW sampleRate, SplitFrequencyBandsAsync(sampleRate) PROVE IInv'
  <2>1. /\ kind = "pcm" /\ Len(value) = FrameCount
        /\ Call("pcm", "done", "bands", sampleRate,
                SplitFrequencyBands(value, sampleRate))
    BY <1>13 DEF SplitFrequencyBandsAsync
  <2>2. input \in Recordings /\ value = input
    BY <2>1 DEF IInv, FedBack
  <2>3. Answer("bands", input, sampleRate, SplitFrequencyBands(value, sampleRate))
    BY <2>1, <2>2 DEF Answer
  <2>4. QED
    BY <2>1, <2>3, FinalCall
<1>14. CASE ComputeAudioSpectrumAsync
  BY <1>14, FinalCall DEF ComputeAudioSpectrumAsync, Answer
<1>15. ASSUME NEW enumeration \in SetToSeqs(DOMAIN value), NormalizeAsync(enumeration) PROVE IInv'
  <2>1. kind = "sensors" /\ Call("sensors", "sensors", "normalize", 0, Normalize(value, enumeration))
    BY <1>15 DEF NormalizeAsync
  <2>2. kind' = "sensors" /\ input' = input /\ value' = Normalize(value, enumeration)
    BY <2>1 DEF Call
  <2>3. IsSensorMap(input) /\ IsSensorMap(value) /\ (trail = <<>> => value = input)
    BY <2>1 DEF IInv, FedBack
  <2>4. IsSensorMap(value')
    <3>1. ToSet(enumeration) = DOMAIN value
      BY <2>3, EnumerationFacts DEF IsSensorMap
    <3>2. QED
      BY <2>2, <2>3, <3>1, NormalizeKeepsMaps
  <2>5. FedBack'
    BY <2>1, <2>2, <2>3, <2>4, TrailIsLeft DEF FedBack
  <2>6. trail = <<>> => Answer("normalize", input, 0, Normalize(value, enumeration))
    BY <2>3 DEF Answer
  <2>7. "sensors" \in Kinds
    BY DEF Kinds
  <2>8. QED
    BY <2>1, <2>5, <2>6, <2>7, GoodCall
<1>16. CASE FuseAsync
  BY <1>16, FinalCall DEF FuseAsync, Answer
<1>17. CASE ResolveAsync
  BY <1>17, FinalCall DEF ResolveAsync, Answer
<1>18. CASE UNCHANGED vars
  BY <1>18 DEF vars, IInv, FedBack, Returned, Args, Seen, CallsOnly
<1>19. QED
  BY <1>1, <1>2, <1>3, <1>4, <1>5, <1>6, <1>7, <1>8, <1>9, <1>10, <1>11, <1>12, <1>13,
     <1>14, <1>15, <1>16, <1>17, <1>18 DEF Next

-----------------------------------------------------------------------------
(* What the invariant shows.                                               *)

\* Of the spellings of a name the last counts.
LEMMA LastSpellingHolds == ASSUME IInv PROVE LastSpellingWins
<1> SUFFICES ASSUME kind = "sensors", Ops = <<"normalize">> PROVE LastSpellingWins
  BY DEF LastSpellingWins
<1> DEFINE Spellings(name) == {raw \in DOMAIN input : NormalizeName(raw) = name}
           IsLatest(raw, raws) == \A other \in raws : Position[other] <= Position[raw]
           Latest(raws) == CHOOSE raw \in raws : IsLatest(raw, raws)
<1>1. PICK e \in SetToSeqs(DOMAIN input) : value = Normalize(input, e)
  BY OnlyCall DEF IInv, Returned, Answer
<1>2. IsSensorMap(input)
  BY DEF IInv, FedBack
<1>3. ToSet(e) = DOMAIN input
  BY <1>2, EnumerationFacts DEF IsSensorMap
<1>4. DOMAIN value = DefaultSensors \cup {NormalizeName(raw) : raw \in DOMAIN input}
  BY <1>1, <1>2, <1>3, NormalizeFacts
<1>5. ASSUME NEW name \in DOMAIN value
      PROVE  value[name] = IF Spellings(name) = {} THEN CreateDefault(name)
                           ELSE input[Latest(Spellings(name))]
  <2>1. CASE Spellings(name) = {}
    <3>1. name \in DefaultSensors /\ \A raw \in DOMAIN input : NormalizeName(raw) # name
      BY <1>4, <2>1
    <3>2. Normalize(input, e)[name] = CreateDefault(name)
      <4>1. \A n \in DefaultSensors : (\A raw \in DOMAIN input : NormalizeName(raw) # n) =>
              Normalize(input, e)[n] = CreateDefault(n)
        BY <1>2, <1>3, NormalizeFacts, ZenonT(40)
      <4>2. QED
        BY <3>1, <4>1, Zenon
    <3>3. QED
      BY <1>1, <2>1, <3>2
  <2>2. CASE Spellings(name) # {}
    <3> DEFINE raws == Spellings(name)
               last == Latest(raws)
    <3>1. PICK raw \in DOMAIN input : NormalizeName(raw) = name
      BY <2>2
    <3>2. \E r \in raws : IsLatest(r, raws)
      BY <1>2, <3>1, LatestSpelling
    <3>3. last \in raws /\ IsLatest(last, raws)
      <4> HIDE DEF raws, IsLatest
      <4> QED
        BY <3>2
    <3> HIDE DEF last
    <3>4. /\ last \in DOMAIN input /\ NormalizeName(last) = name
          /\ \A other \in DOMAIN input : NormalizeName(other) = NormalizeName(last) =>
               Position[other] <= Position[last]
      BY <3>3
    <3>5. Normalize(input, e)[NormalizeName(last)] = input[last]
      BY <1>2, <1>3, <3>4, NormalizeFacts
    <3>6. value[name] = input[last]
      BY <1>1, <3>4, <3>5, Zenon
    <3>7. QED
      BY <2>2, <3>6 DEF last
  <2>3. QED
    BY <2>1, <2>2
<1>6. QED
  BY <1>4, <1>5 DEF LastSpellingWins

\* The default of a sensor means its absence.
LEMMA DefaultsHold == ASSUME IInv PROVE DefaultsMeanAbsence
<1> SUFFICES ASSUME kind = "sensors", Ops = <<"normalize">>,
                    \A raw \in DOMAIN input : NormalizeName(raw) = raw
             PROVE  /\ Fuse(value) = Fuse(input)
                    /\ ResolveRetryIntent(value) = ResolveRetryIntent(input)
  BY DEF DefaultsMeanAbsence
<1>1. PICK e \in SetToSeqs(DOMAIN input) : value = Normalize(input, e)
  BY OnlyCall DEF IInv, Returned, Answer
<1>2. IsSensorMap(input)
  BY DEF IInv, FedBack
<1>3. ToSet(e) = DOMAIN input
  BY <1>2, EnumerationFacts DEF IsSensorMap
<1>4. QED
  BY <1>1, <1>2, <1>3, NormalizeKeepsDecisions

\* A disabled sensor does not steer.
LEMMA SilenceHolds == ASSUME IInv PROVE DisabledSensorsDoNotSteer
BY SilenceKeepsSteering DEF IInv, FedBack, DisabledSensorsDoNotSteer

\* Left and right are treated alike.
LEMMA MirrorHolds == ASSUME IInv PROVE LeftAndRightAlike
<1>1. ASSUME kind = "sensors", AbsOf(Number(value, "compass", "heading")) < 180
      PROVE  LET seen == Fuse(value)
                 mirror == Fuse(Mirrored(value))
             IN  /\ mirror.visualDirection = -seen.visualDirection
                 /\ mirror.auditoryCorrection = -seen.auditoryCorrection
                 /\ mirror.fusedDirection = -seen.fusedDirection
                 /\ mirror.confidence = seen.confidence
                 /\ mirror.eventDetected = seen.eventDetected
  <2>1. IsSensorMap(value)
    BY <1>1 DEF IInv, FedBack
  <2>2. QED
    BY <1>1, <2>1, MirrorTurnsFusion
<1>2. ASSUME kind = "done", Ops = <<"direction">>
      PROVE  LET mirror == QuantizeBinauralDirection(input.right, input.left, Args(1))
             IN  /\ mirror.balance = -value.balance
                 /\ value.directionIndex + mirror.directionIndex \in {Args(1) - 1, Args(1)}
                 /\ \/ mirror.delaySamples = -value.delaySamples
                    \/ Score(input.left, input.right, value.delaySamples)
                         = Score(input.left, input.right, -mirror.delaySamples)
  <2>1. /\ input \in Stereo /\ Args(1) \in DirectionBins
        /\ value = QuantizeBinauralDirection(input.left, input.right, Args(1))
    BY <1>2, OnlyCall DEF IInv, Returned, Answer, Args
  <2>2. input.left \in Seq(Int) /\ input.right \in Seq(Int) /\ Args(1) \in Nat \ {0}
    BY <2>1, SessionAssumption
  <2>3. QED
    BY <2>1, <2>2, ExchangeTurnsDirection
<1>3. QED
  BY <1>1, <1>2 DEF LeftAndRightAlike

\* The kernels invent nothing.
LEMMA NothingIsInvented == ASSUME IInv PROVE KernelsInventNothing
<1> DEFINE given == {Args(i) : i \in DOMAIN trail}
           put   == AtLeast(0, input) + SumFunction([i \in DOMAIN trail |-> AtLeast(0, Args(i))])
<1>1. ASSUME kind = "frame", CallsOnly("pool")
      PROVE  /\ Max(PixelValues(value)) = Max(PixelValues(input))
             /\ PixelValues(value) \subseteq PixelValues(input)
  BY <1>1 DEF IInv, FedBack
<1>2. ASSUME kind = "average" PROVE value \in Min(given \cup {input})..Max(given \cup {input})
  <2> DEFINE S == given \cup {input}
  <2>1. /\ S \subseteq Int /\ value \in Int
        /\ \E low, high \in S : low <= value /\ value <= high
    BY <1>2 DEF IInv, FedBack, Seen
  <2>2. IsFiniteSet(S)
    <3>1. DOMAIN trail = 1..Len(trail) /\ Len(trail) \in Nat
      BY DEF IInv
    <3>2. IsFiniteSet(DOMAIN trail)
      BY <3>1, FS_Interval
    <3> DEFINE f == [i \in DOMAIN trail |-> Args(i)]
    <3>3. IsFiniteSet(given)
      <4>1. f \in Surjection(DOMAIN trail, given)
        BY DEF Surjection
      <4> HIDE DEF f, given
      <4>2. QED
        BY <3>2, <4>1, FS_Surjection
    <3> HIDE DEF given
    <3>4. QED
      BY <3>3, FS_AddElement
  <2> HIDE DEF S
  <2>3. /\ Max(S) \in Int /\ \A n \in S : n <= Max(S)
        /\ Min(S) \in Int /\ \A n \in S : Min(S) <= n
    BY <2>1, <2>2, ExtremeFacts
  <2>4. PICK low \in S, high \in S : low <= value /\ value <= high
    BY <2>1
  <2>5. low \in Int /\ high \in Int /\ Min(S) <= low /\ high <= Max(S)
    BY <2>1, <2>3
  <2>6. value \in Min(S)..Max(S)
    BY <2>1, <2>3, <2>4, <2>5
  <2>7. QED
    BY <2>6 DEF S
<1>3. ASSUME kind = "charge" PROVE value <= put
  <2>1. value \in Int /\ Seen \subseteq Int /\ AtLeast(0, value) <= Put(input, trail)
    BY <1>3 DEF IInv, FedBack
  <2>2. Put(input, trail) = put
    BY DEF Put, Args
  <2>3. Put(input, trail) \in Int
    <3>1. /\ DOMAIN trail = 1..Len(trail) /\ Len(trail) \in Nat
      BY DEF IInv
    <3>2. input \in Int /\ \A i \in 1..Len(trail) : trail[i].arg \in Int
      BY <2>1, <3>1 DEF Seen, Args
    <3>3. QED
      BY <3>1, <3>2, PutFacts
  <2> HIDE DEF put
  <2>4. value <= Put(input, trail)
    BY <2>1, <2>3 DEF AtLeast
  <2>5. QED
    BY <2>2, <2>4
<1>4. ASSUME Ops = <<"palette">>
      PROVE  LET painted == [i \in DOMAIN input |->
                               IF value[i] = 0 THEN input[i] ELSE Args(1)[value[i]]]
             IN  QuantizeSemanticPalette(painted, Args(1)) = value
  <2> DEFINE palette == Args(1)
             painted == [i \in DOMAIN input |->
                           IF value[i] = 0 THEN input[i] ELSE palette[value[i]]]
             n == Len(palette)
  <2>1. input \in Images /\ palette \in Palettes /\ value = QuantizeSemanticPalette(input, palette)
    BY <1>4, OnlyCall DEF IInv, Returned, Answer, Args
  <2>2. /\ \A i \in DOMAIN input : IsColour(input[i])
        /\ DOMAIN palette = 1..n /\ n \in Nat \ {0}
        /\ \A i \in DOMAIN palette : IsColour(palette[i]) /\ palette[i].tolerance \in Int
    BY <2>1, SessionAssumption
  <2>3. painted = Painted(input, palette)
    BY <2>1 DEF Painted
  <2> HIDE DEF n, palette
  <2>4. QuantizeSemanticPalette(Painted(input, palette), palette)
          = QuantizeSemanticPalette(input, palette)
    BY <2>2, PaletteIsIdempotent
  <2>5. QuantizeSemanticPalette(painted, palette) = value
    BY <2>1, <2>3, <2>4, Zenon
  <2>6. QED
    BY <2>5 DEF palette
<1>5. ASSUME Ops = <<"bands">>
      PROVE  LET squares  == SumFunction([i \in DOMAIN input |-> input[i] * input[i]])
                 mean     == SumFunction(input)
                 nyquist  == SumFunction([i \in DOMAIN input |-> IF i % 2 = 0 THEN input[i] ELSE -input[i]])
                 energies == SumFunction([band \in DOMAIN value.power |-> value.power[band][1]])
                 surds    == SumFunction([band \in DOMAIN value.power |-> value.power[band][2]])
             IN  /\ energies = FrameCount * squares - mean * mean + nyquist * nyquist
                 /\ surds = 0
  <2>1. /\ input \in Recordings /\ Len(input) = FrameCount
        /\ value = SplitFrequencyBands(input, Args(1))
    BY <1>5, OnlyCall DEF IInv, Returned, Answer, Args
  <2>2. input \in Seq(Int)
    BY <2>1, SessionAssumption
  <2>3. /\ DOMAIN input = 1..8
        /\ input[1] \in Int /\ input[2] \in Int /\ input[3] \in Int /\ input[4] \in Int
        /\ input[5] \in Int /\ input[6] \in Int /\ input[7] \in Int /\ input[8] \in Int
    <3>1. DOMAIN input = 1..8 /\ \A i \in 1..8 : input[i] \in Int
      <4>1. Len(input) = 8
        BY <2>1 DEF FrameCount
      <4>2. DOMAIN input = 1..Len(input) /\ \A i \in 1..Len(input) : input[i] \in Int
        BY <2>2
      <4>3. QED
        BY <4>1, <4>2, Zenon
    <3>2. 1 \in 1..8 /\ 2 \in 1..8 /\ 3 \in 1..8 /\ 4 \in 1..8 /\ 5 \in 1..8 /\ 6 \in 1..8
          /\ 7 \in 1..8 /\ 8 \in 1..8
      OBVIOUS
    <3>3. QED
      BY <3>1, <3>2, Zenon
  <2>4. QED
    BY <2>1, <2>3, BandsShareEnergy, Zenon
<1>6. QED
  BY <1>1, <1>2, <1>3, <1>4, <1>5 DEF KernelsInventNothing

\* What has moved is found where it went.
LEMMA MovesAreFound == ASSUME IInv PROVE ShiftsAreFound
<1>1. ASSUME Ops = <<"direction">>,
             NEW d \in -MaxLag..MaxLag, Heard(input.left) # {},
             Heard(input.right) = {i + d : i \in Heard(input.left)},
             \A i \in Heard(input.left) : input.right[i + d] = input.left[i]
      PROVE  value.delaySamples = d
  <2>1. input \in Stereo /\ value = QuantizeBinauralDirection(input.left, input.right, Args(1))
    BY <1>1, OnlyCall DEF IInv, Returned, Answer, Args
  <2>2. /\ input.left \in Seq(Int) /\ input.right \in Seq(Int)
        /\ Len(input.left) = Len(input.right)
    BY <2>1, SessionAssumption
  <2>3. value.delaySamples = EstimateStereoDelay(input.left, input.right)
    BY <2>1 DEF QuantizeBinauralDirection
  <2>4. QED
    BY <1>1, <2>2, <2>3, DelayIsFound
<1>2. ASSUME Ops = <<"flow">>
      PROVE  LET old    == input.previous
                 radius == Clamp(Args(1), 1, 4)
                 Inner(x, y) == x \in 1..(old.w - 1) /\ y \in 1..(old.h - 1)
                 Came(d, i)  == <<(i % old.w) + d.x, (i \div old.w) + d.y>>
                 Moved(d) == \A i \in Indexes(old) : LET c == Came(d, i) IN
                               c[1] \in 0..(old.w - 1) /\ c[2] \in 0..(old.h - 1)
                               => input.current.at[i] = At(old, c[1], c[2])
                 still == CalculateTemporalDifference(old, input.current, 0).values
             IN  /\ IsInjective(old.at) =>
                      \A d \in [x : (-radius)..radius, y : (-radius)..radius] : Moved(d) =>
                        \A i \in Indexes(old) : LET c == Came(d, i) IN
                          Inner(c[1], c[2]) =>
                            value.vectors[i].x = d.x /\ value.vectors[i].y = d.y
                 /\ \A i \in Indexes(old) :
                      value.vectors[i].confidence >= RoundDiv(10000, 1 + still[i])
  <2> DEFINE old     == input.previous
             current == input.current
             radius  == Clamp(Args(1), 1, 4)
             still   == CalculateTemporalDifference(old, current, 0).values
  <2>1. /\ input \in Videos /\ Args(1) \in Radii
        /\ value = EstimateDenseOpticalFlow(old, current, Args(1))
    BY <1>2, OnlyCall DEF IInv, Returned, Answer, Args
  <2>2. /\ IsFrame(old) /\ IsFrame(current) /\ current.w = old.w /\ current.h = old.h
        /\ Args(1) \in Int
    BY <2>1, SessionAssumption
  <2>3. radius \in 1..4
    BY <2>2 DEF Clamp, AtLeast, AtMost
  <2>4. Indexes(current) = Indexes(old)
    BY <2>2 DEF Indexes
  <2>5. \A i \in Indexes(old) : value.vectors[i] = BestOffset(old, current, i, radius)
    BY <2>1, <2>4 DEF EstimateDenseOpticalFlow
  <2>6. \A i \in Indexes(old) : still[i] = AbsOf(current.at[i] - old.at[i])
    <3> SUFFICES ASSUME NEW i \in Indexes(old) PROVE still[i] = AbsOf(current.at[i] - old.at[i])
      OBVIOUS
    <3>1. AbsOf(current.at[i] - old.at[i]) \in Nat
      <4>1. current.at[i] \in Int /\ old.at[i] \in Int
        BY <2>2, <2>4 DEF IsFrame
      <4>2. QED
        BY <4>1 DEF AbsOf, AtLeast
    <3>2. still[i] = IF AbsOf(current.at[i] - old.at[i]) >= AtLeast(0, 0)
                     THEN AbsOf(current.at[i] - old.at[i]) ELSE 0
      BY <2>4 DEF CalculateTemporalDifference
    <3>3. AtLeast(0, 0) = 0
      BY DEF AtLeast
    <3>4. QED
      BY <3>1, <3>2, <3>3
  <2> HIDE DEF old, current, radius, still
  <2>7. ASSUME IsInjective(old.at), NEW d \in Offsets(radius), NEW i \in Indexes(old),
               (i % old.w) + d.x \in 1..(old.w - 1), (i \div old.w) + d.y \in 1..(old.h - 1),
               current.at[i] = At(old, (i % old.w) + d.x, (i \div old.w) + d.y)
        PROVE  value.vectors[i].x = d.x /\ value.vectors[i].y = d.y
    <3>1. IsBest(d, old, current, i, radius)
      BY <2>2, <2>3, <2>4, <2>7, FlowIsFound
    <3>2. BestOffset(old, current, i, radius)
            = [x |-> d.x, y |-> d.y, confidence |-> RoundDiv(10000, 1 + Misses(old, current, i, d))]
      BY <2>2, <2>3, <2>4, <3>1, BestOffsetIs
    <3>3. QED
      BY <2>5, <3>2
  <2>8. ASSUME NEW i \in Indexes(old)
        PROVE  value.vectors[i].confidence >= RoundDiv(10000, 1 + still[i])
    <3>1. PICK d \in Offsets(radius) : IsBest(d, old, current, i, radius)
      BY <2>2, <2>3, <2>4, BestFacts
    <3>2. BestOffset(old, current, i, radius)
            = [x |-> d.x, y |-> d.y, confidence |-> RoundDiv(10000, 1 + Misses(old, current, i, d))]
      BY <2>2, <2>3, <2>4, <3>1, BestOffsetIs
    <3>3. RoundDiv(10000, 1 + Misses(old, current, i, d))
            >= RoundDiv(10000, 1 + AbsOf(current.at[i] - old.at[i]))
      BY <2>2, <2>3, <2>4, <3>1, FlowIsNoWorse
    <3>4. QED
      BY <2>5, <2>6, <3>2, <3>3
  <2>9. \A x, y \in Int : /\ x \in 1..(old.w - 1) => x \in 0..(old.w - 1)
                          /\ y \in 1..(old.h - 1) => y \in 0..(old.h - 1)
    BY <2>2 DEF IsFrame
  <2>10. ASSUME IsInjective(old.at), NEW d \in Offsets(radius),
                \A i \in Indexes(old) :
                  /\ (i % old.w) + d.x \in 0..(old.w - 1) /\ (i \div old.w) + d.y \in 0..(old.h - 1)
                  => current.at[i] = At(old, (i % old.w) + d.x, (i \div old.w) + d.y),
                NEW i \in Indexes(old),
                (i % old.w) + d.x \in 1..(old.w - 1), (i \div old.w) + d.y \in 1..(old.h - 1)
         PROVE  value.vectors[i].x = d.x /\ value.vectors[i].y = d.y
    <3>1. (i % old.w) + d.x \in 0..(old.w - 1) /\ (i \div old.w) + d.y \in 0..(old.h - 1)
      BY <2>10
    <3>2. current.at[i] = At(old, (i % old.w) + d.x, (i \div old.w) + d.y)
      BY <2>10, <3>1
    <3>3. QED
      BY <2>7, <2>10, <3>2
  <2>11. QED
    BY <2>8, <2>10 DEF old, current, radius, still, Offsets
<1>3. ASSUME Ops = <<"hash">>,
             NEW side \in {-AtLeast(1, Args(1)), AtLeast(1, Args(1))}, NEW i \in DOMAIN input
      PROVE  LET Beyond(n) == IF side > 0 THEN n + 1 ELSE n - 1
                 moved == QuantizeSpatialHash(
                            [j \in DOMAIN input |-> [input[j] EXCEPT !.x = @ + side]], Args(1))
                 cell == value.cells[i]
             IN  /\ moved.cells[i] = [cell EXCEPT !.x = Beyond(@)]
                 /\ moved.visits[moved.cells[i]] = value.visits[cell]
  <2>1. input \in Tracks /\ Args(1) \in CellSizes /\ value = QuantizeSpatialHash(input, Args(1))
    BY <1>3, OnlyCall DEF IInv, Returned, Answer, Args
  <2>2. Args(1) \in Int /\ \A j \in DOMAIN input : input[j] \in [x : Int, y : Int]
    BY <2>1, SessionAssumption
  <2> DEFINE cellSize == Args(1)
  <2>3. cellSize \in Int /\ (side = -AtLeast(1, cellSize) \/ side = AtLeast(1, cellSize))
    BY <1>3, <2>2
  <2>4. value = QuantizeSpatialHash(input, cellSize)
    BY <2>1
  <2> HIDE DEF cellSize
  <2> DEFINE moved == QuantizeSpatialHash(Shifted(input, side), cellSize)
             still == QuantizeSpatialHash(input, cellSize)
  <2>5. /\ moved.cells[i] = Beside(still.cells[i], side)
        /\ moved.visits[moved.cells[i]] = still.visits[still.cells[i]]
    <3>1. i \in DOMAIN input /\ \A j \in DOMAIN input : input[j] \in [x : Int, y : Int]
      BY <1>3, <2>2
    <3>2. QED
      BY <2>3, <3>1, HashFollows
  <2>6. QED
    BY <2>4, <2>5 DEF cellSize, Shifted, Beside
<1>4. QED
  BY <1>1, <1>2, <1>3 DEF ShiftsAreFound, Heard

\* Openings and closings are what they are called.
LEMMA OpeningsHold == ASSUME IInv PROVE OpeningAndClosing
<1> DEFINE r == Args(1)
<1>1. ASSUME kind = "frame", NEW first, NEW second, Ops = <<first, second>>,
             {first, second} \subseteq {"erosion", "dilation"}, \A i \in DOMAIN trail : Args(i) = r
      PROVE  /\ IsFrame(input) /\ r \in Int
             /\ value = ApplyMorphology(ApplyMorphology(input, first, r), second, r)
  <2>1. IsFrame(input) /\ IsComposed(input, trail, value) /\ trail \in Seq(ToSet(trail))
    BY <1>1 DEF IInv, FedBack
  <2>2. Len(trail) = 2 /\ DOMAIN trail = 1..2 /\ trail[1].op = first /\ trail[2].op = second
    BY <1>1, <2>1, TwoCalls
  <2>3. trail[1].arg = r /\ trail[2].arg = r
    <3>1. 1 \in 1..2 /\ 2 \in 1..2
      OBVIOUS
    <3>2. Args(1) = r /\ Args(2) = r
      BY <1>1, <2>2, <3>1, Zenon
    <3>3. QED
      BY <3>2, Zenon DEF Args
  <2> HIDE DEF r
  <2>4. QED
    BY <1>1, <2>1, <2>2, <2>3 DEF IsComposed
<1> HIDE DEF r
<1>2. ASSUME kind = "frame", Ops = <<"erosion", "dilation">>, \A i \in DOMAIN trail : Args(i) = r
      PROVE  /\ Below(value, input)
             /\ ApplyMorphology(ApplyMorphology(value, "erosion", r), "dilation", r) = value
  <2>1. /\ IsFrame(input) /\ r \in Int
        /\ value = Dilated(Eroded(input, r), r)
    BY <1>1, <1>2 DEF Eroded, Dilated
  <2>2. Below(value, input) /\ Dilated(Eroded(value, r), r) = value
    BY <2>1, OpeningIsBelow, OpeningIsIdempotent
  <2>3. QED
    BY <2>2 DEF Eroded, Dilated
<1>3. ASSUME kind = "frame", Ops = <<"dilation", "erosion">>, \A i \in DOMAIN trail : Args(i) = r
      PROVE  /\ Below(input, value)
             /\ ApplyMorphology(ApplyMorphology(value, "dilation", r), "erosion", r) = value
  <2>1. /\ IsFrame(input) /\ r \in Int
        /\ value = Eroded(Dilated(input, r), r)
    BY <1>1, <1>3 DEF Eroded, Dilated
  <2>2. Below(input, value) /\ Eroded(Dilated(value, r), r) = value
    BY <2>1, OpeningIsBelow, OpeningIsIdempotent
  <2>3. QED
    BY <2>2 DEF Eroded, Dilated
<1>4. QED
  BY <1>2, <1>3 DEF OpeningAndClosing, r

\* Rows and columns are alike.
LEMMA TurnsHold == ASSUME IInv PROVE RowsAndColumnsAlike
<1> SUFFICES ASSUME kind = "frame"
             PROVE  LET f == Transposed(value) IN
                    /\ DetectLaplacianEdges(f) = Transposed(DetectLaplacianEdges(value))
                    /\ \A operation \in {"erosion", "dilation"} :
                         ApplyMorphology(f, operation, 1) = Transposed(ApplyMorphology(value, operation, 1))
                    /\ \A ow, oh \in OutputSizes : MaxPool(f, oh, ow) = Transposed(MaxPool(value, ow, oh))
  BY DEF RowsAndColumnsAlike
<1>1. IsFrame(value)
  BY DEF IInv, FedBack
<1>2. OutputSizes \subseteq Nat \ {0}
  BY SessionAssumption
<1>3. \A operation : ApplyMorphology(Transposed(value), operation, 1)
                      = Transposed(ApplyMorphology(value, operation, 1))
  BY <1>1, MorphologyTurns
<1>4. QED
  BY <1>1, <1>2, <1>3, EdgesTurn, PoolingTurns

\* Ranges of hues are arcs.
LEMMA ArcsHold == ASSUME IInv PROVE HueRangesAreArcs
<1> SUFFICES ASSUME Ops = <<"mask">> PROVE HueRangesAreArcs
  BY DEF HueRangesAreArcs
<1> DEFINE request == Args(1)
           a == request.minHue
           b == request.maxHue
           whole == [request EXCEPT !.minHue = b, !.maxHue = a]
           turned == [request EXCEPT !.minHue = a + 120, !.maxHue = b + 120]
           point(i) == [request EXCEPT !.minHue = Hue(input[i]), !.maxHue = Hue(input[i])]
           rotated == [i \in DOMAIN input |-> Rotated(input[i])]
<1>1. /\ input \in Images /\ request \in HsvRequests
      /\ value = CreateHsvThresholdMask(input, request)
  <2>1. Len(trail) = 1 /\ trail[1].op = "mask"
    BY OnlyCall DEF IInv
  <2>2. QED
    BY <2>1 DEF IInv, Returned, Answer, Args
<1>2. /\ \A i \in DOMAIN input : IsColour(input[i])
      /\ request \in [minHue : Int, maxHue : Int, minSaturation : Int, minValue : Int,
                       ignoreValue : BOOLEAN]
      /\ a \in Int /\ b \in Int
  BY <1>1, SessionAssumption
<1>3. ASSUME NEW i \in DOMAIN input
      PROVE  LET other == CreateHsvThresholdMask(input, whole)[i] IN
             /\ NormalizeHue(a) # NormalizeHue(b) =>
                  /\ AtLeast(value[i], other) = CreateHsvThresholdMask(<<input[i]>>, point(i))[1]
                  /\ value[i] = 1 /\ other = 1 => Hue(input[i]) \in {NormalizeHue(a), NormalizeHue(b)}
             /\ \/ input[i].r = input[i].g /\ input[i].g = input[i].b
                \/ CreateHsvThresholdMask(rotated, turned)[i] = value[i]
  <2>1. MaskIsLawful(input, request, i)
    BY <1>2, MaskLaws
  <2>2. value[i] = CreateHsvThresholdMask(input, request)[i]
    BY <1>1
  <2>3. QED
    BY <2>1, <2>2, Zenon DEF MaskIsLawful
<1> HIDE DEF request, whole, turned, point, rotated
<1>4. rotated = [i \in DOMAIN input |-> [r |-> input[i].b, g |-> input[i].r, b |-> input[i].g]]
  BY DEF rotated, Rotated
<1>5. QED
  BY <1>3, <1>4, Zenon DEF HueRangesAreArcs, request, whole, turned, point

\* The filter computes the batch estimate.
LEMMA BatchIsMatched == ASSUME IInv PROVE KalmanIsTheBatchEstimate
<1> DEFINE n == Len(trail)
           r == input.measurement
           p == input.errorCovariance
           T == r + n * p
           sum == SumFunction([i \in DOMAIN trail |-> Args(i).m])
           seen == {Args(i).m : i \in DOMAIN trail} \cup {input.estimate}
           s == Max(seen) - Min(seen)
           c == value.errorCovariance
           x == value.estimate
           S == r * input.estimate + p * sum
<1> SUFFICES ASSUME kind = "tracker", input.process = 0, p >= 0, r > 0,
                    \A i \in DOMAIN trail : Args(i).u = 0
             PROVE  /\ AbsOf(c * T - r * p) <= n * T
                    /\ AbsOf(x * T - S) <= n * T * (1 + ((n * s) \div r))
  BY DEF KalmanIsTheBatchEstimate
<1>1. /\ input \in Trackers /\ x \in Int /\ c \in Int
      /\ \A i \in DOMAIN trail : trail[i].arg.m \in Int
      /\ IsSteady(input, trail) => IsNearBatch(input, trail, value)
      /\ trail \in Seq(ToSet(trail))
  BY DEF IInv, FedBack
<1>2. /\ input.estimate \in Int /\ p \in Nat /\ r \in Nat \ {0} /\ n \in Nat /\ DOMAIN trail = 1..n
  BY <1>1, SessionAssumption
<1>3. IsSteady(input, trail)
  BY DEF IsSteady, Args
<1>4. seen = Measured(input, trail) /\ sum = Measurements(trail)
  BY DEF Measured, Measurements, Args
<1>5. IsNear(r, p, n, S, Min(seen), Max(seen), value)
  BY <1>1, <1>3, <1>4 DEF IsNearBatch
<1>6. seen \in SUBSET Int /\ IsFiniteSet(seen) /\ seen # {} /\ sum \in Int
  <2> HIDE DEF n, seen, sum
  <2> QED
    BY <1>1, <1>2, <1>4, MeasuredFacts
<1>7. s \in Nat
  <2> DEFINE low == Min(seen)
             high == Max(seen)
  <2> HIDE DEF seen
  <2>1. low \in Int /\ high \in Int /\ low <= high
    BY <1>6, SpreadGrows
  <2> HIDE DEF low, high
  <2>2. high - low \in Nat
    BY <2>1
  <2>3. QED
    BY <2>2 DEF low, high
<1>8. T \in Nat /\ c * T - r * p \in Int /\ x * T - S \in Int /\ n * T \in Nat
  <2> DEFINE x0 == input.estimate
  <2>1. x0 \in Int /\ S = r * x0 + p * sum
    BY <1>2
  <2> HIDE DEF n, r, p, sum, S, x0, x, c
  <2>2. n * p \in Nat /\ r * x0 \in Int /\ p * sum \in Int /\ r * p \in Int
    BY <1>2, <1>6, <2>1, ProductFacts
  <2>3. T \in Nat
    BY <1>2, <2>2
  <2> HIDE DEF T
  <2>4. c * T \in Int /\ x * T \in Int /\ n * T \in Nat
    BY <1>1, <1>2, <2>3, ProductFacts
  <2>5. QED
    BY <2>1, <2>2, <2>3, <2>4
<1>9. /\ -(n * T) <= 2 * (c * T - r * p) /\ 2 * (c * T - r * p) <= n * T
      /\ -((2 * (n * r) + (n * (n - 1)) * s) * T) <= (4 * r) * (x * T - S)
      /\ (4 * r) * (x * T - S) <= (2 * (n * r) + (n * (n - 1)) * s) * T
  BY <1>5 DEF IsNear
<1>10. AbsOf(c * T - r * p) <= n * T
  <2> DEFINE g == c * T - r * p
             b == n * T
  <2>1. g \in Int /\ b \in Nat /\ -b <= 2 * g /\ 2 * g <= b
    BY <1>8, <1>9
  <2> HIDE DEF g, b
  <2>2. AbsOf(g) <= b
    BY <2>1 DEF AbsOf, AtLeast
  <2>3. QED
    BY <2>2 DEF g, b
<1>11. AbsOf(x * T - S) <= n * T * (1 + ((n * s) \div r))
  <2> DEFINE E == x * T - S
  <2>1. /\ E \in Int
        /\ -((2 * (n * r) + (n * (n - 1)) * s) * T) <= (4 * r) * E
        /\ (4 * r) * E <= (2 * (n * r) + (n * (n - 1)) * s) * T
    BY <1>8, <1>9
  <2> HIDE DEF n, r, s, T, E
  <2>2. AbsOf(E) <= n * T * (1 + ((n * s) \div r))
    BY <1>2, <1>7, <1>8, <2>1, BatchBound
  <2>3. QED
    BY <2>2 DEF E
<1>12. QED
  BY <1>10, <1>11

-----------------------------------------------------------------------------
(* The theorems.                                                           *)

\* The invariant holds in every session.
THEOREM Invariance == Spec => []IInv
<1>1. Init => IInv
  BY InitIsGood
<1>2. IInv /\ [Next]_vars => IInv'
  BY StepsAreGood
<1>3. QED
  BY <1>1, <1>2, PTL DEF Spec

\* A session has the kind of value its next call takes, and no charge and no
\* covariance that a call returned is negative.
THEOREM TypeCorrect == Spec => []TypeOK
<1>1. IInv => TypeOK
  BY IInvImpliesTypeOK
<1>2. QED
  BY <1>1, Invariance, PTL

\* What a sensor map means survives its normalisation (NormalizeAsync, Fuse,
\* ResolveRetryIntent).
THEOREM NormalizationKeepsTheMeaningCorrect == Spec => []NormalizationKeepsTheMeaning
<1>1. IInv => NormalizationKeepsTheMeaning
  BY LastSpellingHolds, DefaultsHold DEF NormalizationKeepsTheMeaning
<1>2. QED
  BY <1>1, Invariance, PTL

\* However often they are fed their own results, the kernels invent nothing:
\* pooling keeps the peak and adds no value, an average stays between what it was
\* given, an integrator holds no more than was put in, a palette keeps its own
\* colours, and the bands share the energy of the samples (MaxPool, ApplyEma,
\* ApplyLeakyIntegrator, QuantizeSemanticPalette, SplitFrequencyBands).
THEOREM KernelsInventNothingCorrect == Spec => []KernelsInventNothing
<1>1. IInv => KernelsInventNothing
  BY NothingIsInvented
<1>2. QED
  BY <1>1, Invariance, PTL

\* Without process noise and control, the recursive filter computes what one
\* batch estimate from all measurements would, up to the rounding of the
\* covariances, however many there are (ApplyKalman).
THEOREM KalmanIsTheBatchEstimateCorrect == Spec => []KalmanIsTheBatchEstimate
<1>1. IInv => KalmanIsTheBatchEstimate
  BY BatchIsMatched
<1>2. QED
  BY <1>1, Invariance, PTL

\* What has moved is found where it went: a sound at its lag, the pixels of a frame
\* at their offset, points in their next cell (EstimateStereoDelay,
\* EstimateDenseOpticalFlow, QuantizeSpatialHash).
THEOREM ShiftsAreFoundCorrect == Spec => []ShiftsAreFound
<1>1. IInv => ShiftsAreFound
  BY MovesAreFound
<1>2. QED
  BY <1>1, Invariance, PTL

\* An image has no order of its own: morphology is the same however often it is
\* repeated, rows and columns are alike, and hues go round (ApplyMorphology,
\* DetectLaplacianEdges, MaxPool, CreateHsvThresholdMask).
THEOREM ImageKernelsKeepTheirLawsCorrect == Spec => []ImageKernelsKeepTheirLaws
<1>1. IInv => ImageKernelsKeepTheirLaws
  BY OpeningsHold, TurnsHold, ArcsHold DEF ImageKernelsKeepTheirLaws
<1>2. QED
  BY <1>1, Invariance, PTL

\* Only sensors that are switched on steer, and neither to a side of their own
\* (Fuse, ResolveRetryIntent, QuantizeBinauralDirection).
THEOREM SteeringIsFairCorrect == Spec => []SteeringIsFair
<1>1. IInv => SteeringIsFair
  BY SilenceHolds, MirrorHolds DEF SteeringIsFair
<1>2. QED
  BY <1>1, Invariance, PTL
=============================================================================
