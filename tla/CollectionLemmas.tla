-------------------------- MODULE CollectionLemmas --------------------------
(***************************************************************************)
(* Facts about the collections the models are built from: sums of          *)
(* functions over finite sets (SumFunctionOnSet of the module Functions),  *)
(* and sequences whose elements are all different.                         *)
(*                                                                         *)
(* The library defines the sum by recursion over an arbitrary choice of    *)
(* elements; here it is shown to be a sum in any order.  Induction over    *)
(* finite sets is the library's well-foundedness of the strict subset      *)
(* relation, used with a set of good subsets in place of a predicate.      *)
(***************************************************************************)
EXTENDS Integers, SequencesExt, FiniteSetTheorems, SequenceTheorems, TLAPS

(***************************************************************************)
(* The subsets of a finite set are well-founded.                           *)
(***************************************************************************)
LEMMA SubsetsWellFounded ==
  ASSUME NEW S, IsFiniteSet(S)
  PROVE  IsWellFoundedOn(StrictSubsetOrdering(S), SUBSET S)
<1>1. FiniteSubsetsOf(S) = SUBSET S
  BY FS_FiniteSubsetsOfFinite
<1> QED BY <1>1, FS_StrictSubsetOrderingWellFounded

(***************************************************************************)
(* Induction over the subsets of a finite set.                             *)
(***************************************************************************)
LEMMA SubsetInduction ==
  ASSUME NEW S, IsFiniteSet(S), NEW Good,
         \A T \in SUBSET S : (\A V \in SUBSET T : V # T => V \in Good) => T \in Good
  PROVE  \A T \in SUBSET S : T \in Good
<1> SUFFICES ASSUME NEW U \in SUBSET S, U \notin Good
             PROVE  FALSE
  OBVIOUS
<1> DEFINE Bad == {T \in SUBSET S : T \notin Good}
<1>1. IsWellFoundedOn(StrictSubsetOrdering(S), SUBSET S)
  BY SubsetsWellFounded
<1>2. PICK T \in Bad : \A V \in Bad : ~(<<V, T>> \in StrictSubsetOrdering(S))
  <2>1. Bad \subseteq SUBSET S /\ Bad # {}
    OBVIOUS
  <2> HIDE DEF Bad
  <2> QED BY <1>1, <2>1, WFMin
<1>3. ASSUME NEW V \in SUBSET T, V # T
      PROVE  V \in Good
  <2>1. V \in SUBSET S /\ <<V, T>> \in StrictSubsetOrdering(S)
    BY <1>2, <1>3 DEF StrictSubsetOrdering
  <2> QED BY <1>2, <2>1
<1> QED BY <1>2, <1>3

-----------------------------------------------------------------------------
(***************************************************************************)
(* The recursion inside SumFunctionOnSet: one function, iter, on the       *)
(* subsets of S.                                                           *)
(***************************************************************************)
Chosen(s) == CHOOSE x \in s : TRUE

Rest(s) == s \ {Chosen(s)}

Sums(iter, fun, S) ==
  iter = [s \in SUBSET S |-> IF s = {} THEN 0 ELSE fun[Chosen(s)] + iter[Rest(s)]]

(***************************************************************************)
(* A chosen element out, a smaller set is left.                            *)
(***************************************************************************)
LEMMA RestIsSmaller ==
  ASSUME NEW s, s # {}
  PROVE  Chosen(s) \in s /\ Rest(s) \in SUBSET s /\ Rest(s) # s
BY DEF Chosen, Rest

(***************************************************************************)
(* The sum is the value of such a function at S.                           *)
(***************************************************************************)
LEMMA SumUnfolds ==
  ASSUME NEW fun, NEW S
  PROVE  SumFunctionOnSet(fun, S) = (CHOOSE iter : Sums(iter, fun, S))[S]
BY DEF SumFunctionOnSet, FoldFunctionOnSet, MapThenFoldSet, Sums, Chosen, Rest

(***************************************************************************)
(* Two such functions agree where both are defined.                        *)
(***************************************************************************)
LEMMA SumsAgree ==
  ASSUME NEW fun, NEW A, NEW B, NEW f, NEW g, Sums(f, fun, A), Sums(g, fun, B),
         NEW W, IsFiniteSet(W), W \subseteq A, W \subseteq B
  PROVE  f[W] = g[W]
<1> DEFINE Good == {T \in SUBSET W : f[T] = g[T]}
<1>1. ASSUME NEW T \in SUBSET W, \A V \in SUBSET T : V # T => V \in Good
      PROVE  T \in Good
  <2>1. T \in SUBSET A /\ T \in SUBSET B
    OBVIOUS
  <2>2. /\ f[T] = IF T = {} THEN 0 ELSE fun[Chosen(T)] + f[Rest(T)]
        /\ g[T] = IF T = {} THEN 0 ELSE fun[Chosen(T)] + g[Rest(T)]
    BY <2>1, Zenon DEF Sums
  <2>3. T # {} => f[Rest(T)] = g[Rest(T)]
    BY <1>1, RestIsSmaller
  <2> QED BY <2>2, <2>3
<1> HIDE DEF Good
<1>2. \A T \in SUBSET W : T \in Good
  BY <1>1, SubsetInduction
<1> QED BY <1>2 DEF Good

(***************************************************************************)
(* There is one on every finite set: the ones on the smaller sets, and one *)
(* value more.                                                             *)
(***************************************************************************)
LEMMA SumsExist ==
  ASSUME NEW fun, NEW S, IsFiniteSet(S)
  PROVE  \E iter : Sums(iter, fun, S)
<1> DEFINE Good == {T \in SUBSET S : \E iter : Sums(iter, fun, T)}
           Iter(T) == CHOOSE iter : Sums(iter, fun, T)
<1>1. ASSUME NEW T \in SUBSET S, \A V \in SUBSET T : V # T => V \in Good
      PROVE  T \in Good
  <2> DEFINE f == [s \in SUBSET T |-> IF s = {} THEN 0
                                      ELSE fun[Chosen(s)] + Iter(Rest(s))[Rest(s)]]
  <2>1. ASSUME NEW V \in SUBSET T, V # T
        PROVE  Sums(Iter(V), fun, V)
    BY <1>1, <2>1
  <2>2. ASSUME NEW s \in SUBSET T, s # T
        PROVE  f[s] = Iter(s)[s]
    <3>1. Iter(s)[s] = IF s = {} THEN 0 ELSE fun[Chosen(s)] + Iter(s)[Rest(s)]
      <4>1. Sums(Iter(s), fun, s)
        BY <2>1, <2>2
      <4> HIDE DEF Iter
      <4> QED BY <4>1, Zenon DEF Sums
    <3>2. s # {} => Iter(s)[Rest(s)] = Iter(Rest(s))[Rest(s)]
      <4>1. s # {} => Rest(s) \in SUBSET s /\ Rest(s) \in SUBSET T /\ Rest(s) # T
        BY <2>2, RestIsSmaller
      <4>2. s # {} => Sums(Iter(s), fun, s) /\ Sums(Iter(Rest(s)), fun, Rest(s))
        BY <2>1, <2>2, <4>1
      <4>3. s # {} => IsFiniteSet(Rest(s))
        BY <4>1, FS_Subset
      <4> HIDE DEF Iter
      <4> QED BY <4>1, <4>2, <4>3, SumsAgree
    <3> HIDE DEF Iter
    <3> QED BY <3>1, <3>2
  <2>3. ASSUME NEW s \in SUBSET T, s # {}
        PROVE  f[Rest(s)] = Iter(Rest(s))[Rest(s)]
    <3>1. Rest(s) \in SUBSET T /\ Rest(s) # T
      BY <2>3, RestIsSmaller
    <3> HIDE DEF f, Iter
    <3> QED BY <2>2, <3>1
  <2>4. Sums(f, fun, T)
    <3>1. f = [s \in SUBSET T |-> IF s = {} THEN 0 ELSE fun[Chosen(s)] + f[Rest(s)]]
      <4>1. \A s \in SUBSET T : f[s] = IF s = {} THEN 0 ELSE fun[Chosen(s)] + f[Rest(s)]
        <5> TAKE s \in SUBSET T
        <5>1. f[s] = IF s = {} THEN 0 ELSE fun[Chosen(s)] + Iter(Rest(s))[Rest(s)]
          BY Zenon
        <5> HIDE DEF f, Iter
        <5> QED BY <2>3, <5>1
      <4>2. f = [s \in SUBSET T |-> f[s]]
        OBVIOUS
      <4> HIDE DEF f
      <4> QED BY <4>1, <4>2
    <3> HIDE DEF f
    <3> QED BY <3>1 DEF Sums
  <2> HIDE DEF f
  <2> QED BY <2>4
<1> HIDE DEF Good
<1>2. S \in Good
  BY <1>1, SubsetInduction
<1> QED BY <1>2 DEF Good

(***************************************************************************)
(* The sum of nothing.                                                     *)
(***************************************************************************)
LEMMA SumEmpty ==
  ASSUME NEW fun
  PROVE  SumFunctionOnSet(fun, {}) = 0
<1> DEFINE iter == CHOOSE f : Sums(f, fun, {})
<1>1. Sums(iter, fun, {})
  BY SumsExist, FS_EmptySet
<1>2. SumFunctionOnSet(fun, {}) = iter[{}]
  BY SumUnfolds
<1> HIDE DEF iter
<1> QED BY <1>1, <1>2 DEF Sums

(***************************************************************************)
(* Otherwise a chosen element comes first.                                 *)
(***************************************************************************)
LEMMA SumChosen ==
  ASSUME NEW fun, NEW S, IsFiniteSet(S), S # {}
  PROVE  SumFunctionOnSet(fun, S) = fun[Chosen(S)] + SumFunctionOnSet(fun, Rest(S))
<1> DEFINE Iter(T) == CHOOSE f : Sums(f, fun, T)
<1>1. Rest(S) \in SUBSET S /\ IsFiniteSet(Rest(S))
  BY RestIsSmaller, FS_Subset
<1>2. Sums(Iter(S), fun, S) /\ Sums(Iter(Rest(S)), fun, Rest(S))
  BY <1>1, SumsExist
<1>3. /\ SumFunctionOnSet(fun, S) = Iter(S)[S]
      /\ SumFunctionOnSet(fun, Rest(S)) = Iter(Rest(S))[Rest(S)]
  BY SumUnfolds
<1> HIDE DEF Iter
<1>4. Iter(S)[S] = fun[Chosen(S)] + Iter(S)[Rest(S)]
  BY <1>2, Zenon DEF Sums
<1>5. Iter(S)[Rest(S)] = Iter(Rest(S))[Rest(S)]
  BY <1>1, <1>2, SumsAgree
<1> QED BY <1>3, <1>4, <1>5

-----------------------------------------------------------------------------
(***************************************************************************)
(* The sum of integers is an integer.                                      *)
(***************************************************************************)
LEMMA SumType ==
  ASSUME NEW S, IsFiniteSet(S), NEW fun, \A x \in S : fun[x] \in Int
  PROVE  SumFunctionOnSet(fun, S) \in Int
<1> DEFINE Good == {T \in SUBSET S : SumFunctionOnSet(fun, T) \in Int}
<1>1. ASSUME NEW T \in SUBSET S, \A V \in SUBSET T : V # T => V \in Good
      PROVE  T \in Good
  <2>1. CASE T = {}
    BY <2>1, SumEmpty
  <2>2. CASE T # {}
    <3>1. Chosen(T) \in T /\ Rest(T) \in Good
      BY <1>1, <2>2, RestIsSmaller
    <3>2. SumFunctionOnSet(fun, T) = fun[Chosen(T)] + SumFunctionOnSet(fun, Rest(T))
      BY <2>2, SumChosen, FS_Subset
    <3> QED BY <3>1, <3>2
  <2> QED BY <2>1, <2>2
<1> HIDE DEF Good
<1>2. S \in Good
  BY <1>1, SubsetInduction
<1> QED BY <1>2 DEF Good

(***************************************************************************)
(* The sum of natural numbers is one.                                      *)
(***************************************************************************)
LEMMA SumNat ==
  ASSUME NEW S, IsFiniteSet(S), NEW fun, \A x \in S : fun[x] \in Nat
  PROVE  SumFunctionOnSet(fun, S) \in Nat
<1> DEFINE Good == {T \in SUBSET S : SumFunctionOnSet(fun, T) \in Nat}
<1>1. ASSUME NEW T \in SUBSET S, \A V \in SUBSET T : V # T => V \in Good
      PROVE  T \in Good
  <2>1. CASE T = {}
    BY <2>1, SumEmpty
  <2>2. CASE T # {}
    <3>1. Chosen(T) \in T /\ Rest(T) \in Good
      BY <1>1, <2>2, RestIsSmaller
    <3>2. SumFunctionOnSet(fun, T) = fun[Chosen(T)] + SumFunctionOnSet(fun, Rest(T))
      BY <2>2, SumChosen, FS_Subset
    <3> QED BY <3>1, <3>2
  <2> QED BY <2>1, <2>2
<1> HIDE DEF Good
<1>2. S \in Good
  BY <1>1, SubsetInduction
<1> QED BY <1>2 DEF Good

(***************************************************************************)
(* Zeros add up to zero.                                                   *)
(***************************************************************************)
LEMMA SumZero ==
  ASSUME NEW S, IsFiniteSet(S), NEW fun, \A x \in S : fun[x] = 0
  PROVE  SumFunctionOnSet(fun, S) = 0
<1> DEFINE Good == {T \in SUBSET S : SumFunctionOnSet(fun, T) = 0}
<1>1. ASSUME NEW T \in SUBSET S, \A V \in SUBSET T : V # T => V \in Good
      PROVE  T \in Good
  <2>1. CASE T = {}
    BY <2>1, SumEmpty
  <2>2. CASE T # {}
    <3>1. Chosen(T) \in T /\ Rest(T) \in Good
      BY <1>1, <2>2, RestIsSmaller
    <3>2. SumFunctionOnSet(fun, T) = fun[Chosen(T)] + SumFunctionOnSet(fun, Rest(T))
      BY <2>2, SumChosen, FS_Subset
    <3> QED BY <3>1, <3>2
  <2> QED BY <2>1, <2>2
<1> HIDE DEF Good
<1>2. S \in Good
  BY <1>1, SubsetInduction
<1> QED BY <1>2 DEF Good

(***************************************************************************)
(* The sum depends on the values of the function on the set alone.         *)
(***************************************************************************)
LEMMA SumSame ==
  ASSUME NEW S, IsFiniteSet(S), NEW f, NEW g, \A x \in S : f[x] = g[x]
  PROVE  SumFunctionOnSet(f, S) = SumFunctionOnSet(g, S)
<1> DEFINE Good == {T \in SUBSET S : SumFunctionOnSet(f, T) = SumFunctionOnSet(g, T)}
<1>1. ASSUME NEW T \in SUBSET S, \A V \in SUBSET T : V # T => V \in Good
      PROVE  T \in Good
  <2>1. CASE T = {}
    BY <2>1, SumEmpty
  <2>2. CASE T # {}
    <3>1. Chosen(T) \in T /\ Rest(T) \in Good
      BY <1>1, <2>2, RestIsSmaller
    <3>2. /\ SumFunctionOnSet(f, T) = f[Chosen(T)] + SumFunctionOnSet(f, Rest(T))
          /\ SumFunctionOnSet(g, T) = g[Chosen(T)] + SumFunctionOnSet(g, Rest(T))
      BY <2>2, SumChosen, FS_Subset
    <3> QED BY <3>1, <3>2
  <2> QED BY <2>1, <2>2
<1> HIDE DEF Good
<1>2. S \in Good
  BY <1>1, SubsetInduction
<1> QED BY <1>2 DEF Good

(***************************************************************************)
(* Any element may be taken out first.                                     *)
(***************************************************************************)
LEMMA SumRemove ==
  ASSUME NEW S, IsFiniteSet(S), NEW fun, \A x \in S : fun[x] \in Int, NEW x \in S
  PROVE  SumFunctionOnSet(fun, S) = fun[x] + SumFunctionOnSet(fun, S \ {x})
<1> DEFINE Takes(T) == \A y \in T : SumFunctionOnSet(fun, T) = fun[y] + SumFunctionOnSet(fun, T \ {y})
           Good == {T \in SUBSET S : Takes(T)}
<1>1. ASSUME NEW T \in SUBSET S, \A V \in SUBSET T : V # T => V \in Good
      PROVE  T \in Good
  <2> SUFFICES ASSUME NEW y \in T
               PROVE  SumFunctionOnSet(fun, T) = fun[y] + SumFunctionOnSet(fun, T \ {y})
    OBVIOUS
  <2> DEFINE c == Chosen(T)
             R == T \ {c, y}
  <2>1. c \in T /\ Rest(T) = T \ {c} /\ IsFiniteSet(T)
    BY RestIsSmaller, FS_Subset DEF Rest
  <2>2. SumFunctionOnSet(fun, T) = fun[c] + SumFunctionOnSet(fun, T \ {c})
    BY <2>1, SumChosen
  <2>3. CASE y = c
    BY <2>2, <2>3
  <2>4. CASE y # c
    <3>1. T \ {c} \in Good /\ T \ {y} \in Good
      BY <1>1, <2>1
    <3>2. /\ SumFunctionOnSet(fun, T \ {c}) = fun[y] + SumFunctionOnSet(fun, (T \ {c}) \ {y})
          /\ SumFunctionOnSet(fun, T \ {y}) = fun[c] + SumFunctionOnSet(fun, (T \ {y}) \ {c})
      BY <2>1, <2>4, <3>1
    <3>3. (T \ {c}) \ {y} = R /\ (T \ {y}) \ {c} = R
      OBVIOUS
    <3>4. R \in SUBSET S /\ IsFiniteSet(R) /\ fun[c] \in Int /\ fun[y] \in Int
      BY <2>1, FS_Subset
    <3>5. SumFunctionOnSet(fun, R) \in Int
      BY <3>4, SumType
    <3>6. /\ SumFunctionOnSet(fun, T \ {c}) = fun[y] + SumFunctionOnSet(fun, R)
          /\ SumFunctionOnSet(fun, T \ {y}) = fun[c] + SumFunctionOnSet(fun, R)
      BY <3>2, <3>3
    <3> HIDE DEF R, c
    <3> QED BY <2>2, <3>4, <3>5, <3>6
  <2> QED BY <2>3, <2>4
<1> HIDE DEF Good
<1>2. S \in Good
  BY <1>1, SubsetInduction
<1> QED BY <1>2 DEF Good

(***************************************************************************)
(* An element more.                                                        *)
(***************************************************************************)
LEMMA SumAdd ==
  ASSUME NEW S, IsFiniteSet(S), NEW fun, \A y \in S : fun[y] \in Int, NEW x, x \notin S, fun[x] \in Int
  PROVE  SumFunctionOnSet(fun, S \cup {x}) = fun[x] + SumFunctionOnSet(fun, S)
<1>1. IsFiniteSet(S \cup {x}) /\ (S \cup {x}) \ {x} = S /\ \A y \in S \cup {x} : fun[y] \in Int
  BY FS_AddElement
<1> QED BY <1>1, SumRemove

(***************************************************************************)
(* Two functions that differ at one element only.                          *)
(***************************************************************************)
LEMMA SumChange ==
  ASSUME NEW S, IsFiniteSet(S), NEW x \in S, NEW f, NEW g,
         \A y \in S : f[y] \in Int /\ g[y] \in Int,
         \A y \in S \ {x} : f[y] = g[y]
  PROVE  SumFunctionOnSet(g, S) = SumFunctionOnSet(f, S) - f[x] + g[x]
<1>1. IsFiniteSet(S \ {x})
  BY FS_RemoveElement
<1>2. SumFunctionOnSet(f, S \ {x}) = SumFunctionOnSet(g, S \ {x})
  BY <1>1, SumSame
<1>3. /\ SumFunctionOnSet(f, S) = f[x] + SumFunctionOnSet(f, S \ {x})
      /\ SumFunctionOnSet(g, S) = g[x] + SumFunctionOnSet(g, S \ {x})
  BY SumRemove
<1>4. SumFunctionOnSet(f, S \ {x}) \in Int
  BY <1>1, SumType
<1> QED BY <1>2, <1>3, <1>4

(***************************************************************************)
(* The same numbers under other names add up to the same.                  *)
(***************************************************************************)
LEMMA SumImage ==
  ASSUME NEW S, IsFiniteSet(S), NEW h, \A x, y \in S : h[x] = h[y] => x = y,
         NEW f, NEW g, \A x \in S : f[x] \in Int /\ f[x] = g[h[x]]
  PROVE  /\ IsFiniteSet({h[x] : x \in S})
         /\ SumFunctionOnSet(f, S) = SumFunctionOnSet(g, {h[x] : x \in S})
<1> DEFINE Image(T) == {h[x] : x \in T}
           Good == {T \in SUBSET S : /\ IsFiniteSet(Image(T))
                                     /\ SumFunctionOnSet(f, T) = SumFunctionOnSet(g, Image(T))}
<1>1. ASSUME NEW T \in SUBSET S, \A V \in SUBSET T : V # T => V \in Good
      PROVE  T \in Good
  <2>1. CASE T = {}
    <3>1. Image(T) = {}
      BY <2>1
    <3> QED BY <2>1, <3>1, SumEmpty, FS_EmptySet
  <2>2. CASE T # {}
    <3> DEFINE c == Chosen(T)
               R == Rest(T)
    <3>1. c \in T /\ R \in SUBSET T /\ R # T /\ R \in Good /\ IsFiniteSet(T) /\ IsFiniteSet(R)
      BY <1>1, <2>2, RestIsSmaller, FS_Subset
    <3>2. R = T \ {c}
      BY DEF Rest
    <3>3. SumFunctionOnSet(f, T) = f[c] + SumFunctionOnSet(f, R)
      BY <2>2, <3>1, SumChosen
    <3> HIDE DEF c, R
    <3>4. Image(T) = Image(R) \cup {h[c]} /\ h[c] \notin Image(R)
      BY <3>1, <3>2
    <3>5. \A y \in Image(R) : g[y] \in Int
      BY <3>1
    <3>6. IsFiniteSet(Image(R))
      BY <3>1
    <3>7. f[c] = g[h[c]] /\ g[h[c]] \in Int
      BY <3>1
    <3>8. SumFunctionOnSet(f, R) = SumFunctionOnSet(g, Image(R))
      BY <3>1
    <3> HIDE DEF Image
    <3>9. SumFunctionOnSet(g, Image(R) \cup {h[c]}) = g[h[c]] + SumFunctionOnSet(g, Image(R))
      BY <3>4, <3>5, <3>6, <3>7, SumAdd
    <3>10. SumFunctionOnSet(f, T) = SumFunctionOnSet(g, Image(T))
      BY <3>3, <3>4, <3>7, <3>8, <3>9
    <3>11. IsFiniteSet(Image(T))
      BY <3>4, <3>6, FS_AddElement
    <3> QED BY <3>10, <3>11
  <2> QED BY <2>1, <2>2
<1> HIDE DEF Good
<1>2. S \in Good
  BY <1>1, SubsetInduction
<1> QED BY <1>2 DEF Good

(***************************************************************************)
(* What a function is where it is not zero.                                *)
(***************************************************************************)
LEMMA SumWhere ==
  ASSUME NEW S, IsFiniteSet(S), NEW T \in SUBSET S, NEW f, NEW g,
         \A x \in T : f[x] = g[x], \A x \in S \ T : f[x] = 0, \A x \in T : g[x] \in Int
  PROVE  SumFunctionOnSet(f, S) = SumFunctionOnSet(g, T)
<1> DEFINE Good == {V \in SUBSET S : SumFunctionOnSet(f, V) = SumFunctionOnSet(g, V \cap T)}
<1>1. ASSUME NEW V \in SUBSET S, \A W \in SUBSET V : W # V => W \in Good
      PROVE  V \in Good
  <2>1. CASE V = {}
    <3>1. V \cap T = {}
      BY <2>1
    <3> QED BY <2>1, <3>1, SumEmpty
  <2>2. CASE V # {}
    <3>1. PICK c : c \in V
      BY <2>2
    <3> DEFINE R == V \ {c}
    <3>2. R \in Good /\ IsFiniteSet(V) /\ IsFiniteSet(V \cap T) /\ IsFiniteSet(R \cap T)
      BY <1>1, <3>1, FS_Subset
    <3>3. \A x \in V : f[x] \in Int
      OBVIOUS
    <3>4. SumFunctionOnSet(f, V) = f[c] + SumFunctionOnSet(f, R)
      BY <3>1, <3>2, <3>3, SumRemove
    <3>5. SumFunctionOnSet(f, R) = SumFunctionOnSet(g, R \cap T)
      BY <3>2
    <3>6. SumFunctionOnSet(g, R \cap T) \in Int
      BY <3>2, SumType
    <3>7. CASE c \in T
      <4>1. (V \cap T) \ {c} = R \cap T /\ c \in V \cap T
        BY <3>1, <3>7
      <4>2. \A x \in V \cap T : g[x] \in Int
        OBVIOUS
      <4>3. SumFunctionOnSet(g, V \cap T) = g[c] + SumFunctionOnSet(g, (V \cap T) \ {c})
        BY <3>2, <4>1, <4>2, SumRemove
      <4>4. f[c] = g[c]
        BY <3>7
      <4> QED BY <3>4, <3>5, <4>1, <4>3, <4>4
    <3>8. CASE c \notin T
      <4>1. V \cap T = R \cap T
        BY <3>8
      <4>2. f[c] = 0
        BY <3>1, <3>8
      <4> HIDE DEF R
      <4> QED BY <3>4, <3>5, <3>6, <4>1, <4>2
    <3> QED BY <3>7, <3>8
  <2> QED BY <2>1, <2>2
<1> HIDE DEF Good
<1>2. S \in Good
  BY <1>1, SubsetInduction
<1>3. S \cap T = T
  OBVIOUS
<1> QED BY <1>2, <1>3 DEF Good
-----------------------------------------------------------------------------
(***************************************************************************)
(* A sequence without its i-th element (erase of a request vector).        *)
(***************************************************************************)
LEMMA RemoveAtProperties ==
  ASSUME NEW S, NEW s \in Seq(S), NEW i \in DOMAIN s
  PROVE  /\ RemoveAt(s, i) \in Seq(S)
         /\ Len(RemoveAt(s, i)) = Len(s) - 1
         /\ \A j \in 1 .. Len(s) - 1 : RemoveAt(s, i)[j] = IF j < i THEN s[j] ELSE s[j + 1]
<1>1. i \in 1 .. Len(s) /\ Len(s) \in Nat /\ \A j \in 1 .. Len(s) : s[j] \in S
  OBVIOUS
<1> DEFINE front == SubSeq(s, 1, i - 1)
           back == SubSeq(s, i + 1, Len(s))
<1>2. /\ front \in Seq(S)
      /\ Len(front) = i - 1
      /\ \A j \in 1 .. i - 1 : front[j] = s[j]
  BY <1>1, SubSeqProperties
<1>3. /\ back \in Seq(S)
      /\ Len(back) = Len(s) - i
      /\ \A j \in 1 .. Len(s) - i : back[j] = s[i + j]
  BY <1>1, SubSeqProperties
<1> HIDE DEF front, back
<1>4. /\ front \o back \in Seq(S)
      /\ Len(front \o back) = Len(front) + Len(back)
      /\ \A j \in 1 .. Len(front) + Len(back) : (front \o back)[j] =
                 IF j <= Len(front) THEN front[j] ELSE back[j - Len(front)]
  BY <1>2, <1>3, ConcatProperties
<1>5. Len(front) + Len(back) = Len(s) - 1
  BY <1>1, <1>2, <1>3
<1>6. ASSUME NEW j \in 1 .. Len(s) - 1
      PROVE  (front \o back)[j] = IF j < i THEN s[j] ELSE s[j + 1]
  <2>1. (front \o back)[j] = IF j <= i - 1 THEN front[j] ELSE back[j - (i - 1)]
    BY <1>2, <1>4, <1>5
  <2>2. CASE j < i
    BY <1>1, <1>2, <2>1, <2>2
  <2>3. CASE ~(j < i)
    <3>1. j - (i - 1) \in 1 .. Len(s) - i /\ i + (j - (i - 1)) = j + 1
      BY <1>1, <2>3
    <3>2. back[j - (i - 1)] = s[j + 1]
      BY <1>3, <3>1
    <3> QED BY <1>1, <2>1, <2>3, <3>2
  <2> QED BY <2>2, <2>3
<1>7. RemoveAt(s, i) = front \o back
  BY DEF RemoveAt, front, back
<1> QED BY <1>4, <1>5, <1>6, <1>7

(***************************************************************************)
(* The elements of a sequence that grows at its end, and that they stay    *)
(* different.                                                              *)
(***************************************************************************)
LEMMA AppendElements ==
  ASSUME NEW S, NEW s \in Seq(S), NEW x \in S
  PROVE  /\ Range(Append(s, x)) = Range(s) \cup {x}
         /\ IsInjective(s) /\ x \notin Range(s) => IsInjective(Append(s, x))
<1>1. /\ DOMAIN s = 1 .. Len(s) /\ Len(s) \in Nat
      /\ DOMAIN Append(s, x) = 1 .. Len(s) + 1
      /\ \A i \in 1 .. Len(s) : Append(s, x)[i] = s[i]
      /\ Append(s, x)[Len(s) + 1] = x
  BY AppendProperties
<1> DEFINE t == Append(s, x)
<1> HIDE DEF t
<1>2. Range(t) = Range(s) \cup {x}
  <2>1. ASSUME NEW y \in Range(t)
        PROVE  y \in Range(s) \cup {x}
    BY <1>1 DEF Range, t
  <2>2. ASSUME NEW y \in Range(s) \cup {x}
        PROVE  y \in Range(t)
    BY <1>1 DEF Range, t
  <2> QED BY <2>1, <2>2
<1>3. ASSUME IsInjective(s), x \notin Range(s)
      PROVE  IsInjective(t)
  <2>1. \A i \in 1 .. Len(s) : s[i] # x
    BY <1>1, <1>3 DEF Range
  <2>2. \A i, j \in 1 .. Len(s) : s[i] = s[j] => i = j
    BY <1>1, <1>3 DEF IsInjective
  <2>3. \A i, j \in 1 .. Len(s) + 1 : t[i] = t[j] => i = j
    BY <1>1, <2>1, <2>2 DEF t
  <2>4. DOMAIN t = 1 .. Len(s) + 1
    BY <1>1 DEF t
  <2> QED BY <2>3, <2>4 DEF IsInjective
<1> QED BY <1>2, <1>3 DEF t

(***************************************************************************)
(* Without its i-th element.                                               *)
(***************************************************************************)
LEMMA RemoveAtElements ==
  ASSUME NEW S, NEW s \in Seq(S), IsInjective(s), NEW i \in DOMAIN s
  PROVE  /\ Range(RemoveAt(s, i)) = Range(s) \ {s[i]}
         /\ IsInjective(RemoveAt(s, i))
<1> DEFINE t == RemoveAt(s, i)
           n == Len(s) - 1
<1>1. /\ DOMAIN s = 1 .. Len(s) /\ Len(s) \in Nat /\ i \in 1 .. Len(s)
      /\ DOMAIN t = 1 .. n
      /\ \A j \in 1 .. n : t[j] = IF j < i THEN s[j] ELSE s[j + 1]
  BY RemoveAtProperties
<1>2. \A j, k \in 1 .. Len(s) : s[j] = s[k] => j = k
  BY <1>1 DEF IsInjective
<1> HIDE DEF t
<1>3. ASSUME NEW y \in Range(t)
      PROVE  y \in Range(s) /\ y # s[i]
  BY <1>1, <1>2, <1>3 DEF Range
<1>4. ASSUME NEW y \in Range(s), y # s[i]
      PROVE  y \in Range(t)
  <2>1. PICK k \in 1 .. Len(s) : y = s[k]
    BY <1>1 DEF Range
  <2>2. \E j \in 1 .. n : t[j] = y
    <3>1. CASE k < i
      <4>1. k \in 1 .. n /\ t[k] = y
        BY <1>1, <2>1, <3>1
      <4> QED BY <4>1
    <3>2. CASE k > i
      <4>1. k - 1 \in 1 .. n /\ t[k - 1] = y
        BY <1>1, <2>1, <3>2
      <4> QED BY <4>1
    <3> QED BY <1>1, <1>4, <2>1, <3>1, <3>2
  <2> QED BY <1>1, <2>2 DEF Range
<1>5. IsInjective(t)
  <2>1. \A j, k \in 1 .. n : t[j] = t[k] => j = k
    BY <1>1, <1>2
  <2> QED BY <1>1, <2>1 DEF IsInjective
<1> QED BY <1>3, <1>4, <1>5 DEF t

(***************************************************************************)
(* Without its first element.                                              *)
(***************************************************************************)
LEMMA TailElements ==
  ASSUME NEW S, NEW s \in Seq(S), IsInjective(s), s # <<>>
  PROVE  /\ s[1] \in Range(s)
         /\ Range(Tail(s)) = Range(s) \ {s[1]}
         /\ IsInjective(Tail(s))
<1> DEFINE t == Tail(s)
           n == Len(s) - 1
<1>1. /\ DOMAIN s = 1 .. Len(s) /\ Len(s) \in Nat /\ 1 \in 1 .. Len(s)
      /\ DOMAIN t = 1 .. n
      /\ \A j \in 1 .. n : t[j] = s[j + 1]
  BY HeadTailProperties, EmptySeq
<1>2. \A j, k \in 1 .. Len(s) : s[j] = s[k] => j = k
  BY <1>1 DEF IsInjective
<1> HIDE DEF t
<1>3. ASSUME NEW y \in Range(t)
      PROVE  y \in Range(s) /\ y # s[1]
  BY <1>1, <1>2, <1>3 DEF Range
<1>4. ASSUME NEW y \in Range(s), y # s[1]
      PROVE  y \in Range(t)
  <2>1. PICK k \in 1 .. Len(s) : y = s[k]
    BY <1>1 DEF Range
  <2>2. k - 1 \in 1 .. n /\ t[k - 1] = y
    BY <1>1, <1>4, <2>1
  <2> QED BY <1>1, <2>2 DEF Range
<1>5. IsInjective(t)
  <2>1. \A j, k \in 1 .. n : t[j] = t[k] => j = k
    BY <1>1, <1>2
  <2> QED BY <1>1, <2>1 DEF IsInjective
<1>6. s[1] \in Range(s)
  BY <1>1 DEF Range
<1> QED BY <1>3, <1>4, <1>5, <1>6 DEF t

(***************************************************************************)
(* How often an element occurs in a sequence of different elements.        *)
(***************************************************************************)
LEMMA OccursOnce ==
  ASSUME NEW S, NEW s \in Seq(S), IsInjective(s), NEW x
  PROVE  Cardinality({i \in DOMAIN s : s[i] = x}) = IF x \in Range(s) THEN 1 ELSE 0
<1>1. CASE x \in Range(s)
  <2>1. PICK i \in DOMAIN s : s[i] = x
    BY <1>1 DEF Range
  <2>2. {j \in DOMAIN s : s[j] = x} = {i}
    BY <2>1 DEF IsInjective
  <2> QED BY <1>1, <2>2, FS_Singleton
<1>2. CASE x \notin Range(s)
  <2>1. {j \in DOMAIN s : s[j] = x} = {}
    BY <1>2 DEF Range
  <2> QED BY <1>2, <2>1, FS_EmptySet
<1> QED BY <1>1, <1>2
=============================================================================
