------------------------------ MODULE SequenceFolds ------------------------------
(***************************************************************************)
(* What a fold of a sequence from the left computes, for the proofs about  *)
(* logs that are replayed and histories that are filtered.  FoldLeft is a  *)
(* recursive function on sets of positions; here it is shown to exist, and *)
(* to be the iteration one expects.                                        *)
(*                                                                         *)
(* A module that needs it instantiates this one with its own step.         *)
(***************************************************************************)
EXTENDS Integers, Sequences, SequencesExt, WellFoundedInduction, TLAPS

CONSTANTS
    Base,       \* what the fold starts from
    Op(_, _, _) \* a parameter, what is folded so far, and the next element

Fold(a, s) == FoldLeft(LAMBDA x, m : Op(a, x, m), Base, s)

-----------------------------------------------------------------------------
(* Induction, on sets of numbers. *)

\* A set of numbers has a least one.
LEMMA LeastNumber ==
    ASSUME NEW T, T \subseteq Nat, T # {}
    PROVE  \E x \in T : \A y \in T : x <= y
<1>. DEFINE R == {p \in Nat \X Nat : p[1] < p[2]}
<1>1. IsWellFoundedOn(R, Nat)
  BY NatLessThanWellFounded DEF OpToRel
<1>2. PICK x \in T : \A y \in T : ~ (<<y, x>> \in R)
  BY <1>1, WFMin
<1>3. \A y \in T : x <= y
  <2>. TAKE y \in T
  <2>1. x \in Nat /\ y \in Nat
    OBVIOUS
  <2>2. ~ (y < x)
    BY <1>2, <2>1
  <2>. QED  BY <2>1, <2>2
<1>. QED  BY <1>3

\* A set with 0 and with the successor of each of its numbers has them all.
LEMMA InductionOnSet ==
    ASSUME NEW S, 0 \in S, \A n \in Nat : n \in S => n + 1 \in S
    PROVE  Nat \subseteq S
<1>. SUFFICES ASSUME Nat \ S # {}
              PROVE  FALSE
  OBVIOUS
<1>1. PICK x \in Nat \ S : \A y \in Nat \ S : x <= y
  <2>. DEFINE T == Nat \ S
  <2>1. T \subseteq Nat /\ T # {}
    OBVIOUS
  <2>. HIDE DEF T
  <2>. QED  BY <2>1, LeastNumber DEF T
<1>2. x # 0 /\ x - 1 \in Nat /\ x - 1 \in S /\ (x - 1) + 1 = x
  BY <1>1
<1>. QED  BY <1>1, <1>2

\* The same up to a bound.
LEMMA InductionUpTo ==
    ASSUME NEW n \in Nat, NEW S, 0 \in S, \A k \in 0 .. n - 1 : k \in S => k + 1 \in S
    PROVE  0 .. n \subseteq S
<1>. DEFINE T == {k \in Nat : k <= n => k \in S}
<1>1. 0 \in T
  OBVIOUS
<1>2. \A k \in Nat : k \in T => k + 1 \in T
  <2>. SUFFICES ASSUME NEW k \in Nat, k \in T, k + 1 <= n
                PROVE  k + 1 \in S
    OBVIOUS
  <2>1. k \in 0 .. n - 1 /\ k \in S
    OBVIOUS
  <2>. QED  BY <2>1
<1>. HIDE DEF T
<1>3. Nat \subseteq T
  BY <1>1, <1>2, InductionOnSet
<1>. QED  BY <1>3 DEF T
-----------------------------------------------------------------------------
(* The recursive function that FoldLeft chooses. *)

\* f folds the elements of s at each set of the first n positions.
Folds(f, a, s, n) ==
    f = [t \in SUBSET (1 .. n) |->
            IF t = {} THEN Base ELSE Op(a, f[t \ {Max(t)}], s[Max(t)])]

LEMMA FoldIsChosen ==
    ASSUME NEW a, NEW s, DOMAIN s = 1 .. Len(s)
    PROVE  Fold(a, s) = (CHOOSE f : Folds(f, a, s, Len(s)))[1 .. Len(s)]
BY DEF Fold, FoldLeft, MapThenFoldSet, Folds

LEMMA MaxIs ==
    ASSUME NEW n \in Nat, NEW t \in SUBSET (1 .. n + 1), n + 1 \in t
    PROVE  Max(t) = n + 1
<1>1. n + 1 \in t /\ \A y \in t : n + 1 >= y
  OBVIOUS
<1>2. PICK m : m = Max(t)
  OBVIOUS
<1>3. m \in t /\ \A y \in t : m >= y
  BY <1>1, <1>2 DEF Max
<1>4. m \in Int /\ m >= n + 1 /\ n + 1 >= m
  BY <1>1, <1>3
<1>. QED  BY <1>2, <1>4

LEMMA FoldExists ==
    ASSUME NEW a, NEW s, NEW n \in Nat
    PROVE  \E f : Folds(f, a, s, n)
<1>. DEFINE S == {k \in Nat : \E f : Folds(f, a, s, k)}
<1>1. 0 \in S
  <2>1. SUBSET (1 .. 0) = {{}}
    OBVIOUS
  <2>2. Folds([t \in SUBSET (1 .. 0) |-> Base], a, s, 0)
    BY <2>1 DEF Folds
  <2>. QED  BY <2>2
<1>2. ASSUME NEW k \in Nat, k \in S
      PROVE  k + 1 \in S
  <2>1. PICK f : Folds(f, a, s, k)
    BY <1>2
  <2>. DEFINE g == [t \in SUBSET (1 .. k + 1) |->
                      IF k + 1 \in t THEN Op(a, f[t \ {k + 1}], s[k + 1]) ELSE f[t]]
  <2>2. ASSUME NEW t \in SUBSET (1 .. k + 1)
        PROVE  g[t] = IF t = {} THEN Base ELSE Op(a, g[t \ {Max(t)}], s[Max(t)])
    <3>1. CASE k + 1 \in t
      <4>1. Max(t) = k + 1 /\ t \ {k + 1} \in SUBSET (1 .. k + 1) /\ k + 1 \notin t \ {k + 1}
        BY <3>1, MaxIs
      <4>2. g[t] = Op(a, f[t \ {k + 1}], s[k + 1])
        BY <3>1
      <4>3. g[t \ {k + 1}] = f[t \ {k + 1}]
        BY <4>1
      <4>. HIDE DEF g
      <4>. QED  BY <3>1, <4>1, <4>2, <4>3
    <3>2. CASE k + 1 \notin t
      <4>1. t \in SUBSET (1 .. k) /\ g[t] = f[t]
        BY <3>2
      <4>2. f[t] = IF t = {} THEN Base ELSE Op(a, f[t \ {Max(t)}], s[Max(t)])
        BY <2>1, <4>1 DEF Folds
      <4>3. \A m : t \ {m} \in SUBSET (1 .. k + 1) /\ k + 1 \notin t \ {m}
        BY <3>2
      <4>4. g[t \ {Max(t)}] = f[t \ {Max(t)}]
        BY <4>3
      <4>. HIDE DEF g
      <4>. QED  BY <4>1, <4>2, <4>4
    <3>. QED  BY <3>1, <3>2
  <2>3. g = [t \in SUBSET (1 .. k + 1) |-> g[t]]
    OBVIOUS
  <2>. HIDE DEF g
  <2>4. Folds(g, a, s, k + 1)
    BY <2>2, <2>3 DEF Folds
  <2>. QED  BY <2>4
<1>. HIDE DEF S
<1>3. Nat \subseteq S
  BY <1>1, <1>2, InductionOnSet
<1>. QED  BY <1>3 DEF S

LEMMA FoldsStep ==
    ASSUME NEW a, NEW s, NEW n \in Nat, NEW f, Folds(f, a, s, n), NEW k \in 1 .. n
    PROVE  f[1 .. k] = Op(a, f[1 .. k - 1], s[k])
<1>. DEFINE t == 1 .. k
<1>1. t \in SUBSET (1 .. n) /\ t # {} /\ k \in t
  OBVIOUS
<1>2. Max(t) = k
  <2>1. k - 1 \in Nat /\ (k - 1) + 1 = k
    OBVIOUS
  <2>2. t \in SUBSET (1 .. (k - 1) + 1)
    BY <2>1
  <2>. HIDE DEF t
  <2>. QED  BY <1>1, <2>1, <2>2, MaxIs
<1>3. t \ {k} = 1 .. k - 1
  <2>1. k \in Nat /\ k >= 1
    OBVIOUS
  <2>2. \A i : i \in t \ {k} <=> i \in 1 .. k - 1
    BY <2>1
  <2>. QED  BY <2>2
<1>4. f[t] = IF t = {} THEN Base ELSE Op(a, f[t \ {Max(t)}], s[Max(t)])
  BY <1>1 DEF Folds
<1>. HIDE DEF t
<1>. QED  BY <1>1, <1>2, <1>3, <1>4 DEF t
-----------------------------------------------------------------------------
(* A fold is the last of the values that the elements lead to one by one. *)

Iterates(g, a, s, n) ==
    /\ g[0] = Base
    /\ \A k \in 1 .. n : g[k] = Op(a, g[k - 1], s[k])

LEMMA FoldIsIterated ==
    ASSUME NEW a, NEW X, NEW s \in Seq(X)
    PROVE  \E g : Iterates(g, a, s, Len(s)) /\ Fold(a, s) = g[Len(s)]
<1>1. DOMAIN s = 1 .. Len(s) /\ Len(s) \in Nat
  OBVIOUS
<1>2. PICK f : f = (CHOOSE h : Folds(h, a, s, Len(s)))
  OBVIOUS
<1>3. Folds(f, a, s, Len(s)) /\ Fold(a, s) = f[1 .. Len(s)]
  BY <1>1, <1>2, FoldExists, FoldIsChosen
<1>. DEFINE g == [k \in 0 .. Len(s) |-> f[1 .. k]]
<1>4. f[{}] = Base
  <2>1. {} \in SUBSET (1 .. Len(s))
    OBVIOUS
  <2>. QED  BY <1>3, <2>1 DEF Folds
<1>5. g[0] = Base /\ g[Len(s)] = Fold(a, s)
  <2>1. 1 .. 0 = {}
    OBVIOUS
  <2>. QED  BY <1>1, <1>3, <1>4, <2>1
<1>6. \A k \in 1 .. Len(s) : g[k] = Op(a, g[k - 1], s[k])
  <2>. TAKE k \in 1 .. Len(s)
  <2>1. f[1 .. k] = Op(a, f[1 .. k - 1], s[k])
    BY <1>1, <1>3, FoldsStep
  <2>2. g[k] = f[1 .. k] /\ g[k - 1] = f[1 .. k - 1]
    BY <1>1
  <2>. HIDE DEF g
  <2>. QED  BY <2>1, <2>2
<1>. HIDE DEF g
<1>. QED  BY <1>5, <1>6 DEF Iterates

\* Two iterations over one beginning are the same there.
LEMMA IterationIsUnique ==
    ASSUME NEW a, NEW n \in Nat, NEW s, NEW t, \A k \in 1 .. n : s[k] = t[k],
           NEW g, NEW h, Iterates(g, a, s, n), Iterates(h, a, t, n)
    PROVE  g[n] = h[n]
<1>. DEFINE S == {k \in 0 .. n : g[k] = h[k]}
<1>1. 0 \in S
  BY DEF Iterates
<1>2. \A k \in 0 .. n - 1 : k \in S => k + 1 \in S
  <2>. SUFFICES ASSUME NEW k \in 0 .. n - 1, g[k] = h[k]
                PROVE  g[k + 1] = h[k + 1]
    OBVIOUS
  <2>1. k + 1 \in 1 .. n /\ (k + 1) - 1 = k
    OBVIOUS
  <2>2. g[k + 1] = Op(a, g[k], s[k + 1]) /\ h[k + 1] = Op(a, h[k], t[k + 1])
    BY <2>1 DEF Iterates
  <2>. QED  BY <2>1, <2>2
<1>. HIDE DEF S
<1>3. n \in S
  BY <1>1, <1>2, InductionUpTo
<1>. QED  BY <1>3 DEF S

LEMMA FoldOfNone ==
    ASSUME NEW a
    PROVE  Fold(a, <<>>) = Base
<1>1. <<>> \in Seq({}) /\ Len(<<>>) = 0
  OBVIOUS
<1>2. PICK g : Iterates(g, a, <<>>, 0) /\ Fold(a, <<>>) = g[0]
  BY <1>1, FoldIsIterated
<1>. QED  BY <1>2 DEF Iterates

LEMMA FoldOfAppend ==
    ASSUME NEW a, NEW X, NEW s \in Seq(X), NEW m
    PROVE  Fold(a, Append(s, m)) = Op(a, Fold(a, s), m)
<1>. DEFINE Y == X \cup {m}
            t == Append(s, m)
<1>1. s \in Seq(Y) /\ t \in Seq(Y) /\ Len(s) \in Nat /\ Len(t) = Len(s) + 1
      /\ t[Len(s) + 1] = m /\ \A k \in 1 .. Len(s) : t[k] = s[k]
  OBVIOUS
<1>. HIDE DEF Y, t
<1>2. PICK g : Iterates(g, a, s, Len(s)) /\ Fold(a, s) = g[Len(s)]
  BY <1>1, FoldIsIterated
<1>3. PICK h : Iterates(h, a, t, Len(t)) /\ Fold(a, t) = h[Len(t)]
  BY <1>1, FoldIsIterated
<1>4. PICK n \in Nat : n = Len(s)
  BY <1>1
<1>5. n + 1 \in 1 .. n + 1 /\ (n + 1) - 1 = n /\ 1 .. n \subseteq 1 .. n + 1
  OBVIOUS
<1>6. h[n + 1] = Op(a, h[n], m) /\ Iterates(h, a, t, n)
  BY <1>1, <1>3, <1>4, <1>5 DEF Iterates
<1>7. g[n] = h[n]
  BY <1>1, <1>2, <1>4, <1>6, IterationIsUnique
<1>8. Fold(a, t) = Op(a, Fold(a, s), m)
  BY <1>1, <1>2, <1>3, <1>4, <1>6, <1>7
<1>. QED  BY <1>8 DEF t
=============================================================================
