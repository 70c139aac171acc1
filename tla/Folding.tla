------------------------------- MODULE Folding -------------------------------
(***************************************************************************)
(* What FoldLeft computes, for any operator: the loops of the code over    *)
(* candles and over filters are folds, and a proof about one goes from     *)
(* turn to turn.  A module that needs these facts takes an INSTANCE with   *)
(* its operator; the proofs here are by induction over the natural         *)
(* numbers, from the least counterexample.                                 *)
(***************************************************************************)
EXTENDS SequencesExt, WellFoundedInduction, SequenceTheorems, TLAPS

CONSTANTS Base, Op(_, _)

-----------------------------------------------------------------------------
Less == {p \in Nat \X Nat : p[1] < p[2]}

(* The natural numbers are well-founded.                                   *)
LEMMA LessIsWellFounded == IsWellFoundedOn(Less, Nat)
  BY NatLessThanWellFounded DEF Less, OpToRel

(* A non-empty set of natural numbers has a least one.                     *)
LEMMA LeastNumber ==
    ASSUME NEW T, T \subseteq Nat, T # {}
    PROVE  \E x \in T : \A y \in T : x <= y
  <1>1. PICK x \in T : \A y \in T : <<y, x>> \notin Less
    BY LessIsWellFounded, WFMin, Zenon
  <1>2. ASSUME NEW y \in T PROVE x <= y
    <2>1. x \in Nat /\ y \in Nat
      OBVIOUS
    <2>2. <<y, x>> \in Less <=> y < x
      BY <2>1 DEF Less
    <2>3. QED
      BY <1>1, <2>1, <2>2
  <1>3. QED
    BY <1>2, Zenon

(* Induction: a set that holds zero and the successor of each of its       *)
(* elements holds every natural number.                                    *)
THEOREM Induction ==
    ASSUME NEW T \in SUBSET Nat, 0 \in T, \A n \in T : n + 1 \in T
    PROVE  T = Nat
  <1> SUFFICES ASSUME T # Nat PROVE FALSE
    OBVIOUS
  <1>1. PICK x \in Nat \ T : \A y \in Nat \ T : x <= y
    <2>1. Nat \ T # {}
      OBVIOUS
    <2>2. QED
      BY <2>1, LeastNumber
  <1>2. x # 0 /\ x - 1 \in Nat
    OBVIOUS
  <1>3. x - 1 \in T
    BY <1>1, <1>2
  <1>4. QED
    BY <1>3

-----------------------------------------------------------------------------
(* The function FoldLeft recurs with, over the subsets of the places 1..n. *)
IsIterator(g, s, n) ==
    g = [x \in SUBSET (1 .. n) |->
            IF x = {} THEN Base ELSE Op(g[x \ {Max(x)}], s[Max(x)])]

(* A last place is the greatest of those it closes.                        *)
LEMMA LastIsMax ==
    ASSUME NEW n \in Nat, NEW x \in SUBSET (1 .. n), n \in x
    PROVE  Max(x) = n
  <1>1. \A y \in x : y \in Int /\ y <= n
    OBVIOUS
  <1>2. \A m \in x : (\A y \in x : m >= y) => m = n
    BY <1>1
  <1>3. n \in x /\ \A y \in x : n >= y
    BY <1>1
  <1>4. Max(x) \in x /\ \A y \in x : Max(x) >= y
    BY <1>3 DEF Max
  <1>5. QED
    BY <1>2, <1>4

(* A recursion over n places extends to one over n + 1.                    *)
LEMMA IteratorExtends ==
    ASSUME NEW s, NEW n \in Nat, NEW g, IsIterator(g, s, n)
    PROVE  \E h : IsIterator(h, s, n + 1)
  <1> DEFINE h == [x \in SUBSET (1 .. n + 1) |->
                      IF n + 1 \in x THEN Op(g[x \ {n + 1}], s[n + 1]) ELSE g[x]]
  <1>1. ASSUME NEW x \in SUBSET (1 .. n + 1)
        PROVE  h[x] = IF x = {} THEN Base ELSE Op(h[x \ {Max(x)}], s[Max(x)])
    <2>1. CASE n + 1 \in x
      <3>1. Max(x) = n + 1
        BY <2>1, LastIsMax, n + 1 \in Nat
      <3>2. x \ {n + 1} \in SUBSET (1 .. n + 1) /\ n + 1 \notin x \ {n + 1}
        OBVIOUS
      <3>3. h[x \ {n + 1}] = g[x \ {n + 1}]
        BY <3>2
      <3>4. h[x] = Op(g[x \ {n + 1}], s[n + 1])
        BY <2>1
      <3>5. QED
        BY <2>1, <3>1, <3>3, <3>4
    <2>2. CASE n + 1 \notin x
      <3>1. x \in SUBSET (1 .. n) /\ h[x] = g[x]
        BY <2>2
      <3>2. x \ {Max(x)} \in SUBSET (1 .. n + 1) /\ n + 1 \notin x \ {Max(x)}
        BY <2>2
      <3>3. h[x \ {Max(x)}] = g[x \ {Max(x)}]
        BY <3>2
      <3>4. g[x] = IF x = {} THEN Base ELSE Op(g[x \ {Max(x)}], s[Max(x)])
        BY <3>1 DEF IsIterator
      <3>5. QED
        BY <3>1, <3>3, <3>4
    <2>3. QED
      BY <2>1, <2>2
  <1>2. h = [x \in SUBSET (1 .. n + 1) |-> h[x]]
    OBVIOUS
  <1> HIDE DEF h
  <1>3. h = [x \in SUBSET (1 .. n + 1) |->
                IF x = {} THEN Base ELSE Op(h[x \ {Max(x)}], s[Max(x)])]
    BY <1>1, <1>2
  <1>4. QED
    BY <1>3 DEF IsIterator

(* The recursion is defined, however many places there are.                *)
LEMMA IteratorExists ==
    ASSUME NEW s, NEW n \in Nat
    PROVE  \E g : IsIterator(g, s, n)
  <1> DEFINE T == {m \in Nat : \E g : IsIterator(g, s, m)}
  <1>1. 0 \in T
    <2> DEFINE g == [x \in SUBSET (1 .. 0) |-> Base]
    <2>1. \A x \in SUBSET (1 .. 0) : x = {}
      OBVIOUS
    <2>2. IsIterator(g, s, 0)
      BY <2>1 DEF IsIterator
    <2>3. QED
      BY <2>2
  <1>2. ASSUME NEW m \in T PROVE m + 1 \in T
    BY IteratorExtends
  <1>3. T = Nat
    <2>1. T \in SUBSET Nat
      OBVIOUS
    <2> HIDE DEF T
    <2>2. QED
      BY <1>1, <1>2, <2>1, Induction
  <1>4. QED
    BY <1>3

-----------------------------------------------------------------------------
(* The values of the loop after each of its turns.                         *)
IsChain(f, s) ==
    /\ f[0] = Base
    /\ \A k \in 1 .. Len(s) : f[k] = Op(f[k - 1], s[k])

(* A fold is where the loop ends.                                          *)
LEMMA FoldIsChain ==
    ASSUME NEW S, NEW s \in Seq(S)
    PROVE  \E f : IsChain(f, s) /\ FoldLeft(Op, Base, s) = f[Len(s)]
  <1>1. PICK n \in Nat : n = Len(s) /\ DOMAIN s = 1 .. n
    OBVIOUS
  <1> DEFINE g == CHOOSE g : IsIterator(g, s, n)
             f == [k \in 0 .. n |-> g[1 .. k]]
  <1>2. IsIterator(g, s, n)
    BY IteratorExists
  <1>3. FoldLeft(Op, Base, s) = g[1 .. n]
    BY <1>1, Zenon DEF FoldLeft, MapThenFoldSet, IsIterator
  <1> HIDE DEF g
  <1>4. f[0] = Base
    <2>1. 1 .. 0 = {} /\ {} \in SUBSET (1 .. n) /\ 0 \in 0 .. n
      OBVIOUS
    <2>2. g[{}] = Base
      BY <1>2, <2>1 DEF IsIterator
    <2>3. QED
      BY <2>1, <2>2
  <1>5. ASSUME NEW k \in 1 .. n PROVE f[k] = Op(f[k - 1], s[k])
    <2>1. 1 .. k \in SUBSET (1 .. n) /\ k \in 1 .. k
      OBVIOUS
    <2>2. (1 .. k) \ {k} = 1 .. k - 1
      OBVIOUS
    <2>3. Max(1 .. k) = k
      BY <2>1, LastIsMax, k \in Nat
    <2>4. g[1 .. k] = Op(g[1 .. k - 1], s[k])
      BY <1>2, <2>1, <2>2, <2>3 DEF IsIterator
    <2>5. k - 1 \in 0 .. n /\ k \in 0 .. n
      OBVIOUS
    <2>6. QED
      BY <2>4, <2>5
  <1>6. f[n] = g[1 .. n]
    OBVIOUS
  <1> HIDE DEF f
  <1>7. QED
    BY <1>1, <1>3, <1>4, <1>5, <1>6 DEF IsChain

(* Two loops over the same beginning are at the same point after it.       *)
LEMMA ChainsAgree ==
    ASSUME NEW s, NEW t, NEW f, NEW h, IsChain(f, s), IsChain(h, t),
           Len(s) \in Nat, Len(t) \in Nat,
           NEW n \in Nat, n <= Len(s), n <= Len(t),
           \A i \in 1 .. n : s[i] = t[i]
    PROVE  f[n] = h[n]
  <1> DEFINE T == {m \in Nat : m <= n => f[m] = h[m]}
  <1>1. 0 \in T
    BY DEF IsChain
  <1>2. ASSUME NEW m \in T PROVE m + 1 \in T
    <2> SUFFICES ASSUME m + 1 <= n PROVE f[m + 1] = h[m + 1]
      OBVIOUS
    <2>1. f[m] = h[m] /\ (m + 1) - 1 = m
      OBVIOUS
    <2>2. m + 1 \in 1 .. n /\ m + 1 \in 1 .. Len(s) /\ m + 1 \in 1 .. Len(t)
      OBVIOUS
    <2>3. f[m + 1] = Op(f[m], s[m + 1]) /\ h[m + 1] = Op(h[m], t[m + 1])
      BY <2>1, <2>2 DEF IsChain
    <2>4. QED
      BY <2>1, <2>2, <2>3
  <1>3. T = Nat
    <2>1. T \in SUBSET Nat
      OBVIOUS
    <2> HIDE DEF T
    <2>2. QED
      BY <1>1, <1>2, <2>1, Induction
  <1>4. QED
    BY <1>3

(* No turn at all.                                                         *)
THEOREM FoldOfEmpty == FoldLeft(Op, Base, <<>>) = Base
  <1>1. PICK f : IsChain(f, <<>>) /\ FoldLeft(Op, Base, <<>>) = f[Len(<<>>)]
    BY FoldIsChain, <<>> \in Seq({})
  <1>2. QED
    BY <1>1 DEF IsChain

(* One turn more.                                                          *)
THEOREM FoldOfAppend ==
    ASSUME NEW S, NEW s \in Seq(S), NEW e \in S
    PROVE  FoldLeft(Op, Base, Append(s, e)) = Op(FoldLeft(Op, Base, s), e)
  <1>1. PICK n \in Nat : n = Len(s)
    OBVIOUS
  <1>2. PICK t \in Seq(S) : t = Append(s, e)
    BY AppendProperties, Append(s, e) \in Seq(S)
  <1>3. Len(t) = n + 1 /\ t[n + 1] = e /\ \A i \in 1 .. n : s[i] = t[i]
    BY <1>1, <1>2
  <1>4. PICK f : IsChain(f, s) /\ FoldLeft(Op, Base, s) = f[n]
    BY <1>1, FoldIsChain
  <1>5. PICK h : IsChain(h, t) /\ FoldLeft(Op, Base, t) = h[n + 1]
    BY <1>3, FoldIsChain
  <1>6. f[n] = h[n]
    BY <1>1, <1>3, <1>4, <1>5, ChainsAgree
  <1>7. h[n + 1] = Op(h[n], e)
    BY <1>3, <1>5, n + 1 \in 1 .. n + 1, (n + 1) - 1 = n DEF IsChain
  <1>8. QED
    BY <1>2, <1>4, <1>5, <1>6, <1>7
=============================================================================
