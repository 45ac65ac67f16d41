------------------------------ MODULE FoldProofs ------------------------------
(***************************************************************************)
(* What FoldLeft leaves, by induction on the number of elements folded.    *)
(*                                                                         *)
(* No backend instantiates a fact that has an operator among its           *)
(* parameters, so the operator that is folded and the invariant of the     *)
(* fold are constants of this module, and a module of proofs instantiates  *)
(* it for every operator it folds with.                                    *)
(***************************************************************************)
EXTENDS Integers, SequencesExt, WellFoundedInduction, TLAPS

CONSTANTS
    Op(_, _, _),     \* context, what was folded so far, next element
    Inv(_, _, _, _)  \* context, the elements, how many were folded, what they gave

Fold(c, base, seq) == FoldLeft(LAMBDA a, b : Op(c, a, b), base, seq)

(* The fold of the elements up to n is a function on the sets of their places. *)
Steps(c, base, seq, n, g) ==
    g = [s \in SUBSET (1 .. n) |->
            IF s = {} THEN base
            ELSE LET x == Max(s) IN Op(c, g[s \ {x}], seq[x])]

Lt == OpToRel(<, Nat)

(* The least natural number in a set that has one. *)
LEMMA LeastNat ==
    ASSUME NEW T, T \subseteq Nat, T # {}
    PROVE  \E k \in T : \A m \in T : k <= m
<1>1. PICK k \in T : \A m \in T : <<m, k>> \notin Lt
  BY NatLessThanWellFounded, WFMin DEF Lt
<1>2. \A m \in T : ~(m < k)
  BY <1>1 DEF Lt, OpToRel
<1> QED BY <1>1, <1>2

LEMMA MaxOf ==
    ASSUME NEW n \in Nat, NEW s \in SUBSET (1 .. n), n \in s
    PROVE  Max(s) = n
<1>1. \A y \in s : n >= y
  OBVIOUS
<1>2. \A x \in s : (\A y \in s : x >= y) => x = n
  OBVIOUS
<1> QED BY <1>1, <1>2 DEF Max

(* There is such a function, whatever is folded. *)
LEMMA StepsExist ==
    ASSUME NEW c, NEW base, NEW seq, NEW n \in Nat
    PROVE  \E g : Steps(c, base, seq, n, g)
<1> DEFINE Bad == {m \in Nat : ~\E g : Steps(c, base, seq, m, g)}
<1>1. SUFFICES ASSUME Bad # {} PROVE FALSE
  OBVIOUS
<1>2. PICK k \in Bad : \A m \in Bad : k <= m
  BY <1>1, LeastNat
<1>3. k # 0
  <2>1. SUBSET (1 .. 0) = {{}}
    OBVIOUS
  <2>2. Steps(c, base, seq, 0, [s \in SUBSET (1 .. 0) |-> base])
    BY <2>1 DEF Steps
  <2> QED BY <2>2
<1>4. k - 1 \in Nat /\ k - 1 \notin Bad
  BY <1>2, <1>3
<1>5. PICK g : Steps(c, base, seq, k - 1, g)
  BY <1>4
<1> DEFINE h == [s \in SUBSET (1 .. k) |->
                    IF k \in s THEN Op(c, g[s \ {k}], seq[k]) ELSE g[s]]
<1>6. ASSUME NEW s \in SUBSET (1 .. k)
      PROVE  h[s] = IF s = {} THEN base
                    ELSE LET x == Max(s) IN Op(c, h[s \ {x}], seq[x])
  <2>1. CASE k \in s
    <3>1. Max(s) = k
      BY <2>1, MaxOf
    <3>2. h[s \ {k}] = g[s \ {k}]
      OBVIOUS
    <3> QED BY <2>1, <3>1, <3>2
  <2>2. CASE k \notin s
    <3>1. s \in SUBSET (1 .. k - 1)
      BY <2>2
    <3>2. h[s] = g[s]
      BY <2>2
    <3>3. g[s] = IF s = {} THEN base
                 ELSE LET x == Max(s) IN Op(c, g[s \ {x}], seq[x])
      BY <1>5, <3>1 DEF Steps
    <3>4. h[s \ {Max(s)}] = g[s \ {Max(s)}]
      BY <2>2
    <3> QED BY <3>2, <3>3, <3>4
  <2> QED BY <2>1, <2>2
<1>7. Steps(c, base, seq, k, h)
  BY <1>6 DEF Steps
<1> QED BY <1>2, <1>7

(* Fold is that function of all the places. *)
LEMMA FoldIs ==
    ASSUME NEW c, NEW base, NEW seq, NEW n \in Nat, DOMAIN seq = 1 .. n
    PROVE  \E g : /\ Steps(c, base, seq, n, g)
                  /\ Fold(c, base, seq) = g[1 .. n]
<1> DEFINE g == CHOOSE f : Steps(c, base, seq, n, f)
<1>1. Steps(c, base, seq, n, g)
  BY StepsExist
<1>2. Fold(c, base, seq) = g[1 .. n]
  BY DEF Fold, FoldLeft, MapThenFoldSet, Steps
<1> HIDE DEF g
<1> QED BY <1>1, <1>2

(* One more element folded. *)
LEMMA StepAt ==
    ASSUME NEW c, NEW base, NEW seq, NEW n \in Nat, NEW g, Steps(c, base, seq, n, g),
           NEW k \in 1 .. n
    PROVE  g[1 .. k] = Op(c, g[1 .. k - 1], seq[k])
<1>1. 1 .. k \in SUBSET (1 .. n) /\ 1 .. k # {} /\ (1 .. k) \ {k} = 1 .. k - 1
  BY SMTT(60)
<1>2. Max(1 .. k) = k
  <2>1. k \in 1 .. k
    OBVIOUS
  <2> QED BY <1>1, <2>1, MaxOf
<1>3. \A t \in SUBSET (1 .. n) : t # {} => g[t] = Op(c, g[t \ {Max(t)}], seq[Max(t)])
  BY DEF Steps
<1>4. PICK s : s = 1 .. k
  OBVIOUS
<1>5. g[s] = Op(c, g[s \ {k}], seq[k])
  BY <1>1, <1>2, <1>3, <1>4
<1> QED BY <1>1, <1>4, <1>5

(* What the empty fold has and every step keeps, the whole fold has. *)
LEMMA FoldInvariant ==
    ASSUME NEW c, NEW base, NEW seq, NEW n \in Nat, DOMAIN seq = 1 .. n,
           Inv(c, seq, 0, base),
           \A k \in 1 .. n : \A acc : Inv(c, seq, k - 1, acc) => Inv(c, seq, k, Op(c, acc, seq[k]))
    PROVE  Inv(c, seq, n, Fold(c, base, seq))
<1>1. PICK g : /\ Steps(c, base, seq, n, g)
               /\ Fold(c, base, seq) = g[1 .. n]
  BY FoldIs
<1> DEFINE Bad == {m \in 0 .. n : ~Inv(c, seq, m, g[1 .. m])}
<1>2. SUFFICES ASSUME Bad # {} PROVE FALSE
  <2>1. n \notin Bad => Inv(c, seq, n, g[1 .. n])
    OBVIOUS
  <2> HIDE DEF Bad
  <2> QED BY <1>1, <2>1
<1>3. PICK k \in Bad : \A m \in Bad : k <= m
  <2>1. Bad \subseteq Nat
    OBVIOUS
  <2> HIDE DEF Bad
  <2> QED BY <1>2, <2>1, LeastNat
<1>4. k # 0
  <2>1. 1 .. 0 = {} /\ {} \in SUBSET (1 .. n)
    OBVIOUS
  <2>2. g[{}] = base
    BY <1>1, <2>1 DEF Steps
  <2> QED BY <2>1, <2>2
<1>5. Inv(c, seq, k - 1, g[1 .. k - 1])
  BY <1>3, <1>4
<1>6. g[1 .. k] = Op(c, g[1 .. k - 1], seq[k])
  <2>1. k \in 1 .. n
    BY <1>3, <1>4
  <2> QED BY <1>1, <2>1, StepAt
<1> QED BY <1>3, <1>4, <1>5, <1>6

(* Two folds over the same elements give the same when no step tells them apart. *)
THEOREM FoldAgrees ==
    ASSUME NEW c, NEW d, NEW base, NEW seq, NEW n \in Nat, DOMAIN seq = 1 .. n,
           \A k \in 1 .. n : \A acc : Op(c, acc, seq[k]) = Op(d, acc, seq[k])
    PROVE  Fold(c, base, seq) = Fold(d, base, seq)
<1>1. PICK g : Steps(c, base, seq, n, g) /\ Fold(c, base, seq) = g[1 .. n]
  BY FoldIs
<1>2. PICK h : Steps(d, base, seq, n, h) /\ Fold(d, base, seq) = h[1 .. n]
  BY FoldIs
<1> DEFINE Bad == {m \in 0 .. n : g[1 .. m] # h[1 .. m]}
<1>3. SUFFICES ASSUME Bad # {} PROVE FALSE
  <2>1. n \notin Bad => g[1 .. n] = h[1 .. n]
    OBVIOUS
  <2> HIDE DEF Bad
  <2> QED BY <1>1, <1>2, <2>1
<1>4. PICK k \in Bad : \A m \in Bad : k <= m
  <2>1. Bad \subseteq Nat
    OBVIOUS
  <2> HIDE DEF Bad
  <2> QED BY <1>3, <2>1, LeastNat
<1>5. k # 0
  <2>1. 1 .. 0 = {} /\ {} \in SUBSET (1 .. n)
    OBVIOUS
  <2>2. g[{}] = base /\ h[{}] = base
    BY <1>1, <1>2, <2>1 DEF Steps
  <2> QED BY <2>1, <2>2
<1>6. g[1 .. k - 1] = h[1 .. k - 1]
  BY <1>4, <1>5
<1>7. /\ g[1 .. k] = Op(c, g[1 .. k - 1], seq[k])
      /\ h[1 .. k] = Op(d, h[1 .. k - 1], seq[k])
  <2>1. k \in 1 .. n
    BY <1>4, <1>5
  <2> QED BY <1>1, <1>2, <2>1, StepAt
<1>8. k \in 1 .. n
  BY <1>4, <1>5
<1> QED BY <1>4, <1>6, <1>7, <1>8
=============================================================================
