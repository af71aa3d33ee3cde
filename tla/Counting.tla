------------------------------ MODULE Counting ------------------------------
(***************************************************************************)
(* Counting the steps a verification script has left.                      *)
(*                                                                         *)
(* A script goes through stages, and repeats probes within one.  With      *)
(* `stage' the stages that lie ahead of it, `within' the most steps it can *)
(* still take in the present one and `width' more than it can ever take in *)
(* one, the pair is ordered first by stage, then by what is left within:   *)
(* Left gives it as one number.                                            *)
(***************************************************************************)
EXTENDS Integers, TLAPS

Left(stage, width, within) == stage * width + within

LEMMA LeftType ==
  ASSUME NEW s \in Nat, NEW w \in Nat, NEW b \in Nat
  PROVE  Left(s, w, b) \in Nat
<1>1. s * w \in Nat
  OBVIOUS
<1> QED BY <1>1 DEF Left

\* What is left is a number, and is at most that of the last place of the
\* highest stage.
LEMMA LeftBounds ==
  ASSUME NEW w \in Nat, NEW top \in Nat, NEW s \in 0..top, NEW b \in 0..w
  PROVE  Left(s, w, b) \in 0..Left(top, w, w)
<1>1. s * w \in Nat /\ (top - s) * w \in Nat
  OBVIOUS
<1>2. top * w = s * w + (top - s) * w
  OBVIOUS
<1> QED BY <1>1, <1>2 DEF Left

\* Nothing is left only past the last stage.
LEMMA LeftIsNone ==
  ASSUME NEW w \in Nat \ {0}, NEW s \in Nat, NEW b \in Nat
  PROVE  Left(s, w, b) = 0 <=> s = 0 /\ b = 0
<1>1. CASE s = 0
  BY <1>1 DEF Left
<1>2. CASE s # 0
  <2>1. s * w = w + (s - 1) * w /\ (s - 1) * w \in Nat
    <3>1. s - 1 \in Nat
      BY <1>2
    <3> QED BY <3>1
  <2> QED BY <1>2, <2>1 DEF Left
<1> QED BY <1>1, <1>2

\* Leaving a stage for a later one, or coming closer to its end, leaves less.
LEMMA LeftFalls ==
  ASSUME NEW w \in Nat, NEW s \in Nat, NEW t \in Nat,
         NEW a \in 0..w, NEW b \in 0..w,
         \/ t < s /\ b < w
         \/ t = s /\ b < a
  PROVE  Left(t, w, b) < Left(s, w, a)
<1>1. CASE t = s /\ b < a
  <2>1. s * w \in Nat
    OBVIOUS
  <2> QED BY <1>1, <2>1 DEF Left
<1>2. CASE t < s /\ b < w
  <2>1. PICK d \in Nat : s = t + 1 + d
    <3>1. s - t - 1 \in Nat /\ s = t + 1 + (s - t - 1)
      BY <1>2
    <3> QED BY <3>1
  <2>2. t * w \in Nat /\ d * w \in Nat
    OBVIOUS
  <2>3. s * w = t * w + w + d * w
    BY <2>1
  <2> QED BY <1>2, <2>2, <2>3 DEF Left
<1> QED BY <1>1, <1>2
=============================================================================
