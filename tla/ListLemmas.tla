---------------------------- MODULE ListLemmas ----------------------------
(***************************************************************************)
(* Facts about the lists the managers keep (std::list as a sequence, front *)
(* first), used by the proofs of their modules.                            *)
(***************************************************************************)
EXTENDS Integers, SequencesExt, SequenceTheorems, WellFoundedInduction, TLAPS

(***************************************************************************)
(* A non-empty set of naturals has a minimum.                              *)
(***************************************************************************)
LEMMA MinExists ==
  ASSUME NEW T \in SUBSET Nat, T # {}
  PROVE  Min(T) \in T /\ \A y \in T : Min(T) <= y
<1> DEFINE less == {ss \in Nat \X Nat : ss[1] < ss[2]}
<1>1. IsWellFoundedOn(less, Nat)
  BY NatLessThanWellFounded, Zenon DEF OpToRel
<1>2. PICK x \in T : \A y \in T : ~ (<<y, x>> \in less)
  <2> HIDE DEF less
  <2> QED BY <1>1, WFMin
<1>3. ASSUME NEW y \in T PROVE x <= y
  <2>1. x \in Nat /\ y \in Nat
    OBVIOUS
  <2>2. <<y, x>> \in Nat \X Nat /\ <<y, x>> \notin less
    BY <1>2, <2>1
  <2>3. ~ (y < x)
    BY <2>2
  <2> QED BY <2>1, <2>3
<1> QED BY <1>3 DEF Min

(***************************************************************************)
(* An entry put at the front.                                              *)
(***************************************************************************)
LEMMA ConsList ==
  ASSUME NEW S, NEW q \in Seq(S), NEW e \in S
  PROVE  /\ Cons(e, q) \in Seq(S)
         /\ Len(Cons(e, q)) = Len(q) + 1
         /\ Cons(e, q)[1] = e
         /\ \A k \in 1 .. Len(q) : Cons(e, q)[k + 1] = q[k]
<1>1. <<e>> \in Seq(S) /\ Len(<<e>>) = 1 /\ <<e>>[1] = e
  OBVIOUS
<1>2. Len(q) \in Nat
  BY LenProperties
<1> QED BY <1>1, <1>2, ConcatProperties DEF Cons

(***************************************************************************)
(* An entry erased.                                                        *)
(***************************************************************************)
LEMMA RemoveAtList ==
  ASSUME NEW S, NEW q \in Seq(S), NEW k \in 1 .. Len(q)
  PROVE  /\ RemoveAt(q, k) \in Seq(S)
         /\ Len(RemoveAt(q, k)) = Len(q) - 1
         /\ \A j \in 1 .. k - 1 : RemoveAt(q, k)[j] = q[j]
         /\ \A j \in k .. Len(q) - 1 : RemoveAt(q, k)[j] = q[j + 1]
<1> DEFINE left  == SubSeq(q, 1, k - 1)
           right == SubSeq(q, k + 1, Len(q))
<1>1. Len(q) \in Nat /\ k \in Nat /\ \A j \in 1 .. Len(q) : q[j] \in S
  BY LenProperties, ElementOfSeq
<1>2. /\ left \in Seq(S) /\ Len(left) = k - 1
      /\ \A j \in 1 .. k - 1 : left[j] = q[j]
  <2>1. \A j \in 1 .. k - 1 : q[j] \in S
    BY <1>1
  <2> QED BY <1>1, <2>1, SubSeqProperties
<1>3. /\ right \in Seq(S) /\ Len(right) = Len(q) - k
      /\ \A j \in 1 .. Len(q) - k : right[j] = q[k + j]
  <2>1. \A j \in k + 1 .. Len(q) : q[j] \in S
    BY <1>1
  <2>2. /\ right \in Seq(S)
        /\ Len(right) = IF k + 1 <= Len(q) THEN Len(q) - (k + 1) + 1 ELSE 0
        /\ \A j \in 1 .. Len(q) - (k + 1) + 1 : right[j] = q[k + 1 + j - 1]
    <3> HIDE DEF left
    <3> QED BY <1>1, <2>1, SubSeqProperties
  <2> HIDE DEF right
  <2> QED BY <1>1, <2>2
<1>4. RemoveAt(q, k) = left \o right
  BY DEF RemoveAt
<1> HIDE DEF left, right
<1>5. /\ left \o right \in Seq(S)
      /\ Len(left \o right) = Len(left) + Len(right)
      /\ \A j \in 1 .. Len(left) + Len(right) : (left \o right)[j] =
           IF j <= Len(left) THEN left[j] ELSE right[j - Len(left)]
  BY <1>2, <1>3, ConcatProperties
<1>6. ASSUME NEW j \in k .. Len(q) - 1
      PROVE  (left \o right)[j] = q[j + 1]
  <2>1. j - (k - 1) \in 1 .. Len(q) - k /\ ~ (j <= k - 1)
    BY <1>1
  <2> QED BY <1>1, <1>2, <1>3, <1>5, <2>1
<1> QED BY <1>1, <1>2, <1>3, <1>4, <1>5, <1>6

(***************************************************************************)
(* The back of a list, and the list without it.                            *)
(***************************************************************************)
LEMMA FrontList ==
  ASSUME NEW S, NEW q \in Seq(S), q # <<>>
  PROVE  /\ Len(q) \in Nat \ {0}
         /\ Last(q) \in S /\ Last(q) = q[Len(q)]
         /\ Front(q) \in Seq(S)
         /\ Len(Front(q)) = Len(q) - 1
         /\ \A k \in 1 .. Len(q) - 1 : Front(q)[k] = q[k]
<1>1. Len(q) \in Nat /\ Len(q) # 0 /\ \A j \in 1 .. Len(q) : q[j] \in S
  BY EmptySeq, LenProperties, ElementOfSeq
<1> DEFINE n == Len(q) - 1
<1>2. n \in Nat /\ n = Len(q) - 1 /\ \A j \in 1 .. n : q[j] \in S
  BY <1>1
<1> HIDE DEF n
<1>3. /\ SubSeq(q, 1, n) \in Seq(S)
      /\ Len(SubSeq(q, 1, n)) = n
      /\ \A k \in 1 .. n : SubSeq(q, 1, n)[k] = q[k]
  BY <1>1, <1>2, SubSeqProperties
<1> QED BY <1>1, <1>2, <1>3 DEF Front, Last

============================================================================
