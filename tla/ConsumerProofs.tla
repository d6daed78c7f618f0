--------------------------- MODULE ConsumerProofs ---------------------------
(***************************************************************************)
(* Proofs about Consumer, for any limits and any number of messages.  No   *)
(* message is passed over or returned twice because what is buffered is,   *)
(* at any time, what is stored from the offset on, in order and without a  *)
(* gap, up to the last message buffered.  The first part shows what a      *)
(* fetch brings and what trimming leaves of it; the induction in it is on  *)
(* the least counterexample.                                               *)
(*                                                                         *)
(* The last part is about MessageSets: what is read of any message set is  *)
(* what was written, up to where the set is cut off or damaged, and so a   *)
(* fetch brings what Consumer says.  A set is seen as rows of seven cells, *)
(* one for each message at its top level; cutting it keeps the first rows, *)
(* damage changes one of them, and each row gives its messages by itself.  *)
(***************************************************************************)
EXTENDS Consumer, MessageSets, FiniteSetTheorems, SequenceTheorems, WellFoundedInduction, TLAPS

(* A sequence of messages in the order of the partition.                   *)
Increasing(s) == \A i, j \in DOMAIN s : i < j => s[i] < s[j]

-----------------------------------------------------------------------------
(* A set of natural numbers that is not empty has a least element.         *)
LEMMA Least ==
    ASSUME NEW T \in SUBSET Nat, T # {}
    PROVE  \E x \in T : \A y \in T : x <= y
<1>1. PICK R : IsWellFoundedOn(R, Nat) /\ \A x, y \in Nat : y < x => <<y, x>> \in R
  <2>1. \A x, y \in Nat : y < x => <<y, x>> \in OpToRel(<, Nat)
    BY DEF OpToRel
  <2> QED
    BY <2>1, NatLessThanWellFounded, Zenon
<1>2. PICK x \in T : \A y \in T : ~(<<y, x>> \in R)
  BY <1>1, WFMin
<1>3. \A y \in T : x <= y
  <2> SUFFICES ASSUME NEW y \in T PROVE x <= y
    OBVIOUS
  <2>1. ~(<<y, x>> \in R)
    BY <1>2
  <2>2. y \in Nat /\ x \in Nat
    OBVIOUS
  <2>3. ~(y < x)
    BY <1>1, <2>1, <2>2
  <2> QED
    BY <2>2, <2>3
<1> QED
  BY <1>3

(* One that is bounded has a greatest, which SetMax is.                    *)
LEMMA SetMaxIs ==
    ASSUME NEW o \in Nat, NEW T \in SUBSET (0..o), T # {}
    PROVE  SetMax(T) \in T /\ \A y \in T : y <= SetMax(T)
<1> DEFINE D == {d \in 0..o : o - d \in T}
<1>1. D # {}
  <2>1. PICK h \in T : TRUE
    OBVIOUS
  <2>2. o - h \in D
    BY o - (o - h) = h
  <2> QED
    BY <2>2
<1>2. PICK d \in D : \A e \in D : d <= e
  <2>1. D \in SUBSET Nat
    OBVIOUS
  <2> HIDE DEF D
  <2> QED
    BY <1>1, <2>1, Least
<1>3. o - d \in T /\ \A y \in T : y <= o - d
  <2> SUFFICES ASSUME NEW y \in T PROVE y <= o - d
    OBVIOUS
  <2>1. o - y \in D
    BY o - (o - y) = y
  <2> QED
    BY <1>2, <2>1
<1>4. \E x \in T : \A y \in T : y <= x
  BY <1>3
<1> QED
  BY <1>4, Zenon DEF SetMax

(* A set of offsets has an enumeration in increasing order.                *)
LEMMA Enumerable ==
    \A k \in Nat : \A S \in SUBSET (0..(k - 1)) :
        \E s \in [1..Cardinality(S) -> S] : Increasing(s)
<1> DEFINE Enum(S) == \E s \in [1..Cardinality(S) -> S] : Increasing(s)
           T == {k \in Nat : ~ \A S \in SUBSET (0..(k - 1)) : Enum(S)}
<1> SUFFICES ASSUME T # {} PROVE FALSE
  OBVIOUS
<1>1. PICK k \in T : \A l \in T : k <= l
  BY Least
<1>2. PICK S \in SUBSET (0..(k - 1)) : ~Enum(S)
  OBVIOUS
<1>3. k # 0
  <2> SUFFICES ASSUME k = 0 PROVE FALSE
    OBVIOUS
  <2>1. S = {}
    OBVIOUS
  <2>2. Cardinality(S) = 0
    BY <2>1, FS_EmptySet
  <2> DEFINE s == [i \in 1..0 |-> i]
  <2>3. s \in [1..Cardinality(S) -> S] /\ Increasing(s)
    BY <2>1, <2>2 DEF Increasing
  <2> QED
    BY <1>2, <2>3
<1>4. k - 1 \in Nat /\ \A R \in SUBSET (0..(k - 2)) : Enum(R)
  <2>1. k \in Nat /\ k - 1 \in Nat
    BY <1>3
  <2>2. k - 1 \notin T
    <3> HIDE DEF T
    <3>1. k - 1 \in T => k <= k - 1
      BY <1>1
    <3> QED
      BY <2>1, <3>1
  <2> QED
    BY <2>1, <2>2
<1>5. k - 1 \in S
  <2> SUFFICES ASSUME k - 1 \notin S PROVE FALSE
    OBVIOUS
  <2>1. S \in SUBSET (0..(k - 2))
    BY <1>4
  <2> QED
    BY <1>2, <1>4, <2>1
<1> DEFINE R == S \ {k - 1}
<1>6. IsFiniteSet(S) /\ IsFiniteSet(R)
  <2>1. IsFiniteSet(0..(k - 1))
    BY <1>4, FS_Interval
  <2>2. S \in SUBSET (0..(k - 1)) /\ R \in SUBSET (0..(k - 1))
    OBVIOUS
  <2> QED
    BY <2>1, <2>2, FS_Subset
<1>7. Cardinality(R) \in Nat /\ Cardinality(S) = Cardinality(R) + 1
  <2>1. Cardinality(R) = Cardinality(S) - 1
    BY <1>5, <1>6, FS_RemoveElement
  <2>2. Cardinality(R) \in Nat /\ Cardinality(S) \in Nat
    BY <1>6, FS_CardinalityType
  <2> QED
    BY <2>1, <2>2
<1>8. PICK s \in [1..Cardinality(R) -> R] : Increasing(s)
  <2>1. R \in SUBSET (0..(k - 2))
    BY <1>4
  <2> QED
    BY <1>4, <2>1
<1> DEFINE n == Cardinality(R)
           t == [i \in 1..Cardinality(S) |-> IF i = n + 1 THEN k - 1 ELSE s[i]]
<1>9. \A i \in 1..n : s[i] \in Nat /\ s[i] \in S /\ s[i] < k - 1
  <2>1. \A r \in R : r \in Nat /\ r \in S /\ r < k - 1
    BY <1>4
  <2> QED
    BY <2>1
<1>10. t \in [1..Cardinality(S) -> S]
  <2>1. \A i \in 1..Cardinality(S) : i = n + 1 \/ i \in 1..n
    BY <1>7
  <2> QED
    BY <1>5, <1>9, <2>1
<1>11. Increasing(t)
  <2> SUFFICES ASSUME NEW i \in 1..Cardinality(S), NEW j \in 1..Cardinality(S), i < j
               PROVE  t[i] < t[j]
    BY <1>10 DEF Increasing
  <2>1. i \in 1..n /\ t[i] = s[i]
    BY <1>7
  <2>2. CASE j = n + 1
    BY <1>9, <2>1, <2>2
  <2>3. CASE j # n + 1
    <3>1. j \in 1..n /\ t[j] = s[j]
      BY <1>7, <2>3
    <3> QED
      BY <1>8, <2>1, <3>1 DEF Increasing
  <2> QED
    BY <2>2, <2>3
<1> QED
  BY <1>2, <1>10, <1>11

(* Ascending lists a set of offsets in increasing order, all of it.        *)
LEMMA AscendingIs ==
    ASSUME NEW S \in SUBSET Offsets
    PROVE  /\ Ascending(S) \in Seq(S)
           /\ Increasing(Ascending(S))
           /\ Range(Ascending(S)) = S
<1> DEFINE n == Cardinality(S)
           s == Ascending(S)
<1>1. MaxOffset \in Nat /\ S \in SUBSET (0..(MaxOffset - 1))
  BY ConsumerAssumption DEF Offsets
<1>2. IsFiniteSet(S) /\ n \in Nat
  <2>1. IsFiniteSet(0..(MaxOffset - 1))
    BY <1>1, FS_Interval
  <2> QED
    BY <1>1, <2>1, FS_Subset, FS_CardinalityType
<1>3. s \in [1..n -> S] /\ \A i, j \in 1..n : i < j => s[i] < s[j]
  <2>1. PICK e \in [1..n -> S] : Increasing(e)
    BY <1>1, Enumerable
  <2>2. \A i, j \in 1..n : i < j => e[i] < e[j]
    BY <2>1 DEF Increasing
  <2> QED
    BY <2>1, <2>2, Zenon DEF Ascending
<1> HIDE DEF s
<1>4. s \in Seq(S) /\ DOMAIN s = 1..n
  BY <1>2, <1>3
<1>5. Increasing(s)
  BY <1>3, <1>4 DEF Increasing
<1>6. s \in Injection(1..n, S)
  <2>1. ASSUME NEW i \in 1..n, NEW j \in 1..n, i # j PROVE s[i] # s[j]
    <3>1. s[i] \in Int /\ s[j] \in Int
      <4>1. s[i] \in S /\ s[j] \in S
        BY <1>3
      <4>2. \A m \in S : m \in Int
        BY <1>1
      <4> QED
        BY <4>1, <4>2
    <3>2. i < j \/ j < i
      BY <1>2, <2>1
    <3> QED
      BY <1>3, <3>1, <3>2
  <2> QED
    BY <1>3, <2>1 DEF Injection, IsInjective
<1>7. s \in Surjection(1..n, S)
  <2>1. Cardinality(1..n) = n
    BY <1>2, FS_Interval
  <2> QED
    BY <1>2, <1>6, <2>1, FS_Injection
<1>8. Range(s) = S
  BY <1>3, <1>4, <1>7 DEF Surjection, Range
<1> QED
  BY <1>4, <1>5, <1>8 DEF s

(* Trimmed drops what is below the offset, and nothing else.               *)
LEMMA TrimmedIs ==
    ASSUME NEW S \in SUBSET Nat, NEW s \in Seq(S), Increasing(s), NEW o \in Nat
    PROVE  /\ Trimmed(s, o) \in Seq(S)
           /\ Increasing(Trimmed(s, o))
           /\ Range(Trimmed(s, o)) = {m \in Range(s) : o <= m}
<1> DEFINE below == {i \in DOMAIN s : \A j \in 1..i : s[j] < o}
           C == {i \in 1..(Len(s) + 1) : i \notin below}
<1>1. PICK c \in C : \A d \in C : c <= d
  <2>1. Len(s) \in Nat /\ Len(s) + 1 \in C /\ C \in SUBSET Nat
    OBVIOUS
  <2> HIDE DEF C
  <2> QED
    BY <2>1, Least
<1>2. c \in 1..(Len(s) + 1) /\ c \notin below /\ \A i \in 1..(c - 1) : i \in below
  <2>1. c \in 1..(Len(s) + 1) /\ c \notin below
    OBVIOUS
  <2>2. ASSUME NEW i \in 1..(c - 1) PROVE i \in below
    <3>1. i \in 1..(Len(s) + 1) /\ ~(c <= i)
      BY <2>1
    <3>2. i \notin C
      <4> HIDE DEF C
      <4> QED
        BY <1>1, <3>1
    <3> QED
      BY <3>1, <3>2
  <2> QED
    BY <2>1, <2>2
<1>3. below = 1..(c - 1)
  <2>1. ASSUME NEW i \in below, ~(i < c) PROVE FALSE
    <3>1. i \in 1..Len(s) /\ c \in 1..i
      BY <1>2, <2>1
    <3>2. \A j \in 1..c : j \in 1..i
      BY <1>2, <3>1
    <3>3. c \in DOMAIN s /\ \A j \in 1..c : s[j] < o
      BY <1>2, <2>1, <3>1, <3>2
    <3> QED
      BY <1>2, <3>3
  <2>2. \A i \in below : i \in 1..(c - 1)
    BY <1>2, <2>1
  <2> QED
    BY <1>2, <2>2
<1>4. Cardinality(below) = c - 1
  <2>1. Cardinality(1..(c - 1)) = c - 1
    BY <1>2, FS_Interval
  <2> QED
    BY <1>3, <2>1
<1> DEFINE t == SubSeq(s, c, Len(s))
<1>5. Trimmed(s, o) = t
  <2>1. Cardinality(below) + 1 = c
    BY <1>2, <1>4
  <2> QED
    BY <2>1 DEF Trimmed
<1>6. /\ t \in Seq(S)
      /\ \A i \in DOMAIN t : /\ i \in Nat /\ c - 1 + i \in DOMAIN s
                             /\ c <= c - 1 + i /\ t[i] = s[c - 1 + i]
      /\ \A i \in DOMAIN s : c <= i => i - c + 1 \in DOMAIN t /\ t[i - c + 1] = s[i]
  BY <1>2
<1>7. \A i \in DOMAIN s : s[i] \in Nat
  <2>1. \A i \in DOMAIN s : s[i] \in S
    OBVIOUS
  <2> QED
    BY <2>1
<1>8. Increasing(t)
  <2> SUFFICES ASSUME NEW i \in DOMAIN t, NEW j \in DOMAIN t, i < j PROVE t[i] < t[j]
    BY DEF Increasing
  <2>1. c - 1 + i < c - 1 + j
    BY <1>2, <1>6
  <2> QED
    BY <1>6, <2>1 DEF Increasing
<1>9. \A i \in DOMAIN s : o <= s[i] <=> c <= i
  <2>1. ASSUME NEW i \in DOMAIN s, ~(c <= i) PROVE ~(o <= s[i])
    <3>1. i \in below
      BY <1>2, <2>1
    <3> QED
      BY <1>7, <3>1
  <2>2. ASSUME NEW i \in DOMAIN s, c <= i PROVE o <= s[i]
    <3>1. c \in DOMAIN s
      BY <1>2, <2>2
    <3>2. PICK j \in 1..c : ~(s[j] < o)
      BY <1>2, <3>1
    <3>3. j \in DOMAIN s /\ (j = i \/ j < i)
      BY <1>2, <2>2, <3>1
    <3>4. s[j] <= s[i]
      BY <1>7, <3>3 DEF Increasing
    <3> QED
      BY <1>7, <3>2, <3>3, <3>4
  <2> QED
    BY <2>1, <2>2
<1>10. Range(t) = {m \in Range(s) : o <= m}
  <2>1. ASSUME NEW i \in DOMAIN t PROVE t[i] \in Range(s) /\ o <= t[i]
    BY <1>6, <1>9 DEF Range
  <2>2. ASSUME NEW i \in DOMAIN s, o <= s[i] PROVE s[i] \in Range(t)
    BY <1>6, <1>9, <2>2 DEF Range
  <2> HIDE DEF t
  <2> QED
    BY <2>1, <2>2 DEF Range
<1> QED
  BY <1>5, <1>6, <1>8, <1>10

-----------------------------------------------------------------------------
(* The partition: batches start at 0 and up, and nothing is stored at or   *)
(* after the end.                                                          *)
Log == 0 \in heads /\ \A m \in stored : m < end

(* An offset beyond the end is still the one that the user chose.          *)
InRange == offset <= end \/ from = offset

(* Messages between the offset and the end, all that are stored up to the  *)
(* last of them.                                                           *)
NoGap(s) ==
    \A b \in Range(s) :
        /\ offset <= b /\ b < end
        /\ \A m \in stored : offset <= m /\ m <= b => m \in Range(s)

(* The buffer is in order and has no gap.  It is used through Consume      *)
(* alone, which fetches when it is empty.                                  *)
Buffer ==
    /\ mode = "batch" \/ pc = "fetch" => msgbuf = <<>>
    /\ Increasing(msgbuf)
    /\ NoGap(msgbuf)

(* What was returned lies between the start and the offset, in order.      *)
Returned == from <= offset /\ NoRepeat /\ \A m \in Range(seen) : m < offset

IInv == TypeOK /\ Log /\ InRange /\ Buffer /\ NoLoss /\ Returned

(* What fetch hands on to consume: for some cut, what is stored from the   *)
(* offset up to there, in order.                                           *)
LEMMA FetchedIs ==
    ASSUME TypeOK, Log, offset <= end,
           NEW fetched \in Fetchable(offset)
    PROVE  LET msgs == Trimmed(fetched, offset)
           IN  /\ msgs \in Seq(Offsets)
               /\ Increasing(msgs)
               /\ \E cut \in 0..end :
                     Range(msgs) = {m \in stored : offset <= m /\ m < cut}
<1> DEFINE first == SetMax({h \in heads : h <= offset})
           msgs == Trimmed(fetched, offset)
<1>1. first \in 0..offset
  <2> DEFINE H == {h \in heads : h <= offset}
  <2>1. H \in SUBSET (0..offset) /\ 0 \in H /\ offset \in Nat
    <3>1. offset \in Nat /\ 0 \in heads
      BY ConsumerAssumption DEF TypeOK, Log
    <3>2. \A h \in heads : h \in Nat
      BY ConsumerAssumption DEF TypeOK
    <3> QED
      BY <3>1, <3>2
  <2> HIDE DEF H
  <2>2. SetMax(H) \in H
    BY <2>1, SetMaxIs
  <2> QED
    BY <2>1, <2>2 DEF H
<1>2. PICK b \in {first, offset}, cut \in 0..end :
        fetched = Ascending({m \in stored : b <= m /\ m < cut})
  BY DEF Fetchable
<1> HIDE DEF first
<1> DEFINE S == {m \in stored : b <= m /\ m < cut}
<1>3. b \in Nat /\ b <= offset /\ offset \in Nat
  BY <1>1 DEF TypeOK
<1>4. S \in SUBSET Offsets /\ S \in SUBSET Nat /\ stored \in SUBSET Nat
  <2>1. stored \in SUBSET Offsets
    BY DEF TypeOK
  <2>2. Offsets \in SUBSET Nat
    BY ConsumerAssumption DEF Offsets
  <2> QED
    BY <2>1, <2>2
<1>5. fetched \in Seq(S) /\ Increasing(fetched) /\ Range(fetched) = S
  <2> HIDE DEF S
  <2>1. fetched = Ascending(S)
    BY <1>2 DEF S
  <2> QED
    BY <1>4, <2>1, AscendingIs
<1>6. /\ msgs \in Seq(S)
      /\ Increasing(msgs)
      /\ Range(msgs) = {m \in S : offset <= m}
  <2> HIDE DEF S
  <2> QED
    BY <1>3, <1>4, <1>5, TrimmedIs
<1>7. msgs \in Seq(Offsets)
  <2> HIDE DEF S, msgs
  <2>1. \A i \in 1..Len(msgs) : msgs[i] \in S
    BY <1>6
  <2>2. \A i \in 1..Len(msgs) : msgs[i] \in Offsets
    BY <1>4, <2>1
  <2> QED
    BY <1>6, <2>2
<1>8. Range(msgs) = {m \in stored : offset <= m /\ m < cut}
  <2>1. \A m \in stored : m \in Nat
    BY <1>4
  <2>2. \A m \in stored : offset <= m => b <= m
    BY <1>3, <2>1
  <2> HIDE DEF msgs
  <2> QED
    BY <1>6, <2>2
<1> HIDE DEF msgs
<1> QED
  BY <1>6, <1>7, <1>8 DEF msgs

(* The first of a sequence and the rest.                                   *)
LEMMA FirstIs ==
    ASSUME NEW S \in SUBSET Nat, NEW s \in Seq(S), s # <<>>, Increasing(s)
    PROVE  /\ Head(s) \in Range(s) /\ Head(s) \in S
           /\ \A m \in Range(s) : Head(s) <= m
           /\ Tail(s) \in Seq(S) /\ Increasing(Tail(s))
           /\ Range(Tail(s)) = {m \in Range(s) : Head(s) < m}
<1>1. /\ Head(s) = s[1] /\ 1 \in DOMAIN s /\ Tail(s) \in Seq(S)
      /\ DOMAIN s \subseteq Nat \ {0}
      /\ \A i \in DOMAIN s : s[i] \in S
      /\ \A i \in DOMAIN Tail(s) : i + 1 \in DOMAIN s /\ Tail(s)[i] = s[i + 1] /\ i \in Nat \ {0}
      /\ \A i \in DOMAIN s : i # 1 => i - 1 \in DOMAIN Tail(s) /\ Tail(s)[i - 1] = s[i]
  OBVIOUS
<1>2. \A i \in DOMAIN s : s[i] \in Nat
  BY <1>1
<1>3. \A i \in DOMAIN s : i # 1 => s[1] < s[i]
  BY <1>1 DEF Increasing
<1>4. \A m \in Range(s) : Head(s) <= m
  BY <1>1, <1>2, <1>3 DEF Range
<1> DEFINE t == Tail(s)
<1> HIDE DEF t
<1>5. Increasing(t)
  <2> SUFFICES ASSUME NEW i \in DOMAIN t, NEW j \in DOMAIN t, i < j PROVE t[i] < t[j]
    BY DEF Increasing
  <2>1. i + 1 \in DOMAIN s /\ j + 1 \in DOMAIN s /\ i + 1 < j + 1
    BY <1>1 DEF t
  <2>2. t[i] = s[i + 1] /\ t[j] = s[j + 1]
    BY <1>1 DEF t
  <2> QED
    BY <2>1, <2>2 DEF Increasing
<1>6. Range(t) = {m \in Range(s) : Head(s) < m}
  <2>1. ASSUME NEW i \in DOMAIN t PROVE t[i] \in Range(s) /\ Head(s) < t[i]
    <3>1. i + 1 \in DOMAIN s /\ i + 1 # 1 /\ t[i] = s[i + 1]
      BY <1>1 DEF t
    <3> QED
      BY <1>1, <1>3, <3>1 DEF Range
  <2>2. ASSUME NEW i \in DOMAIN s, Head(s) < s[i] PROVE s[i] \in Range(t)
    <3>1. i # 1
      BY <1>1, <1>2, <2>2
    <3>2. i - 1 \in DOMAIN t /\ t[i - 1] = s[i]
      BY <1>1, <3>1 DEF t
    <3> QED
      BY <3>2 DEF Range
  <2> QED
    BY <2>1, <2>2 DEF Range
<1> QED
  BY <1>1, <1>4, <1>5, <1>6 DEF t, Range

(* The last of a sequence.                                                 *)
LEMMA LastIs ==
    ASSUME NEW S \in SUBSET Nat, NEW s \in Seq(S), s # <<>>, Increasing(s)
    PROVE  s[Len(s)] \in Range(s) /\ \A m \in Range(s) : m <= s[Len(s)]
<1>1. /\ Len(s) \in DOMAIN s
      /\ \A i \in DOMAIN s : s[i] \in S /\ (i = Len(s) \/ i < Len(s))
  OBVIOUS
<1>2. \A i \in DOMAIN s : s[i] \in Nat
  BY <1>1
<1>3. \A i \in DOMAIN s : s[i] <= s[Len(s)]
  BY <1>1, <1>2 DEF Increasing
<1> QED
  BY <1>1, <1>3 DEF Range

-----------------------------------------------------------------------------
(* The initial state.                                                      *)
LEMMA Initially == Init => IInv
<1> SUFFICES ASSUME Init PROVE IInv
  OBVIOUS
<1> USE ConsumerAssumption DEF Init
<1>1. TypeOK
  <2>1. end \in 0..MaxOffset /\ stored \subseteq Offsets /\ heads \subseteq 0..MaxOffset
    BY DEF Offsets
  <2>2. retry \in 0..(IF RetryLimit = -1 THEN 0 ELSE RetryLimit)
    OBVIOUS
  <2>3. try \in 0..RetryErrLimit /\ failed \in 0..(RetryErrLimit + 1)
    OBVIOUS
  <2>4. msgbuf \in Seq(Offsets) /\ seen \in Seq(Offsets)
    OBVIOUS
  <2> QED
    BY <2>1, <2>2, <2>3, <2>4 DEF TypeOK
<1>2. Log /\ InRange /\ NoLoss
  BY DEF Log, InRange, NoLoss
<1>3. Buffer
  BY DEF Buffer, NoGap, Increasing, Range
<1>4. Returned
  BY DEF Returned, NoRepeat, Range
<1> QED
  BY <1>1, <1>2, <1>3, <1>4 DEF IInv

(* The steps of a call that bring no message leave the consumer alone.     *)
LEMMA QuietStep ==
    ASSUME IInv, UNCHANGED <<logVars, consumerVars, from, seen>>,
           pc' = "fetch" => pc = "fetch" \/ (mode = "single" => msgbuf = <<>>)
    PROVE  Log' /\ InRange' /\ Buffer' /\ NoLoss' /\ Returned'
<1> USE DEF IInv, logVars, consumerVars
<1>1. Log' /\ InRange'
  BY DEF Log, InRange
<1>2. Buffer'
  BY DEF TypeOK, Buffer, NoGap
<1>3. NoLoss' /\ Returned'
  BY DEF NoLoss, Returned, NoRepeat
<1> QED
  BY <1>1, <1>2, <1>3

(* Messages s from the offset on, in order, are returned after those       *)
(* before.                                                                 *)
LEMMA ReturnedStep ==
    ASSUME TypeOK, Returned, NEW s \in Seq(Offsets), Increasing(s),
           offset' \in 0..MaxOffset, offset <= offset',
           \A m \in Range(s) : offset <= m /\ m < offset',
           from' = from, seen' = seen \o s
    PROVE  /\ seen' \in Seq(Offsets) /\ Returned'
           /\ Range(seen') = Range(seen) \cup Range(s)
<1>1. seen \in Seq(Offsets) /\ offset \in Nat /\ offset' \in Nat /\ from \in Nat
  BY ConsumerAssumption DEF TypeOK
<1>2. \A m \in Offsets : m \in Nat
  BY ConsumerAssumption DEF Offsets
<1> DEFINE n == Len(seen)
<1>3. /\ n \in Nat /\ DOMAIN seen = 1..n /\ DOMAIN seen' = 1..(n + Len(s))
      /\ Len(s) \in Nat /\ DOMAIN s = 1..Len(s) /\ seen' \in Seq(Offsets)
      /\ \A i \in 1..n : seen'[i] = seen[i]
      /\ \A i \in 1..Len(s) : seen'[n + i] = s[i]
  BY <1>1
<1> HIDE DEF n
<1>4. ASSUME NEW j \in DOMAIN seen'
      PROVE  j \in DOMAIN seen \/ (j - n \in DOMAIN s /\ n + (j - n) = j)
  BY <1>3
<1>5. /\ \A i \in DOMAIN seen : seen[i] \in Nat /\ from <= seen[i] /\ seen[i] < offset
      /\ \A i \in DOMAIN s : s[i] \in Nat /\ offset <= s[i] /\ s[i] < offset'
  <2>1. \A i \in DOMAIN seen : seen[i] \in Offsets /\ from <= seen[i] /\ seen[i] < offset
    BY <1>1 DEF Returned, NoRepeat, Range
  <2>2. \A i \in DOMAIN s : s[i] \in Offsets /\ offset <= s[i] /\ s[i] < offset'
    BY DEF Range
  <2> QED
    BY <1>2, <2>1, <2>2
<1>6. Range(seen') = Range(seen) \cup Range(s)
  <2>1. ASSUME NEW i \in DOMAIN seen PROVE seen[i] \in Range(seen')
    <3>1. i \in DOMAIN seen' /\ seen'[i] = seen[i]
      BY <1>3
    <3> QED
      BY <3>1 DEF Range
  <2>2. ASSUME NEW i \in DOMAIN s PROVE s[i] \in Range(seen')
    <3>1. n + i \in DOMAIN seen' /\ seen'[n + i] = s[i]
      BY <1>3
    <3> QED
      BY <3>1 DEF Range
  <2>3. ASSUME NEW j \in DOMAIN seen' PROVE seen'[j] \in Range(seen) \cup Range(s)
    <3>1. (j \in DOMAIN seen /\ seen'[j] = seen[j]) \/ (j - n \in DOMAIN s /\ seen'[j] = s[j - n])
      BY <1>3, <1>4
    <3> QED
      BY <3>1 DEF Range
  <2>4. \A m \in Range(seen) : m \in Range(seen')
    BY <2>1 DEF Range
  <2>5. \A m \in Range(s) : m \in Range(seen')
    BY <2>2 DEF Range
  <2>6. \A m \in Range(seen') : m \in Range(seen) \cup Range(s)
    <3>1. ASSUME NEW m \in Range(seen') PROVE \E j \in DOMAIN seen' : m = seen'[j]
      BY Zenon DEF Range
    <3> QED
      BY <2>3, <3>1
  <2> QED
    BY <2>4, <2>5, <2>6
<1>7. \A m \in Range(seen') : m < offset'
  <2>1. \A i \in DOMAIN seen : seen[i] < offset'
    BY <1>1, <1>5
  <2> QED
    BY <1>5, <1>6, <2>1 DEF Range
<1>8. NoRepeat'
  <2> SUFFICES ASSUME NEW j \in DOMAIN seen'
               PROVE  from <= seen'[j] /\ \A i \in 1..(j - 1) : seen'[i] < seen'[j]
    BY DEF NoRepeat
  <2>1. CASE j \in DOMAIN seen
    <3>1. seen'[j] = seen[j] /\ \A i \in 1..(j - 1) : seen'[i] = seen[i]
      BY <1>3, <2>1
    <3> QED
      BY <2>1, <3>1 DEF Returned, NoRepeat
  <2>2. CASE j - n \in DOMAIN s /\ n + (j - n) = j
    <3>1. seen'[j] = s[j - n] /\ j \in Nat
      BY <1>3, <2>2
    <3>2. from <= seen'[j]
      BY <1>1, <1>5, <2>2, <3>1 DEF Returned
    <3>3. ASSUME NEW i \in 1..(j - 1) PROVE seen'[i] < seen'[j]
      <4>1. CASE i \in DOMAIN seen
        <5>1. seen'[i] = seen[i]
          BY <1>3, <4>1
        <5> QED
          BY <1>1, <1>5, <2>2, <3>1, <4>1, <5>1
      <4>2. CASE i \notin DOMAIN seen
        <5>1. i - n \in DOMAIN s /\ n + (i - n) = i /\ i - n < j - n
          BY <1>3, <2>2, <3>1, <4>2
        <5>2. seen'[i] = s[i - n]
          BY <1>3, <5>1
        <5> QED
          BY <2>2, <3>1, <5>1, <5>2 DEF Increasing
      <4> QED
        BY <4>1, <4>2
    <3> QED
      BY <3>2, <3>3
  <2> QED
    BY <1>4, <2>1, <2>2
<1>9. from' <= offset'
  BY <1>1 DEF Returned
<1> QED
  BY <1>3, <1>6, <1>7, <1>8, <1>9 DEF Returned

(* Retries and attempts are counted within their limits.                   *)
LEMMA CallTypeStep ==
    ASSUME TypeOK,
           CallConsume \/ AttemptFails \/ AttemptNotLeader \/ ResponseError
              \/ FetchError \/ FetchEmpty \/ NoData
    PROVE  TypeOK'
<1> DEFINE Retries == 0..(IF RetryLimit = -1 THEN 0 ELSE RetryLimit)
<1> USE ConsumerAssumption
<1>1. CASE CallConsume
  <2>1. retry' \in Retries /\ try' \in 0..RetryErrLimit /\ failed' \in 0..(RetryErrLimit + 1)
    BY <1>1 DEF CallConsume
  <2> QED
    BY <1>1, <2>1 DEF CallConsume, logVars, consumerVars, TypeOK
<1>2. ASSUME NEW err \in BOOLEAN, Attempt(err) PROVE TypeOK'
  <2>1. try' \in 0..RetryErrLimit
    BY <1>2 DEF Attempt, TypeOK
  <2>2. failed' \in 0..(RetryErrLimit + 1)
    BY <1>2 DEF Attempt, TypeOK
  <2> QED
    BY <1>2, <2>1, <2>2 DEF Attempt, logVars, consumerVars, TypeOK
<1>3. CASE ResponseError
  BY <1>3 DEF ResponseError, ReturnError, logVars, consumerVars, TypeOK
<1>4. CASE FetchError
  BY <1>4 DEF FetchError, ReturnError, logVars, consumerVars, TypeOK
<1>5. CASE FetchEmpty
  <2>1. retry' \in Retries
    <3>1. CASE RetryLimit = -1
      BY <1>5, <3>1 DEF FetchEmpty, OneMore
    <3>2. CASE RetryLimit # -1
      BY <1>5, <3>2 DEF FetchEmpty, OneMore, OutOfRetries, TypeOK
    <3> QED
      BY <3>1, <3>2
  <2>2. try' \in 0..RetryErrLimit
    BY <1>5 DEF FetchEmpty
  <2>3. failed' \in 0..(RetryErrLimit + 1)
    BY <1>5 DEF FetchEmpty, Empty, TypeOK
  <2> QED
    BY <1>5, <2>1, <2>2, <2>3 DEF FetchEmpty, logVars, consumerVars, TypeOK
<1>6. CASE NoData
  <2>1. failed' \in 0..(RetryErrLimit + 1)
    BY <1>6 DEF NoData, Empty, TypeOK
  <2> QED
    BY <1>6, <2>1 DEF NoData, logVars, consumerVars, TypeOK
<1> QED
  BY <1>1, <1>2, <1>3, <1>4, <1>5, <1>6 DEF AttemptFails, AttemptNotLeader

(* The partition grows at its end, and loses messages.                     *)
LEMMA AppendStep ==
    ASSUME IInv, NEW n \in 1..MaxOffset, AppendBatch(n)
    PROVE  IInv'
<1> USE ConsumerAssumption DEF IInv, AppendBatch, consumerVars, callVars
<1>1. TypeOK'
  <2>1. end' \in 0..MaxOffset /\ heads' \subseteq 0..MaxOffset
    BY DEF TypeOK
  <2>2. stored' \subseteq Offsets
    BY DEF TypeOK, Offsets
  <2> QED
    BY <2>1, <2>2 DEF TypeOK
<1>2. /\ end \in Nat /\ end <= end'
      /\ \A m \in stored' : m \in stored \/ (m \in Nat /\ end <= m /\ m < end')
  BY DEF TypeOK
<1>3. Log'
  BY <1>2 DEF TypeOK, Offsets, Log
<1>4. InRange'
  BY <1>2 DEF TypeOK, InRange
<1>5. Buffer'
  <2>1. Range(msgbuf') = Range(msgbuf) /\ Range(msgbuf) \subseteq Nat
    BY DEF TypeOK, Offsets, Range
  <2> HIDE DEF AppendBatch
  <2>2. UNCHANGED <<mode, pc, msgbuf, offset>>
    BY DEF AppendBatch
  <2>3. ASSUME NEW b \in Range(msgbuf)
        PROVE  b < end' /\ \A m \in stored' : m <= b => m \in stored
    <3>1. b \in Nat /\ b < end /\ end' \in Nat
      BY <2>1, <1>1 DEF TypeOK, Buffer, NoGap
    <3> QED
      BY <1>2, <3>1
  <2> QED
    BY <2>1, <2>2, <2>3 DEF Buffer, NoGap
<1>6. NoLoss'
  BY <1>2 DEF TypeOK, InRange, NoLoss
<1>7. Returned'
  BY DEF Returned, NoRepeat
<1> QED
  BY <1>1, <1>3, <1>4, <1>5, <1>6, <1>7

(* Messages may go at any time, also from what is buffered.                *)
LEMMA RemoveStep ==
    ASSUME IInv, NEW m \in Offsets, RemoveMessage(m)
    PROVE  IInv'
<1> USE ConsumerAssumption DEF IInv, RemoveMessage, consumerVars, callVars
<1>1. TypeOK'
  BY DEF TypeOK
<1>2. Log' /\ InRange'
  BY DEF Log, InRange
<1>3. Buffer'
  BY DEF TypeOK, Buffer, NoGap
<1>4. NoLoss' /\ Returned'
  BY DEF NoLoss, Returned, NoRepeat
<1> QED
  BY <1>1, <1>2, <1>3, <1>4

(* What is removed from the partition may still be in the buffer; all else *)
(* that a fetch brings is stored, and follows the offset without a gap.    *)
LEMMA FetchedNoGap ==
    ASSUME TypeOK, Log, offset <= end, NEW fetched \in Fetchable(offset)
    PROVE  NoGap(Trimmed(fetched, offset))
<1> DEFINE msgs == Trimmed(fetched, offset)
<1>1. PICK cut \in 0..end : Range(msgs) = {m \in stored : offset <= m /\ m < cut}
  BY FetchedIs
<1> HIDE DEF msgs
<1>2. stored \in SUBSET Nat /\ end \in Nat /\ cut \in Nat
  BY ConsumerAssumption DEF TypeOK, Offsets
<1>3. ASSUME NEW b \in Range(msgs)
      PROVE  /\ offset <= b /\ b < end
             /\ \A m \in stored : offset <= m /\ m <= b => m \in Range(msgs)
  <2>1. b \in stored /\ b \in Nat /\ offset <= b /\ b < cut
    BY <1>1, <1>2
  <2>2. \A m \in stored : m <= b => m < cut
    BY <1>2, <2>1
  <2> QED
    BY <1>1, <2>1, <2>2 DEF Log
<1> QED
  BY <1>3 DEF NoGap, msgs

(* Consume returns the first of the messages s and keeps the others.       *)
LEMMA FirstStep ==
    ASSUME IInv, NEW s \in Seq(Offsets), s # <<>>, Increasing(s), NoGap(s),
           UNCHANGED <<logVars, mode, from>>, mode = "single", pc' = "idle",
           msgbuf' = Tail(s), offset' = OffsetAfter(Head(s)),
           seen' = Append(seen, Head(s))
    PROVE  /\ offset' \in 0..MaxOffset /\ msgbuf' \in Seq(Offsets) /\ seen' \in Seq(Offsets)
           /\ Log' /\ InRange' /\ Buffer' /\ NoLoss' /\ Returned'
<1> USE DEF IInv, OffsetAfter
<1>1. Offsets \in SUBSET Nat /\ \A m \in Offsets : m + 1 \in 0..MaxOffset
  BY ConsumerAssumption DEF Offsets
<1>2. /\ Head(s) \in Range(s) /\ Head(s) \in Offsets
      /\ \A m \in Range(s) : Head(s) <= m
      /\ Tail(s) \in Seq(Offsets) /\ Increasing(Tail(s))
      /\ Range(Tail(s)) = {m \in Range(s) : Head(s) < m}
  BY <1>1, FirstIs
<1>3. PICK h \in Nat : h = Head(s)
  BY <1>1, <1>2
<1>4. PICK rest : rest = Tail(s)
  OBVIOUS
<1>5. /\ h \in Range(s) /\ h \in Offsets /\ h + 1 \in 0..MaxOffset
      /\ \A m \in Range(s) : h <= m
      /\ rest \in Seq(Offsets) /\ Increasing(rest)
      /\ Range(rest) = {m \in Range(s) : h < m}
      /\ msgbuf' = rest /\ offset' = h + 1 /\ seen' = Append(seen, h)
  BY <1>1, <1>2, <1>3, <1>4
<1>6. /\ offset \in Nat /\ end \in Nat /\ \A m \in stored : m \in Nat
      /\ \A m \in Range(s) : m \in Nat
      /\ end' = end /\ stored' = stored /\ from' = from
  <2>1. \A m \in Range(s) : m \in Offsets
    BY DEF Range
  <2>2. \A m \in stored : m \in Offsets
    BY DEF TypeOK
  <2>3. offset \in Nat /\ end \in Nat
    BY ConsumerAssumption DEF TypeOK
  <2> QED
    BY <1>1, <2>1, <2>2, <2>3 DEF logVars
<1>7. offset <= h /\ h < end
  BY <1>5 DEF NoGap
<1> DEFINE one == <<h>>
<1>8. seen' \in Seq(Offsets) /\ Returned' /\ Range(seen') = Range(seen) \cup {h}
  <2>1. one \in Seq(Offsets) /\ Increasing(one) /\ Range(one) = {h}
    BY <1>5 DEF Increasing, Range
  <2>2. seen' = seen \o one
    BY <1>5 DEF TypeOK
  <2>3. offset <= offset' /\ offset' \in 0..MaxOffset /\ offset <= h /\ h < offset'
    BY <1>5, <1>6, <1>7
  <2> HIDE DEF one
  <2> QED
    BY <1>6, <2>1, <2>2, <2>3, ReturnedStep
<1>9. Log' /\ InRange'
  BY <1>5, <1>6, <1>7 DEF logVars, Log, InRange
<1>10. Buffer'
  <2>1. ASSUME NEW b \in Range(rest)
        PROVE  /\ h + 1 <= b /\ b < end
               /\ \A m \in stored : h + 1 <= m /\ m <= b => m \in Range(rest)
    <3>1. b \in Range(s) /\ b \in Nat /\ h < b
      BY <1>5, <1>6
    <3>2. \A m \in stored : h + 1 <= m => offset <= m /\ h < m
      BY <1>6, <1>7
    <3> QED
      BY <1>5, <3>1, <3>2 DEF NoGap
  <2>2. NoGap(msgbuf)'
    BY <1>5, <1>6, <2>1 DEF NoGap
  <2> QED
    BY <1>5, <2>2 DEF Buffer
<1>11. NoLoss'
  <2> SUFFICES ASSUME NEW m \in stored, from <= m, m < h + 1 PROVE m \in Range(seen')
    BY <1>5, <1>6 DEF NoLoss
  <2>1. CASE m < offset
    BY <1>8, <2>1 DEF NoLoss
  <2>2. CASE ~(m < offset)
    <3>1. m \in Range(s)
      BY <1>5, <1>6, <2>2 DEF NoGap
    <3>2. m = h
      BY <1>5, <1>6, <3>1
    <3> QED
      BY <1>8, <3>2
  <2> QED
    BY <2>1, <2>2
<1> QED
  BY <1>5, <1>8, <1>9, <1>10, <1>11

(* ConsumeBatch returns the messages s.                                    *)
LEMMA BatchStep ==
    ASSUME IInv, NEW s \in Seq(Offsets), s # <<>>, Increasing(s), NoGap(s),
           UNCHANGED <<logVars, mode, from, msgbuf>>, mode = "batch", pc' = "idle",
           offset' = OffsetAfter(s[Len(s)]), seen' = seen \o s
    PROVE  /\ offset' \in 0..MaxOffset /\ seen' \in Seq(Offsets)
           /\ Log' /\ InRange' /\ Buffer' /\ NoLoss' /\ Returned'
<1> USE DEF IInv, OffsetAfter
<1>1. Offsets \in SUBSET Nat /\ \A m \in Offsets : m + 1 \in 0..MaxOffset
  BY ConsumerAssumption DEF Offsets
<1>2. \A m \in Range(s) : m \in Offsets
  BY DEF Range
<1>3. PICK l : l = s[Len(s)]
  OBVIOUS
<1>4. l \in Range(s) /\ \A m \in Range(s) : m <= l
  BY <1>1, <1>3, LastIs
<1>5. /\ offset \in Nat /\ end \in Nat /\ l \in Nat /\ l + 1 \in 0..MaxOffset
      /\ \A m \in stored : m \in Nat
      /\ end' = end /\ stored' = stored /\ from' = from /\ offset' = l + 1
  <2>1. \A m \in stored : m \in Offsets
    BY DEF TypeOK
  <2>2. offset \in Nat /\ end \in Nat
    BY ConsumerAssumption DEF TypeOK
  <2>3. l \in Offsets
    BY <1>2, <1>4
  <2>4. offset' = l + 1
    BY <1>3
  <2> QED
    BY <1>1, <2>1, <2>2, <2>3, <2>4 DEF logVars
<1>6. offset <= l /\ l < end
  BY <1>4 DEF NoGap
<1>7. Log' /\ InRange'
  BY <1>5, <1>6 DEF logVars, Log, InRange
<1>8. Buffer'
  BY DEF Buffer, NoGap, Range, Increasing
<1>9. seen' \in Seq(Offsets) /\ Returned' /\ Range(seen') = Range(seen) \cup Range(s)
  <2>1. \A m \in Range(s) : m \in Nat
    BY <1>1, <1>2
  <2>2. \A m \in Range(s) : offset <= m /\ m < offset'
    BY <1>4, <1>5, <2>1 DEF NoGap
  <2>3. offset <= offset' /\ offset' \in 0..MaxOffset
    BY <1>5, <1>6
  <2> QED
    BY <1>5, <2>2, <2>3, ReturnedStep
<1>10. NoLoss'
  <2> SUFFICES ASSUME NEW m \in stored, from <= m, m < l + 1 PROVE m \in Range(seen')
    BY <1>5 DEF NoLoss
  <2>1. CASE m < offset
    BY <1>9, <2>1 DEF NoLoss
  <2>2. CASE ~(m < offset)
    <3>1. offset <= m /\ m <= l
      BY <1>5, <2>2
    <3> QED
      BY <1>4, <1>9, <3>1 DEF NoGap
  <2> QED
    BY <2>1, <2>2
<1> QED
  BY <1>5, <1>7, <1>8, <1>9, <1>10

(* The steps that bring messages to the caller.                            *)
LEMMA BufferedStep ==
    ASSUME IInv, ConsumeBuffered
    PROVE  IInv'
<1>1. msgbuf \in Seq(Offsets) /\ Increasing(msgbuf) /\ NoGap(msgbuf)
  BY DEF IInv, TypeOK, Buffer
<1>2. /\ offset' \in 0..MaxOffset /\ msgbuf' \in Seq(Offsets) /\ seen' \in Seq(Offsets)
      /\ Log' /\ InRange' /\ Buffer' /\ NoLoss' /\ Returned'
  BY <1>1, FirstStep DEF ConsumeBuffered, callVars
<1>3. TypeOK'
  BY <1>2 DEF ConsumeBuffered, logVars, callVars, IInv, TypeOK
<1> QED
  BY <1>2, <1>3 DEF IInv

(* Messages come from a fetch, trimmed.                                    *)
LEMMA FetchStep ==
    ASSUME IInv, FetchMessages
    PROVE  IInv'
<1>1. PICK fetched \in Fetchable(offset) :
        LET msgs == Trimmed(fetched, offset) IN
        /\ msgs # <<>>
        /\ \/ /\ mode = "single"
              /\ msgbuf' = Tail(msgs)
              /\ offset' = OffsetAfter(Head(msgs))
              /\ seen' = Append(seen, Head(msgs))
           \/ /\ mode = "batch"
              /\ offset' = OffsetAfter(msgs[Len(msgs)])
              /\ seen' = seen \o msgs
              /\ UNCHANGED msgbuf
  BY DEF FetchMessages
<1>2. PICK msgs : msgs = Trimmed(fetched, offset)
  OBVIOUS
<1>3. offset <= end /\ pc' = "idle" /\ UNCHANGED <<logVars, mode, from>>
  BY DEF FetchMessages
<1>4. msgs \in Seq(Offsets) /\ Increasing(msgs) /\ NoGap(msgs) /\ msgs # <<>>
  BY <1>1, <1>2, <1>3, FetchedIs, FetchedNoGap DEF IInv
<1>5. /\ offset' \in 0..MaxOffset /\ msgbuf' \in Seq(Offsets) /\ seen' \in Seq(Offsets)
      /\ Log' /\ InRange' /\ Buffer' /\ NoLoss' /\ Returned'
  <2>1. CASE mode = "single"
    <3>1. /\ msgbuf' = Tail(msgs) /\ offset' = OffsetAfter(Head(msgs))
          /\ seen' = Append(seen, Head(msgs))
      BY <1>1, <1>2, <2>1
    <3> QED
      BY <1>3, <1>4, <2>1, <3>1, FirstStep
  <2>2. CASE mode = "batch"
    <3>1. /\ msgbuf' = msgbuf /\ offset' = OffsetAfter(msgs[Len(msgs)])
          /\ seen' = seen \o msgs
      BY <1>1, <1>2, <2>2
    <3> QED
      BY <1>3, <1>4, <2>2, <3>1, BatchStep DEF IInv, TypeOK
  <2> QED
    BY <2>1, <2>2 DEF IInv, TypeOK
<1>6. TypeOK'
  <2>1. failed' \in 0..(RetryErrLimit + 1)
    BY ConsumerAssumption DEF FetchMessages
  <2> QED
    BY <1>5, <2>1 DEF FetchMessages, logVars, IInv, TypeOK
<1> QED
  BY <1>5, <1>6 DEF IInv

(* SeekToLatest starts anew at the end.                                    *)
LEMMA SeekStep ==
    ASSUME IInv, SeekToLatest
    PROVE  IInv'
<1> USE DEF IInv, SeekToLatest, logVars, callVars
<1>1. TypeOK'
  <2>1. msgbuf' \in Seq(Offsets) /\ seen' \in Seq(Offsets)
    OBVIOUS
  <2> QED
    BY <2>1 DEF TypeOK
<1>2. Log' /\ InRange'
  BY ConsumerAssumption DEF TypeOK, Log, InRange
<1>3. Buffer'
  BY DEF Buffer, NoGap, Range, Increasing
<1>4. NoLoss'
  <2>1. \A m \in stored : m \in Int /\ m < end
    BY DEF TypeOK, Offsets, Log
  <2> QED
    BY <2>1, ConsumerAssumption DEF TypeOK, NoLoss
<1>5. Returned'
  BY ConsumerAssumption DEF TypeOK, Returned, NoRepeat, Range
<1> QED
  BY <1>1, <1>2, <1>3, <1>4, <1>5

(* Every step keeps the invariant.                                         *)
LEMMA Step ==
    ASSUME IInv, [Next]_vars
    PROVE  IInv'
<1>1. ASSUME NEW n \in 1..MaxOffset, AppendBatch(n) PROVE IInv'
  BY <1>1, AppendStep
<1>2. ASSUME NEW m \in Offsets, RemoveMessage(m) PROVE IInv'
  BY <1>2, RemoveStep
<1>3. CASE ConsumeBuffered
  BY <1>3, BufferedStep
<1>4. CASE CallConsume \/ AttemptFails \/ AttemptNotLeader \/ ResponseError
              \/ FetchError \/ FetchEmpty \/ NoData
  <2>1. UNCHANGED <<logVars, consumerVars, from, seen>>
    BY <1>4 DEF CallConsume, AttemptFails, AttemptNotLeader, Attempt, ResponseError,
         FetchError, ReturnError, FetchEmpty, NoData
  <2>2. pc' = "fetch" => pc = "fetch" \/ (mode = "single" => msgbuf = <<>>)
    BY <1>4 DEF CallConsume, AttemptFails, AttemptNotLeader, Attempt, ResponseError,
         FetchError, ReturnError, FetchEmpty, NoData
  <2>3. TypeOK'
    BY <1>4, CallTypeStep DEF IInv
  <2>4. Log' /\ InRange' /\ Buffer' /\ NoLoss' /\ Returned'
    BY <2>1, <2>2, QuietStep
  <2> QED
    BY <2>3, <2>4 DEF IInv
<1>5. CASE FetchMessages
  BY <1>5, FetchStep
<1>6. CASE SeekToLatest
  BY <1>6, SeekStep
<1>7. CASE UNCHANGED vars
  <2>1. UNCHANGED <<logVars, consumerVars, from, seen>> /\ pc' = pc
    BY <1>7 DEF vars, callVars
  <2>2. Log' /\ InRange' /\ Buffer' /\ NoLoss' /\ Returned'
    BY <2>1, QuietStep
  <2>3. TypeOK'
    BY <1>7 DEF vars, logVars, consumerVars, callVars, IInv, TypeOK
  <2> QED
    BY <2>2, <2>3 DEF IInv
<1> QED
  BY <1>1, <1>2, <1>3, <1>4, <1>5, <1>6, <1>7 DEF Next, PartitionNext, FetchNext

(* The invariant holds throughout.                                         *)
LEMMA Invariance == Spec => []IInv
<1>1. IInv /\ [Next]_vars => IInv'
  BY Step
<1> QED
  BY <1>1, Initially, PTL DEF Spec

-----------------------------------------------------------------------------
(* Type correctness.                                                       *)
THEOREM ConsumerTypeOK == Spec => []TypeOK
BY Invariance, PTL DEF IInv

(* At least once: no sequence of calls, failures, empty fetches, appends   *)
(* and removals makes the consumer pass a stored message that it did not   *)
(* return, while what is read of a fetch is Fetchable: while no message    *)
(* inside a compressed batch is damaged.                                   *)
THEOREM ConsumerNoLoss == Spec => []NoLoss
BY Invariance, PTL DEF IInv

(* Not twice, and in order: each message that Consume or ConsumeBatch      *)
(* returns lies after all those it returned before, since the start or the *)
(* last SeekToLatest.                                                      *)
THEOREM ConsumerNoRepeat == Spec => []NoRepeat
BY Invariance, PTL DEF IInv, Returned

-----------------------------------------------------------------------------
(* Message sets.  FlattenSeq is by a recursive function, and there is no   *)
(* theorem about it to cite.                                               *)
(*                                                                         *)
(* The sequences s[1], ..., s[n] end to end are r, and off says where each *)
(* of them ends.                                                           *)
Ends(s, off) ==
    /\ off \in [0..Len(s) -> Nat]
    /\ off[0] = 0
    /\ \A i \in 1..Len(s) : off[i] = off[i - 1] + Len(s[i])

Parts(s, off, r, n) ==
    /\ Len(r) = off[n]
    /\ \A i \in 1..n : /\ off[i] <= Len(r)
                       /\ \A k \in 1..Len(s[i]) : r[off[i - 1] + k] = s[i][k]

(* One more at the end.                                                    *)
LEMMA PartsMore ==
    ASSUME NEW S, NEW s \in Seq(Seq(S)), NEW off, Ends(s, off),
           NEW n \in 1..Len(s), NEW r \in Seq(S), Parts(s, off, r, n - 1)
    PROVE  r \o s[n] \in Seq(S) /\ Parts(s, off, r \o s[n], n)
<1> DEFINE q == r \o s[n]
<1>1. /\ n \in Nat \ {0} /\ n - 1 \in 0..Len(s) /\ s[n] \in Seq(S)
      /\ off[n - 1] \in Nat /\ off[n] = off[n - 1] + Len(s[n])
      /\ Len(s[n]) \in Nat
  <2>1. n \in Nat \ {0} /\ n - 1 \in 0..Len(s) /\ s[n] \in Seq(S) /\ Len(s) \in Nat
    OBVIOUS
  <2>2. Len(s[n]) \in Nat
    BY <2>1
  <2> QED
    BY <2>1, <2>2 DEF Ends
<1>2. q \in Seq(S) /\ Len(q) = Len(r) + Len(s[n])
  BY <1>1
<1>3. \A j \in 1..Len(r) : q[j] = r[j]
  BY <1>1
<1>4. \A k \in 1..Len(s[n]) : q[Len(r) + k] = s[n][k]
  BY <1>1
<1>5. Len(r) = off[n - 1] /\ Len(q) = off[n]
  BY <1>1, <1>2 DEF Parts
<1> HIDE DEF q
<1>6. ASSUME NEW i \in 1..(n - 1)
      PROVE  /\ off[i] <= Len(q)
             /\ \A k \in 1..Len(s[i]) : q[off[i - 1] + k] = s[i][k]
  <2>1. /\ off[i] <= Len(r)
        /\ \A k \in 1..Len(s[i]) : r[off[i - 1] + k] = s[i][k]
    BY <1>6 DEF Parts
  <2>2. /\ i \in 1..Len(s) /\ i - 1 \in 0..Len(s) /\ off[i - 1] \in Nat
        /\ off[i] = off[i - 1] + Len(s[i]) /\ off[i] \in Nat
    <3>1. Len(s) \in Nat /\ i \in 1..Len(s) /\ i - 1 \in 0..Len(s) /\ i \in 0..Len(s)
      BY <1>1
    <3> QED
      BY <3>1 DEF Ends
  <2>3. off[i] <= Len(q)
    <3>1. \A a, l, m \in Nat : a <= l => a <= l + m
      OBVIOUS
    <3>2. Len(r) \in Nat /\ Len(s[n]) \in Nat /\ off[i] \in Nat
      BY <1>1, <2>2
    <3> QED
      BY <1>2, <2>1, <3>1, <3>2
  <2>4. ASSUME NEW k \in 1..Len(s[i]) PROVE q[off[i - 1] + k] = s[i][k]
    <3>1. Len(s[i]) \in Nat
      <4>1. s[i] \in Seq(S)
        BY <2>2
      <4> QED
        BY <4>1
    <3>2. off[i - 1] + k \in 1..Len(r)
      <4>1. Len(r) \in Nat /\ off[i - 1] + Len(s[i]) <= Len(r)
        BY <2>1, <2>2
      <4>2. k \in Nat /\ 1 <= k /\ k <= Len(s[i])
        BY <3>1
      <4>3. \A a, l, m \in Nat : a + l <= m /\ 1 <= k /\ k <= l => a + k \in 1..m
        BY <4>2
      <4>4. off[i - 1] \in Nat
        BY <2>2
      <4> QED
        BY <3>1, <4>1, <4>2, <4>3, <4>4
    <3> QED
      BY <1>3, <2>1, <3>2
  <2> QED
    BY <2>3, <2>4
<1>7. \A i \in 1..n : i \in 1..(n - 1) \/ i = n
  BY <1>1
<1>8. Parts(s, off, q, n)
  <2>1. /\ off[n] <= Len(q)
        /\ \A k \in 1..Len(s[n]) : q[off[n - 1] + k] = s[n][k]
    BY <1>1, <1>4, <1>5
  <2>2. ASSUME NEW i \in 1..n
        PROVE  /\ off[i] <= Len(q)
               /\ \A k \in 1..Len(s[i]) : q[off[i - 1] + k] = s[i][k]
    BY <1>6, <1>7, <2>1
  <2> QED
    BY <1>5, <2>2 DEF Parts
<1> QED
  BY <1>2, <1>8 DEF q

(* FlattenSeq puts its parts end to end.                                   *)
LEMMA FlattenParts ==
    ASSUME NEW S, NEW s \in Seq(Seq(S)), s # <<>>, NEW off, Ends(s, off)
    PROVE  FlattenSeq(s) \in Seq(S) /\ Parts(s, off, FlattenSeq(s), Len(s))
<1> DEFINE N == Len(s)
           Eq(f, n) == f = [i \in 1..n |-> IF i = 1 THEN s[i] ELSE f[i - 1] \o s[i]]
           Good(f, n) == \A i \in 1..n : f[i] \in Seq(S) /\ Parts(s, off, f[i], i)
           T == {n \in 1..N : ~ \E f : Eq(f, n) /\ Good(f, n)}
<1>0. N \in Nat \ {0}
  OBVIOUS
<1>1. ASSUME T # {} PROVE FALSE
  <2>1. PICK n \in T : \A l \in T : n <= l
    <3>1. T \in SUBSET Nat
      <4>1. T \subseteq 1..N
        OBVIOUS
      <4> HIDE DEF T
      <4> QED
        BY <1>0, <4>1
    <3> HIDE DEF T
    <3> QED
      BY <1>1, <3>1, Least
  <2>2. n \in 1..N /\ ~ \E f : Eq(f, n) /\ Good(f, n)
    OBVIOUS
  <2>3. CASE n = 1
    <3> DEFINE f == [i \in 1..1 |-> s[i]]
    <3>1. Eq(f, 1)
      BY \A i \in 1..1 : i = 1
    <3>2. Parts(s, off, <<>>, 0) /\ <<>> \in Seq(S)
      BY DEF Parts, Ends
    <3>3. <<>> \o s[1] = s[1]
      BY <1>0
    <3>4. s[1] \in Seq(S) /\ Parts(s, off, s[1], 1)
      <4>1. 1 \in 1..Len(s) /\ Parts(s, off, <<>>, 1 - 1)
        BY <1>0, <3>2
      <4>2. <<>> \o s[1] \in Seq(S) /\ Parts(s, off, <<>> \o s[1], 1)
        BY <3>2, <4>1, PartsMore
      <4> QED
        BY <3>3, <4>2
    <3>5. Good(f, 1)
      BY <3>4, \A i \in 1..1 : i = 1
    <3> HIDE DEF f
    <3> QED
      BY <2>2, <2>3, <3>1, <3>5
  <2>4. CASE n # 1
    <3>1. n - 1 \in 1..N /\ ~(n <= n - 1)
      BY <1>0, <2>2, <2>4
    <3>2. n - 1 \notin T
      <4> HIDE DEF T
      <4> QED
        BY <2>1, <3>1
    <3>3. PICK f : Eq(f, n - 1) /\ Good(f, n - 1)
      BY <3>1, <3>2
    <3> DEFINE g == [i \in 1..n |-> IF i = n THEN f[n - 1] \o s[n] ELSE f[i]]
    <3>4. f[n - 1] \in Seq(S) /\ Parts(s, off, f[n - 1], n - 1)
      BY <3>1, <3>3
    <3>5. g[n] \in Seq(S) /\ Parts(s, off, g[n], n)
      BY <2>2, <3>4, PartsMore
    <3>6. \A i \in 1..(n - 1) : g[i] = f[i]
      BY <3>1
    <3>7. \A i \in 1..n : i = n \/ i \in 1..(n - 1)
      BY <3>1
    <3>8. Good(g, n)
      <4> HIDE DEF g
      <4> QED
        BY <3>3, <3>5, <3>6, <3>7
    <3>9. Eq(g, n)
      <4> DEFINE h == [i \in 1..n |-> IF i = 1 THEN s[i] ELSE g[i - 1] \o s[i]]
      <4>1. \A i \in 1..(n - 1) : f[i] = IF i = 1 THEN s[i] ELSE f[i - 1] \o s[i]
        BY <3>3
      <4>2. ASSUME NEW i \in 1..n PROVE g[i] = h[i]
        <5>1. CASE i = n
          <6>1. g[n] = f[n - 1] \o s[n] /\ g[n - 1] = f[n - 1]
            <7>1. n \in 1..n /\ n - 1 \in 1..(n - 1)
              BY <2>2, <3>1
            <7> QED
              BY <3>6, <7>1
          <6>2. h[n] = g[n - 1] \o s[n]
            <7> HIDE DEF g
            <7>1. n \in 1..n
              BY <2>2
            <7> QED
              BY <2>4, <7>1
          <6> QED
            BY <5>1, <6>1, <6>2
        <5>2. CASE i # n
          <6>1. i \in 1..(n - 1)
            BY <3>7, <5>2
          <6>2. i # 1 => g[i - 1] = f[i - 1]
            BY <3>1, <3>6, <6>1
          <6> QED
            BY <3>6, <4>1, <6>1, <6>2
        <5> QED
          BY <5>1, <5>2
      <4>3. g = h
        BY <4>2
      <4> QED
        BY <4>3
    <3> HIDE DEF g
    <3> QED
      BY <2>2, <3>8, <3>9
  <2> QED
    BY <2>3, <2>4
<1>2. PICK f : Eq(f, N) /\ Good(f, N)
  <2>1. N \in 1..N
    BY <1>0
  <2>2. N \notin T
    <3> HIDE DEF T
    <3> QED
      BY <1>1
  <2> QED
    BY <2>1, <2>2
<1> DEFINE F == CHOOSE g : Eq(g, N)
<1>3. Eq(F, N)
  BY <1>2
<1>4. FlattenSeq(s) = F[N]
  BY <1>0 DEF FlattenSeq
<1> DEFINE D == {i \in 1..N : F[i] # f[i]}
<1> HIDE DEF F
<1>5. ASSUME D # {} PROVE FALSE
  <2>1. PICK i \in D : \A l \in D : i <= l
    <3>1. D \in SUBSET Nat
      OBVIOUS
    <3> HIDE DEF D
    <3> QED
      BY <1>5, <3>1, Least
  <2>2. /\ F[i] = IF i = 1 THEN s[i] ELSE F[i - 1] \o s[i]
        /\ f[i] = IF i = 1 THEN s[i] ELSE f[i - 1] \o s[i]
    BY <1>2, <1>3
  <2>3. i # 1 /\ i \in 1..N
    BY <2>2
  <2>4. i - 1 \in 1..N /\ ~(i <= i - 1)
    BY <2>3
  <2>5. i - 1 \notin D
    <3> HIDE DEF D
    <3> QED
      BY <2>1, <2>4
  <2> QED
    BY <2>2, <2>3, <2>4, <2>5
<1>6. F[N] = f[N]
  BY <1>0, <1>5
<1>7. f[N] \in Seq(S) /\ Parts(s, off, f[N], N)
  <2>1. N \in 1..N
    BY <1>0
  <2> QED
    BY <1>2, <2>1
<1> QED
  BY <1>4, <1>6, <1>7

(* There is only one such sequence.                                        *)
LEMMA FlattenIs ==
    ASSUME NEW S, NEW s \in Seq(Seq(S)), NEW off, Ends(s, off),
           NEW r \in Seq(S), Parts(s, off, r, Len(s))
    PROVE  FlattenSeq(s) = r
<1>1. CASE s = <<>>
  <2>1. Len(s) = 0 /\ Len(r) = 0
    BY <1>1 DEF Parts, Ends
  <2>2. r = <<>>
    BY <2>1
  <2> QED
    BY <1>1, <2>1, <2>2 DEF FlattenSeq
<1>2. CASE s # <<>>
  <2> DEFINE q == FlattenSeq(s)
  <2>1. q \in Seq(S) /\ Parts(s, off, q, Len(s))
    BY <1>2, FlattenParts
  <2> HIDE DEF q
  <2>2. Len(s) \in Nat /\ Len(s) \in 1..Len(s)
    BY <1>2
  <2>3. Len(q) = off[Len(s)] /\ Len(r) = off[Len(s)] /\ Len(r) \in Nat
    BY <2>1 DEF Parts
  <2>4. ASSUME NEW j \in 1..Len(r) PROVE q[j] = r[j]
    <3> DEFINE T == {i \in 1..Len(s) : j <= off[i]}
    <3>1. Len(s) \in T /\ T \in SUBSET Nat
      <4>1. j <= off[Len(s)]
        BY <2>3
      <4> QED
        BY <2>2, <4>1
    <3>2. PICK i \in T : \A l \in T : i <= l
      <4> HIDE DEF T
      <4> QED
        BY <3>1, Least
    <3>3. i \in 1..Len(s) /\ i \in Nat /\ i - 1 \in 0..Len(s) /\ j <= off[i]
      BY <2>2
    <3>4. off[i - 1] \in Nat /\ off[i] = off[i - 1] + Len(s[i])
      BY <3>3 DEF Ends
    <3>5. off[i - 1] < j
      <4>1. CASE i = 1
        BY <2>3, <4>1 DEF Ends
      <4>2. CASE i # 1
        <5>1. i - 1 \in 1..Len(s) /\ ~(i <= i - 1)
          BY <2>2, <3>3, <4>2
        <5>2. i - 1 \notin T
          <6> HIDE DEF T
          <6> QED
            BY <3>2, <5>1
        <5>3. ~(j <= off[i - 1])
          BY <5>1, <5>2
        <5> QED
          BY <2>3, <3>4, <5>3
      <4> QED
        BY <4>1, <4>2
    <3>6. s[i] \in Seq(S) /\ Len(s[i]) \in Nat
      <4>1. s[i] \in Seq(S)
        BY <3>3
      <4> QED
        BY <4>1
    <3> DEFINE k == j - off[i - 1]
    <3>7. k \in 1..Len(s[i]) /\ off[i - 1] + k = j
      <4>1. \A a, l \in Nat : a < j /\ j <= a + l => j - a \in 1..l /\ a + (j - a) = j
        BY <2>3
      <4>2. j <= off[i - 1] + Len(s[i])
        BY <3>3, <3>4
      <4> QED
        BY <3>4, <3>5, <3>6, <4>1, <4>2
    <3> HIDE DEF k, T
    <3>8. q[off[i - 1] + k] = s[i][k] /\ r[off[i - 1] + k] = s[i][k]
      BY <2>1, <3>3, <3>7 DEF Parts
    <3> QED
      BY <3>7, <3>8
  <2>5. q = r
    <3>1. DOMAIN q = 1..Len(r) /\ DOMAIN r = 1..Len(r)
      BY <2>1, <2>3
    <3> QED
      BY <2>1, <2>4, <3>1
  <2> QED
    BY <2>5 DEF q
<1> QED
  BY <1>1, <1>2

-----------------------------------------------------------------------------
(* A function on 1..n is a sequence.                                       *)
LEMMA FcnIsSeq ==
    ASSUME NEW S, NEW n \in Nat, NEW f \in [1..n -> S]
    PROVE  f \in Seq(S) /\ Len(f) = n /\ DOMAIN f = 1..n
OBVIOUS

(* What a slice of a sequence has.                                         *)
LEMMA Slice ==
    ASSUME NEW S, NEW s \in Seq(S), NEW a \in Nat, NEW l \in Nat, a + l <= Len(s)
    PROVE  /\ SubSeq(s, a + 1, a + l) \in Seq(S)
           /\ Len(SubSeq(s, a + 1, a + l)) = l
           /\ \A k \in 1..l : SubSeq(s, a + 1, a + l)[k] = s[a + k]
<1> DEFINE d == SubSeq(s, a + 1, a + l)
<1>1. Len(s) \in Nat
  OBVIOUS
<1>2. d \in Seq(S)
  <2>1. \A j \in (a + 1)..(a + l) : j \in 1..Len(s)
    BY <1>1
  <2> QED
    BY <2>1, SubSeqProperties
<1>3. Len(d) = l
  BY <1>1, SubSeqProperties
<1>4. ASSUME NEW k \in 1..l PROVE d[k] = s[a + k]
  <2>1. k \in 1..(1 + (a + l) - (a + 1))
    OBVIOUS
  <2> QED
    BY <1>1, <2>1, SubSeqProperties
<1> QED
  BY <1>2, <1>3, <1>4

(* The same, for all slices of one sequence.                               *)
LEMMA Slices ==
    ASSUME NEW S, NEW s \in Seq(S)
    PROVE  \A a, l \in Nat : a + l <= Len(s) =>
              /\ SubSeq(s, a + 1, a + l) \in Seq(S)
              /\ Len(SubSeq(s, a + 1, a + l)) = l
              /\ \A k \in 1..l : SubSeq(s, a + 1, a + l)[k] = s[a + k]
BY Slice

(* The cells of a message that was written.                                *)
LEMMA WrittenIs ==
    ASSUME NEW m, NEW codec
    PROVE  LET c == writeMessage(m, codec) IN
           /\ Len(c) = 7 /\ c = [k \in 1..7 |-> c[k]]
           /\ \A k \in 1..7 : \E type, val : c[k] = Cell(type, val)
           /\ c[1].val = m.Offset
           /\ c[3].val = SubSeq(c, 4, 7)
           /\ c[5].val = codec
           /\ c[6].val = m.Key
           /\ c[7].val = m.Value
<1> DEFINE content == ComputeCrc(m, codec)
           head == <<Cell("int64", m.Offset), Cell("int32", Size), Cell("uint32", content)>>
           c == head \o content
<1>1. content = <<Cell("int8", 0), Cell("int8", codec),
      Cell("bytes", m.Key), Cell("bytes", m.Value)>>
  BY DEF ComputeCrc
<1>2. Len(content) = 4 /\ DOMAIN content = 1..4
  BY <1>1
<1>3. writeMessage(m, codec) = c
  BY DEF writeMessage
<1>4. Len(c) = 7 /\ DOMAIN c = 1..7
  BY <1>1
<1>5. c[1] = head[1] /\ c[3] = head[3]
  BY <1>1
<1>6. \A k \in 1..4 : c[3 + k] = content[k]
  BY <1>1
<1> DEFINE U == {c[j] : j \in 1..7}
           d == SubSeq(c, 4, 7)
<1> HIDE DEF content, head, c
<1>7. d = content
  <2>1. c \in [1..7 -> U]
    <3>1. c \in Seq({head[1], head[2], head[3], content[1], content[2], content[3], content[4]})
      BY <1>1 DEF c, head, content
    <3>2. c = [j \in 1..7 |-> c[j]]
      BY <1>4, <3>1
    <3> QED
      BY <3>2
  <2> HIDE DEF U
  <2>2. c \in Seq(U) /\ Len(c) = 7
    BY <2>1, FcnIsSeq
  <2>3. d \in Seq(U) /\ Len(d) = 4 /\ \A k \in 1..4 : d[k] = c[3 + k]
    <3>1. 3 \in Nat /\ 4 \in Nat /\ 3 + 1 = 4 /\ 3 + 4 = 7 /\ 3 + 4 <= Len(c)
      BY <2>2
    <3> DEFINE e == SubSeq(c, 3 + 1, 3 + 4)
    <3>2. e \in Seq(U) /\ Len(e) = 4 /\ \A k \in 1..4 : e[k] = c[3 + k]
      BY <2>2, <3>1, Slice, Zenon
    <3>3. d = e
      BY <3>1
    <3> QED
      BY <3>2, <3>3
  <2>4. DOMAIN d = 1..4 /\ d = [k \in 1..4 |-> d[k]]
    <3> HIDE DEF U, d
    <3> QED
      BY <2>3
  <2>5. content = [k \in 1..4 |-> content[k]]
    BY <1>1, <1>2
  <2> HIDE DEF d
  <2> QED
    BY <1>6, <2>3, <2>4, <2>5
<1>8. c[5] = content[2] /\ c[6] = content[3] /\ c[7] = content[4]
  <2>1. c[3 + 2] = content[2] /\ c[3 + 3] = content[3] /\ c[3 + 4] = content[4]
    BY <1>6
  <2> QED
    BY <2>1
<1>9. head[1].val = m.Offset /\ head[3].val = content
  BY DEF head, Cell
<1>10. content[2].val = codec /\ content[3].val = m.Key /\ content[4].val = m.Value
  BY <1>1 DEF Cell
<1>11. c = [k \in 1..7 |-> c[k]]
  BY <1>1 DEF c, head, content
<1>12. ASSUME NEW k \in 1..7 PROVE \E type, val : c[k] = Cell(type, val)
  <2>1. k \in 1..3 => c[k] = head[k]
    BY <1>1 DEF c, head, content
  <2>2. \A j \in 1..3 : \E type, val : head[j] = Cell(type, val)
    BY DEF head
  <2>3. \A j \in 1..4 : \E type, val : content[j] = Cell(type, val)
    BY <1>1
  <2>4. k \in 1..3 \/ (k - 3 \in 1..4 /\ 3 + (k - 3) = k)
    OBVIOUS
  <2>5. k - 3 \in 1..4 => c[k] = content[k - 3]
    BY <1>6, <2>4
  <2> QED
    BY <2>1, <2>2, <2>3, <2>4, <2>5
<1> QED
  BY <1>3, <1>4, <1>5, <1>7, <1>8, <1>9, <1>10, <1>11, <1>12

-----------------------------------------------------------------------------
(* The cells p are those of the messages ws, one after the other.          *)
Rows(U, p, ws) ==
    /\ p \in Seq(U)
    /\ ws \in Seq(Seq(U))
    /\ Len(p) = 7 * Len(ws)
    /\ \A i \in 1..Len(ws) :
          /\ Len(ws[i]) = 7
          /\ \A k \in 1..7 : p[7 * (i - 1) + k] = ws[i][k]

(* Messages put end to end are rows.                                       *)
LEMMA RowsFlat ==
    ASSUME NEW U, NEW ws \in Seq(Seq(U)), \A i \in 1..Len(ws) : Len(ws[i]) = 7
    PROVE  Rows(U, FlattenSeq(ws), ws)
<1>1. CASE ws = <<>>
  <2>1. FlattenSeq(ws) = <<>> /\ Len(ws) = 0
    BY <1>1 DEF FlattenSeq
  <2>2. Rows(U, <<>>, <<>>)
    BY DEF Rows
  <2> QED
    BY <1>1, <2>1, <2>2
<1>2. CASE ws # <<>>
  <2> DEFINE off == [i \in 0..Len(ws) |-> 7 * i]
  <2>1. Len(ws) \in Nat
    OBVIOUS
  <2>2. Ends(ws, off)
    <3>1. off \in [0..Len(ws) -> Nat] /\ off[0] = 0
      BY <2>1
    <3>2. ASSUME NEW i \in 1..Len(ws) PROVE off[i] = off[i - 1] + Len(ws[i])
      <4>1. i \in 0..Len(ws) /\ i - 1 \in 0..Len(ws)
        BY <2>1
      <4>2. off[i] = 7 * i /\ off[i - 1] = 7 * (i - 1)
        BY <4>1
      <4>3. Len(ws[i]) = 7 /\ i \in Int
        BY <2>1
      <4> HIDE DEF off
      <4> QED
        BY <4>2, <4>3
    <3> HIDE DEF off
    <3> QED
      BY <3>1, <3>2 DEF Ends
  <2>3. FlattenSeq(ws) \in Seq(U) /\ Parts(ws, off, FlattenSeq(ws), Len(ws))
    <3> HIDE DEF off
    <3> QED
      BY <1>2, <2>2, FlattenParts
  <2>4. off[Len(ws)] = 7 * Len(ws)
    BY <2>1
  <2>5. \A i \in 1..Len(ws) : off[i - 1] = 7 * (i - 1)
    BY <2>1
  <2> HIDE DEF off
  <2> QED
    BY <2>3, <2>4, <2>5 DEF Parts, Rows
<1> QED
  BY <1>1, <1>2

(* Two sets, one after the other.                                          *)
LEMMA RowsJoin ==
    ASSUME NEW U, NEW p, NEW ws, Rows(U, p, ws), NEW q, NEW vs, Rows(U, q, vs)
    PROVE  Rows(U, p \o q, ws \o vs)
<1> DEFINE n == Len(ws)
           l == Len(vs)
           us == ws \o vs
           r == p \o q
<1>1. /\ p \in Seq(U) /\ q \in Seq(U) /\ ws \in Seq(Seq(U)) /\ vs \in Seq(Seq(U))
      /\ n \in Nat /\ l \in Nat /\ Len(p) = 7 * n /\ Len(q) = 7 * l
  BY DEF Rows
<1>2. r \in Seq(U) /\ us \in Seq(Seq(U)) /\ Len(us) = n + l /\ Len(r) = 7 * (n + l)
  <2>1. r \in Seq(U) /\ Len(r) = Len(p) + Len(q)
    <3>1. p \in Seq(U) /\ q \in Seq(U)
      BY <1>1
    <3> QED
      BY <3>1
  <2>2. us \in Seq(Seq(U)) /\ Len(us) = n + l
    BY <1>1
  <2>3. 7 * n + 7 * l = 7 * (n + l)
    BY <1>1
  <2> HIDE DEF r, us
  <2> QED
    BY <1>1, <2>1, <2>2, <2>3
<1>3. \A i \in 1..n : us[i] = ws[i]
  BY <1>1
<1>4. \A i \in 1..l : us[n + i] = vs[i]
  BY <1>1
<1>5. \A j \in 1..(7 * n) : r[j] = p[j]
  BY <1>1
<1>6. \A j \in 1..(7 * l) : r[7 * n + j] = q[j]
  <2>1. \A j \in 1..Len(q) : r[Len(p) + j] = q[j]
    <3>1. p \in Seq(U) /\ q \in Seq(U)
      BY <1>1
    <3> QED
      BY <3>1
  <2> HIDE DEF r
  <2> QED
    BY <1>1, <2>1
<1> HIDE DEF us, r
<1>7. ASSUME NEW i \in 1..n
      PROVE  Len(us[i]) = 7 /\ \A k \in 1..7 : r[7 * (i - 1) + k] = us[i][k]
  <2>1. \A k \in 1..7 : 7 * (i - 1) + k \in 1..(7 * n)
    BY <1>1
  <2>2. Len(ws[i]) = 7 /\ \A k \in 1..7 : p[7 * (i - 1) + k] = ws[i][k]
    BY <1>1 DEF Rows
  <2>3. ASSUME NEW k \in 1..7 PROVE r[7 * (i - 1) + k] = us[i][k]
    BY <1>3, <1>5, <2>1, <2>2
  <2> QED
    BY <1>3, <2>2, <2>3
<1>8. ASSUME NEW i \in 1..l
      PROVE  Len(us[n + i]) = 7 /\ \A k \in 1..7 : r[7 * (n + i - 1) + k] = us[n + i][k]
  <2>1. \A k \in 1..7 : 7 * (i - 1) + k \in 1..(7 * l)
    BY <1>1
  <2>2. Len(vs[i]) = 7 /\ \A k \in 1..7 : q[7 * (i - 1) + k] = vs[i][k]
    BY <1>1 DEF Rows
  <2>3. ASSUME NEW k \in 1..7 PROVE r[7 * (n + i - 1) + k] = us[n + i][k]
    <3>1. 7 * (n + i - 1) + k = 7 * n + (7 * (i - 1) + k)
      BY <1>1
    <3>2. r[7 * n + (7 * (i - 1) + k)] = q[7 * (i - 1) + k]
      BY <1>6, <2>1
    <3> QED
      BY <1>4, <2>2, <3>1, <3>2
  <2> QED
    BY <1>4, <2>2, <2>3
<1>9. ASSUME NEW i \in 1..(n + l)
      PROVE  Len(us[i]) = 7 /\ \A k \in 1..7 : r[7 * (i - 1) + k] = us[i][k]
  <2>1. CASE i <= n
    <3>1. i \in 1..n
      BY <1>1, <2>1
    <3> QED
      BY <1>7, <3>1
  <2>2. CASE ~(i <= n)
    <3>1. i - n \in 1..l /\ n + (i - n) = i
      BY <1>1, <2>2
    <3>2. /\ Len(us[n + (i - n)]) = 7
          /\ \A k \in 1..7 : r[7 * (n + (i - n) - 1) + k] = us[n + (i - n)][k]
      BY <1>8, <3>1
    <3> QED
      BY <3>1, <3>2
  <2> QED
    BY <2>1, <2>2
<1>10. Rows(U, r, us)
  BY <1>2, <1>9 DEF Rows
<1> QED
  BY <1>10 DEF r, us

(* The i-th message of what comes before the cut.                          *)
LEMMA RowsCut ==
    ASSUME NEW U, NEW p, NEW ws, Rows(U, p, ws), NEW n \in 0..Len(p)
    PROVE  /\ Len(SubSeq(p, 1, n)) = n
           /\ n \div 7 \in 0..Len(ws)
           /\ \A i \in 1..(n \div 7) : Chunk(SubSeq(p, 1, n), i) = ws[i]
<1> DEFINE d == n \div 7
           c == SubSeq(p, 1, n)
<1>1. /\ p \in Seq(U) /\ ws \in Seq(Seq(U)) /\ Len(ws) \in Nat /\ Len(p) = 7 * Len(ws)
      /\ n \in Nat /\ n <= Len(p)
  BY DEF Rows
<1>2. d \in Nat /\ 7 * d <= n /\ n < 7 * d + 7
  BY <1>1
<1>3. d \in 0..Len(ws)
  <2> HIDE DEF d
  <2> QED
    BY <1>1, <1>2
<1>4. c \in Seq(U) /\ Len(c) = n /\ \A j \in 1..n : c[j] = p[j]
  <2>1. 0 \in Nat /\ 0 + n <= Len(p) /\ 0 + 1 = 1 /\ 0 + n = n
    BY <1>1
  <2> DEFINE e == SubSeq(p, 0 + 1, 0 + n)
  <2>2. e \in Seq(U) /\ Len(e) = n /\ \A j \in 1..n : e[j] = p[0 + j]
    BY <1>1, <2>1, Slice
  <2>3. c = e /\ \A j \in 1..n : 0 + j = j
    BY <2>1
  <2> QED
    BY <2>2, <2>3
<1> HIDE DEF c, d
<1>5. ASSUME NEW i \in 1..d PROVE Chunk(c, i) = ws[i]
  <2> DEFINE a == 7 * (i - 1)
             e == SubSeq(c, a + 1, a + 7)
  <2>1. a \in Nat /\ 7 \in Nat /\ a + 7 <= n /\ a + 7 = i * 7 /\ (i - 1) * 7 = a
    BY <1>1, <1>2
  <2>2. e \in Seq(U) /\ Len(e) = 7 /\ \A k \in 1..7 : e[k] = c[a + k]
    <3>1. \A h, j \in Nat : h + j <= Len(c) =>
             /\ SubSeq(c, h + 1, h + j) \in Seq(U)
             /\ Len(SubSeq(c, h + 1, h + j)) = j
             /\ \A k \in 1..j : SubSeq(c, h + 1, h + j)[k] = c[h + k]
      BY <1>4, Slices
    <3>2. a \in Nat /\ 7 \in Nat /\ a + 7 <= Len(c)
      BY <1>4, <2>1
    <3> HIDE DEF a
    <3> QED
      BY <3>1, <3>2
  <2>3. Chunk(c, i) = e
    <3>1. (i - 1) * Cells + 1 = a + 1 /\ i * Cells = a + 7
      BY <2>1 DEF Cells, Size
    <3> QED
      BY <3>1 DEF Chunk
  <2>4. ASSUME NEW k \in 1..7 PROVE e[k] = ws[i][k]
    <3>1. a + k \in 1..n
      BY <1>1, <2>1
    <3>2. p[a + k] = ws[i][k]
      <4>1. i \in 1..Len(ws)
        BY <1>1, <1>3
      <4> QED
        BY <4>1 DEF Rows
    <3> HIDE DEF a, e
    <3> QED
      BY <1>4, <2>2, <3>1, <3>2
  <2>5. ws[i] \in Seq(U) /\ Len(ws[i]) = 7
    BY <1>1, <1>3 DEF Rows
  <2> HIDE DEF e
  <2>6. e = ws[i]
    <3> DEFINE w == ws[i]
    <3>1. w \in Seq(U) /\ Len(w) = Len(e) /\ \A k \in 1..Len(e) : e[k] = w[k]
      BY <2>2, <2>4, <2>5
    <3> HIDE DEF w
    <3>2. e = w
      BY <2>2, <3>1, SeqEqual
    <3> QED
      BY <3>2 DEF w
  <2> QED
    BY <2>3, <2>6
<1> QED
  BY <1>3, <1>4, <1>5 DEF c, d

-----------------------------------------------------------------------------
(* A set that the cells of the messages ws are from, damaged ones too.     *)
CellSet(U) ==
    \A x \in U : (\E type, val : x = Cell(type, val)) /\ Cell(x.type, <<>>) \in U

(* There is such a set for any messages that were written.                 *)
LEMMA Universe ==
    ASSUME NEW n \in Nat, NEW ws, ws = [i \in 1..n |-> ws[i]],
           \A i \in 1..n : \E m, codec : ws[i] = writeMessage(m, codec)
    PROVE  \E U : /\ CellSet(U)
                  /\ ws \in Seq(Seq(U))
                  /\ Len(ws) = n
                  /\ \A i \in 1..n : Len(ws[i]) = 7
<1> DEFINE A == {ws[i][k] : i \in 1..n, k \in 1..7}
           U == A \cup {Cell(x.type, <<>>) : x \in A}
<1>1. ASSUME NEW i \in 1..n
      PROVE  /\ Len(ws[i]) = 7 /\ ws[i] = [k \in 1..7 |-> ws[i][k]]
             /\ \A k \in 1..7 : \E type, val : ws[i][k] = Cell(type, val)
  <2>1. PICK m, codec : ws[i] = writeMessage(m, codec)
    OBVIOUS
  <2> QED
    BY <2>1, WrittenIs
<1>2. \A x \in A : \E type, val : x = Cell(type, val)
  BY <1>1
<1>3. \A x \in A : Cell(x.type, <<>>).type = x.type
  BY DEF Cell
<1>4. CellSet(U)
  <2> HIDE DEF A
  <2> QED
    BY <1>2, <1>3 DEF CellSet
<1>5. \A i \in 1..n : ws[i] \in Seq(U)
  <2>1. \A i \in 1..n : \A k \in 1..7 : ws[i][k] \in U
    OBVIOUS
  <2> HIDE DEF U
  <2>2. ASSUME NEW i \in 1..n PROVE ws[i] \in Seq(U)
    <3>1. ws[i] \in [1..7 -> U]
      BY <1>1, <2>1
    <3> QED
      BY <3>1, FcnIsSeq, 7 \in Nat
  <2> QED
    BY <2>2
<1> HIDE DEF U
<1>6. ws \in [1..n -> Seq(U)]
  BY <1>5
<1>7. ws \in Seq(Seq(U)) /\ Len(ws) = n
  BY <1>6, FcnIsSeq
<1> QED
  BY <1>1, <1>4, <1>7

(* Damage is to one message only, whose CRC is then wrong.                 *)
Spoilt(U, p, d, ws, vs) ==
    /\ Rows(U, Damaged(p, d), vs)
    /\ Len(vs) = Len(ws)
    /\ \A i \in 1..Len(ws) : i # d => vs[i] = ws[i]
    /\ d # 0 => vs[d] \in Seq(U) /\ Len(vs[d]) = 7 /\ vs[d][3].val = <<>>

(* Some message of the set is damaged, or none (d = 0).                    *)
LEMMA RowsDamaged ==
    ASSUME NEW U, CellSet(U), NEW p, NEW ws, Rows(U, p, ws), NEW d \in 0..Len(ws)
    PROVE  \E vs : Spoilt(U, p, d, ws, vs)
<1>1. CASE d = 0
  <2>1. Damaged(p, d) = p
    BY <1>1 DEF Damaged
  <2> QED
    BY <1>1, <2>1 DEF Spoilt
<1>2. CASE d # 0
  <2> DEFINE j == 7 * (d - 1) + 3
             x == Cell(p[j].type, <<>>)
             q == [p EXCEPT ![j] = x]
             v == [ws[d] EXCEPT ![3] = x]
             vs == [ws EXCEPT ![d] = v]
  <2>1. /\ p \in Seq(U) /\ ws \in Seq(Seq(U)) /\ Len(ws) \in Nat /\ Len(p) = 7 * Len(ws)
        /\ d \in 1..Len(ws) /\ d \in Nat
    BY <1>2 DEF Rows
  <2>2. j \in 1..Len(p)
    BY <2>1
  <2>3. p[j] \in U
    BY <2>1, <2>2, ElementOfSeq
  <2>4. x \in U /\ x = [p[j] EXCEPT !.val = <<>>]
    <3>1. PICK type, val : p[j] = Cell(type, val)
      BY <2>3 DEF CellSet
    <3>2. [p[j] EXCEPT !.val = <<>>] = Cell(p[j].type, <<>>)
      BY <3>1 DEF Cell
    <3> QED
      BY <2>3, <3>2 DEF CellSet
  <2>5. Damaged(p, d) = q
    <3>1. (d - 1) * Cells + 3 = j
      BY <2>1 DEF Cells, Size
    <3>2. Damaged(p, d) = [p EXCEPT ![j] = [p[j] EXCEPT !.val = <<>>]]
      BY <1>2, <3>1 DEF Damaged
    <3> HIDE DEF j, x
    <3> QED
      BY <2>4, <3>2
  <2> HIDE DEF x
  <2>6. q \in Seq(U) /\ Len(q) = Len(p)
        /\ \A i \in 1..Len(p) : q[i] = IF i = j THEN x ELSE p[i]
    <3> HIDE DEF j
    <3> QED
      BY <2>1, <2>2, <2>4, ExceptSeq
  <2>7. ws[d] \in Seq(U) /\ Len(ws[d]) = 7
    BY <2>1 DEF Rows
  <2>8. v \in Seq(U) /\ Len(v) = 7 /\ \A k \in 1..7 : v[k] = IF k = 3 THEN x ELSE ws[d][k]
    <3> DEFINE w == ws[d]
    <3>1. w \in [1..7 -> U]
      <4>1. w \in Seq(U) /\ Len(w) = 7
        BY <2>7
      <4> HIDE DEF w
      <4> QED
        BY <4>1
    <3> HIDE DEF w
    <3>2. /\ [w EXCEPT ![3] = x] \in [1..7 -> U]
          /\ \A k \in 1..7 : [w EXCEPT ![3] = x][k] = IF k = 3 THEN x ELSE w[k]
      BY <2>4, <3>1
    <3>3. v \in [1..7 -> U] /\ \A k \in 1..7 : v[k] = IF k = 3 THEN x ELSE ws[d][k]
      BY <3>2 DEF w
    <3> HIDE DEF v
    <3> QED
      BY <3>3, FcnIsSeq, 7 \in Nat
  <2> HIDE DEF v, q
  <2>9. vs \in Seq(Seq(U)) /\ Len(vs) = Len(ws)
        /\ \A i \in 1..Len(ws) : vs[i] = IF i = d THEN v ELSE ws[i]
    <3> DEFINE n == Len(ws)
    <3>1. ws \in [1..n -> Seq(U)] /\ n \in Nat /\ d \in 1..n /\ v \in Seq(U)
      BY <2>1, <2>8
    <3> HIDE DEF n
    <3>2. vs \in [1..n -> Seq(U)] /\ \A i \in 1..n : vs[i] = IF i = d THEN v ELSE ws[i]
      BY <3>1
    <3> HIDE DEF vs
    <3>3. vs \in Seq(Seq(U)) /\ Len(vs) = n
      BY <3>1, <3>2, FcnIsSeq
    <3> QED
      BY <3>2, <3>3 DEF n
  <2> HIDE DEF vs
  <2>10. ASSUME NEW i \in 1..Len(ws)
         PROVE  Len(vs[i]) = 7 /\ \A k \in 1..7 : q[7 * (i - 1) + k] = vs[i][k]
    <3>1. Len(ws[i]) = 7 /\ \A k \in 1..7 : p[7 * (i - 1) + k] = ws[i][k]
      BY <2>10 DEF Rows
    <3>2. \A k \in 1..7 : 7 * (i - 1) + k \in 1..Len(p)
      BY <2>1
    <3>3. \A k \in 1..7 : 7 * (i - 1) + k = j <=> (i = d /\ k = 3)
      BY <2>1
    <3> HIDE DEF j
    <3> QED
      BY <2>6, <2>8, <2>9, <3>1, <3>2, <3>3
  <2>11. Rows(U, q, vs)
    BY <2>1, <2>6, <2>9, <2>10 DEF Rows
  <2>12. vs[d] = v /\ \A i \in 1..Len(ws) : i # d => vs[i] = ws[i]
    BY <2>1, <2>9
  <2>13. v[3] = x /\ x.val = <<>>
    BY <2>8 DEF x, Cell
  <2> QED
    BY <2>5, <2>8, <2>9, <2>11, <2>12, <2>13 DEF Spoilt
<1> QED
  BY <1>1, <1>2

-----------------------------------------------------------------------------
(* got[1], ..., got[k] give the messages rs up to off[1], ..., off[k], and *)
(* if there are more, the next ends the set.                               *)
Reads(S, rs, got, n, k, off) ==
    /\ rs \in Seq(S) /\ n \in Nat /\ k \in 0..n
    /\ k < n => got[k + 1] = BadCrc
    /\ off \in [0..k -> Nat] /\ off[0] = 0 /\ off[k] <= Len(rs)
    /\ \A i \in 1..k : /\ off[i - 1] <= off[i] /\ off[i] <= off[k]
                       /\ got[i] = Gives(SubSeq(rs, off[i - 1] + 1, off[i]))

(* Then the messages up to off[k] are read, and there is no error.         *)
LEMMA CollectedIs ==
    ASSUME NEW S, NEW rs, NEW got, NEW n, NEW k, NEW off, Reads(S, rs, got, n, k, off),
           NEW cells, Len(cells) \div Cells = n
    PROVE  /\ Collected(got, cells).ok
           /\ Collected(got, cells).set = SubSeq(rs, 1, off[k])
<1> USE DEF Reads
<1> DEFINE whole == {i \in 1..n : \A j \in 1..i : got[j].how = "messages"}
           s == [i \in 1..k |-> got[i].set]
           r == SubSeq(rs, 1, off[k])
<1>0. k \in Nat /\ k <= n /\ Len(rs) \in Nat /\ off[k] \in Nat
  OBVIOUS
<1>1. whole = 1..k
  <2>1. ASSUME NEW i \in 1..k PROVE got[i].how = "messages"
    <3>1. PICK t : got[i] = Gives(t)
      OBVIOUS
    <3> QED
      BY <3>1 DEF Gives
  <2>2. k < n => got[k + 1].how # "messages"
    BY DEF BadCrc
  <2>3. ASSUME NEW i \in whole PROVE i \in 1..k
    <3>1. CASE i <= k
      BY <1>0, <3>1
    <3>2. CASE ~(i <= k)
      <4>1. k < n /\ k + 1 \in 1..i
        BY <1>0, <3>2
      <4> QED
        BY <2>2, <4>1
    <3> QED
      BY <3>1, <3>2
  <2>4. ASSUME NEW i \in 1..k PROVE i \in whole
    <3>1. i \in 1..n /\ \A j \in 1..i : j \in 1..k
      BY <1>0
    <3> QED
      BY <2>1, <3>1
  <2> HIDE DEF whole
  <2> QED
    BY <2>3, <2>4
<1>2. Cardinality(whole) = k
  <2>1. Cardinality(1..k) = k
    BY <1>0, FS_Interval
  <2> QED
    BY <1>1, <2>1
<1>3. k < n => got[k + 1].how # "error"
  BY DEF BadCrc
<1>4. Collected(got, cells) = [ok |-> TRUE, set |-> FlattenSeq(s),
                               rest |-> SubSeq(cells, (k + 1) * Cells + 1, Len(cells))]
  BY <1>2, <1>3 DEF Collected
<1>5. ASSUME NEW i \in 1..k
      PROVE  /\ off[i - 1] \in Nat /\ off[i] \in Nat
             /\ s[i] \in Seq(S)
             /\ Len(s[i]) = off[i] - off[i - 1]
             /\ \A j \in 1..Len(s[i]) : s[i][j] = rs[off[i - 1] + j]
  <2> DEFINE a == off[i - 1]
             l == off[i] - off[i - 1]
             t == SubSeq(rs, a + 1, a + l)
  <2>1. i - 1 \in 0..k /\ i \in 0..k
    BY <1>0
  <2>2. off[i - 1] \in Nat /\ off[i] \in Nat
    BY <2>1
  <2>3. a \in Nat /\ l \in Nat /\ a + l = off[i] /\ a + l <= Len(rs)
    <3>1. off[i - 1] <= off[i] /\ off[i] <= Len(rs)
      <4>1. off[i - 1] <= off[i] /\ off[i] <= off[k] /\ off[k] <= Len(rs)
        OBVIOUS
      <4>2. \A x, y, z \in Nat : x <= y /\ y <= z => x <= z
        OBVIOUS
      <4> QED
        BY <1>0, <2>2, <4>1, <4>2
    <3>2. \A x, y, z \in Nat : x <= y /\ y <= z =>
             y - x \in Nat /\ x + (y - x) = y /\ x + (y - x) <= z
      OBVIOUS
    <3> QED
      BY <1>0, <2>2, <3>1, <3>2
  <2>4. s[i] = t
    <3>1. got[i] = Gives(SubSeq(rs, off[i - 1] + 1, off[i]))
      OBVIOUS
    <3> HIDE DEF Reads
    <3>2. s[i] = got[i].set
      OBVIOUS
    <3>3. \A q : Gives(q).set = q
      BY DEF Gives
    <3> HIDE DEF s
    <3>4. s[i] = SubSeq(rs, off[i - 1] + 1, off[i])
      BY <3>1, <3>2, <3>3
    <3> QED
      BY <2>3, <3>4
  <2> HIDE DEF a, l
  <2>5. t \in Seq(S) /\ Len(t) = l /\ \A j \in 1..l : t[j] = rs[a + j]
    <3>1. a \in Nat /\ l \in Nat /\ a + l <= Len(rs)
      BY <2>3
    <3>2. rs \in Seq(S)
      OBVIOUS
    <3> HIDE DEF Reads
    <3>3. \A b, j \in Nat : b + j <= Len(rs) =>
             /\ SubSeq(rs, b + 1, b + j) \in Seq(S)
             /\ Len(SubSeq(rs, b + 1, b + j)) = j
             /\ \A h \in 1..j : SubSeq(rs, b + 1, b + j)[h] = rs[b + h]
      BY <3>2, Slices, Zenon
    <3> QED
      BY <3>1, <3>3
  <2> HIDE DEF t, s
  <2> QED
    BY <2>2, <2>4, <2>5 DEF a, l
<1>6. s \in [1..k -> Seq(S)]
  BY <1>5
<1> HIDE DEF s
<1>7. s \in Seq(Seq(S)) /\ Len(s) = k
  BY <1>0, <1>6, FcnIsSeq
<1>8. Ends(s, off)
  <2>1. ASSUME NEW i \in 1..k PROVE off[i] = off[i - 1] + Len(s[i])
    <3>1. off[i - 1] \in Nat /\ off[i] \in Nat /\ Len(s[i]) = off[i] - off[i - 1]
      BY <1>5
    <3>2. \A a, b \in Nat : b = a + (b - a)
      OBVIOUS
    <3> QED
      BY <3>1, <3>2
  <2> QED
    BY <1>7, <2>1 DEF Ends
<1>9. r \in Seq(S) /\ Len(r) = off[k] /\ \A j \in 1..off[k] : r[j] = rs[j]
  <2> DEFINE e == SubSeq(rs, 0 + 1, 0 + off[k])
  <2>1. 0 \in Nat /\ 0 + off[k] <= Len(rs) /\ 0 + off[k] = off[k]
    BY <1>0
  <2>2. e \in Seq(S) /\ Len(e) = off[k] /\ \A j \in 1..off[k] : e[j] = rs[0 + j]
    BY <1>0, <2>1, Slice
  <2>3. r = e
    BY <2>1
  <2> QED
    BY <1>0, <2>2, <2>3
<1> HIDE DEF r
<1>10. Parts(s, off, r, k)
  <2>1. ASSUME NEW i \in 1..k, NEW j \in 1..Len(s[i]) PROVE r[off[i - 1] + j] = s[i][j]
    <3>1. off[i - 1] + j \in 1..off[k]
      <4>1. off[i] <= off[k]
        OBVIOUS
      <4>2. \A a, b, c \in Nat : \A jj \in 1..(b - a) : b <= c => a + jj \in 1..c
        OBVIOUS
      <4> QED
        BY <1>0, <1>5, <4>1, <4>2
    <3> QED
      BY <1>5, <1>9, <3>1
  <2> QED
    BY <1>9, <2>1 DEF Parts
<1>11. FlattenSeq(s) = r
  BY <1>7, <1>8, <1>9, <1>10, FlattenIs
<1> QED
  BY <1>4, <1>11 DEF r

(* What one message comes to.  A message that is not compressed gives      *)
(* itself, wherever it is.                                                 *)
LEMMA ReadEntry ==
    ASSUME NEW m
    PROVE  /\ readMessage(Failed, writeMessage(m, 0)) = Gives(<<MessageAsRead(m)>>)
           /\ readMessage(Inner(writeMessage(m, 0)), writeMessage(m, 0))
              = Gives(<<MessageAsRead(m)>>)
<1> DEFINE c == writeMessage(m, 0)
<1>1. /\ c[1].val = m.Offset /\ c[3].val = SubSeq(c, 4, 7) /\ c[5].val = 0
      /\ c[6].val = m.Key /\ c[7].val = m.Value
  BY WrittenIs
<1> HIDE DEF c
<1>2. Cells = 7
  BY DEF Cells, Size
<1>3. MessageAsRead(m) = [Key |-> DecodeBytes(c[6].val), Value |-> DecodeBytes(c[7].val),
                  Offset |-> c[1].val]
  BY <1>1 DEF MessageAsRead, AsNil, DecodeBytes
<1>4. readMessage(Failed, c) = Gives(<<MessageAsRead(m)>>)
  BY <1>1, <1>2, <1>3 DEF readMessage
<1>5. readMessage(Inner(c), c) = Gives(<<MessageAsRead(m)>>)
  BY <1>1, <1>2, <1>3 DEF readMessage
<1> QED
  BY <1>4, <1>5 DEF c

(* A message with a wrong CRC ends the set, wherever it is.                *)
LEMMA ReadDamaged ==
    ASSUME NEW U, NEW c \in Seq(U), Len(c) = 7, c[3].val = <<>>
    PROVE  /\ readMessage(Failed, c) = BadCrc
           /\ readMessage(Inner(c), c) = BadCrc
<1>1. Cells = 7
  BY DEF Cells, Size
<1>2. SubSeq(c, 4, 7) # <<>>
  <2>1. 3 \in Nat /\ 4 \in Nat /\ 3 + 4 <= Len(c)
    OBVIOUS
  <2>2. Len(SubSeq(c, 3 + 1, 3 + 4)) = 4
    BY <2>1, Slice, Zenon
  <2>3. 3 + 1 = 4 /\ 3 + 4 = 7
    OBVIOUS
  <2>4. Len(SubSeq(c, 4, 7)) = 4
    BY <2>2, <2>3
  <2>5. Len(<<>>) # 4
    OBVIOUS
  <2> QED
    BY <2>4, <2>5, Zenon
<1>3. c[3].val # SubSeq(c, 4, Cells)
  BY <1>1, <1>2
<1> QED
  BY <1>3 DEF readMessage

(* A compressed set gives what can be read of it.                          *)
LEMMA ReadPacked ==
    ASSUME NEW o, NEW codec \in 1..3, NEW set
    PROVE  LET c == writeMessage([Key |-> "nil", Value |-> Compress(codec, set),
                                  Offset |-> o], codec)
           IN  readMessage(Inner(c), c) =
                   IF codec = 3 \/ ~readInnerSet(set).ok THEN Undecodable
                   ELSE Gives(readInnerSet(set).set)
<1> DEFINE m == [Key |-> "nil", Value |-> Compress(codec, set), Offset |-> o]
           c == writeMessage(m, codec)
<1>1. c[3].val = SubSeq(c, 4, 7) /\ c[5].val = codec /\ c[7].val = m.Value
  <2> HIDE DEF m
  <2> QED
    BY WrittenIs
<1>2. m.Value.codec = codec /\ m.Value.set = set
  BY DEF Compress
<1>3. Cells = 7 /\ codec # 0
  BY DEF Cells, Size
<1> HIDE DEF c, m
<1>4. readMessage(Inner(c), c) =
          IF codec = 3 \/ ~readInnerSet(set).ok THEN Undecodable
          ELSE Gives(readInnerSet(set).set)
  BY <1>1, <1>2, <1>3 DEF readMessage, Inner
<1> QED
  BY <1>4 DEF c, m

-----------------------------------------------------------------------------
(* Messages with keys from K and values from V.                            *)
Entries(K, V) == [Key : K, Value : V, Offset : Nat]

(* The set of what can be read.                                            *)
ReadSet(K, V) == {MessageAsRead(m) : m \in Entries(K, V)}

(* What is expected to be read, as a sequence.                             *)
LEMMA AsReadIs ==
    ASSUME NEW K, NEW V, NEW ms \in Seq(Entries(K, V))
    PROVE  /\ AsRead(ms) \in Seq(ReadSet(K, V))
           /\ Len(AsRead(ms)) = Len(ms)
           /\ \A i \in 1..Len(ms) : AsRead(ms)[i] = MessageAsRead(ms[i])
<1> DEFINE n == Len(ms)
           r == AsRead(ms)
<1>1. n \in Nat /\ DOMAIN ms = 1..n
  OBVIOUS
<1>2. ASSUME NEW i \in 1..n
      PROVE  r[i] = MessageAsRead(ms[i]) /\ r[i] \in ReadSet(K, V)
  <2>1. ms[i] \in Entries(K, V)
    OBVIOUS
  <2>3. r[i] = MessageAsRead(ms[i])
    BY <1>1 DEF AsRead
  <2> QED
    BY <2>1, <2>3 DEF ReadSet
<1>3. r = [i \in 1..n |-> r[i]]
  BY <1>1 DEF AsRead
<1> HIDE DEF r
<1>4. r \in [1..n -> ReadSet(K, V)]
  BY <1>2, <1>3
<1>5. r \in Seq(ReadSet(K, V)) /\ Len(r) = n
  BY <1>1, <1>4, FcnIsSeq
<1> QED
  BY <1>2, <1>5 DEF r

-----------------------------------------------------------------------------
(* A prefix of a sequence.                                                 *)
LEMMA Prefix ==
    ASSUME NEW S, NEW s \in Seq(S), NEW n \in 0..Len(s)
    PROVE  /\ SubSeq(s, 1, n) \in Seq(S)
           /\ Len(SubSeq(s, 1, n)) = n
           /\ \A k \in 1..n : SubSeq(s, 1, n)[k] = s[k]
<1> DEFINE e == SubSeq(s, 0 + 1, 0 + n)
<1>1. 0 \in Nat /\ n \in Nat /\ 0 + n <= Len(s) /\ 0 + 1 = 1 /\ 0 + n = n
  OBVIOUS
<1>2. e \in Seq(S) /\ Len(e) = n /\ \A k \in 1..n : e[k] = s[0 + k]
  BY <1>1, Slice
<1>3. SubSeq(s, 1, n) = e /\ \A k \in 1..n : 0 + k = k
  BY <1>1
<1> QED
  BY <1>2, <1>3

(* All of a sequence.                                                      *)
LEMMA WholePrefix ==
    ASSUME NEW S, NEW s \in Seq(S)
    PROVE  SubSeq(s, 1, Len(s)) = s
<1> DEFINE e == SubSeq(s, 1, Len(s))
<1>1. Len(s) \in 0..Len(s)
  OBVIOUS
<1>2. e \in Seq(S) /\ Len(e) = Len(s) /\ \A k \in 1..Len(s) : e[k] = s[k]
  BY <1>1, Prefix
<1> HIDE DEF e
<1>3. e = s
  BY <1>2, SeqEqual
<1> QED
  BY <1>3 DEF e

(* A slice with one element.                                               *)
LEMMA JustOne ==
    ASSUME NEW S, NEW s \in Seq(S), NEW i \in 1..Len(s)
    PROVE  SubSeq(s, i, i) = <<s[i]>>
<1> DEFINE a == i - 1
           e == SubSeq(s, a + 1, a + 1)
<1>1. a \in Nat /\ 1 \in Nat /\ a + 1 <= Len(s) /\ a + 1 = i
  OBVIOUS
<1>2. s[i] \in S
  OBVIOUS
<1> HIDE DEF a
<1>3. e \in Seq(S) /\ Len(e) = 1 /\ \A k \in 1..1 : e[k] = s[a + k]
  BY <1>1, Slice
<1> HIDE DEF e
<1>4. e[1] = s[i]
  BY <1>1, <1>3
<1>5. e = <<s[i]>>
  <2> DEFINE t == <<s[i]>>
  <2>1. t \in Seq(S) /\ Len(t) = 1 /\ t[1] = s[i]
    BY <1>2
  <2> HIDE DEF t
  <2>2. \A j \in 1..1 : j = 1
    OBVIOUS
  <2>3. e = t
    BY <1>3, <1>4, <2>1, <2>2, SeqEqual
  <2> QED
    BY <2>3 DEF t
<1> QED
  BY <1>1, <1>5 DEF e

(* Reading the rows of a set, up to a cut.                                 *)
LEMMA ReadRows ==
    ASSUME NEW U, NEW p, NEW ws, Rows(U, p, ws), NEW n \in 0..Len(p)
    PROVE  /\ Len(SubSeq(p, 1, n)) \div Cells = n \div 7
           /\ n \div 7 \in 0..Len(ws)
           /\ readInnerSet(SubSeq(p, 1, n)) =
                 Collected([i \in 1..(n \div 7) |-> readMessage(Failed, ws[i])],
                           SubSeq(p, 1, n))
           /\ readMessageSet(SubSeq(p, 1, n)) =
                 Collected([i \in 1..(n \div 7) |-> readMessage(Inner(ws[i]), ws[i])],
                           SubSeq(p, 1, n))
<1> DEFINE c == SubSeq(p, 1, n)
           d == n \div 7
<1>1. Len(c) = n /\ d \in 0..Len(ws) /\ \A i \in 1..d : Chunk(c, i) = ws[i]
  BY RowsCut
<1>2. Len(c) \div Cells = d
  BY <1>1 DEF Cells, Size
<1> HIDE DEF c, d
<1>3. [i \in 1..d |-> readMessage(Failed, Chunk(c, i))]
      = [i \in 1..d |-> readMessage(Failed, ws[i])]
  BY <1>1
<1>4. [i \in 1..d |-> readMessage(Inner(Chunk(c, i)), Chunk(c, i))]
      = [i \in 1..d |-> readMessage(Inner(ws[i]), ws[i])]
  BY <1>1
<1>5. readInnerSet(c) = Collected([i \in 1..d |-> readMessage(Failed, ws[i])], c)
  BY <1>2, <1>3 DEF readInnerSet
<1>6. readMessageSet(c) = Collected([i \in 1..d |-> readMessage(Inner(ws[i]), ws[i])], c)
  BY <1>2, <1>4 DEF readMessageSet
<1> QED
  BY <1>1, <1>2, <1>5, <1>6 DEF c, d

(* The rows of messages that are not compressed.                           *)
Entered(U, ms, ws) ==
    /\ Rows(U, PlainSet(ms), ws)
    /\ Len(ws) = Len(ms)
    /\ \A i \in 1..Len(ms) : ws[i] = writeMessage(ms[i], 0)

(* They exist, for any messages.                                           *)
LEMMA PlainRows ==
    ASSUME NEW U, NEW S, NEW ms \in Seq(S),
           \A i \in 1..Len(ms) : writeMessage(ms[i], 0) \in Seq(U)
    PROVE  \E ws : Entered(U, ms, ws)
<1> DEFINE n == Len(ms)
           ws == [i \in 1..n |-> writeMessage(ms[i], 0)]
<1>1. n \in Nat /\ DOMAIN ms = 1..n
  OBVIOUS
<1>2. PlainSet(ms) = FlattenSeq(ws)
  BY <1>1 DEF PlainSet
<1>3. ws \in [1..n -> Seq(U)]
  OBVIOUS
<1>4. \A i \in 1..n : ws[i] = writeMessage(ms[i], 0)
  OBVIOUS
<1> HIDE DEF ws
<1>5. ws \in Seq(Seq(U)) /\ Len(ws) = n
  BY <1>1, <1>3, FcnIsSeq
<1>6. \A i \in 1..n : Len(ws[i]) = 7
  BY <1>4, WrittenIs
<1>7. Rows(U, PlainSet(ms), ws)
  BY <1>2, <1>5, <1>6, RowsFlat
<1> QED
  BY <1>4, <1>5, <1>7 DEF Entered

(* What is read of a set that is not compressed, on its own or inside a    *)
(* compressed one.                                                         *)
LEMMA InnerIs ==
    ASSUME NEW K, NEW V, NEW ms \in Seq(Entries(K, V)), NEW d \in 0..Len(ms)
    PROVE  /\ readInnerSet(Damaged(PlainSet(ms), d)).ok
           /\ readInnerSet(Damaged(PlainSet(ms), d)).set =
                 SubSeq(AsRead(ms), 1, IF d = 0 THEN Len(ms) ELSE d - 1)
           /\ readMessageSet(Damaged(PlainSet(ms), d)) = readInnerSet(Damaged(PlainSet(ms), d))
<1> DEFINE n == Len(ms)
           k == IF d = 0 THEN n ELSE d - 1
           q == Damaged(PlainSet(ms), d)
           rs == AsRead(ms)
           us == [i \in 1..n |-> writeMessage(ms[i], 0)]
           S == ReadSet(K, V)
<1>1. n \in Nat /\ d \in Nat /\ d <= n /\ k \in 0..n
  OBVIOUS
<1>2. PICK U : CellSet(U) /\ us \in Seq(Seq(U)) /\ Len(us) = n
  <2>1. us = [i \in 1..n |-> us[i]]
        /\ \A i \in 1..n : \E m, codec : us[i] = writeMessage(m, codec)
    OBVIOUS
  <2> HIDE DEF us
  <2> QED
    BY <1>1, <2>1, Universe
<1>3. \A i \in 1..n : writeMessage(ms[i], 0) \in Seq(U)
  <2>1. \A i \in 1..n : us[i] = writeMessage(ms[i], 0)
    OBVIOUS
  <2> HIDE DEF us
  <2> QED
    BY <1>2, <2>1
<1> HIDE DEF us
<1>3a. PICK ws : Entered(U, ms, ws)
  BY <1>3, PlainRows
<1>4. /\ Rows(U, PlainSet(ms), ws)
      /\ Len(ws) = n
      /\ \A i \in 1..n : ws[i] = writeMessage(ms[i], 0)
  BY <1>3a DEF Entered
<1>4a. PICK vs : Spoilt(U, PlainSet(ms), d, ws, vs)
  <2>1. d \in 0..Len(ws)
    BY <1>4
  <2> QED
    BY <1>2, <1>4, <2>1, RowsDamaged
<1>5. /\ Rows(U, q, vs)
      /\ Len(vs) = n
      /\ \A i \in 1..n : i # d => vs[i] = ws[i]
      /\ d # 0 => vs[d] \in Seq(U) /\ Len(vs[d]) = 7 /\ vs[d][3].val = <<>>
  BY <1>4, <1>4a DEF Spoilt
<1> HIDE DEF q
<1>6. q \in Seq(U) /\ Len(q) = 7 * n /\ SubSeq(q, 1, Len(q)) = q
  <2>1. q \in Seq(U) /\ Len(q) = 7 * n
    BY <1>5 DEF Rows
  <2> QED
    BY <2>1, WholePrefix
<1> DEFINE got == [i \in 1..n |-> readMessage(Failed, vs[i])]
           up == [i \in 1..n |-> readMessage(Inner(vs[i]), vs[i])]
<1>7. /\ Len(q) \div Cells = n /\ readInnerSet(q) = Collected(got, q)
      /\ readMessageSet(q) = Collected(up, q)
  <2>1. Len(q) \in 0..Len(q)
    BY <1>6
  <2>2. /\ Len(SubSeq(q, 1, Len(q))) \div Cells = Len(q) \div 7
        /\ readInnerSet(SubSeq(q, 1, Len(q))) =
             Collected([i \in 1..(Len(q) \div 7) |-> readMessage(Failed, vs[i])],
                       SubSeq(q, 1, Len(q)))
        /\ readMessageSet(SubSeq(q, 1, Len(q))) =
             Collected([i \in 1..(Len(q) \div 7) |-> readMessage(Inner(vs[i]), vs[i])],
                       SubSeq(q, 1, Len(q)))
    <3>1. Rows(U, q, vs)
      BY <1>5
    <3> QED
      BY <2>1, <3>1, ReadRows, Zenon
  <2>3. Len(q) \div 7 = n
    BY <1>1, <1>6
  <2> QED
    BY <1>6, <2>2, <2>3
<1>8. rs \in Seq(S) /\ Len(rs) = n /\ \A i \in 1..n : rs[i] = MessageAsRead(ms[i])
  BY AsReadIs
<1>7a. up = got
  <2>1. ASSUME NEW i \in 1..n
        PROVE  readMessage(Inner(vs[i]), vs[i]) = readMessage(Failed, vs[i])
    <3>1. CASE i = d
      <4>1. vs[i] \in Seq(U) /\ Len(vs[i]) = 7 /\ vs[i][3].val = <<>>
        BY <1>5, <3>1
      <4> QED
        BY <4>1, ReadDamaged
    <3>2. CASE i # d
      <4>1. vs[i] = writeMessage(ms[i], 0)
        BY <1>4, <1>5, <3>2
      <4> QED
        BY <4>1, ReadEntry
    <3> QED
      BY <3>1, <3>2
  <2> QED
    BY <2>1
<1> HIDE DEF up
<1> DEFINE off == [i \in 0..k |-> i]
<1>9. ASSUME NEW i \in 1..k
      PROVE  /\ off[i - 1] <= off[i] /\ off[i] <= off[k]
             /\ got[i] = Gives(SubSeq(rs, off[i - 1] + 1, off[i]))
  <2>1. i \in 1..n /\ i # d /\ i - 1 \in 0..k /\ i \in 0..k /\ k \in 0..k /\ i <= k
    BY <1>1
  <2>2. off[i - 1] = i - 1 /\ off[i] = i /\ off[k] = k
    BY <2>1
  <2>3. got[i] = Gives(<<MessageAsRead(ms[i])>>)
    <3>1. vs[i] = writeMessage(ms[i], 0)
      BY <1>4, <1>5, <2>1
    <3> QED
      BY <2>1, <3>1, ReadEntry
  <2>4. SubSeq(rs, (i - 1) + 1, i) = <<MessageAsRead(ms[i])>>
    <3>1. SubSeq(rs, i, i) = <<rs[i]>>
      <4>1. i \in 1..Len(rs)
        BY <1>8, <2>1
      <4> QED
        BY <1>8, <4>1, JustOne
    <3>2. (i - 1) + 1 = i
      BY <2>1
    <3> QED
      BY <1>8, <2>1, <3>1, <3>2
  <2> HIDE DEF off, got, rs
  <2>5. got[i] = Gives(SubSeq(rs, off[i - 1] + 1, off[i]))
    BY <2>2, <2>3, <2>4
  <2>6. i - 1 <= i /\ i <= k
    BY <2>1
  <2> QED
    BY <2>2, <2>5, <2>6
<1>10. k < n => got[k + 1] = BadCrc
  <2> SUFFICES ASSUME k < n PROVE got[k + 1] = BadCrc
    OBVIOUS
  <2>1. d # 0 /\ k + 1 = d /\ d \in 1..n
    BY <1>1
  <2>2. readMessage(Failed, vs[d]) = BadCrc
    <3>1. vs[d] \in Seq(U) /\ Len(vs[d]) = 7 /\ vs[d][3].val = <<>>
      BY <1>5, <2>1
    <3> QED
      BY <3>1, ReadDamaged
  <2> QED
    BY <2>1, <2>2
<1>11. off \in [0..k -> Nat] /\ off[0] = 0 /\ off[k] = k /\ off[k] <= Len(rs)
  BY <1>1, <1>8
<1> HIDE DEF off, got, rs, S, k
<1>12. Collected(got, q).ok /\ Collected(got, q).set = SubSeq(rs, 1, off[k])
  <2>1. Reads(S, rs, got, n, k, off)
    BY <1>1, <1>8, <1>9, <1>10, <1>11 DEF Reads
  <2> QED
    BY <1>7, <2>1, CollectedIs
<1> QED
  BY <1>7, <1>7a, <1>11, <1>12 DEF q, rs, k

(* Two sequences, one after the other.                                     *)
LEMMA Joined ==
    ASSUME NEW S, NEW s \in Seq(S), NEW t \in Seq(S)
    PROVE  /\ s \o t \in Seq(S)
           /\ Len(s \o t) = Len(s) + Len(t)
           /\ \A i \in 1..Len(s) : (s \o t)[i] = s[i]
           /\ \A i \in 1..Len(t) : (s \o t)[Len(s) + i] = t[i]
OBVIOUS

(* What Kafka may make of the messages ms.                                 *)
Sendable(ms, b) ==
    /\ b.size \in 1..Len(ms)
    /\ b.codec \in 0..3
    /\ b.in \in 0..b.size
    /\ b.codec = 0 => b.size = 1 /\ b.in = 0
    /\ b.out \in 0..TopLevel(ms, b)

(* The numbers in it.                                                      *)
LEMMA SendableIs ==
    ASSUME NEW S, NEW ms \in Seq(S), NEW b, Sendable(ms, b)
    PROVE  /\ Len(ms) \in Nat /\ b.size \in Nat /\ b.size >= 1 /\ b.size <= Len(ms)
           /\ Len(ms) - b.size \in Nat
           /\ TopLevel(ms, b) = Len(ms) - b.size + 1
           /\ b.in \in Nat /\ b.in <= b.size /\ b.out \in Nat
           /\ b.codec \in 0..3
<1>1. Len(ms) \in Nat
  OBVIOUS
<1>2. b.size \in 1..Len(ms) /\ b.codec \in 0..3 /\ (b.codec = 0 => b.size = 1)
  BY DEF Sendable
<1>3. TopLevel(ms, b) = Len(ms) - b.size + 1
  BY <1>1, <1>2 DEF TopLevel
<1>4. b.in \in 0..b.size /\ b.out \in 0..(Len(ms) - b.size + 1)
  BY <1>3 DEF Sendable
<1> QED
  BY <1>1, <1>2, <1>3, <1>4

(* The first message of the set that Kafka sends; how many messages of the *)
(* first batch come before a damaged one in it.                            *)
FirstSent(ms, b) ==
    IF b.codec = 0 THEN writeMessage(ms[1], 0)
    ELSE Packed(SubSeq(ms, 1, b.size), b.codec, b.in)

Kept(b) == IF b.in = 0 THEN b.size ELSE b.in - 1

(* It gives the messages of the batch, up to a damaged one.                *)
LEMMA FirstSentGives ==
    ASSUME NEW K, NEW V, NEW ms \in Seq(Entries(K, V)), NEW b, Sendable(ms, b)
    PROVE  /\ \E m, codec : FirstSent(ms, b) = writeMessage(m, codec)
           /\ b.codec = 3 => readMessage(Inner(FirstSent(ms, b)), FirstSent(ms, b)) = Undecodable
           /\ b.codec # 3 => readMessage(Inner(FirstSent(ms, b)), FirstSent(ms, b)) =
                                Gives(SubSeq(AsRead(ms), 1, Kept(b)))
<1> DEFINE rs == AsRead(ms)
           E == Entries(K, V)
           S == ReadSet(K, V)
           k == Kept(b)
<1>1. /\ Len(ms) \in Nat /\ b.size \in Nat /\ b.size >= 1 /\ b.size <= Len(ms)
      /\ b.in \in Nat /\ b.in <= b.size /\ b.codec \in 0..3
  BY SendableIs
<1>2. rs \in Seq(S) /\ Len(rs) = Len(ms) /\ \A i \in 1..Len(ms) : rs[i] = MessageAsRead(ms[i])
  BY AsReadIs
<1>3. k \in 0..b.size
  BY <1>1 DEF Kept
<1> HIDE DEF rs, E, S
<1>4. CASE b.codec = 0
  <2>1. b.size = 1 /\ b.in = 0 /\ k = 1
    BY <1>4 DEF Sendable, Kept
  <2>2. FirstSent(ms, b) = writeMessage(ms[1], 0)
    BY <1>4 DEF FirstSent
  <2>3. SubSeq(rs, 1, 1) = <<MessageAsRead(ms[1])>>
    <3>1. 1 \in 1..Len(rs)
      BY <1>1, <1>2
    <3> QED
      BY <1>1, <1>2, <3>1, JustOne
  <2>4. readMessage(Inner(FirstSent(ms, b)), FirstSent(ms, b)) = Gives(SubSeq(rs, 1, k))
    <3>1. readMessage(Inner(writeMessage(ms[1], 0)), writeMessage(ms[1], 0))
          = Gives(<<MessageAsRead(ms[1])>>)
      BY ReadEntry
    <3> QED
      BY <2>1, <2>2, <2>3, <3>1
  <2> QED
    BY <1>4, <2>2, <2>4 DEF rs
<1>5. CASE b.codec # 0
  <2> DEFINE h == SubSeq(ms, 1, b.size)
             set == Damaged(PlainSet(h), b.in)
             m == [Key |-> "nil", Value |-> Compress(b.codec, set), Offset |-> Last(h).Offset]
  <2>1. b.codec \in 1..3
    BY <1>1, <1>5
  <2>2. FirstSent(ms, b) = writeMessage(m, b.codec)
    BY <1>5 DEF FirstSent, Packed
  <2>3. h \in Seq(E) /\ Len(h) = b.size /\ \A i \in 1..b.size : h[i] = ms[i]
    <3>1. b.size \in 0..Len(ms)
      BY <1>1
    <3> QED
      BY <3>1, Prefix DEF E
  <2> HIDE DEF h
  <2>4. readInnerSet(set).ok /\ readInnerSet(set).set = SubSeq(AsRead(h), 1, k)
    <3>1. b.in \in 0..Len(h)
      BY <1>1, <2>3
    <3>2. /\ readInnerSet(set).ok
          /\ readInnerSet(set).set = SubSeq(AsRead(h), 1, IF b.in = 0 THEN Len(h) ELSE b.in - 1)
      BY <2>3, <3>1, InnerIs DEF E
    <3> QED
      BY <2>3, <3>2 DEF Kept
  <2>5. SubSeq(AsRead(h), 1, k) = SubSeq(rs, 1, k)
    <3> DEFINE hs == AsRead(h)
               x == SubSeq(hs, 1, k)
               y == SubSeq(rs, 1, k)
    <3>1. hs \in Seq(S) /\ Len(hs) = b.size /\ \A i \in 1..b.size : hs[i] = MessageAsRead(h[i])
      BY <2>3, AsReadIs DEF E, S
    <3> HIDE DEF hs, k
    <3>2. x \in Seq(S) /\ Len(x) = k /\ \A i \in 1..k : x[i] = hs[i]
      <4>1. k \in 0..Len(hs)
        BY <1>3, <3>1
      <4> QED
        BY <3>1, <4>1, Prefix
    <3>3. y \in Seq(S) /\ Len(y) = k /\ \A i \in 1..k : y[i] = rs[i]
      <4>1. k \in 0..Len(rs)
        BY <1>1, <1>2, <1>3
      <4> QED
        BY <1>2, <4>1, Prefix
    <3>4. \A i \in 1..k : i \in 1..b.size /\ i \in 1..Len(ms)
      BY <1>1, <1>3
    <3> HIDE DEF x, y
    <3>5. \A i \in 1..k : x[i] = y[i]
      BY <1>2, <2>3, <3>1, <3>2, <3>3, <3>4
    <3>6. x = y
      BY <3>2, <3>3, <3>5, SeqEqual
    <3> QED
      BY <3>6 DEF x, y, hs
  <2>6. readMessage(Inner(FirstSent(ms, b)), FirstSent(ms, b)) =
            IF b.codec = 3 THEN Undecodable ELSE Gives(SubSeq(rs, 1, k))
    <3>1. readMessage(Inner(writeMessage(m, b.codec)), writeMessage(m, b.codec)) =
              IF b.codec = 3 \/ ~readInnerSet(set).ok THEN Undecodable
              ELSE Gives(readInnerSet(set).set)
      <4> HIDE DEF set
      <4> QED
        BY <2>1, ReadPacked
    <3> HIDE DEF set, m
    <3> QED
      BY <2>2, <2>4, <2>5, <3>1
  <2> HIDE DEF m
  <2> QED
    BY <2>2, <2>6 DEF rs
<1> QED
  BY <1>4, <1>5

(* The messages of a set that Kafka sends.                                 *)
LEMMA KafkaRows ==
    ASSUME NEW K, NEW V, NEW ms \in Seq(Entries(K, V)), NEW b, Sendable(ms, b)
    PROVE  \E U, vs :
              /\ Rows(U, KafkaSet(ms, b), vs)
              /\ Len(vs) = Len(ms) - b.size + 1
              /\ b.out # 1 => vs[1] = FirstSent(ms, b)
              /\ \A i \in 2..Len(vs) :
                    b.out # i => vs[i] = writeMessage(ms[b.size + i - 1], 0)
              /\ b.out # 0 => vs[b.out] \in Seq(U) /\ Len(vs[b.out]) = 7 /\ vs[b.out][3].val = <<>>
<1> DEFINE l == Len(ms) - b.size
           head == SubSeq(ms, 1, b.size)
           tail == SubSeq(ms, b.size + 1, Len(ms))
           pack == Packed(head, b.codec, b.in)
           us == [i \in 1..(l + 1) |-> IF i = 1 THEN FirstSent(ms, b)
                                       ELSE writeMessage(ms[b.size + i - 1], 0)]
           E == Entries(K, V)
<1>1. /\ Len(ms) \in Nat /\ b.size \in Nat /\ b.size >= 1 /\ b.size <= Len(ms)
      /\ l \in Nat /\ TopLevel(ms, b) = l + 1 /\ b.size + l = Len(ms)
  BY SendableIs
<1>2. head \in Seq(E) /\ Len(head) = b.size /\ \A i \in 1..b.size : head[i] = ms[i]
  <2>1. b.size \in 0..Len(ms)
    BY <1>1
  <2> QED
    BY <2>1, Prefix
<1>3. tail \in Seq(E) /\ Len(tail) = l /\ \A i \in 1..l : tail[i] = ms[b.size + i]
  <2> DEFINE e == SubSeq(ms, b.size + 1, b.size + l)
  <2> HIDE DEF l, E
  <2>1. b.size \in Nat /\ l \in Nat /\ b.size + l <= Len(ms)
    BY <1>1
  <2>2. e \in Seq(E) /\ Len(e) = l /\ \A i \in 1..l : e[i] = ms[b.size + i]
    BY <2>1, Slice DEF E
  <2>3. e = tail
    BY <1>1
  <2> QED
    BY <2>2, <2>3
<1> HIDE DEF head, tail, l, E
<1>4. PICK U : CellSet(U) /\ us \in Seq(Seq(U)) /\ Len(us) = l + 1
               /\ \A i \in 1..(l + 1) : Len(us[i]) = 7
  <2>1. us = [i \in 1..(l + 1) |-> us[i]]
    OBVIOUS
  <2>2. PICK m0, codec0 : FirstSent(ms, b) = writeMessage(m0, codec0)
    BY FirstSentGives
  <2>3. ASSUME NEW i \in 1..(l + 1) PROVE \E m, codec : us[i] = writeMessage(m, codec)
    BY <2>2
  <2>4. l + 1 \in Nat
    BY <1>1
  <2> HIDE DEF us
  <2> QED
    BY <2>1, <2>3, <2>4, Universe
<1>5. us[1] = FirstSent(ms, b)
      /\ \A i \in 2..(l + 1) : us[i] = writeMessage(ms[b.size + i - 1], 0)
  <2>1. 1 \in 1..(l + 1) /\ \A i \in 2..(l + 1) : i \in 1..(l + 1) /\ i # 1
    BY <1>1
  <2> QED
    BY <2>1
<1> HIDE DEF us
<1>6. FirstSent(ms, b) \in Seq(U) /\ Len(FirstSent(ms, b)) = 7
  <2>1. 1 \in 1..(l + 1)
    BY <1>1
  <2>2. us[1] \in Seq(U)
    BY <1>4, <2>1
  <2> QED
    BY <1>4, <1>5, <2>1, <2>2
<1>7. \A i \in 1..l : writeMessage(tail[i], 0) \in Seq(U) /\ tail[i] = ms[b.size + (i + 1) - 1]
  <2> SUFFICES ASSUME NEW i \in 1..l
               PROVE  writeMessage(tail[i], 0) \in Seq(U) /\ tail[i] = ms[b.size + (i + 1) - 1]
    OBVIOUS
  <2>1. i + 1 \in 2..(l + 1) /\ i + 1 \in 1..(l + 1) /\ b.size + (i + 1) - 1 = b.size + i
    BY <1>1
  <2>2. us[i + 1] \in Seq(U) /\ us[i + 1] = writeMessage(ms[b.size + (i + 1) - 1], 0)
    BY <1>4, <1>5, <2>1
  <2> QED
    BY <1>3, <2>1, <2>2
<1>8. PICK hs : Rows(U, pack, hs) /\ Len(hs) = 1 /\ hs[1] = FirstSent(ms, b)
  <2>1. CASE b.codec = 0
    <3>1. b.size = 1 /\ pack = PlainSet(head) /\ FirstSent(ms, b) = writeMessage(ms[1], 0)
      BY <2>1 DEF Sendable, Packed, FirstSent
    <3>2. Len(head) = 1 /\ head[1] = ms[1] /\ \A i \in 1..1 : i = 1
      BY <1>2, <3>1
    <3>3. \A i \in 1..Len(head) : writeMessage(head[i], 0) \in Seq(U)
      BY <1>6, <3>1, <3>2
    <3>4. PICK ws : Entered(U, head, ws)
      <4>1. head \in Seq(E)
        BY <1>2
      <4> QED
        BY <3>3, <4>1, PlainRows
    <3>5. ws[1] = writeMessage(head[1], 0)
      BY <3>2, <3>4 DEF Entered
    <3> HIDE DEF pack
    <3> QED
      BY <3>1, <3>2, <3>4, <3>5 DEF Entered
  <2>2. CASE b.codec # 0
    <3> DEFINE f == FirstSent(ms, b)
    <3>1. pack = f
      BY <2>2 DEF FirstSent, head
    <3> HIDE DEF f, pack
    <3>2. f \in Seq(U) /\ Len(f) = 7
      BY <1>6 DEF f
    <3>3. <<f>> \in Seq(Seq(U)) /\ Len(<<f>>) = 1 /\ <<f>>[1] = f
      BY <3>2
    <3>4. Rows(U, f, <<f>>)
      <4> DEFINE t == <<f>>
      <4>1. t \in Seq(Seq(U)) /\ Len(t) = 1 /\ t[1] = f
        BY <3>3
      <4> HIDE DEF t
      <4>2. \A i \in 1..1 : i = 1 /\ \A j \in 1..7 : 7 * (i - 1) + j = j
        OBVIOUS
      <4>3. Rows(U, f, t)
        BY <3>2, <4>1, <4>2 DEF Rows
      <4> QED
        BY <4>3 DEF t
    <3> QED
      BY <3>1, <3>3, <3>4 DEF f
  <2> QED
    BY <2>1, <2>2
<1>9a. PICK ts : Entered(U, tail, ts)
  <2>1. tail \in Seq(E) /\ Len(tail) = l
    BY <1>3
  <2>2. \A i \in 1..Len(tail) : writeMessage(tail[i], 0) \in Seq(U)
    BY <1>3, <1>7
  <2> QED
    BY <2>1, <2>2, PlainRows
<1>9. Rows(U, PlainSet(tail), ts) /\ Len(ts) = l
      /\ \A i \in 1..l : ts[i] = writeMessage(tail[i], 0)
  BY <1>3, <1>9a DEF Entered
<1> DEFINE p == pack \o PlainSet(tail)
           ws == hs \o ts
<1>10. KafkaSet(ms, b) = Damaged(p, b.out)
  BY DEF KafkaSet, head, tail
<1> HIDE DEF pack
<1>11. Rows(U, p, ws)
  BY <1>8, <1>9, RowsJoin
<1>12. /\ Len(ws) = l + 1 /\ ws[1] = FirstSent(ms, b)
       /\ \A i \in 2..(l + 1) : ws[i] = writeMessage(ms[b.size + i - 1], 0)
  <2>1. hs \in Seq(Seq(U)) /\ ts \in Seq(Seq(U))
    BY <1>8, <1>9 DEF Rows
  <2>2. Len(ws) = 1 + l
    <3>1. Len(ws) = Len(hs) + Len(ts)
      BY <2>1, Joined
    <3> QED
      BY <1>8, <1>9, <3>1
  <2>3. ws[1] = hs[1]
    <3>1. \A i \in 1..Len(hs) : ws[i] = hs[i]
      BY <2>1, Joined
    <3> HIDE DEF ws
    <3> QED
      BY <1>8, <3>1
  <2>4. \A i \in 1..l : ws[1 + i] = ts[i]
    <3>1. \A i \in 1..Len(ts) : ws[Len(hs) + i] = ts[i]
      BY <2>1, Joined
    <3> HIDE DEF ws
    <3> QED
      BY <1>8, <1>9, <3>1
  <2>5. ASSUME NEW i \in 2..(l + 1) PROVE ws[i] = writeMessage(ms[b.size + i - 1], 0)
    <3>1. i - 1 \in 1..l /\ 1 + (i - 1) = i /\ (i - 1) + 1 = i
      BY <1>1
    <3>2. ws[1 + (i - 1)] = writeMessage(tail[i - 1], 0)
      BY <1>9, <2>4, <3>1
    <3>3. tail[i - 1] = ms[b.size + ((i - 1) + 1) - 1]
      BY <1>7, <3>1
    <3> HIDE DEF ws
    <3> QED
      BY <3>1, <3>2, <3>3
  <2> HIDE DEF ws
  <2> QED
    BY <1>1, <1>8, <2>2, <2>3, <2>5
<1> HIDE DEF p, ws
<1>13. b.out \in 0..Len(ws)
  BY <1>1, <1>12 DEF Sendable
<1>14a. PICK vs : Spoilt(U, p, b.out, ws, vs)
  <2>1. CellSet(U)
    BY <1>4
  <2> QED
    BY <1>11, <1>13, <2>1, RowsDamaged
<1>14. /\ Rows(U, Damaged(p, b.out), vs)
       /\ Len(vs) = Len(ws)
       /\ \A i \in 1..Len(ws) : i # b.out => vs[i] = ws[i]
       /\ b.out # 0 => /\ vs[b.out] \in Seq(U) /\ Len(vs[b.out]) = 7
                       /\ vs[b.out][3].val = <<>>
  BY <1>14a DEF Spoilt
<1>15. Len(vs) = Len(ms) - b.size + 1
  BY <1>12, <1>14 DEF l
<1>16. b.out # 1 => vs[1] = FirstSent(ms, b)
  <2>1. 1 \in 1..Len(ws)
    BY <1>1, <1>12
  <2> QED
    BY <1>12, <1>14, <2>1
<1>17. ASSUME NEW i \in 2..Len(vs), b.out # i
       PROVE  vs[i] = writeMessage(ms[b.size + i - 1], 0)
  <2>1. i \in 1..Len(ws) /\ i \in 2..(l + 1)
    BY <1>1, <1>12, <1>14
  <2> QED
    BY <1>12, <1>14, <1>17, <2>1
<1> QED
  BY <1>10, <1>14, <1>15, <1>16, <1>17

(* How many of the messages at the top level come before a cut after n     *)
(* cells or the damaged one.                                               *)
Intact(b, n) == IF b.out # 0 /\ b.out <= n \div 7 THEN b.out - 1 ELSE n \div 7

(* The messages that can be read of ms: of the batch, those before a       *)
(* damaged one, and all that come after the batch.                         *)
Readable(ms, b) ==
    SubSeq(AsRead(ms), 1, Kept(b)) \o SubSeq(AsRead(ms), b.size + 1, Len(ms))

(* The elements of it.                                                     *)
LEMMA ReadableIs ==
    ASSUME NEW K, NEW V, NEW ms \in Seq(Entries(K, V)), NEW b, Sendable(ms, b)
    PROVE  /\ Readable(ms, b) \in Seq(ReadSet(K, V))
           /\ Len(Readable(ms, b)) = Kept(b) + (Len(ms) - b.size)
           /\ Kept(b) \in 0..b.size
           /\ \A i \in 1..Kept(b) : Readable(ms, b)[i] = AsRead(ms)[i]
           /\ \A i \in 1..(Len(ms) - b.size) :
                 Readable(ms, b)[Kept(b) + i] = AsRead(ms)[b.size + i]
<1> DEFINE S == ReadSet(K, V)
           rs == AsRead(ms)
           l == Len(ms) - b.size
           k == Kept(b)
           x == SubSeq(rs, 1, k)
           y == SubSeq(rs, b.size + 1, Len(ms))
<1>1. /\ Len(ms) \in Nat /\ b.size \in Nat /\ b.size <= Len(ms) /\ l \in Nat
      /\ b.in \in Nat /\ b.in <= b.size /\ b.size + l = Len(ms)
  BY SendableIs
<1>2. k \in 0..b.size
  BY <1>1 DEF Kept
<1>3. rs \in Seq(S) /\ Len(rs) = Len(ms)
  BY AsReadIs
<1>4. Readable(ms, b) = x \o y
  BY DEF Readable
<1> HIDE DEF rs, k, l
<1>5. x \in Seq(S) /\ Len(x) = k /\ \A i \in 1..k : x[i] = rs[i]
  <2>1. k \in 0..Len(rs)
    BY <1>1, <1>2, <1>3
  <2> QED
    BY <1>3, <2>1, Prefix
<1>6. y \in Seq(S) /\ Len(y) = l /\ \A i \in 1..l : y[i] = rs[b.size + i]
  <2> DEFINE e == SubSeq(rs, b.size + 1, b.size + l)
  <2>1. b.size \in Nat /\ l \in Nat /\ b.size + l <= Len(rs)
    BY <1>1, <1>3
  <2>2. e \in Seq(S) /\ Len(e) = l /\ \A i \in 1..l : e[i] = rs[b.size + i]
    <3>1. \A a, j \in Nat : a + j <= Len(rs) =>
             /\ SubSeq(rs, a + 1, a + j) \in Seq(S)
             /\ Len(SubSeq(rs, a + 1, a + j)) = j
             /\ \A i \in 1..j : SubSeq(rs, a + 1, a + j)[i] = rs[a + i]
      BY <1>3, Slices
    <3> HIDE DEF S
    <3> QED
      BY <2>1, <3>1
  <2>3. e = y
    BY <1>1
  <2> QED
    BY <2>2, <2>3
<1> HIDE DEF x, y
<1>7. /\ x \o y \in Seq(S) /\ Len(x \o y) = k + l
      /\ \A i \in 1..k : (x \o y)[i] = x[i]
      /\ \A i \in 1..l : (x \o y)[k + i] = y[i]
  <2>1. /\ x \o y \in Seq(S) /\ Len(x \o y) = Len(x) + Len(y)
        /\ \A i \in 1..Len(x) : (x \o y)[i] = x[i]
        /\ \A i \in 1..Len(y) : (x \o y)[Len(x) + i] = y[i]
    <3>1. x \in Seq(S) /\ y \in Seq(S)
      BY <1>5, <1>6
    <3> QED
      BY <3>1, Joined
  <2> QED
    BY <1>5, <1>6, <2>1
<1>8. /\ \A i \in 1..k : Readable(ms, b)[i] = rs[i]
      /\ \A i \in 1..l : Readable(ms, b)[k + i] = rs[b.size + i]
  BY <1>4, <1>5, <1>6, <1>7
<1> QED
  BY <1>2, <1>4, <1>7, <1>8 DEF rs, k, l

(* A batch that was not compressed, or can be decompressed.                *)
LEMMA KafkaReads ==
    ASSUME NEW K, NEW V, NEW ms \in Seq(Entries(K, V)), NEW b, Sendable(ms, b),
           NEW n \in 0..Len(KafkaSet(ms, b)), b.codec # 3 \/ Intact(b, n) = 0
    PROVE  LET r == readMessageSet(SubSeq(KafkaSet(ms, b), 1, n)) IN
           /\ Intact(b, n) \in 0..(Len(ms) - b.size + 1)
           /\ r.ok
           /\ r.set = SubSeq(Readable(ms, b), 1,
                             IF Intact(b, n) = 0 THEN 0 ELSE Kept(b) + Intact(b, n) - 1)
<1> DEFINE S == ReadSet(K, V)
           rs == Readable(ms, b)
           l == Len(ms) - b.size
           h == Kept(b)
           k == Intact(b, n)
           c == SubSeq(KafkaSet(ms, b), 1, n)
           d == n \div 7
<1>1. /\ Len(ms) \in Nat /\ b.size \in Nat /\ b.size >= 1 /\ b.size <= Len(ms)
      /\ l \in Nat /\ b.out \in Nat /\ b.size + l = Len(ms)
  BY SendableIs
<1>2. /\ rs \in Seq(S) /\ Len(rs) = h + l /\ h \in 0..b.size
      /\ \A i \in 1..h : rs[i] = AsRead(ms)[i]
      /\ \A i \in 1..l : rs[h + i] = AsRead(ms)[b.size + i]
  BY ReadableIs
<1>3. PICK U, vs :
         /\ Rows(U, KafkaSet(ms, b), vs)
         /\ Len(vs) = l + 1
         /\ b.out # 1 => vs[1] = FirstSent(ms, b)
         /\ \A i \in 2..Len(vs) : b.out # i => vs[i] = writeMessage(ms[b.size + i - 1], 0)
         /\ b.out # 0 => vs[b.out] \in Seq(U) /\ Len(vs[b.out]) = 7 /\ vs[b.out][3].val = <<>>
  BY KafkaRows
<1> DEFINE got == [i \in 1..d |-> readMessage(Inner(vs[i]), vs[i])]
<1>4. /\ Len(c) \div Cells = d /\ d \in 0..(l + 1)
      /\ readMessageSet(c) = Collected(got, c)
  <2>1. Rows(U, KafkaSet(ms, b), vs)
    BY <1>3
  <2>2. /\ Len(c) \div Cells = d /\ d \in 0..Len(vs)
        /\ readMessageSet(c) = Collected(got, c)
    BY <2>1, ReadRows
  <2> QED
    BY <1>3, <2>2
<1> HIDE DEF rs, l, h, c, d
<1>5. /\ d \in Nat /\ k \in 0..d /\ k <= l + 1
      /\ k < d => b.out # 0 /\ k + 1 = b.out /\ b.out \in 1..d
      /\ \A i \in 1..k : i # b.out
  <2>1. d \in Nat /\ d <= l + 1
    BY <1>1, <1>4
  <2>2. k = IF b.out # 0 /\ b.out <= d THEN b.out - 1 ELSE d
    BY DEF Intact, d
  <2> HIDE DEF k
  <2>3. CASE b.out # 0 /\ b.out <= d
    <3>1. k = b.out - 1 /\ b.out \in 1..d
      BY <1>1, <2>1, <2>2, <2>3
    <3>2. \A o \in 1..d : /\ o - 1 \in 0..d /\ o - 1 <= d /\ (o - 1) + 1 = o
                          /\ \A i \in 1..(o - 1) : i # o
      BY <2>1
    <3>3. k \in 0..d /\ k <= d /\ k + 1 = b.out /\ \A i \in 1..k : i # b.out
      BY <3>1, <3>2
    <3>4. k <= l + 1
      BY <1>1, <2>1, <3>3
    <3> QED
      BY <2>1, <2>3, <3>1, <3>3, <3>4
  <2>4. CASE ~(b.out # 0 /\ b.out <= d)
    <3>1. k = d /\ \A i \in 1..d : i # b.out
      BY <1>1, <2>1, <2>2, <2>4
    <3>2. d \in 0..d /\ ~(d < d)
      BY <2>1
    <3> QED
      BY <2>1, <3>1, <3>2
  <2> QED
    BY <2>3, <2>4
<1>6. k < d => got[k + 1] = BadCrc
  <2> SUFFICES ASSUME k < d PROVE got[k + 1] = BadCrc
    OBVIOUS
  <2>1. b.out # 0 /\ k + 1 = b.out /\ b.out \in 1..d
    BY <1>5
  <2>2. readMessage(Inner(vs[b.out]), vs[b.out]) = BadCrc
    <3>1. vs[b.out] \in Seq(U) /\ Len(vs[b.out]) = 7 /\ vs[b.out][3].val = <<>>
      BY <1>3, <2>1
    <3> QED
      BY <3>1, ReadDamaged
  <2> QED
    BY <2>1, <2>2
<1>7. \A i \in 1..k : got[i] = readMessage(Inner(vs[i]), vs[i])
  <2>1. \A i \in 1..k : i \in 1..d
    BY <1>5
  <2> QED
    BY <2>1
<1> DEFINE off == [i \in 0..k |-> IF i = 0 THEN 0 ELSE h + i - 1]
<1>8. /\ off \in [0..k -> Nat] /\ off[0] = 0
      /\ off[k] = (IF k = 0 THEN 0 ELSE h + k - 1) /\ off[k] <= Len(rs)
      /\ \A i \in 1..k : off[i] = h + i - 1
  <2> HIDE DEF k
  <2>1. h \in Nat /\ k \in Nat
    BY <1>1, <1>2, <1>5
  <2>2. \A i \in 0..k : (IF i = 0 THEN 0 ELSE h + i - 1) \in Nat
    BY <2>1
  <2>3. off \in [0..k -> Nat]
    BY <2>2
  <2>4. off[0] = 0 /\ off[k] = (IF k = 0 THEN 0 ELSE h + k - 1)
        /\ \A i \in 1..k : off[i] = h + i - 1
    BY <2>1
  <2>5. (IF k = 0 THEN 0 ELSE h + k - 1) <= h + l
    BY <1>1, <1>5, <2>1
  <2> HIDE DEF off
  <2> QED
    BY <1>2, <2>3, <2>4, <2>5
<1> HIDE DEF got, off
<1>9. ASSUME NEW i \in 1..k
      PROVE  /\ off[i - 1] <= off[i] /\ off[i] <= off[k]
             /\ got[i] = Gives(SubSeq(rs, off[i - 1] + 1, off[i]))
  <2>0. h \in Nat /\ k \in Nat /\ k # 0 /\ i \in Nat /\ 1 <= i /\ i <= k /\ i # b.out
    BY <1>1, <1>2, <1>5
  <2>1. off[i] = h + i - 1 /\ off[k] = h + k - 1
    BY <1>8, <2>0
  <2>2. CASE i = 1
    <3>1. vs[1] = FirstSent(ms, b) /\ b.codec # 3
      BY <1>3, <2>0, <2>2
    <3>2. got[1] = Gives(SubSeq(AsRead(ms), 1, h))
      BY <1>7, <2>2, <3>1, FirstSentGives DEF h
    <3>3. SubSeq(rs, 1, h) = SubSeq(AsRead(ms), 1, h)
      <4> DEFINE x == SubSeq(rs, 1, h)
                 y == SubSeq(AsRead(ms), 1, h)
      <4>1. x \in Seq(S) /\ Len(x) = h /\ \A j \in 1..h : x[j] = rs[j]
        <5>1. h \in 0..Len(rs)
          BY <1>1, <1>2
        <5> QED
          BY <1>2, <5>1, Prefix
      <4>2. y \in Seq(S) /\ Len(y) = h /\ \A j \in 1..h : y[j] = AsRead(ms)[j]
        <5>1. AsRead(ms) \in Seq(S) /\ Len(AsRead(ms)) = Len(ms)
          BY AsReadIs
        <5>2. h \in 0..Len(AsRead(ms))
          BY <1>1, <1>2, <5>1
        <5> QED
          BY <5>1, <5>2, Prefix
      <4> HIDE DEF x, y
      <4>3. x = y
        BY <1>2, <4>1, <4>2, SeqEqual
      <4> QED
        BY <4>3 DEF x, y
    <3>4. off[i - 1] = 0 /\ off[i] = h
      BY <1>8, <2>0, <2>1, <2>2
    <3>5. got[i] = Gives(SubSeq(rs, off[i - 1] + 1, off[i]))
      <4>1. 0 + 1 = 1
        OBVIOUS
      <4> QED
        BY <2>2, <3>2, <3>3, <3>4, <4>1
    <3> QED
      BY <2>0, <2>1, <3>4, <3>5
  <2>3. CASE i # 1
    <3>1. /\ i - 1 \in 1..k /\ i \in 2..Len(vs) /\ i - 1 \in 1..l
          /\ h + (i - 1) = h + i - 1 /\ b.size + (i - 1) = b.size + i - 1
          /\ h + i - 1 \in 1..Len(rs) /\ b.size + i - 1 \in 1..Len(ms)
      <4>1. \A s, j \in Nat :
               i - 1 <= j /\ s >= 1 => /\ i - 1 \in 1..j /\ i - 1 \in 1..k /\ i \in 2..(j + 1)
                                    /\ h + (i - 1) = h + i - 1 /\ h + i - 1 \in 1..(h + j)
                                    /\ s + (i - 1) = s + i - 1 /\ s + i - 1 \in 1..(s + j)
        BY <2>0, <2>3
      <4>2. i - 1 <= l
        BY <1>1, <1>5, <2>0
      <4> QED
        BY <1>1, <1>2, <1>3, <4>1, <4>2
    <3>2. got[i] = Gives(<<MessageAsRead(ms[b.size + i - 1])>>)
      <4>1. vs[i] = writeMessage(ms[b.size + i - 1], 0)
        BY <1>3, <2>0, <3>1
      <4> QED
        BY <1>7, <4>1, ReadEntry
    <3>3. rs[h + i - 1] = MessageAsRead(ms[b.size + i - 1])
      <4>1. rs[h + (i - 1)] = AsRead(ms)[b.size + (i - 1)]
        BY <1>2, <3>1
      <4>2. AsRead(ms)[b.size + i - 1] = MessageAsRead(ms[b.size + i - 1])
        BY <3>1, AsReadIs
      <4> QED
        BY <3>1, <4>1, <4>2
    <3>4. SubSeq(rs, h + i - 1, h + i - 1) = <<rs[h + i - 1]>>
      BY <1>2, <3>1, JustOne
    <3>5. off[i - 1] + 1 = h + i - 1 /\ off[i - 1] <= off[i]
      <4>1. off[i - 1] = h + (i - 1) - 1
        BY <1>8, <3>1
      <4> QED
        BY <2>0, <2>1, <4>1
    <3>6. h + i - 1 <= h + k - 1
      BY <2>0
    <3> QED
      BY <2>1, <3>2, <3>3, <3>4, <3>5, <3>6
  <2> QED
    BY <2>2, <2>3
<1>10. Reads(S, rs, got, d, k, off)
  <2> HIDE DEF k, S
  <2> QED
    BY <1>2, <1>5, <1>6, <1>8, <1>9 DEF Reads
<1>11. Collected(got, c).ok /\ Collected(got, c).set = SubSeq(rs, 1, off[k])
  BY <1>4, <1>10, CollectedIs
<1>12. k \in 0..(l + 1)
  BY <1>1, <1>5
<1> HIDE DEF k
<1> QED
  BY <1>4, <1>8, <1>11, <1>12 DEF rs, l, h, k, c

(* The same number of messages, as Whole has it.                           *)
LEMMA WholeIs ==
    ASSUME NEW S, NEW ms \in Seq(S), NEW b, Sendable(ms, b), NEW n \in Nat
    PROVE  Whole(b, n) = IF Intact(b, n) = 0 THEN 0 ELSE b.size + Intact(b, n) - 1
<1>1. b.size \in Nat /\ b.out \in Nat /\ (b.codec = 0 => b.size = 1)
  BY SendableIs DEF Sendable
<1>2. Cells = 7 /\ n \div 7 \in Nat
  BY DEF Cells, Size
<1> DEFINE k == Intact(b, n)
<1>3. Whole(b, n) = IF k = 0 \/ b.codec = 0 THEN k ELSE k + b.size - 1
  BY <1>2 DEF Whole, Intact
<1>4. k \in Nat
  BY <1>1, <1>2 DEF Intact
<1> HIDE DEF k
<1> QED
  BY <1>1, <1>3, <1>4 DEF k

(* A set that begins with a compressed message that nothing can read.      *)
LEMMA KafkaFails ==
    ASSUME NEW K, NEW V, NEW ms \in Seq(Entries(K, V)), NEW b, Sendable(ms, b),
           NEW n \in 0..Len(KafkaSet(ms, b)), b.codec = 3, Intact(b, n) # 0
    PROVE  ~readMessageSet(SubSeq(KafkaSet(ms, b), 1, n)).ok
<1> DEFINE c == SubSeq(KafkaSet(ms, b), 1, n)
           d == n \div 7
<1>1. PICK U, vs : Rows(U, KafkaSet(ms, b), vs) /\ (b.out # 1 => vs[1] = FirstSent(ms, b))
  BY KafkaRows
<1> DEFINE got == [i \in 1..d |-> readMessage(Inner(vs[i]), vs[i])]
           whole == {i \in 1..d : \A j \in 1..i : got[j].how = "messages"}
<1>2. Len(c) \div Cells = d /\ d \in 0..Len(vs) /\ readMessageSet(c) = Collected(got, c)
  BY <1>1, ReadRows
<1>3. d \in Nat /\ d # 0 /\ b.out # 1
  <2>1. d \in Nat
    <3>1. Len(vs) \in Nat
      BY <1>1 DEF Rows
    <3> QED
      BY <1>2, <3>1
  <2>2. b.out \in Nat
    BY SendableIs
  <2> HIDE DEF d
  <2> QED
    BY <2>1, <2>2 DEF Intact, d
<1> HIDE DEF d, c
<1>4. got[1] = Undecodable
  <2>1. 1 \in 1..d
    BY <1>3
  <2>2. vs[1] = FirstSent(ms, b)
    BY <1>1, <1>3
  <2> QED
    BY <2>1, <2>2, FirstSentGives
<1>5. whole = {}
  <2> SUFFICES ASSUME NEW i \in whole PROVE FALSE
    OBVIOUS
  <2>1. 1 \in 1..i
    BY <1>3
  <2>2. got[1].how = "messages"
    BY <2>1
  <2> QED
    BY <1>4, <2>2 DEF Undecodable
<1>6. Cardinality(whole) = 0
  BY <1>5, FS_EmptySet
<1>7. 0 < d /\ 0 + 1 = 1 /\ got[1].how = "error"
  BY <1>3, <1>4 DEF Undecodable
<1>8. Collected(got, c) = Failed
  <2> HIDE DEF got
  <2> QED
    BY <1>2, <1>6, <1>7 DEF Collected
<1> QED
  BY <1>2, <1>8 DEF c, Failed

(* Of the messages in a fetch response, the reader of message sets gives,  *)
(* in order, all those before the place where the set is cut off or        *)
(* damaged, and none after it, compressed or not, whatever their number;   *)
(* it is an error if they are compressed by another method.                *)
THEOREM FetchedPrefix ==
    ASSUME NEW K, NEW V, NEW ms \in Seq(Entries(K, V)), NEW b, Sendable(ms, b), b.in = 0,
           NEW n \in 0..Len(KafkaSet(ms, b))
    PROVE  LET r == readMessageSet(SubSeq(KafkaSet(ms, b), 1, n)) IN
           IF b.codec = 3 /\ Whole(b, n) > 0 THEN ~r.ok
           ELSE r.ok /\ r.set = SubSeq(AsRead(ms), 1, Whole(b, n))
<1> DEFINE k == Intact(b, n)
           w == Whole(b, n)
           r == readMessageSet(SubSeq(KafkaSet(ms, b), 1, n))
           S == ReadSet(K, V)
<1>1. n \in Nat
  <2>1. PICK U, vs : Rows(U, KafkaSet(ms, b), vs)
    BY KafkaRows
  <2>2. Len(KafkaSet(ms, b)) \in Nat
    BY <2>1 DEF Rows
  <2> QED
    BY <2>2
<1>2. w = IF k = 0 THEN 0 ELSE b.size + k - 1
  BY <1>1, WholeIs
<1>3. b.size \in Nat /\ b.size >= 1 /\ b.out \in Nat /\ k \in Nat /\ Kept(b) = b.size
  <2>1. b.size \in Nat /\ b.size >= 1 /\ b.out \in Nat
    BY SendableIs
  <2> QED
    BY <1>1, <2>1 DEF Intact, Kept
<1> HIDE DEF k, w, r
<1>4. w > 0 <=> k # 0
  BY <1>2, <1>3
<1>5. CASE b.codec = 3 /\ w > 0
  <2>1. ~r.ok
    BY <1>4, <1>5, KafkaFails DEF k, r
  <2> QED
    BY <1>5, <2>1 DEF r, w
<1>6. CASE ~(b.codec = 3 /\ w > 0)
  <2>1. r.ok /\ r.set = SubSeq(Readable(ms, b), 1, w)
    <3>1. b.codec # 3 \/ k = 0
      BY <1>4, <1>6
    <3>2. r.ok /\ r.set = SubSeq(Readable(ms, b), 1, IF k = 0 THEN 0 ELSE Kept(b) + k - 1)
      BY <3>1, KafkaReads DEF k, r
    <3> QED
      BY <1>2, <1>3, <3>2
  <2>2. Readable(ms, b) = AsRead(ms)
    <3> DEFINE x == Readable(ms, b)
               y == AsRead(ms)
               l == Len(ms) - b.size
    <3>1. Len(ms) \in Nat /\ b.size \in Nat /\ b.size <= Len(ms) /\ l \in Nat
      BY SendableIs
    <3>2. /\ x \in Seq(S) /\ Len(x) = b.size + l
          /\ \A i \in 1..b.size : x[i] = y[i]
          /\ \A i \in 1..l : x[b.size + i] = y[b.size + i]
      BY <1>3, ReadableIs
    <3>3. y \in Seq(S) /\ Len(y) = Len(ms)
      BY AsReadIs
    <3> HIDE DEF x, y
    <3>4. Len(x) = Len(y)
      BY <3>1, <3>2, <3>3
    <3>5. ASSUME NEW i \in 1..Len(y) PROVE x[i] = y[i]
      <4>1. CASE i <= b.size
        <5>1. i \in 1..b.size
          BY <3>1, <3>3, <4>1
        <5> QED
          BY <3>2, <5>1
      <4>2. CASE ~(i <= b.size)
        <5>1. i - b.size \in 1..l /\ b.size + (i - b.size) = i
          BY <3>1, <3>3, <4>2
        <5>2. x[b.size + (i - b.size)] = y[b.size + (i - b.size)]
          BY <3>2, <5>1
        <5> QED
          BY <5>1, <5>2
      <4> QED
        BY <4>1, <4>2
    <3>6. x = y
      BY <3>2, <3>3, <3>4, <3>5, SeqEqual
    <3> QED
      BY <3>6 DEF x, y
  <2> QED
    BY <1>6, <2>1, <2>2 DEF r, w
<1> QED
  BY <1>5, <1>6

(* Damage inside a compressed batch is not noticed: the messages from the  *)
(* damaged one to the end of the batch are missing from what is read, and  *)
(* those after the batch are there.                                        *)
THEOREM LostInBatch ==
    ASSUME NEW K, NEW V, NEW ms \in Seq(Entries(K, V)), NEW b, Sendable(ms, b), b.in # 0,
           b.codec # 3, NEW n \in 0..Len(KafkaSet(ms, b)), Whole(b, n) > 0
    PROVE  LET r == readMessageSet(SubSeq(KafkaSet(ms, b), 1, n)) IN
           /\ r.ok
           /\ r.set = SubSeq(AsRead(ms), 1, b.in - 1)
                      \o SubSeq(AsRead(ms), b.size + 1, Whole(b, n))
<1> DEFINE k == Intact(b, n)
           w == Whole(b, n)
           r == readMessageSet(SubSeq(KafkaSet(ms, b), 1, n))
           S == ReadSet(K, V)
           h == b.in - 1
           y == AsRead(ms)
           x == Readable(ms, b)
           l == Len(ms) - b.size
           s == SubSeq(y, 1, h)
           t == SubSeq(y, b.size + 1, w)
           q == SubSeq(x, 1, h + (k - 1))
<1>1. n \in Nat
  <2>1. PICK U, vs : Rows(U, KafkaSet(ms, b), vs)
    BY KafkaRows
  <2>2. Len(KafkaSet(ms, b)) \in Nat
    BY <2>1 DEF Rows
  <2> QED
    BY <2>2
<1>2. /\ Len(ms) \in Nat /\ b.size \in Nat /\ b.size >= 1 /\ b.size <= Len(ms) /\ l \in Nat
      /\ h \in Nat /\ h <= b.size /\ Kept(b) = h /\ b.out \in Nat
  <2>1. /\ Len(ms) \in Nat /\ b.size \in Nat /\ b.size >= 1 /\ b.size <= Len(ms) /\ l \in Nat
        /\ b.in \in Nat /\ b.in <= b.size /\ b.out \in Nat
    BY SendableIs
  <2> QED
    BY <2>1 DEF Kept
<1>3. w = (IF k = 0 THEN 0 ELSE b.size + k - 1) /\ k \in Nat
  BY <1>1, <1>2, WholeIs DEF Intact
<1>4. k # 0 /\ w = b.size + (k - 1) /\ k - 1 \in Nat
  <2> HIDE DEF k, w
  <2>1. w > 0
    BY DEF w
  <2> QED
    BY <1>2, <1>3, <2>1
<1>5. k - 1 <= l /\ r.ok /\ r.set = q
  <2>1. /\ k \in 0..(l + 1) /\ r.ok
        /\ r.set = SubSeq(x, 1, IF k = 0 THEN 0 ELSE Kept(b) + k - 1)
    BY KafkaReads
  <2> HIDE DEF k, r, x, l, h
  <2>2. Kept(b) + k - 1 = h + (k - 1)
    BY <1>2, <1>3
  <2>3. k - 1 <= l
    BY <1>2, <1>3, <2>1
  <2> QED
    BY <1>4, <2>1, <2>2, <2>3
<1>6. /\ x \in Seq(S) /\ Len(x) = h + l
      /\ \A i \in 1..h : x[i] = y[i]
      /\ \A i \in 1..l : x[h + i] = y[b.size + i]
  <2>1. /\ x \in Seq(S) /\ Len(x) = Kept(b) + l
        /\ \A i \in 1..Kept(b) : x[i] = y[i]
        /\ \A i \in 1..l : x[Kept(b) + i] = y[b.size + i]
    BY ReadableIs
  <2> HIDE DEF x, y, S, l, h
  <2> QED
    BY <1>2, <2>1
<1>7. y \in Seq(S) /\ Len(y) = Len(ms) /\ b.size + l = Len(ms)
  BY <1>2, AsReadIs
<1> HIDE DEF k, w, r, S, h, y, x, l
<1>8. s \in Seq(S) /\ Len(s) = h /\ \A i \in 1..h : s[i] = y[i]
  <2>1. h \in 0..Len(y)
    BY <1>2, <1>7
  <2> QED
    BY <1>7, <2>1, Prefix
<1>9. t \in Seq(S) /\ Len(t) = k - 1 /\ \A i \in 1..(k - 1) : t[i] = y[b.size + i]
  <2>1. \A a, j \in Nat : a + j <= Len(y) =>
             /\ SubSeq(y, a + 1, a + j) \in Seq(S)
             /\ Len(SubSeq(y, a + 1, a + j)) = j
             /\ \A i \in 1..j : SubSeq(y, a + 1, a + j)[i] = y[a + i]
    BY <1>7, Slices
  <2>2. b.size + (k - 1) <= Len(y)
    BY <1>2, <1>4, <1>5, <1>7
  <2> QED
    BY <1>2, <1>4, <2>1, <2>2
<1>10. q \in Seq(S) /\ Len(q) = h + (k - 1) /\ \A i \in 1..(h + (k - 1)) : q[i] = x[i]
  <2>1. h + (k - 1) \in 0..Len(x)
    BY <1>2, <1>4, <1>5, <1>6
  <2> QED
    BY <1>6, <2>1, Prefix
<1> DEFINE z == s \o t
<1> HIDE DEF s, t, q
<1>11. /\ z \in Seq(S) /\ Len(z) = h + (k - 1)
       /\ \A i \in 1..h : z[i] = s[i]
       /\ \A i \in 1..(k - 1) : z[h + i] = t[i]
  <2>1. s \in Seq(S) /\ t \in Seq(S)
    BY <1>8, <1>9
  <2>2. /\ z \in Seq(S) /\ Len(z) = Len(s) + Len(t)
        /\ \A i \in 1..Len(s) : z[i] = s[i]
        /\ \A i \in 1..Len(t) : z[Len(s) + i] = t[i]
    BY <2>1, Joined
  <2> QED
    BY <1>8, <1>9, <2>2
<1> HIDE DEF z
<1>12. ASSUME NEW i \in 1..(h + (k - 1)) PROVE q[i] = z[i]
  <2>1. CASE i <= h
    <3>1. i \in 1..h
      BY <1>2, <1>4, <2>1
    <3>2. x[i] = y[i] /\ s[i] = y[i] /\ z[i] = s[i]
      BY <1>6, <1>8, <1>11, <3>1
    <3>3. q[i] = x[i]
      BY <1>10
    <3> QED
      BY <3>2, <3>3
  <2>2. CASE ~(i <= h)
    <3>1. i - h \in 1..(k - 1) /\ i - h \in 1..l /\ h + (i - h) = i
      BY <1>2, <1>4, <1>5, <2>2
    <3>2. x[h + (i - h)] = y[b.size + (i - h)] /\ z[h + (i - h)] = y[b.size + (i - h)]
      BY <1>6, <1>9, <1>11, <3>1
    <3> QED
      BY <1>10, <3>1, <3>2
  <2> QED
    BY <2>1, <2>2
<1>13. q = z
  BY <1>10, <1>11, <1>12, SeqEqual
<1> QED
  BY <1>5, <1>13 DEF r, z, s, t, h, y, w

(* One message is one row.                                                 *)
LEMMA OneRow ==
    ASSUME NEW m, NEW codec
    PROVE  \E U : Rows(U, writeMessage(m, codec), <<writeMessage(m, codec)>>)
<1> DEFINE f == writeMessage(m, codec)
           us == [i \in 1..1 |-> f]
<1>1. PICK U : us \in Seq(Seq(U)) /\ Len(us) = 1 /\ \A i \in 1..1 : Len(us[i]) = 7
  <2>1. /\ 1 \in Nat /\ us = [i \in 1..1 |-> us[i]]
        /\ \A i \in 1..1 : \E m0, codec0 : us[i] = writeMessage(m0, codec0)
    OBVIOUS
  <2> HIDE DEF us
  <2> QED
    BY <2>1, Universe
<1>2. us = <<f>> /\ us[1] = f
  OBVIOUS
<1> HIDE DEF us, f
<1>3. f \in Seq(U) /\ Len(f) = 7
  <2>1. 1 \in 1..1 /\ 1 \in 1..Len(us)
    BY <1>1
  <2> QED
    BY <1>1, <1>2, <2>1
<1>4. \A i \in 1..1 : i = 1 /\ \A j \in 1..7 : 7 * (i - 1) + j = j
  OBVIOUS
<1>5. Rows(U, f, us)
  BY <1>1, <1>2, <1>3, <1>4 DEF Rows
<1> QED
  BY <1>2, <1>5 DEF f

(* What writeMessageSet writes, compressed by gzip, by snappy or not, is   *)
(* read back by readMessageSet, message for message, except that an empty  *)
(* key or value becomes nil.                                               *)
THEOREM WrittenIsRead ==
    ASSUME NEW K, NEW V, NEW ms \in Seq(Entries(K, V)), NEW compression \in 0..2
    PROVE  LET r == readMessageSet(writeMessageSet(ms, compression)) IN
           r.ok /\ r.set = AsRead(ms)
<1> DEFINE rs == AsRead(ms)
           S == ReadSet(K, V)
           plain == PlainSet(ms)
<1>1. Len(ms) \in Nat /\ 0 \in 0..Len(ms)
  OBVIOUS
<1>2. rs \in Seq(S) /\ Len(rs) = Len(ms) /\ SubSeq(rs, 1, Len(ms)) = rs
  <2>1. rs \in Seq(S) /\ Len(rs) = Len(ms)
    BY AsReadIs
  <2> HIDE DEF rs
  <2>2. SubSeq(rs, 1, Len(rs)) = rs
    BY <2>1, WholePrefix
  <2> QED
    BY <2>1, <2>2
<1>3. readInnerSet(plain).ok /\ readInnerSet(plain).set = rs
      /\ readMessageSet(plain) = readInnerSet(plain)
  <2>1. Damaged(plain, 0) = plain
    BY DEF Damaged
  <2>2. /\ readInnerSet(Damaged(plain, 0)).ok
        /\ readInnerSet(Damaged(plain, 0)).set =
              SubSeq(rs, 1, IF 0 = 0 THEN Len(ms) ELSE 0 - 1)
        /\ readMessageSet(Damaged(plain, 0)) = readInnerSet(Damaged(plain, 0))
    BY <1>1, InnerIs
  <2> HIDE DEF plain, rs
  <2> QED
    BY <1>2, <2>1, <2>2
<1>4. CASE ms = <<>> \/ compression = 0
  BY <1>3, <1>4 DEF writeMessageSet
<1>5. CASE ms # <<>> /\ compression # 0
  <2> DEFINE o == Last(ms).Offset
             m == [Key |-> "nil", Value |-> Compress(compression, plain), Offset |-> o]
             f == writeMessage(m, compression)
  <2>1. writeMessageSet(ms, compression) = f
    BY <1>5 DEF writeMessageSet
  <2>2. readMessage(Inner(f), f) = Gives(rs)
    <3>1. compression \in 1..3 /\ compression # 3
      BY <1>5
    <3> HIDE DEF plain, rs, o
    <3>2. readMessage(Inner(f), f) =
             IF compression = 3 \/ ~readInnerSet(plain).ok THEN Undecodable
             ELSE Gives(readInnerSet(plain).set)
      BY <3>1, ReadPacked
    <3> QED
      BY <1>3, <3>1, <3>2
  <2> HIDE DEF m
  <2>3. PICK U : Rows(U, f, <<f>>)
    BY OneRow
  <2> HIDE DEF f, rs
  <2> DEFINE w == <<f>>
  <2>4. w[1] = f
    OBVIOUS
  <2> HIDE DEF w
  <2>5. f \in Seq(U) /\ Len(f) = 7
    <3>1. Rows(U, f, w) /\ Len(w) = 1
      BY <2>3 DEF w
    <3>2. f \in Seq(U) /\ Len(f) = 7 * 1
      BY <3>1 DEF Rows
    <3> QED
      BY <3>2
  <2>6. SubSeq(f, 1, 7) = f
    BY <2>5, WholePrefix
  <2> DEFINE got == [i \in 1..1 |-> readMessage(Inner(w[i]), w[i])]
  <2>7. Len(f) \div Cells = 1 /\ readMessageSet(f) = Collected(got, f)
    <3>1. Rows(U, f, w) /\ 7 \in 0..Len(f)
      BY <2>3, <2>5 DEF w
    <3>2. /\ Len(SubSeq(f, 1, 7)) \div Cells = 7 \div 7
          /\ readMessageSet(SubSeq(f, 1, 7)) =
                Collected([i \in 1..(7 \div 7) |-> readMessage(Inner(w[i]), w[i])],
                          SubSeq(f, 1, 7))
      BY <3>1, ReadRows
    <3>3. 7 \div 7 = 1
      OBVIOUS
    <3> QED
      BY <2>6, <3>2, <3>3
  <2>8. got[1] = Gives(rs)
    BY <2>2, <2>4
  <2> DEFINE off == [i \in 0..1 |-> IF i = 0 THEN 0 ELSE Len(ms)]
  <2>9. off \in [0..1 -> Nat] /\ off[0] = 0 /\ off[1] = Len(ms)
    BY <1>1
  <2> HIDE DEF got, off, S
  <2>10. Reads(S, rs, got, 1, 1, off)
    <3>1. \A i \in 1..1 : i = 1 /\ i - 1 = 0
      OBVIOUS
    <3>2. got[1] = Gives(SubSeq(rs, 0 + 1, Len(ms)))
      <4>1. 0 + 1 = 1
        OBVIOUS
      <4> QED
        BY <1>2, <2>8, <4>1
    <3>3. \A i \in 1..1 : /\ off[i - 1] <= off[i] /\ off[i] <= off[1]
                          /\ got[i] = Gives(SubSeq(rs, off[i - 1] + 1, off[i]))
      BY <1>1, <2>9, <3>1, <3>2
    <3>4. off[1] <= Len(rs)
      BY <1>1, <1>2, <2>9
    <3> QED
      BY <1>2, <2>9, <3>3, <3>4 DEF Reads
  <2>11. Collected(got, f).ok /\ Collected(got, f).set = SubSeq(rs, 1, off[1])
    BY <2>7, <2>10, CollectedIs
  <2> QED
    BY <1>2, <2>1, <2>7, <2>9, <2>11 DEF rs
<1> QED
  BY <1>4, <1>5

(* Of two increasing sequences with the same elements that agree up to i,  *)
(* one is not ahead of the other there.                                    *)
LEMMA NotAhead ==
    ASSUME NEW s \in Seq(Nat), NEW t \in Seq(Nat), Increasing(s), Increasing(t),
           Range(s) = Range(t), NEW i \in 1..Len(s),
           \A j \in 1..(i - 1) : j \in DOMAIN t /\ s[j] = t[j]
    PROVE  i \in DOMAIN t /\ t[i] <= s[i]
<1>1. /\ Len(s) \in Nat /\ Len(t) \in Nat /\ DOMAIN s = 1..Len(s) /\ DOMAIN t = 1..Len(t)
      /\ i \in Nat /\ i >= 1
  OBVIOUS
<1>2. PICK j \in DOMAIN t : t[j] = s[i]
  <2>1. s[i] \in Range(s)
    BY <1>1 DEF Range
  <2> QED
    BY <2>1 DEF Range
<1>3. ~(j < i)
  <2> SUFFICES ASSUME j < i PROVE FALSE
    OBVIOUS
  <2>1. j \in 1..(i - 1) /\ j \in DOMAIN s /\ i \in DOMAIN s
    BY <1>1
  <2>2. s[j] = s[i]
    BY <1>2, <2>1
  <2>3. s[j] < s[i] /\ s[i] \in Nat
    BY <2>1 DEF Increasing
  <2> QED
    BY <2>2, <2>3
<1>4. i \in DOMAIN t
  BY <1>1, <1>3
<1>5. t[i] \in Nat /\ t[j] \in Nat /\ (i < j => t[i] < t[j])
  BY <1>4 DEF Increasing
<1>6. i = j \/ i < j
  BY <1>1, <1>3
<1> QED
  BY <1>2, <1>4, <1>5, <1>6

(* There is one increasing sequence of the elements of a set.              *)
LEMMA OneOrder ==
    ASSUME NEW s \in Seq(Nat), NEW t \in Seq(Nat), Increasing(s), Increasing(t),
           Range(s) = Range(t)
    PROVE  s = t
<1> DEFINE Same(i) == i \in DOMAIN s /\ i \in DOMAIN t /\ s[i] = t[i]
           T == {i \in DOMAIN s \cup DOMAIN t : ~Same(i)}
<1>1. /\ Len(s) \in Nat /\ Len(t) \in Nat /\ DOMAIN s = 1..Len(s) /\ DOMAIN t = 1..Len(t)
  OBVIOUS
<1>2. ASSUME T # {} PROVE FALSE
  <2>1. PICK i \in T : \A j \in T : i <= j
    <3>1. T \in SUBSET Nat
      BY <1>1
    <3> HIDE DEF T
    <3> QED
      BY <1>2, <3>1, Least
  <2>2. i \in DOMAIN s \cup DOMAIN t /\ ~Same(i) /\ i \in Nat
    BY <1>1
  <2>3. ASSUME NEW j \in 1..(i - 1) PROVE j \in DOMAIN s /\ j \in DOMAIN t /\ s[j] = t[j]
    <3>1. j \in DOMAIN s \cup DOMAIN t /\ ~(i <= j)
      BY <1>1, <2>2
    <3>2. j \notin T
      <4> HIDE DEF T
      <4> QED
        BY <2>1, <3>1
    <3> QED
      BY <3>1, <3>2
  <2> HIDE DEF T
  <2>4. i \in DOMAIN s => i \in DOMAIN t /\ t[i] <= s[i]
    BY <1>1, <2>3, NotAhead
  <2>5. i \in DOMAIN t => i \in DOMAIN s /\ s[i] <= t[i]
    <3>1. Range(t) = Range(s) /\ \A j \in 1..(i - 1) : j \in DOMAIN s /\ t[j] = s[j]
      BY <2>3
    <3> QED
      BY <1>1, <3>1, NotAhead
  <2>6. i \in DOMAIN s /\ i \in DOMAIN t
    BY <2>2, <2>4, <2>5
  <2>7. s[i] \in Nat /\ t[i] \in Nat
    BY <2>6
  <2>8. s[i] = t[i]
    BY <2>4, <2>5, <2>6, <2>7
  <2> QED
    BY <2>2, <2>6, <2>8
<1>3. DOMAIN s = DOMAIN t /\ \A i \in DOMAIN s : s[i] = t[i]
  BY <1>2
<1> QED
  BY <1>1, <1>3

(* The offsets of messages.                                                *)
OffsetsOf(ms) == [i \in DOMAIN ms |-> ms[i].Offset]

(* ms are the messages of the partition from b on.                         *)
StoredFrom(b, ms) ==
    /\ Increasing(OffsetsOf(ms))
    /\ Range(OffsetsOf(ms)) = {m \in stored : b <= m}

(* The first w of them are what is stored up to some offset.               *)
LEMMA PrefixFetchable ==
    ASSUME TypeOK, Log, NEW K, NEW V, NEW ms \in Seq(Entries(K, V)),
           NEW o, NEW b \in {SetMax({h \in heads : h <= o}), o},
           StoredFrom(b, ms), NEW w \in 0..Len(ms)
    PROVE  OffsetsOf(SubSeq(AsRead(ms), 1, w)) \in Fetchable(o)
<1> DEFINE t == OffsetsOf(ms)
           rs == SubSeq(AsRead(ms), 1, w)
           s == OffsetsOf(rs)
           l == Len(ms)
           cut == IF w = l THEN end ELSE t[w + 1]
           S == {m \in stored : b <= m /\ m < cut}
<1>1. l \in Nat /\ w \in Nat /\ w <= l /\ DOMAIN ms = 1..l
  OBVIOUS
<1>2. t \in [1..l -> Nat] /\ \A i \in 1..l : t[i] = ms[i].Offset
  <2>1. \A i \in 1..l : ms[i].Offset \in Nat
    <3>1. \A i \in 1..l : ms[i] \in Entries(K, V)
      OBVIOUS
    <3> QED
      BY <3>1 DEF Entries
  <2> QED
    BY <1>1, <2>1 DEF OffsetsOf
<1>3. s \in [1..w -> Nat] /\ \A i \in 1..w : s[i] = t[i]
  <2>1. /\ AsRead(ms) \in Seq(ReadSet(K, V)) /\ Len(AsRead(ms)) = l
        /\ \A i \in 1..l : AsRead(ms)[i] = MessageAsRead(ms[i])
    BY AsReadIs
  <2>2. w \in 0..Len(AsRead(ms))
    BY <1>1, <2>1
  <2>3. rs \in Seq(ReadSet(K, V)) /\ Len(rs) = w /\ \A i \in 1..w : rs[i] = AsRead(ms)[i]
    BY <2>1, <2>2, Prefix
  <2> HIDE DEF rs, t
  <2>4. DOMAIN rs = 1..w
    BY <1>1, <2>3
  <2>5. s = [i \in 1..w |-> rs[i].Offset]
    BY <2>4 DEF OffsetsOf
  <2>6. ASSUME NEW i \in 1..w PROVE rs[i].Offset = t[i] /\ t[i] \in Nat
    <3>1. i \in 1..l
      BY <1>1
    <3>2. rs[i] = MessageAsRead(ms[i])
      BY <2>1, <2>3, <3>1
    <3>3. rs[i].Offset = ms[i].Offset
      BY <3>2 DEF MessageAsRead
    <3> QED
      BY <1>2, <3>1, <3>3
  <2> QED
    BY <2>5, <2>6
<1>4. Increasing(t) /\ Range(t) = {m \in stored : b <= m}
  BY DEF StoredFrom
<1> HIDE DEF t, rs, l
<1>5. DOMAIN t = 1..l /\ \A i, j \in 1..l : i < j => t[i] < t[j]
  BY <1>2, <1>4 DEF Increasing
<1>6. \A m : m \in stored /\ b <= m <=> \E i \in 1..l : t[i] = m
  BY <1>4, <1>5 DEF Range
<1>7. stored \subseteq 0..(end - 1) /\ end \in Nat
      /\ S \in SUBSET Offsets /\ Offsets \subseteq Nat
  <2>1. stored \subseteq Offsets /\ end \in Nat /\ Offsets \subseteq Nat
    BY ConsumerAssumption DEF TypeOK, Offsets
  <2>2. \A m \in stored : m \in Nat /\ m < end
    BY <2>1 DEF Log
  <2>3. \A m \in stored : m \in 0..(end - 1)
    BY <2>1, <2>2
  <2> QED
    BY <2>1, <2>3
<1>8. \A i \in 1..l : t[i] \in 0..(end - 1)
  BY <1>6, <1>7
<1>9. cut \in 0..end
  <2>1. CASE w = l
    BY <1>7, <2>1
  <2>2. CASE w # l
    <3>1. w + 1 \in 1..l
      BY <1>1, <2>2
    <3>2. t[w + 1] \in 0..(end - 1)
      BY <1>8, <3>1
    <3> QED
      BY <1>7, <2>2, <3>2
  <2> QED
    BY <2>1, <2>2
<1>10. ASSUME NEW i \in 1..l PROVE t[i] < cut <=> i <= w
  <2>1. t[i] \in Nat /\ t[i] < end
    BY <1>7, <1>8
  <2>2. CASE w = l
    BY <1>1, <2>1, <2>2
  <2>3. CASE w # l
    <3>1. w + 1 \in 1..l /\ cut = t[w + 1] /\ t[w + 1] \in Nat
      BY <1>1, <1>2, <2>3
    <3>2. CASE i <= w
      <4>1. i < w + 1
        BY <1>1, <3>2
      <4> QED
        BY <1>5, <3>1, <3>2, <4>1
    <3>3. CASE ~(i <= w)
      <4>1. w + 1 = i \/ w + 1 < i
        BY <1>1, <3>3
      <4>2. t[w + 1] <= t[i]
        BY <1>5, <2>1, <3>1, <4>1
      <4> QED
        BY <2>1, <3>1, <3>3, <4>2
    <3> QED
      BY <3>2, <3>3
  <2> QED
    BY <2>2, <2>3
<1> HIDE DEF s, cut
<1>11. s \in Seq(Nat) /\ DOMAIN s = 1..w
  BY <1>1, <1>3, FcnIsSeq
<1>12. Increasing(s)
  <2>1. \A i \in 1..w : i \in 1..l
    BY <1>1
  <2> QED
    BY <1>3, <1>5, <1>11, <2>1 DEF Increasing
<1>13. Range(s) = S
  <2>1. ASSUME NEW i \in 1..w PROVE s[i] \in S
    <3>1. i \in 1..l /\ i <= w
      BY <1>1
    <3>2. t[i] \in stored /\ b <= t[i] /\ t[i] < cut
      BY <1>6, <1>10, <3>1
    <3> QED
      BY <1>3, <3>2
  <2>2. ASSUME NEW m \in S PROVE \E i \in 1..w : s[i] = m
    <3>1. PICK i \in 1..l : t[i] = m
      BY <1>6
    <3>2. i <= w
      BY <1>10, <3>1
    <3>3. i \in 1..w
      BY <1>1, <3>2
    <3> QED
      BY <1>3, <3>1, <3>3
  <2> HIDE DEF S
  <2> QED
    BY <1>11, <2>1, <2>2 DEF Range
<1>14. /\ Ascending(S) \in Seq(Nat)
       /\ Increasing(Ascending(S)) /\ Range(Ascending(S)) = S
  <2> HIDE DEF S
  <2>1. /\ Ascending(S) \in Seq(S)
        /\ Increasing(Ascending(S)) /\ Range(Ascending(S)) = S
    BY <1>7, AscendingIs
  <2> DEFINE a == Ascending(S)
  <2> HIDE DEF a
  <2>2. a \in Seq(S) /\ S \subseteq Nat
    BY <1>7, <2>1 DEF a
  <2>3. a \in Seq(Nat)
    <3>1. \A i \in 1..Len(a) : a[i] \in S
      BY <2>2
    <3>2. \A i \in 1..Len(a) : a[i] \in Nat
      BY <2>2, <3>1
    <3> QED
      BY <2>2, <3>2
  <2> QED
    BY <2>1, <2>3 DEF a
<1>15. s = Ascending(S)
  <2> HIDE DEF S
  <2> DEFINE a == Ascending(S)
  <2> HIDE DEF a
  <2>1. a \in Seq(Nat) /\ Increasing(a) /\ Range(s) = Range(a)
    BY <1>13, <1>14 DEF a
  <2>2. s = a
    BY <1>11, <1>12, <2>1, OneOrder
  <2> QED
    BY <2>2 DEF a
<1>16. s \in Fetchable(o)
  <2> DEFINE heading == SetMax({h \in heads : h <= o})
             upTo(x, c) == Ascending({m \in stored : x <= m /\ m < c})
  <2>1. b \in {heading, o} /\ cut \in 0..end /\ s = upTo(b, cut)
    BY <1>9, <1>15
  <2>2. Fetchable(o) = {upTo(x, c) : x \in {heading, o}, c \in 0..end}
    BY DEF Fetchable
  <2> HIDE DEF heading, upTo
  <2> QED
    BY <2>1, <2>2
<1> QED
  BY <1>16 DEF s, rs

(* What is read of the messages that the partition has from the start of   *)
(* the batch or from the offset on, however they were compressed and       *)
(* wherever the response was cut off or damaged outside a compressed       *)
(* batch, is always among what Consumer lets a fetch return: of such       *)
(* responses Fetchable assumes nothing.                                    *)
THEOREM FetchIsFetchable ==
    ASSUME NEW K, NEW V, NEW ms \in Seq(Entries(K, V)), NEW b, Sendable(ms, b),
           b.in = 0, b.codec # 3, NEW n \in 0..Len(KafkaSet(ms, b))
    PROVE  Spec => [](\A first \in {SetMax({h \in heads : h <= offset}), offset} :
                         StoredFrom(first, ms) =>
                            OffsetsOf(readMessageSet(SubSeq(KafkaSet(ms, b), 1, n)).set)
                               \in Fetchable(offset))
<1> DEFINE r == readMessageSet(SubSeq(KafkaSet(ms, b), 1, n))
           w == Whole(b, n)
<1>1. r.set = SubSeq(AsRead(ms), 1, w)
  BY FetchedPrefix
<1>2. w \in 0..Len(ms)
  <2> DEFINE k == Intact(b, n)
             l == Len(ms) - b.size
  <2>1. Len(ms) \in Nat /\ b.size \in Nat /\ b.size >= 1 /\ b.size <= Len(ms) /\ l \in Nat
    BY SendableIs
  <2>2. k \in 0..(l + 1)
    BY KafkaReads
  <2>3. w = IF k = 0 THEN 0 ELSE b.size + k - 1
    <3>1. PICK U, vs : Rows(U, KafkaSet(ms, b), vs)
      BY KafkaRows
    <3>2. Len(KafkaSet(ms, b)) \in Nat
      BY <3>1 DEF Rows
    <3>3. n \in Nat
      BY <3>2
    <3> QED
      BY <3>3, WholeIs
  <2> HIDE DEF k, w
  <2> QED
    BY <2>1, <2>2, <2>3
<1>3. ASSUME IInv, NEW first \in {SetMax({h \in heads : h <= offset}), offset},
             StoredFrom(first, ms)
      PROVE  OffsetsOf(r.set) \in Fetchable(offset)
  <2>1. TypeOK /\ Log
    BY <1>3 DEF IInv
  <2>2. OffsetsOf(SubSeq(AsRead(ms), 1, w)) \in Fetchable(offset)
    <3> HIDE DEF w
    <3> QED
      BY <1>2, <1>3, <2>1, PrefixFetchable
  <2> QED
    BY <1>1, <2>2
<1>4. IInv => \A first \in {SetMax({h \in heads : h <= offset}), offset} :
                 StoredFrom(first, ms) =>
                    OffsetsOf(readMessageSet(SubSeq(KafkaSet(ms, b), 1, n)).set)
                       \in Fetchable(offset)
  BY <1>3
<1> QED
  BY <1>4, Invariance, PTL
=============================================================================
