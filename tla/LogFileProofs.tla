---------------------------- MODULE LogFileProofs ----------------------------
(***************************************************************************)
(* What the operators of LogFile return: facts the proofs about Tailer     *)
(* rest on.                                                                *)
(***************************************************************************)
EXTENDS LogFile, WellFoundedInduction, TLAPS

USE DEF File, Offset, NoFile

LEMMA Bounds ==
  /\ NumFiles \in Nat \ {0}
  /\ MaxUnits \in Nat \ {0}
  /\ \A f \in File : Breaks[f] \subseteq 1..MaxUnits
  BY FileAssumption

LEMMA NumFilesPositive == NumFiles \in Nat /\ 1 \in File
  BY FileAssumption
----------------------------------------------------------------------------
(* Lines. *)

LEMMA LineEndsType ==
  ASSUME NEW f \in File, NEW lo \in Offset, NEW hi \in Offset
  PROVE  /\ LineEnds(f, lo, hi) \subseteq Offset
         /\ \A e \in LineEnds(f, lo, hi) : lo < e /\ e <= hi
  BY Bounds DEF LineEnds

(* A line ends at a newline or at the end, and none lies within it. *)
LEMMA LineEndsMeans ==
  ASSUME NEW f \in File, NEW lo \in Offset, NEW hi \in Offset,
         NEW e \in LineEnds(f, lo, hi)
  PROVE  /\ e \in Breaks[f] \/ e = hi
         /\ \A b \in Breaks[f] : b <= lo \/ e <= b
<1>1. e \in Breaks[f] \/ e = hi
      BY DEF LineEnds
<1>2. ASSUME NEW b \in Breaks[f], ~(b <= lo), ~(e <= b) PROVE FALSE
  <2>1. lo \in Nat /\ hi \in Nat /\ b \in Nat /\ e \in lo + 1 .. hi
        BY Bounds DEF LineEnds
  <2>2. b \in lo + 1 .. e - 1
        BY <1>2, <2>1
  <2> QED
      BY <2>2 DEF LineEnds
<1> QED
    BY <1>1, <1>2

(* A nonempty set of numbers has a least one. *)
LEMMA LeastNumber ==
  ASSUME NEW S \in SUBSET Nat, S # {}
  PROVE  \E n \in S : \A m \in S : n <= m
<1>1. \E n \in S : \A m \in S : ~(<<m, n>> \in OpToRel(<, Nat))
      BY WFMin, NatLessThanWellFounded, Zenon
<1>2. PICK n \in S : \A m \in S : ~(<<m, n>> \in OpToRel(<, Nat))
      BY <1>1
<1>3. ASSUME NEW m \in S PROVE ~(m < n)
  <2>1. m \in Nat /\ n \in Nat
        OBVIOUS
  <2> QED
      BY <1>2, <2>1, Zenon DEF OpToRel
<1>4. ASSUME NEW m \in S PROVE n <= m
      BY <1>3, <1>4
<1> QED
    BY <1>4

(* If the readable part of a file ends at a line end, whatever is left of  *)
(* it begins with a whole line: the loop that takes the lines off it stops *)
(* only when nothing is left.                                              *)
LEMMA LineFound ==
  ASSUME NEW f \in File, NEW lo \in Offset, NEW hi \in Offset,
         lo < hi, LineStart(f, hi)
  PROVE  LineEnds(f, lo, hi) \cap Breaks[f] # {}
<1> DEFINE S == {d \in lo + 1 .. hi : d \in Breaks[f]}
<1>1. lo \in Nat /\ hi \in Nat
      BY Bounds
<1>2. hi \in S
      BY <1>1 DEF LineStart
<1>3. S \subseteq Nat /\ S # {}
      BY <1>1, <1>2
<1>4. PICK n \in S : \A m \in S : n <= m
      BY <1>3, LeastNumber
<1>5. n \in lo + 1 .. hi /\ n \in Breaks[f]
      OBVIOUS
<1>6. ASSUME NEW d \in lo + 1 .. n - 1 PROVE d \notin Breaks[f]
  <2>1. d \in lo + 1 .. hi /\ ~(n <= d)
        BY <1>1, <1>5
  <2> QED
      BY <1>4, <2>1
<1> QED
    BY <1>5, <1>6 DEF LineEnds

(* The loop that takes the lines off a readable part stops only when it    *)
(* holds no newline any more.                                              *)
LEMMA NoLineLeft ==
  ASSUME NEW f \in File, NEW lo \in Offset, NEW hi \in Offset,
         LineEnds(f, lo, hi) \cap Breaks[f] = {}
  PROVE  \A b \in Breaks[f] : b <= lo \/ hi < b
<1> SUFFICES ASSUME NEW b \in Breaks[f], ~(b <= lo), ~(hi < b) PROVE FALSE
    OBVIOUS
<1>1. lo \in Nat /\ hi \in Nat /\ b \in 1..MaxUnits
      BY Bounds
<1>2. b \in Offset /\ lo < b /\ b <= hi
      BY <1>1, Bounds
<1>3. PICK e \in LineEnds(f, lo, b) : e \in Breaks[f]
      BY <1>2, LineFound DEF LineStart
<1>4. e \in LineEnds(f, lo, hi)
      BY <1>1, <1>2, <1>3 DEF LineEnds
<1> QED
    BY <1>3, <1>4

----------------------------------------------------------------------------
(* Messages and queues of them. *)

LEMMA MessageType ==
  ASSUME NEW f \in File, NEW lo \in Offset, NEW hi \in Offset
  PROVE  [file |-> f, lo |-> lo, hi |-> hi] \in Message
  BY DEF Message

LEMMA MessageParts ==
  ASSUME NEW ms \in Seq(Message), NEW i \in DOMAIN ms
  PROVE  /\ ms[i] \in Message
         /\ ms[i].file \in Nat /\ ms[i].lo \in Nat /\ ms[i].hi \in Nat
<1>1. ms[i] \in Message
      OBVIOUS
<1>2. File \subseteq Nat /\ Offset \subseteq Nat
      BY Bounds
<1> QED
    BY <1>1, <1>2 DEF Message

LEMMA BatchAppend ==
  ASSUME NEW ms \in Seq(Message), NEW m \in Message
  PROVE  Batch(Append(ms, m)) = Batch(ms) \cup Units(m)
<1> DEFINE as == Append(ms, m)
<1>1. /\ DOMAIN as = 1 .. Len(ms) + 1
      /\ \A i \in 1 .. Len(ms) : as[i] = ms[i]
      /\ as[Len(ms) + 1] = m
      OBVIOUS
<1>2. DOMAIN ms = 1 .. Len(ms) /\ Len(ms) \in Nat
      OBVIOUS
<1> HIDE DEF as
<1>3. ASSUME NEW u \in Batch(as) PROVE u \in Batch(ms) \cup Units(m)
  <2>1. PICK i \in DOMAIN as : u \in Units(as[i])
        BY <1>3 DEF Batch
  <2>2. CASE i = Len(ms) + 1
        BY <1>1, <2>1, <2>2
  <2>3. CASE i # Len(ms) + 1
    <3>1. i \in 1 .. Len(ms)
          BY <1>1, <1>2, <2>3
    <3> QED
        BY <1>1, <1>2, <2>1, <3>1 DEF Batch
  <2> QED
      BY <2>2, <2>3
<1>4. ASSUME NEW u \in Batch(ms) PROVE u \in Batch(as)
  <2>1. PICK i \in DOMAIN ms : u \in Units(ms[i])
        BY <1>4 DEF Batch
  <2>2. i \in 1 .. Len(ms)
        BY <1>2
  <2>3. i \in 1 .. Len(ms) + 1
        BY <1>2, <2>2
  <2>4. i \in DOMAIN as /\ as[i] = ms[i]
        BY <1>1, <2>2, <2>3
  <2> QED
      BY <2>1, <2>4 DEF Batch
<1>5. Units(m) \subseteq Batch(as)
  <2>1. Len(ms) + 1 \in DOMAIN as
        BY <1>1, <1>2
  <2> QED
      BY <1>1, <2>1 DEF Batch
<1> QED
    BY <1>3, <1>4, <1>5 DEF as

LEMMA BatchEmpty == Batch(<<>>) = {}
  BY DEF Batch

LEMMA BatchType ==
  ASSUME NEW ms \in Seq(Message)
  PROVE  Batch(ms) \subseteq File \X Offset
<1> SUFFICES ASSUME NEW i \in DOMAIN ms
             PROVE  Units(ms[i]) \subseteq File \X Offset
    BY DEF Batch
<1>1. ms[i] \in Message
      OBVIOUS
<1>2. \A x \in ms[i].lo .. ms[i].hi - 1 : x \in Offset
      BY <1>1, Bounds DEF Message
<1> QED
    BY <1>1, <1>2 DEF Units, Message
==============================================================================
