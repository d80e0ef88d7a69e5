---------------------------- MODULE KernelProofs ----------------------------
(***************************************************************************)
(* Theorems about the page allocator (module Pmm), for any memory map,     *)
(* reservation and stack bound, about the FAT16 reader (module Fat16), for *)
(* any media, and about the virtio transmitter (module VirtioTx), for      *)
(* indices of any width.                                                   *)
(***************************************************************************)
EXTENDS Pmm, Fat16, VirtioTx, FiniteSetTheorems, SequenceTheorems, WellFoundedInduction, TLAPS

(* What is being scanned lies in a conventional descriptor, to its end. *)
ScanInv ==
  scanAddr # 0 =>
    /\ scanOff \in 1..Len(Map)
    /\ Map[scanOff].type = Conventional
    /\ Lo(scanOff) <= scanAddr
    /\ scanEnd = Hi(scanOff)

(* No page is twice on the recycle stack: popping one really removes it. *)
StackInv ==
  \A i, j \in 1..Len(recycled) : i # j => recycled[i] # recycled[j]

(* Every allocatable page is lent, on the stack or ahead of the scan. *)
Partition ==
  /\ Allocatable = Lent \cup RecycledPages \cup Unscanned
  /\ Lent \cap RecycledPages = {}
  /\ Lent \cap Unscanned = {}
  /\ RecycledPages \cap Unscanned = {}

(* Stale frees apart, a page has one holder or none. *)
ClaimsInv ==
  \A p \in Allocatable : claims[p] = stale[p] \/ claims[p] = stale[p] + 1

IInv ==
  /\ TypeOK
  /\ ScanInv
  /\ StackInv
  /\ Partition
  /\ ClaimsInv
  /\ IsFiniteSet(Lent)
  /\ UsedCountsHeld
  /\ FailsOnlyWhenExhausted
-----------------------------------------------------------------------------
LEMMA LenMap == Len(Map) \in Nat
  BY PmmAssumption, LenProperties

LEMMA MapTypes ==
  ASSUME NEW i \in 1..Len(Map)
  PROVE  /\ Map[i].start \in Nat
         /\ Map[i].pages \in Nat
         /\ Hi(i) \in Nat
         /\ Lo(i) \in Nat
         /\ Span(i) \subseteq Nat
         /\ Map[i].type = Conventional => \A p \in Nat : p \in Span(i) <=> Lo(i) <= p /\ p < Hi(i)
<1>1. Map[i] \in [type : STRING, start : Nat, pages : Nat]
  BY PmmAssumption, ElementOfSeq
<1>2. Map[i].start \in Nat /\ Map[i].pages \in Nat /\ MinPage \in Nat
  BY <1>1, PmmAssumption
<1>3. Hi(i) \in Nat /\ Lo(i) \in Nat
  BY <1>2 DEF Hi, Lo
<1>4. QED
  BY <1>2, <1>3 DEF Span

(* The allocatable pages are page numbers. *)
LEMMA AllocatableNat == Allocatable \subseteq Nat
  BY MapTypes DEF Allocatable

LEMMA AllocatableMember ==
  ASSUME NEW p
  PROVE  p \in Allocatable <=> p \notin Reserved /\ \E i \in 1..Len(Map) : p \in Span(i)
<1> DEFINE Spans == {Span(i) : i \in 1..Len(Map)}
<1>1. p \in UNION Spans <=> \E S \in Spans : p \in S
  BY Zenon
<1>2. (\E S \in Spans : p \in S) <=> \E i \in 1..Len(Map) : p \in Span(i)
  BY Zenon
<1>3. QED
  BY <1>1, <1>2, Zenon DEF Allocatable

(* What lies ahead of a scan position. *)
LEMMA AheadOfMember ==
  ASSUME NEW off, NEW addr, NEW end, NEW c
  PROVE  c \in AheadOf(off, addr, end) <=>
           \/ addr # 0 /\ \E p \in addr..(end - 1) : c = <<off, p>>
           \/ \E i \in (off + 1)..Len(Map) : \E p \in Span(i) : c = <<i, p>>
  BY DEF AheadOf

LEMMA AheadMember ==
  ASSUME NEW c \in Ahead
  PROVE  \/ c[1] = scanOff /\ scanAddr # 0 /\ c[2] \in scanAddr..(scanEnd - 1)
         \/ c[1] \in (scanOff + 1)..Len(Map) /\ c[2] \in Span(c[1])
  BY AheadOfMember DEF Ahead

(* The pages ahead of a scan position, without their descriptors. *)
LEMMA PagesAhead ==
  ASSUME NEW off, NEW addr, NEW end, NEW p
  PROVE  p \in {c[2] : c \in AheadOf(off, addr, end)} <=>
           \/ addr # 0 /\ p \in addr..(end - 1)
           \/ \E i \in (off + 1)..Len(Map) : p \in Span(i)
<1> DEFINE A == AheadOf(off, addr, end)
<1>1. ASSUME NEW i, <<i, p>> \in A
      PROVE  p \in {c[2] : c \in A}
  <2>1. <<i, p>>[2] = p
    OBVIOUS
  <2> HIDE DEF A
  <2>2. QED
    BY <1>1, <2>1
<1>2. ASSUME NEW c \in A, c[2] = p
      PROVE  \/ addr # 0 /\ p \in addr..(end - 1)
             \/ \E i \in (off + 1)..Len(Map) : p \in Span(i)
  <2>1. CASE addr # 0 /\ \E q \in addr..(end - 1) : c = <<off, q>>
    BY <1>2, <2>1
  <2>2. CASE \E i \in (off + 1)..Len(Map) : \E q \in Span(i) : c = <<i, q>>
    BY <1>2, <2>2
  <2>3. QED
    BY <1>2, <2>1, <2>2, AheadOfMember
<1>3. ASSUME addr # 0, p \in addr..(end - 1)
      PROVE  <<off, p>> \in A
  BY <1>3, AheadOfMember
<1>4. ASSUME NEW i \in (off + 1)..Len(Map), p \in Span(i)
      PROVE  <<i, p>> \in A
  BY <1>4, AheadOfMember
<1> HIDE DEF A
<1>5. QED
  BY <1>1, <1>2, <1>3, <1>4 DEF A

(* Membership of a page in the part of the map still ahead. *)
LEMMA UnscannedMember ==
  ASSUME NEW p
  PROVE  p \in Unscanned <=>
           /\ p \notin Reserved
           /\ \/ scanAddr # 0 /\ p \in scanAddr..(scanEnd - 1)
              \/ \E i \in (scanOff + 1)..Len(Map) : p \in Span(i)
  BY PagesAhead DEF Unscanned, Ahead

(* The same of the next position. *)
LEMMA UnscannedMemberNext ==
  ASSUME NEW p
  PROVE  p \in Unscanned' <=>
           /\ p \notin Reserved
           /\ \/ scanAddr' # 0 /\ p \in scanAddr'..(scanEnd' - 1)
              \/ \E i \in (scanOff' + 1)..Len(Map) : p \in Span(i)
  BY PagesAhead DEF Unscanned, Ahead

(* Advancing the scan past c takes exactly the page of c out of what is    *)
(* ahead: reserved pages are skipped and no other page is.                 *)
LEMMA ScanAdvance ==
  ASSUME IInv, NEW c \in Ahead, c[2] \notin Reserved,
         \A d \in Ahead : Before(d, c) => d[2] \in Reserved,
         scanOff' = c[1], scanAddr' = c[2] + 1, scanEnd' = Hi(c[1])
  PROVE  /\ c[2] \in Unscanned
         /\ Unscanned' = Unscanned \ {c[2]}
         /\ ScanInv'
         /\ c[1] \in 1..Len(Map)
         /\ c[2] \in Nat
         /\ Hi(c[1]) \in Nat
<1>1. /\ c[1] \in 1..Len(Map)
      /\ c[1] >= scanOff
      /\ Map[c[1]].type = Conventional
      /\ c[2] \in Span(c[1])
  <2>1. CASE c[1] = scanOff /\ scanAddr # 0 /\ c[2] \in scanAddr..(scanEnd - 1)
    <3>1. scanOff \in 1..Len(Map) /\ Map[scanOff].type = Conventional
          /\ Lo(scanOff) <= scanAddr /\ scanEnd = Hi(scanOff)
      BY <2>1 DEF IInv, ScanInv
    <3>2. Lo(scanOff) \in Nat /\ Hi(scanOff) \in Nat /\ scanAddr \in Nat
      BY <3>1, MapTypes DEF IInv, TypeOK
    <3>3. c[2] \in Span(scanOff)
      <4>1. c[2] \in Nat /\ Lo(scanOff) <= c[2] /\ c[2] < Hi(scanOff)
        BY <2>1, <3>1, <3>2
      <4>2. QED
        BY <3>1, <4>1, MapTypes
    <3>4. QED
      BY <2>1, <3>1, <3>3
  <2>2. CASE c[1] \in (scanOff + 1)..Len(Map) /\ c[2] \in Span(c[1])
    BY <2>2, PmmAssumption DEF IInv, TypeOK, Span
  <2>3. QED
    BY <2>1, <2>2, AheadMember
<1>2. /\ Lo(c[1]) \in Nat /\ Hi(c[1]) \in Nat /\ c[2] \in Nat
      /\ Lo(c[1]) <= c[2] /\ c[2] < Hi(c[1])
  BY <1>1, MapTypes
<1>3. c[2] \in Unscanned
  BY DEF Unscanned
<1>4. ScanInv'
  BY <1>1, <1>2 DEF ScanInv
<1>5. ASSUME NEW p \in Unscanned, p # c[2]
      PROVE  p \in Unscanned'
  <2>1. PICK d \in Ahead : d[2] = p /\ p \notin Reserved
    BY <1>5 DEF Unscanned
  <2>2. ~Before(d, c)
    BY <2>1
  <2>3. CASE d[1] = scanOff /\ scanAddr # 0 /\ d[2] \in scanAddr..(scanEnd - 1)
    <3>1. scanOff \in Nat /\ scanAddr \in Nat /\ scanEnd = Hi(scanOff)
      BY <2>3 DEF IInv, TypeOK, ScanInv
    <3>2. c[1] = scanOff /\ d[2] > c[2] /\ d[2] < Hi(c[1])
      BY <1>1, <1>2, <1>5, <2>1, <2>2, <2>3, <3>1, MapTypes DEF Before
    <3>3. d[2] \in (c[2] + 1)..(Hi(c[1]) - 1)
      BY <1>2, <2>3, <3>1, <3>2
    <3>4. QED
      BY <1>2, <2>1, <3>3, UnscannedMemberNext
  <2>4. CASE d[1] \in (scanOff + 1)..Len(Map) /\ d[2] \in Span(d[1])
    <3>1. scanOff \in Nat /\ Len(Map) \in Nat /\ d[1] \in 1..Len(Map)
      BY <2>4, PmmAssumption DEF IInv, TypeOK
    <3>2. CASE d[1] > c[1]
      <4>1. d[1] \in (c[1] + 1)..Len(Map)
        BY <1>1, <2>4, <3>1, <3>2
      <4>2. QED
        BY <2>1, <2>4, <4>1, UnscannedMemberNext
    <3>3. CASE d[1] = c[1]
      <4>1. d[2] \in Nat /\ d[2] < Hi(c[1])
        BY <1>1, <2>4, <3>1, <3>3, MapTypes
      <4>2. d[2] \in (c[2] + 1)..(Hi(c[1]) - 1)
        BY <1>2, <1>5, <2>1, <2>2, <3>3, <4>1 DEF Before
      <4>3. QED
        BY <1>2, <2>1, <4>2, UnscannedMemberNext
    <3>4. QED
      BY <1>1, <2>2, <3>1, <3>2, <3>3 DEF Before
  <2>5. QED
    BY <2>3, <2>4, AheadMember
<1>6. ASSUME NEW p \in Unscanned'
      PROVE  p \in Unscanned /\ p # c[2]
  <2>1. p \notin Reserved
    BY <1>6, UnscannedMemberNext
  <2>2. \/ p \in (c[2] + 1)..(Hi(c[1]) - 1)
        \/ \E i \in (c[1] + 1)..Len(Map) : p \in Span(i)
    BY <1>6, UnscannedMemberNext
  <2>3. CASE p \in (c[2] + 1)..(Hi(c[1]) - 1)
    <3>1. p \in Nat /\ p > c[2] /\ p < Hi(c[1]) /\ p \in Span(c[1])
      BY <1>1, <1>2, <2>3, MapTypes
    <3>2. CASE c[1] = scanOff /\ scanAddr # 0 /\ c[2] \in scanAddr..(scanEnd - 1)
      <4>1. p \in scanAddr..(scanEnd - 1)
        BY <1>2, <3>1, <3>2 DEF IInv, TypeOK, ScanInv
      <4>2. QED
        BY <2>1, <3>1, <3>2, <4>1, <1>2, UnscannedMember
    <3>3. CASE c[1] \in (scanOff + 1)..Len(Map)
      BY <1>2, <2>1, <3>1, <3>3, UnscannedMember
    <3>4. QED
      BY <3>2, <3>3, AheadMember
  <2>4. CASE \E i \in (c[1] + 1)..Len(Map) : p \in Span(i)
    <3>1. PICK i \in (c[1] + 1)..Len(Map) : p \in Span(i)
      BY <2>4
    <3>2. i \in (scanOff + 1)..Len(Map) /\ i \in 1..Len(Map) /\ i # c[1]
      BY <1>1, <3>1, LenMap DEF IInv, TypeOK
    <3>3. Span(i) \cap Span(c[1]) = {}
      BY <1>1, <3>2, PmmAssumption
    <3>4. QED
      BY <1>1, <2>1, <3>1, <3>2, <3>3, UnscannedMember
  <2>5. QED
    BY <2>2, <2>3, <2>4
<1>7. Unscanned' = Unscanned \ {c[2]}
  BY <1>5, <1>6
<1>8. QED
  BY <1>1, <1>2, <1>3, <1>4, <1>7
-----------------------------------------------------------------------------
(* Popping the stack removes exactly the page on top (pmm_alloc_page). *)
LEMMA PopStack ==
  ASSUME recycled \in Seq(Nat), recycled # << >>, StackInv,
         recycled' = SubSeq(recycled, 1, Len(recycled) - 1)
  PROVE  /\ recycled' \in Seq(Nat)
         /\ StackInv'
         /\ recycled[Len(recycled)] \in RecycledPages
         /\ RecycledPages' = RecycledPages \ {recycled[Len(recycled)]}
<1> DEFINE n == Len(recycled)
<1>1. n \in Nat /\ n >= 1
  BY EmptySeq, LenProperties
<1>2. /\ recycled' \in Seq(Nat)
      /\ Len(recycled') = n - 1
      /\ \A i \in 1..(n - 1) : recycled'[i] = recycled[i]
  <2>1. \A i \in 1..(n - 1) : recycled[i] \in Nat
    BY <1>1, ElementOfSeq
  <2>2. n - 1 \in Int /\ (n - 1) - 1 + 1 = n - 1
    BY <1>1
  <2>3. /\ recycled' \in Seq(Nat)
        /\ Len(recycled') = IF 1 <= n - 1 THEN (n - 1) - 1 + 1 ELSE 0
        /\ \A i \in 1..((n - 1) - 1 + 1) : recycled'[i] = recycled[1 + i - 1]
    BY <2>1, <2>2, SubSeqProperties
  <2>4. QED
    BY <1>1, <2>2, <2>3
<1>3. StackInv'
  BY <1>1, <1>2 DEF StackInv
<1>4. RecycledPages' = {recycled[i] : i \in 1..(n - 1)}
  BY <1>1, <1>2 DEF RecycledPages
<1>5. n \in 1..n /\ recycled[n] \in RecycledPages
  BY <1>1 DEF RecycledPages
<1>6. \A i \in 1..(n - 1) : i \in 1..n /\ recycled[i] # recycled[n]
  BY <1>1 DEF StackInv
<1>7. \A i \in 1..n : i = n \/ i \in 1..(n - 1)
  BY <1>1
<1>8. RecycledPages' = RecycledPages \ {recycled[n]}
  BY <1>4, <1>6, <1>7 DEF RecycledPages
<1>9. QED
  BY <1>2, <1>3, <1>5, <1>8

(* Pushing a page that is not on the stack adds exactly it (pmm_free_page). *)
LEMMA PushStack ==
  ASSUME recycled \in Seq(Nat), StackInv, NEW p \in Nat, ~InRecycled(p),
         recycled' = Append(recycled, p)
  PROVE  /\ recycled' \in Seq(Nat)
         /\ StackInv'
         /\ RecycledPages' = RecycledPages \cup {p}
<1> DEFINE n == Len(recycled)
<1>1. n \in Nat
  BY LenProperties
<1>2. /\ recycled' \in Seq(Nat)
      /\ Len(recycled') = n + 1
      /\ \A i \in 1..n : recycled'[i] = recycled[i]
      /\ recycled'[n + 1] = p
  BY AppendProperties
<1>3. \A i \in 1..(n + 1) : i \in 1..n \/ i = n + 1
  BY <1>1
<1>4. \A i \in 1..n : i \in 1..(n + 1) /\ i # n + 1 /\ recycled[i] # p
  BY <1>1 DEF InRecycled
<1>5. StackInv'
  BY <1>1, <1>2, <1>3, <1>4 DEF StackInv
<1>6. RecycledPages' = RecycledPages \cup {p}
  <2>1. n + 1 \in 1..(n + 1)
    BY <1>1
  <2>2. QED
    BY <1>2, <1>3, <1>4, <2>1 DEF RecycledPages
<1>7. QED
  BY <1>2, <1>5, <1>6

(* Handing out a page that is not lent lends it, and keeps the count. *)
LEMMA HandOutLends ==
  ASSUME IInv, NEW p \in Allocatable, p \notin Lent, HandOut(p)
  PROVE  /\ Lent' = Lent \cup {p}
         /\ ClaimsInv'
         /\ claims' \in [Allocatable -> Nat] /\ stale' \in [Allocatable -> Nat]
         /\ IsFiniteSet(Lent') /\ UsedCountsHeld' /\ used' \in Nat
<1>1. /\ claims \in [Allocatable -> Nat] /\ stale \in [Allocatable -> Nat]
      /\ claims' = [claims EXCEPT ![p] = @ + 1] /\ stale' = stale
      /\ used \in Nat /\ used' = used + 1
      /\ ClaimsInv /\ IsFiniteSet(Lent) /\ UsedCountsHeld
  BY DEF IInv, TypeOK, HandOut
<1>2. claims[p] = stale[p] /\ claims'[p] = stale'[p] + 1
  BY <1>1 DEF ClaimsInv, Lent
<1>3. \A q \in Allocatable \ {p} : claims'[q] = claims[q] /\ stale'[q] = stale[q]
  BY <1>1
<1>4. claims' \in [Allocatable -> Nat] /\ stale' \in [Allocatable -> Nat]
  BY <1>1
<1>5. Allocatable' = Allocatable
  BY DEF Allocatable
<1>6. Lent' = Lent \cup {p}
  BY <1>1, <1>2, <1>3, <1>5 DEF Lent
<1>7. ClaimsInv'
  BY <1>1, <1>2, <1>3, <1>5 DEF ClaimsInv
<1>8. IsFiniteSet(Lent') /\ UsedCountsHeld'
  BY <1>1, <1>6, FS_AddElement DEF UsedCountsHeld
<1>9. QED
  BY <1>1, <1>4, <1>6, <1>7, <1>8

(* A free that is accepted takes a lent page back, whoever calls. *)
LEMMA TakeBackReturns ==
  ASSUME IInv, NEW p \in Allocatable, p \in Lent, TakeBack(p), Free(p) \/ StaleFree(p)
  PROVE  /\ Lent' = Lent \ {p}
         /\ ClaimsInv'
         /\ claims' \in [Allocatable -> Nat] /\ stale' \in [Allocatable -> Nat]
         /\ IsFiniteSet(Lent') /\ UsedCountsHeld' /\ used' \in Nat
<1>1. /\ claims \in [Allocatable -> Nat] /\ stale \in [Allocatable -> Nat]
      /\ used \in Nat /\ used # 0 /\ used' = used - 1
      /\ ClaimsInv /\ IsFiniteSet(Lent) /\ UsedCountsHeld
  BY DEF IInv, TypeOK, TakeBack, Accepts
<1>2. claims[p] = stale[p] + 1
  BY <1>1 DEF ClaimsInv, Lent
<1>3. /\ claims' \in [Allocatable -> Nat] /\ stale' \in [Allocatable -> Nat]
      /\ claims'[p] = stale'[p]
      /\ \A q \in Allocatable \ {p} : claims'[q] = claims[q] /\ stale'[q] = stale[q]
  <2>1. CASE Free(p)
    BY <1>1, <1>2, <2>1 DEF Free
  <2>2. CASE StaleFree(p)
    BY <1>1, <1>2, <2>2 DEF StaleFree
  <2>3. QED
    BY <2>1, <2>2
<1>4. Allocatable' = Allocatable
  BY DEF Allocatable
<1>5. Lent' = Lent \ {p}
  BY <1>1, <1>3, <1>4 DEF Lent
<1>6. ClaimsInv'
  BY <1>1, <1>3, <1>4 DEF ClaimsInv
<1>7. IsFiniteSet(Lent') /\ Cardinality(Lent') = Cardinality(Lent) - 1
  BY <1>1, <1>5, FS_RemoveElement
<1>8. QED
  BY <1>1, <1>3, <1>5, <1>6, <1>7 DEF UsedCountsHeld

(* The invariant is inductive. *)
LEMMA InductiveInvariant == Spec => []IInv
<1>1. Init => IInv
  <2> SUFFICES ASSUME Init PROVE IInv
    OBVIOUS
  <2> USE DEF Init
  <2>1. TypeOK
    <3>1. recycled \in Seq(Nat)
      BY EmptySeq
    <3>2. scanOff \in 0..Len(Map)
      BY LenMap
    <3>3. QED
      BY <3>1, <3>2 DEF TypeOK
  <2>2. RecycledPages = {}
    BY DEF RecycledPages
  <2>3. Unscanned = Allocatable
    <3>1. ASSUME NEW p
          PROVE  p \in Unscanned <=> p \in Allocatable
      <4>1. scanOff + 1 = 1 /\ scanAddr = 0
        OBVIOUS
      <4>2. p \in Unscanned <=> p \notin Reserved /\ \E i \in 1..Len(Map) : p \in Span(i)
        BY <4>1, UnscannedMember
      <4>3. QED
        BY <4>2, AllocatableMember
    <3>2. QED
      BY <3>1
  <2>4. Lent = {} /\ ClaimsInv
    BY DEF Lent, ClaimsInv
  <2>5. QED
    BY <2>1, <2>2, <2>3, <2>4, FS_EmptySet
       DEF IInv, ScanInv, StackInv, Partition, UsedCountsHeld, FailsOnlyWhenExhausted
<1>2. IInv /\ [Next]_vars => IInv'
  <2> SUFFICES ASSUME IInv, [Next]_vars
               PROVE  IInv'
    OBVIOUS
  <2>0. TypeOK /\ StackInv /\ Partition /\ Allocatable \subseteq Nat
    BY AllocatableNat DEF IInv
  <2>1. CASE AllocRecycled
    <3> DEFINE p == recycled[Len(recycled)]
    <3> USE <2>1 DEF AllocRecycled
    <3>1. /\ recycled' \in Seq(Nat) /\ StackInv'
          /\ p \in RecycledPages /\ RecycledPages' = RecycledPages \ {p}
      BY <2>0, PopStack DEF TypeOK
    <3>2. p \in Nat /\ p \in Allocatable /\ p \notin Lent
      BY <2>0, <3>1 DEF Partition
    <3>3. /\ Lent' = Lent \cup {p} /\ ClaimsInv'
          /\ claims' \in [Allocatable -> Nat] /\ stale' \in [Allocatable -> Nat]
          /\ IsFiniteSet(Lent') /\ UsedCountsHeld' /\ used' \in Nat
      BY <3>2, HandOutLends
    <3>4. Unscanned' = Unscanned /\ Allocatable' = Allocatable /\ UNCHANGED <<scanOff, scanAddr, scanEnd>>
      BY DEF scan, Unscanned, Ahead, Allocatable
    <3>5. failed' = FALSE
      BY DEF HandOut
    <3>6. Partition'
      BY <2>0, <3>1, <3>3, <3>4 DEF Partition
    <3>7. TypeOK' /\ ScanInv'
      BY <2>0, <3>1, <3>2, <3>3, <3>4, <3>5 DEF TypeOK, IInv, ScanInv
    <3>8. QED
      BY <3>1, <3>3, <3>5, <3>6, <3>7 DEF IInv, FailsOnlyWhenExhausted
  <2>2. CASE AllocScan
    <3>1. PICK c \in Ahead :
            /\ c[2] \notin Reserved
            /\ \A d \in Ahead : Before(d, c) => d[2] \in Reserved
            /\ HandOut(c[2])
            /\ scanOff' = c[1]
            /\ scanAddr' = c[2] + 1
            /\ scanEnd' = Hi(c[1])
      BY <2>2 DEF AllocScan
    <3>2. /\ c[2] \in Unscanned
          /\ Unscanned' = Unscanned \ {c[2]}
          /\ ScanInv'
          /\ c[1] \in 1..Len(Map)
          /\ c[2] \in Nat
          /\ Hi(c[1]) \in Nat
      BY <3>1, ScanAdvance
    <3>3. c[2] \in Allocatable /\ c[2] \notin Lent
      BY <2>0, <3>2 DEF Partition
    <3>4. /\ Lent' = Lent \cup {c[2]} /\ ClaimsInv'
          /\ claims' \in [Allocatable -> Nat] /\ stale' \in [Allocatable -> Nat]
          /\ IsFiniteSet(Lent') /\ UsedCountsHeld' /\ used' \in Nat
      BY <3>1, <3>3, HandOutLends
    <3>5. failed' = FALSE /\ recycled' = recycled
      BY <2>2, <3>1 DEF AllocScan, HandOut
    <3>6. RecycledPages' = RecycledPages /\ StackInv' /\ Allocatable' = Allocatable
      BY <2>0, <3>5 DEF RecycledPages, StackInv, Allocatable
    <3>7. Partition'
      BY <2>0, <3>2, <3>4, <3>6 DEF Partition
    <3>8. TypeOK'
      <4>1. scanOff' \in 0..Len(Map) /\ scanAddr' \in Nat /\ scanEnd' \in Nat
        BY <3>1, <3>2, LenMap
      <4>2. recycled' \in Seq(Nat)
        BY <2>0, <3>5 DEF TypeOK
      <4>3. QED
        BY <3>4, <3>5, <3>6, <4>1, <4>2 DEF TypeOK
    <3>9. QED
      BY <3>2, <3>4, <3>5, <3>6, <3>7, <3>8 DEF IInv, FailsOnlyWhenExhausted
  <2>3. CASE AllocNone
    <3> USE <2>3 DEF AllocNone
    <3>1. /\ RecycledPages' = RecycledPages /\ StackInv' /\ Allocatable' = Allocatable
          /\ Lent' = Lent /\ ClaimsInv'
      BY <2>0 DEF IInv, RecycledPages, StackInv, Allocatable, Lent, ClaimsInv
    <3>2. Unscanned' = {}
      <4>1. \A p : p \notin Unscanned'
        BY UnscannedMemberNext, LenMap
      <4>2. QED
        BY <4>1
    <3>3. Partition'
      BY <2>0, <3>1, <3>2 DEF Partition
    <3>4. RecycledPages = {}
      BY DEF RecycledPages
    <3>5. FailsOnlyWhenExhausted'
      BY <2>0, <3>1, <3>4 DEF Partition, FailsOnlyWhenExhausted
    <3>6. TypeOK' /\ ScanInv'
      BY <2>0, <3>1, LenMap DEF TypeOK, ScanInv
    <3>7. QED
      BY <3>1, <3>3, <3>5, <3>6 DEF IInv, UsedCountsHeld
  <2>4. ASSUME NEW p \in Frames, Free(p) \/ StaleFree(p)
        PROVE  IInv'
    <3>0. TakeBack(p)
      BY <2>4 DEF Free, StaleFree
    <3> USE <3>0 DEF TakeBack, Accepts
    <3>1. p \in Nat /\ p \in Allocatable
      <4>1. PICK i \in 1..Len(Map) : p \in Span(i)
        BY DEF ConventionalPage
      <4>2. p \in Allocatable
        BY <4>1, AllocatableMember
      <4>3. QED
        BY <2>0, <4>2
    <3>2. p \notin RecycledPages /\ p \notin Unscanned
      BY DEF InRecycled, RecycledPages, CallersFree
    <3>3. p \in Lent
      BY <2>0, <3>1, <3>2 DEF Partition
    <3>4. recycled' \in Seq(Nat) /\ StackInv' /\ RecycledPages' = RecycledPages \cup {p}
      BY <2>0, <3>1, PushStack DEF TypeOK
    <3>5. /\ Lent' = Lent \ {p} /\ ClaimsInv'
          /\ claims' \in [Allocatable -> Nat] /\ stale' \in [Allocatable -> Nat]
          /\ IsFiniteSet(Lent') /\ UsedCountsHeld' /\ used' \in Nat
      BY <2>4, <3>0, <3>1, <3>3, TakeBackReturns
    <3>6. Unscanned' = Unscanned /\ Allocatable' = Allocatable /\ UNCHANGED <<scanOff, scanAddr, scanEnd>>
      BY DEF scan, Unscanned, Ahead, Allocatable
    <3>7. Partition'
      BY <2>0, <3>2, <3>3, <3>4, <3>5, <3>6 DEF Partition
    <3>8. TypeOK' /\ ScanInv'
      BY <2>0, <3>4, <3>5, <3>6 DEF TypeOK, IInv, ScanInv
    <3>9. QED
      BY <3>4, <3>5, <3>7, <3>8 DEF IInv, FailsOnlyWhenExhausted
  <2>5. CASE (\E p \in Frames : FreeRejected(p)) \/ UNCHANGED vars
    <3>1. UNCHANGED <<scanOff, scanAddr, scanEnd, recycled, used, claims, stale, failed>>
      BY <2>5 DEF FreeRejected, vars, scan
    <3>2. /\ Unscanned' = Unscanned /\ Allocatable' = Allocatable
          /\ RecycledPages' = RecycledPages /\ Lent' = Lent
      BY <3>1 DEF Unscanned, Ahead, Allocatable, RecycledPages, Lent
    <3>3. QED
      BY <3>1, <3>2 DEF IInv, TypeOK, ScanInv, StackInv, Partition, ClaimsInv, UsedCountsHeld, FailsOnlyWhenExhausted
  <2>6. QED
    BY <2>1, <2>2, <2>3, <2>4, <2>5 DEF Next
<1>3. QED
  BY <1>1, <1>2, PTL DEF Spec

(* The types of the allocator's variables. *)
THEOREM TypeCorrect == Spec => []TypeOK
<1>1. IInv => TypeOK
  BY DEF IInv
<1>2. QED
  BY <1>1, InductiveInvariant, PTL

(* Whatever the memory map, no page is lost, and none has a second holder  *)
(* but for a stale free that pmm_free_page could not tell from a proper    *)
(* one: each of them costs exactly one.                                    *)
THEOREM PagePartition == Spec => []EveryPageOnce
<1>1. IInv => EveryPageOnce
  <2> SUFFICES ASSUME IInv, NEW p \in Allocatable
               PROVE  claims[p] = stale[p] + (IF p \in RecycledPages \cup Unscanned THEN 0 ELSE 1)
    BY DEF IInv, Partition, EveryPageOnce
  <2>1. /\ claims[p] \in Nat /\ stale[p] \in Nat
        /\ claims[p] = stale[p] \/ claims[p] = stale[p] + 1
    BY DEF IInv, TypeOK, ClaimsInv
  <2>2. p \in RecycledPages \cup Unscanned <=> p \notin Lent
    BY DEF IInv, Partition
  <2>3. p \in Lent <=> claims[p] > stale[p]
    BY DEF Lent
  <2>4. QED
    BY <2>1, <2>2, <2>3
<1>2. QED
  BY <1>1, InductiveInvariant, PTL

(* used_pages_count is exact, so its decrement never wraps. *)
THEOREM UsedCountExact == Spec => []UsedCountsHeld
<1>1. IInv => UsedCountsHeld
  BY DEF IInv
<1>2. QED
  BY <1>1, InductiveInvariant, PTL

(* An allocation fails only when the callers hold every page. *)
THEOREM ExhaustionReal == Spec => []FailsOnlyWhenExhausted
<1>1. IInv => FailsOnlyWhenExhausted
  BY DEF IInv
<1>2. QED
  BY <1>1, InductiveInvariant, PTL
-----------------------------------------------------------------------------
(* Every non-empty set of natural numbers has a least element.  What        *)
(* follows by induction is proved by way of the least counterexample.       *)
LEMMA Least ==
  ASSUME NEW T \in SUBSET Nat, T # {}
  PROVE  \E n \in T : \A m \in T : n <= m
<1> DEFINE Less == {c \in Nat \X Nat : c[1] < c[2]}
<1>1. IsWellFoundedOn(Less, Nat)
  BY NatLessThanWellFounded DEF OpToRel
<1>2. T \subseteq Nat
  OBVIOUS
<1> HIDE DEF Less
<1>3. PICK n \in T : \A m \in T : ~(<<m, n>> \in Less)
  BY <1>1, <1>2, WFMin
<1>4. SUFFICES ASSUME NEW m \in T PROVE n <= m
  OBVIOUS
<1>5. n \in Nat /\ m \in Nat
  OBVIOUS
<1>6. ~(m < n)
  BY <1>3, <1>5 DEF Less
<1>7. QED
  BY <1>5, <1>6

LEMMA PagesType ==
  ASSUME NEW i \in 1..Len(Map)
  PROVE  Pages(i) \in Nat
  BY MapTypes DEF Pages

(* The function the loop of pmm_init computes exists up to every bound. *)
LEMMA CountedExists ==
  ASSUME NEW n \in 0..Len(Map)
  PROVE  \E f \in [0..n -> Nat] :
           \A k \in 0..n : f[k] = IF k = 0 THEN 0 ELSE f[k - 1] + Pages(k)
<1> DEFINE Good(m, f) == \A k \in 0..m : f[k] = IF k = 0 THEN 0 ELSE f[k - 1] + Pages(k)
           Bad == {m \in 0..Len(Map) : ~\E f \in [0..m -> Nat] : Good(m, f)}
<1>1. SUFFICES Bad = {}
  OBVIOUS
<1>2. SUFFICES ASSUME Bad # {} PROVE FALSE
  OBVIOUS
<1>3. Bad \in SUBSET Nat
  BY LenMap
<1>4. PICK m \in Bad : \A k \in Bad : m <= k
  <2> HIDE DEF Bad
  <2>1. QED
    BY <1>2, <1>3, Least
<1>5. m \in 0..Len(Map) /\ m \in Nat
  BY LenMap
<1>6. CASE m = 0
  <2> DEFINE f == [k \in 0..0 |-> 0]
  <2>1. f \in [0..m -> Nat] /\ Good(m, f)
    BY <1>6
  <2>2. QED
    BY <2>1
<1>7. CASE m # 0
  <2>1. m - 1 \in 0..Len(Map) /\ m - 1 \notin Bad
    <3>1. m - 1 \in 0..Len(Map) /\ ~(m <= m - 1)
      BY <1>5, <1>7, LenMap
    <3> HIDE DEF Bad
    <3>2. QED
      BY <1>4, <3>1
  <2>2. PICK g \in [0..(m - 1) -> Nat] : Good(m - 1, g)
    BY <2>1
  <2>3. Pages(m) \in Nat
    BY <1>5, <1>7, PagesType, LenMap
  <2> DEFINE f == [k \in 0..m |-> IF k = m THEN g[m - 1] + Pages(m) ELSE g[k]]
  <2>4. f \in [0..m -> Nat]
    BY <1>5, <1>7, <2>3
  <2>5. ASSUME NEW k \in 0..m
        PROVE  f[k] = IF k = 0 THEN 0 ELSE f[k - 1] + Pages(k)
    <3>1. CASE k = m
      BY <3>1, <1>5, <1>7
    <3>2. CASE k # m
      <4>1. k \in 0..(m - 1) /\ f[k] = g[k]
        BY <3>2, <1>5
      <4>2. k # 0 => k - 1 \in 0..m /\ k - 1 # m /\ f[k - 1] = g[k - 1]
        BY <4>1, <1>5
      <4>3. QED
        BY <2>2, <4>1, <4>2
    <3>3. QED
      BY <3>1, <3>2
  <2>6. QED
    BY <2>4, <2>5
<1>8. QED
  BY <1>6, <1>7

(* Counted is that function. *)
LEMMA CountedStep ==
  \A n \in 0..Len(Map) : Counted[n] = IF n = 0 THEN 0 ELSE Counted[n - 1] + Pages(n)
<1> DEFINE Fixed(f) == f = [n \in 0..Len(Map) |-> IF n = 0 THEN 0 ELSE f[n - 1] + Pages(n)]
<1>1. Len(Map) \in 0..Len(Map)
  BY LenMap
<1>2. PICK f \in [0..Len(Map) -> Nat] :
        \A k \in 0..Len(Map) : f[k] = IF k = 0 THEN 0 ELSE f[k - 1] + Pages(k)
  BY <1>1, CountedExists
<1>3. Fixed(f)
  BY <1>2
<1>4. Counted = CHOOSE g : Fixed(g)
  BY DEF Counted
<1>5. Fixed(Counted)
  <2> HIDE DEF Fixed
  <2>1. QED
    BY <1>3, <1>4
<1>6. QED
  BY <1>5

LEMMA CountedType == \A n \in 0..Len(Map) : Counted[n] \in Nat
<1> DEFINE Bad == {n \in 0..Len(Map) : Counted[n] \notin Nat}
<1>1. SUFFICES ASSUME Bad # {} PROVE FALSE
  OBVIOUS
<1>2. Bad \in SUBSET Nat
  BY LenMap
<1>3. PICK m \in Bad : \A k \in Bad : m <= k
  <2> HIDE DEF Bad
  <2>1. QED
    BY <1>1, <1>2, Least
<1>4. m \in 0..Len(Map) /\ m \in Nat /\ Counted[m] \notin Nat
  BY LenMap
<1>5. m # 0
  BY <1>4, CountedStep
<1>6. m - 1 \in 0..Len(Map) /\ ~(m <= m - 1) /\ Counted[m] = Counted[m - 1] + Pages(m)
  BY <1>4, <1>5, CountedStep, LenMap
<1>7. Counted[m - 1] \in Nat
  BY <1>3, <1>6
<1>8. Pages(m) \in Nat
  BY <1>4, <1>5, PagesType, LenMap
<1>9. QED
  BY <1>4, <1>6, <1>7, <1>8

LEMMA SpanSize ==
  ASSUME NEW i \in 1..Len(Map)
  PROVE  IsFiniteSet(Span(i)) /\ Cardinality(Span(i)) = Pages(i)
<1>1. Hi(i) \in Nat /\ Lo(i) \in Nat
  BY MapTypes
<1>2. CASE Map[i].type = Conventional
  <2>1. Lo(i) \in Int /\ Hi(i) - 1 \in Int
    BY <1>1
  <2>2. /\ IsFiniteSet(Lo(i)..(Hi(i) - 1))
        /\ Cardinality(Lo(i)..(Hi(i) - 1)) = IF Lo(i) > Hi(i) - 1 THEN 0 ELSE (Hi(i) - 1) - Lo(i) + 1
    BY <2>1, FS_Interval
  <2>3. Span(i) = Lo(i)..(Hi(i) - 1)
    BY <1>2 DEF Span
  <2>4. Pages(i) = IF Lo(i) > Hi(i) - 1 THEN 0 ELSE (Hi(i) - 1) - Lo(i) + 1
    BY <1>1, <1>2 DEF Pages
  <2>5. QED
    BY <2>2, <2>3, <2>4
<1>3. CASE Map[i].type # Conventional
  BY <1>3, FS_EmptySet DEF Span, Pages
<1>4. QED
  BY <1>2, <1>3

(* The pages of the first n descriptors. *)
PagesOf(n) == UNION {Span(i) : i \in 1..n}

LEMMA PagesOfStep ==
  ASSUME NEW n \in 1..Len(Map)
  PROVE  /\ PagesOf(n) = PagesOf(n - 1) \cup Span(n)
         /\ PagesOf(n - 1) \cap Span(n) = {}
<1>1. n \in Nat /\ 1..n = 1..(n - 1) \cup {n}
  BY LenMap
<1>2. ASSUME NEW p, NEW k
      PROVE  p \in PagesOf(k) <=> \E i \in 1..k : p \in Span(i)
  <2> DEFINE Spans == {Span(i) : i \in 1..k}
  <2>1. p \in UNION Spans <=> \E S \in Spans : p \in S
    BY Zenon
  <2>2. (\E S \in Spans : p \in S) <=> \E i \in 1..k : p \in Span(i)
    BY Zenon
  <2>3. QED
    BY <2>1, <2>2, Zenon DEF PagesOf
<1>3. ASSUME NEW p
      PROVE  p \in PagesOf(n) <=> p \in PagesOf(n - 1) \cup Span(n)
  <2>1. (\E i \in 1..n : p \in Span(i)) <=> (\E i \in 1..(n - 1) : p \in Span(i)) \/ p \in Span(n)
    BY <1>1, Zenon
  <2>2. QED
    BY <1>2, <2>1, Zenon
<1>4. ASSUME NEW p \in PagesOf(n - 1), p \in Span(n)
      PROVE  FALSE
  <2>1. PICK i \in 1..(n - 1) : p \in Span(i)
    BY <1>2, Zenon
  <2>2. i \in 1..Len(Map) /\ i # n
    BY LenMap
  <2>3. Span(i) \cap Span(n) = {}
    BY <2>2, PmmAssumption
  <2>4. QED
    BY <1>4, <2>1, <2>3
<1>5. QED
  BY <1>3, <1>4, Zenon

(* The loop counts every page once: it has counted the pages of the         *)
(* descriptors behind it, whatever clamping and empty spans they need.      *)
LEMMA CountedPages ==
  \A n \in 0..Len(Map) : IsFiniteSet(PagesOf(n)) /\ Cardinality(PagesOf(n)) = Counted[n]
<1> DEFINE Right(n) == IsFiniteSet(PagesOf(n)) /\ Cardinality(PagesOf(n)) = Counted[n]
           Bad == {n \in 0..Len(Map) : ~Right(n)}
<1>1. SUFFICES ASSUME Bad # {} PROVE FALSE
  OBVIOUS
<1>2. Bad \in SUBSET Nat
  BY LenMap
<1>3. PICK m \in Bad : \A k \in Bad : m <= k
  <2> HIDE DEF Bad
  <2>1. QED
    BY <1>1, <1>2, Least
<1>4. m \in 0..Len(Map) /\ m \in Nat /\ ~Right(m)
  BY LenMap
<1>5. CASE m = 0
  <2>1. 1..m = {}
    BY <1>5
  <2>2. PagesOf(m) = {}
    BY <2>1, Zenon DEF PagesOf
  <2>3. QED
    BY <1>4, <1>5, <2>2, CountedStep, FS_EmptySet
<1>6. CASE m # 0
  <2>1. m \in 1..Len(Map) /\ m - 1 \in 0..Len(Map) /\ ~(m <= m - 1)
    BY <1>4, <1>6, LenMap
  <2>2. Right(m - 1)
    BY <1>3, <2>1
  <2>3. PagesOf(m) = PagesOf(m - 1) \cup Span(m) /\ PagesOf(m - 1) \cap Span(m) = {}
    BY <2>1, PagesOfStep
  <2>4. IsFiniteSet(Span(m)) /\ Cardinality(Span(m)) = Pages(m)
    BY <2>1, SpanSize
  <2>5. Counted[m] = Counted[m - 1] + Pages(m) /\ Counted[m - 1] \in Nat /\ Pages(m) \in Nat
    BY <1>4, <1>6, <2>1, CountedStep, CountedType, PagesType
  <2>6. /\ IsFiniteSet(PagesOf(m))
        /\ Cardinality(PagesOf(m)) = Cardinality(PagesOf(m - 1)) + Cardinality(Span(m)) - Cardinality({})
    BY <2>2, <2>3, <2>4, FS_Union
  <2>7. Right(m)
    BY <2>2, <2>4, <2>5, <2>6, FS_EmptySet
  <2>8. QED
    BY <1>4, <2>7
<1>7. QED
  BY <1>5, <1>6

(* pmm_total_pages is exact for every memory map: the number of pages of    *)
(* conventional memory above the floor.                                     *)
THEOREM TotalExact ==
  LET conventional == UNION {Span(i) : i \in 1..Len(Map)}
  IN  IsFiniteSet(conventional) /\ Total = Cardinality(conventional)
<1>1. Len(Map) \in 0..Len(Map)
  BY LenMap
<1>2. QED
  BY <1>1, CountedPages DEF Total, PagesOf

(* pmm_free_pages neither underflows nor reports less than what can still   *)
(* be allocated, for every memory map and reservation.                      *)
THEOREM FreeCountCovers == Spec => []FreePagesCover
<1>1. ASSUME IInv PROVE FreePagesCover
  <2> DEFINE All == UNION {Span(i) : i \in 1..Len(Map)}
  <2>1. IsFiniteSet(All) /\ Total = Cardinality(All)
    BY TotalExact
  <2>2. Allocatable \in SUBSET All
    BY DEF Allocatable
  <2> HIDE DEF All
  <2>3. Lent \subseteq Allocatable
    BY <1>1 DEF IInv, Partition
  <2>4. IsFiniteSet(Allocatable) /\ Cardinality(Allocatable) <= Total
    BY <2>1, <2>2, FS_Subset
  <2>5. /\ IsFiniteSet(Lent)
        /\ used = Cardinality(Lent)
        /\ Cardinality(Lent) <= Cardinality(Allocatable)
    BY <1>1, <2>3, <2>4, FS_Subset DEF IInv, UsedCountsHeld
  <2>6. Cardinality(Allocatable \ Lent) = Cardinality(Allocatable) - Cardinality(Allocatable \cap Lent)
    BY <2>4, FS_Difference
  <2>7. Allocatable \cap Lent = Lent
    BY <2>3
  <2>8. Cardinality(Allocatable) \in Nat /\ Cardinality(Lent) \in Nat /\ Total \in Nat
    BY <2>1, <2>4, <2>5, FS_CardinalityType
  <2>9. QED
    BY <2>4, <2>5, <2>6, <2>7, <2>8 DEF FreePagesCover
<1>2. QED
  BY <1>1, InductiveInvariant, PTL
-----------------------------------------------------------------------------
(* The FAT16 reader, on any media and for any sizes. *)

LEMMA MinIs ==
  ASSUME NEW S \in SUBSET Int, NEW x \in S, \A y \in S : x <= y
  PROVE  Min(S) = x
<1>1. Min(S) \in S /\ \A y \in S : Min(S) <= y
  BY DEF Min
<1>2. Min(S) \in Int /\ x \in Int /\ Min(S) <= x /\ x <= Min(S)
  BY <1>1
<1>3. QED
  BY <1>2

LEMMA MinLeast ==
  ASSUME NEW S \in SUBSET Nat, S # {}
  PROVE  Min(S) \in S /\ \A y \in S : Min(S) <= y
<1>1. PICK x \in S : \A y \in S : x <= y
  BY Least
<1>2. QED
  BY <1>1, MinIs

LEMMA RoundDown ==
  ASSUME NEW n \in Nat, NEW k \in Nat \ {0}
  PROVE  n \div k \in Nat /\ (n \div k) * k <= n
OBVIOUS

LEMMA RoundUp ==
  ASSUME NEW n \in Nat, NEW k \in Nat \ {0}
  PROVE  (n + k - 1) \div k \in Nat /\ n <= ((n + k - 1) \div k) * k
<1> DEFINE t == n + k - 1
           q == t \div k
<1>1. t \in Nat
  OBVIOUS
<1>2. q \in Nat /\ t = q * k + (t % k) /\ t % k \in 0..(k - 1)
  BY <1>1
<1> HIDE DEF q
<1>3. n <= q * k
  <2>1. q * k \in Nat
    BY <1>2
  <2>2. QED
    BY <1>2, <2>1
<1>4. QED
  BY <1>2, <1>3 DEF q
-----------------------------------------------------------------------------
FsType == [firstRoot : Nat, rootSectors : Nat, entries : Nat, firstData : Nat,
           clusters : Nat, perCluster : Nat, end : Nat]

LEMMA ImageType ==
  ASSUME NEW m \in Images
  PROVE  /\ PerSector \in Nat \ {0}
         /\ BlockCount \in Nat /\ m.start \in Nat
         /\ m.bpb.perCluster \in Nat \ {0} /\ m.bpb.reserved \in Nat /\ m.bpb.fats \in Nat
         /\ m.bpb.entries \in Nat /\ m.bpb.perFat \in Nat /\ m.bpb.total \in Nat
         /\ m.bpb.fats * m.bpb.perFat \in Nat
         /\ RootSectors(m.bpb) \in Nat
         /\ m.bpb.entries <= RootSectors(m.bpb) * PerSector
         /\ Overhead(m.bpb) \in Nat
         /\ DOMAIN m.dir = 1..(PerSector * RootSectors(m.bpb))
<1>1. m \in Image /\ PerSector \in Nat \ {0} /\ Len(m.dir) = PerSector * RootSectors(m.bpb)
  BY Fat16Assumption
<1>2. BlockCount \in Nat /\ m.start \in Nat /\ m.bpb \in Bpb /\ m.dir \in Seq(Entry)
  BY <1>1, Fat16Assumption DEF Image
<1>3. /\ m.bpb.perCluster \in Nat \ {0} /\ m.bpb.reserved \in Nat /\ m.bpb.fats \in Nat
      /\ m.bpb.entries \in Nat /\ m.bpb.perFat \in Nat /\ m.bpb.total \in Nat
  BY <1>2 DEF Bpb
<1>4. m.bpb.fats * m.bpb.perFat \in Nat
  BY <1>3
<1>5. RootSectors(m.bpb) \in Nat /\ m.bpb.entries <= RootSectors(m.bpb) * PerSector
  BY <1>1, <1>3, RoundUp DEF RootSectors
<1>6. Overhead(m.bpb) \in Nat
  <2> DEFINE tables == m.bpb.fats * m.bpb.perFat
             root == RootSectors(m.bpb)
  <2>1. tables \in Nat /\ root \in Nat /\ Overhead(m.bpb) = m.bpb.reserved + tables + root
    BY <1>4, <1>5 DEF Overhead
  <2> HIDE DEF tables, root
  <2>2. QED
    BY <1>3, <2>1
<1>7. DOMAIN m.dir = 1..Len(m.dir)
  BY <1>2, LenProperties
<1>8. QED
  BY <1>1, <1>2, <1>3, <1>4, <1>5, <1>6, <1>7

(* What fat16_mount accepts: the parts of the volume follow one another and *)
(* end inside it, however the sizes are rounded, and it inside the device.  *)
LEMMA MountedLayout ==
  ASSUME image \in Images,
         Valid(image.bpb, image.start)
  PROVE  LET l == Layout(image.bpb, image.start) IN
         /\ l \in FsType
         /\ l.firstRoot + l.rootSectors = l.firstData
         /\ l.firstData + l.clusters * l.perCluster <= l.end
         /\ l.entries <= l.rootSectors * PerSector
         /\ l.end <= BlockCount
<1> DEFINE b == image.bpb
           start == image.start
           tables == b.fats * b.perFat
           root == RootSectors(b)
           over == Overhead(b)
           clusters == Clusters(b)
           data == clusters * b.perCluster
           l == Layout(b, start)
<1>1. /\ BlockCount \in Nat /\ start \in Nat /\ b.perCluster \in Nat \ {0} /\ b.reserved \in Nat
      /\ b.entries \in Nat /\ b.total \in Nat /\ tables \in Nat /\ root \in Nat
      /\ b.entries <= root * PerSector
      /\ over \in Nat
  BY ImageType
<1>2. b.total > over /\ start < BlockCount /\ b.total <= BlockCount - start
  BY DEF Valid, Fits
<1>3. over = b.reserved + tables + root
  BY DEF Overhead
<1>4. clusters = (b.total - over) \div b.perCluster
  BY DEF Clusters
<1>5. l = [firstRoot   |-> start + b.reserved + tables,
           rootSectors |-> root,
           entries     |-> b.entries,
           firstData   |-> start + over,
           clusters    |-> clusters,
           perCluster  |-> b.perCluster,
           end         |-> start + b.total]
  BY DEF Layout
<1> HIDE DEF b, start, tables, root, over, clusters, l
<1>6. b.total - over \in Nat
  BY <1>1, <1>2
<1>7. clusters \in Nat /\ data <= b.total - over
  BY <1>1, <1>4, <1>6, RoundDown
<1>8. data \in Nat
  BY <1>1, <1>7
<1>9. l.clusters * l.perCluster = data
  BY <1>5
<1> HIDE DEF data
<1>10. l \in FsType
  <2>1. start + b.reserved + tables \in Nat /\ start + over \in Nat /\ start + b.total \in Nat
    BY <1>1
  <2>2. root \in Nat /\ b.entries \in Nat /\ clusters \in Nat /\ b.perCluster \in Nat
    BY <1>1, <1>7
  <2>3. QED
    BY <1>5, <2>1, <2>2 DEF FsType
<1>11. l.firstRoot + l.rootSectors = l.firstData
  BY <1>1, <1>3, <1>5
<1>12. l.firstData + l.clusters * l.perCluster <= l.end
  <2>1. l.firstData = start + over /\ l.end = start + b.total
    BY <1>5
  <2>2. start \in Nat /\ over \in Nat /\ b.total \in Nat
    BY <1>1
  <2>3. start + over + data <= start + b.total
    BY <1>7, <1>8, <2>2
  <2>4. QED
    BY <1>9, <2>1, <2>3
<1>13. l.entries <= l.rootSectors * PerSector
  BY <1>1, <1>5
<1>14. l.end <= BlockCount
  BY <1>1, <1>2, <1>5
<1>15. QED
  BY <1>10, <1>11, <1>12, <1>13, <1>14 DEF l, b, start
-----------------------------------------------------------------------------
(* The search.  Hits are the entries it may find; none of the first n is    *)
(* one of them or the end mark.                                             *)
Hits == {k \in LiveEntries(image) : Matches(image.dir[k])}

Passed(n) == \A k \in 1..n : image.dir[k].kind # "end" /\ ~Matches(image.dir[k])

Agrees ==
  /\ result.status = "found" => Hits # {} /\ result.index = Min(Hits)
  /\ result.status = "missing" => Hits = {}

LEMMA HitsMember ==
  ASSUME NEW k
  PROVE  k \in Hits <=> /\ k \in 1..image.bpb.entries
                        /\ \A i \in 1..k : image.dir[i].kind # "end"
                        /\ Matches(image.dir[k])
  BY Zenon DEF Hits, LiveEntries

LEMMA FirstHit ==
  ASSUME image.bpb.entries \in Nat, NEW h \in 1..image.bpb.entries,
         Passed(h - 1), Matches(image.dir[h])
  PROVE  Hits # {} /\ Min(Hits) = h
<1>1. \A i \in 1..h : image.dir[i].kind # "end"
  <2>1. SUFFICES ASSUME NEW i \in 1..h PROVE image.dir[i].kind # "end"
    OBVIOUS
  <2>2. CASE i = h
    BY <2>2 DEF Matches
  <2>3. CASE i # h
    <3>1. i \in 1..(h - 1)
      BY <2>3
    <3>2. QED
      BY <3>1 DEF Passed
  <2>4. QED
    BY <2>2, <2>3
<1>2. h \in Hits
  BY <1>1, HitsMember
<1>3. \A y \in Hits : h <= y
  <2>1. SUFFICES ASSUME NEW y \in Hits, ~(h <= y) PROVE FALSE
    OBVIOUS
  <2>2. y \in 1..image.bpb.entries /\ Matches(image.dir[y])
    BY HitsMember
  <2>3. y \in 1..(h - 1)
    BY <2>1, <2>2
  <2>4. QED
    BY <2>2, <2>3 DEF Passed
<1>4. Hits \in SUBSET Int
  BY HitsMember
<1>5. QED
  BY <1>2, <1>3, <1>4, MinIs

LEMMA NoHitBehindEnd ==
  ASSUME image.bpb.entries \in Nat, NEW h \in 1..image.bpb.entries,
         Passed(h - 1), image.dir[h].kind = "end"
  PROVE  Hits = {}
<1>1. SUFFICES ASSUME NEW y \in Hits PROVE FALSE
  OBVIOUS
<1>2. /\ y \in 1..image.bpb.entries
      /\ \A i \in 1..y : image.dir[i].kind # "end"
      /\ Matches(image.dir[y])
  BY HitsMember
<1>3. CASE y < h
  <2>1. y \in 1..(h - 1)
    BY <1>2, <1>3
  <2>2. QED
    BY <1>2, <2>1 DEF Passed
<1>4. CASE ~(y < h)
  <2>1. h \in 1..y
    BY <1>2, <1>4
  <2>2. QED
    BY <1>2, <2>1
<1>5. QED
  BY <1>3, <1>4

LEMMA NoHitAtAll ==
  ASSUME Passed(image.bpb.entries)
  PROVE  Hits = {}
  BY HitsMember DEF Passed
-----------------------------------------------------------------------------
(* seen counts whole sectors until it reaches the number of entries, and    *)
(* nothing the search looks for is behind it.                               *)
SearchInv ==
  pc = "scan" =>
    /\ mounted
    /\ sector \in Nat /\ seen \in Nat
    /\ seen <= fs.entries
    /\ seen = sector * PerSector \/ seen = fs.entries
    /\ fresh => Passed(seen)

VolumeInv ==
  /\ image \in Images
  /\ mounted \in BOOLEAN /\ fresh \in BOOLEAN
  /\ fs \in FsType
  /\ pc \in {"idle", "scan"}
  /\ fresh => mounted /\ fs = Layout(image.bpb, image.start)
  /\ LayoutInside
  /\ SearchInv
  /\ FindAgrees

(* The entries of the sector being searched are those behind the seen ones, *)
(* in the same order, and as many as there are.                             *)
LEMMA SectorEntries ==
  ASSUME VolumeInv, pc = "scan", Looking
  PROVE  /\ seen = sector * PerSector
         /\ Remaining \in 1..PerSector
         /\ seen + Remaining <= fs.entries
         /\ Remaining = PerSector \/ seen + Remaining = fs.entries
         /\ fresh => \A j \in 1..Remaining :
                       EntryAt(fs.firstRoot + sector, j) = image.dir[seen + j]
<1> DEFINE left == fs.entries - seen
           rest == Remaining
<1>1. /\ PerSector \in Nat \ {0} /\ fs.entries \in Nat /\ fs.firstRoot \in Nat
      /\ sector \in Nat /\ seen \in Nat /\ seen < fs.entries
      /\ seen = sector * PerSector
  BY ImageType DEF VolumeInv, SearchInv, FsType, Looking
<1>2. left \in Nat \ {0}
  BY <1>1
<1>3. rest = IF PerSector <= left THEN PerSector ELSE left
  <2>1. CASE PerSector <= left
    <3>1. {PerSector, left} \in SUBSET Int /\ \A y \in {PerSector, left} : PerSector <= y
      BY <1>1, <1>2, <2>1
    <3>2. QED
      BY <2>1, <3>1, MinIs DEF Remaining
  <2>2. CASE ~(PerSector <= left)
    <3>1. {PerSector, left} \in SUBSET Int /\ \A y \in {PerSector, left} : left <= y
      BY <1>1, <1>2, <2>2
    <3>2. QED
      BY <2>2, <3>1, MinIs DEF Remaining
  <2>3. QED
    BY <2>1, <2>2
<1> HIDE DEF rest
<1>4. rest \in 1..PerSector /\ seen + rest <= fs.entries /\ (rest = PerSector \/ seen + rest = fs.entries)
  BY <1>1, <1>2, <1>3
<1>5. ASSUME fresh, NEW j \in 1..rest
      PROVE  EntryAt(fs.firstRoot + sector, j) = image.dir[seen + j]
  <2> DEFINE tables == image.bpb.fats * image.bpb.perFat
             first == image.start + image.bpb.reserved + tables
             k == ((fs.firstRoot + sector) - first) * PerSector + j
  <2>1. /\ image.start \in Nat /\ image.bpb.reserved \in Nat /\ tables \in Nat
        /\ DOMAIN image.dir = 1..(PerSector * RootSectors(image.bpb))
        /\ image.bpb.entries <= RootSectors(image.bpb) * PerSector
        /\ RootSectors(image.bpb) \in Nat
    BY ImageType DEF VolumeInv
  <2>2. fs.firstRoot = first /\ fs.entries = image.bpb.entries
    BY <1>5 DEF VolumeInv, Layout
  <2> HIDE DEF tables
  <2>3. first \in Nat
    BY <2>1
  <2> HIDE DEF first
  <2>4. (fs.firstRoot + sector) - first = sector
    BY <1>1, <2>2, <2>3
  <2>5. k = seen + j
    BY <1>1, <2>4
  <2>6. seen + j \in 1..fs.entries
    BY <1>1, <1>4
  <2>7. seen + j \in DOMAIN image.dir
    <3> DEFINE cap == PerSector * RootSectors(image.bpb)
    <3>1. cap \in Nat /\ image.bpb.entries <= cap /\ DOMAIN image.dir = 1..cap
      BY <1>1, <2>1
    <3> HIDE DEF cap
    <3>2. fs.entries \in Nat /\ fs.entries <= cap /\ seen + j \in 1..fs.entries
      BY <1>1, <2>2, <2>6, <3>1
    <3>3. seen + j \in 1..cap
      BY <3>1, <3>2
    <3>4. QED
      BY <3>1, <3>3
  <2>8. EntryAt(fs.firstRoot + sector, j) =
          IF k \in DOMAIN image.dir THEN image.dir[k] ELSE [kind |-> "end", name |-> want]
    BY Zenon DEF EntryAt, first, tables
  <2>9. QED
    BY <2>5, <2>7, <2>8
<1>6. QED
  BY <1>1, <1>4, <1>5 DEF rest
-----------------------------------------------------------------------------
(* A search of the medium the volume was mounted from. *)
LEMMA SearchStep ==
  ASSUME VolumeInv, ScanSector \/ ScanEnds
  PROVE  /\ SearchInv'
         /\ FindAgrees'
         /\ pc' \in {"idle", "scan"}
<1> DEFINE rest == Remaining
           lba == fs.firstRoot + sector
<1>1. /\ UNCHANGED <<image, mounted, fs, want, fresh>> /\ pc = "scan"
  BY DEF ScanSector, ScanEnds
<1>2. /\ image.bpb.entries \in Nat /\ PerSector \in Nat \ {0}
      /\ mounted /\ sector \in Nat /\ seen \in Nat /\ fs.entries \in Nat
      /\ fs.rootSectors \in Nat
      /\ fs.entries <= fs.rootSectors * PerSector
      /\ fresh => Passed(seen) /\ fs.entries = image.bpb.entries
  <2>1. image.bpb.entries \in Nat /\ PerSector \in Nat \ {0}
    BY ImageType DEF VolumeInv
  <2>2. /\ mounted /\ sector \in Nat /\ seen \in Nat
        /\ fs.entries <= fs.rootSectors * PerSector
        /\ fresh => Passed(seen)
    BY <1>1 DEF VolumeInv, SearchInv, LayoutInside
  <2>3. fs.entries \in Nat /\ fs.rootSectors \in Nat
    BY DEF VolumeInv, FsType
  <2>4. fresh => fs.entries = image.bpb.entries
    BY DEF VolumeInv, Layout
  <2>5. QED
    BY <2>1, <2>2, <2>3, <2>4
<1>3. Hits' = Hits /\ \A n : Passed(n)' <=> Passed(n)
  BY <1>1 DEF Hits, Passed, LiveEntries, Matches
<1>4. FindAgrees' <=> (fresh /\ pc' = "idle" => Agrees')
  BY <1>1, Zenon DEF FindAgrees, Agrees, Hits
<1>5. Agrees' <=> /\ result'.status = "found" => Hits # {} /\ result'.index = Min(Hits)
                  /\ result'.status = "missing" => Hits = {}
  BY <1>3, Zenon DEF Agrees
<1>6. CASE ScanEnds
  <2>1. pc' = "idle" /\ result' = [status |-> "missing", index |-> 0] /\ ~Looking
    BY <1>6 DEF ScanEnds, Return
  <2>2. seen = fs.entries
    <3>1. CASE seen = sector * PerSector
      <4>1. CASE sector < fs.rootSectors
        BY <1>1, <1>2, <2>1, <4>1 DEF Looking, VolumeInv, SearchInv
      <4>2. CASE ~(sector < fs.rootSectors)
        <5>1. fs.rootSectors * PerSector <= sector * PerSector
          BY <1>2, <4>2
        <5>2. fs.entries <= seen
          BY <1>2, <3>1, <5>1
        <5>3. QED
          BY <1>1, <1>2, <5>2 DEF VolumeInv, SearchInv
      <4>3. QED
        BY <4>1, <4>2
    <3>2. QED
      BY <1>1, <3>1 DEF VolumeInv, SearchInv
  <2>3. fresh => Hits = {}
    BY <1>2, <2>2, NoHitAtAll
  <2>4. QED
    BY <1>4, <1>5, <2>1, <2>3 DEF SearchInv
<1>7. CASE ScanSector
  <2>1. Looking
    BY <1>7 DEF ScanSector
  <2>2. /\ seen = sector * PerSector
        /\ rest \in 1..PerSector
        /\ seen + rest <= fs.entries
        /\ rest = PerSector \/ seen + rest = fs.entries
        /\ fresh => \A j \in 1..rest : EntryAt(lba, j) = image.dir[seen + j]
    BY <1>1, <2>1, SectorEntries
  <2>3. \A j : j \in Stops(lba) <=>
                 /\ j \in 1..rest
                 /\ \/ EntryAt(lba, j).kind = "end"
                    \/ Matches(EntryAt(lba, j))
    BY Zenon DEF Stops
  <2>4. CASE Stops(lba) = {} /\ seen' = seen + rest /\ sector' = sector + 1 /\ UNCHANGED <<pc, result>>
    <3>1. seen' \in Nat /\ sector' \in Nat /\ seen' <= fs.entries
      BY <1>2, <2>2, <2>4
    <3>2. seen' = sector' * PerSector \/ seen' = fs.entries
      BY <1>2, <2>2, <2>4
    <3>3. ASSUME fresh, NEW k \in 1..(seen + rest)
          PROVE  image.dir[k].kind # "end" /\ ~Matches(image.dir[k])
      <4>1. CASE k \in 1..seen
        BY <1>2, <3>3, <4>1 DEF Passed
      <4>2. CASE k \notin 1..seen
        <5>1. k - seen \in 1..rest /\ seen + (k - seen) = k
          BY <1>2, <2>2, <4>2
        <5>2. k - seen \notin Stops(lba)
          BY <2>4
        <5>3. EntryAt(lba, k - seen) = image.dir[k]
          BY <2>2, <3>3, <5>1
        <5>4. QED
          BY <2>3, <5>1, <5>2, <5>3
      <4>3. QED
        BY <4>1, <4>2
    <3>4. fresh => Passed(seen')
      BY <2>4, <3>3 DEF Passed
    <3>5. pc' = "scan"
      BY <1>1, <2>4
    <3>6. SearchInv'
      BY <1>1, <1>2, <1>3, <3>1, <3>2, <3>4 DEF SearchInv
    <3>7. QED
      BY <1>4, <3>5, <3>6
  <2>5. CASE /\ Stops(lba) # {}
             /\ LET j == Min(Stops(lba)) IN
                IF Matches(EntryAt(lba, j)) THEN Return("found", seen + j)
                                                          ELSE Return("missing", 0)
    <3> DEFINE j == Min(Stops(lba))
    <3>1. Stops(lba) \in SUBSET Nat
      BY <1>2, <2>2, <2>3
    <3>2. j \in Stops(lba) /\ \A i \in Stops(lba) : j <= i
      BY <2>5, <3>1, MinLeast
    <3>3. IF Matches(EntryAt(lba, j)) THEN Return("found", seen + j)
                                                    ELSE Return("missing", 0)
      BY <2>5
    <3> HIDE DEF j
    <3>4. j \in 1..rest /\ (EntryAt(lba, j).kind = "end" \/ Matches(EntryAt(lba, j)))
      BY <2>3, <3>2
    <3>5. pc' = "idle"
      BY <3>3 DEF Return
    <3>6. ASSUME fresh PROVE Agrees'
      <4> DEFINE h == seen + j
      <4>1. h \in 1..image.bpb.entries /\ h - 1 \in Nat
        <5>1. j \in Nat /\ 1 <= j /\ j <= rest /\ rest \in Nat
          BY <1>2, <2>2, <3>4
        <5>2. seen \in Nat /\ seen + rest <= image.bpb.entries /\ image.bpb.entries \in Nat
          BY <1>2, <2>2, <3>6
        <5> HIDE DEF rest
        <5>3. QED
          BY <5>1, <5>2
      <4>2. EntryAt(lba, j) = image.dir[h]
        BY <2>2, <3>4, <3>6
      <4>3. ASSUME NEW k \in 1..(h - 1)
            PROVE  image.dir[k].kind # "end" /\ ~Matches(image.dir[k])
        <5>1. CASE k \in 1..seen
          BY <1>2, <3>6, <5>1 DEF Passed
        <5>2. CASE k \notin 1..seen
          <6>1. k - seen \in 1..rest /\ seen + (k - seen) = k /\ ~(j <= k - seen)
            BY <1>2, <2>2, <3>4, <5>2
          <6>2. k - seen \notin Stops(lba)
            BY <3>2, <6>1
          <6>3. EntryAt(lba, k - seen) = image.dir[k]
            BY <2>2, <3>6, <6>1
          <6>4. QED
            BY <2>3, <6>1, <6>2, <6>3
        <5>3. QED
          BY <5>1, <5>2
      <4>4. Passed(h - 1)
        BY <4>3 DEF Passed
      <4>5. CASE Matches(EntryAt(lba, j))
        <5>1. Hits # {} /\ Min(Hits) = h
          BY <1>2, <4>1, <4>2, <4>4, <4>5, FirstHit
        <5>2. result' = [status |-> "found", index |-> h]
          BY <3>3, <4>5 DEF Return
        <5>3. QED
          BY <1>5, <5>1, <5>2
      <4>6. CASE ~Matches(EntryAt(lba, j))
        <5>1. Hits = {}
          BY <1>2, <3>4, <4>1, <4>2, <4>4, <4>6, NoHitBehindEnd
        <5>2. result' = [status |-> "missing", index |-> 0]
          BY <3>3, <4>6 DEF Return
        <5>3. QED
          BY <1>5, <5>1, <5>2
      <4>7. QED
        BY <4>5, <4>6
    <3>7. QED
      BY <1>4, <3>5, <3>6 DEF SearchInv
  <2>6. CASE Return("error", 0)
    <3>1. pc' = "idle" /\ result' = [status |-> "error", index |-> 0]
      BY <2>6 DEF Return
    <3>2. QED
      BY <1>4, <1>5, <3>1 DEF SearchInv
  <2>7. QED
    BY <1>7, <2>4, <2>5, <2>6, Zenon DEF ScanSector
<1>8. QED
  BY <1>6, <1>7

LEMMA VolumeInvariant == FatSpec => []VolumeInv
<1>1. FatInit => VolumeInv
  <2>1. SUFFICES ASSUME FatInit PROVE VolumeInv
    OBVIOUS
  <2>2. fs \in FsType
    BY <2>1 DEF FatInit, NoFs, FsType
  <2>3. QED
    BY <2>1, <2>2 DEF FatInit, VolumeInv, SearchInv, LayoutInside, FindAgrees
<1>2. VolumeInv /\ [FatNext]_fatVars => VolumeInv'
  <2>1. SUFFICES ASSUME VolumeInv, [FatNext]_fatVars
                 PROVE  VolumeInv'
    OBVIOUS
  <2>2. ASSUME NEW s \in Starts, Mount(s)
        PROVE  VolumeInv'
    <3>1. /\ pc = "idle" /\ pc' = "idle" /\ image' = image /\ want' = want
          /\ result' = NoResult
      BY <2>2 DEF Mount
    <3>2. SearchInv' /\ FindAgrees'
      BY <3>1 DEF SearchInv, FindAgrees, NoResult
    <3>3. CASE /\ s = image.start /\ Valid(image.bpb, s)
               /\ fs' = Layout(image.bpb, s) /\ mounted' = TRUE /\ fresh' = TRUE
      <4> DEFINE l == Layout(image.bpb, image.start)
      <4>1. /\ l \in FsType
            /\ l.firstRoot + l.rootSectors = l.firstData
            /\ l.firstData + l.clusters * l.perCluster <= l.end
            /\ l.entries <= l.rootSectors * PerSector
            /\ l.end <= BlockCount
        BY <2>1, <3>3, MountedLayout DEF VolumeInv
      <4>2. fs' = l
        BY <3>3
      <4>3. l' = l
        BY <3>1 DEF Layout, RootSectors, Overhead, Clusters
      <4> HIDE DEF l
      <4>4. LayoutInside'
        BY <3>1, <4>1, <4>2 DEF LayoutInside
      <4>5. fs' = Layout(image.bpb, image.start)'
        BY <4>2, <4>3 DEF l
      <4>6. QED
        BY <2>1, <3>1, <3>2, <3>3, <4>1, <4>2, <4>4, <4>5 DEF VolumeInv
    <3>4. CASE UNCHANGED <<mounted, fs, fresh>>
      <4>1. LayoutInside'
        BY <2>1, <3>1, <3>4 DEF VolumeInv, LayoutInside
      <4>2. Layout(image.bpb, image.start)' = Layout(image.bpb, image.start)
        BY <3>1 DEF Layout, RootSectors, Overhead, Clusters
      <4>3. QED
        BY <2>1, <3>1, <3>2, <3>4, <4>1, <4>2 DEF VolumeInv
    <3>5. QED
      BY <2>2, <3>3, <3>4 DEF Mount
  <2>3. CASE Change
    <3>1. image' \in Images /\ fresh' = FALSE /\ UNCHANGED <<mounted, fs, pc, want, sector, seen, result>>
      BY <2>3 DEF Change, search
    <3>2. LayoutInside' /\ SearchInv' /\ FindAgrees'
      BY <2>1, <3>1 DEF VolumeInv, LayoutInside, SearchInv, FindAgrees
    <3>3. QED
      BY <2>1, <3>1, <3>2 DEF VolumeInv
  <2>4. ASSUME NEW n \in Names, Find(n)
        PROVE  VolumeInv'
    <3>1. /\ mounted /\ pc' = "scan" /\ sector' = 0 /\ seen' = 0
          /\ UNCHANGED <<image, mounted, fs, fresh>>
      BY <2>4 DEF Find
    <3>2. PerSector \in Nat /\ fs.entries \in Nat
      BY <2>1, ImageType DEF VolumeInv, FsType
    <3>3. SearchInv'
      BY <3>1, <3>2 DEF SearchInv, Passed
    <3>4. LayoutInside' /\ FindAgrees'
      BY <2>1, <3>1 DEF VolumeInv, LayoutInside, FindAgrees
    <3>5. Layout(image.bpb, image.start)' = Layout(image.bpb, image.start)
      BY <3>1 DEF Layout, RootSectors, Overhead, Clusters
    <3>6. QED
      BY <2>1, <3>1, <3>3, <3>4, <3>5 DEF VolumeInv
  <2>5. CASE ScanSector \/ ScanEnds
    <3>1. UNCHANGED <<image, mounted, fs, want, fresh>>
      BY <2>5 DEF ScanSector, ScanEnds
    <3>2. SearchInv' /\ FindAgrees' /\ pc' \in {"idle", "scan"}
      BY <2>1, <2>5, SearchStep
    <3>3. LayoutInside'
      BY <2>1, <3>1 DEF VolumeInv, LayoutInside
    <3>4. Layout(image.bpb, image.start)' = Layout(image.bpb, image.start)
      BY <3>1 DEF Layout, RootSectors, Overhead, Clusters
    <3>5. QED
      BY <2>1, <3>1, <3>2, <3>3, <3>4 DEF VolumeInv
  <2>6. CASE UNCHANGED fatVars
    <3>1. UNCHANGED <<image, mounted, fs, pc, want, sector, seen, result, fresh>>
      BY <2>6 DEF fatVars, search
    <3>2. Layout(image.bpb, image.start)' = Layout(image.bpb, image.start)
      BY <3>1 DEF Layout, RootSectors, Overhead, Clusters
    <3>3. Passed(seen)' <=> Passed(seen)
      BY <3>1 DEF Passed, Matches
    <3>4. SearchInv' /\ LayoutInside'
      BY <2>1, <3>1, <3>3 DEF VolumeInv, SearchInv, LayoutInside
    <3>5. FindAgrees'
      BY <2>1, <3>1 DEF VolumeInv, FindAgrees, LiveEntries, Matches, Min
    <3>6. QED
      BY <2>1, <3>1, <3>2, <3>4, <3>5 DEF VolumeInv
  <2>7. QED
    BY <2>1, <2>2, <2>3, <2>4, <2>5, <2>6 DEF FatNext
<1>3. QED
  BY <1>1, <1>2, PTL DEF FatSpec

(* fat16_mount accepts no volume whose directory or clusters lie outside    *)
(* it, or that does not end inside the device, for any sizes.               *)
THEOREM LayoutSound == FatSpec => []LayoutInside
<1>1. VolumeInv => LayoutInside
  BY DEF VolumeInv
<1>2. QED
  BY <1>1, VolumeInvariant, PTL

(* On the medium it was mounted from, fat16_find_root returns the first     *)
(* file of that name, or that there is none, for directories of any length. *)
THEOREM FindCorrect == FatSpec => []FindAgrees
<1>1. VolumeInv => FindAgrees
  BY DEF VolumeInv
<1>2. QED
  BY <1>1, VolumeInvariant, PTL
-----------------------------------------------------------------------------
(* The virtio transmitter, for indices of any width. *)

(* Counting modulo w. *)
LEMMA RemainderIs ==
  ASSUME NEW w \in Nat \ {0}, NEW q \in Nat, NEW r \in 0..(w - 1), NEW m \in Nat, m = q * w + r
  PROVE  m % w = r
<1> DEFINE p == m \div w
           s == m % w
<1>1. p \in Nat /\ s \in 0..(w - 1) /\ m = p * w + s
  OBVIOUS
<1> HIDE DEF p, s
<1>2. (q - p) * w = s - r
  BY <1>1
<1>3. CASE q - p <= -1
  <2>1. (q - p) * w <= -w
    BY <1>1, <1>3
  <2> QED BY <1>1, <1>2, <2>1
<1>4. CASE q - p >= 1
  <2>1. (q - p) * w >= w
    BY <1>1, <1>4
  <2> QED BY <1>1, <1>2, <2>1
<1>5. CASE q = p
  BY <1>1, <1>5 DEF s
<1> QED BY <1>1, <1>3, <1>4, <1>5

LEMMA ModStep ==
  ASSUME NEW w \in Nat, w > 1, NEW n \in Nat
  PROVE  n % w \in 0..(w - 1) /\ ((n % w) + 1) % w = (n + 1) % w /\ (n + 1) % w # n % w
<1> DEFINE q == n \div w
           r == n % w
<1>1. q \in Nat /\ r \in 0..(w - 1) /\ n = q * w + r
  OBVIOUS
<1>2. CASE r + 1 < w
  <2>1. n + 1 = q * w + (r + 1) /\ r + 1 \in 0..(w - 1)
    BY <1>1, <1>2
  <2>2. (n + 1) % w = r + 1
    <3> DEFINE m == n + 1
               t == r + 1
    <3>1. w \in Nat \ {0} /\ q \in Nat /\ t \in 0..(w - 1) /\ m \in Nat /\ m = q * w + t
      BY <1>1, <2>1
    <3> HIDE DEF m, t, q, r
    <3>2. m % w = t
      BY <3>1, RemainderIs
    <3> QED BY <3>2 DEF m, t
  <2>3. (r + 1) % w = r + 1
    BY <1>1, <2>1
  <2> QED BY <1>1, <2>2, <2>3
<1>3. CASE r + 1 = w
  <2>1. n + 1 = (q + 1) * w + 0
    BY <1>1, <1>3
  <2>2. (n + 1) % w = 0
    <3> DEFINE m == n + 1
               p == q + 1
    <3>1. w \in Nat \ {0} /\ p \in Nat /\ 0 \in 0..(w - 1) /\ m \in Nat /\ m = p * w + 0
      BY <1>1, <2>1
    <3> HIDE DEF m, p
    <3>2. m % w = 0
      BY <3>1, RemainderIs
    <3> QED BY <3>2 DEF m
  <2>3. (r + 1) % w = 0
    BY <1>1, <1>3
  <2> QED BY <1>1, <1>3, <2>2, <2>3
<1> QED BY <1>1, <1>2, <1>3

LEMMA ModApart ==
  ASSUME NEW w \in Nat, w > 1, NEW a \in Nat, NEW b \in Nat, a < b, b < a + w
  PROVE  a % w # b % w
<1> SUFFICES ASSUME a % w = b % w PROVE FALSE
  OBVIOUS
<1> DEFINE p == a \div w
           q == b \div w
           r == a % w
<1>1. p \in Nat /\ q \in Nat /\ r \in 0..(w - 1) /\ a = p * w + r /\ b = q * w + r
  OBVIOUS
<1> HIDE DEF p, q, r
<1>2. b - a = (q - p) * w
  BY <1>1
<1>3. CASE q - p <= 0
  <2>1. (q - p) * w <= 0
    BY <1>1, <1>3
  <2> QED BY <1>2, <2>1
<1>4. CASE q - p >= 1
  <2>1. (q - p) * w >= w
    BY <1>1, <1>4
  <2> QED BY <1>2, <2>1
<1> QED BY <1>1, <1>3, <1>4

(* The entries of the ring that the device has begun to read. *)
Taken == IF fetched = 0 THEN Len(wire) ELSE Len(wire) + 1

TxType ==
  /\ at \in {"idle", "drain", "copy", "publish", "wait"}
  /\ txb_head \in Nat /\ txb_tail \in Nat /\ desc_len \in Nat
  /\ fetched \in Nat /\ fetched_len \in Nat
  /\ frames \in Nat /\ confirmed \in Nat /\ expired \in Nat
  /\ wire \in Seq(Sent)

(* Each index is a count of the history modulo Wrap. *)
IndexInv ==
  /\ avail_idx = frames % Wrap
  /\ tx_used_seen = confirmed % Wrap
  /\ used_idx = Len(wire) % Wrap
  /\ last_avail = Taken % Wrap

(* How the counts relate: a call has been confirmed, has expired or waits. *)
CountInv ==
  /\ frames = IF at = "wait" THEN confirmed + expired + 1 ELSE confirmed + expired
  /\ confirmed <= Len(wire)
  /\ Taken <= frames

(* The buffer holds the newest frame, or parts of it while it is copied;   *)
(* what the device has read is no older than what it has to send next, and *)
(* what it has sent no newer than what it would read now.                  *)
BufferInv ==
  /\ desc_len = frames
  /\ txb_head = IF at \in {"copy", "publish"} THEN frames + 1 ELSE frames
  /\ txb_tail = IF at = "publish" THEN frames + 1 ELSE frames
  /\ fetched # 0 => /\ Len(wire) < fetched_len /\ fetched_len <= desc_len
                    /\ fetched_len <= fetched /\ fetched <= txb_head

SentInv ==
  \A i \in 1..Len(wire) :
    /\ wire[i].len <= desc_len /\ wire[i].head <= txb_head /\ wire[i].tail <= txb_tail
    /\ fetched # 0 => wire[i].len <= fetched_len /\ wire[i].head <= fetched

(* The two parts of WireInOrder. *)
ExactUntilTimeout ==
  expired = 0 => \A i \in 1..Len(wire) : wire[i] = [len |-> i, head |-> i, tail |-> i]

NeverOlder ==
  \A i \in 1..Len(wire) :
    /\ i <= wire[i].len /\ wire[i].len <= wire[i].head
    /\ i <= wire[i].tail /\ wire[i].head <= wire[i].tail + 1
    /\ \A j \in 1..Len(wire) : i < j =>
         /\ wire[i].len <= wire[j].len
         /\ wire[i].head <= wire[j].head
         /\ wire[i].tail <= wire[j].tail

CardInv ==
  /\ TxType /\ IndexInv /\ CountInv /\ BufferInv /\ SentInv
  /\ NeverOlder /\ ExactUntilTimeout

(* What the device appends is the next frame or a newer one. *)
LEMMA CompleteKeeps ==
  ASSUME CardInv, Complete
  PROVE  CardInv'
<1> DEFINE n == Len(wire)
           new == [len |-> fetched_len, head |-> fetched, tail |-> txb_tail]
<1>1. /\ fetched # 0 /\ fetched' = 0 /\ fetched_len' = 0
      /\ wire' = Append(wire, new)
      /\ used_idx' = (used_idx + 1) % Wrap
      /\ UNCHANGED <<at, txb_head, txb_tail, desc_len, avail_idx, tx_used_seen, last_avail,
                     frames, confirmed, expired>>
  BY DEF Complete, Inc, history, buffer
<1>2. /\ TxType /\ IndexInv /\ CountInv /\ BufferInv /\ SentInv
      /\ NeverOlder /\ ExactUntilTimeout
  BY DEF CardInv
<1>3. n \in Nat /\ wire \in Seq(Sent) /\ new \in Sent
  BY <1>2, LenProperties DEF TxType, Sent
<1>4. /\ wire' \in Seq(Sent)
      /\ Len(wire') = n + 1
      /\ \A i \in 1..n : wire'[i] = wire[i]
      /\ wire'[n + 1] = new
  <2> HIDE DEF new
  <2> QED BY <1>1, <1>3, AppendProperties
<1>5. TxType'
  BY <1>1, <1>2, <1>4 DEF TxType
<1>6. Taken = n + 1 /\ Taken' = n + 1
  BY <1>1, <1>4 DEF Taken
<1>7. IndexInv'
  <2>1. used_idx' = (n + 1) % Wrap
    BY <1>1, <1>2, <1>3, ModStep, VirtioAssumption DEF IndexInv
  <2> QED BY <1>1, <1>2, <1>4, <1>6, <2>1 DEF IndexInv
<1>8. CountInv'
  BY <1>1, <1>2, <1>3, <1>4, <1>6 DEF CountInv, TxType
<1>9. /\ txb_head \in Nat /\ txb_tail \in Nat /\ desc_len \in Nat
      /\ fetched \in Nat /\ fetched_len \in Nat /\ frames \in Nat
  BY <1>2 DEF TxType
<1>10. /\ n + 1 <= fetched_len /\ fetched_len <= fetched /\ fetched_len <= desc_len
       /\ fetched <= txb_head /\ n + 1 <= txb_tail /\ fetched <= txb_tail + 1
  <2>1. /\ n < fetched_len /\ fetched_len <= desc_len
        /\ fetched_len <= fetched /\ fetched <= txb_head
    BY <1>1, <1>2 DEF BufferInv
  <2>2. desc_len <= txb_tail /\ txb_head <= txb_tail + 1
    BY <1>2, <1>9 DEF BufferInv
  <2> QED BY <1>3, <1>9, <2>1, <2>2
<1>11. \A i \in 1..n :
         /\ wire[i].len <= desc_len /\ wire[i].head <= txb_head /\ wire[i].tail <= txb_tail
         /\ wire[i].len <= fetched_len /\ wire[i].head <= fetched
  BY <1>1, <1>2 DEF SentInv
<1>12. BufferInv'
  BY <1>1, <1>2 DEF BufferInv
<1>13. SentInv'
  <2>1. ASSUME NEW i \in 1..(n + 1)
        PROVE  /\ wire'[i].len <= desc_len /\ wire'[i].head <= txb_head
               /\ wire'[i].tail <= txb_tail
    <3>1. CASE i \in 1..n
      BY <1>4, <1>11, <3>1
    <3>2. CASE i = n + 1
      BY <1>4, <1>9, <1>10, <3>2
    <3> QED BY <1>3, <3>1, <3>2
  <2> QED BY <1>1, <1>4, <2>1 DEF SentInv
<1>14. NeverOlder'
  <2>1. ASSUME NEW i \in 1..(n + 1)
        PROVE  /\ i <= wire'[i].len /\ wire'[i].len <= wire'[i].head
               /\ i <= wire'[i].tail /\ wire'[i].head <= wire'[i].tail + 1
    <3>1. CASE i \in 1..n
      BY <1>2, <1>4, <3>1 DEF NeverOlder
    <3>2. CASE i = n + 1
      BY <1>4, <1>10, <3>2
    <3> QED BY <1>3, <3>1, <3>2
  <2>2. ASSUME NEW i \in 1..(n + 1), NEW j \in 1..(n + 1), i < j
        PROVE  /\ wire'[i].len <= wire'[j].len
               /\ wire'[i].head <= wire'[j].head
               /\ wire'[i].tail <= wire'[j].tail
    <3>1. i \in 1..n
      BY <1>3, <2>2
    <3>2. CASE j \in 1..n
      BY <1>2, <1>4, <2>2, <3>1, <3>2 DEF NeverOlder
    <3>3. CASE j = n + 1
      BY <1>4, <1>11, <3>1, <3>3
    <3> QED BY <1>3, <3>2, <3>3
  <2> QED BY <1>4, <2>1, <2>2 DEF NeverOlder
<1>15. ExactUntilTimeout'
  <2> SUFFICES ASSUME expired' = 0, NEW i \in 1..(n + 1)
               PROVE  wire'[i] = [len |-> i, head |-> i, tail |-> i]
    BY <1>4 DEF ExactUntilTimeout
  <2>1. expired = 0
    BY <1>1
  <2>2. CASE i \in 1..n
    BY <1>2, <1>4, <2>1, <2>2 DEF ExactUntilTimeout
  <2>3. CASE i = n + 1
    <3>1. frames = n + 1 /\ at = "wait"
      <4>1. /\ frames = IF at = "wait" THEN confirmed + expired + 1 ELSE confirmed + expired
            /\ confirmed <= n /\ n + 1 <= frames
        BY <1>2, <1>6 DEF CountInv
      <4>2. frames \in Nat /\ confirmed \in Nat
        BY <1>2 DEF TxType
      <4> QED BY <1>3, <2>1, <4>1, <4>2
    <3>2. txb_head = n + 1 /\ txb_tail = n + 1
      BY <1>2, <3>1 DEF BufferInv
    <3>3. fetched = n + 1 /\ fetched_len = n + 1
      BY <1>3, <1>9, <1>10, <3>2
    <3> QED BY <1>4, <2>3, <3>2, <3>3
  <2> QED BY <1>3, <2>2, <2>3
<1> QED BY <1>5, <1>7, <1>8, <1>12, <1>13, <1>14, <1>15 DEF CardInv

(* A step that leaves the device alone and the frames sent as they are. *)
LEMMA WireSame ==
  ASSUME CardInv, UNCHANGED wire, expired' = expired \/ expired' > 0
  PROVE  NeverOlder' /\ ExactUntilTimeout'
BY DEF CardInv, NeverOlder, ExactUntilTimeout

LEMMA FetchKeeps ==
  ASSUME CardInv, Fetch
  PROVE  CardInv'
<1> DEFINE n == Len(wire)
<1>1. /\ fetched = 0 /\ last_avail # avail_idx
      /\ fetched' = txb_head /\ fetched_len' = desc_len
      /\ last_avail' = (last_avail + 1) % Wrap
      /\ UNCHANGED <<at, txb_head, txb_tail, desc_len, avail_idx, tx_used_seen, used_idx, wire,
                     frames, confirmed, expired>>
  BY DEF Fetch, Inc, history, buffer
<1>2. TxType /\ IndexInv /\ CountInv /\ BufferInv /\ SentInv
  BY DEF CardInv
<1>3. n \in Nat /\ Taken = n /\ frames \in Nat /\ txb_head \in Nat
  BY <1>1, <1>2, LenProperties DEF TxType, Taken
<1>4. n < frames
  <2>1. n <= frames
    BY <1>2, <1>3 DEF CountInv
  <2>2. n # frames
    BY <1>1, <1>2, <1>3 DEF IndexInv
  <2> QED BY <1>3, <2>1, <2>2
<1>5. frames <= txb_head /\ txb_head # 0
  BY <1>2, <1>3, <1>4 DEF BufferInv
<1>6. Taken' = n + 1
  BY <1>1, <1>5 DEF Taken
<1>7. IndexInv'
  <2>1. last_avail' = (n + 1) % Wrap
    BY <1>1, <1>2, <1>3, ModStep, VirtioAssumption DEF IndexInv
  <2> QED BY <1>1, <1>2, <1>6, <2>1 DEF IndexInv
<1>8. CountInv'
  BY <1>1, <1>2, <1>3, <1>4, <1>6 DEF CountInv
<1>9. BufferInv' /\ SentInv'
  BY <1>1, <1>2, <1>3, <1>4, <1>5 DEF BufferInv, SentInv
<1>10. TxType'
  BY <1>1, <1>2 DEF TxType
<1> QED BY <1>1, <1>7, <1>8, <1>9, <1>10, WireSame DEF CardInv

(* The steps of tx, whatever the device is doing. *)
LEMMA DriverKeeps ==
  ASSUME CardInv, Call \/ Driver
  PROVE  CardInv'
<1> DEFINE n == Len(wire)
<1>1. UNCHANGED <<used_idx, last_avail, fetched, fetched_len, wire>>
  BY DEF Call, Driver, CopyHead, CopyTail, Publish, Confirm, Expire, device
<1>2. TxType /\ IndexInv /\ CountInv /\ BufferInv /\ SentInv
  BY DEF CardInv
<1>3. /\ n \in Nat /\ frames \in Nat /\ confirmed \in Nat /\ expired \in Nat
      /\ txb_head \in Nat /\ txb_tail \in Nat /\ desc_len \in Nat
      /\ fetched \in Nat /\ fetched_len \in Nat /\ Taken \in Nat
  BY <1>2, LenProperties DEF TxType, Taken
<1>4. Len(wire') = n /\ Taken' = Taken
  BY <1>1 DEF Taken
<1>5. ASSUME /\ txb_head <= txb_head' /\ txb_tail <= txb_tail' /\ desc_len <= desc_len'
             /\ txb_head' \in Nat /\ txb_tail' \in Nat /\ desc_len' \in Nat
      PROVE  SentInv'
  <2>1. ASSUME NEW i \in 1..n
        PROVE  /\ wire[i].len <= desc_len' /\ wire[i].head <= txb_head'
               /\ wire[i].tail <= txb_tail'
    <3>1. wire[i].len \in Nat /\ wire[i].head \in Nat /\ wire[i].tail \in Nat
      <4>1. wire[i] \in Sent
        BY <1>2, <2>1, ElementOfSeq DEF TxType
      <4> QED BY <4>1 DEF Sent
    <3>2. /\ wire[i].len <= desc_len /\ wire[i].head <= txb_head
          /\ wire[i].tail <= txb_tail
      BY <1>2, <2>1 DEF SentInv
    <3> DEFINE l == wire[i].len
               h == wire[i].head
               t == wire[i].tail
    <3>3. l \in Nat /\ h \in Nat /\ t \in Nat /\ l <= desc_len /\ h <= txb_head /\ t <= txb_tail
      BY <3>1, <3>2
    <3> HIDE DEF l, h, t
    <3>4. l <= desc_len' /\ h <= txb_head' /\ t <= txb_tail'
      BY <1>3, <1>5, <3>3
    <3> QED BY <3>4 DEF l, h, t
  <2> QED BY <1>1, <1>2, <1>4, <2>1 DEF SentInv
<1>6. CASE Call
  <2>1. /\ at = "idle" /\ at' = "drain"
        /\ UNCHANGED <<txb_head, txb_tail, desc_len, avail_idx, tx_used_seen,
                       frames, confirmed, expired>>
    BY <1>6 DEF Call, history, buffer
  <2>2. TxType' /\ IndexInv' /\ CountInv' /\ BufferInv' /\ SentInv'
    BY <1>1, <1>2, <1>4, <2>1 DEF TxType, IndexInv, CountInv, BufferInv, SentInv
  <2> QED BY <1>1, <2>1, <2>2, WireSame DEF CardInv
<1>7. CASE CopyHead
  <2>1. /\ at = "drain" /\ at' = "copy" /\ txb_head' = frames + 1
        /\ UNCHANGED <<txb_tail, desc_len, avail_idx, tx_used_seen, frames, confirmed, expired>>
    BY <1>7 DEF CopyHead, history
  <2>2. TxType' /\ IndexInv' /\ CountInv'
    BY <1>1, <1>2, <1>3, <1>4, <2>1 DEF TxType, IndexInv, CountInv
  <2>3. txb_head = frames
    BY <1>2, <2>1 DEF BufferInv
  <2>4. BufferInv'
    BY <1>1, <1>2, <1>3, <1>4, <2>1, <2>3 DEF BufferInv
  <2>5. SentInv'
    BY <1>3, <1>5, <2>1, <2>3
  <2> QED BY <1>1, <2>1, <2>2, <2>4, <2>5, WireSame DEF CardInv
<1>8. CASE CopyTail
  <2>1. /\ at = "copy" /\ at' = "publish" /\ txb_tail' = frames + 1
        /\ UNCHANGED <<txb_head, desc_len, avail_idx, tx_used_seen, frames, confirmed, expired>>
    BY <1>8 DEF CopyTail, history
  <2>2. TxType' /\ IndexInv' /\ CountInv'
    BY <1>1, <1>2, <1>3, <1>4, <2>1 DEF TxType, IndexInv, CountInv
  <2>3. txb_tail = frames
    BY <1>2, <2>1 DEF BufferInv
  <2>4. BufferInv'
    BY <1>1, <1>2, <1>3, <1>4, <2>1, <2>3 DEF BufferInv
  <2>5. SentInv'
    BY <1>3, <1>5, <2>1, <2>3
  <2> QED BY <1>1, <2>1, <2>2, <2>4, <2>5, WireSame DEF CardInv
<1>9. CASE Publish
  <2>1. /\ at = "publish" /\ at' = "wait" /\ frames' = frames + 1 /\ desc_len' = frames + 1
        /\ avail_idx' = (avail_idx + 1) % Wrap
        /\ UNCHANGED <<txb_head, txb_tail, tx_used_seen, confirmed, expired>>
    BY <1>9 DEF Publish, Inc
  <2>2. avail_idx' = frames' % Wrap
    BY <1>2, <1>3, <2>1, ModStep, VirtioAssumption DEF IndexInv
  <2>3. TxType'
    BY <1>1, <1>2, <1>3, <2>1 DEF TxType
  <2>4. CountInv'
    BY <1>1, <1>2, <1>3, <1>4, <2>1 DEF CountInv
  <2>5. BufferInv'
    BY <1>1, <1>2, <1>3, <1>4, <2>1 DEF BufferInv
  <2>6. IndexInv'
    BY <1>1, <1>2, <1>4, <2>1, <2>2 DEF IndexInv
  <2>7. desc_len <= desc_len'
    BY <1>2, <1>3, <2>1 DEF BufferInv
  <2>8. SentInv'
    BY <1>3, <1>5, <2>1, <2>7
  <2> QED BY <1>1, <2>1, <2>3, <2>4, <2>5, <2>6, <2>8, WireSame DEF CardInv
<1>10. CASE Confirm
  <2>1. /\ at = "wait" /\ at' = "idle" /\ confirmed' = confirmed + 1
        /\ used_idx = (tx_used_seen + 1) % Wrap
        /\ tx_used_seen' = (tx_used_seen + 1) % Wrap
        /\ UNCHANGED <<txb_head, txb_tail, desc_len, avail_idx, frames, expired>>
    BY <1>10 DEF buffer, Confirm, Completed, Inc
  <2>2. tx_used_seen' = confirmed' % Wrap /\ (confirmed + 1) % Wrap # confirmed % Wrap
    BY <1>2, <1>3, <2>1, ModStep, VirtioAssumption DEF IndexInv
  <2>3. n # confirmed
    BY <1>2, <2>1, <2>2 DEF IndexInv
  <2>4. confirmed' <= n
    BY <1>2, <1>3, <2>1, <2>3 DEF CountInv
  <2>5. TxType' /\ IndexInv'
    BY <1>1, <1>2, <1>3, <1>4, <2>1, <2>2 DEF TxType, IndexInv
  <2>6. CountInv'
    BY <1>1, <1>2, <1>3, <1>4, <2>1, <2>4 DEF CountInv
  <2>7. BufferInv' /\ SentInv'
    BY <1>1, <1>2, <1>3, <1>4, <2>1 DEF BufferInv, SentInv
  <2> QED BY <1>1, <2>1, <2>5, <2>6, <2>7, WireSame DEF CardInv
<1>11. CASE Expire
  <2>1. /\ at = "wait" /\ at' = "idle" /\ expired' = expired + 1
        /\ UNCHANGED <<txb_head, txb_tail, desc_len, avail_idx, tx_used_seen, frames, confirmed>>
    BY <1>11 DEF Expire, buffer
  <2>2. TxType' /\ IndexInv'
    BY <1>1, <1>2, <1>3, <1>4, <2>1 DEF TxType, IndexInv
  <2>3. CountInv'
    BY <1>1, <1>2, <1>3, <1>4, <2>1 DEF CountInv
  <2>4. BufferInv' /\ SentInv'
    BY <1>1, <1>2, <1>3, <1>4, <2>1 DEF BufferInv, SentInv
  <2>5. expired' > 0
    BY <1>3, <2>1
  <2> QED BY <1>1, <2>2, <2>3, <2>4, <2>5, WireSame DEF CardInv
<1> QED BY <1>6, <1>7, <1>8, <1>9, <1>10, <1>11 DEF Driver

LEMMA CardInvariant == TxSpec => []CardInv
<1>1. TxInit => CardInv
  <2> SUFFICES ASSUME TxInit PROVE CardInv
    OBVIOUS
  <2>1. Len(wire) = 0 /\ wire \in Seq(Sent) /\ Taken = 0
    BY DEF TxInit, Taken
  <2>2. 0 % Wrap = 0
    BY VirtioAssumption
  <2> QED BY <2>1, <2>2 DEF TxInit, CardInv, TxType, IndexInv, CountInv, BufferInv, SentInv,
             NeverOlder, ExactUntilTimeout
<1>2. CardInv /\ [TxNext]_txVars => CardInv'
  <2> SUFFICES ASSUME CardInv, [TxNext]_txVars PROVE CardInv'
    OBVIOUS
  <2>1. CASE UNCHANGED txVars
    <3>1. UNCHANGED <<at, txb_head, txb_tail, desc_len, avail_idx, tx_used_seen, used_idx,
                      last_avail, fetched, fetched_len, wire, frames, confirmed, expired>>
      BY <2>1 DEF txVars, buffer, device, history
    <3>2. Taken' = Taken
      BY <3>1 DEF Taken
    <3>3. TxType' /\ IndexInv' /\ CountInv' /\ BufferInv' /\ SentInv'
      BY <3>1, <3>2 DEF CardInv, TxType, IndexInv, CountInv, BufferInv, SentInv
    <3> QED BY <3>1, <3>3, WireSame DEF CardInv
  <2> QED BY <2>1, CompleteKeeps, FetchKeeps, DriverKeeps DEF TxNext, Device, Quiet
<1> QED BY <1>1, <1>2, PTL DEF TxSpec

(* The indices of the ring keep their width (netdev_virtio.c). *)
THEOREM TxTypeCorrect == TxSpec => []TxTypeOK
<1>1. CardInv => TxTypeOK
  <2> SUFFICES ASSUME CardInv PROVE TxTypeOK
    OBVIOUS
  <2>1. TxType /\ IndexInv /\ Len(wire) \in Nat /\ Taken \in Nat
    BY LenProperties DEF CardInv, TxType, Taken
  <2>2. \A n \in Nat : n % Wrap \in 0..(Wrap - 1)
    BY ModStep, VirtioAssumption
  <2>3. /\ avail_idx \in 0..(Wrap - 1) /\ tx_used_seen \in 0..(Wrap - 1)
        /\ used_idx \in 0..(Wrap - 1) /\ last_avail \in 0..(Wrap - 1)
    BY <2>1, <2>2 DEF TxType, IndexInv
  <2> HIDE DEF CardInv
  <2> QED BY <2>1, <2>3 DEF TxType, TxTypeOK
<1> QED BY <1>1, CardInvariant, PTL

(* With a device that answers in time, tx sends every frame once, in order *)
(* and whole through its single buffer, however often the indices wrap.    *)
(* However many calls have timed out, and although the device may then     *)
(* read the buffer while it is being written, nothing sent for an entry is *)
(* older than its frame and no part goes back to an older one.             *)
THEOREM TxInOrder == TxSpec => []WireInOrder
<1>1. CardInv => WireInOrder
  BY DEF CardInv, ExactUntilTimeout, NeverOlder, WireInOrder
<1> QED BY <1>1, CardInvariant, PTL

(* tx reports no more frames than the device has completed, and leaves it  *)
(* no more of them than have timed out.                                    *)
THEOREM TxBehind == TxSpec => []DeviceBehind
<1>1. CardInv => DeviceBehind
  <2> SUFFICES ASSUME CardInv PROVE DeviceBehind
    OBVIOUS
  <2>1. Len(wire) \in Nat /\ confirmed \in Nat /\ expired \in Nat /\ confirmed <= Len(wire)
    BY LenProperties DEF CardInv, TxType, CountInv
  <2>2. at # "wait" => frames = confirmed + expired
    BY DEF CardInv, CountInv
  <2> HIDE DEF CardInv
  <2> QED BY <2>1, <2>2 DEF DeviceBehind
<1> QED BY <1>1, CardInvariant, PTL

(* tx waits for one value of the used index only.  When two overdue frames *)
(* have been completed behind its back, the index is past that value, and  *)
(* no later call returns 1 until it has gone round, although the device    *)
(* sends every frame.                                                      *)
THEOREM TxOutOfStep == TxSpec =>
           [][Len(wire) - confirmed > 1 /\ expired < Wrap => confirmed' = confirmed]_txVars
<1>1. CardInv /\ [TxNext]_txVars =>
        [Len(wire) - confirmed > 1 /\ expired < Wrap => confirmed' = confirmed]_txVars
  <2> SUFFICES ASSUME CardInv, TxNext, Len(wire) - confirmed > 1, expired < Wrap
               PROVE  confirmed' = confirmed
    OBVIOUS
  <2>1. /\ TxType /\ IndexInv /\ CountInv
        /\ Len(wire) \in Nat /\ confirmed \in Nat /\ expired \in Nat /\ frames \in Nat
    BY LenProperties DEF CardInv, TxType
  <2>2. ~Confirm
    <3> SUFFICES ASSUME Confirm PROVE FALSE
      OBVIOUS
    <3>1. at = "wait" /\ used_idx = (tx_used_seen + 1) % Wrap
      BY DEF Confirm, Completed, Inc
    <3>2. Len(wire) % Wrap = (confirmed + 1) % Wrap
      BY <2>1, <3>1, ModStep, VirtioAssumption DEF IndexInv
    <3>3. Len(wire) <= frames /\ frames = confirmed + expired + 1
      <4>1. Len(wire) <= Taken /\ Taken \in Nat /\ Taken <= frames
        BY <2>1 DEF Taken, CountInv
      <4> QED BY <2>1, <3>1, <4>1 DEF CountInv
    <3>4. confirmed + 1 < Len(wire) /\ Len(wire) < (confirmed + 1) + Wrap
      BY <2>1, <3>3, VirtioAssumption
    <3> DEFINE a == confirmed + 1
               b == Len(wire)
    <3>5. a \in Nat /\ b \in Nat /\ a < b /\ b < a + Wrap /\ a % Wrap = b % Wrap
      BY <2>1, <3>2, <3>4
    <3>6. Wrap \in Nat /\ Wrap > 1
      BY VirtioAssumption
    <3> HIDE DEF a, b
    <3> QED BY <3>5, <3>6, ModApart
  <2> QED BY <2>2 DEF TxNext, Call, Driver, CopyHead, CopyTail, Publish, Expire,
             Device, Fetch, Complete, Quiet, txVars, history
<1> QED BY <1>1, CardInvariant, PTL DEF TxSpec
=============================================================================
