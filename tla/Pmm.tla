--------------------------------- MODULE Pmm --------------------------------
(***************************************************************************)
(* The physical page allocator (kernel/pmm.c).  Addresses are page frame   *)
(* numbers.  pmm_alloc_page reuses the most recently freed page, and       *)
(* otherwise scans the firmware's memory map forward, once; pmm_free_page  *)
(* keeps a bounded stack of freed pages.  Nothing records which pages are  *)
(* allocated, or to whom: a page that was given out again can be freed by  *)
(* a caller that had freed it before, behind the back of its new holder.   *)
(* What the callers know is in the history variables claims and stale.     *)
(***************************************************************************)
EXTENDS Naturals, Sequences, FiniteSets

CONSTANTS
  Map,          \* the memory map: a sequence of [type, start, pages]
  MinPage,      \* PMM_MIN_ADDR
  Reserved,     \* the pages reserved() finds: kernel, boot info, map, framebuffer
  RecycleCap,   \* PMM_RECYCLE_CAP
  Conventional, \* the descriptor type 7
  Frames,       \* the page arguments pmm_free_page is called with
  MaxStale      \* bound on the stale frees of a page

(* The part of descriptor i above the floor, as every loop clamps it. *)
Hi(i) == Map[i].start + Map[i].pages
Lo(i) == IF Map[i].start < MinPage THEN MinPage ELSE Map[i].start
Span(i) == IF Map[i].type = Conventional THEN Lo(i)..(Hi(i) - 1) ELSE {}

Allocatable == (UNION {Span(i) : i \in 1..Len(Map)}) \ Reserved

ASSUME PmmAssumption ==
  /\ Map \in Seq([type : STRING, start : Nat, pages : Nat])
  /\ MinPage \in Nat \ {0}
  /\ RecycleCap \in Nat
  /\ Frames \subseteq Nat
  /\ MaxStale \in Nat
  \* the firmware reports no page twice
  /\ \A i, j \in 1..Len(Map) : i # j => Span(i) \cap Span(j) = {}

VARIABLES
  scanOff,    \* descriptors loaded so far; the last one is being scanned
  scanAddr,   \* the next page of it, 0 when none is being scanned
  scanEnd,
  recycled,   \* the stack of freed pages
  used,       \* used_pages_count
  claims,     \* how many callers hold a page (history)
  stale,      \* accepted frees of it by callers that did not (history)
  failed      \* the latest allocation returned 0 (history)

scan == <<scanOff, scanAddr, scanEnd>>
vars == <<scan, recycled, used, claims, stale, failed>>

Init ==
  /\ scanOff = 0
  /\ scanAddr = 0
  /\ scanEnd = 0
  /\ recycled = << >>
  /\ used = 0
  /\ claims = [p \in Allocatable |-> 0]
  /\ stale = [p \in Allocatable |-> 0]
  /\ failed = FALSE

(* The pages a scan at this position has yet to visit, each with its       *)
(* descriptor; addr = 0 means that the next descriptor is to be loaded.    *)
AheadOf(off, addr, end) ==
  {<<off, p>> : p \in {q \in addr..(end - 1) : addr # 0}}
    \cup UNION {{<<i, p>> : p \in Span(i)} : i \in (off + 1)..Len(Map)}

Ahead == AheadOf(scanOff, scanAddr, scanEnd)

Before(c, d) == c[1] < d[1] \/ (c[1] = d[1] /\ c[2] < d[2])

Unscanned == {c[2] : c \in Ahead} \ Reserved

HandOut(p) ==
  /\ claims' = [claims EXCEPT ![p] = @ + 1]
  /\ used' = used + 1
  /\ failed' = FALSE
  /\ UNCHANGED stale

(* Mutant of AllocRecycled: reuse does not count the page as used again. *)
AllocRecycledUncounted ==
  /\ recycled # << >>
  /\ claims' = [claims EXCEPT ![recycled[Len(recycled)]] = @ + 1]
  /\ failed' = FALSE
  /\ recycled' = SubSeq(recycled, 1, Len(recycled) - 1)
  /\ UNCHANGED <<scan, used, stale>>

AllocRecycled ==
  /\ recycled # << >>
  /\ HandOut(recycled[Len(recycled)])
  /\ recycled' = SubSeq(recycled, 1, Len(recycled) - 1)
  /\ UNCHANGED scan

(* The scan stops at the first page ahead that is not reserved. *)
AllocScan ==
  /\ recycled = << >>
  /\ \E c \in Ahead :
       /\ c[2] \notin Reserved
       /\ \A d \in Ahead : Before(d, c) => d[2] \in Reserved
       /\ HandOut(c[2])
       /\ scanOff' = c[1]
       /\ scanAddr' = c[2] + 1
       /\ scanEnd' = Hi(c[1])
  /\ UNCHANGED recycled

(* Mutant of AllocNone: the end of one descriptor ends the search. *)
AllocNoneEarly ==
  /\ recycled = << >>
  /\ scanAddr >= scanEnd
  /\ failed' = TRUE
  /\ UNCHANGED <<scan, recycled, used, claims, stale>>

(* Every descriptor is behind: 0 is returned. *)
AllocNone ==
  /\ recycled = << >>
  /\ Unscanned = {}
  /\ scanOff' = Len(Map)
  /\ scanAddr' = 0
  /\ scanEnd' = 0
  /\ failed' = TRUE
  /\ UNCHANGED <<recycled, used, claims, stale>>

ConventionalPage(p) == p >= MinPage /\ \E i \in 1..Len(Map) : p \in Span(i)

(* Mutant of InRecycled: a page freed twice is not noticed. *)
NeverRecycled(p) == FALSE

InRecycled(p) == \E i \in 1..Len(recycled) : recycled[i] = p

Accepts(p) ==
  /\ used # 0
  /\ ConventionalPage(p)
  /\ p \notin Reserved
  /\ Len(recycled) < RecycleCap
  /\ ~InRecycled(p)

(* The callers' side of the contract: they free what they hold, what they  *)
(* have already freed, or what no allocation ever returns, but no page     *)
(* that has yet to be given out.                                           *)
CallersFree(p) == p \notin Unscanned

TakeBack(p) ==
  /\ CallersFree(p)
  /\ Accepts(p)
  /\ recycled' = Append(recycled, p)
  /\ used' = used - 1
  /\ failed' = FALSE
  /\ UNCHANGED scan

(* A holder gives the page back. *)
Free(p) ==
  /\ TakeBack(p)
  /\ claims[p] > 0
  /\ claims' = [claims EXCEPT ![p] = @ - 1]
  /\ UNCHANGED stale

(* A caller that does not hold it does: nothing tells the two apart, and   *)
(* the holder is none the wiser.                                           *)
StaleFree(p) ==
  /\ TakeBack(p)
  /\ stale[p] < MaxStale
  /\ stale' = [stale EXCEPT ![p] = @ + 1]
  /\ UNCHANGED claims

FreeRejected(p) ==
  /\ CallersFree(p)
  /\ ~Accepts(p)
  /\ UNCHANGED vars

Next ==
  \/ AllocRecycled
  \/ AllocScan
  \/ AllocNone
  \/ \E p \in Frames : Free(p) \/ StaleFree(p) \/ FreeRejected(p)

Spec == Init /\ [][Next]_vars
-----------------------------------------------------------------------------
RecycledPages == {recycled[i] : i \in 1..Len(recycled)}

TypeOK ==
  /\ scanOff \in 0..Len(Map)
  /\ scanAddr \in Nat
  /\ scanEnd \in Nat
  /\ recycled \in Seq(Nat)
  /\ used \in Nat
  /\ claims \in [Allocatable -> Nat]
  /\ stale \in [Allocatable -> Nat]
  /\ failed \in BOOLEAN

(* A page of conventional memory above the floor that is not reserved has  *)
(* exactly one holder, unless it is on the recycle stack or ahead of the   *)
(* scan and has none: none is given out twice and none is lost, however    *)
(* allocations, frees, immediate double frees and rejected frees are       *)
(* interleaved.  pmm_free_page has no defence against the other kind of    *)
(* double free, of a page that has been given out again; the damage is     *)
(* exactly one holder more for each of them.                               *)
EveryPageOnce ==
  /\ RecycledPages \cap Unscanned = {}
  /\ \A p \in Allocatable :
       claims[p] = stale[p] + (IF p \in RecycledPages \cup Unscanned THEN 0 ELSE 1)

(* The pages the allocator has lent: without stale frees, those held. *)
Lent == {p \in Allocatable : claims[p] > stale[p]}

(* used_pages_count, which pmm_free_page takes for granted when it         *)
(* decrements, counts the pages the callers hold; a page freed behind its  *)
(* holder's back no longer counts.                                         *)
UsedCountsHeld == used = Cardinality(Lent)

(* pmm_alloc_page returns 0 only when the callers hold every page: the     *)
(* recycle stack and the rest of the memory map are really empty.          *)
FailsOnlyWhenExhausted == failed => Lent = Allocatable

(* Mutant of Pages: a descriptor that straddles the floor is not counted. *)
PagesAboveFloor(i) ==
  IF Map[i].type = Conventional /\ Map[i].start >= MinPage THEN Map[i].pages ELSE 0

(* What descriptor i contributes to total_pages_count. *)
Pages(i) == IF Map[i].type = Conventional /\ Lo(i) < Hi(i) THEN Hi(i) - Lo(i) ELSE 0

(* The loop of pmm_init over the descriptors, up to the n-th. *)
Counted[n \in 0..Len(Map)] == IF n = 0 THEN 0 ELSE Counted[n - 1] + Pages(n)

(* pmm_total_pages *)
Total == Counted[Len(Map)]

(* pmm_free_pages never underflows and never reports less than what can    *)
(* still be allocated (it reports more: the reserved pages are in Total).  *)
FreePagesCover ==
  /\ used <= Total
  /\ Cardinality(Allocatable \ Lent) <= Total - used
=============================================================================
