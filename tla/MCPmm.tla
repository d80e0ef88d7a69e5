-------------------------------- MODULE MCPmm -------------------------------
(* An instance of Pmm for TLC: a map with memory below the floor, a        *)
(* descriptor that straddles it, an empty one, one of another type, and    *)
(* reserved pages at the start, in the middle and at the end of a span.    *)
EXTENDS Pmm

MCMap == <<[type |-> "conv", start |-> 0, pages |-> 2],
           [type |-> "conv", start |-> 2, pages |-> 5],
           [type |-> "mmio", start |-> 7, pages |-> 1],
           [type |-> "conv", start |-> 8, pages |-> 0],
           [type |-> "conv", start |-> 9, pages |-> 5]>>
MCReserved == {4, 9, 13, 15}
MCFrames == 0..15
=============================================================================
