------------------------------ MODULE MCHttpGet ------------------------------
(* An instance of HttpGet for TLC. *)
EXTENDS HttpGet

(* Redirects have no body; other responses have one that fills more than   *)
(* the receive buffer, or begins with a mark, or is empty but chunked.     *)
Answer(f, n, b) == [location |-> "none", framing |-> f, body |-> n, bom |-> b]

MCResponses ==
  {[Answer("length", 0, FALSE) EXCEPT !.location = l] : l \in Location}
  \cup {Answer(f, 2, FALSE) : f \in Framing}
  \cup {Answer("length", 1, TRUE), Answer("close", 2, TRUE), Answer("chunked", 0, FALSE)}
=============================================================================
