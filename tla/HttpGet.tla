------------------------------- MODULE HttpGet -------------------------------
(***************************************************************************)
(* net_http_get (kernel/net.c) with tls_https_exchange (kernel/tls.c) over *)
(* the TCP client: the redirect loop, the reading of the response and the  *)
(* judgement whether it is complete.                                       *)
(*                                                                         *)
(* A URL is abstracted to its scheme.  A response is a header (one byte of *)
(* the stream) and `body` bytes behind it, followed by the last chunk of a *)
(* chunked body and, over TLS, by the close_notify alert.  If `bom`, the   *)
(* body's first byte is a byte order mark.  The record layer of BearSSL is *)
(* external: it fails on a gap in the stream.                              *)
(***************************************************************************)
EXTENDS TcpClient

CONSTANTS
  Responses,     \* what servers answer
  MaxRedirect,   \* redirects followed (3)
  RawCap,        \* sizeof(raw) - 1
  MaxConn        \* bound on the connections of a behaviour

VARIABLES
  secure,    \* scheme of `current`
  redirect,  \* loop counter
  raw,       \* the response buffer, as bytes of the connection's stream
  resp,      \* what the server of the connection answers
  then,      \* where net_tcp_close returns to
  reqs,      \* schemes of the requests of this call (history)
  result     \* what the last call returned

httpVars == <<secure, redirect, raw, resp, then, reqs, result>>
vars == <<pc, tcpVars, httpVars>>

Location == {"https", "http", "scheme-relative", "relative", "other", "missing"}
Framing == {"length", "chunked", "odd", "close"}
Response == [location : Location \cup {"none"}, framing : Framing, body : Nat, bom : BOOLEAN]
NoResponse == [location |-> "none", framing |-> "close", body |-> 0, bom |-> FALSE]
NoResult == [ok |-> FALSE, secure |-> FALSE, body |-> <<>>, to |-> NoResponse, of |-> 0]

(* Responses are shorter than the sequence space, and no local port is     *)
(* used again within the bound.                                            *)
ASSUME HttpAssumption ==
  /\ Responses \subseteq Response
  /\ \A r \in Responses : r.body + 4 < Modulus
  /\ MaxRedirect \in Nat
  /\ RawCap \in Nat \ {0}
  /\ MaxConn \in 0..Ports

Last(r) == IF r.framing \in {"chunked", "odd"} THEN 1 ELSE 0
Notify == IF secure THEN 1 ELSE 0
StreamLen(r) == 1 + r.body + Last(r) + Notify

Init ==
  /\ TcpInit
  /\ pc = "idle"
  /\ secure = FALSE
  /\ redirect = 0
  /\ raw = <<>>
  /\ resp = NoResponse
  /\ then = "idle"
  /\ reqs = <<>>
  /\ result = NoResult
-----------------------------------------------------------------------------
Get ==
  /\ pc = "idle"
  /\ conn < MaxConn
  /\ secure' \in BOOLEAN
  /\ redirect' = 0
  /\ reqs' = <<>>
  /\ result' = NoResult
  /\ pc' = "request"
  /\ UNCHANGED <<tcpVars, raw, resp, then>>

(* return 0 without a connection to close: entropy, clock, name or next    *)
(* hop were not to be had, or the connection was not made.                 *)
GiveUp ==
  /\ pc = "request" \/ ConnectFails
  /\ pc' = "idle"
  /\ UNCHANGED <<tcpVars, httpVars>>

Request ==
  /\ pc = "request"
  /\ conn < MaxConn
  /\ Connect
  /\ pc' = "connect"
  /\ reqs' = Append(reqs, secure)
  /\ raw' = <<>>
  /\ resp' = NoResponse
  /\ UNCHANGED <<secure, redirect, then, result>>

(* The server decides what it will answer. *)
ServerAccepts ==
  \E r \in Responses :
    /\ PeerAccepts(StreamLen(r))
    /\ resp' = r
    /\ UNCHANGED <<secure, redirect, raw, then, reqs, result>>

StartWrite ==
  /\ Connected
  /\ pc' = "send"
  /\ UNCHANGED <<tcpVars, httpVars>>

StartRead ==
  /\ Written
  /\ pc' = "read"
  /\ UNCHANGED <<tcpVars, httpVars>>

CloseThen(to) ==
  /\ pc' = "closing"
  /\ then' = to
  /\ UNCHANGED <<tcpVars, secure, redirect, raw, resp, reqs, result>>

WriteFailed == WriteFails /\ CloseThen("idle")

(* Intact: no byte is missing so far, all that the record layer accepts. *)
Intact == \A i \in 1..Len(raw) : raw[i] = <<conn, i>>

(* http_frame_complete, and for a body without a length the close_notify,  *)
(* without which the engine ends with an error.                            *)
Framed ==
  LET r == resp
  IN  /\ Intact
      /\ r.framing # "close"
      /\ Len(raw) >= 1 + r.body + Last(r)

(* Mutant of TlsComplete: every end of the connection will do. *)
TlsCompleteAnyEnd == raw # <<>>

TlsComplete == Framed \/ (Intact /\ Len(raw) = StreamLen(resp))

(* net_tcp_read into raw; the TLS engine asks for any number of bytes.     *)
ReadSome ==
  /\ pc = "read"
  /\ Len(raw) < RawCap
  /\ ~(secure /\ Framed)
  /\ \E n \in 1..Min({Len(buf), RawCap - Len(raw)}) :
       /\ secure \/ n = Min({Len(buf), RawCap - Len(raw)})
       /\ ReadBytes(n)
       /\ raw' = raw \o SubSeq(buf, 1, n)
  /\ UNCHANGED <<pc, secure, redirect, resp, then, reqs, result>>

(* The buffer is full, the read returned -1, or the TLS frame is complete; *)
(* a body that is too large for the TLS buffer is an error.                *)
ReadOver ==
  /\ pc = "read"
  /\ ReadEnds \/ Len(raw) = RawCap \/ (secure /\ Framed)
  /\ CloseThen(IF secure /\ ~TlsComplete THEN "idle" ELSE "judge")

CloseReturns ==
  /\ Closable
  /\ Closed
  /\ pc' = then
  /\ UNCHANGED httpVars
-----------------------------------------------------------------------------
(* The response is judged.                                                 *)

(* Mutant of resolve_redirect: scheme-relative locations are plain. *)
ResolveRedirectPlain(loc) ==
  CASE loc = "https"           -> {TRUE}
    [] loc = "http"            -> {FALSE} \ {~secure}
    [] loc = "scheme-relative" -> {FALSE}
    [] loc = "relative"        -> {secure}
    [] OTHER                   -> {}

(* The scheme of the next request, or none: the downgrade is refused,      *)
(* another scheme or a missing location is an error.                       *)
ResolveRedirect(loc) ==
  CASE loc = "https"                           -> {TRUE}
    [] loc = "http"                            -> IF secure THEN {} ELSE {FALSE}
    [] loc \in {"scheme-relative", "relative"} -> {secure}
    [] OTHER                                   -> {}

Malformed == ~(raw # <<>> /\ Head(raw) = <<conn, 1>>)

Redirected == resp.location # "none"

Return(ok, body) ==
  /\ result' = [ok |-> ok, secure |-> secure, body |-> body, to |-> resp, of |-> conn]
  /\ pc' = "idle"
  /\ UNCHANGED <<tcpVars, secure, redirect, raw, resp, then, reqs>>

Follow ==
  /\ pc = "judge"
  /\ ~Malformed /\ Redirected
  /\ redirect < MaxRedirect
  /\ \E s \in ResolveRedirect(resp.location) : secure' = s
  /\ redirect' = redirect + 1
  /\ pc' = "request"
  /\ UNCHANGED <<tcpVars, raw, resp, then, reqs, result>>

Refuse ==
  /\ pc = "judge"
  /\ \/ Malformed
     \/ /\ Redirected
        /\ \/ redirect = MaxRedirect
           \/ ResolveRedirect(resp.location) = {}
  /\ Return(FALSE, <<>>)

(* The mark stands at once behind the header; a chunk begins with its size. *)
HasBom(r) == r.bom /\ r.body > 0 /\ r.framing \in {"length", "close"}

(* The mark is taken off, if it has arrived. *)
WithoutBom(received) ==
  IF HasBom(resp) /\ received # <<>> /\ Head(received) = <<conn, 2>>
  THEN Tail(received)
  ELSE received

(* With the mark taken off before, a body of just the length given is      *)
(* found too short.                                                        *)
LengthHolds(received) == Len(received) >= resp.body

(* The decoder takes out the last chunk, if it has arrived. *)
Decoded(received) ==
  IF received # <<>> /\ received[Len(received)][2] > 1 + resp.body
  THEN SubSeq(received, 1, Len(received) - 1)
  ELSE received

(* What is behind the header.  The decoder recognises "chunked" only when  *)
(* written as one space behind the colon ("odd" is what only tls.c knows); *)
(* the end of the data between two chunks is as good to it as the last     *)
(* chunk, what it makes of a gap depends on the bytes, and if nothing is   *)
(* left of what was received that is an error, of an empty body too.       *)
Judge ==
  LET r == resp
      received == WithoutBom(SubSeq(raw, 2, Min({Len(raw), 1 + r.body + Last(r)})))
      complete == Intact /\ Len(raw) >= 1 + r.body + Last(r)
      nothing == received # <<>> /\ Decoded(received) = <<>>
  IN  /\ pc = "judge"
      /\ ~Malformed /\ ~Redirected
      /\ CASE r.framing = "length" ->
                IF LengthHolds(received)
                THEN Return(TRUE, SubSeq(received, 1, Min({Len(received), r.body})))
                ELSE Return(FALSE, <<>>)
           [] r.framing = "chunked" ->
                \/ ~nothing /\ Return(TRUE, Decoded(received))
                \/ /\ nothing \/ (received # <<>> /\ ~complete)
                   /\ Return(FALSE, <<>>)
           [] OTHER -> Return(TRUE, received)
-----------------------------------------------------------------------------
Tcp == (Arrive \/ PeerReceives \/ SendChunk \/ ChunkSent \/ ReadPolls
          \/ PollReturns \/ SendFin)
       /\ UNCHANGED httpVars

(* All connections of the bound are used. *)
Finished ==
  /\ pc = "idle" \/ pc = "request"
  /\ conn = MaxConn
  /\ UNCHANGED vars

Next ==
  \/ Get \/ GiveUp \/ Request \/ ServerAccepts \/ StartWrite \/ StartRead
  \/ WriteFailed \/ ReadSome \/ ReadOver \/ CloseReturns
  \/ Follow \/ Refuse \/ Judge
  \/ Tcp
  \/ Finished

Spec == Init /\ [][Next]_vars
-----------------------------------------------------------------------------
TypeOK ==
  /\ TcpTypeOK
  /\ pc \in {"idle", "request", "connect", "send", "write", "read", "poll",
             "closing", "close", "judge"}
  /\ secure \in BOOLEAN
  /\ redirect \in 0..MaxRedirect
  /\ Len(raw) <= RawCap
  /\ resp \in Response
  /\ then \in {"idle", "judge"}
  /\ reqs \in Seq(BOOLEAN) /\ Len(reqs) <= MaxRedirect + 1
  /\ result.ok \in BOOLEAN /\ result.to \in Response /\ result.of \in 0..conn

Stream == INSTANCE ByteStream WITH
  Capacity <- BufCap, live <- (cap # 0), next <- Arrived, queue <- buf, taken <- raw

(* Reading through net_tcp_connect and net_tcp_read delivers, per          *)
(* connection, bytes of that connection's stream once and in order; gaps   *)
(* only where the buffer was full.                                         *)
ImplementsStream == Stream!Spec

(* docs/TLS.md: "HTTPS-to-HTTP redirects are rejected": once a request of  *)
(* a net_http_get was sent over TLS, none of its redirects is followed in  *)
(* the clear.                                                              *)
NoDowngrade == \A i, j \in 1..Len(reqs) : i < j /\ reqs[i] => reqs[j]

(* A success over TLS, or one with a Content-Length, is the whole body of  *)
(* the last response, less a byte order mark, although the TCP client      *)
(* drops what its buffer has no room for and takes time-outs, resets and   *)
(* early FINs for the end.  A coding only tls.c recognises is handed on    *)
(* with its last chunk.                                                    *)
BodyWhole ==
  result.ok =>
    LET r == result.to
    IN  result.secure \/ r.framing = "length" =>
          result.body = Data(result.of, IF HasBom(r) THEN 3 ELSE 2,
                             1 + r.body + (IF r.framing = "odd" THEN 1 ELSE 0))
=============================================================================
