-------------------------------- MODULE Vela --------------------------------
(***************************************************************************)
(* Navigation of the browser UN_Vela (kernel/vela.c): address, document    *)
(* and history.  A load is net_http_get, which fails or delivers the page; *)
(* its script may redirect.  The kernel does nothing else meanwhile.       *)
(*                                                                         *)
(* An address is abstracted to the page it stands for; Bad is text that no *)
(* page answers to.  What characters do to the address is left open.       *)
(***************************************************************************)
EXTENDS Integers, Sequences

CONSTANTS
  Pages,       \* pages that can be loaded
  Start,       \* startpage(), which has no address
  Local,       \* a document of vela_load_html, whose address cannot be loaded
  Empty, Bad,  \* addresses without a page
  MaxHistory,  \* VELA_HISTORY_MAX (12)
  MaxDepth,    \* redirects by script (2)
  None

ASSUME VelaAssumption == MaxHistory \in Nat \ {0} /\ MaxDepth \in Nat

Address == Pages \cup {Empty, Bad, Local}

VARIABLES
  url,       \* g_url
  doc,       \* whose document g_doc is
  history,   \* g_history[0 .. g_history_count - 1]
  index,     \* g_history_index + 1
  nav,       \* the load under way
  loose      \* the document is known not to be the history's (history variable)

velaVars == <<url, doc, history, index, nav, loose>>

VelaInit ==
  /\ url = Empty
  /\ doc = Start
  /\ history = <<>>
  /\ index = 0
  /\ nav = None
  /\ loose = FALSE

(* Mutant of Pushed: what lies ahead is kept. *)
PushedAhead(u) == IF Len(history) < MaxHistory THEN Append(history, u) ELSE Append(Tail(history), u)

(* hist: what lies ahead is dropped, and the oldest entry if there is no room. *)
Pushed(u) ==
  LET kept == SubSeq(history, 1, index)
  IN  IF index > 0 /\ history[index] = u THEN history
      ELSE IF Len(kept) < MaxHistory THEN Append(kept, u)
      ELSE Append(Tail(kept), u)

PushedIndex(u) ==
  IF index > 0 /\ history[index] = u THEN index
  ELSE IF index < MaxHistory THEN index + 1 ELSE MaxHistory

(* nav: `to` is where back, forward and reload set the index afterwards,   *)
(* `sure` whether the page asked for is that of the history.               *)
Load(u, push, to, sure) ==
  /\ nav = None
  /\ nav' = [url |-> u, push |-> push, depth |-> 0, to |-> to, sure |-> sure]
  /\ UNCHANGED <<url, doc, history, index, loose>>

Edit ==                       \* vela_input_char, vela_backspace
  /\ nav = None
  /\ url' \in Address \ {url}
  /\ UNCHANGED <<doc, history, index, nav, loose>>

Go == Load(url, TRUE, 0, TRUE)
Open == \E u \in Address : Load(u, TRUE, 0, TRUE)      \* vela_load_url, vela_activate_link
Back == index > 1 /\ Load(history[index - 1], FALSE, index - 1, TRUE)
Forward == index < Len(history) /\ Load(history[index + 1], FALSE, index + 1, TRUE)
Reload == url # Empty /\ Load(url, FALSE, index, ~loose /\ url = doc)

(* hist returns at once for an empty virtual_url. *)
LoadHtml ==
  /\ nav = None
  /\ doc' = Local
  /\ \/ /\ url' = Local
        /\ history' = Pushed(Local)
        /\ index' = PushedIndex(Local)
        /\ loose' = FALSE
     \/ /\ url' = Empty
        /\ loose' = TRUE
        /\ UNCHANGED <<history, index>>
  /\ UNCHANGED nav

(* The address is refused by canon, or net_http_get returned 0.  The       *)
(* document is replaced only when a page is there.                         *)
LoadFails ==
  /\ nav # None
  /\ nav' = None
  /\ UNCHANGED <<url, doc, history, index, loose>>

Arrives(ended) ==
  /\ nav # None /\ nav.url \in Pages
  /\ url' = nav.url
  /\ doc' = nav.url
  /\ history' = IF nav.push THEN Pushed(nav.url) ELSE history
  /\ index' = IF nav.push THEN PushedIndex(nav.url) ELSE IF ended THEN nav.to ELSE index
  /\ loose' = (~nav.push /\ ~(nav.sure /\ nav.depth = 0 /\ ended))

LoadEnds == Arrives(TRUE) /\ nav' = None

(* navdepth calls itself; if that fails the page remains, and so does the  *)
(* index of back and forward.                                              *)
ScriptRedirects ==
  /\ Arrives(FALSE)
  /\ nav.depth < MaxDepth
  /\ \E u \in Address \ {Empty} : nav' = [nav EXCEPT !.url = u, !.depth = @ + 1]

Loading == LoadFails \/ LoadEnds \/ ScriptRedirects

(* The document shown is the history's current entry, so that back and     *)
(* forward lead to its neighbours.  Known exceptions, after which it is    *)
(* not claimed until the next page is pushed or reached by back or         *)
(* forward: reloading an edited address, a script that redirects during    *)
(* back, forward or reload, and a local document without an address.       *)
ShownIsCurrent ==
  /\ index \in 0..Len(history) /\ Len(history) <= MaxHistory
  /\ nav = None /\ ~loose => doc = (IF index = 0 THEN Start ELSE history[index])
=============================================================================
