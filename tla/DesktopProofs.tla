---------------------------- MODULE DesktopProofs ----------------------------
(***************************************************************************)
(* Proofs about the desktop and the browser, for any set of windows, any   *)
(* pages and any length of the history.                                    *)
(***************************************************************************)
EXTENDS Desktop, FiniteSetTheorems, SequenceTheorems, TLAPS

-----------------------------------------------------------------------------
(* The browser.                                                            *)

(* What the history says is shown when its index is i. *)
Entry(i) == IF i = 0 THEN Start ELSE history[i]

HistoryOK ==
  /\ history \in Seq(Address)
  /\ index \in 0..Len(history)
  /\ Len(history) <= MaxHistory

(* A load knows where it ends: back, forward and reload have the index of  *)
(* an entry, and if they are sure of it, it is the entry they load.        *)
NavOK ==
  nav # None =>
    /\ nav \in [url : Address, push : BOOLEAN, depth : Nat, to : Nat, sure : BOOLEAN]
    /\ ~nav.push =>
         /\ nav.to \in 0..Len(history)
         /\ nav.sure /\ nav.depth = 0 => nav.url = Entry(nav.to)

(* The inductive invariant: even while a page loads, a document that is    *)
(* not known to be loose is that of the current entry.                     *)
VelaInv ==
  /\ url \in Address
  /\ HistoryOK
  /\ NavOK
  /\ loose \in BOOLEAN
  /\ ~loose => doc = Entry(index)

(* hist: what is pushed is the current entry, and the history is not too   *)
(* long.                                                                   *)
LEMMA PushedCurrent ==
  ASSUME HistoryOK, NEW u \in Address
  PROVE  /\ Pushed(u) \in Seq(Address)
         /\ PushedIndex(u) \in 1..Len(Pushed(u))
         /\ Len(Pushed(u)) <= MaxHistory
         /\ Pushed(u)[PushedIndex(u)] = u
<1> DEFINE kept == SubSeq(history, 1, index)
<1>1. /\ index \in Nat /\ index <= Len(history) /\ Len(history) \in Nat
      /\ MaxHistory \in Nat /\ MaxHistory > 0
  BY VelaAssumption, LenProperties DEF HistoryOK
<1>2. kept \in Seq(Address) /\ Len(kept) = index
  <2>1. \A i \in 1..index : history[i] \in Address
    BY <1>1, ElementOfSeq DEF HistoryOK
  <2> QED BY <1>1, <2>1, SubSeqProperties DEF HistoryOK
<1> HIDE DEF kept
<1>3. CASE index > 0 /\ history[index] = u
  <2>1. Pushed(u) = history /\ PushedIndex(u) = index
    BY <1>3 DEF Pushed, PushedIndex
  <2> QED BY <2>1, <1>1, <1>3 DEF HistoryOK
<1>4. CASE ~(index > 0 /\ history[index] = u) /\ index < MaxHistory
  <2>1. Pushed(u) = Append(kept, u) /\ PushedIndex(u) = index + 1
    BY <1>1, <1>2, <1>4 DEF Pushed, PushedIndex, kept
  <2> QED BY <2>1, <1>1, <1>2, <1>4, AppendProperties
<1>5. CASE ~(index > 0 /\ history[index] = u) /\ ~(index < MaxHistory)
  <2>0. index = MaxHistory
    BY <1>1, <1>5 DEF HistoryOK
  <2>1. Pushed(u) = Append(Tail(kept), u) /\ PushedIndex(u) = MaxHistory
    <3>1. ~(Len(kept) < MaxHistory)
      BY <1>1, <1>2, <2>0
    <3> QED BY <1>5, <3>1 DEF Pushed, PushedIndex, kept
  <2>2. kept # << >>
    BY <1>1, <1>2, <2>0
  <2>3. Tail(kept) \in Seq(Address) /\ Len(Tail(kept)) = MaxHistory - 1
    BY <1>1, <1>2, <2>0, <2>2, HeadTailProperties
  <2> QED BY <1>1, <2>1, <2>3, AppendProperties
<1> QED BY <1>3, <1>4, <1>5

LEMMA VelaInitOK == VelaInit => VelaInv
<1> SUFFICES ASSUME VelaInit PROVE VelaInv
  OBVIOUS
<1>1. history \in Seq(Address) /\ Len(history) = 0 /\ index = 0
  BY EmptySeq DEF VelaInit
<1>2. HistoryOK
  BY <1>1, VelaAssumption DEF HistoryOK
<1>3. nav = None /\ url \in Address /\ loose = FALSE /\ doc = Entry(index)
  BY DEF VelaInit, Entry, Address
<1> QED BY <1>2, <1>3 DEF VelaInv, NavOK

(* A load that is begun knows where it will end: a page that will be       *)
(* pushed, an entry that is returned to, or an address that is reloaded.   *)
LEMMA LoadKeeps ==
  ASSUME VelaInv, NEW u \in Address, Load(u, TRUE, 0, TRUE)
  PROVE  VelaInv'
BY DEF Load, VelaInv, HistoryOK, NavOK, Entry

LEMMA ReturnKeeps ==
  ASSUME VelaInv, NEW u \in Address, NEW to \in 0..Len(history), u = Entry(to),
         Load(u, FALSE, to, TRUE)
  PROVE  VelaInv'
BY DEF Load, VelaInv, HistoryOK, NavOK, Entry

LEMMA ReloadKeeps ==
  ASSUME VelaInv, NEW u \in Address, NEW to \in 0..Len(history), Load(u, FALSE, to, FALSE)
  PROVE  VelaInv'
BY DEF Load, VelaInv, HistoryOK, NavOK, Entry

(* Every way to ask for a page. *)
LEMMA AskKeeps ==
  ASSUME VelaInv, Back \/ Forward \/ Reload \/ Go \/ Open
  PROVE  VelaInv'
<1>1. /\ index \in Nat /\ index <= Len(history) /\ Len(history) \in Nat
  BY LenProperties DEF VelaInv, HistoryOK
<1>2. CASE Back
  <2>1. index - 1 \in 0..Len(history) /\ history[index - 1] = Entry(index - 1)
    BY <1>1, <1>2 DEF Back, Entry
  <2>2. history[index - 1] \in Address
    BY <1>1, <1>2, ElementOfSeq DEF Back, VelaInv, HistoryOK
  <2> QED BY <1>1, <1>2, <2>1, <2>2, ReturnKeeps DEF Back
<1>3. CASE Forward
  <2>1. index + 1 \in 0..Len(history) /\ history[index + 1] = Entry(index + 1)
    BY <1>1, <1>3 DEF Forward, Entry
  <2>2. history[index + 1] \in Address
    BY <1>1, <1>3, ElementOfSeq DEF Forward, VelaInv, HistoryOK
  <2> QED BY <1>1, <1>3, <2>1, <2>2, ReturnKeeps DEF Forward
<1>4. CASE Reload
  <2> DEFINE sure == ~loose /\ url = doc
  <2>0. index \in 0..Len(history)
    BY <1>1
  <2>1. Load(url, FALSE, index, sure)
    BY <1>4 DEF Reload
  <2>2. CASE sure
    <3>1. Load(url, FALSE, index, TRUE) /\ url = Entry(index) /\ url \in Address
      BY <2>1, <2>2 DEF VelaInv, Load
    <3> QED BY <2>0, <3>1, ReturnKeeps
  <2>3. CASE ~sure
    <3>1. Load(url, FALSE, index, FALSE) /\ url \in Address
      BY <2>1, <2>3 DEF VelaInv, Load
    <3> QED BY <2>0, <3>1, ReloadKeeps
  <2> QED BY <2>2, <2>3
<1>5. CASE Go
  BY <1>5, LoadKeeps DEF Go, VelaInv
<1>6. CASE Open
  BY <1>6, LoadKeeps DEF Open
<1> QED BY <1>2, <1>3, <1>4, <1>5, <1>6

LEMMA EditKeeps == VelaInv /\ Edit => VelaInv'
BY DEF Edit, VelaInv, HistoryOK, NavOK, Entry

LEMMA LoadHtmlKeeps == VelaInv /\ LoadHtml => VelaInv'
<1> SUFFICES ASSUME VelaInv, LoadHtml PROVE VelaInv'
  OBVIOUS
<1>1. CASE /\ history' = Pushed(Local) /\ index' = PushedIndex(Local)
           /\ loose' = FALSE /\ url' = Local
  <2>1. nav' = None /\ doc' = Local
    BY DEF LoadHtml
  <2>2. /\ history' \in Seq(Address) /\ index' \in 1..Len(history')
        /\ Len(history') <= MaxHistory /\ history'[index'] = Local
    BY <1>1, PushedCurrent DEF VelaInv, Address
  <2>3. HistoryOK'
    BY <2>2 DEF HistoryOK
  <2>4. doc' = Entry(index)'
    BY <2>1, <2>2 DEF Entry
  <2> QED BY <1>1, <2>1, <2>3, <2>4 DEF VelaInv, NavOK, Address
<1>2. CASE url' = Empty /\ loose' = TRUE /\ UNCHANGED <<history, index>>
  <2>1. nav' = None
    BY DEF LoadHtml
  <2>2. HistoryOK'
    BY <1>2 DEF VelaInv, HistoryOK
  <2> QED BY <1>2, <2>1, <2>2 DEF VelaInv, NavOK, Address
<1> QED BY <1>1, <1>2 DEF LoadHtml

(* The page is there: it is pushed, or the index is set to it. *)
LEMMA ArrivesKeeps ==
  ASSUME VelaInv, NEW ended \in BOOLEAN, Arrives(ended)
  PROVE  /\ url' \in Address
         /\ HistoryOK'
         /\ loose' \in BOOLEAN
         /\ ~loose' => doc' = Entry(index)'
         /\ ~nav.push => history' = history
<1>1. /\ nav # None /\ nav.url \in Address
      /\ url' = nav.url /\ doc' = nav.url
  BY DEF Arrives, Address
<1>2. CASE nav.push
  <2>1. history' = Pushed(nav.url) /\ index' = PushedIndex(nav.url) /\ loose' = FALSE
    BY <1>2 DEF Arrives
  <2>2. /\ history' \in Seq(Address) /\ index' \in 1..Len(history')
        /\ Len(history') <= MaxHistory /\ history'[index'] = nav.url
    BY <1>1, <2>1, PushedCurrent DEF VelaInv
  <2>3. HistoryOK'
    BY <2>2 DEF HistoryOK
  <2>4. doc' = Entry(index)'
    BY <1>1, <2>2 DEF Entry
  <2> QED BY <1>1, <1>2, <2>1, <2>3, <2>4
<1>3. CASE ~nav.push
  <2>1. history' = history
    BY <1>3 DEF Arrives
  <2>2. index' = (IF ended THEN nav.to ELSE index) /\ loose' = ~(nav.sure /\ nav.depth = 0 /\ ended)
    BY <1>3 DEF Arrives
  <2>3. HistoryOK'
    BY <1>1, <1>3, <2>1, <2>2 DEF VelaInv, HistoryOK, NavOK
  <2>4. ~loose' => doc' = Entry(index)'
    BY <1>1, <1>3, <2>1, <2>2 DEF VelaInv, NavOK, Entry
  <2> QED BY <1>1, <2>1, <2>2, <2>3, <2>4
<1> QED BY <1>2, <1>3

LEMMA LoadingKeeps == VelaInv /\ Loading => VelaInv'
<1> SUFFICES ASSUME VelaInv, Loading PROVE VelaInv'
  OBVIOUS
<1>1. CASE LoadFails
  BY <1>1 DEF LoadFails, VelaInv, HistoryOK, NavOK, Entry
<1>2. CASE LoadEnds
  <2>1. Arrives(TRUE) /\ nav' = None
    BY <1>2 DEF LoadEnds
  <2> QED BY <2>1, ArrivesKeeps DEF VelaInv, NavOK
<1>3. CASE ScriptRedirects
  <2>1. Arrives(FALSE)
    BY <1>3 DEF ScriptRedirects
  <2>2. PICK u \in Address : nav' = [nav EXCEPT !.url = u, !.depth = @ + 1]
    BY <1>3 DEF ScriptRedirects
  <2>3. nav # None /\ nav.depth \in Nat
    BY <2>1 DEF Arrives, VelaInv, NavOK
  <2>4. /\ url' \in Address /\ HistoryOK' /\ loose' \in BOOLEAN
        /\ ~loose' => doc' = Entry(index)'
        /\ ~nav.push => history' = history
    BY <2>1, ArrivesKeeps
  <2>5. NavOK'
    <3>1. /\ nav \in [url : Address, push : BOOLEAN, depth : Nat, to : Nat, sure : BOOLEAN]
          /\ ~nav.push => nav.to \in 0..Len(history)
      BY <2>3 DEF VelaInv, NavOK
    <3>2. /\ nav' \in [url : Address, push : BOOLEAN, depth : Nat, to : Nat, sure : BOOLEAN]
          /\ nav'.push = nav.push /\ nav'.to = nav.to /\ nav'.depth # 0
      <4>1. nav' = [url |-> u, push |-> nav.push, depth |-> nav.depth + 1, to |-> nav.to, sure |-> nav.sure]
        BY <2>2, <3>1
      <4>2. nav.push \in BOOLEAN /\ nav.depth \in Nat /\ nav.to \in Nat /\ nav.sure \in BOOLEAN
        BY <3>1
      <4>3. nav.depth + 1 \in Nat /\ nav.depth + 1 # 0
        BY <4>2
      <4> QED BY <4>1, <4>2, <4>3, Zenon
    <3> QED BY <2>4, <3>1, <3>2 DEF NavOK
  <2> QED BY <2>4, <2>5 DEF VelaInv
<1> QED BY <1>1, <1>2, <1>3 DEF Loading

LEMMA VelaUnchanged == VelaInv /\ UNCHANGED velaVars => VelaInv'
BY DEF velaVars, VelaInv, HistoryOK, NavOK, Entry
-----------------------------------------------------------------------------
(* The windows.                                                            *)

(* The ranks are distinct, so that a window that is lifted is above all    *)
(* others.                                                                 *)
RankInv ==
  /\ win \in [Apps -> {"shown", "minimized", "closed"}]
  /\ z \in [Apps -> 1..Top]
  /\ \A a, b \in Apps : z[a] = z[b] => a = b

DeskInv ==
  /\ RankInv
  /\ active = None \/ active \in Apps
  /\ ActiveOnTop
  /\ missed \in BOOLEAN /\ left \in BOOLEAN
  /\ DragHeld

LEMMA TopType == Top \in Nat \ {0}
<1>1. IsFiniteSet(Apps) /\ Terminal \in Apps
  BY DesktopAssumption
<1>2. Cardinality(Apps) \in Nat /\ Cardinality(Apps) # 0
  BY <1>1, FS_CardinalityType, FS_EmptySet
<1> QED BY <1>2 DEF Top

(* ++ztop: the ranks stay distinct and the window is above all others. *)
LEMMA RaisedOnTop ==
  ASSUME RankInv, NEW a \in Apps
  PROVE  /\ Raised(a) \in [Apps -> 1..Top]
         /\ \A b, c \in Apps : Raised(a)[b] = Raised(a)[c] => b = c
         /\ \A b \in Apps \ {a} : Raised(a)[b] < Raised(a)[a]
<1>1. Top \in Nat \ {0} /\ \A b \in Apps : z[b] \in 1..Top
  BY TopType DEF RankInv
<1>2. \A b \in Apps \ {a} : z[b] # z[a]
  BY DEF RankInv
<1>3. Raised(a)[a] = Top
  BY DEF Raised
<1>4. ASSUME NEW b \in Apps \ {a}
      PROVE  /\ z[b] > z[a] => Raised(a)[b] = z[b] - 1
             /\ ~(z[b] > z[a]) => Raised(a)[b] = z[b]
             /\ Raised(a)[b] \in 1..Top
             /\ Raised(a)[b] < Top
  <2>1. Raised(a)[b] = IF z[b] > z[a] THEN z[b] - 1 ELSE z[b]
    BY DEF Raised
  <2> QED BY <1>1, <1>2, <2>1
<1>5. Raised(a) \in [Apps -> 1..Top]
  <2>1. \A b \in Apps : Raised(a)[b] \in 1..Top
    BY <1>1, <1>3, <1>4
  <2>2. Raised(a) = [b \in Apps |-> Raised(a)[b]]
    BY DEF Raised
  <2> QED BY <2>1, <2>2
<1>6. ASSUME NEW b \in Apps, NEW c \in Apps, Raised(a)[b] = Raised(a)[c]
      PROVE  b = c
  <2>1. CASE b = a \/ c = a
    BY <1>1, <1>3, <1>4, <1>6, <2>1
  <2>2. CASE b # a /\ c # a
    <3>1. z[b] = z[c]
      BY <1>1, <1>2, <1>4, <1>6, <2>2
    <3> QED BY <3>1 DEF RankInv
  <2> QED BY <2>1, <2>2
<1> QED BY <1>3, <1>4, <1>5, <1>6

LEMMA DeskInitOK == Init => DeskInv
<1> SUFFICES ASSUME Init PROVE DeskInv
  OBVIOUS
<1>1. z \in [Apps -> 1..Top] /\ (\A a, b \in Apps : z[a] = z[b] => a = b) /\ z[Terminal] = Top
  BY DEF Init, Injection, IsInjective
<1>2. /\ win \in [Apps -> {"shown", "minimized", "closed"}]
      /\ active = Terminal /\ Terminal \in Apps /\ Shown = {Terminal}
      /\ dragging = None /\ missed = FALSE /\ left = FALSE
  BY DesktopAssumption DEF Init, Shown
<1> QED BY <1>1, <1>2 DEF DeskInv, RankInv, ActiveOnTop, DragHeld

(* A window that is lifted while it is, or becomes, shown and active. *)
LEMMA RaiseKeeps ==
  ASSUME DeskInv, NEW a \in Apps,
         z' = Raised(a), win' = [win EXCEPT ![a] = "shown"], active' = a
  PROVE  RankInv' /\ ActiveOnTop' /\ Shown \subseteq Shown' /\ a \in Shown'
<1>1. /\ z' \in [Apps -> 1..Top]
      /\ \A b, c \in Apps : z'[b] = z'[c] => b = c
      /\ \A b \in Apps \ {a} : z'[b] < z'[a]
  BY RaisedOnTop DEF DeskInv
<1>2. /\ win' \in [Apps -> {"shown", "minimized", "closed"}]
      /\ a \in Shown' /\ Shown \subseteq Shown' /\ Shown' \subseteq Apps
  BY DEF DeskInv, RankInv, Shown
<1> QED BY <1>1, <1>2 DEF RankInv, ActiveOnTop

LEMMA FocusKeeps ==
  ASSUME DeskInv, NEW a \in Apps, FocusApp(a), dragging' = dragging, missed' = missed,
         left' = left \/ (left' = TRUE /\ left = FALSE)
  PROVE  DeskInv'
<1>1. RankInv' /\ ActiveOnTop' /\ Shown \subseteq Shown' /\ a \in Shown'
  BY RaiseKeeps DEF FocusApp
<1>2. active' = a
  BY DEF FocusApp
<1>3. missed' \in BOOLEAN /\ left' \in BOOLEAN /\ DragHeld'
  BY <1>1 DEF DeskInv, DragHeld
<1> QED BY <1>1, <1>2, <1>3 DEF DeskInv

LEMMA DeskUnchanged == DeskInv /\ UNCHANGED deskVars => DeskInv'
BY DEF deskVars, DeskInv, RankInv, ActiveOnTop, DragHeld, Shown

LEMMA PressKeeps == DeskInv /\ Press => DeskInv'
<1> SUFFICES ASSUME DeskInv, Press PROVE DeskInv'
  OBVIOUS
<1>0. left = FALSE /\ left' = TRUE /\ missed' = missed /\ missed \in BOOLEAN
      /\ (dragging # None => missed)
  BY DEF Press, PressStart, PressMenu, PressBackground, PressTaskbar, PressIcon, PressClose,
         PressTitle, PressContent, PressWindow, Pressed, DeskInv, DragHeld
<1>1. ASSUME UNCHANGED <<win, z, active, dragging>>
      PROVE  DeskInv'
  BY <1>0, <1>1 DEF DeskInv, RankInv, ActiveOnTop, DragHeld, Shown
<1>2. CASE PressStart
  BY <1>1, <1>2 DEF PressStart
<1>3. CASE PressMenu
  <2>1. dragging' = dragging
    BY <1>3 DEF PressMenu
  <2>2. CASE \E a \in Apps : FocusApp(a)
    BY <1>0, <2>1, <2>2, FocusKeeps
  <2>3. CASE UNCHANGED <<win, z, active>>
    BY <1>1, <2>1, <2>3
  <2> QED BY <1>3, <2>2, <2>3 DEF PressMenu
<1>4. CASE PressBackground
  <2>1. active' = None /\ UNCHANGED <<win, z, dragging>>
    BY <1>4 DEF PressBackground
  <2> QED BY <1>0, <2>1 DEF DeskInv, RankInv, ActiveOnTop, DragHeld, Shown
<1>5. ASSUME NEW a \in Apps, PressTaskbar(a) PROVE DeskInv'
  <2>1. dragging' = dragging
    BY <1>5 DEF PressTaskbar
  <2>2. CASE FocusApp(a)
    BY <1>0, <2>1, <2>2, FocusKeeps
  <2>3. CASE /\ win' = [win EXCEPT ![a] = "minimized"]
             /\ active' = None /\ z' = z
    BY <1>0, <2>1, <2>3 DEF DeskInv, RankInv, ActiveOnTop, DragHeld
  <2> QED BY <1>5, <2>2, <2>3 DEF PressTaskbar
<1>6. ASSUME NEW a \in Apps, PressIcon(a) PROVE DeskInv'
  BY <1>0, <1>6, FocusKeeps DEF PressIcon
<1>7. ASSUME NEW a \in Apps, PressClose(a) PROVE DeskInv'
  <2>1. z' = Raised(a) /\ win' = [win EXCEPT ![a] = "closed"] /\ active' = None /\ dragging' = dragging
    BY <1>7 DEF PressClose, PressWindow
  <2>2. RankInv'
    BY <2>1, RaisedOnTop DEF DeskInv, RankInv
  <2> QED BY <1>0, <2>1, <2>2 DEF DeskInv, ActiveOnTop, DragHeld
<1>8. ASSUME NEW a \in Apps, PressTitle(a) \/ PressContent(a) PROVE DeskInv'
  <2>1. /\ z' = Raised(a) /\ win' = win /\ active' = a /\ a \in Shown
        /\ dragging' = dragging \/ dragging' = a
    BY <1>8 DEF PressTitle, PressContent, PressWindow
  <2>2. win' = [win EXCEPT ![a] = "shown"]
    BY <2>1 DEF Shown, DeskInv, RankInv
  <2>3. RankInv' /\ ActiveOnTop' /\ a \in Shown'
    BY <2>1, <2>2, RaiseKeeps
  <2> QED BY <1>0, <2>1, <2>3 DEF DeskInv, DragHeld
<1> QED BY <1>2, <1>3, <1>4, <1>5, <1>6, <1>7, <1>8 DEF Press

LEMMA DeskNext == DeskInv /\ [Next]_vars => DeskInv'
<1> SUFFICES ASSUME DeskInv, [Next]_vars PROVE DeskInv'
  OBVIOUS
<1>1. CASE Release
  BY <1>1 DEF Release, DragAfterRelease, DeskInv, RankInv, ActiveOnTop, DragHeld, Shown
<1>2. CASE Wheel
  <2>1. /\ left' \in BOOLEAN /\ UNCHANGED <<win, z, active, dragging>>
        /\ missed' = (missed \/ (dragging # None /\ left /\ ~left'))
    BY <1>2 DEF Wheel
  <2>2. DragHeld' /\ missed' \in BOOLEAN
    BY <2>1 DEF DeskInv, DragHeld, Shown
  <2> QED BY <2>1, <2>2 DEF DeskInv, RankInv, ActiveOnTop, Shown
<1>3. CASE Press
  BY <1>3, PressKeeps
<1>4. CASE Escape
  BY <1>4 DEF Escape, DeskInv, RankInv, ActiveOnTop, DragHeld, Shown
<1>5. CASE TerminalVela
  BY <1>5, FocusKeeps, DesktopAssumption DEF TerminalVela
<1>6. CASE UNCHANGED deskVars
  BY <1>6, DeskUnchanged
<1> QED BY <1>1, <1>2, <1>3, <1>4, <1>5, <1>6
        DEF Next, Key, TerminalNettest, Off, vars

LEMMA VelaNext == VelaInv /\ [Next]_vars => VelaInv'
<1> SUFFICES ASSUME VelaInv, [Next]_vars PROVE VelaInv'
  OBVIOUS
<1>1. CASE UNCHANGED velaVars
  BY <1>1, VelaUnchanged
<1>2. CASE Back \/ Forward \/ Reload \/ Go \/ Open
  BY <1>2, AskKeeps
<1>3. CASE Edit
  BY <1>3, EditKeeps
<1>4. CASE LoadHtml
  BY <1>4, LoadHtmlKeeps
<1>5. CASE Loading
  BY <1>5, LoadingKeeps
<1>6. CASE \E u \in Pages : Load(u, TRUE, 0, TRUE)
  BY <1>6, LoadKeeps DEF Address
<1>7. Next => \/ UNCHANGED velaVars \/ Back \/ Forward \/ Reload \/ Go \/ Open
              \/ Edit \/ LoadHtml \/ Loading \/ \E u \in Pages : Load(u, TRUE, 0, TRUE)
  BY DEF Next, Release, Wheel, Press, PressStart, PressMenu, PressBackground, PressTaskbar,
         PressIcon, PressClose, PressTitle, PressContent, Key, Escape, TerminalVela,
         TerminalNettest, Off, vars
<1> QED BY <1>1, <1>2, <1>3, <1>4, <1>5, <1>6, <1>7 DEF vars

(* The history never grows past its room and its index never leaves it;    *)
(* the document shown is that of the current entry (kernel/vela.c), for    *)
(* any VELA_HISTORY_MAX and any depth of redirects.                        *)
THEOREM HistoryCurrent == Spec => []ShownIsCurrent
<1>1. Init => VelaInv
  BY VelaInitOK DEF Init
<1>2. VelaInv => ShownIsCurrent
  BY DEF VelaInv, HistoryOK, Entry, ShownIsCurrent
<1> QED BY <1>1, <1>2, VelaNext, PTL DEF Spec

(* The active window is shown and above every other window that is shown,  *)
(* for any number of windows (kernel/desktop.c).                           *)
THEOREM FocusOnTop == Spec => []ActiveOnTop
<1>1. DeskInv => ActiveOnTop
  BY DEF DeskInv
<1> QED BY <1>1, DeskInitOK, DeskNext, PTL DEF Spec

(* A window follows the pointer only while the button is held, unless a    *)
(* turn of the wheel hid the release (kernel/desktop.c).                   *)
THEOREM DragReleased == Spec => []DragHeld
<1>1. DeskInv => DragHeld
  BY DEF DeskInv
<1> QED BY <1>1, DeskInitOK, DeskNext, PTL DEF Spec
=============================================================================
