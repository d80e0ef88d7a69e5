------------------------------- MODULE Desktop -------------------------------
(***************************************************************************)
(* Windows, pointer and keyboard of kernel/desktop.c, composed with the    *)
(* browser.  Geometry is abstracted: a press may hit the start button, a   *)
(* taskbar button, an icon, the menu, the background, or any window that   *)
(* is shown and any part of it.  Of the windows' z values their order is   *)
(* kept: z is the rank of a window, and ++ztop lifts one above the others. *)
(***************************************************************************)
EXTENDS Vela, FiniteSets, Functions

CONSTANTS Apps, Terminal, Browser

ASSUME DesktopAssumption == IsFiniteSet(Apps) /\ {Terminal, Browser} \subseteq Apps

Top == Cardinality(Apps)   \* the rank of ztop

VARIABLES
  win,       \* open and minimized of every window
  z,         \* rank of every window's z
  active,    \* active_app
  menu,      \* start_open, or the machine has been shut down
  dragging,
  left,      \* mouse_left
  missed     \* a release was not acted upon (history variable)

deskVars == <<win, z, active, menu, dragging, left, missed>>
vars == <<velaVars, deskVars>>

Init ==
  /\ VelaInit
  /\ win = [a \in Apps |-> IF a = Terminal THEN "shown" ELSE "closed"]
  /\ z \in {f \in Injection(Apps, 1..Top) : f[Terminal] = Top}
  /\ active = Terminal
  /\ menu = "shut"
  /\ dragging = None
  /\ left = FALSE
  /\ missed = FALSE
-----------------------------------------------------------------------------
Shown == {a \in Apps : win[a] = "shown"}

(* Mutant of Raised: the order is left alone. *)
RaisedNot(a) == z

Raised(a) ==
  [b \in Apps |-> IF b = a THEN Top ELSE IF z[b] > z[a] THEN z[b] - 1 ELSE z[b]]

FocusApp(a) ==
  /\ win' = [win EXCEPT ![a] = "shown"]
  /\ z' = Raised(a)
  /\ active' = a
  /\ menu' = "shut"

(* Mutant of DragAfterRelease: the window stays on the pointer. *)
DragAfterReleaseKept == dragging

DragAfterRelease == None

(* handle_mouse_packet; motion changes no more than positions. *)
Release ==
  /\ nav = None /\ menu # "off"
  /\ left
  /\ left' = FALSE
  /\ dragging' = DragAfterRelease
  /\ missed' = FALSE
  /\ UNCHANGED <<velaVars, win, z, active, menu>>

(* The wheel turned over the page: the rest of the packet, a press or a    *)
(* release, is not looked at.                                              *)
Wheel ==
  /\ nav = None /\ menu # "off"
  /\ win[Browser] = "shown"
  /\ left' \in BOOLEAN
  /\ missed' = (missed \/ (dragging # None /\ left /\ ~left'))
  /\ UNCHANGED <<velaVars, win, z, active, menu, dragging>>
-----------------------------------------------------------------------------
(* handle_press.                                                           *)

Pressed ==
  /\ nav = None /\ menu # "off"
  /\ ~left
  /\ left' = TRUE
  /\ UNCHANGED missed

PressStart ==
  /\ Pressed
  /\ menu' = IF menu = "open" THEN "shut" ELSE "open"
  /\ UNCHANGED <<velaVars, win, z, active, dragging>>

PressMenu ==
  /\ Pressed
  /\ menu = "open"
  /\ \/ \E a \in Apps : FocusApp(a)
     \/ menu' \in {"shut", "off"} /\ UNCHANGED <<win, z, active>>
  /\ UNCHANGED <<velaVars, dragging>>

PressTaskbar(a) ==
  /\ Pressed
  /\ menu = "shut"
  /\ IF win[a] = "shown" /\ active = a
     THEN /\ win' = [win EXCEPT ![a] = "minimized"]
          /\ active' = None
          /\ UNCHANGED <<z, menu>>
     ELSE FocusApp(a)
  /\ UNCHANGED <<velaVars, dragging>>

PressIcon(a) ==
  /\ Pressed
  /\ menu = "shut"
  /\ FocusApp(a)
  /\ UNCHANGED <<velaVars, dragging>>

PressBackground ==
  /\ Pressed
  /\ menu = "shut"
  /\ active' = None
  /\ UNCHANGED <<velaVars, win, z, menu, dragging>>

PressWindow(a) ==
  /\ Pressed
  /\ menu = "shut"
  /\ a \in Shown
  /\ z' = Raised(a)
  /\ UNCHANGED menu

PressClose(a) ==
  /\ PressWindow(a)
  /\ win' = [win EXCEPT ![a] = "closed"]
  /\ active' = None
  /\ UNCHANGED <<velaVars, dragging>>

PressTitle(a) ==
  /\ PressWindow(a)
  /\ active' = a
  /\ dragging' = a
  /\ UNCHANGED <<velaVars, win>>

PressContent(a) ==
  /\ PressWindow(a)
  /\ active' = a
  /\ \/ a = Browser /\ (Back \/ Forward \/ Reload \/ Go \/ Open)
     \/ UNCHANGED velaVars
  /\ UNCHANGED <<win, dragging>>
-----------------------------------------------------------------------------
(* desktop_key_scancode.                                                   *)

Key ==
  /\ menu # "off"
  /\ active = Browser
  /\ Edit \/ Go
  /\ UNCHANGED deskVars

Escape ==
  /\ nav = None
  /\ menu = "open"
  /\ menu' = "shut"
  /\ UNCHANGED <<velaVars, win, z, active, dragging, left, missed>>

(* terminal_exec: "vela" and "nettest"; the other commands leave this state. *)
TerminalVela ==
  /\ nav = None /\ menu # "off"
  /\ active = Terminal
  /\ FocusApp(Browser)
  /\ UNCHANGED <<velaVars, dragging, left, missed>>

TerminalNettest ==
  /\ menu # "off"
  /\ active = Terminal
  /\ \E u \in Pages : Load(u, TRUE, 0, TRUE)
  /\ UNCHANGED deskVars

Off == menu = "off" /\ UNCHANGED vars

Press ==
  \/ PressStart \/ PressMenu \/ PressBackground
  \/ \E a \in Apps : PressTaskbar(a) \/ PressIcon(a) \/ PressClose(a)
                     \/ PressTitle(a) \/ PressContent(a)

Next ==
  \/ Release \/ Wheel \/ Press
  \/ Key \/ Escape \/ TerminalVela \/ TerminalNettest
  \/ Loading /\ UNCHANGED deskVars
  \/ LoadHtml /\ menu # "off" /\ UNCHANGED deskVars
  \/ Off

Spec == Init /\ [][Next]_vars
-----------------------------------------------------------------------------
(* Keys, and the strokes of the paint program, which go straight to the    *)
(* screen, go to active_app: it is a window that can be seen, and none     *)
(* lies above it.                                                          *)
ActiveOnTop ==
  active # None =>
    /\ active \in Shown
    /\ \A a \in Shown \ {active} : z[a] < z[active]

(* A window follows the pointer only while the button that seized its      *)
(* title is held and the window is shown, unless a turn of the wheel hid   *)
(* the release.                                                            *)
DragHeld == dragging # None => missed \/ (left /\ dragging \in Shown)
=============================================================================
