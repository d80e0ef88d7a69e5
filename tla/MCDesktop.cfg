CONSTANTS
  Pages = {p, q}
  Start = Start
  Local = Local
  Empty = Empty
  Bad = Bad
  MaxHistory = 3
  MaxDepth = 2
  None = None
  Apps = {terminal, browser, paint}
  Terminal = terminal
  Browser = browser
SPECIFICATION Spec
INVARIANTS
  ShownIsCurrent
  ActiveOnTop
  DragHeld
