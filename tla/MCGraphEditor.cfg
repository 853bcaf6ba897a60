SPECIFICATION MCSpec
CONSTANTS
  Null = Null
  r1 = r1
  l1 = l1
  r2 = r2
  l2 = l2
  g1 = g1
  v1 = v1
  w1 = w1
  x1 = x1
  n1 = n1
  n2 = n2
  e1 = e1
  f1 = f1
  Cell <- MCCell
  Vertex <- MCVertex
  Edge <- MCEdge
  Picks <- MCPicks
  Drop <- MCDrop
  MaxId = 14
  PreferredWidth = 1
  MaxOps = 2
  Shift = {2}
  Width = {3}
  GivenId = {8}
  Ops = {"update", "insertVertex", "insertEdge", "removeCells", "moveCells", "groupCells", "ungroupCells", "removeCellsFromParent", "updateGroupBounds", "splitEdge", "foldCells", "toggleCells", "connectCell", "orderCells", "resizeCells", "setValue", "setStyle", "clear", "enterGroup", "select", "undo"}
INVARIANTS DocumentOK UndoExact ViewInSync
PROPERTY SelectionFollows
CHECK_DEADLOCK FALSE
