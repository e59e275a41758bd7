CONSTANTS
  server = server
  tool = tool
  Procs = {server, tool}
  Configs = {"small", "large"}
  Tables = 3
  HeaderSize = 4
  Size <- MCSize
  Max <- MCMax
  Segments = 3
SYMMETRY Symmetry
SPECIFICATION Spec
INVARIANT TablesApart
CHECK_DEADLOCK FALSE
