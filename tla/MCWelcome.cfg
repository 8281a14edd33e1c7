SPECIFICATION Spec
CONSTANTS
  c1 = c1
  c2 = c2
  a1 = a1
  a2 = a2
  p1 = p1
  p2 = p2
  j1 = j1
  j2 = j2
  NoConn = NoConn
  NoAccount = NoAccount
  Slots <- MCSlots
  Conns <- Reused
  SlotOf <- ReusedSlot
  Accounts = {a1}
  Requests <- OtherRequests
  Parsers <- MCParsers
  JsThreads = {j1}
  MaxMsgs = 3
SYMMETRY Symmetry
INVARIANTS OnlyRegisteredWelcomed
CHECK_DEADLOCK FALSE
