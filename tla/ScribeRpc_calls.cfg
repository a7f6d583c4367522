CONSTANTS
  Conn = {c1, c2, c3}
  NoConn = NoConn
  MaxPushed = 2
SPECIFICATION LiveSpec
INVARIANTS RpcInv AckedStored StoredInOrder
PROPERTIES Ships AllAcknowledged
