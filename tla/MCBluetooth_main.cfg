CONSTANTS
  Blocks = {b1, b2, b3}
  NoBlock = NoBlock
  Requests = {"stop"}
  enableTimer = 3
SPECIFICATION BluetoothSpec
INVARIANTS OneOwner OneInFlight ReceiverComesBack OneReference
PROPERTIES RequestsInOrder RequestSent LinkComesBack RssiResumes LinkIsNoticed
