CONSTANTS
  Blocks = {b1, b2}
  NoBlock = NoBlock
  Requests = {"stop"}
SPECIFICATION FairSpec
PROPERTY ReconnectedSends
