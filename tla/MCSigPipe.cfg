SPECIFICATION FairSpec
CONSTANTS
  Programs = {"socketpair"}
  Capacity = 1
  Chunk = 1
  MaxOutput = 0
  Workers = 3
  Need = 1
  Bytes = 1
  Client = {}
  Calls = 0
  Modulus = 16
  Nobody = nobody
  Conn = {d1, d2}
  First = d1
  RecvLimit = 3
  HeadPieces = 2
INVARIANT NotKilled
CHECK_DEADLOCK FALSE
