SPECIFICATION FairSpec
CONSTANTS
  Programs = {"pipe", "pipe_select", "socketpair", "calc", "httpserver", "png", "bmp", "dns", "ini"}
  Capacity = 2
  Chunk = 1
  MaxOutput = 3
  Workers = 4
  Need = 2
  Bytes = 2
  Client = {c1, c2}
  Calls = 2
  Modulus = 16
  Nobody = nobody
  Conn = {d1, d2}
  First = d1
  RecvLimit = 3
  HeadPieces = 2
INVARIANTS
  OutputIsShown
  AnswersAreRight
  RequestsAreWhole
  PicturesAreRight
  RecordsAreRight
PROPERTIES
  ProgramsEnd
  WorkersEnd
CHECK_DEADLOCK FALSE
