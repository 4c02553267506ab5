SPECIFICATION FairWSpec
CONSTANTS
  PlainConn = {p1}
  TlsConn = {}
  MaxMessages = 1
PROPERTIES StopCompletes
