SPECIFICATION FairSpec
CONSTANTS
  host = host
  reader = reader
  watch = watch
  b1 = b1
  b2 = b2
  c1 = c1
  c2 = c2
  Clients = {host, reader, watch}
  Requests = {b1, b2, c1}
  Tokens = {t1, t2}
  t1 = t1
  t2 = t2
  Kind <- MCKind
  Client <- MCClient
  Asker <- MCAsker
  Leavers = {host}
  Unable = {reader}
  None = None
INVARIANTS
  TypeOK
  Pairing
  ChannelAlive
  NobodyStranded
  BrowserChannelsFreed
PROPERTIES
  Answered
  ConnectionsSettle
CHECK_DEADLOCK FALSE
