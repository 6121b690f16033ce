SPECIFICATION FairSpec
CONSTANTS
  m1 = m1
  p1 = p1
  own1 = own1
  Handles = {1}
  Centrals = {1}
  Messages = {}
  PassAlongs = {p1}
  Announces = {p1}
  OwnMessages = {}
  Addrs = {1}
  Ttls = {0, 1}
  OwnTtl = 7
  TsOf <- MCTsOf
  MsPerSecond = 4
  FiveMinutes = 1
  TenMinutes = 1
  BuildTime = 10
  Width64 = 1000
  Width32 = 14
  MaxUptime = 2
INVARIANTS TypeOK AtMostOnce NoEcho QueueSound RecordsSound
PROPERTIES EventuallyDequeued EventuallyAnnounced
