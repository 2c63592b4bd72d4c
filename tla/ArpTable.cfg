SPECIFICATION AllSpec
CONSTANTS
  Hosts = {h1, h2, h3}
  Own = {o1}
  Subnets <- MCSubnets
  Macs = {m1, m2}
  NULL = NULL
  Size = 4
  NumReply = 2
  Refresh = 1
  Delete = 3
  Bytes = 4
  Addresses <- MCAddresses
  Ports = {13}
  Payloads <- MCPayloads
  Rests = {1, 15, 23}
  Ihl = 1
  Ttl = 2
  UDP = 3
  TCP = 1
  Other = 0
  NoFrame = NoFrame
INVARIANTS
  TypeOK
  LatestMac
  SilentHostExpires
  SentVerifies
  ForwardedVerifies
PROPERTIES
  FreshRecordKept
  AskedBeforeDelete
SYMMETRY Symmetry
