SPECIFICATION Spec
CONSTANTS
  Hosts = {h1, h2, h3}
  Own = {o1}
  Subnets <- MCSubnets
  Macs = {m1, m2}
  NULL = NULL
  Size = 3
  NumReply = 3
  Refresh = 1
  Delete = 3
PROPERTY CreatedRecordFound
SYMMETRY Symmetry
