CONSTANTS
  Nodes = {a, m}
  Exchanged = {a}
  Aliases = {x}
  Suffixes = {s1}
  Tokens = {k1}
  Handlers = {h1, h2}
  NoNode = NoNode
  MaxRows = 2
  MaxAdmin = 2
SPECIFICATION Spec
INVARIANTS OneCertificatePerToken 
PROPERTY AcceptedComesOnline
CHECK_DEADLOCK FALSE
