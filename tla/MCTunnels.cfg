SPECIFICATION Spec
CONSTANTS
  Requests = {r1, r2, r3}
  Insts = {i1, i2}
  Users = {u}
  Own = {own}
  Third = {third}
  Direct = {direct}
  Segment = {1, 2}
  Local = {own}
  LocalPorts = {1, 2}
  GamePort <- MCGamePort
  MaxQuota = 2
  MaxWant = 2
  Serial = TRUE
SYMMETRY Symmetry
 
INVARIANT NodeAgreesWithTable
CHECK_DEADLOCK FALSE
