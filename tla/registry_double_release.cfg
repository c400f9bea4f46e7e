SPECIFICATION Spec
CONSTANTS
  Setter = {t1, t2}
  Server = {q1, q2}
  a = a
  b = b
  Uri = {a}
  Partial = {}
  Pattern = {}
  UnsignedModulus = 4
  Types = {"request"}
  MaxSets = 2
  CallbackMayDecline = TRUE
  MaxHttp2 = 0
  AuthMayReject = TRUE
INVARIANTS
  RefcountExact
