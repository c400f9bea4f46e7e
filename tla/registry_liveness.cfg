SPECIFICATION FairSpec
CONSTANTS
  Setter = {t1, t2}
  Server = {q1, q2}
  a = a
  b = b
  Uri = {a}
  Partial = {}
  Pattern = {}
  UnsignedModulus = 4
  Types = {"request", "websocket"}
  MaxSets = 2
  CallbackMayDecline = TRUE
  MaxHttp2 = 1
  AuthMayReject = FALSE
INVARIANT
  RequestCallbackUnused
PROPERTY
  RemovalCompletes
