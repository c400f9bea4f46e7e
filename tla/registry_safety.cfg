SPECIFICATION Spec
CONSTANTS
  Setter = {t1, t2}
  Server = {q1, q2}
  a = a
  b = b
  Uri = {a, b}
  Partial <- MCPartial
  Pattern <- MCPattern
  UnsignedModulus = 4
  Types = {"request", "auth"}
  MaxSets = 2
  CallbackMayDecline = FALSE
  MaxHttp2 = 1
  AuthMayReject = TRUE
SYMMETRY ThreadSymmetry
INVARIANTS
  TypeOK
  RefcountExact
  RegistryConsistent
