SPECIFICATION Spec
CONSTANTS
  k1 = k1  k2 = k2  m1 = m1  m2 = m2
  u1 = u1  u2 = u2  t1 = t1  t2 = t2
  Callers = {c1, c2}
  Kinds = {"openai"}
  Keys = {k1, k2}
  Models = {m1, m2}
  Urls = {u1, u2}
  Timeouts = {t1}
  FirstConf <- FirstValues
  MaxSets = 0
  Ops = {"chat"}
  Answers = {"reply"}
  None = None
INVARIANTS
  OwnConnection
