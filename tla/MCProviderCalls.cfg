SPECIFICATION FairSpec
CONSTANTS
  k1 = k1  k2 = k2  m1 = m1  m2 = m2
  u1 = u1  u2 = u2  t1 = t1  t2 = t2
  Callers = {c1, c2}
  Kinds = {"compatible", "claude", "gemini"}
  Keys = {k1, k2}
  Models = {m1}
  Urls = {u1}
  Timeouts = {t1}
  FirstConf <- FirstValues
  MaxSets = 1
  Ops = {"chat_safe", "chat_stream", "chat_async", "embed"}
  Answers = {"reply", "status", "garbage", "silence"}
  None = None
INVARIANTS
  SerialUseIsSafe
PROPERTIES
  CallsReturn
