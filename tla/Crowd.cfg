SPECIFICATION Spec
CONSTANTS
  s1 = s1 s2 = s2 r1 = r1 u1 = u1 u2 = u2 u3 = u3 p1 = p1 p2 = p2
  None = None
  Sessions = {s1, s2}
  Recoveries = {}
  UxPlays = {u1}
  Renders = {p1}
  Retries = 1
  MaxUnread = 1
  Env = {"accept", "airplay", "dbusfail", "longtick"}
INVARIANTS Custody ActiveSockLive
PROPERTY ArbitrationKept
SYMMETRY Symmetry
VIEW Decisive
