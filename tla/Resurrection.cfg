SPECIFICATION Spec
CONSTANTS
  s1 = s1 s2 = s2 r1 = r1 u1 = u1 u2 = u2 u3 = u3 p1 = p1 p2 = p2
  None = None
  Sessions = {s1}
  Recoveries = {r1}
  UxPlays = {u1}
  Renders = {p1, p2}
  Retries = 1
  MaxUnread = 0
  Env = {"authorize"}
INVARIANT DisplayReleased
