--------------------------- MODULE ClientTracker ---------------------------
(***************************************************************************)
(* UxPlayClientTracker of castd/airplay/uxplay.py: what it makes of one    *)
(* line of UxPlay's output.  A line is what its three patterns tell apart. *)
(* CastDaemon keeps of the tracker only whether it counts a client, and    *)
(* lets every report flip that: the theorem is why it may.                 *)
(***************************************************************************)
EXTENDS Naturals, TLAPS

Lines == {"accepted", "closed", "server stopping", "other"}

\* self._open after feed(line).
Open(open, line) ==
  CASE line = "server stopping" -> 0
    [] line = "accepted" -> open + 1
    [] line = "closed" /\ open > 0 -> open - 1
    [] OTHER -> open

\* What feed(line) returns.
Report(open, line) ==
  CASE line = "server stopping" -> IF open > 0 THEN "disconnected" ELSE "None"
    [] line = "accepted" -> IF Open(open, line) = 1 THEN "connected" ELSE "None"
    [] line = "closed" /\ open > 0 -> IF Open(open, line) = 0 THEN "disconnected" ELSE "None"
    [] OTHER -> "None"

(* Whatever UxPlay prints, in whatever order and number, the count stays a *)
(* natural number and a report is made exactly when a client appears on an *)
(* empty tracker or the last one goes: reports alternate, and their last   *)
(* one tells whether a client is counted.                                  *)
THEOREM ReportsAreEdges ==
  ASSUME NEW open \in Nat, NEW line \in Lines
  PROVE  /\ Open(open, line) \in Nat
         /\ Report(open, line) = "connected" <=> open = 0 /\ Open(open, line) > 0
         /\ Report(open, line) = "disconnected" <=> open > 0 /\ Open(open, line) = 0
<1>1. CASE line = "server stopping"
  <2>1. Open(open, line) = 0
    BY <1>1 DEF Open
  <2>2. Report(open, line) = IF open > 0 THEN "disconnected" ELSE "None"
    BY <1>1 DEF Report
  <2> QED  BY <2>1, <2>2
<1>2. CASE line = "accepted"
  <2>1. Open(open, line) = open + 1
    BY <1>2 DEF Open
  <2>2. Report(open, line) = IF open + 1 = 1 THEN "connected" ELSE "None"
    BY <1>2, <2>1 DEF Report
  <2> QED  BY <2>1, <2>2
<1>3. CASE line = "closed" /\ open > 0
  <2>1. Open(open, line) = open - 1
    BY <1>3 DEF Open
  <2>2. Report(open, line) = IF open - 1 = 0 THEN "disconnected" ELSE "None"
    BY <1>3, <2>1 DEF Report
  <2> QED  BY <1>3, <2>1, <2>2
<1>4. CASE line = "other" \/ (line = "closed" /\ ~(open > 0))
  <2>1. Open(open, line) = open
    BY <1>4 DEF Open
  <2>2. Report(open, line) = "None"
    BY <1>4 DEF Report
  <2> QED  BY <2>1, <2>2
<1> QED
  BY <1>1, <1>2, <1>3, <1>4 DEF Lines
=============================================================================
