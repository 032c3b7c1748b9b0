---------------------------- MODULE MCCastDaemon ----------------------------
EXTENDS CastDaemon, TLC
CONSTANTS s1, s2, r1, u1, u2, u3, p1, p2
Symmetry == Permutations(Sessions) \cup Permutations(UxPlays) \cup Permutations(Renders)

(* What decides the next steps, as a VIEW for the largest run: no step     *)
(* looks at health, at avail or at which state a thread is about to        *)
(* publish, and nobody looks at the socket of a session that is on its way *)
(* out: it is closed there, and the session's next one is another socket.  *)
Usable(s) == /\ sockOpen[s]
             /\ pc[s] \in {"opened", "connecting", "negotiating", "replacing", "starting",
                           "arming", "pumping"}
Decisive == <<state, {t \in Threads : told[t] # None}, threads, life, render, expected, tries,
              uxplay, activeSock, {s \in Sessions : Usable(s)}, wpc, fresh,
              IF sampled # None /\ Usable(sampled) THEN sampled ELSE None>>
=============================================================================
