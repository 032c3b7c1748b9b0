---------------------------- MODULE Arbitration ----------------------------
(***************************************************************************)
(* What castd's arbitration promises, without its threads, processes and   *)
(* sockets: a room with at most one owner protocol.  Actors join and       *)
(* leave; the first to join a free room takes it for its protocol, a join  *)
(* while somebody has the room changes nothing, and the room only changes  *)
(* hands through IDLE, by a departure of an actor of the owner protocol.   *)
(* (It is the protocol that owns the room, not the actor: the departure of *)
(* a second actor of that protocol frees it too.)                          *)
(***************************************************************************)
CONSTANTS Sources,   \* the Miracast actors
          Clients    \* the AirPlay actors, none of them a source

VARIABLES owner,     \* who has the room
          engaged    \* the actors that joined and have not left

vars == <<owner, engaged>>

Actors == Sources \cup Clients
Protocol(a) == IF a \in Sources THEN "MIRACAST" ELSE "AIRPLAY"

Init == owner = "IDLE" /\ engaged = {}

Join(a) == /\ a \notin engaged
           /\ engaged' = engaged \cup {a}
           /\ owner' = IF owner = "IDLE" THEN Protocol(a) ELSE owner

Leave(a) == /\ engaged' = engaged \ {a}
            /\ owner' = IF owner = Protocol(a) THEN "IDLE" ELSE owner

\* An AirPlay client can vanish with the UxPlay that served it: without a
\* word, or noticed by castd when it finds UxPlay gone.
Vanish(a) == /\ a \in Clients
             /\ engaged' = engaged \ {a}
             /\ UNCHANGED owner
Reclaim == /\ owner = "AIRPLAY"
           /\ owner' = "IDLE"
           /\ UNCHANGED engaged

Next == \/ \E a \in Actors : Join(a)
        \/ \E a \in engaged : Leave(a) \/ Vanish(a)
        \/ Reclaim

Spec == Init /\ [][Next]_vars
=============================================================================
