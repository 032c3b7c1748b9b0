---------------------------- MODULE CastArbiter ----------------------------
(***************************************************************************)
(* The arbitration table of castd/fsm/state_machine.py: pure data, no      *)
(* variables.  Transition(st, ev) is what CastArbiter.handle returns for   *)
(* the event ev in the state st: the next state, and the actions the       *)
(* caller must then carry out, in order and outside the lock.              *)
(* WATCHDOG_TIMEOUT is in the table, but no code outside the tests sends   *)
(* it.  A definition whose name says what was forgotten is a mutant: no    *)
(* specification uses it, it shows that a property would notice.           *)
(***************************************************************************)
EXTENDS Sequences

States == {"IDLE", "MIRACAST", "AIRPLAY"}

Events == {"MIRACAST_CONNECTED", "MIRACAST_DISCONNECTED",
           "AIRPLAY_CONNECTED", "AIRPLAY_DISCONNECTED", "WATCHDOG_TIMEOUT"}

Actions == {"SHOW_IDLE_SCREEN", "STOP_RENDER_PIPELINE",
            "PAUSE_AIRPLAY_ADVERTISING", "RESUME_AIRPLAY_ADVERTISING",
            "PAUSE_MIRACAST_DISCOVERY", "RESUME_MIRACAST_DISCOVERY",
            "FORCE_TEARDOWN_MIRACAST", "FORCE_TEARDOWN_AIRPLAY",
            "LOG_REJECTED_CONNECTION"}

To(next, actions) == [next |-> next, actions |-> actions]

EnterMiracastBusyForgotten == <<"PAUSE_AIRPLAY_ADVERTISING">>
EnterMiracast == <<"PAUSE_AIRPLAY_ADVERTISING", "PAUSE_MIRACAST_DISCOVERY">>

EnterAirPlayBusyForgotten == <<"STOP_RENDER_PIPELINE">>
EnterAirPlay == <<"PAUSE_MIRACAST_DISCOVERY", "STOP_RENDER_PIPELINE">>

LeaveMiracastMute == <<"STOP_RENDER_PIPELINE", "RESUME_MIRACAST_DISCOVERY", "SHOW_IDLE_SCREEN">>
LeaveMiracast == <<"STOP_RENDER_PIPELINE", "RESUME_AIRPLAY_ADVERTISING",
                   "RESUME_MIRACAST_DISCOVERY", "SHOW_IDLE_SCREEN">>

LeaveAirPlay == <<"STOP_RENDER_PIPELINE", "RESUME_MIRACAST_DISCOVERY", "SHOW_IDLE_SCREEN">>

\* A pair that is not in the table: stay put, and log.
RejectedTakesOver(st) == To(IF st = "AIRPLAY" THEN "MIRACAST" ELSE st, EnterMiracast)
Rejected(st) == To(st, <<"LOG_REJECTED_CONNECTION">>)

Transition(st, ev) ==
  CASE st = "IDLE" /\ ev = "MIRACAST_CONNECTED" -> To("MIRACAST", EnterMiracast)
    [] st = "IDLE" /\ ev = "AIRPLAY_CONNECTED" -> To("AIRPLAY", EnterAirPlay)
    [] st = "MIRACAST" /\ ev = "MIRACAST_DISCONNECTED" -> To("IDLE", LeaveMiracast)
    [] st = "MIRACAST" /\ ev = "WATCHDOG_TIMEOUT" ->
         To("IDLE", <<"FORCE_TEARDOWN_MIRACAST">> \o LeaveMiracast)
    [] st = "AIRPLAY" /\ ev = "AIRPLAY_DISCONNECTED" -> To("IDLE", LeaveAirPlay)
    [] st = "AIRPLAY" /\ ev = "WATCHDOG_TIMEOUT" ->
         To("IDLE", <<"FORCE_TEARDOWN_AIRPLAY">> \o LeaveAirPlay)
    [] OTHER -> Rejected(st)
=============================================================================
