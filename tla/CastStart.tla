----------------------------- MODULE CastStart -----------------------------
(***************************************************************************)
(* castd coming up: CastDaemon.start() of castd/main.py on the main thread,*)
(* the GLib thread that delivers wpa_supplicant's signals, the sessions    *)
(* that are let in before and after start() is done, and systemd starting  *)
(* castd again when it is gone.  Where CastDaemon begins, start() is over. *)
(*                                                                         *)
(* Of a session only what start-up can disturb is kept: the transition,    *)
(* the UxPlay it stops and starts, the availability it publishes.          *)
(* Pipelines, AirPlay clients and crashes of UxPlay are in CastDaemon.     *)
(***************************************************************************)
EXTENDS CastArbiter, GroupOwner

CONSTANTS
  Sessions,
  MaxArrivals,   \* bound on the sources that ever arrive
  MaxFaults      \* bound on what goes wrong out of nothing

ASSUME StartAssumption ==
  {MaxGroups, MaxPins, MaxArrivals, MaxFaults} \subseteq Nat /\ MaxGroups >= 1

VARIABLES
  main,       \* where start() is; "down" when there is no castd
  glib,       \* where the GLib thread is; "off" before run_forever
  found,      \* the interface name each of the two threads has looked up
  wifi,       \* _wifi_credentials
  listening,  \* _rtsp_listener is not None
  uxplay,     \* self.uxplay: "none", "idle" (never started or stopped), "up"
  state,      \* arbiter.state
  pc, todo,   \* the session threads, as in CastDaemon
  arrivals, faults

start == <<main, glib, found>>
daemon == <<wifi, listening, uxplay>>
sessions == <<state, pc, todo>>
bounds == <<arrivals, faults>>
vars == <<supplicant, ies, bus, caches, network, start, daemon, sessions, bounds>>

MainPlaces == {"down", "probing", "configuring", "grouping", "naming", "serving", "listening",
               "reading", "creating", "looping", "starting", "joined"}
GlibPlaces == {"off", "idle", "naming", "serving", "listening", "reading"}
SessionPlaces == {"off", "authorized", "dialing", "opened", "connecting", "pumping", "closing",
                  "died", "aborted"}

NothingFound == [t \in {"main", "glib"} |-> 0]
NobodyThere == [s \in Sessions |-> "off"]
NothingToDo == [s \in Sessions |-> <<>>]

Init ==
  /\ GroupInit
  /\ main = "down" /\ glib = "off" /\ found = NothingFound
  /\ wifi = 0 /\ listening = FALSE /\ uxplay = "none"
  /\ state = "IDLE" /\ pc = NobodyThere /\ todo = NothingToDo
  /\ arrivals = 0 /\ faults = 0

(* The process exits, however far it was, and takes its threads along.     *)
Exit ==
  /\ CastdGone
  /\ main' = "down" /\ glib' = "off" /\ found' = NothingFound
  /\ wifi' = 0 /\ listening' = FALSE /\ uxplay' = "none"
  /\ state' = "IDLE" /\ pc' = NobodyThere /\ todo' = NothingToDo

Fault == faults < MaxFaults /\ faults' = faults + 1
-----------------------------------------------------------------------------
(* The main thread.                                                        *)

MainGoto(place) == main' = place /\ UNCHANGED <<glib, sessions>>

(* systemd starts castd; health endpoint, idle screen, READY=1.            *)
Begin ==
  /\ main = "down" /\ MainGoto("probing")
  /\ UNCHANGED <<supplicant, ies, bus, caches, network, found, daemon, bounds>>

(* P2PGroupOwner.__init__: the interface is known or created.              *)
Probe ==
  /\ main = "probing" /\ MainGoto("configuring")
  /\ subscribed' = TRUE
  /\ UNCHANGED <<supplicant, ies, signals, caches, network, found, daemon, bounds>>

ConfigureOnce ==
  /\ main = "configuring" /\ MainGoto("grouping")
  /\ IF ies = <<>> THEN PublishWfdIes(TRUE) ELSE UNCHANGED ies
  /\ UNCHANGED <<supplicant, bus, caches, network, found, daemon, bounds>>

Configure ==
  /\ main = "configuring" /\ MainGoto("grouping")
  /\ PublishWfdIes(TRUE)
  /\ UNCHANGED <<supplicant, bus, caches, network, found, daemon, bounds>>

AddAnotherGroup ==
  /\ main = "grouping" /\ group # 0
  /\ Exit /\ UNCHANGED bounds

SkipGroupAdd ==
  /\ main = "grouping" /\ group # 0 /\ MainGoto("naming")
  /\ UNCHANGED <<supplicant, ies, bus, caches, network, found, daemon, bounds>>

GroupAdd ==
  /\ main = "grouping" /\ group = 0 /\ MainGoto("naming")
  /\ NewGroup
  /\ UNCHANGED <<found, daemon, bounds>>

(* GroupAdd returns before there is an interface.                          *)
GroupAddIsLate ==
  /\ main = "grouping" /\ group = 0 /\ MainGoto("naming")
  /\ Fault
  /\ UNCHANGED <<supplicant, ies, bus, caches, network, found, daemon, arrivals>>

CreateUxPlay ==
  /\ main = "creating" /\ MainGoto("looping")
  /\ uxplay' = "idle"
  /\ UNCHANGED <<supplicant, ies, bus, caches, network, found, wifi, listening, bounds>>

RunForeverBeforeUxPlay ==
  /\ main = "creating"
  /\ main' = "starting" /\ glib' = "idle"
  /\ UNCHANGED <<supplicant, ies, bus, caches, network, found, daemon, sessions, bounds>>

RunForever ==
  /\ main = "looping"
  /\ main' = "starting" /\ glib' = "idle"
  /\ UNCHANGED <<supplicant, ies, bus, caches, network, found, daemon, sessions, bounds>>

StartUxPlay ==
  /\ main = "starting" /\ uxplay # "up" /\ MainGoto("joined")
  /\ uxplay' = "up"
  /\ UNCHANGED <<supplicant, ies, bus, caches, network, found, wifi, listening, bounds>>

(* A session that came and went has started it: RuntimeError ends castd.   *)
StartUxPlayRaises ==
  /\ main = "starting" /\ uxplay = "up"
  /\ Exit /\ UNCHANGED bounds

(* DBusException or RuntimeError of __init__, configure or GroupAdd.       *)
BringUpFails ==
  /\ main \in {"probing", "configuring"} \/ (main = "grouping" /\ group = 0)
  /\ Fault
  /\ Exit /\ UNCHANGED arrivals
-----------------------------------------------------------------------------
(* _ensure_group_services and the credentials, on either of two threads.   *)

At(t) == IF t = "main" THEN main ELSE glib

GotoOn(t, place) ==
  /\ IF t = "main" THEN main' = place /\ UNCHANGED glib ELSE glib' = place /\ UNCHANGED main
  /\ UNCHANGED sessions

(* An exception ends castd when it is the main thread's; in a signal       *)
(* handler it is logged by dbus-python.                                    *)
NameGroup(t) ==
  /\ At(t) = "naming" /\ group # 0
  /\ found' = [found EXCEPT ![t] = group]
  /\ GotoOn(t, "serving")
  /\ UNCHANGED <<supplicant, ies, bus, caches, network, daemon, bounds>>

NoGroup(t) ==
  /\ At(t) = "naming" /\ group = 0
  /\ \/ t = "main" /\ Exit
     \/ /\ t = "glib" /\ GotoOn(t, "idle")
        /\ UNCHANGED <<supplicant, ies, bus, caches, network, found, daemon>>
  /\ UNCHANGED bounds

StartNetwork(t) ==
  /\ At(t) = "serving"
  /\ NetworkStart(found[t])
  /\ GotoOn(t, "listening")
  /\ UNCHANGED <<supplicant, ies, bus, caches, found, daemon, bounds>>

StartNetworkRaises(t) ==
  /\ At(t) = "serving"
  /\ \/ t = "main" /\ ~Serving(found[t]) /\ found[t] # group /\ Exit
     \/ /\ t = "glib" /\ NetworkStartRaises(found[t]) /\ GotoOn(t, "idle")
        /\ UNCHANGED <<supplicant, ies, bus, caches, found, daemon>>
  /\ UNCHANGED bounds

Listen(t) ==
  /\ At(t) = "listening"
  /\ listening \/ address # 0
  /\ listening' = TRUE
  /\ GotoOn(t, "reading")
  /\ UNCHANGED <<supplicant, ies, bus, caches, network, found, wifi, uxplay, bounds>>

(* bind() needs SINK_IP on some interface.                                 *)
ListenRaises(t) ==
  /\ At(t) = "listening" /\ ~listening /\ address = 0
  /\ \/ t = "main" /\ Exit
     \/ /\ t = "glib" /\ GotoOn(t, "idle")
        /\ UNCHANGED <<supplicant, ies, bus, caches, network, found, daemon>>
  /\ UNCHANGED bounds

ReadWifi(t) ==
  /\ At(t) = "reading"
  /\ credentials' = GetGroupCredentials /\ wifi' = GetGroupCredentials
  /\ GotoOn(t, IF t = "main" THEN "creating" ELSE "idle")
  /\ UNCHANGED <<supplicant, ies, bus, ifacePath, network, found, listening, uxplay, bounds>>

Services(t) == \/ NameGroup(t) \/ NoGroup(t) \/ StartNetwork(t) \/ StartNetworkRaises(t)
               \/ Listen(t) \/ ListenRaises(t) \/ ReadWifi(t)

MainStep ==
  \/ Begin \/ Probe \/ Configure \/ SkipGroupAdd \/ GroupAdd
  \/ Services("main") \/ CreateUxPlay \/ RunForever \/ StartUxPlay \/ StartUxPlayRaises
-----------------------------------------------------------------------------
(* The GLib thread, one signal at a time.                                  *)

DeliverBeforeJoin(type) ==
  /\ main = "starting" /\ glib = "idle" /\ signals # <<>> /\ Head(signals).type = type
  /\ signals' = Tail(signals)
  /\ UNCHANGED <<ies, subscribed, network, main, found, daemon, bounds>>

Deliver(type) ==
  /\ glib = "idle" /\ signals # <<>> /\ Head(signals).type = type
  /\ signals' = Tail(signals)
  /\ UNCHANGED <<ies, subscribed, network, main, found, daemon, bounds>>

HandleGroupStarted ==
  /\ Deliver("GroupStarted")
  /\ CaptureGroup(Head(signals).of)
  /\ glib' = "naming"
  /\ UNCHANGED <<supplicant, sessions>>

(* Then the PIN is painted, armed or not.                                  *)
HandleDisplayPin ==
  /\ Deliver("DisplayPin")
  /\ AuthorizeDisplayPin(Head(signals).of)
  /\ UNCHANGED <<group, born, asked, pending, caches, glib, sessions>>

(* A station that finds no name free is beyond the bound on sessions.      *)
HandleStaAuthorized ==
  /\ Deliver("StaAuthorized")
  /\ \/ \E s \in Sessions : pc[s] = "off" /\ pc' = [pc EXCEPT ![s] = "authorized"]
     \/ (\A s \in Sessions : pc[s] # "off") /\ UNCHANGED pc
  /\ UNCHANGED <<supplicant, caches, glib, state, todo>>

GlibStep == HandleGroupStarted \/ HandleDisplayPin \/ HandleStaAuthorized \/ Services("glib")
-----------------------------------------------------------------------------
(* The session threads.                                                    *)

Goto(s, place) == pc' = [pc EXCEPT ![s] = place]

OnlySession == UNCHANGED <<supplicant, bus, caches, network, start, wifi, listening, bounds>>

NotAlreadyPresenting(s) ==
  /\ pc[s] = "authorized"
  /\ Goto(s, IF state = "MIRACAST" THEN "off" ELSE "dialing")
  /\ OnlySession /\ UNCHANGED <<ies, uxplay, state, todo>>

(* No lease in 20 s, or no RTSP server there; or a control connection.     *)
Dial(s) ==
  /\ pc[s] = "dialing"
  /\ Goto(s, "off") \/ Goto(s, "opened")
  /\ OnlySession /\ UNCHANGED <<ies, uxplay, state, todo>>

Handle(s, event) ==
  /\ state' = Transition(state, event).next
  /\ todo' = [todo EXCEPT ![s] = Transition(state, event).actions]

Connect(s) ==
  /\ pc[s] = "opened"
  /\ Handle(s, "MIRACAST_CONNECTED") /\ Goto(s, "connecting")
  /\ OnlySession /\ UNCHANGED <<ies, uxplay>>

(* The handshake fails or the source leaves: both end in the same report.  *)
Disconnect(s) ==
  /\ pc[s] = "pumping"
  /\ Handle(s, "MIRACAST_DISCONNECTED") /\ Goto(s, "closing")
  /\ OnlySession /\ UNCHANGED <<ies, uxplay>>

Pending(s, action) == /\ pc[s] \in {"connecting", "closing"} /\ todo[s] # <<>>
                      /\ Head(todo[s]) = action

Carried(s) == todo' = [todo EXCEPT ![s] = Tail(@)] /\ UNCHANGED pc

\* self.uxplay.stop(), self.uxplay.start()
TurnUxPlay(s) ==
  /\ \/ Pending(s, "PAUSE_AIRPLAY_ADVERTISING") /\ uxplay # "none" /\ uxplay' = "idle"
     \/ Pending(s, "RESUME_AIRPLAY_ADVERTISING") /\ uxplay = "idle" /\ uxplay' = "up"
  /\ Carried(s)
  /\ OnlySession /\ UNCHANGED <<ies, state>>

(* AttributeError: there is no self.uxplay yet.  Nobody catches it.        *)
PauseRaises(s) ==
  /\ Pending(s, "PAUSE_AIRPLAY_ADVERTISING") /\ uxplay = "none"
  /\ Goto(s, "died") /\ todo' = [todo EXCEPT ![s] = <<>>]
  /\ OnlySession /\ UNCHANGED <<ies, uxplay, state>>

(* RuntimeError: main has started it meanwhile.                            *)
ResumeRaises(s) ==
  /\ Pending(s, "RESUME_AIRPLAY_ADVERTISING") /\ uxplay = "up"
  /\ Goto(s, "aborted") /\ todo' = [todo EXCEPT ![s] = <<>>]
  /\ OnlySession /\ UNCHANGED <<ies, uxplay, state>>

SetSessionAvailable(s) ==
  /\ \/ Pending(s, "PAUSE_MIRACAST_DISCOVERY") /\ PublishWfdIes(FALSE)
     \/ Pending(s, "RESUME_MIRACAST_DISCOVERY") /\ PublishWfdIes(TRUE)
  /\ Carried(s)
  /\ OnlySession /\ UNCHANGED <<uxplay, state>>

StopPaintOrLog(s) ==
  /\ \E a \in {"STOP_RENDER_PIPELINE", "SHOW_IDLE_SCREEN", "LOG_REJECTED_CONNECTION"} :
       Pending(s, a)
  /\ Carried(s)
  /\ OnlySession /\ UNCHANGED <<ies, uxplay, state>>

Dispatched(s) ==
  /\ pc[s] \in {"connecting", "closing"} /\ todo[s] = <<>>
  /\ Goto(s, IF pc[s] = "connecting" THEN "pumping" ELSE "off")
  /\ OnlySession /\ UNCHANGED <<ies, uxplay, state, todo>>

SessionStep(s) ==
  \/ NotAlreadyPresenting(s) \/ Dial(s) \/ Connect(s)
  \/ TurnUxPlay(s) \/ PauseRaises(s) \/ ResumeRaises(s)
  \/ SetSessionAvailable(s) \/ StopPaintOrLog(s) \/ Dispatched(s)
-----------------------------------------------------------------------------
(* The environment.                                                        *)

Arrive == arrivals < MaxArrivals /\ arrivals' = arrivals + 1 /\ UNCHANGED faults

(* _accept_sources_loop: a peer dials port 7236.                           *)
Accept(s) ==
  /\ listening /\ pc[s] = "off" /\ Arrive
  /\ Goto(s, "opened")
  /\ UNCHANGED <<supplicant, ies, bus, caches, network, start, daemon, state, todo>>

StationAuthorized ==
  /\ group # 0 /\ subscribed /\ Arrive
  /\ Emit(StaAuthorized)
  /\ UNCHANGED <<supplicant, ies, subscribed, caches, network, start, daemon, sessions>>

(* Killed, by systemd's watchdog or by anything else.                      *)
Killed == main # "down" /\ Fault /\ Exit /\ UNCHANGED arrivals

Radio == /\ NewGroup \/ GroupEnds \/ AskPin
         /\ UNCHANGED <<start, daemon, sessions, bounds>>

Environment == \/ Radio \/ StationAuthorized \/ Killed \/ BringUpFails \/ GroupAddIsLate
               \/ \E s \in Sessions : Accept(s) \/ Disconnect(s)

Next == MainStep \/ GlibStep \/ (\E s \in Sessions : SessionStep(s)) \/ Environment

Spec == Init /\ [][Next]_vars

(* The three kinds of threads run; systemd starts castd again (Restart is  *)
(* "always"; its limit on starts is in Supervision).                       *)
FairSpec == /\ Spec /\ WF_vars(MainStep) /\ WF_vars(GlibStep)
            /\ \A s \in Sessions : WF_vars(SessionStep(s))
-----------------------------------------------------------------------------
(* Every variable has its type, and no signal is handled before everything *)
(* its handler uses is there.                                              *)
TypeOK ==
  /\ GroupTypeOK
  /\ main \in MainPlaces /\ glib \in GlibPlaces /\ found \in [{"main", "glib"} -> Groups]
  /\ wifi \in Groups /\ listening \in BOOLEAN /\ uxplay \in {"none", "idle", "up"}
  /\ state \in States /\ pc \in [Sessions -> SessionPlaces] /\ todo \in [Sessions -> Seq(Actions)]
  /\ arrivals \in 0 .. MaxArrivals /\ faults \in 0 .. MaxFaults
  /\ glib # "off" => main \in {"starting", "joined"} /\ uxplay # "none"

(* start() is over and every signal has been handled.                      *)
Settled == main = "joined" /\ glib = "idle" /\ signals = <<>>

(* Whatever the group did while castd came up or later, and whether castd  *)
(* made it or found it, a station that joins the live group finds a DHCP   *)
(* server and the sink's address there, and the listener is up.            *)
ServicesFollowGroup ==
  Settled /\ group # 0 => dnsmasq = group /\ address = group /\ listening

(* The Wi-Fi credentials castd hands out are those of the live group, not  *)
(* of one that is gone.                                                    *)
CredentialsFollowGroup ==
  Settled /\ group # 0 => wifi = group

(* The PIN a peer was last asked to enter is the one the live group's      *)
(* registrar accepts, however often the group was replaced before.         *)
RegistrarArmed ==
  Settled /\ pending # 0 => armed = pending

(* A settled castd in IDLE offers the room on both protocols, also after   *)
(* it was killed in the middle of a session that had taken the offer back. *)
(* One outcome is not excluded: a session that paused UxPlay before start()*)
(* started it again finds it running at RESUME_AIRPLAY_ADVERTISING, dies   *)
(* of the RuntimeError, and leaves the WFD IE saying busy in IDLE.  Then   *)
(* its thread is "aborted", and only the AirPlay half is claimed.          *)
RoomOffered ==
  /\ Settled /\ state = "IDLE"
  /\ \A s \in Sessions : pc[s] \notin {"connecting", "closing"}
  => /\ uxplay = "up"
     /\ Offered(ies) \/ \E s \in Sessions : pc[s] = "aborted"

(* A castd that is down comes up, when things stop going wrong.            *)
CastdComesUp == main = "down" ~> main = "joined"

(* A group that lives is served in the end, by the start-up that finds it  *)
(* or by the handler of its GroupStarted, unless it ends or castd does.    *)
GroupServed ==
  group # 0 /\ main # "down" ~>
    \/ group = 0 \/ main = "down"
    \/ dnsmasq = group /\ address = group /\ listening /\ wifi = group

(* The room is in MIRACAST only while a session is there to drive it back  *)
(* to IDLE (docstring of _run_source_session).  A source accepted before   *)
(* self.uxplay exists refutes it.                                          *)
SessionDrivesBack ==
  state = "MIRACAST" => \E s \in Sessions : pc[s] \in {"connecting", "pumping"}
=============================================================================
