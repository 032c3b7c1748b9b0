----------------------------- MODULE CastDaemon -----------------------------
(***************************************************************************)
(* The running castd (castd/main.py) with the child processes it starts    *)
(* and stops.  Its threads share the arbiter, the render process, the      *)
(* UxPlay process, the control socket of the session in progress and the   *)
(* flag _render_pipeline_expected; only the arbiter is under a lock, and   *)
(* only while it computes a transition.  The threads are                   *)
(*                                                                         *)
(*   Sessions    one thread per Miracast source, dialled after             *)
(*               StaAuthorized or accepted on port 7236                    *)
(*   Recoveries  cold-start recovery threads, one per started pipeline     *)
(*   UxPlays     the output pump of one UxPlay instance (a member is both  *)
(*               the process and its pump thread)                          *)
(*   the stream watch thread, whose place in the code is wpc               *)
(*                                                                         *)
(* The state starts where CastDaemon.start() ends: the group is up, UxPlay *)
(* is running and nobody is presenting.  A step ends where a thread can    *)
(* block (a socket, a child, a timeout) and between two accesses to shared *)
(* variables, with these exceptions, all of adjacent statements: is_running*)
(* and the two start()s that begin with it, the test of _proc and the      *)
(* terminate() at the head of a stop(), the clean-up at its end, and the   *)
(* three reads before a re-roll are one step each.                         *)
(***************************************************************************)
EXTENDS CastArbiter, Naturals, FiniteSets

CONSTANTS
  Sessions, Recoveries, UxPlays,
  Renders,      \* the gst-launch processes: a name is reused once it is dead
  None,         \* Python's None
  Retries,      \* RENDER_COLD_START_RETRIES
  MaxUnread,    \* bound on the lines UxPlay has printed and nobody has read
  Env           \* what the environment may do

EnvEvents == {"authorize",    \* wpa_supplicant reports StaAuthorized
              "accept",       \* a peer connects to port 7236
              "airplay",      \* an AirPlay client comes or goes
              "frame",        \* the first decoded frame reaches kmssink
              "stall",        \* the group interface stops receiving
              "rendercrash",  \* gst-launch exits on its own
              "uxcrash",      \* uxplay exits on its own
              "spawnfail",    \* Popen raises OSError for gst-launch
              "dbusfail",     \* publishing the WFD IE raises DBusException
              "lateexit",     \* poll() misses a UxPlay that has just exited
              "longtick"}     \* a tick of the watch outlasts a handshake

Threads == Sessions \cup Recoveries \cup UxPlays
Children == Renders \cup UxPlays

ASSUME ThreadsAssumption ==
  /\ Sessions \cap Recoveries = {} /\ Sessions \cap UxPlays = {}
  /\ Recoveries \cap UxPlays = {} /\ Renders \cap UxPlays = {}
ASSUME NoneAssumption == None \notin Sessions \cup Renders \cup UxPlays \cup States
ASSUME BoundsAssumption == Retries \in Nat \ {0} /\ MaxUnread \in Nat /\ Env \subseteq EnvEvents
ASSUME UxPlayAssumption == UxPlays # {}

VARIABLES
  state,       \* arbiter.state
  health,      \* the state /health reports
  told,        \* the state a thread has read and not yet told health
  avail,       \* the WFD IE says "available for session"
  pc,          \* where each thread is
  todo,        \* the actions its _apply_actions still has to carry out
  waitFor,     \* the child its stop() has terminated and waits for
  life,        \* each child: "up", "term" (signalled) or "dead"
  proc,        \* render._proc
  firstFrame,  \* render._first_frame
  expected,    \* _render_pipeline_expected
  tries,       \* the re-rolls of each recovery thread
  uxProc,      \* uxplay._proc
  expectExit,  \* uxplay._expect_exit
  unread,      \* the lines in each UxPlay's pipe
  tracked,     \* its pump's tracker counts a client
  activeSock,  \* _active_control_sock, named by its session
  sockOpen,    \* each session's control socket is not closed
  wpc,         \* where the stream watch thread is
  sampled,     \* the socket it is about to close
  fresh        \* history: the sessions that connected during its tick, if it is short

arbitration == <<state, health, told, avail>>
threads == <<pc, todo, waitFor>>
render == <<proc, firstFrame>>
uxplay == <<uxProc, expectExit, unread, tracked>>
control == <<activeSock, sockOpen>>
watch == <<wpc, sampled, fresh>>
vars == <<arbitration, threads, life, render, expected, tries, uxplay, control, watch>>

-----------------------------------------------------------------------------
(* The places where a thread runs _apply_actions, and where it goes next.  *)

Dispatching == {"connecting", "closing", "greeting", "parting", "mourning"}

AfterDispatch(place) ==
  CASE place = "connecting" -> "negotiating"
    [] place = "closing" -> "leaving"
    [] place \in {"greeting", "parting"} -> "reading"
    [] place = "mourning" -> "relaunching"

SessionPlaces == {"off", "dialing", "opened", "connecting", "negotiating", "replacing",
                  "starting", "arming", "pumping", "disconnecting", "closing", "leaving",
                  "died", "aborted"}
RecoveryPlaces == {"off", "waiting", "checking", "lowering", "rolling", "rechecking",
                   "rerolling", "rearming"}
UxPlayPlaces == {"off", "reading", "greeting", "parting", "exited", "bereaved", "mourning",
                 "relaunching", "sleeping", "died"}
WatchPlaces == {"asleep", "lowering", "gate", "alive", "trip", "tripDead", "closing",
                "closingDead"}

(* What the table asks of a UxPlay pump; only sessions resume AirPlay.     *)
PumpActions == Actions \ {"RESUME_AIRPLAY_ADVERTISING"}

(* Between its MIRACAST_CONNECTED and its MIRACAST_DISCONNECTED.  A thread *)
(* that died of an exception in between never sends the second; one that   *)
(* died of an exception after it is "aborted".  Neither name is reused.    *)
HoldingPlaces == {"connecting", "negotiating", "replacing", "starting", "arming",
                  "pumping", "disconnecting", "died"}

(* is_running: a signalled child still counts until it is dead.            *)
IsRunning(p) == p # None /\ life[p] # "dead"

Init ==
  /\ state = "IDLE" /\ health = "IDLE" /\ avail = TRUE
  /\ told = [t \in Threads |-> None]
  /\ \E u \in UxPlays :
       /\ uxProc = u
       /\ life = [c \in Children |-> IF c = u THEN "up" ELSE "dead"]
       /\ pc = [t \in Threads |-> IF t = u THEN "reading" ELSE "off"]
  /\ todo = [t \in Threads |-> <<>>]
  /\ waitFor = [t \in Threads |-> None]
  /\ proc = None /\ firstFrame = FALSE /\ expected = FALSE
  /\ tries = [r \in Recoveries |-> 0]
  /\ expectExit = FALSE
  /\ unread = [u \in UxPlays |-> 0] /\ tracked = [u \in UxPlays |-> FALSE]
  /\ activeSock = None /\ sockOpen = [s \in Sessions |-> FALSE]
  /\ wpc = "asleep" /\ sampled = None /\ fresh = {}

Goto(t, place) == pc' = [pc EXCEPT ![t] = place]

(* with self._lock: transition = self.arbiter.handle(event)                *)
Handle(t, event) ==
  /\ state' = Transition(state, event).next
  /\ todo' = [todo EXCEPT ![t] = Transition(state, event).actions]
  /\ UNCHANGED <<health, told, avail>>

-----------------------------------------------------------------------------
(* _apply_actions, one action of the list at a time.                       *)

Pending(t, action) == /\ pc[t] \in Dispatching
                      /\ todo[t] # <<>>
                      /\ Head(todo[t]) = action

Carried(t) == todo' = [todo EXCEPT ![t] = Tail(@)]

(* A thread about to call, or inside, render.stop().                       *)
StoppingRender(t) == \/ Pending(t, "STOP_RENDER_PIPELINE")
                     \/ pc[t] \in {"replacing", "rolling"}

AfterStop(t) ==
  \/ pc[t] \in Dispatching /\ Carried(t) /\ UNCHANGED pc
  \/ pc[t] = "replacing" /\ Goto(t, "starting") /\ UNCHANGED todo
  \/ pc[t] = "rolling" /\ Goto(t, "rechecking") /\ UNCHANGED todo

Terminate(t, c) ==
  /\ waitFor' = [waitFor EXCEPT ![t] = c]
  /\ life' = [life EXCEPT ![c] = IF @ = "up" THEN "term" ELSE @]

(* stop() reads _proc again to wait for it and, three seconds later, to    *)
(* kill it: it goes over to a pipeline that has taken the place meanwhile. *)
RenderStop(t) ==
  /\ StoppingRender(t) /\ proc \notin {None, waitFor[t]}
  /\ Terminate(t, proc)
  /\ UNCHANGED <<arbitration, pc, todo, render, expected, tries, uxplay, control, watch>>

RenderStopNothing(t) ==
  /\ StoppingRender(t) /\ waitFor[t] = None /\ proc = None
  /\ AfterStop(t)
  /\ UNCHANGED <<arbitration, waitFor, life, render, expected, tries, uxplay, control, watch>>

(* The wait returned: _proc is dropped whatever it holds by now.           *)
RenderStopped(t) ==
  /\ StoppingRender(t) /\ waitFor[t] \in Renders /\ life[waitFor[t]] = "dead"
  /\ proc' = None /\ firstFrame' = FALSE
  /\ waitFor' = [waitFor EXCEPT ![t] = None]
  /\ AfterStop(t)
  /\ UNCHANGED <<arbitration, life, expected, tries, uxplay, control, watch>>

(* A thread that an exception ends: nobody catches it.  A session goes     *)
(* through the finally and, unless it has reported MIRACAST_DISCONNECTED   *)
(* already, never will.                                                    *)
Raise(t) ==
  /\ todo' = [todo EXCEPT ![t] = <<>>]
  /\ waitFor' = [waitFor EXCEPT ![t] = None]
  /\ Goto(t, IF t \in Recoveries THEN "off" ELSE IF pc[t] = "closing" THEN "aborted" ELSE "died")
  /\ IF t \in Sessions
       THEN activeSock' = None /\ sockOpen' = [s \in Sessions |-> sockOpen[s] /\ s # t]
       ELSE UNCHANGED control

(* AttributeError: another stop() has set _proc to None between two reads. *)
RenderStopRaises(t) ==
  /\ StoppingRender(t) /\ waitFor[t] \in Renders /\ proc = None
  /\ Raise(t)
  /\ UNCHANGED <<arbitration, life, render, expected, tries, uxplay, watch>>

PauseAirPlay(t) ==
  /\ Pending(t, "PAUSE_AIRPLAY_ADVERTISING")
  /\ \/ /\ uxProc = None /\ waitFor[t] = None
        /\ Carried(t)
        /\ UNCHANGED <<waitFor, life, expectExit>>
     \/ /\ uxProc \notin {None, waitFor[t]}
        /\ expectExit' = (expectExit \/ waitFor[t] = None)
        /\ Terminate(t, uxProc)
        /\ UNCHANGED todo
  /\ UNCHANGED <<arbitration, pc, render, expected, tries, uxProc, unread, tracked, control, watch>>

AirPlayPaused(t) ==
  /\ Pending(t, "PAUSE_AIRPLAY_ADVERTISING")
  /\ waitFor[t] \in UxPlays /\ life[waitFor[t]] = "dead"
  /\ uxProc' = None
  /\ waitFor' = [waitFor EXCEPT ![t] = None]
  /\ Carried(t)
  /\ UNCHANGED <<arbitration, pc, life, render, expected, tries, expectExit, unread, tracked,
                 control, watch>>

PauseAirPlayRaises(t) ==
  /\ Pending(t, "PAUSE_AIRPLAY_ADVERTISING") /\ waitFor[t] \in UxPlays /\ uxProc = None
  /\ Raise(t)
  /\ UNCHANGED <<arbitration, life, render, expected, tries, uxplay, watch>>

(* Where another stop() drops _proc while this one waits, either.           *)
PauseAirPlayEnds(t) ==
  \E raises \in {FALSE, uxProc = None} :
    IF raises THEN PauseAirPlayRaises(t) ELSE AirPlayPaused(t)

(* A child whose name can be given to a new process.                       *)
Free(c) == /\ life[c] = "dead" /\ c \notin {proc, uxProc}
           /\ \A t \in Threads : waitFor[t] # c
FreeUxPlay(u) == Free(u) /\ pc[u] = "off"

(* UxPlayProcess.start() past its is_running check: the new process is v,  *)
(* its pump thread starts with an empty tracker; places is the rest of pc. *)
LaunchUxPlay(v, places) ==
  /\ uxProc' = v /\ expectExit' = FALSE
  /\ life' = [life EXCEPT ![v] = "up"]
  /\ pc' = [places EXCEPT ![v] = "reading"]
  /\ unread' = [unread EXCEPT ![v] = 0]
  /\ tracked' = [tracked EXCEPT ![v] = FALSE]

ResumeAirPlay(t) ==
  /\ Pending(t, "RESUME_AIRPLAY_ADVERTISING")
  /\ ~IsRunning(uxProc)
  /\ \E v \in UxPlays : FreeUxPlay(v) /\ LaunchUxPlay(v, pc)
  /\ Carried(t)
  /\ UNCHANGED <<arbitration, waitFor, render, expected, tries, control, watch>>

(* start() raises RuntimeError: the rest of the list is never carried out, *)
(* and the session thread dies through the finally.                        *)
ResumeAirPlayRaises(t) ==
  /\ Pending(t, "RESUME_AIRPLAY_ADVERTISING")
  /\ IsRunning(uxProc)
  /\ Raise(t)
  /\ UNCHANGED <<arbitration, life, render, expected, tries, uxplay, watch>>

(* set_session_available swallows the DBusException of a failed publish.   *)
SetSessionAvailable(t) ==
  /\ \/ Pending(t, "PAUSE_MIRACAST_DISCOVERY") /\ avail' = FALSE
     \/ Pending(t, "RESUME_MIRACAST_DISCOVERY") /\ avail' = TRUE
     \/ /\ "dbusfail" \in Env
        /\ \/ Pending(t, "PAUSE_MIRACAST_DISCOVERY")
           \/ Pending(t, "RESUME_MIRACAST_DISCOVERY")
        /\ avail' = avail
  /\ Carried(t)
  /\ UNCHANGED <<state, health, told, pc, waitFor, life, render, expected, tries, uxplay, control,
                 watch>>

(* Painting the framebuffer and logging change nothing modelled here.      *)
PaintOrLog(t) ==
  /\ \E a \in {"SHOW_IDLE_SCREEN", "LOG_REJECTED_CONNECTION",
               "FORCE_TEARDOWN_MIRACAST", "FORCE_TEARDOWN_AIRPLAY"} : Pending(t, a)
  /\ Carried(t)
  /\ UNCHANGED <<arbitration, pc, waitFor, life, render, expected, tries, uxplay, control, watch>>

(* health.set_state(arbiter.state): the state is read, then handed over.   *)
ReadState(t) ==
  /\ pc[t] \in Dispatching /\ todo[t] = <<>> /\ told[t] = None
  /\ told' = [told EXCEPT ![t] = state]
  /\ UNCHANGED <<state, health, avail, threads, life, render, expected, tries, uxplay, control,
                 watch>>

PublishHealth(t) ==
  /\ pc[t] \in Dispatching /\ todo[t] = <<>> /\ told[t] # None
  /\ health' = told[t] /\ told' = [told EXCEPT ![t] = None]
  /\ Goto(t, AfterDispatch(pc[t]))
  /\ UNCHANGED <<state, avail, todo, waitFor, life, render, expected, tries, uxplay, control,
                 watch>>

StopRender(t) == RenderStop(t) \/ RenderStopNothing(t) \/ RenderStopped(t) \/ RenderStopRaises(t)

Dispatch(t) == \/ StopRender(t)
               \/ PauseAirPlay(t) \/ PauseAirPlayEnds(t)
               \/ ResumeAirPlay(t) \/ ResumeAirPlayRaises(t)
               \/ SetSessionAvailable(t) \/ PaintOrLog(t)
               \/ ReadState(t) \/ PublishHealth(t)
-----------------------------------------------------------------------------
(* A Miracast session thread.                                              *)

Authorize(s) ==
  /\ "authorize" \in Env /\ pc[s] = "off" /\ state # "MIRACAST"
  /\ Goto(s, "dialing")
  /\ UNCHANGED <<arbitration, todo, waitFor, life, render, expected, tries, uxplay, control, watch>>

(* No lease within 20 s, or no RTSP server there: a legacy client.         *)
DialFails(s) ==
  /\ pc[s] = "dialing"
  /\ Goto(s, "off")
  /\ UNCHANGED <<arbitration, todo, waitFor, life, render, expected, tries, uxplay, control, watch>>

(* _run_source_session: the socket becomes the active one, unconditionally.*)
Open(s) ==
  /\ \/ pc[s] = "dialing"
     \/ pc[s] = "off" /\ "accept" \in Env
  /\ activeSock' = s /\ sockOpen' = [sockOpen EXCEPT ![s] = TRUE]
  /\ sampled' = (IF sampled = s THEN None ELSE sampled)   \* that was an older socket
  /\ Goto(s, "opened")
  /\ UNCHANGED <<arbitration, todo, waitFor, life, render, expected, tries, uxplay, wpc, fresh>>

(* The transition may be a rejection: its caller does not look.            *)
Connect(s) ==
  /\ pc[s] = "opened"
  /\ Handle(s, "MIRACAST_CONNECTED")
  /\ Goto(s, "connecting")
  /\ fresh' = (IF wpc = "asleep" \/ "longtick" \in Env THEN fresh ELSE fresh \cup {s})
  /\ UNCHANGED <<waitFor, life, render, expected, tries, uxplay, control, wpc, sampled>>

(* A handshake takes a second or more, a tick of the stream watch a few    *)
(* statements: without "longtick" the one does not fit into the other.     *)
Negotiated(s) ==
  /\ pc[s] = "negotiating" /\ sockOpen[s]
  /\ s \notin fresh
  /\ Goto(s, "replacing")
  /\ UNCHANGED <<arbitration, todo, waitFor, life, render, expected, tries, uxplay, control, watch>>

NegotiationFailsQuietly(s) ==
  /\ pc[s] = "negotiating"
  /\ Goto(s, "leaving")
  /\ UNCHANGED <<arbitration, todo, waitFor, life, render, expected, tries, uxplay, control, watch>>

(* NegotiationError, the 15 s timeout, or a socket somebody has closed.    *)
NegotiationFails(s) ==
  /\ pc[s] = "negotiating"
  /\ Goto(s, "disconnecting")
  /\ UNCHANGED <<arbitration, todo, waitFor, life, render, expected, tries, uxplay, control, watch>>

Spawn(p) ==
  /\ ~IsRunning(proc) /\ Free(p)
  /\ proc' = p /\ life' = [life EXCEPT ![p] = "up"] /\ firstFrame' = FALSE

StartRender(s) ==
  /\ pc[s] = "starting"
  /\ \E p \in Renders : Spawn(p)
  /\ Goto(s, "arming")
  /\ UNCHANGED <<arbitration, todo, waitFor, expected, tries, uxplay, control, watch>>

StartRenderFails(s) ==
  /\ pc[s] = "starting" /\ ~IsRunning(proc) /\ "spawnfail" \in Env
  /\ Goto(s, "disconnecting")
  /\ UNCHANGED <<arbitration, todo, waitFor, life, render, expected, tries, uxplay, control, watch>>

(* RuntimeError is not caught: the thread dies through the finally.        *)
StartRenderRaises(s) ==
  /\ pc[s] = "starting" /\ IsRunning(proc)
  /\ Goto(s, "died")
  /\ activeSock' = None /\ sockOpen' = [sockOpen EXCEPT ![s] = FALSE]
  /\ UNCHANGED <<arbitration, todo, waitFor, life, render, expected, tries, uxplay, watch>>

(* The session starts a recovery thread; Recoveries bounds how many live.  *)
Arm(s) ==
  /\ pc[s] = "arming"
  /\ expected' = TRUE
  /\ \/ \E r \in Recoveries :
          /\ pc[r] = "off"
          /\ pc' = [pc EXCEPT ![s] = "pumping", ![r] = "waiting"]
          /\ tries' = [tries EXCEPT ![r] = 0]
     \/ /\ \A r \in Recoveries : pc[r] # "off"
        /\ Goto(s, "pumping") /\ UNCHANGED tries
  /\ UNCHANGED <<arbitration, todo, waitFor, life, render, uxplay, control, watch>>

(* Teardown, a closed connection or 60 s of silence; or the socket that    *)
(* the stream watchdog closed.  run_steady_state returns, sock.close().    *)
EndPump(s) ==
  /\ pc[s] = "pumping"
  /\ sockOpen' = [sockOpen EXCEPT ![s] = FALSE]
  /\ Goto(s, "disconnecting")
  /\ UNCHANGED <<arbitration, todo, waitFor, life, render, expected, tries, uxplay, activeSock,
                 watch>>

SourceLeaves(s) == sockOpen[s] /\ EndPump(s)
NoticeClosed(s) == ~sockOpen[s] /\ EndPump(s)

Disconnect(s) ==
  /\ pc[s] = "disconnecting"
  /\ Handle(s, "MIRACAST_DISCONNECTED")
  /\ Goto(s, "closing")
  /\ UNCHANGED <<waitFor, life, render, expected, tries, uxplay, control, watch>>

LeaveDangling(s) ==
  /\ pc[s] = "leaving"
  /\ sockOpen' = [sockOpen EXCEPT ![s] = FALSE]
  /\ Goto(s, "off")
  /\ UNCHANGED <<arbitration, todo, waitFor, life, render, expected, tries, uxplay, activeSock,
                 watch>>

(* The finally of _run_source_session.                                     *)
Leave(s) ==
  /\ pc[s] = "leaving"
  /\ activeSock' = None /\ sockOpen' = [sockOpen EXCEPT ![s] = FALSE]
  /\ Goto(s, "off")
  /\ UNCHANGED <<arbitration, todo, waitFor, life, render, expected, tries, uxplay, watch>>

Arrive(s) == Authorize(s) \/ (pc[s] = "off" /\ Open(s))

SessionStep(s) ==
  \/ DialFails(s) \/ (pc[s] = "dialing" /\ Open(s))
  \/ Connect(s) \/ Negotiated(s) \/ NegotiationFails(s)
  \/ StartRender(s) \/ StartRenderFails(s) \/ StartRenderRaises(s) \/ Arm(s)
  \/ NoticeClosed(s) \/ Disconnect(s) \/ Leave(s)
  \/ Dispatch(s)
-----------------------------------------------------------------------------
(* A cold-start recovery thread.                                           *)

RecoveryWait(r) ==
  /\ pc[r] = "waiting"
  /\ Goto(r, IF firstFrame THEN "off" ELSE "checking")
  /\ UNCHANGED <<arbitration, todo, waitFor, life, render, expected, tries, uxplay, control, watch>>

RecoveryCheck(r) ==
  /\ pc[r] = "checking"
  /\ Goto(r, IF state = "MIRACAST" /\ expected /\ IsRunning(proc)
             THEN "lowering" ELSE "off")
  /\ UNCHANGED <<arbitration, todo, waitFor, life, render, expected, tries, uxplay, control, watch>>

RecoveryLower(r) ==
  /\ pc[r] = "lowering"
  /\ expected' = FALSE
  /\ Goto(r, "rolling")
  /\ UNCHANGED <<arbitration, todo, waitFor, life, render, tries, uxplay, control, watch>>

RecoveryRecheck(r) ==
  /\ pc[r] = "rechecking"
  /\ Goto(r, IF state = "MIRACAST" THEN "rerolling" ELSE "off")
  /\ UNCHANGED <<arbitration, todo, waitFor, life, render, expected, tries, uxplay, control, watch>>

RecoveryStart(r) ==
  /\ pc[r] = "rerolling"
  /\ \E p \in Renders : Spawn(p)
  /\ Goto(r, "rearming")
  /\ UNCHANGED <<arbitration, todo, waitFor, expected, tries, uxplay, control, watch>>

(* RuntimeError, or OSError from Popen: nobody catches it in this thread.  *)
RecoveryStartRaises(r) ==
  /\ pc[r] = "rerolling"
  /\ IsRunning(proc) \/ "spawnfail" \in Env
  /\ Goto(r, "off")
  /\ UNCHANGED <<arbitration, todo, waitFor, life, render, expected, tries, uxplay, control, watch>>

AnotherTryOffByOne(r) == tries[r] < Retries
AnotherTry(r) == tries[r] + 1 < Retries

RecoveryRearmGateless(r) ==
  /\ pc[r] = "rearming"
  /\ tries' = [tries EXCEPT ![r] = @ + 1]
  /\ Goto(r, IF AnotherTry(r) THEN "waiting" ELSE "off")
  /\ UNCHANGED <<arbitration, todo, waitFor, life, render, expected, uxplay, control, watch>>

RecoveryRearm(r) ==
  /\ pc[r] = "rearming"
  /\ expected' = TRUE
  /\ tries' = [tries EXCEPT ![r] = @ + 1]
  /\ Goto(r, IF AnotherTry(r) THEN "waiting" ELSE "off")
  /\ UNCHANGED <<arbitration, todo, waitFor, life, render, uxplay, control, watch>>

RecoveryStep(r) ==
  \/ RecoveryWait(r) \/ RecoveryCheck(r) \/ RecoveryLower(r)
  \/ StopRender(r)
  \/ RecoveryRecheck(r) \/ RecoveryStart(r) \/ RecoveryStartRaises(r) \/ RecoveryRearm(r)
-----------------------------------------------------------------------------
(* The output pump of one UxPlay instance.  A line is an edge that the     *)
(* client tracker reports, from no client to some or back: these alternate,*)
(* so a counter of unread lines says which is next.                        *)

ReadLine(u) ==
  /\ pc[u] = "reading" /\ unread[u] > 0
  /\ unread' = [unread EXCEPT ![u] = @ - 1]
  /\ tracked' = [tracked EXCEPT ![u] = ~@]
  /\ Handle(u, IF tracked[u] THEN "AIRPLAY_DISCONNECTED" ELSE "AIRPLAY_CONNECTED")
  /\ Goto(u, IF tracked[u] THEN "parting" ELSE "greeting")
  /\ UNCHANGED <<waitFor, life, render, expected, tries, uxProc, expectExit, control, watch>>

EndOfOutputUnnoticed(u) ==
  /\ pc[u] = "reading" /\ unread[u] = 0 /\ life[u] = "dead"
  /\ Goto(u, "off")
  /\ UNCHANGED <<arbitration, todo, waitFor, life, render, expected, tries, uxplay, control, watch>>

EndOfOutput(u) ==
  /\ pc[u] = "reading" /\ unread[u] = 0 /\ life[u] = "dead"
  /\ Goto(u, IF expectExit THEN "off" ELSE "exited")
  /\ UNCHANGED <<arbitration, todo, waitFor, life, render, expected, tries, uxplay, control, watch>>

(* _on_uxplay_exited looks at the state without the lock.                  *)
Exited(u) ==
  /\ pc[u] = "exited"
  /\ Goto(u, IF state = "AIRPLAY" THEN "bereaved" ELSE "relaunching")
  /\ UNCHANGED <<arbitration, todo, waitFor, life, render, expected, tries, uxplay, control, watch>>

Bereaved(u) ==
  /\ pc[u] = "bereaved"
  /\ Handle(u, "AIRPLAY_DISCONNECTED")
  /\ Goto(u, "mourning")
  /\ UNCHANGED <<waitFor, life, render, expected, tries, uxplay, control, watch>>

(* The output ends before the process can be reaped: for a moment          *)
(* is_running may still hold of the instance that has just died.           *)
Relaunching(u) ==
  /\ pc[u] = "relaunching"
  /\ \E missed \in {FALSE, uxProc = u /\ "lateexit" \in Env} :
       Goto(u, IF missed \/ IsRunning(uxProc) THEN "off" ELSE "sleeping")
  /\ UNCHANGED <<arbitration, todo, waitFor, life, render, expected, tries, uxplay, control, watch>>

(* After the two seconds start() is called without another look.           *)
Relaunch(u) ==
  /\ pc[u] = "sleeping"
  /\ \/ /\ IsRunning(uxProc)
        /\ Goto(u, "off")
        /\ UNCHANGED <<life, uxplay>>
     \/ /\ ~IsRunning(uxProc)
        /\ \E v \in UxPlays : FreeUxPlay(v) /\ LaunchUxPlay(v, [pc EXCEPT ![u] = "off"])
  /\ UNCHANGED <<arbitration, todo, waitFor, render, expected, tries, control, watch>>

PumpStep(u) == \/ ReadLine(u) \/ EndOfOutput(u)
               \/ Exited(u) \/ Bereaved(u) \/ Relaunching(u) \/ Relaunch(u)
               \/ Dispatch(u)
-----------------------------------------------------------------------------
(* The stream watch thread: one tick every two seconds.  Nothing it reads  *)
(* is under a lock, so each read and each write is a step.                 *)

WatchGoto(place) ==
  /\ wpc' = place
  /\ fresh' = (IF place = "asleep" THEN {} ELSE fresh)
  /\ UNCHANGED <<arbitration, threads, life, render, tries, uxplay, activeSock>>

WatchState ==
  /\ wpc = "asleep"
  /\ WatchGoto(IF state = "MIRACAST" THEN "gate" ELSE "lowering")
  /\ UNCHANGED <<expected, sampled, sockOpen>>

WatchLower ==
  /\ wpc = "lowering"
  /\ expected' = FALSE
  /\ WatchGoto("asleep")
  /\ UNCHANGED <<sampled, sockOpen>>

WatchGate ==
  /\ wpc = "gate"
  /\ WatchGoto(IF expected THEN "alive" ELSE "asleep")
  /\ UNCHANGED <<expected, sampled, sockOpen>>

(* A pipeline that runs is left alone unless observe() reports that the    *)
(* counter of received bytes has been flat for ten seconds.                *)
WatchAlive ==
  /\ wpc = "alive"
  /\ \/ ~IsRunning(proc) /\ WatchGoto("tripDead")
     \/ IsRunning(proc) /\ WatchGoto("asleep")
     \/ IsRunning(proc) /\ "stall" \in Env /\ WatchGoto("trip")
  /\ UNCHANGED <<expected, sampled, sockOpen>>

(* _trip_stream_watchdog takes the socket that is the active one now.      *)
WatchTrip ==
  /\ wpc \in {"trip", "tripDead"}
  /\ sampled' = activeSock
  /\ WatchGoto(IF wpc = "trip" THEN "closing" ELSE "closingDead")
  /\ UNCHANGED <<expected, sockOpen>>

WatchOnlyLogs ==
  /\ wpc \in {"closing", "closingDead"}
  /\ sampled' = None
  /\ WatchGoto(IF wpc = "closing" THEN "asleep" ELSE "lowering")
  /\ UNCHANGED <<expected, sockOpen>>

WatchClose ==
  /\ wpc \in {"closing", "closingDead"}
  /\ sockOpen' = [s \in Sessions |-> sockOpen[s] /\ s # sampled]
  /\ sampled' = None
  /\ WatchGoto(IF wpc = "closing" THEN "asleep" ELSE "lowering")
  /\ UNCHANGED expected

WatchStep == WatchState \/ WatchLower \/ WatchGate \/ WatchAlive \/ WatchTrip \/ WatchClose
-----------------------------------------------------------------------------
(* The children and their clients.                                         *)

ChildDiesIfItLikes(c) ==
  /\ life[c] = "term" /\ c \notin Renders
  /\ life' = [life EXCEPT ![c] = "dead"]
  /\ UNCHANGED <<arbitration, threads, render, expected, tries, uxplay, control, watch>>

(* SIGTERM, or SIGKILL three seconds later.                                *)
ChildDies(c) ==
  /\ life[c] = "term"
  /\ life' = [life EXCEPT ![c] = "dead"]
  /\ UNCHANGED <<arbitration, threads, render, expected, tries, uxplay, control, watch>>

ChildCrashes(c) ==
  /\ life[c] = "up"
  /\ \/ c \in Renders /\ "rendercrash" \in Env
     \/ c \in UxPlays /\ "uxcrash" \in Env
  /\ life' = [life EXCEPT ![c] = "dead"]
  /\ UNCHANGED <<arbitration, threads, render, expected, tries, uxplay, control, watch>>

(* The marker line; _drain_output sets the event, for an orphan as well.   *)
(* A line still in the pipe when its pipeline dies is never read here.     *)
FirstFrame(p) ==
  /\ "frame" \in Env /\ life[p] = "up" /\ ~firstFrame
  /\ firstFrame' = TRUE
  /\ UNCHANGED <<arbitration, threads, life, proc, expected, tries, uxplay, control, watch>>

AirPlayClient(u) ==
  /\ "airplay" \in Env /\ life[u] # "dead" /\ unread[u] < MaxUnread
  /\ unread' = [unread EXCEPT ![u] = @ + 1]
  /\ UNCHANGED <<arbitration, threads, life, render, expected, tries, uxProc, expectExit, tracked,
                 control, watch>>

Environment == \/ \E s \in Sessions : Arrive(s) \/ SourceLeaves(s)
               \/ \E c \in Children : ChildCrashes(c)
               \/ \E p \in Renders : FirstFrame(p)
               \/ \E u \in UxPlays : AirPlayClient(u)

Next == \/ \E s \in Sessions : SessionStep(s)
        \/ \E r \in Recoveries : RecoveryStep(r)
        \/ \E u \in UxPlays : PumpStep(u)
        \/ WatchStep
        \/ \E c \in Children : ChildDies(c)
        \/ Environment

Spec == Init /\ [][Next]_vars

(* Every thread of castd that can run does, and a signalled child dies:    *)
(* the handshake and the dial have timeouts, so they end one way or the    *)
(* other.  Nothing is assumed of sources, AirPlay clients or crashes.      *)
Fairness == /\ \A s \in Sessions : WF_vars(SessionStep(s))
            /\ \A r \in Recoveries : WF_vars(RecoveryStep(r))
            /\ \A u \in UxPlays : WF_vars(PumpStep(u))
            /\ WF_vars(WatchStep)
            /\ \A c \in Children : WF_vars(ChildDies(c))

FairSpec == Spec /\ Fairness
-----------------------------------------------------------------------------
PlacesOK ==
  /\ pc \in [Threads -> SessionPlaces \cup RecoveryPlaces \cup UxPlayPlaces]
  /\ \A s \in Sessions : pc[s] \in SessionPlaces
  /\ \A r \in Recoveries : pc[r] \in RecoveryPlaces
  /\ \A u \in UxPlays : pc[u] \in UxPlayPlaces

ListsOK ==
  /\ todo \in [Threads -> Seq(Actions)]
  /\ \A u \in UxPlays : todo[u] \in Seq(PumpActions)

ChildrenOK ==
  /\ waitFor \in [Threads -> Children \cup {None}]
  /\ life \in [Children -> {"up", "term", "dead"}]
  /\ proc \in Renders \cup {None}
  /\ uxProc \in UxPlays \cup {None}

FlagsOK ==
  /\ state \in States /\ health \in States /\ avail \in BOOLEAN
  /\ firstFrame \in BOOLEAN /\ expected \in BOOLEAN /\ expectExit \in BOOLEAN
  /\ unread \in [UxPlays -> 0 .. MaxUnread] /\ tracked \in [UxPlays -> BOOLEAN]
  /\ activeSock \in Sessions \cup {None} /\ sockOpen \in [Sessions -> BOOLEAN]
  /\ told \in [Threads -> States \cup {None}]
  /\ wpc \in WatchPlaces /\ sampled \in Sessions \cup {None} /\ fresh \subseteq Sessions

TriesOK ==
  /\ tries \in [Recoveries -> 0 .. Retries]
  /\ \A r \in Recoveries : pc[r] # "off" => tries[r] < Retries

(* Every variable has its type; in particular a thread is only in places   *)
(* of its own code, a UxPlay pump is never asked to resume AirPlay, and a  *)
(* recovery thread never exceeds its tries.                                *)
TypeOK == PlacesOK /\ ListsOK /\ ChildrenOK /\ FlagsOK /\ TriesOK

(* The room is never left in MIRACAST by nobody: some session thread is    *)
(* still going to report MIRACAST_DISCONNECTED, or died of an exception    *)
(* that handle_miracast_connected does not catch.                          *)
Custody ==
  state = "MIRACAST" => \E s \in Sessions : pc[s] \in HoldingPlaces

(* The socket the stream watchdog would close belongs to a session that is *)
(* still inside _run_source_session, never to one that is over.            *)
ActiveSockLive ==
  activeSock # None => pc[activeSock] \notin {"off", "dialing", "died", "aborted"}

(* Nobody is in the middle of anything.                                    *)
Quiet ==
  /\ \A s \in Sessions : pc[s] \in {"off", "dialing", "pumping", "died", "aborted"}
  /\ \A r \in Recoveries : pc[r] \in {"off", "waiting"}
  /\ \A u \in UxPlays : \/ pc[u] = "off"
                        \/ pc[u] = "reading" /\ unread[u] = 0 /\ life[u] = "up"

(* When everything has settled in IDLE and no thread died on the way, the  *)
(* teardown was complete: UxPlay is back, discovery says available, no     *)
(* pipeline holds the display, and /health says so.                        *)
RoomRestored ==
  /\ Quiet /\ state = "IDLE"
  /\ \A t \in Threads : pc[t] \notin {"died", "aborted"}
  => /\ avail /\ health = "IDLE"
     /\ uxProc # None /\ life[uxProc] = "up"
     /\ \A p \in Renders : life[p] = "dead"

(* While a source is presenting and everything has settled, discovery says *)
(* busy, /health says so, and no UxPlay is there for a client to find: so  *)
(* long as UxPlay does not crash and the WFD IE can be published.          *)
RoomTaken ==
  Quiet /\ state = "MIRACAST" =>
    ~avail /\ health = "MIRACAST" /\ \A u \in UxPlays : life[u] = "dead"

(* While an AirPlay client has the room discovery says busy, whatever      *)
(* UxPlay's crashes left for other pumps to do: if no source is there to   *)
(* end a session of its own, and the WFD IE can be published.              *)
AirPlayIsBusy == Quiet /\ state = "AIRPLAY" => ~avail

(* While AirPlay has the display no pipeline of castd is on it.            *)
AirPlayHasTheDisplay ==
  Quiet /\ state = "AIRPLAY" => \A p \in Renders : life[p] = "dead"

(* What runs is what render._proc holds: no second pipeline.  It is false  *)
(* of the code once two stop()s or a start() and a stop() overlap.         *)
NoOrphan == \A p \in Renders : life[p] # "dead" => p = proc

(* A source that is presenting loses the room only when its own session    *)
(* ends.                                                                   *)
PresenterKeepsTheRoom ==
  [][\A s \in Sessions :
       pc[s] = "pumping" /\ state = "MIRACAST" /\ state' # "MIRACAST"
         => pc'[s] # "pumping"]_vars

(* A source that is presenting is guarded: the gate of the stream watchdog *)
(* is up, unless the session's socket is closed already.  A tick that      *)
(* outlasts a handshake may lower it, and a re-roll that cannot spawn      *)
(* leaves it lowered.                                                      *)
GateUp ==
  Quiet => \A s \in Sessions : pc[s] = "pumping" /\ sockOpen[s] => expected

(* The watchdog raises the alarm over a dead pipeline only for a session   *)
(* that has started one: never while the only session is still shaking     *)
(* hands.                                                                  *)
NoFalseAlarm ==
  [][wpc' = "tripDead" /\ wpc # "tripDead" =>
       \E s \in Sessions : pc[s] \in {"arming", "pumping", "disconnecting"}]_vars

(* Once everything has settled in IDLE no pipeline is on the display,      *)
(* whatever recovery threads were doing when the session ended.            *)
DisplayReleased ==
  Quiet /\ state = "IDLE" => \A p \in Renders : life[p] = "dead"

(* A session whose pipeline died is torn down, where GateUp holds.         *)
DeadStreamEnds ==
  \A s \in Sessions :
    (pc[s] = "pumping" /\ ~IsRunning(proc)) ~> (pc[s] # "pumping" \/ IsRunning(proc))

(* A UxPlay that crashed is started again, and a room it held is freed:    *)
(* provided poll() sees the exit that ended its output.                    *)
AirPlayComesBack ==
  /\ (\A u \in UxPlays : life[u] = "dead") ~> (\E u \in UxPlays : life[u] = "up")
  /\ (state = "AIRPLAY" /\ \A u \in UxPlays : life[u] = "dead") ~> state = "IDLE"

(* Every session that ends gives the room back.                            *)
SessionEnds ==
  \A s \in Sessions : pc[s] = "disconnecting" ~> pc[s] \in {"off", "aborted"}
-----------------------------------------------------------------------------
(* The room as module Arbitration sees it.  A session has joined from its  *)
(* MIRACAST_CONNECTED to its MIRACAST_DISCONNECTED, an AirPlay client as   *)
(* long as the pump of its UxPlay counts it.                               *)
Holders == {s \in Sessions : pc[s] \in HoldingPlaces}
Counted == {u \in UxPlays : tracked[u]}
Engaged == Holders \cup Counted

Room == INSTANCE Arbitration WITH
          Sources <- Sessions, Clients <- UxPlays, owner <- state, engaged <- Engaged

(* castd, whatever its threads do, keeps the promise of Arbitration.       *)
ArbitrationKept == Room!Spec
=============================================================================
