-------------------------- MODULE CastDaemonProofs --------------------------
(***************************************************************************)
(* Proofs about CastDaemon, for every set of sessions, recovery threads,   *)
(* UxPlay instances and pipelines and for every environment.               *)
(***************************************************************************)
EXTENDS CastDaemon, TLAPS

(* Where the events that castd sends lead.                                 *)
LEMMA NextState ==
  ASSUME NEW st \in States
  PROVE  /\ Transition(st, "MIRACAST_CONNECTED").next
              = IF st = "IDLE" THEN "MIRACAST" ELSE st
         /\ Transition(st, "MIRACAST_DISCONNECTED").next
              = IF st = "MIRACAST" THEN "IDLE" ELSE st
         /\ Transition(st, "AIRPLAY_CONNECTED").next
              = IF st = "IDLE" THEN "AIRPLAY" ELSE st
         /\ Transition(st, "AIRPLAY_DISCONNECTED").next
              = IF st = "AIRPLAY" THEN "IDLE" ELSE st
  BY DEF States, Transition, To, Rejected

LEMMA Lists ==
  /\ EnterMiracast \in Seq(PumpActions) /\ LeaveMiracast \in Seq(Actions)
  /\ EnterAirPlay \in Seq(PumpActions) /\ LeaveAirPlay \in Seq(PumpActions)
  /\ <<"LOG_REJECTED_CONNECTION">> \in Seq(PumpActions)
  /\ Seq(PumpActions) \subseteq Seq(Actions)
<1>1. EnterMiracast \in Seq(PumpActions)
  BY DEF EnterMiracast, Actions, PumpActions
<1>2. LeaveMiracast \in Seq(Actions)
  BY DEF LeaveMiracast, Actions
<1>3. EnterAirPlay \in Seq(PumpActions)
  BY DEF EnterAirPlay, Actions, PumpActions
<1>4. LeaveAirPlay \in Seq(PumpActions)
  BY DEF LeaveAirPlay, Actions, PumpActions
<1>5. <<"LOG_REJECTED_CONNECTION">> \in Seq(PumpActions)
  BY DEF Actions, PumpActions
<1>6. Seq(PumpActions) \subseteq Seq(Actions)
  BY DEF PumpActions
<1> QED  BY <1>1, <1>2, <1>3, <1>4, <1>5, <1>6

(* What they make a thread do.                                             *)
LEMMA ActionLists ==
  ASSUME NEW st \in States
  PROVE  /\ Transition(st, "MIRACAST_CONNECTED").actions \in Seq(PumpActions)
         /\ Transition(st, "MIRACAST_CONNECTED").actions \in Seq(Actions)
         /\ Transition(st, "MIRACAST_DISCONNECTED").actions \in Seq(Actions)
         /\ Transition(st, "AIRPLAY_CONNECTED").actions \in Seq(PumpActions)
         /\ Transition(st, "AIRPLAY_DISCONNECTED").actions \in Seq(PumpActions)
  BY Lists DEF States, Transition, To, Rejected
-----------------------------------------------------------------------------
USE DEF Threads, Children, arbitration, threads, render, uxplay, control, watch

LEMMA Disjoint ==
  /\ \A s \in Sessions : s \notin Recoveries /\ s \notin UxPlays /\ s # None
  /\ \A r \in Recoveries : r \notin Sessions /\ r \notin UxPlays
  /\ \A u \in UxPlays : u \notin Sessions /\ u \notin Recoveries /\ u # None
  /\ \A p \in Renders : p \notin UxPlays /\ p # None
  /\ \A st \in States : st # None
  BY ThreadsAssumption, NoneAssumption

LEMMA TypeInit == Init => TypeOK
<1> SUFFICES ASSUME Init PROVE TypeOK
  OBVIOUS
<1>1. PlacesOK /\ ChildrenOK
  BY Disjoint DEF Init, PlacesOK, ChildrenOK, SessionPlaces, RecoveryPlaces, UxPlayPlaces
<1>2. ListsOK
  BY DEF Init, ListsOK
<1>3. FlagsOK
  <2>1. unread \in [UxPlays -> 0 .. MaxUnread]
    BY BoundsAssumption DEF Init
  <2>2. tracked \in [UxPlays -> BOOLEAN] /\ sockOpen \in [Sessions -> BOOLEAN]
    BY DEF Init
  <2>3. told \in [Threads -> States \cup {None}]
    BY DEF Init
  <2> QED  BY <2>1, <2>2, <2>3 DEF Init, FlagsOK, States, WatchPlaces
<1>4. TriesOK
  BY BoundsAssumption DEF Init, TriesOK
<1> QED  BY <1>1, <1>2, <1>3, <1>4 DEF TypeOK

(* A thread that goes to a place of its own code.                          *)
LEMMA Goes ==
  ASSUME PlacesOK, TriesOK, NEW t \in Threads, NEW place, Goto(t, place), tries' = tries,
         t \in Sessions => place \in SessionPlaces,
         t \in Recoveries => place \in RecoveryPlaces /\ (pc[t] # "off" \/ place = "off"),
         t \in UxPlays => place \in UxPlayPlaces
  PROVE  PlacesOK' /\ TriesOK'
<1>1. pc' = [pc EXCEPT ![t] = place]
  BY DEF Goto
<1>2. PlacesOK'
  BY <1>1, Disjoint DEF PlacesOK
<1>3. TriesOK'
  BY <1>1, Disjoint DEF PlacesOK, TriesOK
<1> QED  BY <1>2, <1>3

(* A thread that has carried out the first action of its list.             *)
LEMMA Carries ==
  ASSUME ListsOK, NEW t \in Threads, todo[t] # <<>>, Carried(t)
  PROVE  ListsOK'
<1>1. todo' = [todo EXCEPT ![t] = Tail(todo[t])]
  BY DEF Carried
<1>2. Tail(todo[t]) \in Seq(Actions)
  BY DEF ListsOK
<1>3. t \in UxPlays => Tail(todo[t]) \in Seq(PumpActions)
  BY DEF ListsOK
<1> QED  BY <1>1, <1>2, <1>3 DEF ListsOK

(* A thread that has been handed a new list.                               *)
LEMMA Handed ==
  ASSUME ListsOK, NEW t \in Threads, NEW list \in Seq(Actions),
         t \in UxPlays => list \in Seq(PumpActions),
         todo' = [todo EXCEPT ![t] = list]
  PROVE  ListsOK'
  BY DEF ListsOK

LEMMA Unmoved ==
  /\ PlacesOK /\ TriesOK /\ pc' = pc /\ tries' = tries => PlacesOK' /\ TriesOK'
  /\ ListsOK /\ todo' = todo => ListsOK'
  /\ ChildrenOK /\ UNCHANGED <<waitFor, life, proc, uxProc>> => ChildrenOK'
  BY DEF PlacesOK, TriesOK, ListsOK, ChildrenOK

(* A thread that an exception ends.                                        *)
LEMMA TypeRaise ==
  ASSUME TypeOK, NEW t \in Threads, Raise(t), pc[t] # "off",
         UNCHANGED <<arbitration, life, render, expected, tries, uxplay, watch>>
  PROVE  TypeOK'
<1>1. PlacesOK' /\ TriesOK'
  BY Goes, Disjoint DEF TypeOK, Raise, SessionPlaces, RecoveryPlaces, UxPlayPlaces, PlacesOK
<1>2. ListsOK'
  <2>1. <<>> \in Seq(Actions) /\ <<>> \in Seq(PumpActions)
    OBVIOUS
  <2> QED  BY <2>1, Handed DEF TypeOK, Raise
<1>3. FlagsOK'
  BY DEF TypeOK, FlagsOK, Raise
<1>4. ChildrenOK'
  BY DEF TypeOK, ChildrenOK, Raise
<1> QED  BY <1>1, <1>2, <1>3, <1>4 DEF TypeOK

LEMMA TypeRenderStop ==
  ASSUME TypeOK, NEW t \in Threads, StopRender(t)
  PROVE  TypeOK'
<1>1. CASE RenderStop(t)
  BY <1>1, Unmoved DEF TypeOK, ChildrenOK, FlagsOK, RenderStop, Terminate
<1>2. ASSUME AfterStop(t), StoppingRender(t), tries' = tries
      PROVE  PlacesOK' /\ TriesOK' /\ ListsOK'
  <2>1. CASE pc[t] \in Dispatching /\ Carried(t) /\ UNCHANGED pc
    BY <1>2, <2>1, Carries, Unmoved DEF TypeOK, StoppingRender, Pending, Dispatching
  <2>2. CASE pc[t] = "replacing" /\ Goto(t, "starting") /\ UNCHANGED todo
    BY <1>2, <2>2, Goes, Unmoved
    DEF TypeOK, PlacesOK, SessionPlaces, RecoveryPlaces, UxPlayPlaces
  <2>3. CASE pc[t] = "rolling" /\ Goto(t, "rechecking") /\ UNCHANGED todo
    BY <1>2, <2>3, Goes, Unmoved
    DEF TypeOK, PlacesOK, SessionPlaces, RecoveryPlaces, UxPlayPlaces
  <2> QED  BY <1>2, <2>1, <2>2, <2>3 DEF AfterStop
<1>3. CASE RenderStopNothing(t)
  BY <1>2, <1>3, Unmoved DEF TypeOK, FlagsOK, RenderStopNothing
<1>4. CASE RenderStopped(t)
  BY <1>2, <1>4 DEF TypeOK, ChildrenOK, FlagsOK, RenderStopped
<1>5. CASE RenderStopRaises(t)
  BY <1>5, TypeRaise DEF RenderStopRaises, StoppingRender, Pending, Dispatching
<1> QED  BY <1>1, <1>3, <1>4, <1>5 DEF StopRender

(* A thread that only moves, and may change the flags.                     *)
LEMMA TypeMoves ==
  ASSUME TypeOK, NEW t \in Threads, NEW place, Goto(t, place),
         UNCHANGED <<todo, waitFor, life, proc, uxProc, tries>>, FlagsOK',
         t \in Sessions => place \in SessionPlaces,
         t \in Recoveries => place \in RecoveryPlaces /\ (pc[t] # "off" \/ place = "off"),
         t \in UxPlays => place \in UxPlayPlaces
  PROVE  TypeOK'
  BY Goes, Unmoved DEF TypeOK

LEMMA TypeLaunch ==
  ASSUME PlacesOK, TriesOK, ChildrenOK, FlagsOK, NEW v \in UxPlays,
         NEW t \in Threads, NEW place, pc[v] = "off",
         t = v \/ (place = pc[t] \/ (t \in UxPlays /\ place = "off")),
         LaunchUxPlay(v, [pc EXCEPT ![t] = place]),
         UNCHANGED <<arbitration, waitFor, render, expected, tries, control, watch>>
  PROVE  PlacesOK' /\ TriesOK' /\ ChildrenOK' /\ FlagsOK'
<1>1. pc' = [[pc EXCEPT ![t] = place] EXCEPT ![v] = "reading"]
  BY DEF LaunchUxPlay
<1>2. PlacesOK' /\ TriesOK'
  BY <1>1, Disjoint DEF PlacesOK, TriesOK, UxPlayPlaces
<1>3. ChildrenOK'
  BY DEF ChildrenOK, LaunchUxPlay
<1>4. FlagsOK'
  <2>1. unread' \in [UxPlays -> 0 .. MaxUnread]
    BY BoundsAssumption DEF FlagsOK, LaunchUxPlay
  <2>2. tracked' \in [UxPlays -> BOOLEAN]
    BY DEF FlagsOK, LaunchUxPlay
  <2> QED  BY <2>1, <2>2 DEF FlagsOK, LaunchUxPlay
<1> QED  BY <1>2, <1>3, <1>4

LEMMA TypeDispatch ==
  ASSUME TypeOK, NEW t \in Sessions \cup UxPlays, Dispatch(t)
  PROVE  TypeOK'
<1>1. CASE StopRender(t)
  BY <1>1, TypeRenderStop
<1>2. CASE PauseAirPlay(t)
  <2>1. FlagsOK'
    BY <1>2 DEF TypeOK, FlagsOK, PauseAirPlay
  <2>3. ChildrenOK'
    BY <1>2 DEF TypeOK, ChildrenOK, PauseAirPlay, Terminate
  <2>2. ListsOK'
    BY <1>2, Carries, Unmoved DEF TypeOK, PauseAirPlay, Pending
  <2> QED  BY <1>2, <2>1, <2>2, <2>3, Unmoved DEF TypeOK, PauseAirPlay
<1>3. CASE AirPlayPaused(t)
  <2>1. FlagsOK' /\ ChildrenOK'
    BY <1>3 DEF TypeOK, FlagsOK, ChildrenOK, AirPlayPaused
  <2>2. ListsOK'
    BY <1>3, Carries DEF TypeOK, AirPlayPaused, Pending
  <2> QED  BY <1>3, <2>1, <2>2, Unmoved DEF TypeOK, AirPlayPaused
<1>4. CASE ResumeAirPlay(t)
  <2>1. PICK v \in UxPlays : FreeUxPlay(v) /\ LaunchUxPlay(v, pc)
    BY <1>4 DEF ResumeAirPlay
  <2>2. pc = [pc EXCEPT ![t] = pc[t]]
    BY DEF TypeOK, PlacesOK
  <2>3. PlacesOK' /\ TriesOK' /\ ChildrenOK' /\ FlagsOK'
    BY <1>4, <2>1, <2>2, TypeLaunch DEF TypeOK, ResumeAirPlay, FreeUxPlay
  <2>4. ListsOK'
    BY <1>4, Carries DEF TypeOK, ResumeAirPlay, Pending
  <2> QED  BY <2>3, <2>4 DEF TypeOK
<1>5. CASE ResumeAirPlayRaises(t)
  BY <1>5, TypeRaise DEF ResumeAirPlayRaises, Pending, Dispatching
<1>6. CASE SetSessionAvailable(t)
  <2>1. FlagsOK'
    BY <1>6 DEF TypeOK, FlagsOK, SetSessionAvailable
  <2>2. ListsOK'
    BY <1>6, Carries DEF TypeOK, SetSessionAvailable, Pending
  <2> QED  BY <1>6, <2>1, <2>2, Unmoved DEF TypeOK, SetSessionAvailable
<1>7. CASE PaintOrLog(t)
  <2>1. FlagsOK'
    BY <1>7 DEF TypeOK, FlagsOK, PaintOrLog
  <2>2. ListsOK'
    BY <1>7, Carries DEF TypeOK, PaintOrLog, Pending
  <2> QED  BY <1>7, <2>1, <2>2, Unmoved DEF TypeOK, PaintOrLog
<1>8. CASE PublishHealth(t)
  <2>1. FlagsOK'
    BY <1>8 DEF TypeOK, FlagsOK, PublishHealth
  <2>2. /\ t \in Sessions => AfterDispatch(pc[t]) \in SessionPlaces
        /\ t \in UxPlays => AfterDispatch(pc[t]) \in UxPlayPlaces
    BY <1>8 DEF TypeOK, PlacesOK, PublishHealth, AfterDispatch, Dispatching, SessionPlaces,
                UxPlayPlaces
  <2> QED  BY <1>8, <2>1, <2>2, TypeMoves, Disjoint DEF PublishHealth
<1>9. CASE ReadState(t)
  <2>1. FlagsOK'
    BY <1>9 DEF TypeOK, FlagsOK, ReadState
  <2> QED  BY <1>9, <2>1, Unmoved DEF TypeOK, ReadState
<1>10. CASE PauseAirPlayRaises(t)
  BY <1>10, TypeRaise DEF PauseAirPlayRaises, Pending, Dispatching
<1> QED
  BY <1>1, <1>2, <1>3, <1>4, <1>5, <1>6, <1>7, <1>8, <1>9, <1>10 DEF Dispatch, PauseAirPlayEnds

LEMMA TypeSession ==
  ASSUME TypeOK, NEW s \in Sessions, SessionStep(s) \/ Arrive(s) \/ SourceLeaves(s)
  PROVE  TypeOK'
<1>1. CASE Authorize(s) \/ DialFails(s) \/ Negotiated(s) \/ NegotiationFails(s)
           \/ StartRenderFails(s)
  <2>1. FlagsOK' /\ UNCHANGED <<todo, waitFor, life, proc, uxProc, tries>>
    BY <1>1 DEF TypeOK, FlagsOK, Authorize, DialFails, Negotiated, NegotiationFails,
       StartRenderFails
  <2>2. \E place \in SessionPlaces : Goto(s, place)
    BY <1>1 DEF Authorize, DialFails, Negotiated, NegotiationFails, StartRenderFails, SessionPlaces
  <2> QED  BY <2>1, <2>2, TypeMoves, Disjoint
<1>2. CASE Open(s) \/ StartRenderRaises(s) \/ EndPump(s) \/ Leave(s)
  <2>1. FlagsOK' /\ UNCHANGED <<todo, waitFor, life, proc, uxProc, tries>>
    BY <1>2 DEF TypeOK, FlagsOK, Open, StartRenderRaises, EndPump, Leave
  <2>2. \E place \in SessionPlaces : Goto(s, place)
    BY <1>2 DEF Open, StartRenderRaises, EndPump, Leave, SessionPlaces
  <2> QED  BY <2>1, <2>2, TypeMoves, Disjoint
<1>3. CASE Connect(s) \/ Disconnect(s)
  <2>1. PlacesOK' /\ TriesOK'
    BY <1>3, Goes, Disjoint DEF TypeOK, Connect, Disconnect, SessionPlaces
  <2>2. ListsOK'
    BY <1>3, Handed, ActionLists, Disjoint DEF TypeOK, FlagsOK, Connect, Disconnect, Handle
  <2>3. FlagsOK'
    BY <1>3, NextState DEF TypeOK, FlagsOK, Connect, Disconnect, Handle, States
  <2> QED  BY <1>3, <2>1, <2>2, <2>3, Unmoved DEF TypeOK, Connect, Disconnect
<1>4. CASE StartRender(s)
  <2>1. PlacesOK' /\ TriesOK'
    BY <1>4, Goes, Disjoint DEF TypeOK, StartRender, SessionPlaces
  <2>2. ChildrenOK' /\ FlagsOK'
    BY <1>4 DEF TypeOK, ChildrenOK, FlagsOK, StartRender, Spawn
  <2> QED  BY <1>4, <2>1, <2>2, Unmoved DEF TypeOK, StartRender
<1>5. CASE Arm(s)
  <2>1. FlagsOK'
    BY <1>5 DEF TypeOK, FlagsOK, Arm
  <2>2. CASE Goto(s, "pumping") /\ UNCHANGED tries
    BY <1>5, <2>1, <2>2, TypeMoves, Disjoint DEF Arm, SessionPlaces
  <2>3. ASSUME NEW r \in Recoveries,
               pc' = [pc EXCEPT ![s] = "pumping", ![r] = "waiting"],
               tries' = [tries EXCEPT ![r] = 0]
        PROVE  PlacesOK' /\ TriesOK'
    <3>1. PlacesOK'
      BY <2>3, Disjoint DEF TypeOK, PlacesOK, SessionPlaces, RecoveryPlaces
    <3>2. TriesOK'
      BY <2>3, Disjoint, BoundsAssumption DEF TypeOK, PlacesOK, TriesOK
    <3> QED  BY <3>1, <3>2
  <2> QED  BY <1>5, <2>1, <2>2, <2>3, Unmoved DEF TypeOK, Arm
<1> QED
  BY <1>1, <1>2, <1>3, <1>4, <1>5, TypeDispatch
  DEF SessionStep, Arrive, SourceLeaves, NoticeClosed

LEMMA TypeRecovery ==
  ASSUME TypeOK, NEW r \in Recoveries, RecoveryStep(r)
  PROVE  TypeOK'
<1>1. CASE RecoveryWait(r) \/ RecoveryCheck(r) \/ RecoveryLower(r) \/ RecoveryRecheck(r)
           \/ RecoveryStartRaises(r)
  <2>1. FlagsOK' /\ UNCHANGED <<todo, waitFor, life, proc, uxProc, tries>>
    BY <1>1 DEF TypeOK, FlagsOK, RecoveryWait, RecoveryCheck, RecoveryLower, RecoveryRecheck,
                RecoveryStartRaises
  <2>2. pc[r] # "off" /\ \E place \in RecoveryPlaces : Goto(r, place)
    BY <1>1 DEF RecoveryWait, RecoveryCheck, RecoveryLower, RecoveryRecheck, RecoveryStartRaises,
                RecoveryPlaces
  <2> QED  BY <2>1, <2>2, TypeMoves, Disjoint
<1>2. CASE RecoveryStart(r)
  <2>1. PlacesOK' /\ TriesOK'
    BY <1>2, Goes, Disjoint DEF TypeOK, RecoveryStart, RecoveryPlaces
  <2>2. ChildrenOK' /\ FlagsOK'
    BY <1>2 DEF TypeOK, ChildrenOK, FlagsOK, RecoveryStart, Spawn
  <2> QED  BY <1>2, <2>1, <2>2, Unmoved DEF TypeOK, RecoveryStart
<1>3. CASE RecoveryRearm(r)
  <2>1. PlacesOK'
    BY <1>3, Disjoint DEF TypeOK, PlacesOK, RecoveryRearm, Goto, RecoveryPlaces
  <2>2. tries[r] \in 0 .. Retries /\ tries[r] < Retries
    BY <1>3 DEF TypeOK, TriesOK, RecoveryRearm
  <2>3. TriesOK'
    BY <1>3, <2>2, BoundsAssumption
    DEF TypeOK, PlacesOK, TriesOK, RecoveryRearm, Goto, AnotherTry
  <2>4. FlagsOK'
    BY <1>3 DEF TypeOK, FlagsOK, RecoveryRearm
  <2> QED  BY <1>3, <2>1, <2>3, <2>4, Unmoved DEF TypeOK, RecoveryRearm
<1> QED  BY <1>1, <1>2, <1>3, TypeRenderStop DEF RecoveryStep

LEMMA TypePump ==
  ASSUME TypeOK, NEW u \in UxPlays, PumpStep(u)
  PROVE  TypeOK'
<1>1. CASE EndOfOutput(u) \/ Exited(u) \/ Relaunching(u)
  <2>1. FlagsOK' /\ UNCHANGED <<todo, waitFor, life, proc, uxProc, tries>>
    BY <1>1 DEF TypeOK, FlagsOK, EndOfOutput, Exited, Relaunching
  <2>2. \E place \in UxPlayPlaces : Goto(u, place)
    BY <1>1 DEF EndOfOutput, Exited, Relaunching, UxPlayPlaces
  <2> QED  BY <2>1, <2>2, TypeMoves, Disjoint
<1>2. CASE ReadLine(u) \/ Bereaved(u)
  <2>1. PlacesOK' /\ TriesOK'
    BY <1>2, Goes, Disjoint DEF TypeOK, ReadLine, Bereaved, UxPlayPlaces
  <2>2. ListsOK'
    BY <1>2, Handed, ActionLists, Lists, Disjoint DEF TypeOK, FlagsOK, ReadLine, Bereaved, Handle
  <2>3. state' \in States /\ health' \in States /\ avail' \in BOOLEAN
    BY <1>2, NextState DEF TypeOK, FlagsOK, ReadLine, Bereaved, Handle, States
  <2>4. unread' \in [UxPlays -> 0 .. MaxUnread]
    BY <1>2, BoundsAssumption DEF TypeOK, FlagsOK, ReadLine, Bereaved
  <2>6. tracked' \in [UxPlays -> BOOLEAN]
    <3>1. (~tracked[u]) \in BOOLEAN
      OBVIOUS
    <3>2. tracked' = tracked \/ tracked' = [tracked EXCEPT ![u] = ~tracked[u]]
      BY <1>2 DEF ReadLine, Bereaved
    <3> QED  BY <3>1, <3>2 DEF TypeOK, FlagsOK
  <2>7. UNCHANGED <<told, firstFrame, expected, expectExit, control, watch>>
    BY <1>2 DEF ReadLine, Bereaved, Handle
  <2>5. FlagsOK'
    BY <2>3, <2>4, <2>6, <2>7 DEF TypeOK, FlagsOK
  <2> QED  BY <1>2, <2>1, <2>2, <2>5, Unmoved DEF TypeOK, ReadLine, Bereaved
<1>3. CASE Relaunch(u)
  <2>1. CASE IsRunning(uxProc) /\ Goto(u, "off") /\ UNCHANGED <<life, uxplay>>
    <3>1. FlagsOK'
      BY <1>3, <2>1 DEF TypeOK, FlagsOK, Relaunch
    <3> QED  BY <1>3, <2>1, <3>1, TypeMoves, Disjoint DEF Relaunch, UxPlayPlaces
  <2>2. ASSUME NEW v \in UxPlays, FreeUxPlay(v), LaunchUxPlay(v, [pc EXCEPT ![u] = "off"])
        PROVE  TypeOK'
    <3>1. PlacesOK' /\ TriesOK' /\ ChildrenOK' /\ FlagsOK'
      BY <1>3, <2>2, TypeLaunch DEF TypeOK, Relaunch, FreeUxPlay
    <3> QED  BY <1>3, <3>1, Unmoved DEF TypeOK, Relaunch
  <2> QED  BY <1>3, <2>1, <2>2 DEF Relaunch
<1> QED  BY <1>1, <1>2, <1>3, TypeDispatch DEF PumpStep

(* The watch thread keeps its hands off all but the gate and the sockets.  *)
LEMMA WatchMoves ==
  ASSUME WatchStep
  PROVE  UNCHANGED <<arbitration, threads, life, render, tries, uxplay, activeSock>>
  BY DEF WatchStep, WatchState, WatchLower, WatchGate, WatchAlive, WatchTrip, WatchClose, WatchGoto

LEMMA TypeOthers ==
  ASSUME TypeOK,
         \/ WatchStep
         \/ \E c \in Children : ChildDies(c) \/ ChildCrashes(c)
         \/ \E p \in Renders : FirstFrame(p)
         \/ \E u \in UxPlays : AirPlayClient(u)
         \/ UNCHANGED vars
  PROVE  TypeOK'
<1>1. CASE WatchStep
  <2>1. wpc' \in WatchPlaces /\ fresh' \subseteq Sessions
    BY <1>1 DEF TypeOK, FlagsOK, WatchStep, WatchState, WatchLower, WatchGate, WatchAlive,
       WatchTrip, WatchClose, WatchGoto, WatchPlaces
  <2>2. /\ sampled' \in Sessions \cup {None}
        /\ expected' \in BOOLEAN /\ sockOpen' \in [Sessions -> BOOLEAN]
    BY <1>1 DEF TypeOK, FlagsOK, WatchStep, WatchState, WatchLower, WatchGate, WatchAlive,
       WatchTrip, WatchClose
  <2> QED  BY <1>1, <2>1, <2>2, WatchMoves, Unmoved DEF TypeOK, FlagsOK
<1>2. CASE \E c \in Children : ChildDies(c) \/ ChildCrashes(c)
  BY <1>2, Unmoved DEF TypeOK, ChildrenOK, FlagsOK, ChildDies, ChildCrashes
<1>3. CASE \E p \in Renders : FirstFrame(p)
  BY <1>3, Unmoved DEF TypeOK, FlagsOK, FirstFrame
<1>4. CASE \E u \in UxPlays : AirPlayClient(u)
  <2>1. unread' \in [UxPlays -> 0 .. MaxUnread]
    BY <1>4, BoundsAssumption DEF TypeOK, FlagsOK, AirPlayClient
  <2> QED  BY <1>4, <2>1, Unmoved DEF TypeOK, FlagsOK, AirPlayClient
<1>5. CASE UNCHANGED vars
  BY <1>5, Unmoved DEF TypeOK, FlagsOK, vars
<1> QED  BY <1>1, <1>2, <1>3, <1>4, <1>5

LEMMA TypeNext == TypeOK /\ [Next]_vars => TypeOK'
  BY TypeSession, TypeRecovery, TypePump, TypeOthers DEF Next, Environment

(* Whatever the environment does, every variable keeps its type.           *)
THEOREM TypeCorrect == Spec => []TypeOK
  BY TypeInit, TypeNext, PTL DEF Spec
-----------------------------------------------------------------------------
(* The arbitration.  Only a session that is closing is ever asked to       *)
(* resume AirPlay, so it is past its MIRACAST_DISCONNECTED when            *)
(* UxPlayProcess.start() raises and kills it.                              *)
NoResume == \A s \in Sessions : pc[s] # "closing" => todo[s] \in Seq(PumpActions)

RoomStep == Room!Next \/ UNCHANGED <<state, Engaged>>

Inv == TypeOK /\ NoResume /\ ActiveSockLive /\ Custody

LEMMA NothingHappens ==
  UNCHANGED <<state, Holders, Counted>> => RoomStep
  BY DEF RoomStep, Engaged

(* A thread that goes from one place to another on the same side.          *)
LEMMA SameSide ==
  ASSUME PlacesOK, NEW t \in Threads, NEW place, Goto(t, place),
         t \in Sessions => (pc[t] \in HoldingPlaces <=> place \in HoldingPlaces)
  PROVE  Holders' = Holders
  BY Disjoint DEF PlacesOK, Goto, Holders

(* A thread that keeps its list, and has carried it out if it was closing. *)
LEMMA KeepsList ==
  ASSUME PlacesOK, NoResume, NEW t \in Threads, NEW place, Goto(t, place), todo' = todo,
         pc[t] # "closing" \/ todo[t] = <<>>
  PROVE  NoResume'
<1>1. <<>> \in Seq(PumpActions)
  OBVIOUS
<1> QED  BY <1>1 DEF PlacesOK, NoResume, Goto

LEMMA CarriesList ==
  ASSUME PlacesOK, ListsOK, NoResume, NEW t \in Threads, pc' = pc, todo[t] # <<>>, Carried(t)
  PROVE  NoResume'
<1>1. \A q \in Seq(PumpActions) : q # <<>> => Tail(q) \in Seq(PumpActions)
  OBVIOUS
<1> QED  BY <1>1 DEF NoResume, Carried, ListsOK

(* A thread that stays inside its session, or was not in one.              *)
LEMMA KeepsSocket ==
  ASSUME PlacesOK, ActiveSockLive, NEW t \in Threads, NEW place, Goto(t, place),
         activeSock' = activeSock, activeSock \in Sessions \cup {None},
         t \in Sessions => \/ pc[t] \in {"off", "dialing", "died", "aborted"}
                          \/ place \notin {"off", "dialing", "died", "aborted"}
  PROVE  ActiveSockLive'
  BY Disjoint DEF PlacesOK, ActiveSockLive, Goto

LEMMA Launches ==
  ASSUME TypeOK, NoResume, ActiveSockLive, NEW v \in UxPlays, NEW t \in Threads, NEW place,
         place = pc[t] \/ (t \in UxPlays /\ place = "off"),
         LaunchUxPlay(v, [pc EXCEPT ![t] = place]), UNCHANGED <<state, activeSock>>
  PROVE  /\ ActiveSockLive'
         /\ todo' = todo => NoResume'
         /\ RoomStep
<1>1. \A s \in Sessions : pc'[s] = pc[s]
  BY Disjoint DEF LaunchUxPlay, TypeOK, PlacesOK
<1>2. Holders' = Holders
  BY <1>1 DEF Holders
<1>3. ActiveSockLive'
  BY <1>1, Disjoint DEF ActiveSockLive, TypeOK, FlagsOK
<1>4. todo' = todo => NoResume'
  BY <1>1 DEF NoResume
<1>5. Counted' = Counted \ {v}
  BY DEF Counted, LaunchUxPlay, TypeOK, FlagsOK
<1>6. ASSUME tracked[v]  PROVE RoomStep
  <2>1. v \in Engaged \cap UxPlays /\ Engaged' = Engaged \ {v}
    BY <1>2, <1>5, <1>6, Disjoint DEF Engaged, Counted, Holders
  <2> QED  BY <2>1 DEF RoomStep, Room!Next, Room!Vanish, Room!Actors
<1>7. ASSUME ~tracked[v]  PROVE RoomStep
  BY <1>2, <1>5, <1>7, NothingHappens DEF Counted
<1> QED  BY <1>3, <1>4, <1>6, <1>7

(* A thread that an exception ends stays on its side of the room.          *)
LEMMA InvRaise ==
  ASSUME TypeOK, NoResume, ActiveSockLive, NEW t \in Threads, Raise(t),
         UNCHANGED <<state, tracked>>, pc[t] \in Dispatching \cup {"replacing", "rolling"}
  PROVE  NoResume' /\ ActiveSockLive' /\ RoomStep
<1>1. Holders' = Holders
  BY SameSide, Disjoint DEF TypeOK, Raise, PlacesOK, Dispatching, HoldingPlaces, SessionPlaces
<1>2. <<>> \in Seq(PumpActions)
  OBVIOUS
<1>3. NoResume'
  BY <1>2 DEF NoResume, TypeOK, PlacesOK, ListsOK, Raise, Goto
<1>4. ActiveSockLive'
  BY Disjoint DEF ActiveSockLive, TypeOK, PlacesOK, FlagsOK, Raise, Goto
<1> QED  BY <1>1, <1>3, <1>4, NothingHappens DEF Counted

LEMMA InvRenderStop ==
  ASSUME TypeOK, NoResume, ActiveSockLive, NEW t \in Threads, StopRender(t)
  PROVE  NoResume' /\ ActiveSockLive' /\ RoomStep
<1>4. CASE RenderStopRaises(t)
  BY <1>4, InvRaise DEF RenderStopRaises, StoppingRender, Pending
<1> SUFFICES ASSUME RenderStop(t) \/ RenderStopNothing(t) \/ RenderStopped(t)
             PROVE  NoResume' /\ ActiveSockLive' /\ RoomStep
  BY <1>4 DEF StopRender
<1>1. UNCHANGED <<state, tracked, activeSock>>
  BY DEF RenderStop, RenderStopNothing, RenderStopped
<1>2. CASE pc' = pc /\ (todo' = todo \/ (todo[t] # <<>> /\ Carried(t)))
  <2>1. NoResume'
    BY <1>2, CarriesList DEF TypeOK, NoResume
  <2>2. ActiveSockLive' /\ UNCHANGED <<Holders, Counted>>
    BY <1>1, <1>2 DEF ActiveSockLive, Holders, Counted
  <2> QED  BY <1>1, <2>1, <2>2, NothingHappens
<1>3. ASSUME NEW place \in {"starting", "rechecking"}, Goto(t, place), todo' = todo,
             IF place = "starting" THEN pc[t] = "replacing" ELSE pc[t] = "rolling"
      PROVE  NoResume' /\ ActiveSockLive' /\ RoomStep
  <2>1. Holders' = Holders
    BY <1>3, SameSide, Disjoint DEF TypeOK, PlacesOK, HoldingPlaces, SessionPlaces
  <2>2. NoResume' /\ ActiveSockLive'
    BY <1>1, <1>3, KeepsList, KeepsSocket DEF TypeOK, FlagsOK
  <2> QED  BY <1>1, <2>1, <2>2, NothingHappens DEF Counted
<1> QED
  BY <1>2, <1>3 DEF RenderStop, RenderStopNothing, RenderStopped, AfterStop, StoppingRender,
                    Pending, Dispatching

LEMMA InvDispatch ==
  ASSUME TypeOK, NoResume, ActiveSockLive, NEW t \in Sessions \cup UxPlays, Dispatch(t)
  PROVE  NoResume' /\ ActiveSockLive' /\ RoomStep
<1>1. CASE StopRender(t)
  BY <1>1, InvRenderStop
<1>2. CASE PauseAirPlay(t) \/ AirPlayPaused(t) \/ SetSessionAvailable(t) \/ PaintOrLog(t)
  <2>1. UNCHANGED <<state, pc, tracked, activeSock>>
    BY <1>2 DEF PauseAirPlay, AirPlayPaused, SetSessionAvailable, PaintOrLog
  <2>2. todo' = todo \/ (todo[t] # <<>> /\ Carried(t))
    BY <1>2 DEF PauseAirPlay, AirPlayPaused, SetSessionAvailable, PaintOrLog, Pending
  <2>3. NoResume'
    BY <2>1, <2>2, CarriesList DEF TypeOK, NoResume
  <2>4. ActiveSockLive' /\ UNCHANGED <<Holders, Counted>>
    BY <2>1 DEF ActiveSockLive, Holders, Counted
  <2> QED  BY <2>1, <2>3, <2>4, NothingHappens
<1>3. CASE ResumeAirPlay(t)
  <2>1. PICK v \in UxPlays : LaunchUxPlay(v, pc)
    BY <1>3 DEF ResumeAirPlay
  <2>2. pc = [pc EXCEPT ![t] = pc[t]]
    BY DEF TypeOK, PlacesOK
  <2>3. ActiveSockLive' /\ RoomStep
    BY <1>3, <2>1, <2>2, Launches DEF ResumeAirPlay
  <2>4. \A s \in Sessions : pc'[s] = pc[s]
    BY <2>1, Disjoint DEF LaunchUxPlay, TypeOK, PlacesOK
  <2>5. \A q \in Seq(PumpActions) : q # <<>> => Tail(q) \in Seq(PumpActions)
    OBVIOUS
  <2>6. NoResume'
    BY <1>3, <2>4, <2>5 DEF NoResume, Carried, ResumeAirPlay, Pending, TypeOK, ListsOK
  <2> QED  BY <2>3, <2>6
<1>4. CASE ResumeAirPlayRaises(t)
  BY <1>4, InvRaise DEF ResumeAirPlayRaises, Pending
<1>5. CASE PublishHealth(t)
  <2>1. Goto(t, AfterDispatch(pc[t])) /\ todo[t] = <<>> /\ todo' = todo
        /\ UNCHANGED <<state, tracked, activeSock>>
    BY <1>5 DEF PublishHealth
  <2>2. t \in Sessions => /\ pc[t] \in HoldingPlaces <=> AfterDispatch(pc[t]) \in HoldingPlaces
                         /\ AfterDispatch(pc[t]) \notin {"off", "dialing", "died", "aborted"}
    BY <1>5 DEF PublishHealth, AfterDispatch, Dispatching, HoldingPlaces, TypeOK, PlacesOK,
                SessionPlaces
  <2>3. Holders' = Holders
    BY <2>1, <2>2, SameSide DEF TypeOK
  <2>4. NoResume' /\ ActiveSockLive'
    BY <2>1, <2>2, KeepsList, KeepsSocket DEF TypeOK, FlagsOK
  <2> QED  BY <2>1, <2>3, <2>4, NothingHappens DEF Counted
<1>6. CASE ReadState(t)
  BY <1>6, NothingHappens DEF ReadState, NoResume, ActiveSockLive, Holders, Counted
<1>7. CASE PauseAirPlayRaises(t)
  BY <1>7, InvRaise DEF PauseAirPlayRaises, Pending
<1> QED  BY <1>1, <1>2, <1>3, <1>4, <1>5, <1>6, <1>7 DEF Dispatch, PauseAirPlayEnds

(* The transition of a session's MIRACAST_CONNECTED is Room!Join.          *)
LEMMA InvConnect ==
  ASSUME TypeOK, NoResume, ActiveSockLive, NEW s \in Sessions, Connect(s)
  PROVE  NoResume' /\ ActiveSockLive' /\ RoomStep
<1>1. pc' = [pc EXCEPT ![s] = "connecting"] /\ pc[s] = "opened"
      /\ UNCHANGED <<tracked, activeSock>>
  BY DEF Connect, Goto
<1>2. todo' = [todo EXCEPT ![s] = Transition(state, "MIRACAST_CONNECTED").actions]
  BY DEF Connect, Handle
<1>3. NoResume'
  BY <1>1, <1>2, ActionLists DEF NoResume, TypeOK, PlacesOK, ListsOK, FlagsOK
<1>4. ActiveSockLive'
  BY <1>1 DEF ActiveSockLive, TypeOK, PlacesOK
<1>5. s \in Room!Actors /\ s \notin Engaged
  BY <1>1, Disjoint DEF Room!Actors, Engaged, Holders, Counted, HoldingPlaces
<1>6. Engaged' = Engaged \cup {s}
  <2>1. Holders' = Holders \cup {s}
    BY <1>1, Disjoint DEF Holders, HoldingPlaces, TypeOK, PlacesOK
  <2>2. Counted' = Counted
    BY <1>1 DEF Counted
  <2> QED  BY <2>1, <2>2 DEF Engaged
<1>7. state' = IF state = "IDLE" THEN "MIRACAST" ELSE state
  BY DEF Connect, Handle, Transition, To, Rejected, TypeOK, FlagsOK, States
<1>8. Room!Join(s)
  BY <1>5, <1>6, <1>7 DEF Room!Join, Room!Protocol
<1> QED  BY <1>3, <1>4, <1>5, <1>8 DEF RoomStep, Room!Next

(* That of its MIRACAST_DISCONNECTED is Room!Leave.                        *)
LEMMA InvDisconnect ==
  ASSUME TypeOK, NoResume, ActiveSockLive, NEW s \in Sessions, Disconnect(s)
  PROVE  NoResume' /\ ActiveSockLive' /\ RoomStep
<1>1. pc' = [pc EXCEPT ![s] = "closing"] /\ pc[s] = "disconnecting"
      /\ UNCHANGED <<tracked, activeSock>>
  BY DEF Disconnect, Goto
<1>2. \A q \in Threads : q # s => todo'[q] = todo[q]
  BY DEF Disconnect, Handle, TypeOK, ListsOK
<1>3. NoResume'
  BY <1>1, <1>2 DEF NoResume, TypeOK, PlacesOK, Threads
<1>4. ActiveSockLive'
  BY <1>1 DEF ActiveSockLive, TypeOK, PlacesOK
<1>5. s \in Room!Actors /\ s \in Engaged
  BY <1>1 DEF Room!Actors, Engaged, Holders, HoldingPlaces
<1>6. Engaged' = Engaged \ {s}
  <2>1. Holders' = Holders \ {s}
    BY <1>1, Disjoint DEF Holders, HoldingPlaces, TypeOK, PlacesOK
  <2>2. Counted' = Counted
    BY <1>1 DEF Counted
  <2> QED  BY <2>1, <2>2, Disjoint DEF Engaged, Counted
<1>7. state' = IF state = "MIRACAST" THEN "IDLE" ELSE state
  BY DEF Disconnect, Handle, Transition, To, Rejected, TypeOK, FlagsOK, States
<1>8. Room!Leave(s)
  BY <1>5, <1>6, <1>7 DEF Room!Leave, Room!Protocol
<1> QED  BY <1>3, <1>4, <1>5, <1>8 DEF RoomStep, Room!Next

LEMMA InvSession ==
  ASSUME TypeOK, NoResume, ActiveSockLive, NEW s \in Sessions,
         SessionStep(s) \/ Arrive(s) \/ SourceLeaves(s)
  PROVE  NoResume' /\ ActiveSockLive' /\ RoomStep
<1> USE DEF TypeOK
(* Steps that only move the session, within its part of the session.       *)
<1>1. ASSUME NEW place, Goto(s, place), todo' = todo,
             UNCHANGED <<state, tracked>>,
             pc[s] \in HoldingPlaces <=> place \in HoldingPlaces,
             pc[s] # "closing",
             \/ activeSock' = activeSock /\ place \notin {"off", "died", "aborted"}
                /\ (pc[s] \in {"off", "dialing"} \/ place # "dialing")
             \/ activeSock' = activeSock /\ pc[s] = "dialing"
             \/ activeSock' = None
             \/ activeSock' = s /\ place = "opened"
      PROVE  NoResume' /\ ActiveSockLive' /\ RoomStep
  <2>1. NoResume'
    BY <1>1, KeepsList
  <2>2. Holders' = Holders
    BY <1>1, SameSide
  <2>3. ActiveSockLive'
    BY <1>1, Disjoint DEF PlacesOK, FlagsOK, ActiveSockLive, Goto
  <2> QED  BY <1>1, <2>1, <2>2, <2>3, NothingHappens DEF Counted
<1> USE DEF HoldingPlaces
<1>2. CASE Authorize(s)
  BY <1>2, <1>1 DEF Authorize
<1>3. CASE DialFails(s)
  BY <1>3, <1>1 DEF DialFails
<1>4. CASE Open(s)
  BY <1>4, <1>1 DEF Open
<1>5. CASE Connect(s)
  BY <1>5, InvConnect
<1>6. CASE Negotiated(s) \/ NegotiationFails(s)
  BY <1>6, <1>1 DEF Negotiated, NegotiationFails
<1>7. CASE StartRender(s) \/ StartRenderFails(s) \/ StartRenderRaises(s)
  BY <1>7, <1>1 DEF StartRender, StartRenderFails, StartRenderRaises
<1>8. CASE Arm(s)
  <2>1. todo' = todo /\ UNCHANGED <<state, tracked, activeSock>> /\ pc[s] = "arming"
    BY <1>8 DEF Arm
  <2>2. /\ \A q \in Sessions \ {s} : pc'[q] = pc[q]
        /\ pc'[s] = "pumping"
    BY <1>8, Disjoint DEF Arm, Goto, PlacesOK
  <2>3. NoResume'
    BY <2>1, <2>2 DEF NoResume
  <2>4. ActiveSockLive'
    BY <2>1, <2>2 DEF ActiveSockLive, FlagsOK
  <2>5. Holders' = Holders
    BY <2>1, <2>2 DEF Holders
  <2> QED  BY <2>1, <2>3, <2>4, <2>5, NothingHappens DEF Counted
<1>9. CASE EndPump(s)
  BY <1>9, <1>1 DEF EndPump
<1>10. CASE Disconnect(s)
  BY <1>10, InvDisconnect
<1>11. CASE Leave(s)
  BY <1>11, <1>1 DEF Leave
<1>12. CASE Dispatch(s)
  BY <1>12, InvDispatch
<1> QED
  BY <1>2, <1>3, <1>4, <1>5, <1>6, <1>7, <1>8, <1>9, <1>10, <1>11, <1>12
  DEF SessionStep, Arrive, SourceLeaves, NoticeClosed

LEMMA InvRecovery ==
  ASSUME TypeOK, NoResume, ActiveSockLive, NEW r \in Recoveries, RecoveryStep(r)
  PROVE  NoResume' /\ ActiveSockLive' /\ RoomStep
<1>1. CASE StopRender(r)
  BY <1>1, InvRenderStop
<1>2. ASSUME NEW place, Goto(r, place), todo' = todo, UNCHANGED <<state, tracked, activeSock>>
      PROVE  NoResume' /\ ActiveSockLive' /\ RoomStep
  <2>1. \A s \in Sessions : pc'[s] = pc[s]
    BY <1>2, Disjoint DEF Goto, TypeOK, PlacesOK
  <2>2. NoResume' /\ Holders' = Holders
    BY <1>2, <2>1 DEF NoResume, Holders
  <2>3. ActiveSockLive'
    BY <1>2, <2>1 DEF ActiveSockLive, TypeOK, FlagsOK
  <2> QED  BY <1>2, <2>2, <2>3, NothingHappens DEF Counted
<1> QED
  BY <1>1, <1>2 DEF RecoveryStep, RecoveryWait, RecoveryCheck, RecoveryLower, RecoveryRecheck,
                    RecoveryStart, RecoveryStartRaises, RecoveryRearm

(* A step of a thread that is no session, and moves none.                  *)
LEMMA NoSessionMoves ==
  ASSUME TypeOK, NoResume, ActiveSockLive,
         \A s \in Sessions : pc'[s] = pc[s] /\ todo'[s] = todo[s],
         activeSock' = activeSock
  PROVE  NoResume' /\ ActiveSockLive' /\ Holders' = Holders
  BY DEF NoResume, ActiveSockLive, Holders, TypeOK, FlagsOK

(* The pump of a UxPlay: a line that says a client came is Room!Join, one  *)
(* that says it left is Room!Leave; an exit noticed in AIRPLAY is Reclaim. *)
LEMMA InvReadLine ==
  ASSUME TypeOK, NoResume, ActiveSockLive, NEW u \in UxPlays, ReadLine(u)
  PROVE  NoResume' /\ ActiveSockLive' /\ RoomStep
<1>1. \A s \in Sessions : pc'[s] = pc[s] /\ todo'[s] = todo[s]
  BY Disjoint DEF ReadLine, Handle, Goto, TypeOK, PlacesOK, ListsOK
<1>2. NoResume' /\ ActiveSockLive' /\ Holders' = Holders
  BY <1>1, NoSessionMoves DEF ReadLine
<1>3. tracked' = [tracked EXCEPT ![u] = ~tracked[u]]
      /\ state' = Transition(state, IF tracked[u] THEN "AIRPLAY_DISCONNECTED"
                                                  ELSE "AIRPLAY_CONNECTED").next
  BY DEF ReadLine, Handle
<1>4. u \in Room!Actors /\ Room!Protocol(u) = "AIRPLAY" /\ u \notin Holders
  BY Disjoint DEF Room!Actors, Room!Protocol, Holders
<1>5. CASE tracked[u]
  <2>1. u \in Engaged /\ Engaged' = Engaged \ {u}
    <3>1. u \in Counted /\ Counted' = Counted \ {u}
      BY <1>3, <1>5 DEF Counted, TypeOK, FlagsOK
    <3> QED  BY <1>2, <1>4, <3>1 DEF Engaged
  <2>2. state' = IF state = "AIRPLAY" THEN "IDLE" ELSE state
    BY <1>3, <1>5, NextState DEF TypeOK, FlagsOK
  <2> QED  BY <1>2, <1>4, <2>1, <2>2 DEF RoomStep, Room!Next, Room!Leave
<1>6. CASE ~tracked[u]
  <2>1. u \notin Engaged /\ Engaged' = Engaged \cup {u}
    <3>1. u \notin Counted /\ Counted' = Counted \cup {u}
      BY <1>3, <1>6 DEF Counted, TypeOK, FlagsOK
    <3> QED  BY <1>2, <1>4, <3>1 DEF Engaged
  <2>2. state' = IF state = "IDLE" THEN "AIRPLAY" ELSE state
    BY <1>3, <1>6, NextState DEF TypeOK, FlagsOK
  <2> QED  BY <1>2, <1>4, <2>1, <2>2 DEF RoomStep, Room!Next, Room!Join
<1> QED  BY <1>5, <1>6

LEMMA InvPump ==
  ASSUME TypeOK, NoResume, ActiveSockLive, NEW u \in UxPlays, PumpStep(u)
  PROVE  NoResume' /\ ActiveSockLive' /\ RoomStep
<1>1. CASE ReadLine(u)
  BY <1>1, InvReadLine
<1>2. CASE EndOfOutput(u) \/ Exited(u) \/ Relaunching(u)
  <2>1. \A s \in Sessions : pc'[s] = pc[s] /\ todo'[s] = todo[s]
    BY <1>2, Disjoint DEF EndOfOutput, Exited, Relaunching, Goto, TypeOK, PlacesOK
  <2>2. UNCHANGED <<state, tracked, activeSock>>
    BY <1>2 DEF EndOfOutput, Exited, Relaunching
  <2> QED  BY <2>1, <2>2, NoSessionMoves, NothingHappens DEF Counted
<1>3. CASE Bereaved(u)
  <2>1. \A s \in Sessions : pc'[s] = pc[s] /\ todo'[s] = todo[s]
    BY <1>3, Disjoint DEF Bereaved, Handle, Goto, TypeOK, PlacesOK, ListsOK
  <2>2. UNCHANGED <<tracked, activeSock>>
    BY <1>3 DEF Bereaved
  <2>3. state' = IF state = "AIRPLAY" THEN "IDLE" ELSE state
    BY <1>3, NextState DEF Bereaved, Handle, TypeOK, FlagsOK
  <2>4. NoResume' /\ ActiveSockLive' /\ Engaged' = Engaged
    BY <2>1, <2>2, NoSessionMoves DEF Engaged, Counted
  <2> QED  BY <2>3, <2>4 DEF RoomStep, Room!Next, Room!Reclaim
<1>4. CASE Relaunch(u)
  <2>1. todo' = todo /\ UNCHANGED <<state, activeSock>>
    BY <1>4 DEF Relaunch
  <2>2. CASE Goto(u, "off") /\ UNCHANGED <<life, uxplay>>
    <3>1. \A s \in Sessions : pc'[s] = pc[s]
      BY <2>2, Disjoint DEF Goto, TypeOK, PlacesOK
    <3> QED  BY <2>1, <2>2, <3>1, NoSessionMoves, NothingHappens DEF Counted
  <2>3. CASE \E v \in UxPlays : LaunchUxPlay(v, [pc EXCEPT ![u] = "off"])
    BY <2>1, <2>3, Launches
  <2> QED  BY <1>4, <2>2, <2>3 DEF Relaunch
<1>5. CASE Dispatch(u)
  BY <1>5, InvDispatch
<1> QED  BY <1>1, <1>2, <1>3, <1>4, <1>5 DEF PumpStep

LEMMA InvOthers ==
  ASSUME TypeOK, NoResume, ActiveSockLive,
         \/ WatchStep
         \/ \E c \in Children : ChildDies(c) \/ ChildCrashes(c)
         \/ \E p \in Renders : FirstFrame(p)
         \/ \E u \in UxPlays : AirPlayClient(u)
         \/ UNCHANGED vars
  PROVE  NoResume' /\ ActiveSockLive' /\ RoomStep
<1>1. UNCHANGED <<state, pc, todo, tracked, activeSock>>
  BY WatchMoves DEF ChildDies, ChildCrashes, FirstFrame, AirPlayClient, vars
<1> QED  BY <1>1, NoSessionMoves, NothingHappens DEF Counted

LEMMA RoomNext ==
  TypeOK /\ NoResume /\ ActiveSockLive /\ [Next]_vars => NoResume' /\ ActiveSockLive' /\ RoomStep
  BY InvSession, InvRecovery, InvPump, InvOthers DEF Next, Environment

LEMMA RoomInit == Init => NoResume /\ ActiveSockLive /\ Custody /\ Room!Init
<1> SUFFICES ASSUME Init PROVE NoResume /\ ActiveSockLive /\ Custody /\ Room!Init
  OBVIOUS
<1>1. \A s \in Sessions : pc[s] = "off" /\ todo[s] = <<>>
  BY Disjoint DEF Init
<1>2. <<>> \in Seq(PumpActions)
  OBVIOUS
<1>3. Holders = {} /\ Counted = {}
  BY <1>1 DEF Init, Holders, HoldingPlaces, Counted
<1> QED  BY <1>1, <1>2, <1>3 DEF Init, NoResume, ActiveSockLive, Custody, Room!Init, Engaged

(* Of the room alone: while it is in MIRACAST a source is in it, because   *)
(* the first source to leave frees it.                                     *)
LEMMA CustodyStep ==
  ASSUME Custody, RoomStep
  PROVE  Custody'
<1>1. Engaged \cap Sessions = Holders /\ Engaged' \cap Sessions = Holders'
  BY Disjoint DEF Engaged, Holders, Counted
<1>2. Custody <=> (state = "MIRACAST" => Holders # {})
  BY DEF Custody, Holders
<1>3. Custody' <=> (state' = "MIRACAST" => Holders' # {})
  BY DEF Custody, Holders
<1>4. CASE UNCHANGED <<state, Engaged>>
  BY <1>1, <1>2, <1>3, <1>4
<1>5. CASE Room!Reclaim
  BY <1>3, <1>5 DEF Room!Reclaim
<1>6. ASSUME NEW a \in Room!Actors, Room!Join(a)
      PROVE  Custody'
  BY <1>1, <1>2, <1>3, <1>6 DEF Room!Join, Room!Protocol
<1>7. ASSUME NEW a \in Engaged, Room!Leave(a)
      PROVE  Custody'
  <2>1. CASE a \in Sessions
    BY <1>2, <1>3, <1>7, <2>1 DEF Room!Leave, Room!Protocol
  <2>2. CASE a \notin Sessions
    BY <1>1, <1>2, <1>3, <1>7, <2>2 DEF Room!Leave, Room!Protocol
  <2> QED  BY <2>1, <2>2
<1>8. ASSUME NEW a \in Engaged, Room!Vanish(a)
      PROVE  Custody'
  BY <1>1, <1>2, <1>3, <1>8, Disjoint DEF Room!Vanish
<1> QED  BY <1>4, <1>5, <1>6, <1>7, <1>8 DEF RoomStep, Room!Next

LEMMA InvNext == Inv /\ [Next]_vars => Inv' /\ RoomStep
  BY TypeNext, RoomNext, CustodyStep DEF Inv

LEMMA InvCorrect == Spec => []Inv
<1>1. Init => Inv
  BY TypeInit, RoomInit DEF Inv
<1> QED  BY <1>1, InvNext, PTL DEF Spec

(* The room is in MIRACAST only while some session thread still owes its   *)
(* MIRACAST_DISCONNECTED, or died of an exception nobody catches.          *)
THEOREM CustodyHolds == Spec => []Custody
<1>1. Inv => Custody
  BY DEF Inv
<1> QED  BY <1>1, InvCorrect, PTL

(* The stream watchdog never gets hold of the socket of a finished session.*)
THEOREM ActiveSockLiveHolds == Spec => []ActiveSockLive
<1>1. Inv => ActiveSockLive
  BY DEF Inv
<1> QED  BY <1>1, InvCorrect, PTL

(* castd implements Arbitration: each of its steps is a step of the room   *)
(* or leaves the room alone, whatever the order of its threads.            *)
THEOREM ArbitrationImplemented == Spec => ArbitrationKept
<1>1. Init => Room!Init
  BY RoomInit
<1>2. Inv /\ [Next]_vars => [Room!Next]_(Room!vars)
  BY InvNext DEF RoomStep, Room!vars
<1> QED  BY <1>1, <1>2, InvCorrect, PTL DEF Spec, ArbitrationKept, Room!Spec
-----------------------------------------------------------------------------
(* One pipeline at a time.  RenderProcess has no lock: start() and stop()  *)
(* are called by session threads, recovery threads and pumps, and stop()   *)
(* drops _proc whatever it holds after the wait.  What a lock around the   *)
(* two methods would ensure: while a thread waits in stop(), no other one  *)
(* gets into stop(), and no pipeline is started.                           *)
Waiting(t) == waitFor[t] \in Renders

Locked ==
  \A t \in Threads : Waiting(t) =>
    /\ proc' \in {proc, None}
    /\ \A v \in Threads \ {t} : ~Waiting(v)'

(* Who waits in stop() waits for the pipeline that _proc holds, alone.     *)
InStop ==
  /\ \A t \in Threads : Waiting(t) => waitFor[t] = proc
  /\ \A t, v \in Threads : Waiting(t) /\ Waiting(v) => t = v

(* Steps that start no pipeline and have nothing to do with stop().        *)
Aside ==
  /\ proc' = proc
  /\ \A t \in Threads : waitFor'[t] = waitFor[t] \/ ~Waiting(t)'
  /\ \A p \in Renders : life'[p] # "dead" => life[p] # "dead"

RenderStep == \/ Aside
              \/ \E t \in Threads : RenderStop(t) \/ RenderStopped(t)
              \/ (\E p \in Renders : Spawn(p)) /\ UNCHANGED waitFor

LEMMA AsideLaunch ==
  ASSUME ChildrenOK, NEW v \in UxPlays, life' = [life EXCEPT ![v] = "up"],
         UNCHANGED <<proc, waitFor>>
  PROVE  Aside
  BY Disjoint DEF Aside, ChildrenOK

LEMMA AsideRaise ==
  ASSUME TypeOK, NEW t \in Threads, Raise(t), UNCHANGED <<life, proc>>
  PROVE  Aside
<1>1. \A v \in Threads : waitFor'[v] = waitFor[v] \/ ~Waiting(v)'
  BY Disjoint, NoneAssumption DEF Raise, Waiting, TypeOK, ChildrenOK
<1> QED  BY <1>1 DEF Aside

LEMMA RenderStops ==
  ASSUME TypeOK, NEW t \in Threads, StopRender(t)
  PROVE  RenderStep
<1>1. CASE RenderStopNothing(t)
  BY <1>1 DEF RenderStep, Aside, RenderStopNothing
<1>2. CASE RenderStopRaises(t)
  BY <1>2, AsideRaise DEF RenderStep, RenderStopRaises
<1> QED  BY <1>1, <1>2 DEF StopRender, RenderStep

LEMMA RenderDispatch ==
  ASSUME TypeOK, NEW t \in Sessions \cup UxPlays, Dispatch(t)
  PROVE  RenderStep
<1>1. CASE StopRender(t)
  BY <1>1, RenderStops
<1>2. CASE SetSessionAvailable(t) \/ PaintOrLog(t) \/ ReadState(t) \/ PublishHealth(t)
  BY <1>2 DEF RenderStep, Aside, SetSessionAvailable, PaintOrLog, ReadState, PublishHealth
<1>6. CASE ResumeAirPlayRaises(t) \/ PauseAirPlayRaises(t)
  BY <1>6, AsideRaise DEF RenderStep, ResumeAirPlayRaises, PauseAirPlayRaises
<1>3. CASE PauseAirPlay(t)
  <2>1. proc' = proc
    BY <1>3 DEF PauseAirPlay
  <2>2. CASE UNCHANGED <<waitFor, life>>
    BY <2>1, <2>2 DEF RenderStep, Aside
  <2>3. CASE uxProc # None /\ Terminate(t, uxProc)
    <3>1. uxProc \in UxPlays /\ uxProc \notin Renders
      BY <2>3, Disjoint DEF TypeOK, ChildrenOK
    <3>2. \A v \in Threads : waitFor'[v] = waitFor[v] \/ ~Waiting(v)'
      BY <2>3, <3>1 DEF Terminate, Waiting, TypeOK, ChildrenOK
    <3>3. \A p \in Renders : life'[p] = life[p]
      BY <2>3, <3>1 DEF Terminate, TypeOK, ChildrenOK
    <3> QED  BY <2>1, <3>2, <3>3 DEF RenderStep, Aside
  <2> QED  BY <1>3, <2>2, <2>3 DEF PauseAirPlay
<1>4. CASE AirPlayPaused(t)
  <2>1. \A v \in Threads : waitFor'[v] = waitFor[v] \/ ~Waiting(v)'
    BY <1>4, NoneAssumption DEF AirPlayPaused, Waiting, TypeOK, ChildrenOK
  <2> QED  BY <1>4, <2>1 DEF RenderStep, Aside, AirPlayPaused
<1>5. CASE ResumeAirPlay(t)
  BY <1>5, AsideLaunch DEF RenderStep, ResumeAirPlay, LaunchUxPlay, TypeOK
<1> QED  BY <1>1, <1>2, <1>3, <1>4, <1>5, <1>6 DEF Dispatch, PauseAirPlayEnds

LEMMA RenderSteps ==
  ASSUME TypeOK, [Next]_vars
  PROVE  RenderStep
<1>1. ASSUME NEW s \in Sessions, SessionStep(s) \/ Arrive(s) \/ SourceLeaves(s)
      PROVE  RenderStep
  <2>1. CASE StartRender(s)
    BY <2>1 DEF StartRender, RenderStep
  <2>2. CASE Dispatch(s)
    BY <2>2, RenderDispatch
  <2>3. CASE ~StartRender(s) /\ ~Dispatch(s)
    <3>1. UNCHANGED <<proc, waitFor, life>>
      BY <1>1, <2>3 DEF SessionStep, Arrive, SourceLeaves, NoticeClosed, Authorize, DialFails,
                        Open, Connect, Negotiated, NegotiationFails, StartRenderFails,
                        StartRenderRaises, Arm, EndPump, Disconnect, Leave
    <3> QED  BY <3>1 DEF RenderStep, Aside
  <2> QED  BY <2>1, <2>2, <2>3
<1>2. ASSUME NEW r \in Recoveries, RecoveryStep(r)
      PROVE  RenderStep
  <2>1. CASE RecoveryStart(r)
    BY <2>1 DEF RecoveryStart, RenderStep
  <2>2. CASE StopRender(r)
    BY <2>2, RenderStops
  <2>3. CASE UNCHANGED <<proc, waitFor, life>>
    BY <2>3 DEF RenderStep, Aside
  <2> QED
    BY <1>2, <2>1, <2>2, <2>3
    DEF RecoveryStep, RecoveryWait, RecoveryCheck, RecoveryLower, RecoveryRecheck,
        RecoveryStartRaises, RecoveryRearm
<1>3. ASSUME NEW u \in UxPlays, PumpStep(u)
      PROVE  RenderStep
  <2>1. CASE Dispatch(u)
    BY <2>1, RenderDispatch
  <2>2. CASE Relaunch(u)
    <3>1. CASE UNCHANGED life
      BY <2>2, <3>1 DEF Relaunch, RenderStep, Aside
    <3>2. CASE \E v \in UxPlays : life' = [life EXCEPT ![v] = "up"]
      BY <2>2, <3>2, AsideLaunch DEF Relaunch, RenderStep, TypeOK
    <3> QED  BY <2>2, <3>1, <3>2 DEF Relaunch, LaunchUxPlay
  <2>3. CASE UNCHANGED <<proc, waitFor, life>>
    BY <2>3 DEF RenderStep, Aside
  <2> QED
    BY <1>3, <2>1, <2>2, <2>3
    DEF PumpStep, ReadLine, EndOfOutput, Exited, Bereaved, Relaunching
<1>4. ASSUME NEW c \in Children, ChildDies(c) \/ ChildCrashes(c)
      PROVE  RenderStep
  BY <1>4 DEF ChildDies, ChildCrashes, RenderStep, Aside, TypeOK, ChildrenOK
<1>5. CASE \/ WatchStep \/ \E p \in Renders : FirstFrame(p)
           \/ \E u \in UxPlays : AirPlayClient(u)
           \/ UNCHANGED vars
  BY <1>5, WatchMoves DEF FirstFrame, AirPlayClient, vars, RenderStep, Aside
<1> QED  BY <1>1, <1>2, <1>3, <1>4, <1>5 DEF Next, Environment

LEMMA RenderStopTerminates ==
  ASSUME TypeOK, NEW t \in Threads, RenderStop(t)
  PROVE  /\ proc' = proc /\ proc \in Renders
         /\ waitFor' = [waitFor EXCEPT ![t] = proc]
         /\ life' = [life EXCEPT ![proc] = IF @ = "up" THEN "term" ELSE @]
  BY DEF RenderStop, Terminate, TypeOK, ChildrenOK

LEMMA OrphanStep ==
  ASSUME TypeOK, InStop, NoOrphan, RenderStep, Locked \/ UNCHANGED vars
  PROVE  InStop' /\ NoOrphan'
<1>1. CASE Aside
  BY <1>1 DEF Aside, InStop, NoOrphan, Waiting
<1>2. CASE UNCHANGED vars
  BY <1>2 DEF vars, InStop, NoOrphan, Waiting
<1>3. ASSUME NEW t \in Threads, RenderStop(t), Locked
      PROVE  InStop' /\ NoOrphan'
  <2>1. /\ proc' = proc /\ proc \in Renders
        /\ waitFor' = [waitFor EXCEPT ![t] = proc]
        /\ life' = [life EXCEPT ![proc] = IF @ = "up" THEN "term" ELSE @]
    BY <1>3, RenderStopTerminates
  <2>2. Waiting(t)'
    BY <2>1 DEF Waiting, TypeOK, ChildrenOK
  <2>3. ASSUME NEW v \in Threads \ {t} PROVE ~Waiting(v) /\ ~Waiting(v)'
    <3>1. Waiting(v) => ~Waiting(t)'
      BY <1>3 DEF Locked
    <3>2. waitFor'[v] = waitFor[v]
      BY <2>1 DEF TypeOK, ChildrenOK
    <3> QED  BY <2>2, <3>1, <3>2 DEF Waiting
  <2>4. InStop'
    BY <2>1, <2>3 DEF InStop, TypeOK, ChildrenOK
  <2>5. NoOrphan'
    BY <2>1 DEF NoOrphan, TypeOK, ChildrenOK
  <2> QED  BY <2>4, <2>5
<1>4. ASSUME NEW t \in Threads, RenderStopped(t)
      PROVE  InStop' /\ NoOrphan'
  <2>1. /\ Waiting(t) /\ life[waitFor[t]] = "dead" /\ life' = life
        /\ waitFor' = [waitFor EXCEPT ![t] = None]
    BY <1>4 DEF RenderStopped, Waiting
  <2>2. \A v \in Threads : ~Waiting(v)'
    BY <2>1, NoneAssumption DEF InStop, Waiting, TypeOK, ChildrenOK
  <2>3. NoOrphan'
    BY <2>1 DEF InStop, NoOrphan
  <2> QED  BY <2>2, <2>3 DEF InStop
<1>5. ASSUME NEW p \in Renders, Spawn(p), UNCHANGED waitFor, Locked
      PROVE  InStop' /\ NoOrphan'
  <2>1. /\ proc' = p /\ p # proc /\ p # None /\ ~IsRunning(proc)
        /\ life' = [life EXCEPT ![p] = "up"]
    BY <1>5, NoneAssumption DEF Spawn, Free
  <2>2. \A t \in Threads : ~Waiting(t)
    BY <1>5, <2>1 DEF Locked
  <2>3. \A t \in Threads : ~Waiting(t)'
    BY <1>5, <2>2 DEF Waiting
  <2>4. NoOrphan'
    BY <2>1, NoneAssumption DEF NoOrphan, IsRunning, TypeOK, ChildrenOK
  <2> QED  BY <2>3, <2>4 DEF InStop
<1> QED  BY <1>1, <1>2, <1>3, <1>4, <1>5 DEF RenderStep

(* With that lock no schedule of sessions, recovery threads and pumps and  *)
(* no crash leaves a pipeline behind that render._proc does not hold.  The *)
(* code has no such lock: what NoOrphan rests on in a run is that the      *)
(* calls do not overlap.                                                   *)
THEOREM LockPreventsOrphans == Spec /\ [][Locked]_vars => []NoOrphan
<1>1. Init => InStop /\ NoOrphan
  BY Disjoint, NoneAssumption DEF Init, InStop, NoOrphan, Waiting
<1>2. TypeOK /\ InStop /\ NoOrphan /\ [Next]_vars /\ [Locked]_vars => InStop' /\ NoOrphan'
  BY RenderSteps, OrphanStep
<1> QED  BY <1>1, <1>2, TypeCorrect, PTL DEF Spec
-----------------------------------------------------------------------------
(* Sessions that come one by one, while no AirPlay client has the room:    *)
(* what the daemon keeps when only recovery threads, UxPlay's crashes and  *)
(* the stream watch thread get in its way.                                 *)
Present(s) == pc[s] \notin {"off", "dialing", "died", "aborted"}
Presenting(s) == pc[s] \in HoldingPlaces \ {"died"}

OneAtATime == \A s, v \in Sessions : Present(s) /\ Present(v) => s = v
OneByOne == OneAtATime /\ state # "AIRPLAY"

SocketHeld == \A s \in Sessions : Present(s) => activeSock = s
RoomHeld == \A s \in Sessions : Presenting(s) => state = "MIRACAST"

(* The gate is up, or some recovery thread is going to put it up: one that *)
(* has a pipeline of its own, one that is about to stop whatever runs, or  *)
(* one that finds nothing running.                                         *)
Covered ==
  \/ expected
  \/ \E r \in Recoveries : pc[r] \in {"rolling", "rearming"}
  \/ ~IsRunning(proc) /\ \E r \in Recoveries : pc[r] \in {"rechecking", "rerolling"}

Guarded == \A s \in Sessions : pc[s] = "pumping" /\ sockOpen[s] => Covered

Gate == SocketHeld /\ RoomHeld /\ Guarded

(* What a tick of the watch thread that is about to lower the gate leaves  *)
(* alone: a session whose handshake began during the tick.                 *)
Started == {"replacing", "starting", "arming", "pumping"}
Doomed(s) == s \in fresh \/ ~sockOpen[s]

Ticks ==
  /\ wpc = "asleep" => fresh = {}
  /\ \A s \in fresh : pc[s] \notin Started
  /\ wpc = "lowering" => \A s \in Sessions : Presenting(s) => Doomed(s)
  /\ wpc = "closingDead" => \A s \in Sessions : Presenting(s) => Doomed(s) \/ s = sampled

(* A presented pipeline that was dropped is one that is being re-rolled.   *)
Dropped ==
  proc = None /\ (\E s \in Sessions : pc[s] \in {"arming", "pumping"})
    => \E r \in Recoveries : pc[r] \in {"rechecking", "rerolling"}

(* While AirPlay does not get the room its pumps only reject clients.      *)
Rejection == <<"LOG_REJECTED_CONNECTION">>
PumpsMild == \A u \in UxPlays : pc[u] \in Dispatching => todo[u] \in {Rejection, <<>>}

Lull == Ticks /\ Dropped /\ PumpsMild

LEMMA RaiseFrame ==
  ASSUME TypeOK, NEW t \in Threads, Raise(t)
  PROVE  /\ \A v \in Threads \ {t} : pc'[v] = pc[v] /\ todo'[v] = todo[v]
         /\ \A v \in Sessions \ {t} : sockOpen'[v] = sockOpen[v]
         /\ t \notin Sessions => UNCHANGED control
         /\ t \in Sessions => pc'[t] \in {"died", "aborted"}
         /\ t \in UxPlays => pc'[t] \in {"died", "aborted"}
         /\ t \in Recoveries => pc'[t] = "off"
  BY Disjoint DEF Raise, Goto, TypeOK, PlacesOK, ListsOK, FlagsOK

LEMMA StopFrame ==
  ASSUME TypeOK, NEW t \in Threads, StopRender(t)
  PROVE  /\ UNCHANGED <<arbitration, expected, tries, uxplay, watch>>
         /\ \A v \in Threads \ {t} : pc'[v] = pc[v] /\ todo'[v] = todo[v]
         /\ \A v \in Sessions \ {t} : sockOpen'[v] = sockOpen[v]
         /\ t \notin Sessions => UNCHANGED control
         /\ ~RenderStopRaises(t) => UNCHANGED control
<1>1. CASE RenderStopRaises(t)
  BY <1>1, RaiseFrame DEF RenderStopRaises
<1>2. CASE RenderStop(t) \/ RenderStopNothing(t) \/ RenderStopped(t)
  BY <1>2 DEF RenderStop, RenderStopNothing, RenderStopped, AfterStop, Carried, Goto, TypeOK,
              PlacesOK, ListsOK
<1> QED  BY <1>1, <1>2 DEF StopRender

LEMMA DispatchFrame ==
  ASSUME TypeOK, NEW t \in Sessions \cup UxPlays, Dispatch(t)
  PROVE  /\ UNCHANGED <<state, expected, tries, watch>>
         /\ \A v \in Sessions \cup Recoveries : v # t => pc'[v] = pc[v]
         /\ \A v \in UxPlays \ {t} : pc'[v] = pc[v] \/ pc'[v] = "reading"
         /\ \A v \in Threads \ {t} : todo'[v] = todo[v]
         /\ \A v \in Sessions \ {t} : sockOpen'[v] = sockOpen[v]
         /\ t \notin Sessions => UNCHANGED control
<1>1. CASE StopRender(t)
  BY <1>1, StopFrame
<1>2. CASE ResumeAirPlayRaises(t) \/ PauseAirPlayRaises(t)
  BY <1>2, RaiseFrame DEF ResumeAirPlayRaises, PauseAirPlayRaises
<1>3. CASE PauseAirPlay(t) \/ AirPlayPaused(t) \/ SetSessionAvailable(t) \/ PaintOrLog(t)
  BY <1>3 DEF PauseAirPlay, AirPlayPaused, SetSessionAvailable, PaintOrLog, Carried, TypeOK, ListsOK
<1>4. CASE ResumeAirPlay(t)
  BY <1>4, Disjoint DEF ResumeAirPlay, LaunchUxPlay, Carried, TypeOK, PlacesOK, ListsOK
<1>5. CASE ReadState(t) \/ PublishHealth(t)
  BY <1>5 DEF ReadState, PublishHealth, Goto, TypeOK, PlacesOK
<1> QED  BY <1>1, <1>2, <1>3, <1>4, <1>5 DEF Dispatch, PauseAirPlayEnds

LEMMA SessionFrame ==
  ASSUME TypeOK, NEW s \in Sessions, SessionStep(s) \/ Arrive(s) \/ SourceLeaves(s)
  PROVE  /\ wpc' = wpc
         /\ \A v \in Sessions \ {s} : pc'[v] = pc[v] /\ sockOpen'[v] = sockOpen[v]
         /\ \A r \in Recoveries : pc'[r] = pc[r] \/ (pc[r] = "off" /\ pc'[r] = "waiting")
         /\ \A u \in UxPlays : pc'[u] = pc[u] \/ pc'[u] = "reading"
         /\ \A t \in Threads \ {s} : todo'[t] = todo[t]
<1>1. CASE Dispatch(s)
  BY <1>1, DispatchFrame, Disjoint
<1>2. CASE Arm(s)
  BY <1>2, Disjoint DEF Arm, Goto, TypeOK, PlacesOK
<1>3. CASE Authorize(s) \/ DialFails(s) \/ Open(s) \/ Connect(s) \/ Disconnect(s)
  BY <1>3, Disjoint DEF Authorize, DialFails, Open, Connect, Disconnect, Handle, Goto,
     TypeOK, PlacesOK, ListsOK, FlagsOK
<1>4. CASE Negotiated(s) \/ NegotiationFails(s) \/ StartRender(s) \/ StartRenderFails(s)
           \/ StartRenderRaises(s) \/ EndPump(s) \/ Leave(s)
  BY <1>4, Disjoint DEF Negotiated, NegotiationFails, StartRender, StartRenderFails,
     StartRenderRaises, EndPump, Leave, Goto, TypeOK, PlacesOK, FlagsOK
<1> QED  BY <1>1, <1>2, <1>3, <1>4 DEF SessionStep, Arrive, SourceLeaves, NoticeClosed

LEMMA RecoveryFrame ==
  ASSUME TypeOK, NEW r \in Recoveries, RecoveryStep(r)
  PROVE  /\ UNCHANGED <<arbitration, uxplay, control, watch>>
         /\ \A t \in Threads \ {r} : pc'[t] = pc[t] /\ todo'[t] = todo[t]
<1>1. CASE StopRender(r)
  BY <1>1, StopFrame, Disjoint
<1>2. CASE ~StopRender(r)
  BY <1>2, Disjoint DEF RecoveryStep, RecoveryWait, RecoveryCheck, RecoveryLower, RecoveryRecheck,
     RecoveryStart, RecoveryStartRaises, RecoveryRearm, Goto, TypeOK, PlacesOK
<1> QED  BY <1>1, <1>2

LEMMA PumpFrame ==
  ASSUME TypeOK, NEW u \in UxPlays, PumpStep(u)
  PROVE  /\ UNCHANGED <<expected, tries, control, watch>>
         /\ \A v \in Sessions \cup Recoveries : pc'[v] = pc[v]
         /\ \A v \in UxPlays \ {u} : pc'[v] = pc[v] \/ pc'[v] = "reading"
         /\ \A t \in Threads \ {u} : todo'[t] = todo[t]
<1>1. CASE Dispatch(u)
  BY <1>1, DispatchFrame, Disjoint
<1>2. CASE ReadLine(u) \/ EndOfOutput(u) \/ Exited(u) \/ Bereaved(u) \/ Relaunching(u)
  BY <1>2, Disjoint DEF ReadLine, EndOfOutput, Exited, Bereaved, Relaunching, Handle, Goto,
     TypeOK, PlacesOK, ListsOK
<1>3. CASE Relaunch(u)
  BY <1>3, Disjoint DEF Relaunch, LaunchUxPlay, Goto, TypeOK, PlacesOK
<1> QED  BY <1>1, <1>2, <1>3 DEF PumpStep

LEMMA MildDispatch ==
  ASSUME TypeOK, PumpsMild, NEW u \in UxPlays, Dispatch(u)
  PROVE  /\ todo[u] \in {Rejection, <<>>}
         /\ PaintOrLog(u) \/ ReadState(u) \/ PublishHealth(u)
<1>1. Head(Rejection) = "LOG_REJECTED_CONNECTION"
  BY DEF Rejection
<1>2. pc[u] \in Dispatching \ {"replacing", "rolling"} /\ todo[u] \in {Rejection, <<>>}
  BY DEF Dispatch, PauseAirPlayEnds, StopRender, RenderStop, RenderStopNothing,
     RenderStopped, RenderStopRaises,
     StoppingRender, PauseAirPlay, AirPlayPaused, PauseAirPlayRaises, ResumeAirPlay,
     ResumeAirPlayRaises, SetSessionAvailable, PaintOrLog, ReadState, PublishHealth, Pending,
     PumpsMild, Dispatching, TypeOK, PlacesOK, UxPlayPlaces
<1> QED
  BY <1>1, <1>2 DEF Dispatch, PauseAirPlayEnds, StopRender, RenderStop, RenderStopNothing,
     RenderStopped,
     RenderStopRaises, StoppingRender, PauseAirPlay, AirPlayPaused, PauseAirPlayRaises,
     ResumeAirPlay, ResumeAirPlayRaises, SetSessionAvailable, Pending

LEMMA MildNext ==
  ASSUME TypeOK, PumpsMild, state # "AIRPLAY", state' # "AIRPLAY", [Next]_vars
  PROVE  PumpsMild'
<1>1. ASSUME NEW s \in Sessions, SessionStep(s) \/ Arrive(s) \/ SourceLeaves(s)
      PROVE  PumpsMild'
  BY <1>1, SessionFrame, Disjoint DEF PumpsMild, Dispatching
<1>2. ASSUME NEW r \in Recoveries, RecoveryStep(r)
      PROVE  PumpsMild'
  BY <1>2, RecoveryFrame, Disjoint DEF PumpsMild
<1>3. ASSUME NEW u \in UxPlays, PumpStep(u)
      PROVE  PumpsMild'
  <2>1. ASSUME pc'[u] \in Dispatching  PROVE todo'[u] \in {Rejection, <<>>}
    <3>1. CASE ReadLine(u)
      BY <3>1 DEF ReadLine, Handle, Transition, To, Rejected, Rejection, EnterAirPlay, TypeOK,
                  ListsOK, FlagsOK, States
    <3>2. CASE Bereaved(u)
      BY <3>2 DEF Bereaved, Handle, Transition, To, Rejected, Rejection, TypeOK, ListsOK, FlagsOK,
                  States
    <3>3. CASE EndOfOutput(u) \/ Exited(u) \/ Relaunching(u)
      BY <2>1, <3>3 DEF EndOfOutput, Exited, Relaunching, Goto, Dispatching, TypeOK, PlacesOK
    <3>4. CASE Relaunch(u)
      BY <2>1, <3>4 DEF Relaunch, LaunchUxPlay, FreeUxPlay, Goto, Dispatching, TypeOK, PlacesOK
    <3>5. CASE Dispatch(u)
      <4> QED  BY <3>5, MildDispatch DEF PaintOrLog, ReadState, PublishHealth, Carried, Pending,
                  TypeOK, ListsOK, Rejection
    <3> QED  BY <1>3, <3>1, <3>2, <3>3, <3>4, <3>5 DEF PumpStep
  <2> QED  BY <1>3, <2>1, PumpFrame, Disjoint DEF PumpsMild, Dispatching
<1>4. CASE \/ WatchStep
           \/ \E c \in Children : ChildDies(c) \/ ChildCrashes(c)
           \/ \E p \in Renders : FirstFrame(p)
           \/ \E u \in UxPlays : AirPlayClient(u)
           \/ UNCHANGED vars
  BY <1>4, WatchMoves DEF ChildDies, ChildCrashes, FirstFrame, AirPlayClient, vars, PumpsMild
<1> QED  BY <1>1, <1>2, <1>3, <1>4 DEF Next, Environment

(* A session joins a tick only with its MIRACAST_CONNECTED, and then does  *)
(* not get through its handshake before the tick is over.                  *)
LEMMA TicksSession ==
  ASSUME TypeOK, Ticks, "longtick" \notin Env, NEW s \in Sessions,
         SessionStep(s) \/ Arrive(s) \/ SourceLeaves(s)
  PROVE  Ticks'
<1> USE DEF Goto, TypeOK, PlacesOK, Presenting, HoldingPlaces, Started
<1>1. /\ wpc' = wpc
      /\ \A v \in Sessions \ {s} : pc'[v] = pc[v] /\ sockOpen'[v] = sockOpen[v]
  BY SessionFrame
<1>2. CASE Connect(s)
  <2>1. /\ pc'[s] = "connecting" /\ UNCHANGED <<sockOpen, sampled>>
        /\ IF wpc = "asleep" THEN fresh' = fresh ELSE fresh' = fresh \cup {s}
    BY <1>2 DEF Connect
  <2> QED  BY <1>1, <2>1 DEF Ticks, Doomed, FlagsOK
<1>3. CASE Open(s)
  <2>1. /\ pc'[s] = "opened" /\ UNCHANGED fresh
        /\ sampled' = (IF sampled = s THEN None ELSE sampled)
    BY <1>3 DEF Open
  <2> QED  BY <1>1, <2>1 DEF Ticks, Doomed, FlagsOK
<1>4. ASSUME UNCHANGED <<fresh, sampled>>, sockOpen'[s] => sockOpen[s],
             \/ ~Presenting(s)'
             \/ Presenting(s) /\ (pc'[s] \in Started => pc[s] \in Started \/ s \notin fresh)
      PROVE  Ticks'
  <2>1. \A v \in Sessions : Doomed(v) => Doomed(v)'
    BY <1>1, <1>4 DEF Doomed
  <2>2. \A v \in Sessions : Presenting(v)' => Presenting(v)
    BY <1>1, <1>4
  <2>3. \A v \in fresh' : pc'[v] \notin Started
    BY <1>1, <1>4 DEF Ticks, FlagsOK
  <2> QED  BY <1>1, <1>4, <2>1, <2>2, <2>3 DEF Ticks
<1>5. CASE Authorize(s) \/ DialFails(s) \/ Negotiated(s) \/ NegotiationFails(s)
  BY <1>4, <1>5 DEF Authorize, DialFails, Negotiated, NegotiationFails
<1>6. CASE StartRender(s) \/ StartRenderFails(s) \/ StartRenderRaises(s) \/ EndPump(s)
  BY <1>4, <1>6 DEF StartRender, StartRenderFails, StartRenderRaises, EndPump, FlagsOK
<1>7. CASE Arm(s)
  <2>1. pc'[s] = "pumping" /\ pc[s] = "arming" /\ UNCHANGED <<fresh, sampled, sockOpen>>
    BY <1>7, Disjoint DEF Arm
  <2> QED  BY <1>4, <2>1
<1>8. CASE Disconnect(s) \/ Leave(s)
  BY <1>4, <1>8 DEF Disconnect, Leave, FlagsOK
<1>9. CASE Dispatch(s)
  <2>1. CASE StopRender(s)
    <3>1. CASE RenderStopRaises(s)
      BY <1>4, <3>1 DEF RenderStopRaises, Raise, FlagsOK
    <3>2. CASE RenderStop(s) \/ RenderStopNothing(s) \/ RenderStopped(s)
      BY <1>4, <3>2 DEF RenderStop, RenderStopNothing, RenderStopped, AfterStop, Dispatching,
                        SessionPlaces
    <3> QED  BY <2>1, <3>1, <3>2 DEF StopRender
  <2>2. CASE ResumeAirPlayRaises(s) \/ PauseAirPlayRaises(s)
    BY <1>4, <2>2 DEF ResumeAirPlayRaises, PauseAirPlayRaises, Raise, FlagsOK
  <2>3. CASE PauseAirPlay(s) \/ AirPlayPaused(s) \/ SetSessionAvailable(s) \/ PaintOrLog(s)
             \/ ReadState(s)
    BY <1>4, <2>3 DEF PauseAirPlay, AirPlayPaused, SetSessionAvailable, PaintOrLog, ReadState
  <2>4. CASE ResumeAirPlay(s)
    BY <1>4, <2>4, Disjoint DEF ResumeAirPlay, LaunchUxPlay
  <2>5. CASE PublishHealth(s)
    BY <1>4, <2>5 DEF PublishHealth, AfterDispatch, Dispatching, SessionPlaces
  <2> QED  BY <1>9, <2>1, <2>2, <2>3, <2>4, <2>5 DEF Dispatch, PauseAirPlayEnds
<1> QED
  BY <1>2, <1>3, <1>5, <1>6, <1>7, <1>8, <1>9 DEF SessionStep, Arrive, SourceLeaves, NoticeClosed

(* The tick that is about to lower the gate saw no source, or a pipeline   *)
(* that is dead and a socket it has closed.                                *)
LEMMA TicksWatch ==
  ASSUME TypeOK, SocketHeld, RoomHeld, Ticks, WatchStep
  PROVE  Ticks'
<1> USE WatchMoves DEF Ticks, Presenting, Doomed, TypeOK, FlagsOK
<1>1. CASE WatchState
  BY <1>1 DEF WatchState, WatchGoto, RoomHeld
<1>2. CASE WatchLower \/ WatchGate \/ WatchAlive
  BY <1>2 DEF WatchLower, WatchGate, WatchAlive, WatchGoto
<1>3. CASE WatchTrip
  <2>1. \A s \in Sessions : Presenting(s) => s = activeSock
    BY DEF SocketHeld, Present, HoldingPlaces
  <2> QED  BY <1>3, <2>1 DEF WatchTrip, WatchGoto
<1>4. CASE WatchClose
  BY <1>4 DEF WatchClose, WatchGoto
<1> QED  BY <1>1, <1>2, <1>3, <1>4 DEF WatchStep

LEMMA TicksNext ==
  ASSUME TypeOK, SocketHeld, RoomHeld, Ticks, "longtick" \notin Env, [Next]_vars
  PROVE  Ticks'
<1>1. ASSUME UNCHANGED <<watch, sockOpen>>, \A s \in Sessions : pc'[s] = pc[s]
      PROVE  Ticks'
  BY <1>1 DEF Ticks, Presenting, Doomed, TypeOK, FlagsOK
<1>2. CASE \/ \E c \in Children : ChildDies(c) \/ ChildCrashes(c)
           \/ \E p \in Renders : FirstFrame(p)
           \/ \E u \in UxPlays : AirPlayClient(u)
           \/ UNCHANGED vars
  BY <1>1, <1>2 DEF ChildDies, ChildCrashes, FirstFrame, AirPlayClient, vars
<1>3. ASSUME NEW r \in Recoveries, RecoveryStep(r)  PROVE Ticks'
  BY <1>1, <1>3, RecoveryFrame, Disjoint
<1>4. ASSUME NEW u \in UxPlays, PumpStep(u)  PROVE Ticks'
  BY <1>1, <1>4, PumpFrame
<1> QED  BY <1>2, <1>3, <1>4, TicksSession, TicksWatch DEF Next, Environment

LEMMA DroppedNext ==
  ASSUME TypeOK, RoomHeld, Dropped, PumpsMild, OneAtATime, "spawnfail" \notin Env, [Next]_vars
  PROVE  Dropped'
<1> DEFINE Presents(s) == pc[s] \in {"arming", "pumping"}
           Rolls(r) == pc[r] \in {"rechecking", "rerolling"}
<1>1. ASSUME proc' = proc, \A s \in Sessions : Presents(s)' => Presents(s),
             \A r \in Recoveries : Rolls(r) => Rolls(r)'
      PROVE  Dropped'
  BY <1>1 DEF Dropped
<1>2. ASSUME NEW s \in Sessions, SessionStep(s) \/ Arrive(s) \/ SourceLeaves(s)
      PROVE  Dropped'
  <2>1. /\ \A v \in Sessions \ {s} : pc'[v] = pc[v]
        /\ \A r \in Recoveries : Rolls(r) => Rolls(r)'
    BY <1>2, SessionFrame
  <2>2. CASE StartRender(s)
    BY <2>2, NoneAssumption DEF StartRender, Spawn, Dropped
  <2>3. CASE StopRender(s)
    <3>1. pc[s] \in Dispatching \cup {"replacing"} /\ ~Presents(s)'
      BY <2>3 DEF StopRender, RenderStop, RenderStopNothing, RenderStopped, RenderStopRaises,
         StoppingRender, Pending, AfterStop, Raise, Goto, Dispatching, TypeOK, PlacesOK,
         SessionPlaces
    <3>2. \A v \in Sessions \ {s} : ~Presents(v)
      BY <3>1 DEF OneAtATime, Present, Dispatching
    <3> QED  BY <2>1, <3>1, <3>2 DEF Dropped
  <2>4. CASE Dispatch(s) /\ ~StopRender(s)
    <3>1. proc' = proc
      BY <2>4, StopFrame DEF Dispatch, PauseAirPlayEnds, PauseAirPlay, AirPlayPaused,
         PauseAirPlayRaises, ResumeAirPlay,
         ResumeAirPlayRaises, SetSessionAvailable, PaintOrLog, ReadState, PublishHealth
    <3>2. ~Presents(s)'
      BY <2>4, Disjoint DEF Dispatch, PauseAirPlayEnds, PauseAirPlay, AirPlayPaused,
         PauseAirPlayRaises, ResumeAirPlay,
         ResumeAirPlayRaises, SetSessionAvailable, PaintOrLog, ReadState, PublishHealth,
         LaunchUxPlay, Raise, Goto, Pending, AfterDispatch, Dispatching, TypeOK, PlacesOK
    <3> QED  BY <1>1, <2>1, <3>1, <3>2
  <2>5. CASE ~StartRender(s) /\ ~Dispatch(s)
    <3>1. proc' = proc /\ (Presents(s)' => Presents(s))
      BY <1>2, <2>5, Disjoint DEF SessionStep, Arrive, SourceLeaves, NoticeClosed,
         Authorize, DialFails,
         Open, Connect, Negotiated, NegotiationFails, StartRenderFails, StartRenderRaises, Arm,
         EndPump, Disconnect, Leave, Goto, TypeOK, PlacesOK
    <3> QED  BY <1>1, <2>1, <3>1
  <2> QED  BY <2>2, <2>3, <2>4, <2>5 DEF Dispatch, PauseAirPlayEnds
<1>3. ASSUME NEW r \in Recoveries, RecoveryStep(r)
      PROVE  Dropped'
  <2>1. \A t \in Threads \ {r} : pc'[t] = pc[t]
    BY <1>3, RecoveryFrame
  <2>2. \A s \in Sessions : pc'[s] = pc[s]
    BY <2>1, Disjoint
  <2>3. CASE StopRender(r)
    <3>1. pc[r] = "rolling"
      BY <2>3, Disjoint DEF StopRender, RenderStop, RenderStopNothing, RenderStopped,
         RenderStopRaises, StoppingRender, Pending, Dispatching, TypeOK, PlacesOK, RecoveryPlaces
    <3>2. proc' = proc \/ Rolls(r)'
      BY <2>3, <3>1 DEF StopRender, RenderStop, RenderStopNothing, RenderStopped, RenderStopRaises,
         AfterStop, Goto, Dispatching, TypeOK, PlacesOK
    <3> QED  BY <1>1, <2>1, <2>2, <3>1, <3>2 DEF Dropped
  <2>4. CASE RecoveryStart(r)
    BY <2>4, NoneAssumption DEF RecoveryStart, Spawn, Dropped
  <2>5. CASE RecoveryRecheck(r)
    <3>1. proc' = proc /\ (state = "MIRACAST" => Rolls(r)')
      BY <2>5 DEF RecoveryRecheck, Goto, TypeOK, PlacesOK
    <3>2. (\E s \in Sessions : Presents(s)) => state = "MIRACAST"
      BY DEF RoomHeld, Presenting, HoldingPlaces
    <3> QED  BY <2>1, <2>2, <3>1, <3>2 DEF Dropped
  <2>6. CASE RecoveryStartRaises(r)
    BY <2>6 DEF RecoveryStartRaises, IsRunning, Dropped
  <2>7. CASE RecoveryWait(r) \/ RecoveryCheck(r) \/ RecoveryLower(r) \/ RecoveryRearm(r)
    <3>1. proc' = proc /\ ~Rolls(r)
      BY <2>7 DEF RecoveryWait, RecoveryCheck, RecoveryLower, RecoveryRearm
    <3> QED  BY <1>1, <2>1, <2>2, <3>1
  <2> QED  BY <1>3, <2>3, <2>4, <2>5, <2>6, <2>7 DEF RecoveryStep
<1>4. ASSUME NEW u \in UxPlays, PumpStep(u)
      PROVE  Dropped'
  <2>1. proc' = proc
    BY <1>4, MildDispatch DEF PumpStep, ReadLine, EndOfOutput, Exited, Bereaved, Relaunching,
       Relaunch, PaintOrLog, ReadState, PublishHealth
  <2> QED  BY <1>1, <1>4, <2>1, PumpFrame
<1>5. CASE \/ WatchStep
           \/ \E c \in Children : ChildDies(c) \/ ChildCrashes(c)
           \/ \E p \in Renders : FirstFrame(p)
           \/ \E u \in UxPlays : AirPlayClient(u)
           \/ UNCHANGED vars
  BY <1>5, WatchMoves DEF ChildDies, ChildCrashes, FirstFrame, AirPlayClient, vars, Dropped
<1> QED  BY <1>2, <1>3, <1>4, <1>5 DEF Next, Environment

(* Steps of others, and of sources that do not get as far as a session.    *)
GateKept ==
  /\ UNCHANGED <<state, expected, control>>
  /\ \A s \in Sessions : pc'[s] = pc[s] \/ ~Present(s)'
  /\ \A r \in Recoveries : pc'[r] = pc[r]
  /\ IsRunning(proc)' => IsRunning(proc)

LEMMA GateIdle ==
  ASSUME Gate, GateKept
  PROVE  Gate'
<1>1. Covered => Covered'
  BY DEF Covered, GateKept
<1>2. SocketHeld' /\ RoomHeld'
  BY DEF Gate, GateKept, SocketHeld, RoomHeld, Presenting, Present, HoldingPlaces
<1>3. Guarded'
  BY <1>1 DEF Gate, GateKept, Guarded, Present
<1> QED  BY <1>2, <1>3 DEF Gate

LEMMA GateRender ==
  ASSUME TypeOK, NEW t \in Threads, StopRender(t), ~RenderStopRaises(t)
  PROVE  /\ UNCHANGED <<state, expected, control>>
         /\ IsRunning(proc)' => IsRunning(proc)
         /\ pc' = pc \/ (pc[t] = "replacing" /\ Goto(t, "starting"))
                     \/ (pc[t] = "rolling" /\ Goto(t, "rechecking") /\ ~IsRunning(proc)')
<1>1. CASE RenderStop(t)
  BY <1>1 DEF RenderStop, Terminate, IsRunning, TypeOK, ChildrenOK
<1>2. CASE RenderStopNothing(t) \/ RenderStopped(t)
  BY <1>2 DEF RenderStopNothing, RenderStopped, AfterStop, IsRunning
<1> QED  BY <1>1, <1>2 DEF StopRender

(* A UxPlay that starts or stops is not the pipeline.                      *)
LEMMA GateUxPlay ==
  ASSUME TypeOK, NEW u \in UxPlays, NEW x, life' = [life EXCEPT ![u] = x], proc' = proc
  PROVE  IsRunning(proc)' => IsRunning(proc)
  BY Disjoint DEF IsRunning, TypeOK, ChildrenOK

LEMMA GateLaunch ==
  ASSUME TypeOK, NEW v \in UxPlays, NEW t \in UxPlays, NEW places,
         places = pc \/ places = [pc EXCEPT ![t] = "off"],
         LaunchUxPlay(v, places), UNCHANGED <<state, proc, expected, control>>
  PROVE  GateKept
<1>1. IsRunning(proc)' => IsRunning(proc)
  BY GateUxPlay DEF LaunchUxPlay
<1>2. \A q \in Sessions \cup Recoveries : pc'[q] = pc[q]
  BY Disjoint DEF LaunchUxPlay, TypeOK, PlacesOK
<1> QED  BY <1>1, <1>2 DEF GateKept

(* A step of a session leaves it the only one that is present.             *)
GateOwn(s) ==
  /\ \A v \in Sessions \ {s} : pc'[v] = pc[v]
  /\ Present(s) \/ Present(s)'
  /\ Present(s)' => activeSock' = s
  /\ Presenting(s)' => state' = "MIRACAST"
  /\ pc'[s] = "pumping" => expected'

LEMMA GateAlone ==
  ASSUME OneAtATime, OneAtATime', NEW s \in Sessions, GateOwn(s)
  PROVE  Gate'
<1>1. \A v \in Sessions \ {s} : ~Present(v)'
  BY DEF GateOwn, OneAtATime, Present
<1>2. SocketHeld'
  BY <1>1 DEF GateOwn, SocketHeld
<1>3. RoomHeld'
  BY <1>1 DEF GateOwn, RoomHeld, Presenting, Present, HoldingPlaces
<1>4. Guarded'
  BY <1>1 DEF GateOwn, Guarded, Covered, Present
<1> QED  BY <1>2, <1>3, <1>4 DEF Gate

(* What both sessions and pumps do to carry out a list.                    *)
LEMMA GateList ==
  ASSUME TypeOK, NoResume, Gate, NEW t \in Sessions \cup UxPlays, Dispatch(t)
  PROVE  GateKept \/ (t \in Sessions /\ GateOwn(t))
<1>0. t \in Threads /\ t \notin Recoveries
  BY Disjoint
<1>1. CASE StopRender(t) /\ ~RenderStopRaises(t)
  <2>1. pc[t] # "rolling"
    BY <1>0, <1>1 DEF TypeOK, PlacesOK, SessionPlaces, UxPlayPlaces
  <2>2. CASE pc' = pc
    BY <1>0, <1>1, <2>2, GateRender DEF GateKept
  <2>3. CASE pc[t] = "replacing" /\ Goto(t, "starting")
    <3>1. t \in Sessions
      BY <2>3 DEF TypeOK, PlacesOK, UxPlayPlaces
    <3>2. UNCHANGED <<state, activeSock>>
      BY <1>0, <1>1, GateRender
    <3>3. activeSock = t /\ state = "MIRACAST"
      BY <2>3, <3>1 DEF Gate, SocketHeld, RoomHeld, Present, Presenting, HoldingPlaces
    <3>4. GateOwn(t)
      BY <2>3, <3>1, <3>2, <3>3
      DEF GateOwn, Goto, Present, Presenting, HoldingPlaces, TypeOK, PlacesOK
    <3> QED  BY <3>1, <3>4
  <2> QED  BY <1>0, <1>1, <2>1, <2>2, <2>3, GateRender
<1>2. CASE PauseAirPlay(t)
  <2>1. IsRunning(proc)' => IsRunning(proc)
    <3>1. CASE life' = life
      BY <1>2, <3>1 DEF PauseAirPlay, IsRunning
    <3>2. CASE uxProc # None /\ Terminate(t, uxProc)
      BY <1>2, <3>2, GateUxPlay DEF PauseAirPlay, Terminate, TypeOK, ChildrenOK
    <3> QED  BY <1>2, <3>1, <3>2 DEF PauseAirPlay
  <2> QED  BY <1>2, <2>1 DEF PauseAirPlay, GateKept
<1>3. CASE AirPlayPaused(t) \/ SetSessionAvailable(t) \/ PaintOrLog(t)
  BY <1>3 DEF AirPlayPaused, SetSessionAvailable, PaintOrLog, GateKept, IsRunning
<1>4. CASE ResumeAirPlay(t)
  <2>1. PICK v \in UxPlays : LaunchUxPlay(v, pc)
    BY <1>4 DEF ResumeAirPlay
  <2> QED  BY <1>4, <2>1, GateLaunch DEF ResumeAirPlay
<1>5. CASE RenderStopRaises(t) \/ ResumeAirPlayRaises(t) \/ PauseAirPlayRaises(t)
  <2>1. Raise(t) /\ UNCHANGED <<state, expected, proc, life>>
    BY <1>5 DEF RenderStopRaises, ResumeAirPlayRaises, PauseAirPlayRaises
  <2>2. CASE t \in Sessions
    <3>1. Present(t)
      BY <1>5, <2>2 DEF RenderStopRaises, ResumeAirPlayRaises, PauseAirPlayRaises, StoppingRender,
         Pending, Dispatching, Present
    <3> QED  BY <1>0, <2>1, <2>2, <3>1, RaiseFrame DEF GateOwn, Present, Presenting, HoldingPlaces
  <2>3. CASE t \in UxPlays
    BY <1>0, <2>1, <2>3, RaiseFrame, Disjoint DEF GateKept, IsRunning
  <2> QED  BY <2>2, <2>3
<1>6. CASE ReadState(t) \/ PublishHealth(t)
  <2>1. UNCHANGED <<state, expected, control, proc, life>>
    BY <1>6 DEF ReadState, PublishHealth
  <2>2. CASE t \in UxPlays \/ pc' = pc
    BY <1>6, <2>1, <2>2, Disjoint DEF PublishHealth, ReadState, GateKept, Goto, IsRunning,
       TypeOK, PlacesOK
  <2>3. CASE t \in Sessions /\ PublishHealth(t)
    <3>1. \/ pc[t] = "connecting" /\ Goto(t, "negotiating")
          \/ pc[t] = "closing" /\ Goto(t, "leaving")
      BY <2>3 DEF PublishHealth, AfterDispatch, Dispatching, TypeOK, PlacesOK, SessionPlaces
    <3>2. activeSock = t /\ (pc[t] = "connecting" => state = "MIRACAST")
      BY <2>3, <3>1 DEF Gate, SocketHeld, RoomHeld, Present, Presenting, HoldingPlaces
    <3>3. GateOwn(t)
      BY <2>1, <2>3, <3>1, <3>2
      DEF GateOwn, Goto, Present, Presenting, HoldingPlaces, TypeOK, PlacesOK
    <3> QED  BY <2>3, <3>3
  <2> QED  BY <1>6, <2>2, <2>3 DEF ReadState
<1> QED  BY <1>1, <1>2, <1>3, <1>4, <1>5, <1>6 DEF Dispatch, PauseAirPlayEnds, StopRender

LEMMA GateSession ==
  ASSUME TypeOK, NoResume, Gate, state # "AIRPLAY", NEW s \in Sessions,
         SessionStep(s) \/ Arrive(s) \/ SourceLeaves(s)
  PROVE  GateKept \/ GateOwn(s)
<1> USE DEF Goto, TypeOK, PlacesOK, Present, Presenting, HoldingPlaces
<1>1. CASE Authorize(s) \/ DialFails(s)
  BY <1>1, Disjoint DEF Authorize, DialFails, GateKept, IsRunning
<1>2. CASE Open(s)
  BY <1>2 DEF Open, GateOwn
<1>3. CASE Connect(s)
  <2>1. state' = "MIRACAST"
    BY <1>3, NextState DEF Connect, Handle, FlagsOK, States
  <2>2. activeSock' = s
    BY <1>3 DEF Connect, Gate, SocketHeld
  <2> QED  BY <1>3, <2>1, <2>2 DEF Connect, GateOwn
<1>4. CASE Negotiated(s) \/ NegotiationFails(s) \/ StartRender(s) \/ StartRenderFails(s)
           \/ EndPump(s)
  <2>1. activeSock' = s /\ state' = "MIRACAST"
    BY <1>4 DEF Negotiated, NegotiationFails, StartRender, StartRenderFails, EndPump,
                Gate, SocketHeld, RoomHeld
  <2> QED
    BY <1>4, <2>1 DEF Negotiated, NegotiationFails, StartRender, StartRenderFails, EndPump, GateOwn
<1>5. CASE StartRenderRaises(s) \/ Leave(s)
  BY <1>5 DEF StartRenderRaises, Leave, GateOwn
<1>6. CASE Arm(s)
  <2>1. activeSock' = s /\ state' = "MIRACAST"
    BY <1>6 DEF Arm, Gate, SocketHeld, RoomHeld
  <2>2. \A v \in Sessions \ {s} : pc'[v] = pc[v]
    BY <1>6, Disjoint DEF Arm
  <2> QED  BY <1>6, <2>1, <2>2 DEF Arm, GateOwn
<1>7. CASE Disconnect(s)
  BY <1>7 DEF Disconnect, GateOwn, Gate, SocketHeld
<1>8. CASE Dispatch(s)
  BY <1>8, GateList
<1> QED
  BY <1>1, <1>2, <1>3, <1>4, <1>5, <1>6, <1>7, <1>8 DEF SessionStep, Arrive, SourceLeaves,
     NoticeClosed

(* A recovery thread that gives up leaves the gate to one behind it: what  *)
(* runs was started by a thread that has yet to put the gate up, or is     *)
(* going to be stopped by one that will then start its own.                *)
LEMMA GateRecovery ==
  ASSUME TypeOK, Gate, Dropped, "spawnfail" \notin Env, NEW r \in Recoveries, RecoveryStep(r)
  PROVE  Gate'
<1>1. \A s \in Sessions : pc'[s] = pc[s]
  BY RecoveryFrame, Disjoint
<1>2. UNCHANGED <<state, control>>
  BY RecoveryFrame
<1>3. ASSUME NEW s \in Sessions, pc[s] = "pumping", state = "MIRACAST", Covered
      PROVE  Covered'
  <2> USE DEF Goto, TypeOK, PlacesOK, Covered
  <2>1. CASE RecoveryWait(r) \/ RecoveryCheck(r)
    BY <1>3, <2>1 DEF RecoveryWait, RecoveryCheck, IsRunning
  <2>2. CASE RecoveryLower(r) \/ RecoveryStart(r) \/ RecoveryRearm(r)
    BY <2>2 DEF RecoveryLower, RecoveryStart, RecoveryRearm
  <2>3. CASE StopRender(r) /\ ~RenderStopRaises(r)
    <3>1. pc[r] # "replacing"
      BY DEF RecoveryPlaces
    <3> QED  BY <1>3, <2>3, <3>1, GateRender
  <2>6. CASE RenderStopRaises(r)
    <3>1. /\ proc = None /\ UNCHANGED <<proc, expected, life>>
          /\ pc[r] \notin {"rechecking", "rerolling"}
      BY <2>6 DEF RenderStopRaises, StoppingRender, Pending, Dispatching
    <3>2. \E v \in Recoveries : pc[v] \in {"rechecking", "rerolling"}
      BY <1>3, <3>1 DEF Dropped
    <3>3. \A v \in Recoveries \ {r} : pc'[v] = pc[v]
      BY <2>6, RaiseFrame DEF RenderStopRaises
    <3> QED  BY <3>1, <3>2, <3>3 DEF IsRunning
  <2>4. CASE RecoveryRecheck(r)
    BY <1>3, <2>4 DEF RecoveryRecheck, IsRunning
  <2>5. CASE RecoveryStartRaises(r)
    BY <1>3, <2>5 DEF RecoveryStartRaises, IsRunning
  <2> QED  BY <2>1, <2>2, <2>3, <2>4, <2>5, <2>6 DEF RecoveryStep
<1>4. SocketHeld' /\ RoomHeld'
  BY <1>1, <1>2 DEF Gate, SocketHeld, RoomHeld, Present, Presenting
<1>5. Guarded'
  BY <1>1, <1>2, <1>3 DEF Gate, Guarded, RoomHeld, Presenting, HoldingPlaces
<1> QED  BY <1>4, <1>5 DEF Gate

LEMMA GatePump ==
  ASSUME TypeOK, NoResume, Gate, NEW u \in UxPlays, PumpStep(u)
  PROVE  Gate'
<1>1. CASE ReadLine(u) \/ Bereaved(u)
  <2>1. \A q \in Sessions \cup Recoveries : pc'[q] = pc[q]
    BY <1>1, Disjoint DEF ReadLine, Bereaved, Goto, TypeOK, PlacesOK
  <2>2. state = "MIRACAST" => state' = "MIRACAST"
    BY <1>1, NextState DEF ReadLine, Bereaved, Handle, TypeOK, FlagsOK
  <2>3. UNCHANGED <<expected, control, proc, life>>
    BY <1>1 DEF ReadLine, Bereaved
  <2>4. Covered => Covered'
    BY <2>1, <2>3 DEF Covered, IsRunning
  <2> QED
    BY <2>1, <2>2, <2>3, <2>4 DEF Gate, SocketHeld, RoomHeld, Guarded, Present, Presenting
<1>2. CASE EndOfOutput(u) \/ Exited(u) \/ Relaunching(u)
  BY <1>2, Disjoint, GateIdle
  DEF EndOfOutput, Exited, Relaunching, Goto, GateKept, IsRunning, TypeOK, PlacesOK
<1>3. CASE Relaunch(u)
  <2>1. CASE Goto(u, "off") /\ life' = life
    BY <1>3, <2>1, Disjoint, GateIdle DEF Relaunch, Goto, GateKept, IsRunning, TypeOK, PlacesOK
  <2>2. CASE \E v \in UxPlays : LaunchUxPlay(v, [pc EXCEPT ![u] = "off"])
    BY <1>3, <2>2, GateLaunch, GateIdle DEF Relaunch
  <2> QED  BY <1>3, <2>1, <2>2 DEF Relaunch
<1>4. CASE Dispatch(u)
  BY <1>4, Disjoint, GateList, GateIdle
<1> QED  BY <1>1, <1>2, <1>3, <1>4 DEF PumpStep

LEMMA GateWatch ==
  ASSUME TypeOK, Gate, Ticks, WatchStep
  PROVE  Gate'
<1>1. UNCHANGED <<state, pc, activeSock, proc, life>>
  BY WatchMoves
<1>2. SocketHeld' /\ RoomHeld'
  BY <1>1 DEF Gate, SocketHeld, RoomHeld, Present, Presenting
<1>3. ASSUME NEW s \in Sessions, pc[s] = "pumping", sockOpen'[s]
      PROVE  sockOpen[s] /\ expected' = expected
  <2>1. sockOpen[s]
    BY <1>3 DEF WatchStep, WatchState, WatchLower, WatchGate, WatchAlive, WatchTrip, WatchClose,
                TypeOK, FlagsOK
  <2>2. CASE WatchLower
    <3>1. wpc = "lowering"
      BY <2>2 DEF WatchLower
    <3>2. s \notin fresh /\ (s \in fresh \/ ~sockOpen[s])
      BY <1>3, <3>1 DEF Ticks, Presenting, HoldingPlaces, Started, Doomed
    <3> QED  BY <2>1, <3>2
  <2>3. CASE ~WatchLower
    BY <2>1, <2>3 DEF WatchStep, WatchState, WatchGate, WatchAlive, WatchTrip, WatchClose
  <2> QED  BY <2>2, <2>3
<1>4. Guarded'
  BY <1>1, <1>3 DEF Gate, Guarded, Covered, IsRunning
<1> QED  BY <1>2, <1>4 DEF Gate

LEMMA GateNext ==
  ASSUME Inv, Gate, Lull, OneByOne, OneByOne', "spawnfail" \notin Env, "longtick" \notin Env,
         [Next]_vars
  PROVE  Gate' /\ Lull'
<1> USE DEF Inv, Lull, OneByOne
<1>0. Lull'
  BY TicksNext, DroppedNext, MildNext DEF Gate
<1>1. ASSUME NEW s \in Sessions, SessionStep(s) \/ Arrive(s) \/ SourceLeaves(s)
      PROVE  Gate'
  BY <1>1, GateSession, GateIdle, GateAlone
<1>2. ASSUME NEW c \in Children, ChildDies(c) \/ ChildCrashes(c)
      PROVE  Gate'
  BY <1>2, GateIdle DEF ChildDies, ChildCrashes, GateKept, IsRunning, TypeOK, ChildrenOK
<1>3. ASSUME \/ \E p \in Renders : FirstFrame(p)
             \/ \E u \in UxPlays : AirPlayClient(u)
             \/ UNCHANGED vars
      PROVE  Gate'
  BY <1>3, GateIdle DEF FirstFrame, AirPlayClient, vars, GateKept, IsRunning
<1> QED
  BY <1>0, <1>1, <1>2, <1>3, GateRecovery, GatePump, GateWatch DEF Next, Environment

(* As long as the sessions come one by one, no AirPlay client has the      *)
(* room, every gst-launch that is called for starts and no tick of the     *)
(* watch thread outlasts a handshake, a source that is presenting is       *)
(* guarded, whatever the recovery threads of its own and of earlier        *)
(* sessions do to its pipeline, and wherever a tick is when the source     *)
(* comes.  All four conditions are needed: a second source that leaves     *)
(* frees the room and with it lowers the gate, so does the tick of the     *)
(* watch thread for a source that was rejected; a recovery thread whose    *)
(* gst-launch does not start ends with the gate down; and a tick that saw  *)
(* the room in IDLE and is delayed until the session is presenting lowers  *)
(* its gate.                                                               *)
THEOREM OneByOneTheStreamIsGuarded ==
  ASSUME "spawnfail" \notin Env, "longtick" \notin Env
  PROVE  Spec /\ []OneByOne => []GateUp
<1>1. Init => Gate /\ Lull
  BY Disjoint DEF Init, Gate, SocketHeld, RoomHeld, Guarded, Present, Presenting, HoldingPlaces,
     Lull, Ticks, Dropped, PumpsMild, Dispatching, Started, Doomed
<1>2. Inv /\ Gate /\ Lull /\ OneByOne /\ OneByOne' /\ [Next]_vars => Gate' /\ Lull'
  BY GateNext
<1>3. Gate => GateUp
  BY DEF Gate, Guarded, Covered, GateUp, Quiet
<1> QED  BY <1>1, <1>2, <1>3, InvCorrect, PTL DEF Spec
-----------------------------------------------------------------------------
(* What a session takes and gives back.                                    *)
Serving == {"reading", "greeting", "parting"}
Returning == {"exited", "relaunching", "sleeping"}

(* While sessions come one by one, the pumps only reject clients and bring *)
(* UxPlay back, and each has a pump that reads its lines.                  *)
PumpsAside ==
  \A u \in UxPlays : /\ pc[u] \in Serving \cup Returning \cup {"off"}
                     /\ pc[u] \in {"greeting", "parting"} => todo[u] \in {Rejection, <<>>}
                     /\ life[u] # "dead" => pc[u] \in Serving

(* What is left of the list of a session.                                  *)
ListsKnown ==
  \A s \in Sessions :
    /\ pc[s] = "connecting" =>
         todo[s] \in {EnterMiracast, <<"PAUSE_MIRACAST_DISCOVERY">>, Rejection, <<>>}
    /\ pc[s] = "closing" =>
         todo[s] \in {LeaveMiracast, Tail(LeaveMiracast),
                      <<"RESUME_MIRACAST_DISCOVERY", "SHOW_IDLE_SCREEN">>,
                      <<"SHOW_IDLE_SCREEN">>, <<>>}
    /\ pc[s] \in {"closing", "leaving"} => state = "IDLE"

(* Who waits for a UxPlay is a session that pauses it.                     *)
UxWaits ==
  \A t \in Threads : waitFor[t] \in UxPlays =>
    t \in Sessions /\ pc[t] = "connecting" /\ todo[t] = EnterMiracast

Turns == RoomHeld /\ PumpsAside /\ ListsKnown /\ UxWaits
-----------------------------------------------------------------------------
(* Taking the room.  Beside OneByOne: no pump takes the exit of its UxPlay *)
(* for a crash, be it that it was one, or that the next instance was       *)
(* started before the exit was read.                                       *)
Undisturbed == OneByOne /\ \A u \in UxPlays : pc[u] # "exited"

PumpsServe == \A u \in UxPlays : pc[u] \in Serving \cup {"off"}

(* One UxPlay at a time, and who waits for one waits for that.             *)
OneUxPlay ==
  /\ \A u \in UxPlays : life[u] # "dead" => u = uxProc
  /\ \A t \in Threads : waitFor[t] \in UxPlays => waitFor[t] = uxProc

UxGone == \A u \in UxPlays : life[u] = "dead"

(* The session that takes the room is as far as its list.                  *)
Taking(s) ==
  /\ pc[s] = "connecting"
  /\ \/ todo[s] = EnterMiracast
     \/ todo[s] = <<"PAUSE_MIRACAST_DISCOVERY">> /\ UxGone
     \/ todo[s] = <<>> /\ UxGone /\ ~avail

Taken == state = "MIRACAST" => \/ UxGone /\ ~avail /\ health = "MIRACAST"
                               \/ \E s \in Sessions : Taking(s)

Course == PumpsServe /\ OneUxPlay /\ Taken
-----------------------------------------------------------------------------
(* Giving it back.  Beside OneByOne: no pipeline is started again by a     *)
(* recovery thread.  UxPlay may crash and be started again at any time.    *)
NoReroll == \A r \in Recoveries : pc[r] # "lowering"
RecoveriesWait == \A r \in Recoveries : pc[r] \in {"off", "waiting", "checking"}

RenderWaits ==
  \A t \in Threads : Waiting(t) =>
    t \in Sessions /\ (pc[t] = "replacing" \/ (pc[t] = "closing" /\ todo[t] = LeaveMiracast))

Alone == RecoveriesWait /\ RenderWaits /\ InStop /\ NoOrphan

(* A session thread that dies of an exception gives nothing back.          *)
Casualty == \E s \in Sessions : pc[s] \in {"died", "aborted"}
Dark == \A p \in Renders : life[p] = "dead"

(* UxPlay is there, or the pump of one that is gone is going to start it.  *)
UxServes == /\ ~expectExit
            /\ \/ uxProc # None /\ pc[uxProc] \in Serving
               \/ \E u \in UxPlays : pc[u] \in Returning

Progress(s) ==
  \/ todo[s] = LeaveMiracast
  \/ todo[s] = Tail(LeaveMiracast) /\ Dark
  \/ todo[s] = <<"RESUME_MIRACAST_DISCOVERY", "SHOW_IDLE_SCREEN">> /\ Dark /\ UxServes
  \/ todo[s] \in {<<"SHOW_IDLE_SCREEN">>, <<>>} /\ Dark /\ UxServes /\ avail

Restored ==
  ~Casualty =>
    /\ \A s \in Sessions : pc[s] = "closing" => Progress(s)
    /\ state = "IDLE" /\ (\A s \in Sessions : pc[s] # "closing") =>
         Dark /\ UxServes /\ avail /\ health = "IDLE"

-----------------------------------------------------------------------------
LEMMA ListParts ==
  /\ Head(EnterMiracast) = "PAUSE_AIRPLAY_ADVERTISING"
  /\ Tail(EnterMiracast) = <<"PAUSE_MIRACAST_DISCOVERY">>
  /\ Head(<<"PAUSE_MIRACAST_DISCOVERY">>) = "PAUSE_MIRACAST_DISCOVERY"
  /\ Tail(<<"PAUSE_MIRACAST_DISCOVERY">>) = <<>>
  /\ Head(Rejection) = "LOG_REJECTED_CONNECTION" /\ Tail(Rejection) = <<>>
  /\ Head(LeaveMiracast) = "STOP_RENDER_PIPELINE"
  /\ Head(Tail(LeaveMiracast)) = "RESUME_AIRPLAY_ADVERTISING"
  /\ Tail(Tail(LeaveMiracast)) = <<"RESUME_MIRACAST_DISCOVERY", "SHOW_IDLE_SCREEN">>
  /\ Head(<<"RESUME_MIRACAST_DISCOVERY", "SHOW_IDLE_SCREEN">>) = "RESUME_MIRACAST_DISCOVERY"
  /\ Tail(<<"RESUME_MIRACAST_DISCOVERY", "SHOW_IDLE_SCREEN">>) = <<"SHOW_IDLE_SCREEN">>
  /\ Head(<<"SHOW_IDLE_SCREEN">>) = "SHOW_IDLE_SCREEN" /\ Tail(<<"SHOW_IDLE_SCREEN">>) = <<>>
  /\ EnterMiracast # <<>> /\ Rejection # <<>> /\ LeaveMiracast # <<>> /\ Tail(LeaveMiracast) # <<>>
  BY DEF EnterMiracast, LeaveMiracast, Rejection

(* The state that a thread tells /health is still that of the arbiter.     *)
Prompt == \A t \in Threads : told[t] # None => told[t] = state

(* Every step but those with which a session takes or gives back.          *)
Elsewhere ==
  /\ UNCHANGED <<state, avail>> /\ (Prompt => health' \in {health, state})
  /\ \A s \in Sessions :
       /\ Presenting(s)' => Presenting(s)
       /\ pc[s] \in {"died", "aborted"} => pc'[s] = pc[s]
       /\ \/ pc'[s] = pc[s] /\ todo'[s] = todo[s]
          \/ pc[s] \notin {"connecting", "closing"}
             /\ pc'[s] \notin {"connecting", "closing", "leaving"}
  /\ \A t \in Threads : waitFor'[t] = waitFor[t] \/ waitFor'[t] \notin UxPlays
  /\ state = "IDLE" /\ RecoveriesWait =>
       \A p \in Renders : life'[p] # "dead" => life[p] # "dead"

(* What such a step leaves of UxPlay and its pumps.                        *)
UxAsItWas == /\ uxProc' = uxProc
             /\ \A u \in UxPlays : life'[u] # "dead" => life[u] # "dead"

PumpsKeep == /\ PumpsAside'
             /\ UxServes /\ "lateexit" \notin Env => UxServes'
             /\ PumpsServe /\ Undisturbed' => UxAsItWas /\ PumpsServe'

Own(s) ==
  Connect(s) \/ Disconnect(s) \/ (pc[s] \in {"connecting", "closing"} /\ Dispatch(s))

LEMMA PumpsStay ==
  ASSUME PumpsAside, UNCHANGED expectExit, UxAsItWas,
         \A u \in UxPlays : pc'[u] = pc[u] /\ todo'[u] = todo[u],
         uxProc \in UxPlays \cup {None}
  PROVE  PumpsKeep
<1>1. PumpsAside'
  BY DEF PumpsAside, UxAsItWas
<1>2. UxServes => UxServes'
  BY DEF UxServes, UxAsItWas
<1>3. PumpsServe => PumpsServe'
  BY DEF PumpsServe
<1> QED  BY <1>1, <1>2, <1>3 DEF PumpsKeep

(* A session that goes from one place to another outside of its lists.     *)
LEMMA ElsewhereMoves ==
  ASSUME TypeOK, PumpsAside, NEW s \in Sessions, NEW place, Goto(s, place),
         UNCHANGED <<state, avail, expectExit, health>>, UxAsItWas,
         \A t \in Threads \ {s} : todo'[t] = todo[t],
         pc[s] \notin {"connecting", "closing", "died", "aborted"},
         place \notin {"connecting", "closing", "leaving"},
         place \in HoldingPlaces \ {"died"} => pc[s] \in HoldingPlaces \ {"died"},
         \A t \in Threads : waitFor'[t] = waitFor[t] \/ waitFor'[t] \notin UxPlays,
         state = "IDLE" => \A p \in Renders : life'[p] # "dead" => life[p] # "dead"
  PROVE  Elsewhere /\ PumpsKeep
<1>1. \A u \in UxPlays : pc'[u] = pc[u] /\ todo'[u] = todo[u]
  BY Disjoint DEF Goto, TypeOK, PlacesOK
<1>2. \A v \in Sessions \ {s} : pc'[v] = pc[v] /\ todo'[v] = todo[v]
  BY DEF Goto, TypeOK, PlacesOK
<1>3. pc'[s] = place
  BY DEF Goto, TypeOK, PlacesOK
<1>4. PumpsKeep
  BY <1>1, PumpsStay DEF TypeOK, ChildrenOK
<1>5. \A v \in Sessions : Presenting(v)' => Presenting(v)
  BY <1>2, <1>3 DEF Presenting
<1> QED  BY <1>2, <1>3, <1>4, <1>5 DEF Elsewhere

LEMMA SpawnUxPlays ==
  ASSUME TypeOK, NEW p \in Renders, Spawn(p)
  PROVE  \A u \in UxPlays : life'[u] = life[u]
  BY Disjoint DEF Spawn, TypeOK, ChildrenOK

LEMMA StopsRender ==
  ASSUME TypeOK, NEW t \in Threads, StopRender(t)
  PROVE  /\ UNCHANGED <<arbitration, expectExit, uxProc>>
         /\ \A v \in Threads : waitFor'[v] = waitFor[v] \/ waitFor'[v] \notin UxPlays
         /\ \A v \in Threads \ {t} : waitFor'[v] = waitFor[v]
         /\ \A c \in Children : life'[c] # "dead" => life[c] # "dead"
<1>1. CASE RenderStopRaises(t)
  BY <1>1, Disjoint, NoneAssumption DEF RenderStopRaises, Raise, TypeOK, ChildrenOK
<1>2. CASE RenderStop(t) \/ RenderStopNothing(t) \/ RenderStopped(t)
  BY <1>2, Disjoint, NoneAssumption DEF RenderStop, RenderStopNothing, RenderStopped, Terminate,
     TypeOK, ChildrenOK
<1> QED  BY <1>1, <1>2 DEF StopRender

LEMMA SessionElsewhere ==
  ASSUME TypeOK, Turns, NEW s \in Sessions,
         SessionStep(s) \/ Arrive(s) \/ SourceLeaves(s), ~Own(s)
  PROVE  Elsewhere /\ PumpsKeep
<1>0. RoomHeld /\ PumpsAside
  BY DEF Turns
<1>1. CASE Authorize(s) \/ DialFails(s) \/ Open(s) \/ Leave(s)
  BY <1>0, <1>1, ElsewhereMoves DEF Authorize, DialFails, Open, Leave, HoldingPlaces, UxAsItWas
<1>2. CASE Negotiated(s) \/ NegotiationFails(s) \/ StartRenderFails(s) \/ StartRenderRaises(s)
           \/ EndPump(s)
  BY <1>0, <1>2, ElsewhereMoves DEF Negotiated, NegotiationFails, StartRenderFails,
     StartRenderRaises, EndPump, HoldingPlaces, UxAsItWas
<1>3. CASE StartRender(s)
  <2>1. state = "MIRACAST"
    BY <1>0, <1>3 DEF StartRender, RoomHeld, Presenting, HoldingPlaces
  <2> QED  BY <1>0, <1>3, <2>1, SpawnUxPlays, ElsewhereMoves DEF StartRender,
     HoldingPlaces, UxAsItWas
<1>4. CASE Arm(s)
  <2>1. /\ pc[s] = "arming" /\ pc'[s] = "pumping"
        /\ \A q \in Sessions \cup UxPlays : q # s => pc'[q] = pc[q]
        /\ UNCHANGED <<arbitration, todo, waitFor, life, uxplay>>
    BY <1>4, Disjoint DEF Arm, Goto, TypeOK, PlacesOK
  <2>2. PumpsKeep
    BY <1>0, <2>1, PumpsStay, Disjoint DEF UxAsItWas, TypeOK, ChildrenOK
  <2>3. \A v \in Sessions : Presenting(v)' => Presenting(v)
    BY <2>1 DEF Presenting, HoldingPlaces
  <2> QED  BY <2>1, <2>2, <2>3 DEF Elsewhere
<1>5. CASE Dispatch(s)
  <2>1. pc[s] \notin Dispatching
    BY <1>5 DEF Own, Dispatching, TypeOK, PlacesOK, SessionPlaces
  <2>2. pc[s] = "replacing" /\ StopRender(s)
    BY <1>5, <2>1 DEF Dispatch, PauseAirPlayEnds, StopRender, RenderStop,
       RenderStopNothing, RenderStopped,
       RenderStopRaises, StoppingRender, PauseAirPlay, AirPlayPaused, PauseAirPlayRaises,
       ResumeAirPlay, ResumeAirPlayRaises, SetSessionAvailable, PaintOrLog, ReadState,
       PublishHealth, Pending, TypeOK, PlacesOK, SessionPlaces
  <2>3. \E place \in {"starting", "replacing", "died"} : Goto(s, place)
    BY <2>1, <2>2, Disjoint DEF StopRender, RenderStop, RenderStopNothing, RenderStopped,
       RenderStopRaises, Raise, AfterStop, Goto, TypeOK, PlacesOK
  <2> QED
    BY <1>0, <2>2, <2>3, StopsRender, StopFrame, ElsewhereMoves DEF HoldingPlaces, UxAsItWas
<1> QED
  BY <1>1, <1>2, <1>3, <1>4, <1>5 DEF SessionStep, Arrive, SourceLeaves, NoticeClosed, Own

(* A step that moves no session and starts no pipeline.                    *)
LEMMA ElsewhereQuiet ==
  ASSUME UNCHANGED <<state, avail>>, Prompt => health' \in {health, state},
         \A s \in Sessions : pc'[s] = pc[s] /\ todo'[s] = todo[s],
         \A t \in Threads : waitFor'[t] = waitFor[t] \/ waitFor'[t] \notin UxPlays,
         RecoveriesWait => \A p \in Renders : life'[p] # "dead" => life[p] # "dead"
  PROVE  Elsewhere
  BY DEF Elsewhere, Presenting

LEMMA RecoveryElsewhere ==
  ASSUME TypeOK, PumpsAside, NEW r \in Recoveries, RecoveryStep(r)
  PROVE  Elsewhere /\ PumpsKeep
<1>1. /\ UNCHANGED <<arbitration, expectExit, uxProc>>
      /\ \A q \in Sessions \cup UxPlays : pc'[q] = pc[q] /\ todo'[q] = todo[q]
  BY RecoveryFrame, Disjoint
<1>2. uxProc \in UxPlays \cup {None}
  BY DEF TypeOK, ChildrenOK
<1>3. CASE RecoveryStart(r)
  <2>1. ~RecoveriesWait
    BY <1>3 DEF RecoveryStart, RecoveriesWait
  <2>2. \A u \in UxPlays : life'[u] = life[u]
    BY <1>3, SpawnUxPlays DEF RecoveryStart
  <2>3. Elsewhere
    BY <1>1, <1>3, <2>1, ElsewhereQuiet DEF RecoveryStart
  <2> QED  BY <1>1, <1>2, <2>2, <2>3, PumpsStay DEF UxAsItWas
<1>4. CASE StopRender(r)
  <2>1. Elsewhere
    BY <1>1, <1>4, StopsRender, ElsewhereQuiet
  <2> QED  BY <1>1, <1>2, <1>4, <2>1, StopsRender, PumpsStay DEF UxAsItWas
<1>5. CASE UNCHANGED <<waitFor, life>>
  <2>1. Elsewhere
    BY <1>1, <1>5, ElsewhereQuiet
  <2> QED  BY <1>1, <1>2, <1>5, <2>1, PumpsStay DEF UxAsItWas
<1> QED
  BY <1>3, <1>4, <1>5 DEF RecoveryStep, RecoveryWait, RecoveryCheck, RecoveryLower,
                          RecoveryRecheck, RecoveryStartRaises, RecoveryRearm

(* UxPlay comes back: what a pump does after the end of its output.        *)
LEMMA PumpReturns ==
  ASSUME TypeOK, PumpsAside, OneByOne, NEW u \in UxPlays,
         EndOfOutput(u) \/ Exited(u) \/ Relaunching(u) \/ Relaunch(u)
  PROVE  Elsewhere /\ PumpsKeep
<1>0. u \notin Sessions /\ uxProc \in UxPlays \cup {None} /\ None \notin UxPlays
  BY Disjoint DEF TypeOK, ChildrenOK
<1>1. CASE EndOfOutput(u) \/ Exited(u) \/ Relaunching(u) \/ (Relaunch(u) /\ IsRunning(uxProc))
  <2>1. PICK place \in Returning \cup {"off"} : pc' = [pc EXCEPT ![u] = place]
    BY <1>1 DEF EndOfOutput, Exited, Relaunching, Relaunch, Goto, OneByOne, Returning
  <2>2. /\ UNCHANGED <<arbitration, todo, waitFor, life, uxProc, expectExit>>
        /\ pc[u] \in {"exited", "relaunching",
           "sleeping"} \/ (pc[u] = "reading" /\ life[u] = "dead")
    BY <1>1 DEF EndOfOutput, Exited, Relaunching, Relaunch
  <2>3. pc'[u] = place /\ \A q \in Threads \ {u} : pc'[q] = pc[q]
    BY <2>1 DEF TypeOK, PlacesOK
  <2>4. Elsewhere
    BY <1>0, <2>2, <2>3, ElsewhereQuiet
  <2>5. PumpsAside'
    BY <2>2, <2>3 DEF PumpsAside, Serving, Returning
  <2>6. UxServes /\ "lateexit" \notin Env => UxServes'
    <3> SUFFICES ASSUME UxServes, "lateexit" \notin Env  PROVE UxServes'
      OBVIOUS
    <3>1. CASE EndOfOutput(u)
      <4>1. ~expectExit => pc'[u] = "exited"
        BY <3>1, <2>3, Disjoint DEF EndOfOutput, Goto, TypeOK, PlacesOK
      <4> QED  BY <2>2, <4>1 DEF UxServes, Returning
    <3>2. CASE Exited(u)
      <4>1. pc'[u] = "relaunching"
        BY <3>2 DEF Exited, Goto, OneByOne, TypeOK, PlacesOK
      <4> QED  BY <2>2, <4>1 DEF UxServes, Returning
    <3>3. CASE Relaunching(u) /\ ~IsRunning(uxProc)
      <4>1. pc'[u] = "sleeping"
        BY <3>3 DEF Relaunching, Goto, TypeOK, PlacesOK
      <4> QED  BY <2>2, <4>1 DEF UxServes, Returning
    <3>4. CASE (Relaunching(u) \/ Relaunch(u)) /\ IsRunning(uxProc)
      <4>1. uxProc # None /\ uxProc \in UxPlays /\ pc[uxProc] \in Serving /\ uxProc # u
        BY <1>0, <3>4 DEF IsRunning, PumpsAside, Relaunching, Relaunch, Serving
      <4>2. pc'[uxProc] = pc[uxProc]
        BY <2>3, <4>1
      <4> QED  BY <2>2, <4>1, <4>2 DEF UxServes
    <3> QED  BY <1>1, <3>1, <3>2, <3>3, <3>4
  <2>7. PumpsServe /\ Undisturbed' => UxAsItWas /\ PumpsServe'
    <3>1. SUFFICES ASSUME PumpsServe, Undisturbed' PROVE UxAsItWas /\ PumpsServe'
      OBVIOUS
    <3>2. EndOfOutput(u)
      BY <1>1, <3>1 DEF PumpsServe, Serving, Exited, Relaunching, Relaunch
    <3>3. place = "off"
      BY <2>3, <3>1, <3>2 DEF EndOfOutput, Goto, Undisturbed, TypeOK, PlacesOK
    <3> QED  BY <2>2, <2>3, <3>1, <3>3 DEF UxAsItWas, PumpsServe
  <2> QED  BY <2>4, <2>5, <2>6, <2>7 DEF PumpsKeep
<1>2. CASE Relaunch(u) /\ ~IsRunning(uxProc)
  <2>1. PICK w \in UxPlays : FreeUxPlay(w) /\ LaunchUxPlay(w, [pc EXCEPT ![u] = "off"])
    BY <1>2 DEF Relaunch
  <2>2. pc[u] = "sleeping" /\ UNCHANGED <<arbitration, todo, waitFor>>
    BY <1>2 DEF Relaunch
  <2>3. /\ pc'[w] = "reading" /\ pc'[u] \in {"off", "reading"}
        /\ \A q \in Threads \ {u, w} : pc'[q] = pc[q]
        /\ \A c \in Children \ {w} : life'[c] = life[c]
        /\ uxProc' = w /\ ~expectExit'
    BY <2>1 DEF LaunchUxPlay, TypeOK, PlacesOK, ChildrenOK
  <2>4. w \notin Sessions /\ w \notin Renders
    BY Disjoint
  <2>5. Elsewhere
    BY <1>0, <2>2, <2>3, <2>4, ElsewhereQuiet
  <2>6. PumpsAside'
    <3>1. life[u] = "dead"
      BY <2>2 DEF PumpsAside, Serving, TypeOK, ChildrenOK
    <3> QED  BY <2>2, <2>3, <3>1 DEF PumpsAside, Serving
  <2>7. UxServes'
    BY <1>0, <2>3 DEF UxServes, Serving
  <2>8. ~PumpsServe
    BY <2>2 DEF PumpsServe, Serving
  <2> QED  BY <2>5, <2>6, <2>7, <2>8 DEF PumpsKeep
<1> QED  BY <1>1, <1>2

LEMMA PumpElsewhere ==
  ASSUME TypeOK, PumpsAside, OneByOne, OneByOne', NEW u \in UxPlays, PumpStep(u)
  PROVE  Elsewhere /\ PumpsKeep
<1>0. /\ state \in {"IDLE", "MIRACAST"} /\ u \notin Sessions
      /\ pc[u] \in Serving \cup Returning \cup {"off"} /\ uxProc \in UxPlays \cup {None}
  BY Disjoint DEF OneByOne, TypeOK, FlagsOK, States, PumpsAside, ChildrenOK
(* A pump that serves and goes on serving.                                 *)
<1>1. ASSUME pc[u] \in Serving, pc'[u] \in Serving,
             pc'[u] \in {"greeting", "parting"} => todo'[u] \in {Rejection, <<>>},
             \A q \in Threads \ {u} : pc'[q] = pc[q] /\ todo'[q] = todo[q],
             UNCHANGED <<state, avail, waitFor, life, uxProc, expectExit>>,
             Prompt => health' \in {health, state}
      PROVE  Elsewhere /\ PumpsKeep
  <2>1. Elsewhere
    BY <1>0, <1>1, ElsewhereQuiet
  <2>2. PumpsAside'
    BY <1>1 DEF PumpsAside
  <2>3. UxServes => UxServes'
    BY <1>0, <1>1 DEF UxServes, Serving, Returning
  <2>4. PumpsServe => PumpsServe'
    BY <1>1 DEF PumpsServe
  <2> QED  BY <1>1, <2>1, <2>2, <2>3, <2>4 DEF PumpsKeep, UxAsItWas
<1>2. CASE ReadLine(u)
  <2>1. PICK e \in {"AIRPLAY_CONNECTED", "AIRPLAY_DISCONNECTED"} :
          state' = Transition(state, e).next
          /\ todo' = [todo EXCEPT ![u] = Transition(state, e).actions]
    BY <1>2 DEF ReadLine, Handle
  <2>2. state' = state /\ Transition(state, e).actions = Rejection
    BY <1>0, <2>1 DEF Transition, To, Rejected, Rejection, OneByOne
  <2>3. PICK place \in {"greeting", "parting"} : pc' = [pc EXCEPT ![u] = place]
    BY <1>2 DEF ReadLine, Goto
  <2>4. \A q \in Threads \ {u} : pc'[q] = pc[q] /\ todo'[q] = todo[q]
    BY <2>1, <2>3 DEF TypeOK, PlacesOK, ListsOK
  <2>5. pc'[u] = place /\ todo'[u] = Rejection
    BY <2>1, <2>2, <2>3 DEF TypeOK, PlacesOK, ListsOK
  <2>6. pc[u] = "reading" /\ UNCHANGED <<health, avail, waitFor, life, uxProc, expectExit>>
    BY <1>2 DEF ReadLine, Handle
  <2> QED  BY <1>1, <2>2, <2>4, <2>5, <2>6 DEF Serving
<1>3. CASE Dispatch(u)
  <2>0. PumpsMild
    BY DEF PumpsMild, PumpsAside, Serving, Returning, Dispatching
  <2>1. /\ todo[u] \in {Rejection, <<>>}
        /\ PaintOrLog(u) \/ ReadState(u) \/ PublishHealth(u)
    BY <1>3, <2>0, MildDispatch
  <2>2. pc[u] \in {"greeting", "parting"}
    BY <1>0, <2>1 DEF PaintOrLog, ReadState, PublishHealth, Pending, Dispatching, Serving, Returning
  <2>3. CASE PaintOrLog(u)
    <3>1. todo[u] = Rejection
      BY <2>1, <2>3 DEF PaintOrLog, Pending
    <3>2. todo' = [todo EXCEPT ![u] = <<>>] /\ UNCHANGED <<arbitration, pc, waitFor, life, uxplay>>
      BY <2>3, <3>1, ListParts DEF PaintOrLog, Carried, TypeOK, ListsOK
    <3>3. todo'[u] = <<>> /\ \A q \in Threads \ {u} : todo'[q] = todo[q]
      BY <3>2 DEF TypeOK, ListsOK
    <3> QED  BY <1>1, <2>2, <3>2, <3>3 DEF Serving
  <2>4. CASE ReadState(u)
    <3>1. UNCHANGED <<state, health, avail, threads, life, uxplay>>
      BY <2>4 DEF ReadState
    <3> QED  BY <1>1, <2>1, <2>2, <3>1 DEF Serving
  <2>5. CASE PublishHealth(u)
    <3>1. /\ Prompt => health' = state
          /\ pc' = [pc EXCEPT ![u] = "reading"]
          /\ UNCHANGED <<state, avail, todo, waitFor, life, uxplay>>
      BY <2>2, <2>5 DEF PublishHealth, AfterDispatch, Goto, Prompt
    <3>2. pc'[u] = "reading" /\ \A q \in Threads \ {u} : pc'[q] = pc[q]
      BY <3>1 DEF TypeOK, PlacesOK
    <3> QED  BY <1>1, <2>2, <3>1, <3>2 DEF Serving
  <2> QED  BY <2>1, <2>3, <2>4, <2>5
<1> QED
  BY <1>0, <1>2, <1>3, PumpReturns DEF PumpStep, Bereaved, Serving, Returning

LEMMA OthersElsewhere ==
  ASSUME TypeOK, PumpsAside,
         \/ WatchStep
         \/ \E c \in Children : ChildDies(c) \/ ChildCrashes(c)
         \/ \E p \in Renders : FirstFrame(p)
         \/ \E u \in UxPlays : AirPlayClient(u)
         \/ UNCHANGED vars
  PROVE  Elsewhere /\ PumpsKeep
<1>1. UNCHANGED <<arbitration, threads, uxProc, expectExit>>
  BY WatchMoves DEF ChildDies, ChildCrashes, FirstFrame, AirPlayClient, vars
<1>2. \A c \in Children : life'[c] # "dead" => life[c] # "dead"
  BY WatchMoves DEF ChildDies, ChildCrashes, FirstFrame, AirPlayClient, vars, TypeOK, ChildrenOK
<1>3. Elsewhere
  BY <1>1, <1>2, ElsewhereQuiet
<1>4. PumpsKeep
  BY <1>1, <1>2, PumpsStay DEF UxAsItWas, TypeOK, ChildrenOK
<1> QED  BY <1>3, <1>4

LEMMA TurnsSteps ==
  ASSUME TypeOK, Turns, OneByOne, OneByOne', [Next]_vars
  PROVE  \/ Elsewhere /\ PumpsKeep
         \/ \E s \in Sessions : Own(s)
<1>0. PumpsAside
  BY DEF Turns
<1>1. ASSUME NEW s \in Sessions, SessionStep(s) \/ Arrive(s) \/ SourceLeaves(s), ~Own(s)
      PROVE  Elsewhere /\ PumpsKeep
  BY <1>1, SessionElsewhere
<1>2. ASSUME NEW r \in Recoveries, RecoveryStep(r)
      PROVE  Elsewhere /\ PumpsKeep
  BY <1>0, <1>2, RecoveryElsewhere
<1>3. ASSUME NEW u \in UxPlays, PumpStep(u)
      PROVE  Elsewhere /\ PumpsKeep
  BY <1>0, <1>3, PumpElsewhere
<1> QED  BY <1>0, <1>1, <1>2, <1>3, OthersElsewhere DEF Next, Environment

(* The session s moves and no other one is present.                        *)
LEMMA OnlyOne ==
  ASSUME TypeOK, UxWaits, OneAtATime, OneAtATime', NEW s \in Sessions, NEW place, Goto(s, place),
         Present(s) \/ Present(s)'
  PROVE  /\ \A v \in Sessions \ {s} : pc'[v] = pc[v] /\ ~Present(v) /\ ~Present(v)'
         /\ \A u \in UxPlays : pc'[u] = pc[u]
         /\ \A t \in Threads \ {s} : waitFor[t] \notin UxPlays
         /\ pc'[s] = place
<1>1. /\ \A v \in Sessions \ {s} : pc'[v] = pc[v]
      /\ \A u \in UxPlays : pc'[u] = pc[u]
      /\ pc'[s] = place
  BY Disjoint DEF Goto, TypeOK, PlacesOK
<1>2. \A v \in Sessions \ {s} : ~Present(v) /\ ~Present(v)'
  BY <1>1 DEF OneAtATime, Present
<1>3. \A t \in Threads \ {s} : waitFor[t] \notin UxPlays
  BY <1>2 DEF UxWaits, Present
<1> QED  BY <1>1, <1>2, <1>3

LEMMA TurnsElsewhere ==
  ASSUME TypeOK, Turns, Elsewhere, PumpsAside'
  PROVE  Turns'
<1>1. RoomHeld'
  BY DEF Turns, Elsewhere, RoomHeld
<1>2. ListsKnown'
  BY DEF Turns, Elsewhere, ListsKnown
<1>3. UxWaits'
  BY DEF Turns, Elsewhere, UxWaits
<1> QED  BY <1>1, <1>2, <1>3 DEF Turns

(* A session at its list leaves the pumps and the other sessions alone.    *)
LEMMA TurnsAlone ==
  ASSUME TypeOK, Turns, OneAtATime, OneAtATime', NEW s \in Sessions, Present(s),
         NEW place, Goto(s, place),
         place \in HoldingPlaces \ {"died"} => state' = "MIRACAST",
         place \in {"closing", "leaving"} => state' = "IDLE",
         \A t \in Threads \ {s} : todo'[t] = todo[t] /\ waitFor'[t] = waitFor[t],
         \A u \in UxPlays : life'[u] # "dead" => life[u] # "dead",
         place = "connecting" =>
           todo'[s] \in {EnterMiracast, <<"PAUSE_MIRACAST_DISCOVERY">>, Rejection, <<>>},
         place = "closing" =>
           todo'[s] \in {LeaveMiracast, Tail(LeaveMiracast),
                         <<"RESUME_MIRACAST_DISCOVERY", "SHOW_IDLE_SCREEN">>,
                         <<"SHOW_IDLE_SCREEN">>, <<>>},
         waitFor'[s] \in UxPlays => place = "connecting" /\ todo'[s] = EnterMiracast
  PROVE  Turns'
<1>1. /\ \A v \in Sessions \ {s} : pc'[v] = pc[v] /\ ~Present(v) /\ ~Present(v)'
      /\ \A u \in UxPlays : pc'[u] = pc[u]
      /\ \A t \in Threads \ {s} : waitFor[t] \notin UxPlays
      /\ pc'[s] = place
  BY OnlyOne DEF Turns
<1>2. RoomHeld'
  BY <1>1 DEF RoomHeld, Presenting, Present, HoldingPlaces
<1>3. PumpsAside'
  BY <1>1, Disjoint DEF Turns, PumpsAside
<1>4. ListsKnown'
  BY <1>1 DEF ListsKnown, Present
<1>5. UxWaits'
  BY <1>1 DEF UxWaits
<1> QED  BY <1>2, <1>3, <1>4, <1>5 DEF Turns

(* What carries out an action, by its name.                                *)
LEMMA DispatchedBy ==
  ASSUME NEW t, Dispatch(t), pc[t] \in Dispatching
  PROVE  /\ todo[t] = <<>> => ReadState(t) \/ PublishHealth(t)
         /\ todo[t] # <<>> /\ Head(todo[t]) = "PAUSE_AIRPLAY_ADVERTISING" =>
              PauseAirPlay(t) \/ AirPlayPaused(t) \/ PauseAirPlayRaises(t)
         /\ todo[t] # <<>> /\ Head(todo[t]) = "RESUME_AIRPLAY_ADVERTISING" =>
              ResumeAirPlay(t) \/ ResumeAirPlayRaises(t)
         /\ todo[t] # <<>> /\ Head(todo[t]) \in {"PAUSE_MIRACAST_DISCOVERY",
                                                 "RESUME_MIRACAST_DISCOVERY"} =>
              SetSessionAvailable(t)
         /\ todo[t] # <<>> /\ Head(todo[t]) = "STOP_RENDER_PIPELINE" => StopRender(t)
         /\ todo[t] # <<>> /\ Head(todo[t]) \in {"SHOW_IDLE_SCREEN", "LOG_REJECTED_CONNECTION"} =>
              PaintOrLog(t)
<1>1. pc[t] \notin {"replacing", "rolling"}
  BY DEF Dispatching
<1> QED
  BY <1>1 DEF Dispatch, PauseAirPlayEnds, StopRender, RenderStop, RenderStopNothing, RenderStopped,
     RenderStopRaises, StoppingRender, PauseAirPlay, AirPlayPaused, PauseAirPlayRaises,
     ResumeAirPlay, ResumeAirPlayRaises, SetSessionAvailable, PaintOrLog, ReadState,
     PublishHealth, Pending

LEMMA TurnsConnect ==
  ASSUME TypeOK, Turns, OneByOne, OneByOne', NEW s \in Sessions, Connect(s)
  PROVE  /\ Turns' /\ Present(s) /\ Goto(s, "connecting") /\ state' = "MIRACAST"
         /\ todo'[s] = IF state = "IDLE" THEN EnterMiracast ELSE Rejection
<1>1. /\ pc[s] = "opened" /\ Goto(s, "connecting")
      /\ UNCHANGED <<waitFor, life>>
      /\ state' = Transition(state, "MIRACAST_CONNECTED").next
      /\ todo'[s] = Transition(state, "MIRACAST_CONNECTED").actions
      /\ \A t \in Threads \ {s} : todo'[t] = todo[t]
  BY DEF Connect, Handle, TypeOK, ListsOK
<1>2. OneAtATime /\ OneAtATime' /\ state \in {"IDLE", "MIRACAST"}
  BY DEF OneByOne, TypeOK, FlagsOK, States
<1>3. Present(s)
  BY <1>1 DEF Present
<1>4. state' = "MIRACAST" /\ todo'[s] = IF state = "IDLE" THEN EnterMiracast ELSE Rejection
  BY <1>1, <1>2 DEF Transition, To, Rejected, Rejection
<1>5. waitFor'[s] \notin UxPlays
  BY <1>1 DEF Turns, UxWaits
<1>6. todo'[s] \in {EnterMiracast, Rejection}
  BY <1>4
<1>7. Turns'
  BY <1>1, <1>2, <1>3, <1>4, <1>5, <1>6, TurnsAlone
<1> QED  BY <1>1, <1>3, <1>4, <1>7

LEMMA TurnsDisconnect ==
  ASSUME TypeOK, Turns, OneByOne, OneByOne', NEW s \in Sessions, Disconnect(s)
  PROVE  /\ Turns' /\ Present(s) /\ Goto(s, "closing") /\ state = "MIRACAST" /\ state' = "IDLE"
         /\ todo'[s] = LeaveMiracast
<1>1. /\ pc[s] = "disconnecting" /\ Goto(s, "closing")
      /\ UNCHANGED <<waitFor, life>>
      /\ state' = Transition(state, "MIRACAST_DISCONNECTED").next
      /\ todo'[s] = Transition(state, "MIRACAST_DISCONNECTED").actions
      /\ \A t \in Threads \ {s} : todo'[t] = todo[t]
  BY DEF Disconnect, Handle, TypeOK, ListsOK
<1>2. Present(s) /\ state = "MIRACAST"
  BY <1>1 DEF Present, Turns, RoomHeld, Presenting, HoldingPlaces
<1>3. state' = "IDLE" /\ todo'[s] = LeaveMiracast
  BY <1>1, <1>2 DEF Transition, To
<1>4. waitFor'[s] \notin UxPlays
  BY <1>1 DEF Turns, UxWaits
<1>5. Turns'
  BY <1>1, <1>2, <1>3, <1>4, TurnsAlone DEF OneByOne, HoldingPlaces
<1> QED  BY <1>1, <1>2, <1>3, <1>5

(* The session takes the room, one action of its list at a time.           *)
LEMMA TurnsTakes ==
  ASSUME TypeOK, Turns, OneByOne, OneByOne', NEW s \in Sessions, pc[s] = "connecting", Dispatch(s)
  PROVE  /\ Turns' /\ Present(s) /\ state = "MIRACAST" /\ state' = "MIRACAST"
         /\ \/ Goto(s, "connecting") \/ Goto(s, "negotiating")
            \/ Goto(s, "died") /\ PauseAirPlayRaises(s)
<1>1. OneAtATime /\ OneAtATime' /\ Present(s) /\ state = "MIRACAST"
  BY DEF OneByOne, Present, Turns, RoomHeld, Presenting, HoldingPlaces
<1>2. pc[s] \in Dispatching /\ pc = [pc EXCEPT ![s] = "connecting"]
  BY DEF Dispatching, TypeOK, PlacesOK
<1>3. todo[s] \in {EnterMiracast, <<"PAUSE_MIRACAST_DISCOVERY">>, Rejection, <<>>}
  BY DEF Turns, ListsKnown
<1>4. CASE PauseAirPlay(s) /\ todo[s] = EnterMiracast
  <2>1. state' = state /\ Goto(s, "connecting")
    BY <1>2, <1>4 DEF PauseAirPlay, Goto
  <2>2. CASE uxProc = None /\ Carried(s) /\ UNCHANGED <<waitFor, life>>
    <3>1. todo'[s] = <<"PAUSE_MIRACAST_DISCOVERY">> /\ \A t \in Threads \ {s} : todo'[t] = todo[t]
      BY <1>4, <2>2, ListParts DEF Carried, TypeOK, ListsOK
    <3>2. waitFor[s] = None
      BY <1>4, <2>2 DEF PauseAirPlay
    <3>3. waitFor'[s] \notin UxPlays
      BY <2>2, <3>2, Disjoint
    <3>4. \A t \in Threads \ {s} : todo'[t] = todo[t] /\ waitFor'[t] = waitFor[t]
      BY <2>2, <3>1
    <3>5. Turns'
      BY <1>1, <2>1, <2>2, <3>1, <3>3, <3>4, TurnsAlone
    <3> QED  BY <1>1, <2>1, <3>5
  <2>3. CASE uxProc # None /\ Terminate(s, uxProc) /\ UNCHANGED todo
    <3>1. \A t \in Threads \ {s} : waitFor'[t] = waitFor[t]
      BY <2>3 DEF Terminate, TypeOK, ChildrenOK
    <3>2. \A u \in UxPlays : life'[u] # "dead" => life[u] # "dead"
      BY <2>3 DEF Terminate, TypeOK, ChildrenOK
    <3> QED  BY <1>1, <1>4, <2>1, <2>3, <3>1, <3>2, TurnsAlone
  <2> QED  BY <1>4, <2>2, <2>3 DEF PauseAirPlay
<1>5. CASE AirPlayPaused(s) /\ todo[s] = EnterMiracast
  <2>1. UNCHANGED <<state, life>> /\ Goto(s,
     "connecting") /\ waitFor' = [waitFor EXCEPT ![s] = None]
    BY <1>2, <1>5 DEF AirPlayPaused, Goto
  <2>2. todo'[s] = <<"PAUSE_MIRACAST_DISCOVERY">> /\ \A t \in Threads \ {s} : todo'[t] = todo[t]
    BY <1>5, ListParts DEF AirPlayPaused, Carried, TypeOK, ListsOK
  <2>3. waitFor'[s] \notin UxPlays /\ \A t \in Threads \ {s} : waitFor'[t] = waitFor[t]
    BY <2>1, Disjoint DEF TypeOK, ChildrenOK
  <2> QED  BY <1>1, <2>1, <2>2, <2>3, TurnsAlone
<1>6. CASE (SetSessionAvailable(s) \/ PaintOrLog(s))
           /\ todo[s] \in {<<"PAUSE_MIRACAST_DISCOVERY">>, Rejection}
  <2>1. UNCHANGED <<state, waitFor, life>> /\ Goto(s, "connecting") /\ Carried(s)
    BY <1>2, <1>6 DEF SetSessionAvailable, PaintOrLog, Goto
  <2>2. todo'[s] = <<>> /\ \A t \in Threads \ {s} : todo'[t] = todo[t]
    BY <1>6, <2>1, ListParts DEF Carried, TypeOK, ListsOK
  <2>3. waitFor'[s] \notin UxPlays
    BY <1>6, <2>1, ListParts DEF Turns, UxWaits, EnterMiracast, Rejection
  <2> QED  BY <1>1, <2>1, <2>2, <2>3, TurnsAlone
<1>7. CASE PublishHealth(s) /\ todo[s] = <<>>
  <2>1. UNCHANGED <<state, todo, waitFor, life>> /\ Goto(s, "negotiating")
    BY <1>7 DEF PublishHealth, AfterDispatch
  <2>2. waitFor'[s] \notin UxPlays
    BY <1>7, <2>1, ListParts DEF Turns, UxWaits
  <2> QED  BY <1>1, <2>1, <2>2, TurnsAlone
<1>8. CASE ReadState(s) /\ todo[s] = <<>>
  <2>1. UNCHANGED <<state, todo, waitFor, life>> /\ Goto(s, "connecting")
    BY <1>2, <1>8 DEF ReadState, Goto
  <2>2. waitFor'[s] \notin UxPlays
    BY <1>8, <2>1, ListParts DEF Turns, UxWaits
  <2> QED  BY <1>1, <1>8, <2>1, <2>2, TurnsAlone
<1>9. CASE PauseAirPlayRaises(s)
  <2>1. UNCHANGED <<state, life>> /\ Goto(s, "died")
    BY <1>9, Disjoint DEF PauseAirPlayRaises, Raise
  <2>2. /\ \A t \in Threads \ {s} : todo'[t] = todo[t] /\ waitFor'[t] = waitFor[t]
        /\ waitFor'[s] \notin UxPlays
    BY <1>9, Disjoint DEF PauseAirPlayRaises, Raise, TypeOK, ListsOK, ChildrenOK
  <2> QED  BY <1>1, <1>9, <2>1, <2>2, TurnsAlone DEF HoldingPlaces
<1> QED  BY <1>2, <1>3, <1>4, <1>5, <1>6, <1>7, <1>8, <1>9, ListParts, DispatchedBy

(* The session gives the room back: the arbiter is in IDLE all the while.  *)
LEMMA TurnsGives ==
  ASSUME TypeOK, Turns, OneByOne, OneByOne', NEW s \in Sessions, pc[s] = "closing", Dispatch(s)
  PROVE  /\ Turns' /\ Present(s) /\ state = "IDLE" /\ state' = "IDLE"
         /\ \A t \in Threads : waitFor[t] \notin UxPlays /\ waitFor'[t] \notin UxPlays
<1>1. OneAtATime /\ OneAtATime' /\ Present(s) /\ state = "IDLE"
  BY DEF OneByOne, Present, Turns, ListsKnown
<1>2. pc[s] \in Dispatching /\ pc = [pc EXCEPT ![s] = "closing"]
  BY DEF Dispatching, TypeOK, PlacesOK
<1>3. todo[s] \in {LeaveMiracast, Tail(LeaveMiracast),
                   <<"RESUME_MIRACAST_DISCOVERY", "SHOW_IDLE_SCREEN">>,
                   <<"SHOW_IDLE_SCREEN">>, <<>>}
  BY DEF Turns, ListsKnown
<1>4. \A t \in Threads : waitFor[t] \notin UxPlays
  BY <1>1 DEF OneAtATime, Present, Turns, UxWaits
<1>5. CASE StopRender(s) /\ todo[s] = LeaveMiracast
  <2>1. /\ UNCHANGED state
        /\ (\A u \in UxPlays : life'[u] # "dead" => life[u] # "dead")
        /\ waitFor'[s] \notin UxPlays
        /\ (\A t \in Threads \ {s} : waitFor'[t] = waitFor[t])
    BY <1>4, <1>5, StopsRender
  <2>2. \A t \in Threads \ {s} : todo'[t] = todo[t]
    BY <1>5, StopFrame
  <2>3. CASE RenderStopRaises(s)
    <3>1. Goto(s, "aborted")
      BY <2>3, Disjoint DEF RenderStopRaises, Raise
    <3>2. Turns'
      BY <1>1, <2>1, <2>2, <3>1, TurnsAlone DEF HoldingPlaces
    <3> QED  BY <1>1, <1>4, <2>1, <3>2
  <2>4. CASE ~RenderStopRaises(s)
    <3>1. Goto(s, "closing") /\ (todo' = todo \/ Carried(s))
      BY <1>2, <1>5, <2>4 DEF StopRender, RenderStop, RenderStopNothing, RenderStopped,
         AfterStop, Goto
    <3>2. todo'[s] \in {LeaveMiracast, Tail(LeaveMiracast)}
      BY <1>5, <3>1 DEF Carried, TypeOK, ListsOK
    <3>3. Turns'
      BY <1>1, <2>1, <2>2, <3>1, <3>2, TurnsAlone DEF HoldingPlaces
    <3> QED  BY <1>1, <1>4, <2>1, <3>3
  <2> QED  BY <2>3, <2>4
<1>6. CASE ResumeAirPlay(s) /\ todo[s] = Tail(LeaveMiracast)
  <2>1. PICK w \in UxPlays : FreeUxPlay(w) /\ LaunchUxPlay(w, pc)
    BY <1>6 DEF ResumeAirPlay
  <2>2. UNCHANGED <<arbitration, waitFor>> /\ Carried(s)
    BY <1>6 DEF ResumeAirPlay
  <2>3. /\ \A v \in Sessions : pc'[v] = pc[v]
        /\ pc'[w] = "reading" /\ \A u \in UxPlays \ {w} : pc'[u] = pc[u] /\ life'[u] = life[u]
    BY <2>1, Disjoint DEF LaunchUxPlay, TypeOK, PlacesOK, ChildrenOK
  <2>4. todo'[s] = <<"RESUME_MIRACAST_DISCOVERY", "SHOW_IDLE_SCREEN">>
        /\ \A t \in Threads \ {s} : todo'[t] = todo[t]
    BY <1>6, <2>2, ListParts DEF Carried, TypeOK, ListsOK
  <2>5. RoomHeld' /\ ListsKnown' /\ UxWaits'
    BY <1>1, <1>4, <2>2, <2>3, <2>4 DEF Turns, RoomHeld, Presenting, ListsKnown, UxWaits
  <2>6. PumpsAside'
    BY <2>3, <2>4, Disjoint DEF Turns, PumpsAside, Serving
  <2> QED  BY <1>1, <1>4, <2>2, <2>5, <2>6 DEF Turns
<1>7. CASE ResumeAirPlayRaises(s)
  <2>1. /\ UNCHANGED <<arbitration, life>> /\ Goto(s, "aborted")
        /\ \A t \in Threads \ {s} : todo'[t] = todo[t] /\ waitFor'[t] = waitFor[t]
        /\ waitFor'[s] \notin UxPlays
    BY <1>7, Disjoint DEF ResumeAirPlayRaises, Raise, TypeOK, ListsOK, ChildrenOK
  <2>2. Turns'
    BY <1>1, <2>1, TurnsAlone DEF HoldingPlaces
  <2> QED  BY <1>1, <1>4, <2>1, <2>2
<1>8. CASE (SetSessionAvailable(s) \/ PaintOrLog(s))
           /\ todo[s] \in {<<"RESUME_MIRACAST_DISCOVERY", "SHOW_IDLE_SCREEN">>,
              <<"SHOW_IDLE_SCREEN">>}
  <2>1. UNCHANGED <<state, waitFor, life>> /\ Goto(s, "closing") /\ Carried(s)
    BY <1>2, <1>8 DEF SetSessionAvailable, PaintOrLog, Goto
  <2>2. /\ todo'[s] \in {<<"SHOW_IDLE_SCREEN">>, <<>>}
        /\ \A t \in Threads \ {s} : todo'[t] = todo[t]
    BY <1>8, <2>1, ListParts DEF Carried, TypeOK, ListsOK
  <2>3. Turns'
    BY <1>1, <1>4, <2>1, <2>2, TurnsAlone DEF HoldingPlaces
  <2> QED  BY <1>1, <1>4, <2>1, <2>3
<1>9. CASE (ReadState(s) \/ PublishHealth(s)) /\ todo[s] = <<>>
  <2>1. /\ UNCHANGED <<state, todo, waitFor, life>>
        /\ Goto(s, "leaving") \/ Goto(s, "closing")
    BY <1>2, <1>9 DEF ReadState, PublishHealth, AfterDispatch, Goto
  <2>2. \A t \in Threads : waitFor'[t] \notin UxPlays
    BY <1>4, <2>1
  <2>3. todo'[s] = <<>> /\ \A t \in Threads \ {s} : todo'[t] = todo[t] /\ waitFor'[t] = waitFor[t]
    BY <1>9, <2>1
  <2>4. Turns'
    BY <1>1, <2>1, <2>2, <2>3, TurnsAlone DEF HoldingPlaces
  <2> QED  BY <1>1, <1>4, <2>1, <2>2, <2>4
<1> QED  BY <1>2, <1>3, <1>5, <1>6, <1>7, <1>8, <1>9, ListParts, DispatchedBy

LEMMA TurnsNext ==
  ASSUME TypeOK, Turns, OneByOne, OneByOne', [Next]_vars
  PROVE  Turns'
<1>1. CASE Elsewhere /\ PumpsKeep
  BY <1>1, TurnsElsewhere DEF PumpsKeep
<1>2. ASSUME NEW s \in Sessions, Own(s)
      PROVE  Turns'
  BY <1>2, TurnsConnect, TurnsDisconnect, TurnsTakes, TurnsGives DEF Own
<1> QED  BY <1>1, <1>2, TurnsSteps

LEMMA TurnsInit == Init => Turns
<1> SUFFICES ASSUME Init PROVE Turns
  OBVIOUS
<1>1. \A s \in Sessions : pc[s] = "off"
  BY Disjoint DEF Init
<1>2. \A u \in UxPlays : pc[u] \in {"reading", "off"} /\ (life[u] # "dead" => pc[u] = "reading")
  BY DEF Init
<1>3. \A t \in Threads : waitFor[t] \notin UxPlays
  BY Disjoint DEF Init
<1> QED
  BY <1>1, <1>2, <1>3 DEF Turns, RoomHeld, Presenting, HoldingPlaces, PumpsAside, Serving,
                          ListsKnown, UxWaits

-----------------------------------------------------------------------------
(* While nobody takes the exit of a UxPlay for a crash.                    *)
LEMMA CourseElsewhere ==
  ASSUME TypeOK, Course, Prompt, Elsewhere, UxAsItWas, PumpsServe'
  PROVE  Course'
<1>1. OneUxPlay'
  BY DEF Course, Elsewhere, UxAsItWas, OneUxPlay
<1>2. ASSUME NEW s \in Sessions, Taking(s)
      PROVE  Taking(s)'
  BY <1>2 DEF Elsewhere, UxAsItWas, Taking, UxGone
<1>3. Taken'
  BY <1>2 DEF Course, Elsewhere, UxAsItWas, Taken, UxGone
<1> QED  BY <1>1, <1>3 DEF Course

(* A step of the session that is present.                                  *)
LEMMA CourseAlone ==
  ASSUME TypeOK, Turns, Course, OneAtATime, OneAtATime', NEW s \in Sessions, Present(s),
         NEW place, Goto(s, place), OneUxPlay', Taken'
  PROVE  Course'
<1>1. \A u \in UxPlays : pc'[u] = pc[u]
  BY OnlyOne DEF Turns
<1> QED  BY <1>1 DEF Course, PumpsServe

LEMMA CourseConnect ==
  ASSUME TypeOK, Turns, Course, OneByOne, OneByOne', NEW s \in Sessions, Connect(s)
  PROVE  Course'
<1>1. /\ Present(s) /\ Goto(s, "connecting") /\ state' = "MIRACAST"
      /\ todo'[s] = IF state = "IDLE" THEN EnterMiracast ELSE Rejection
  BY TurnsConnect
<1>2. pc[s] = "opened" /\ UNCHANGED <<health, avail, waitFor, life, uxProc>>
      /\ \A t \in Threads \ {s} : todo'[t] = todo[t]
  BY DEF Connect, Handle, TypeOK, ListsOK
<1>3. pc'[s] = "connecting"
  BY <1>1 DEF Goto, TypeOK, PlacesOK
<1>4. OneUxPlay'
  BY <1>2 DEF Course, OneUxPlay
<1>5. CASE state = "IDLE"
  BY <1>1, <1>3, <1>4, <1>5, CourseAlone DEF OneByOne, Taken, Taking
<1>6. CASE state = "MIRACAST"
  <2>1. \A v \in Sessions : ~Taking(v)
    BY <1>1, <1>2 DEF OneByOne, OneAtATime, Taking, Present
  <2>2. Taken'
    BY <1>2, <1>6, <2>1 DEF Course, Taken, UxGone
  <2> QED  BY <1>1, <1>4, <2>2, CourseAlone DEF OneByOne
<1> QED  BY <1>5, <1>6 DEF OneByOne, TypeOK, FlagsOK, States

LEMMA CourseTakes ==
  ASSUME TypeOK, Turns, Course, Prompt, OneByOne, OneByOne', "dbusfail" \notin Env,
         NEW s \in Sessions, pc[s] = "connecting", Dispatch(s)
  PROVE  Course'
<1>1. OneAtATime /\ OneAtATime' /\ Present(s) /\ state = "MIRACAST" /\ state' = state
  BY TurnsTakes DEF OneByOne
<1>2. Goto(s, "connecting") \/ Goto(s, "negotiating")
  <2>1. ~PauseAirPlayRaises(s)
    BY Disjoint DEF PauseAirPlayRaises, Course, OneUxPlay
  <2> QED  BY <2>1, TurnsTakes
<1>3. OneUxPlay' /\ Taken' => Course'
  BY <1>1, <1>2, CourseAlone
<1>4. \A v \in Sessions \ {s} : ~Taking(v)
  BY <1>1 DEF OneAtATime, Present, Taking
<1>5. todo[s] \in {EnterMiracast, <<"PAUSE_MIRACAST_DISCOVERY">>, Rejection, <<>>}
  BY DEF Turns, ListsKnown
<1>6. pc[s] \in Dispatching
  BY DEF Dispatching
<1>7. CASE PauseAirPlay(s) /\ todo[s] = EnterMiracast
  <2>1. UNCHANGED <<pc, uxProc>>
    BY <1>7 DEF PauseAirPlay
  <2>2. CASE uxProc = None /\ Carried(s) /\ UNCHANGED <<waitFor, life>>
    <3>1. UxGone'
      BY <2>2, Disjoint DEF Course, OneUxPlay, UxGone
    <3>2. todo'[s] = <<"PAUSE_MIRACAST_DISCOVERY">>
      BY <1>7, <2>2, ListParts DEF Carried, TypeOK, ListsOK
    <3>3. Taken' /\ OneUxPlay'
      BY <2>1, <2>2, <3>1, <3>2 DEF Taken, Taking, Course, OneUxPlay
    <3> QED  BY <1>3, <3>3
  <2>3. CASE uxProc # None /\ Terminate(s, uxProc) /\ UNCHANGED todo
    <3>1. \A t \in Threads : waitFor'[t] = waitFor[t] \/ waitFor'[t] = uxProc
      BY <2>3 DEF Terminate, TypeOK, ChildrenOK
    <3>2. \A u \in UxPlays : life'[u] # "dead" => life[u] # "dead"
      BY <2>3 DEF Terminate, TypeOK, ChildrenOK
    <3>3. Taken' /\ OneUxPlay'
      BY <1>7, <2>1, <2>3, <3>1, <3>2 DEF Taken, Taking, Course, OneUxPlay
    <3> QED  BY <1>3, <3>3
  <2> QED  BY <1>7, <2>2, <2>3 DEF PauseAirPlay
<1>8. CASE AirPlayPaused(s) /\ todo[s] = EnterMiracast
  <2>1. UNCHANGED <<pc, life>> /\ waitFor' = [waitFor EXCEPT ![s] = None]
        /\ waitFor[s] \in UxPlays /\ life[waitFor[s]] = "dead"
    BY <1>8 DEF AirPlayPaused
  <2>2. UxGone'
    BY <2>1 DEF Course, OneUxPlay, UxGone
  <2>3. todo'[s] = <<"PAUSE_MIRACAST_DISCOVERY">>
    BY <1>8, ListParts DEF AirPlayPaused, Carried, TypeOK, ListsOK
  <2>4. \A t \in Threads : waitFor'[t] \notin UxPlays
    BY <1>1, <2>1, Disjoint DEF Turns, UxWaits, OneAtATime, Present, TypeOK, ChildrenOK
  <2>5. Taken' /\ OneUxPlay'
    BY <2>1, <2>2, <2>3, <2>4 DEF Taken, Taking, OneUxPlay, UxGone
  <2> QED  BY <1>3, <2>5
<1>9. CASE SetSessionAvailable(s) /\ todo[s] = <<"PAUSE_MIRACAST_DISCOVERY">>
  <2>1. UNCHANGED <<pc, waitFor, life, uxProc>> /\ avail' = FALSE /\ Carried(s)
    BY <1>9, ListParts DEF SetSessionAvailable, Pending
  <2>2. todo'[s] = <<>>
    BY <1>9, <2>1, ListParts DEF Carried, TypeOK, ListsOK
  <2>3. UxGone'
    BY <1>1, <1>4, <1>9, <2>1, ListParts DEF Course, Taken, Taking, UxGone
  <2>4. Taken' /\ OneUxPlay'
    BY <2>1, <2>2, <2>3 DEF Taken, Taking, Course, OneUxPlay
  <2> QED  BY <1>3, <2>4
<1>10. CASE PaintOrLog(s) /\ todo[s] = Rejection
  <2>1. UNCHANGED <<arbitration, pc, waitFor, life, uxProc>>
    BY <1>10 DEF PaintOrLog
  <2>2. ~Taking(s)
    BY <1>10, ListParts DEF Taking, Rejection, EnterMiracast
  <2>3. Taken' /\ OneUxPlay'
    BY <1>4, <2>1, <2>2 DEF Course, Taken, OneUxPlay, UxGone
  <2> QED  BY <1>3, <2>3
<1>11. CASE PublishHealth(s) /\ todo[s] = <<>>
  <2>1. UNCHANGED <<avail, todo, waitFor, life, uxProc>> /\ health' = state
    BY <1>11 DEF PublishHealth, Prompt
  <2>2. UxGone /\ ~avail
    BY <1>1, <1>4, <1>11, ListParts DEF Course, Taken, Taking
  <2>3. Taken' /\ OneUxPlay'
    BY <1>1, <2>1, <2>2 DEF Course, Taken, OneUxPlay, UxGone
  <2> QED  BY <1>3, <2>3
<1>12. CASE ReadState(s)
  <2>1. UNCHANGED <<state, health, avail, threads, life, uxProc>>
    BY <1>12 DEF ReadState
  <2>2. Taken' /\ OneUxPlay'
    BY <2>1 DEF Course, Taken, Taking, OneUxPlay, UxGone
  <2> QED  BY <1>3, <2>2
<1>13. ~PauseAirPlayRaises(s)
  BY Disjoint DEF PauseAirPlayRaises, Course, OneUxPlay
<1> QED
  BY <1>5, <1>6, <1>7, <1>8, <1>9, <1>10, <1>11, <1>12, <1>13, ListParts, DispatchedBy

LEMMA CourseGives ==
  ASSUME TypeOK, Turns, Course, OneByOne, OneByOne',
         NEW s \in Sessions, pc[s] = "closing", Dispatch(s)
  PROVE  Course'
<1>1. /\ OneAtATime /\ OneAtATime' /\ Present(s) /\ state' = "IDLE"
      /\ \A t \in Threads : waitFor[t] \notin UxPlays /\ waitFor'[t] \notin UxPlays
  BY TurnsGives DEF OneByOne
<1>2. Taken'
  BY <1>1 DEF Taken
<1>3. pc[s] \in Dispatching /\ pc = [pc EXCEPT ![s] = "closing"]
  BY DEF Dispatching, TypeOK, PlacesOK
<1>4. CASE ResumeAirPlay(s)
  <2>1. PICK w \in UxPlays : LaunchUxPlay(w, pc)
    BY <1>4 DEF ResumeAirPlay
  <2>2. \A u \in UxPlays : life[u] = "dead"
    BY <1>4, Disjoint DEF ResumeAirPlay, Course, OneUxPlay, IsRunning
  <2>3. OneUxPlay'
    BY <1>1, <2>1, <2>2 DEF OneUxPlay, LaunchUxPlay, TypeOK, ChildrenOK
  <2>4. PumpsServe'
    BY <2>1, Disjoint DEF Course, PumpsServe, Serving, LaunchUxPlay, TypeOK, PlacesOK
  <2> QED  BY <1>2, <2>3, <2>4 DEF Course
<1>5. CASE ~ResumeAirPlay(s)
  <2>1. ~PauseAirPlay(s) /\ ~AirPlayPaused(s) /\ ~PauseAirPlayRaises(s)
    BY ListParts DEF PauseAirPlay, AirPlayPaused, PauseAirPlayRaises, Pending, Turns, ListsKnown
  <2>2. uxProc' = uxProc /\ \A u \in UxPlays : life'[u] # "dead" => life[u] # "dead"
    BY <1>5, <2>1, StopsRender DEF Dispatch, PauseAirPlayEnds, ResumeAirPlayRaises,
       SetSessionAvailable,
       PaintOrLog, ReadState, PublishHealth
  <2>3. OneUxPlay'
    BY <1>1, <2>2 DEF Course, OneUxPlay
  <2>4. \E place : Goto(s, place)
    BY <1>3, <1>5, <2>1 DEF Dispatch, PauseAirPlayEnds, StopRender, RenderStop,
       RenderStopNothing, RenderStopped,
       RenderStopRaises, AfterStop, Goto, Raise, Dispatching, ResumeAirPlayRaises,
       SetSessionAvailable, PaintOrLog, ReadState, PublishHealth
  <2> QED  BY <1>1, <1>2, <2>3, <2>4, CourseAlone
<1> QED  BY <1>4, <1>5

LEMMA CourseNext ==
  ASSUME TypeOK, Turns, Course, Prompt, Undisturbed, Undisturbed', "dbusfail" \notin Env,
     [Next]_vars
  PROVE  Course'
<1>1. OneByOne /\ OneByOne'
  BY DEF Undisturbed
<1>2. CASE Elsewhere /\ PumpsKeep
  BY <1>2, CourseElsewhere DEF PumpsKeep, Course
<1>3. ASSUME NEW s \in Sessions, Disconnect(s)
      PROVE  Course'
  <2>1. Present(s) /\ Goto(s, "closing") /\ state' = "IDLE"
    BY <1>1, <1>3, TurnsDisconnect
  <2>2. OneUxPlay' /\ Taken'
    BY <1>3, <2>1 DEF Disconnect, Course, OneUxPlay, Taken
  <2> QED  BY <1>1, <2>1, <2>2, CourseAlone DEF OneByOne
<1>4. ASSUME NEW s \in Sessions, Own(s)
      PROVE  Course'
  BY <1>1, <1>3, <1>4, CourseConnect, CourseTakes, CourseGives DEF Own
<1> QED  BY <1>1, <1>2, <1>4, TurnsSteps

LEMMA CourseInit == Init => Course
<1> SUFFICES ASSUME Init PROVE Course
  OBVIOUS
<1>1. \A u \in UxPlays : pc[u] \in {"reading", "off"} /\ (life[u] # "dead" => u = uxProc)
  BY DEF Init
<1>2. \A t \in Threads : waitFor[t] \notin UxPlays
  BY Disjoint DEF Init
<1> QED
  BY <1>1, <1>2 DEF Init, Course, PumpsServe, Serving, OneUxPlay, Taken

(* As long as sessions come one by one and UxPlay ends only when it is     *)
(* told to, a source that is presenting in a settled daemon has the room:  *)
(* discovery and /health say so, and no UxPlay is left that an AirPlay     *)
(* client could find, whatever pipelines, recovery threads and the stream  *)
(* watch thread did.  A publish that fails on D-Bus is swallowed, and then *)
(* discovery says what it said before; and a thread that is delayed        *)
(* between reading the state and telling it makes /health tell the past.   *)
THEOREM OneByOneTheRoomIsTaken ==
  ASSUME "dbusfail" \notin Env
  PROVE  Spec /\ []Undisturbed /\ []Prompt => []RoomTaken
<1>1. /\ TypeOK /\ Turns /\ Course /\ Undisturbed /\ Undisturbed' /\ Prompt /\ [Next]_vars
      => Turns' /\ Course'
  BY TurnsNext, CourseNext DEF Undisturbed
<1>2. Course => RoomTaken
  BY DEF Course, Taken, Taking, UxGone, RoomTaken, Quiet
<1> QED  BY <1>1, <1>2, TurnsInit, CourseInit, TypeCorrect, PTL DEF Spec

-----------------------------------------------------------------------------
(* While no recovery thread starts a pipeline again.                       *)
LEMMA RecoveriesNext ==
  ASSUME TypeOK, RecoveriesWait, NoReroll', [Next]_vars
  PROVE  RecoveriesWait'
<1>1. ASSUME NEW r \in Recoveries, RecoveryStep(r)
      PROVE  RecoveriesWait'
  <2>1. ~StopRender(r)
    BY DEF StopRender, RenderStop, RenderStopNothing, RenderStopped, RenderStopRaises,
           StoppingRender, Pending, Dispatching, RecoveriesWait
  <2>2. pc'[r] \in {"off", "waiting", "checking"}
    BY <1>1, <2>1 DEF RecoveryStep, RecoveryWait, RecoveryCheck, RecoveryLower, RecoveryRecheck,
       RecoveryStart, RecoveryStartRaises, RecoveryRearm, Goto, RecoveriesWait, NoReroll, TypeOK,
       PlacesOK
  <2> QED  BY <1>1, <2>2, RecoveryFrame DEF RecoveriesWait
<1>2. ASSUME NEW s \in Sessions, SessionStep(s) \/ Arrive(s) \/ SourceLeaves(s)
      PROVE  RecoveriesWait'
  BY <1>2, SessionFrame DEF RecoveriesWait
<1>3. ASSUME NEW u \in UxPlays, PumpStep(u)
      PROVE  RecoveriesWait'
  BY <1>3, PumpFrame DEF RecoveriesWait
<1>4. CASE pc' = pc
  BY <1>4 DEF RecoveriesWait
<1> QED
  BY <1>1, <1>2, <1>3, <1>4, WatchMoves DEF Next, Environment, ChildDies, ChildCrashes, FirstFrame,
     AirPlayClient, vars

(* Only the session that is present stops the pipeline.                    *)
LEMMA WhoStops ==
  ASSUME TypeOK, Turns, RecoveriesWait, NEW t \in Threads, RenderStop(t)
  PROVE  t \in Sessions /\ (pc[t] = "replacing" \/ (pc[t] = "closing" /\ todo[t] = LeaveMiracast))
<1>1. StoppingRender(t)
  BY DEF RenderStop
<1>2. t \notin Recoveries
  BY <1>1, Disjoint DEF StoppingRender, Pending, Dispatching, RecoveriesWait
<1>3. t \notin UxPlays
  BY <1>1, ListParts DEF StoppingRender, Pending, Dispatching, Turns, PumpsAside, Serving, Returning
<1>4. t \in Sessions
  BY <1>2, <1>3
<1>5. CASE pc[t] = "connecting"
  BY <1>1, <1>4, <1>5, ListParts DEF StoppingRender, Pending, Turns, ListsKnown
<1>6. CASE pc[t] = "closing"
  BY <1>1, <1>4, <1>6, ListParts DEF StoppingRender, Pending, Turns, ListsKnown
<1> QED
  BY <1>1, <1>4, <1>5, <1>6 DEF StoppingRender, Pending, Dispatching, TypeOK, PlacesOK,
     SessionPlaces

(* Who begins to wait in stop() does so with this step.                    *)
LEMMA WhoWaits ==
  ASSUME TypeOK, [Next]_vars, NEW t \in Threads, Waiting(t)'
  PROVE  Waiting(t) \/ RenderStop(t)
<1>1. CASE \E v \in Threads : RenderStop(v)
  BY <1>1 DEF RenderStop, Terminate, Waiting, TypeOK, ChildrenOK
<1>2. CASE \E v \in Threads : RenderStopped(v)
  BY <1>2, Disjoint, NoneAssumption DEF RenderStopped, Waiting, TypeOK, ChildrenOK
<1> QED  BY <1>1, <1>2, RenderSteps DEF RenderStep, Aside, Waiting

(* A session in stop() stays there until its wait returns.                 *)
LEMMA StaysInStop ==
  ASSUME TypeOK, Turns, [Next]_vars, NEW s \in Sessions, Waiting(s), Waiting(s)',
         pc[s] = "replacing" \/ (pc[s] = "closing" /\ todo[s] = LeaveMiracast)
  PROVE  pc'[s] = pc[s] /\ todo'[s] = todo[s]
<1>1. waitFor[s] # None /\ waitFor[s] \notin UxPlays
  BY Disjoint DEF Waiting
<1>2. ASSUME NEW v \in Sessions \ {s}, SessionStep(v) \/ Arrive(v) \/ SourceLeaves(v)
      PROVE  pc'[s] = pc[s] /\ todo'[s] = todo[s]
  BY <1>2, SessionFrame
<1>3. ASSUME SessionStep(s) \/ Arrive(s) \/ SourceLeaves(s)
      PROVE  pc'[s] = pc[s] /\ todo'[s] = todo[s]
  <2>1. Dispatch(s)
    BY <1>3 DEF SessionStep, Arrive, SourceLeaves, NoticeClosed, Authorize, DialFails, Open,
       Connect, Negotiated, NegotiationFails, StartRender, StartRenderFails, StartRenderRaises,
       Arm, EndPump, Disconnect, Leave
  <2>2. StopRender(s)
    <3>1. CASE pc[s] = "replacing"
      BY <2>1, <3>1 DEF Dispatch, PauseAirPlayEnds, PauseAirPlay, AirPlayPaused,
         PauseAirPlayRaises, ResumeAirPlay,
         ResumeAirPlayRaises, SetSessionAvailable, PaintOrLog, ReadState, PublishHealth, Pending,
         Dispatching
    <3>2. CASE pc[s] = "closing" /\ todo[s] = LeaveMiracast
      BY <2>1, <3>2, ListParts, DispatchedBy DEF Dispatching
    <3> QED  BY <3>1, <3>2
  <2>3. waitFor'[s] # None
    BY Disjoint DEF Waiting
  <2>4. RenderStop(s)
    BY <1>1, <2>2, <2>3 DEF StopRender, RenderStopNothing, RenderStopped, RenderStopRaises, Raise,
       TypeOK, ChildrenOK
  <2> QED  BY <2>4 DEF RenderStop
<1>4. ASSUME NEW r \in Recoveries, RecoveryStep(r)
      PROVE  pc'[s] = pc[s] /\ todo'[s] = todo[s]
  BY <1>4, RecoveryFrame, Disjoint
<1>5. ASSUME NEW u \in UxPlays, PumpStep(u)
      PROVE  pc'[s] = pc[s] /\ todo'[s] = todo[s]
  BY <1>5, PumpFrame, Disjoint
<1>6. CASE UNCHANGED <<pc, todo>>
  BY <1>6
<1> QED
  BY <1>2, <1>3, <1>4, <1>5, <1>6, WatchMoves DEF Next, Environment, ChildDies, ChildCrashes,
     FirstFrame, AirPlayClient, vars

(* So the lock of LockPreventsOrphans is not needed.                       *)
LEMMA AsIfLocked ==
  ASSUME TypeOK, Turns, RecoveriesWait, RenderWaits, OneAtATime, [Next]_vars
  PROVE  Locked \/ UNCHANGED vars
<1> SUFFICES ASSUME Next, NEW t \in Threads, Waiting(t)
             PROVE  /\ proc' \in {proc, None}
                    /\ \A v \in Threads \ {t} : ~Waiting(v)'
  BY DEF Locked
<1>1. t \in Sessions /\ Present(t) /\ pc[t] \in {"replacing", "closing"}
  BY DEF RenderWaits, Present
<1>2. ASSUME NEW v \in Threads \ {t}, Waiting(v)'
      PROVE  FALSE
  <2>1. v \in Sessions /\ pc[v] \in {"replacing", "closing"}
    BY <1>2, WhoWaits, WhoStops DEF RenderWaits
  <2> QED  BY <1>1, <1>2, <2>1 DEF OneAtATime, Present
<1>3. ASSUME NEW p \in Renders, Spawn(p)
      PROVE  \E s \in Sessions : pc[s] = "starting"
  <2>2. proc' # proc
    BY <1>3 DEF Spawn, Free
  <2>3. ASSUME NEW r \in Recoveries, RecoveryStep(r)
        PROVE  proc' \in {proc, None}
    BY <2>3 DEF RecoveryStep, RecoveryWait, RecoveryCheck, RecoveryLower, RecoveryRecheck,
       RecoveryStart, RecoveryStartRaises, RecoveryRearm, StopRender, RenderStop,
       RenderStopNothing, RenderStopped, RenderStopRaises, RecoveriesWait
  <2>4. ASSUME NEW q \in Threads, Dispatch(q)
        PROVE  proc' \in {proc, None}
    BY <2>4 DEF Dispatch, PauseAirPlayEnds, StopRender, RenderStop, RenderStopNothing,
       RenderStopped,
       RenderStopRaises, PauseAirPlay, AirPlayPaused, PauseAirPlayRaises, ResumeAirPlay,
       ResumeAirPlayRaises, SetSessionAvailable, PaintOrLog, ReadState, PublishHealth
  <2>5. ASSUME NEW u \in UxPlays, PumpStep(u)
        PROVE  proc' \in {proc, None}
    BY <2>4, <2>5 DEF PumpStep, ReadLine, EndOfOutput, Exited, Bereaved, Relaunching, Relaunch
  <2>6. ASSUME NEW s \in Sessions, SessionStep(s) \/ Arrive(s) \/ SourceLeaves(s)
        PROVE  proc' \in {proc, None} \/ pc[s] = "starting"
    BY <2>4, <2>6 DEF SessionStep, Arrive, SourceLeaves, NoticeClosed, Authorize, DialFails, Open,
       Connect, Negotiated, NegotiationFails, StartRender, StartRenderFails, StartRenderRaises,
       Arm, EndPump, Disconnect, Leave
  <2>7. proc' # None
    BY <1>3, Disjoint DEF Spawn
  <2> QED
    BY <2>2, <2>3, <2>5, <2>6, <2>7, WatchMoves DEF Next, Environment, ChildDies, ChildCrashes,
       FirstFrame, AirPlayClient
<1>4. proc' \in {proc, None}
  <2>1. ~(\E s \in Sessions : pc[s] = "starting")
    BY <1>1 DEF OneAtATime, Present
  <2>2. ~(\E p \in Renders : Spawn(p))
    BY <1>3, <2>1
  <2> QED  BY <2>2, RenderSteps DEF RenderStep, Aside, RenderStop, RenderStopped
<1> QED  BY <1>2, <1>4

LEMMA RenderWaitsNext ==
  ASSUME TypeOK, Turns, RecoveriesWait, RenderWaits, [Next]_vars
  PROVE  RenderWaits'
<1> SUFFICES ASSUME NEW t \in Threads, Waiting(t)'
             PROVE  t \in Sessions /\ (pc'[t] = "replacing" \/ (pc'[t] = "closing" /\ todo'[t] = LeaveMiracast))
  BY DEF RenderWaits
<1>1. CASE Waiting(t)
  BY <1>1, StaysInStop DEF RenderWaits
<1>2. CASE RenderStop(t)
  BY <1>2, WhoStops DEF RenderStop
<1> QED  BY <1>1, <1>2, WhoWaits

LEMMA AloneNext ==
  ASSUME TypeOK, Turns, Alone, OneByOne, NoReroll', [Next]_vars
  PROVE  Alone'
<1>1. Locked \/ UNCHANGED vars
  BY AsIfLocked DEF Alone, OneByOne
<1>2. InStop' /\ NoOrphan'
  BY <1>1, RenderSteps, OrphanStep DEF Alone
<1> QED  BY <1>2, RecoveriesNext, RenderWaitsNext DEF Alone

LEMMA AloneInit == Init => Alone
<1> SUFFICES ASSUME Init PROVE Alone
  OBVIOUS
<1>1. \A r \in Recoveries : pc[r] = "off"
  BY Disjoint DEF Init
<1>2. \A t \in Threads : waitFor[t] = None
  BY DEF Init
<1>3. \A p \in Renders : life[p] = "dead"
  BY Disjoint DEF Init
<1> QED
  BY <1>1, <1>2, <1>3, Disjoint DEF Alone, RecoveriesWait, RenderWaits, Waiting, InStop, NoOrphan

(* As long as sessions come one by one, no AirPlay client has the room and *)
(* no recovery thread starts a pipeline again, there is never a second     *)
(* pipeline, although RenderProcess has no lock: only the session that is  *)
(* present calls stop(), and nobody calls start() meanwhile.               *)
THEOREM OneByOneNoOrphan == Spec /\ []OneByOne /\ []NoReroll => []NoOrphan
<1>1. /\ TypeOK /\ Turns /\ Alone /\ OneByOne /\ OneByOne' /\ NoReroll' /\ [Next]_vars
      => Turns' /\ Alone'
  BY TurnsNext, AloneNext
<1>2. Alone => NoOrphan
  BY DEF Alone
<1> QED  BY <1>1, <1>2, TurnsInit, AloneInit, TypeCorrect, PTL DEF Spec

LEMMA RestoredElsewhere ==
  ASSUME TypeOK, Turns, RecoveriesWait, Restored, Prompt, Elsewhere, PumpsKeep,
         "lateexit" \notin Env
  PROVE  Restored'
<1> SUFFICES ASSUME ~Casualty'
             PROVE  /\ \A s \in Sessions : pc'[s] = "closing" => Progress(s)'
                    /\ state' = "IDLE" /\ (\A s \in Sessions : pc'[s] # "closing") =>
                         Dark' /\ UxServes' /\ avail' /\ health' = "IDLE"
  BY DEF Restored
<1>1. ~Casualty
  BY DEF Elsewhere, Casualty
<1>2. UxServes => UxServes'
  BY DEF PumpsKeep
<1>3. state = "IDLE" => (Dark => Dark')
  BY DEF Elsewhere, Dark
<1>4. ASSUME NEW s \in Sessions, pc'[s] = "closing"
      PROVE  Progress(s)'
  <2>1. pc[s] = "closing" /\ todo'[s] = todo[s] /\ avail' = avail
    BY <1>4 DEF Elsewhere
  <2>2. state = "IDLE" /\ Progress(s)
    BY <1>1, <2>1 DEF Restored, Turns, ListsKnown
  <2> QED  BY <1>2, <1>3, <2>1, <2>2 DEF Progress
<1>5. (\A s \in Sessions : pc'[s] # "closing") => \A s \in Sessions : pc[s] # "closing"
  BY DEF Elsewhere
<1> QED  BY <1>1, <1>2, <1>3, <1>4, <1>5 DEF Restored, Elsewhere

(* A session that takes the room, or is about to give it back.             *)
LEMMA RestoredTaken ==
  ASSUME TypeOK, Turns, Restored, OneAtATime, OneAtATime', NEW s \in Sessions, Present(s),
         NEW place \in {"connecting", "negotiating", "closing"}, Goto(s, place),
         place = "closing" => todo'[s] = LeaveMiracast,
         place # "closing" => state' # "IDLE"
  PROVE  Restored'
<1>1. pc'[s] = place /\ \A v \in Sessions \ {s} : pc'[v] # "closing"
  BY OnlyOne DEF Turns, Present
<1> QED  BY <1>1 DEF Restored, Progress

LEMMA RestoredGives ==
  ASSUME TypeOK, Turns, InStop, NoOrphan, Restored, Prompt, OneAtATime, OneAtATime',
         "dbusfail" \notin Env,
         NEW s \in Sessions, pc[s] = "closing", Dispatch(s)
  PROVE  Restored'
<1>1. Present(s) /\ state = "IDLE" /\ pc[s] \in Dispatching
  BY DEF Present, Turns, ListsKnown, Dispatching
<1>2. \A v \in Sessions \ {s} : pc[v] # "closing" /\ pc[v] = pc[v]
  BY <1>1 DEF OneAtATime, Present
<1>3. pc = [pc EXCEPT ![s] = pc[s]]
  BY DEF TypeOK, PlacesOK
<1>4. ASSUME ~Casualty
      PROVE  Progress(s)
  BY <1>4 DEF Restored
<1>5. ASSUME \A v \in Sessions : pc'[v] = pc[v], ~Casualty => Progress(s)'
      PROVE  Restored'
  BY <1>2, <1>5 DEF Restored, Casualty
<1>6. todo[s] \in {LeaveMiracast, Tail(LeaveMiracast),
                   <<"RESUME_MIRACAST_DISCOVERY", "SHOW_IDLE_SCREEN">>,
                   <<"SHOW_IDLE_SCREEN">>, <<>>}
  BY DEF Turns, ListsKnown
<1>7. CASE todo[s] = LeaveMiracast
  <2>0. ~RenderStopRaises(s)
    BY Disjoint DEF RenderStopRaises, InStop, Waiting
  <2>1. RenderStop(s) \/ RenderStopNothing(s) \/ RenderStopped(s)
    BY <1>1, <1>7, <2>0, ListParts, DispatchedBy DEF StopRender
  <2>2. pc' = pc
    BY <1>1, <2>1 DEF RenderStop, RenderStopNothing, RenderStopped, AfterStop, Dispatching
  <2>3. CASE RenderStop(s)
    BY <1>5, <1>7, <2>2, <2>3 DEF RenderStop, Progress
  <2>4. CASE RenderStopNothing(s) \/ RenderStopped(s)
    <3>1. Dark /\ life' = life
      BY <2>4, Disjoint DEF RenderStopNothing, RenderStopped, InStop, NoOrphan, Waiting, Dark
    <3>2. todo'[s] = Tail(LeaveMiracast)
      BY <1>1, <1>7, <2>4 DEF RenderStopNothing, RenderStopped, AfterStop, Carried, Dispatching,
         TypeOK, ListsOK
    <3>3. Progress(s)'
      BY <3>1, <3>2 DEF Progress, Dark
    <3> QED  BY <1>5, <2>2, <3>3
  <2> QED  BY <2>1, <2>3, <2>4
<1>8. CASE todo[s] = Tail(LeaveMiracast) /\ ResumeAirPlay(s)
  <2>1. PICK w \in UxPlays : LaunchUxPlay(w, pc)
    BY <1>8 DEF ResumeAirPlay
  <2>2. \A v \in Sessions : pc'[v] = pc[v]
    BY <2>1, Disjoint DEF LaunchUxPlay, TypeOK, PlacesOK
  <2>3. \A p \in Renders : life'[p] = life[p]
    BY <2>1, Disjoint DEF LaunchUxPlay, TypeOK, ChildrenOK
  <2>4. uxProc' = w /\ ~expectExit' /\ pc'[w] = "reading" /\ w # None
    BY <2>1, Disjoint DEF LaunchUxPlay, TypeOK, PlacesOK
  <2>5. UxServes'
    BY <2>4 DEF UxServes, Serving
  <2>6. todo'[s] = <<"RESUME_MIRACAST_DISCOVERY", "SHOW_IDLE_SCREEN">>
    BY <1>8, ListParts DEF ResumeAirPlay, Carried, TypeOK, ListsOK
  <2>7. ~Casualty => Dark
    BY <1>4, <1>8, ListParts DEF Progress
  <2>8. ~Casualty => Progress(s)'
    BY <2>3, <2>5, <2>6, <2>7 DEF Progress, Dark
  <2> QED  BY <1>5, <2>2, <2>8
<1>9. CASE ResumeAirPlayRaises(s)
  <2>1. Casualty'
    BY <1>9, Disjoint DEF ResumeAirPlayRaises, Raise, Goto, Casualty, TypeOK, PlacesOK
  <2> QED  BY <2>1 DEF Restored
<1>10. CASE todo[s] = <<"RESUME_MIRACAST_DISCOVERY", "SHOW_IDLE_SCREEN">>
  <2>1. SetSessionAvailable(s)
    BY <1>1, <1>10, ListParts, DispatchedBy
  <2>2. avail' = TRUE /\ Carried(s) /\ UNCHANGED <<pc, life, uxProc, expectExit>>
    BY <1>10, <2>1, ListParts DEF SetSessionAvailable, Pending
  <2>3. todo'[s] = <<"SHOW_IDLE_SCREEN">>
    BY <1>10, <2>2, ListParts DEF Carried, TypeOK, ListsOK
  <2>4. ~Casualty => Dark /\ UxServes
    BY <1>4, <1>10, ListParts DEF Progress
  <2>5. ~Casualty => Progress(s)'
    BY <2>2, <2>3, <2>4 DEF Progress, Dark, UxServes
  <2> QED  BY <1>5, <2>2, <2>5
<1>11. CASE todo[s] = <<"SHOW_IDLE_SCREEN">>
  <2>1. PaintOrLog(s)
    BY <1>1, <1>11, ListParts, DispatchedBy
  <2>2. Carried(s) /\ UNCHANGED <<avail, pc, life, uxProc, expectExit>>
    BY <2>1 DEF PaintOrLog
  <2>3. todo'[s] = <<>>
    BY <1>11, <2>2, ListParts DEF Carried, TypeOK, ListsOK
  <2>4. ~Casualty => Dark /\ UxServes /\ avail
    BY <1>4, <1>11, ListParts DEF Progress
  <2>5. ~Casualty => Progress(s)'
    BY <2>2, <2>3, <2>4 DEF Progress, Dark, UxServes
  <2> QED  BY <1>5, <2>2, <2>5
<1>12. CASE todo[s] = <<>>
  <2>0. CASE ReadState(s)
    <3>1. UNCHANGED <<avail, pc, todo, life, uxProc, expectExit>>
      BY <2>0 DEF ReadState
    <3>2. ~Casualty => Progress(s)'
      BY <1>4, <3>1 DEF Progress, Dark, UxServes
    <3> QED  BY <1>5, <3>1, <3>2
  <2> SUFFICES ASSUME PublishHealth(s) PROVE Restored'
    BY <1>1, <1>12, <2>0, DispatchedBy
  <2>2. /\ UNCHANGED <<state, avail, todo, waitFor, life, uxProc, expectExit>>
        /\ Goto(s, "leaving") /\ health' = state
    BY DEF PublishHealth, AfterDispatch, Prompt
  <2>3. /\ \A v \in Sessions \ {s} : pc'[v] = pc[v]
        /\ \A u \in UxPlays : pc'[u] = pc[u]
        /\ pc'[s] = "leaving"
    BY <1>1, <2>2, OnlyOne DEF Turns
  <2>4. Casualty => Casualty'
    BY <2>3 DEF Casualty
  <2>5. ~Casualty => Dark /\ UxServes /\ avail
    BY <1>4, <1>12, ListParts DEF Progress
  <2>6. UxServes => UxServes'
    BY <2>2, <2>3 DEF UxServes, TypeOK, ChildrenOK
  <2>7. \A v \in Sessions : pc'[v] # "closing"
    BY <1>2, <2>3
  <2> QED  BY <1>1, <2>2, <2>4, <2>5, <2>6, <2>7 DEF Restored, Dark
<1>13. todo[s] = Tail(LeaveMiracast) => ResumeAirPlay(s) \/ ResumeAirPlayRaises(s)
  BY <1>1, ListParts, DispatchedBy
<1> QED  BY <1>6, <1>7, <1>8, <1>9, <1>10, <1>11, <1>12, <1>13

LEMMA RestoredNext ==
  ASSUME TypeOK, Turns, Alone, Restored, Prompt, OneByOne, OneByOne',
         "dbusfail" \notin Env, "lateexit" \notin Env, [Next]_vars
  PROVE  Restored'
<1>1. CASE Elsewhere /\ PumpsKeep
  BY <1>1, RestoredElsewhere DEF Alone
<1>2. ASSUME NEW s \in Sessions, Own(s)
      PROVE  Restored'
  <2>1. OneAtATime /\ OneAtATime'
    BY DEF OneByOne
  <2>2. CASE Connect(s)
    BY <2>1, <2>2, TurnsConnect, RestoredTaken
  <2>3. CASE Disconnect(s)
    BY <2>1, <2>3, TurnsDisconnect, RestoredTaken
  <2>4. CASE pc[s] = "connecting" /\ Dispatch(s)
    <3>1. CASE PauseAirPlayRaises(s)
      <4>1. Casualty'
        BY <2>4, <3>1, RaiseFrame DEF PauseAirPlayRaises, Casualty
      <4> QED  BY <4>1 DEF Restored
    <3>2. CASE ~PauseAirPlayRaises(s)
      BY <2>1, <2>4, <3>2, TurnsTakes, RestoredTaken
    <3> QED  BY <3>1, <3>2
  <2>5. CASE pc[s] = "closing" /\ Dispatch(s)
    BY <2>1, <2>5, RestoredGives DEF Alone
  <2> QED  BY <1>2, <2>2, <2>3, <2>4, <2>5 DEF Own
<1> QED  BY <1>1, <1>2, TurnsSteps

LEMMA RestoredInit == Init => Restored
<1> SUFFICES ASSUME Init PROVE Restored
  OBVIOUS
<1>1. \A s \in Sessions : pc[s] = "off"
  BY Disjoint DEF Init
<1>2. \A p \in Renders : life[p] = "dead"
  BY Disjoint DEF Init
<1>3. uxProc \in UxPlays /\ pc[uxProc] = "reading"
  BY DEF Init
<1> QED  BY <1>1, <1>2, <1>3, Disjoint DEF Init, Restored, Dark, UxServes, Serving

(* Under the same conditions, when no publish fails on D-Bus, no thread is *)
(* delayed between reading the state and telling it, and poll() sees the   *)
(* exit that ended a UxPlay's output, a settled daemon in IDLE has taken   *)
(* everything back: discovery says available, /health says so, UxPlay runs *)
(* and no pipeline is left on the display, however often pipelines and     *)
(* UxPlays crashed, did not start, or were torn down by the watchdog,      *)
(* unless a thread died.                                                   *)
THEOREM OneByOneTheRoomIsRestored ==
  ASSUME "dbusfail" \notin Env, "lateexit" \notin Env
  PROVE  Spec /\ []OneByOne /\ []NoReroll /\ []Prompt => []RoomRestored
<1>1. /\ TypeOK /\ Turns /\ Alone /\ Restored /\ Prompt
      /\ OneByOne /\ OneByOne' /\ NoReroll' /\ [Next]_vars
      => Turns' /\ Alone' /\ Restored'
  BY TurnsNext, AloneNext, RestoredNext
<1>2. TypeOK /\ Restored => RoomRestored
  <2> SUFFICES ASSUME TypeOK, Restored, Quiet, state = "IDLE",
                      \A t \in Threads : pc[t] \notin {"died", "aborted"}
               PROVE  /\ avail /\ health = "IDLE"
                      /\ uxProc # None /\ life[uxProc] = "up"
                      /\ \A p \in Renders : life[p] = "dead"
    BY DEF RoomRestored
  <2>1. ~Casualty /\ \A s \in Sessions : pc[s] # "closing"
    BY DEF Casualty, Quiet
  <2>2. Dark /\ UxServes /\ avail /\ health = "IDLE"
    BY <2>1 DEF Restored
  <2>3. uxProc # None /\ uxProc \in UxPlays /\ pc[uxProc] \in Serving
    BY <2>2 DEF UxServes, Returning, Quiet, TypeOK, ChildrenOK
  <2>4. life[uxProc] = "up"
    BY <2>3 DEF Serving, Quiet
  <2> QED  BY <2>2, <2>3, <2>4 DEF Dark
<1> QED  BY <1>1, <1>2, TurnsInit, AloneInit, RestoredInit, TypeCorrect, PTL DEF Spec
-----------------------------------------------------------------------------
(* AirPlay without a source: no session gets beyond a failed dial.         *)
NoSource == \A s \in Sessions : pc[s] \in {"off", "dialing"}

(* There is no pipeline, and nobody to wait for one or to start one.       *)
NoPipeline == /\ proc = None /\ Dark
              /\ \A t \in Threads : waitFor[t] = None
              /\ \A r \in Recoveries : pc[r] = "off"

(* A pump is gone before the next one starts.                              *)
OnePump == \A u, v \in UxPlays : pc[u] # "off" /\ pc[v] # "off" => u = v

AirLists ==
  \A u \in UxPlays :
    /\ pc[u] = "greeting" =>
         todo[u] \in {EnterAirPlay, <<"STOP_RENDER_PIPELINE">>, Rejection, <<>>}
    /\ pc[u] \in {"parting", "mourning"} =>
         \/ todo[u] \in {LeaveAirPlay, Tail(LeaveAirPlay)} /\ state # "AIRPLAY"
         \/ todo[u] \in {<<"SHOW_IDLE_SCREEN">>, Rejection, <<>>}

AirHeld == state = "AIRPLAY" =>
             ~avail \/ \E u \in UxPlays : pc[u] = "greeting" /\ todo[u] = EnterAirPlay

AirAlone == NoPipeline /\ OnePump /\ AirLists /\ AirHeld

LEMMA AirListParts ==
  /\ Head(EnterAirPlay) = "PAUSE_MIRACAST_DISCOVERY"
  /\ Tail(EnterAirPlay) = <<"STOP_RENDER_PIPELINE">>
  /\ Head(<<"STOP_RENDER_PIPELINE">>) = "STOP_RENDER_PIPELINE"
  /\ Tail(<<"STOP_RENDER_PIPELINE">>) = <<>>
  /\ Head(LeaveAirPlay) = "STOP_RENDER_PIPELINE"
  /\ Head(Tail(LeaveAirPlay)) = "RESUME_MIRACAST_DISCOVERY"
  /\ Tail(Tail(LeaveAirPlay)) = <<"SHOW_IDLE_SCREEN">>
  /\ EnterAirPlay # <<>> /\ LeaveAirPlay # <<>> /\ Tail(LeaveAirPlay) # <<>>
  BY DEF EnterAirPlay, LeaveAirPlay

(* A step of the pump u that starts no other one.                          *)
LEMMA AirOwn ==
  ASSUME TypeOK, AirAlone, NEW u \in UxPlays, pc[u] # "off", NEW place, Goto(u, place),
         UNCHANGED <<proc, waitFor, life>>, \A t \in Threads \ {u} : todo'[t] = todo[t],
         place = "greeting" =>
           todo'[u] \in {EnterAirPlay, <<"STOP_RENDER_PIPELINE">>, Rejection, <<>>},
         place \in {"parting", "mourning"} =>
           \/ todo'[u] \in {LeaveAirPlay, Tail(LeaveAirPlay)} /\ state' # "AIRPLAY"
           \/ todo'[u] \in {<<"SHOW_IDLE_SCREEN">>, Rejection, <<>>},
         state' = "AIRPLAY" => ~avail' \/ (place = "greeting" /\ todo'[u] = EnterAirPlay)
  PROVE  AirAlone'
<1>1. pc'[u] = place /\ \A t \in Threads \ {u} : pc'[t] = pc[t]
  BY DEF Goto, TypeOK, PlacesOK
<1>2. \A v \in UxPlays \ {u} : pc[v] = "off"
  BY DEF AirAlone, OnePump
<1>3. NoPipeline'
  BY <1>1, Disjoint DEF AirAlone, NoPipeline, Dark
<1>4. OnePump'
  BY <1>1, <1>2 DEF OnePump
<1>5. AirLists'
  BY <1>1, <1>2 DEF AirLists
<1>6. AirHeld'
  BY <1>1 DEF AirHeld
<1> QED  BY <1>3, <1>4, <1>5, <1>6 DEF AirAlone

LEMMA AirLaunch ==
  ASSUME TypeOK, AirAlone, NEW u \in UxPlays, pc[u] = "sleeping", NEW v \in UxPlays,
         LaunchUxPlay(v, [pc EXCEPT ![u] = "off"]), UNCHANGED <<arbitration, proc, waitFor, todo>>
  PROVE  AirAlone'
<1>1. \A w \in UxPlays : pc'[w] = IF w = v THEN "reading" ELSE "off"
  BY DEF LaunchUxPlay, AirAlone, OnePump, TypeOK, PlacesOK
<1>2. \A r \in Recoveries : pc'[r] = pc[r]
  BY Disjoint DEF LaunchUxPlay, TypeOK, PlacesOK
<1>3. \A p \in Renders : life'[p] = life[p]
  BY Disjoint DEF LaunchUxPlay, TypeOK, ChildrenOK
<1>4. NoPipeline'
  BY <1>2, <1>3 DEF AirAlone, NoPipeline, Dark
<1>5. OnePump' /\ AirLists'
  BY <1>1 DEF OnePump, AirLists
<1>6. AirHeld'
  <2>1. \A w \in UxPlays : pc[w] # "greeting"
    BY DEF AirAlone, OnePump
  <2> QED  BY <2>1 DEF AirAlone, AirHeld
<1> QED  BY <1>4, <1>5, <1>6 DEF AirAlone

LEMMA AirList ==
  ASSUME TypeOK, AirAlone, "dbusfail" \notin Env, NEW u \in UxPlays, Dispatch(u)
  PROVE  AirAlone'
<1>1. pc[u] \in {"greeting", "parting", "mourning"}
  BY DEF Dispatch, PauseAirPlayEnds, StopRender, RenderStop, RenderStopNothing,
     RenderStopped, RenderStopRaises,
     StoppingRender, PauseAirPlay, AirPlayPaused, PauseAirPlayRaises, ResumeAirPlay,
     ResumeAirPlayRaises, SetSessionAvailable, PaintOrLog, ReadState, PublishHealth, Pending,
     Dispatching, TypeOK, PlacesOK, UxPlayPlaces
<1>2. pc[u] \in Dispatching /\ pc = [pc EXCEPT ![u] = pc[u]]
  BY <1>1 DEF Dispatching, TypeOK, PlacesOK
<1>3. state = "AIRPLAY" => ~avail \/ (pc[u] = "greeting" /\ todo[u] = EnterAirPlay)
  BY <1>1 DEF AirAlone, AirHeld, OnePump
<1>4. /\ pc[u] = "greeting" =>
           todo[u] \in {EnterAirPlay, <<"STOP_RENDER_PIPELINE">>, Rejection, <<>>}
      /\ pc[u] \in {"parting", "mourning"} =>
           \/ todo[u] \in {LeaveAirPlay, Tail(LeaveAirPlay)} /\ state # "AIRPLAY"
           \/ todo[u] \in {<<"SHOW_IDLE_SCREEN">>, Rejection, <<>>}
  BY DEF AirAlone, AirLists
<1>5. CASE todo[u] \in {LeaveAirPlay, <<"STOP_RENDER_PIPELINE">>}
  <2>1. StopRender(u)
    BY <1>2, <1>5, AirListParts, DispatchedBy
  <2>2. RenderStopNothing(u)
    BY <2>1, Disjoint DEF StopRender, RenderStop, RenderStopped, RenderStopRaises,
       AirAlone, NoPipeline
  <2>3. Goto(u, pc[u]) /\ Carried(u) /\ UNCHANGED <<arbitration, proc, waitFor, life>>
    BY <1>2, <2>2 DEF RenderStopNothing, AfterStop, Goto, Dispatching
  <2>4. todo'[u] = Tail(todo[u]) /\ \A t \in Threads \ {u} : todo'[t] = todo[t]
    BY <2>3 DEF Carried, TypeOK, ListsOK
  <2>5. todo[u] # EnterAirPlay
    BY <1>5, AirListParts
  <2>6. CASE todo[u] = LeaveAirPlay
    <3>1. pc[u] \in {"parting", "mourning"} /\ state # "AIRPLAY"
      BY <1>1, <1>4, <2>6, <2>5, AirListParts, ListParts DEF Rejection, LeaveAirPlay
    <3> QED  BY <1>1, <2>3, <2>4, <2>6, <3>1, AirOwn
  <2>7. CASE todo[u] = <<"STOP_RENDER_PIPELINE">>
    <3>1. todo'[u] = <<>>
      BY <2>4, <2>7, AirListParts
    <3> QED  BY <1>1, <1>3, <2>3, <2>4, <2>5, <3>1, AirOwn
  <2> QED  BY <1>5, <2>6, <2>7
<1>6. CASE todo[u] \in {EnterAirPlay, Tail(LeaveAirPlay)}
  <2>1. SetSessionAvailable(u)
    BY <1>2, <1>6, AirListParts, DispatchedBy
  <2>2. Goto(u, pc[u]) /\ Carried(u) /\ UNCHANGED <<state, proc, waitFor, life>>
    BY <1>2, <2>1 DEF SetSessionAvailable, Goto
  <2>3. todo'[u] = Tail(todo[u]) /\ \A t \in Threads \ {u} : todo'[t] = todo[t]
    BY <2>2 DEF Carried, TypeOK, ListsOK
  <2>4. CASE todo[u] = EnterAirPlay
    <3>1. ~avail' /\ todo'[u] = <<"STOP_RENDER_PIPELINE">>
      BY <2>1, <2>3, <2>4, AirListParts DEF SetSessionAvailable, Pending
    <3>2. pc[u] = "greeting"
      BY <1>1, <1>4, <2>4, AirListParts, ListParts
    <3> QED  BY <2>2, <2>3, <3>1, <3>2, AirOwn
  <2>5. CASE todo[u] = Tail(LeaveAirPlay)
    <3>1. todo'[u] = <<"SHOW_IDLE_SCREEN">>
      BY <2>3, <2>5, AirListParts
    <3>2. pc[u] \in {"parting", "mourning"} /\ state # "AIRPLAY"
      BY <1>1, <1>4, <2>5, AirListParts, ListParts
    <3> QED  BY <1>1, <2>2, <2>3, <3>1, <3>2, AirOwn
  <2> QED  BY <1>6, <2>4, <2>5
<1>7. CASE todo[u] \in {<<"SHOW_IDLE_SCREEN">>, Rejection}
  <2>1. PaintOrLog(u)
    BY <1>2, <1>7, ListParts, DispatchedBy
  <2>2. Goto(u, pc[u]) /\ Carried(u) /\ UNCHANGED <<arbitration, proc, waitFor, life>>
    BY <1>2, <2>1 DEF PaintOrLog, Goto
  <2>3. todo'[u] = <<>> /\ \A t \in Threads \ {u} : todo'[t] = todo[t]
    BY <1>7, <2>2, ListParts DEF Carried, TypeOK, ListsOK
  <2>4. todo[u] # EnterAirPlay
    BY <1>7, AirListParts, ListParts
  <2> QED  BY <1>1, <1>3, <2>2, <2>3, <2>4, AirOwn
<1>8. CASE todo[u] = <<>>
  <2>1. ReadState(u) \/ PublishHealth(u)
    BY <1>2, <1>8, DispatchedBy
  <2>2. PICK place \in {pc[u], AfterDispatch(pc[u])} :
          UNCHANGED <<state, avail, todo, proc, waitFor, life>> /\ Goto(u, place)
    BY <1>2, <2>1 DEF ReadState, PublishHealth, Goto
  <2>3. AfterDispatch(pc[u]) \in {"reading", "relaunching"}
    BY <1>1 DEF AfterDispatch
  <2>4. todo[u] # EnterAirPlay
    BY <1>8, AirListParts
  <2>5. \A t \in Threads : todo'[t] = todo[t]
    BY <2>2
  <2>6. state' = "AIRPLAY" => ~avail'
    BY <1>3, <2>2, <2>4
  <2>7. todo'[u] = <<>>
    BY <1>8, <2>2
  <2>8. pc[u] # "off"
    BY <1>1, <2>3
  <2> QED  BY <2>2, <2>5, <2>6, <2>7, <2>8, AirOwn
<1> QED  BY <1>1, <1>4, <1>5, <1>6, <1>7, <1>8

LEMMA AirPump ==
  ASSUME TypeOK, AirAlone, "dbusfail" \notin Env, NEW u \in UxPlays, PumpStep(u)
  PROVE  AirAlone'
<1>1. CASE ReadLine(u) \/ Bereaved(u)
  <2>1. pc[u] \in {"reading", "bereaved"} /\ UNCHANGED <<avail, proc, waitFor, life>>
    BY <1>1 DEF ReadLine, Bereaved, Handle
  <2>2. state = "AIRPLAY" => ~avail
    BY <2>1 DEF AirAlone, AirHeld, OnePump
  <2>3. CASE ReadLine(u) /\ ~tracked[u]
    <3>1. /\ Goto(u, "greeting") /\ \A t \in Threads \ {u} : todo'[t] = todo[t]
          /\ state' = Transition(state, "AIRPLAY_CONNECTED").next
          /\ todo'[u] = Transition(state, "AIRPLAY_CONNECTED").actions
      BY <2>3 DEF ReadLine, Handle, TypeOK, ListsOK
    <3>2. IF state = "IDLE" THEN todo'[u] = EnterAirPlay
                            ELSE todo'[u] = Rejection /\ state' = state
      BY <3>1 DEF Transition, To, Rejected, Rejection, TypeOK, FlagsOK, States
    <3> QED  BY <2>1, <2>2, <3>1, <3>2, AirOwn
  <2>4. CASE Bereaved(u) \/ (ReadLine(u) /\ tracked[u])
    <3>1. PICK place \in {"parting", "mourning"} :
               /\ Goto(u, place) /\ \A t \in Threads \ {u} : todo'[t] = todo[t]
               /\ state' = Transition(state, "AIRPLAY_DISCONNECTED").next
               /\ todo'[u] = Transition(state, "AIRPLAY_DISCONNECTED").actions
      BY <2>4 DEF ReadLine, Bereaved, Handle, TypeOK, ListsOK
    <3>2. IF state = "AIRPLAY" THEN todo'[u] = LeaveAirPlay /\ state' = "IDLE"
                               ELSE todo'[u] = Rejection /\ state' = state
      BY <3>1 DEF Transition, To, Rejected, Rejection, TypeOK, FlagsOK, States
    <3> QED  BY <2>1, <2>2, <3>1, <3>2, AirOwn
  <2> QED  BY <1>1, <2>3, <2>4
<1>2. CASE EndOfOutput(u) \/ Exited(u) \/ Relaunching(u) \/ (Relaunch(u) /\ IsRunning(uxProc))
  <2>1. PICK place \in {"off", "exited", "bereaved", "relaunching", "sleeping"} : Goto(u, place)
    BY <1>2 DEF EndOfOutput, Exited, Relaunching, Relaunch
  <2>2. /\ pc[u] \in {"reading", "exited", "relaunching", "sleeping"}
        /\ UNCHANGED <<state, avail, todo, proc, waitFor, life>>
    BY <1>2 DEF EndOfOutput, Exited, Relaunching, Relaunch
  <2>3. state = "AIRPLAY" => ~avail
    BY <2>2 DEF AirAlone, AirHeld, OnePump
  <2> QED  BY <2>1, <2>2, <2>3, AirOwn
<1>3. CASE Relaunch(u) /\ ~IsRunning(uxProc)
  BY <1>3, AirLaunch DEF Relaunch
<1>4. CASE Dispatch(u)
  BY <1>4, AirList
<1> QED  BY <1>1, <1>2, <1>3, <1>4 DEF PumpStep

LEMMA AirNext ==
  ASSUME TypeOK, AirAlone, NoSource, NoSource', "dbusfail" \notin Env, [Next]_vars
  PROVE  AirAlone'
(* A step that leaves the pumps, the pipelines and the table alone.        *)
<1>1. ASSUME UNCHANGED <<state, avail, todo, proc, waitFor>>,
             \A q \in Recoveries \cup UxPlays : pc'[q] = pc[q],
             \A p \in Renders : life'[p] # "dead" => life[p] # "dead"
      PROVE  AirAlone'
  BY <1>1 DEF AirAlone, NoPipeline, Dark, OnePump, AirLists, AirHeld
<1>2. ASSUME NEW s \in Sessions, SessionStep(s) \/ Arrive(s) \/ SourceLeaves(s)
      PROVE  AirAlone'
  <2>1. pc[s] \in {"off", "dialing"} /\ pc'[s] \in {"off", "dialing"}
    BY DEF NoSource
  <2>2. Authorize(s) \/ DialFails(s)
    BY <1>2, <2>1 DEF SessionStep, Arrive, SourceLeaves, NoticeClosed, Open, Goto, Connect,
       Negotiated, NegotiationFails, StartRender, StartRenderFails, StartRenderRaises, Arm, EndPump,
       Disconnect, Leave, Dispatch, PauseAirPlayEnds, StopRender, RenderStop,
          RenderStopNothing, RenderStopped,
       RenderStopRaises, StoppingRender, PauseAirPlay, AirPlayPaused, PauseAirPlayRaises,
       ResumeAirPlay, ResumeAirPlayRaises, SetSessionAvailable, PaintOrLog, ReadState,
       PublishHealth, Pending, Dispatching, TypeOK, PlacesOK
  <2> QED  BY <1>1, <2>2, Disjoint DEF Authorize, DialFails, Goto, TypeOK, PlacesOK
<1>3. \A r \in Recoveries : ~RecoveryStep(r)
  BY DEF RecoveryStep, RecoveryWait, RecoveryCheck, RecoveryLower, RecoveryRecheck, RecoveryStart,
     RecoveryStartRaises, RecoveryRearm, StopRender, RenderStop, RenderStopNothing, RenderStopped,
     RenderStopRaises, StoppingRender, Pending, Dispatching, AirAlone, NoPipeline
<1>4. ASSUME NEW u \in UxPlays, PumpStep(u)
      PROVE  AirAlone'
  BY <1>4, AirPump
<1>5. ASSUME NEW c \in Children, ChildDies(c) \/ ChildCrashes(c)
      PROVE  AirAlone'
  BY <1>1, <1>5 DEF ChildDies, ChildCrashes, TypeOK, ChildrenOK
<1>6. CASE \/ WatchStep \/ \E p \in Renders : FirstFrame(p)
           \/ \E u \in UxPlays : AirPlayClient(u)
           \/ UNCHANGED vars
  BY <1>1, <1>6, WatchMoves DEF FirstFrame, AirPlayClient, vars
<1> QED  BY <1>2, <1>3, <1>4, <1>5, <1>6 DEF Next, Environment

(* As long as no source gets a session, a settled daemon in AIRPLAY says   *)
(* busy, however often UxPlay crashes and is started again and however     *)
(* late its lines and its exits are read.  What it rests on is that only a *)
(* pump starts the next UxPlay, as its last act, so that the actions of    *)
(* two clients never interleave.  With a source it does not hold: a        *)
(* session that ends once the client has the room says available.          *)
THEOREM AloneAirPlayIsBusy ==
  ASSUME "dbusfail" \notin Env
  PROVE  Spec /\ []NoSource => []AirPlayIsBusy
<1>1. Init => AirAlone
  <2> SUFFICES ASSUME Init PROVE AirAlone
    OBVIOUS
  <2>1. (\A r \in Recoveries : pc[r] = "off") /\ (\A p \in Renders : life[p] = "dead")
    BY Disjoint DEF Init
  <2>2. \A u \in UxPlays : pc[u] \in {"off", "reading"} /\ (pc[u] # "off" => u = uxProc)
    BY DEF Init
  <2>3. \A t \in Threads : waitFor[t] = None
    BY DEF Init
  <2> QED  BY <2>1, <2>2, <2>3 DEF Init, AirAlone, NoPipeline, Dark, OnePump, AirLists, AirHeld
<1>2. TypeOK /\ AirAlone /\ NoSource /\ NoSource' /\ [Next]_vars => AirAlone'
  BY AirNext
<1>3. AirAlone => AirPlayIsBusy
  BY DEF AirAlone, AirHeld, AirPlayIsBusy, Quiet
<1> QED  BY <1>1, <1>2, <1>3, TypeCorrect, PTL DEF Spec
=============================================================================
