--------------------------- MODULE CastStartProofs ---------------------------
(***************************************************************************)
(* Proofs about castd's start-up, for every number of groups, PINs,        *)
(* sessions and faults: what the GLib thread and start() make of the       *)
(* groups that wpa_supplicant creates and ends while castd comes up, is    *)
(* killed and comes up again.                                              *)
(***************************************************************************)
EXTENDS CastStart, WfdIeProofs, SequenceTheorems, TLAPS

(* The inductive invariant.                                                *)

Queued == 1 .. Len(signals)
IsStarted(k) == signals[k].type = "GroupStarted"
IsPin(k) == signals[k].type = "DisplayPin"

(* The GroupStarted of the live group has not been handled yet.            *)
Announced == \E k \in Queued : signals[k] = Started(group)

(* Signals come from the moment castd has subscribed to them, and until    *)
(* run_forever nothing but start() has filled a cache.                     *)
Connected ==
  /\ subscribed <=> main \notin {"down", "probing"}
  /\ ~subscribed => signals = <<>> /\ pending = 0
  /\ glib = "off" => ifacePath = 0
  /\ glib = "off" /\ main \notin {"creating", "looping", "starting", "joined"} => credentials = 0

(* UxPlay is there from the moment start() has made it.                    *)
Created == main \in {"looping", "starting", "joined"} => uxplay # "none"

(* The live group is the newest; a dnsmasq on it is one that was started   *)
(* on it, and it still has the address it got then.                        *)
Newest ==
  /\ group # 0 => group = born
  /\ dnsmasq <= born
  /\ dnsmasq # 0 /\ dnsmasq = group => address = group

(* The groups are announced in the order in which they were created, and   *)
(* if any is, then the live one too.                                       *)
Announcements ==
  /\ \A k \in Queued : IsStarted(k) => signals[k].of <= born
  /\ \A j, k \in Queued : j < k /\ IsStarted(j) /\ IsStarted(k) => signals[j].of < signals[k].of
  /\ group # 0 /\ (\E k \in Queued : IsStarted(k)) => Announced

(* The same of the PINs; and the last one is the live group's, so that it  *)
(* comes behind the group's own announcement.                              *)
Questions ==
  /\ \A k \in Queued : IsPin(k) => signals[k].of <= asked
  /\ \A j, k \in Queued : j < k /\ IsPin(j) /\ IsPin(k) => signals[j].of < signals[k].of
  /\ pending # 0 => pending = asked /\ group # 0
  /\ pending # 0 /\ (\E k \in Queued : IsPin(k)) => \E k \in Queued : signals[k] = DisplayPin(pending)
  /\ pending # 0 => \A j, k \in Queued :
       signals[j] = DisplayPin(pending) /\ signals[k] = Started(group) => k < j

(* Once all the PINs are handled the registrar has the last one.           *)
Answered == pending # 0 /\ (\A k \in Queued : ~IsPin(k)) => armed = pending

(* A captured path that is not the live group's is about to be replaced.   *)
Captured == group # 0 /\ ~Announced => ifacePath \in {0, group}

Provided == dnsmasq = group /\ address = group

(* What is done for a group on thread t.                                   *)
Underway(t) ==
  /\ At(t) = "serving" => found[t] = group
  /\ At(t) \in {"listening", "reading"} => Provided
  /\ At(t) = "reading" => listening

(* A live group that is not announced any more has been served, or is      *)
(* being served by the thread that has taken it on.                        *)
Following ==
  group # 0 /\ ~Announced =>
    /\ Underway("main") /\ Underway("glib")
    /\ glib \in {"naming", "serving", "listening", "reading"} => credentials = group
    /\ main \in {"creating", "looping", "starting", "joined"} /\ glib \in {"off", "idle"} =>
         Provided /\ listening /\ wifi = group

Rest == /\ Connected /\ Newest /\ Announcements /\ Questions
        /\ Answered /\ Captured /\ Following

Inv == TypeOK /\ Created /\ Rest

-----------------------------------------------------------------------------
USE DEF supplicant, bus, caches, network, start, daemon, sessions, bounds

LEMMA ActionLists ==
  ASSUME NEW st \in States
  PROVE  /\ Transition(st, "MIRACAST_CONNECTED").next \in States
         /\ Transition(st, "MIRACAST_DISCONNECTED").next \in States
         /\ Transition(st, "MIRACAST_CONNECTED").actions \in Seq(Actions)
         /\ Transition(st, "MIRACAST_DISCONNECTED").actions \in Seq(Actions)
<1>1. /\ EnterMiracast \in Seq(Actions) /\ LeaveMiracast \in Seq(Actions)
      /\ <<"LOG_REJECTED_CONNECTION">> \in Seq(Actions)
  BY DEF EnterMiracast, LeaveMiracast, Actions
<1> QED  BY <1>1 DEF States, Transition, To, Rejected

LEMMA SignalFields ==
  /\ \A g : Started(g).type = "GroupStarted" /\ Started(g).of = g
  /\ \A p : DisplayPin(p).type = "DisplayPin" /\ DisplayPin(p).of = p
  /\ StaAuthorized.type = "StaAuthorized"
  BY DEF Started, DisplayPin, StaAuthorized

LEMMA SignalKinds ==
  ASSUME NEW m \in Signals
  PROVE  /\ m.type = "GroupStarted" => m.of \in 1 .. MaxGroups /\ m = Started(m.of)
         /\ m.type = "DisplayPin" => m.of \in 1 .. MaxPins /\ m = DisplayPin(m.of)
<1>1. CASE \E g \in 1 .. MaxGroups : m = Started(g)
  BY <1>1, SignalFields
<1>2. CASE \E p \in 1 .. MaxPins : m = DisplayPin(p)
  BY <1>2, SignalFields
<1>3. CASE m = StaAuthorized
  BY <1>3, SignalFields
<1> QED  BY <1>1, <1>2, <1>3 DEF Signals

LEMMA SignalsThere ==
  /\ \A g \in 1 .. MaxGroups : Started(g) \in Signals
  /\ \A p \in 1 .. MaxPins : DisplayPin(p) \in Signals
  /\ StaAuthorized \in Signals
  BY DEF Signals

LEMMA Bounds ==
  /\ MaxGroups \in Nat /\ MaxGroups >= 1 /\ MaxPins \in Nat /\ MaxArrivals \in Nat
  /\ MaxFaults \in Nat
  BY StartAssumption

LEMMA ReadTypes ==
  ASSUME GroupTypeOK
  PROVE  /\ \A g \in Groups : ReadCredentials(g) \in Groups
         /\ Registrar \in Groups /\ GetGroupCredentials \in Groups
  BY Bounds DEF GroupTypeOK, ReadCredentials, Registrar, GetGroupCredentials, Groups

-----------------------------------------------------------------------------
(* Every step, sorted by what it can do to the group and to the threads    *)
(* that follow it.                                                         *)
Stroll == \/ Begin \/ Probe \/ Configure \/ SkipGroupAdd \/ CreateUxPlay \/ RunForever
          \/ StartUxPlay \/ GroupAddIsLate
Serve == \E t \in {"main", "glib"} : Services(t) /\ ~Exit
Crash == Exit /\ UNCHANGED arrivals /\ (Fault \/ UNCHANGED faults)
Radiate == \/ /\ NewGroup /\ UNCHANGED <<found, daemon, bounds, glib, sessions>>
              /\ main' = main \/ (main = "grouping" /\ main' = "naming")
           \/ (GroupEnds \/ AskPin) /\ UNCHANGED <<start, daemon, sessions, bounds>>

LEMMA Steps ==
  ASSUME Next
  PROVE  \/ Stroll \/ Serve \/ Crash \/ Radiate
         \/ HandleGroupStarted \/ HandleDisplayPin \/ HandleStaAuthorized
         \/ \E s \in Sessions : SessionStep(s) \/ Disconnect(s)
         \/ StationAuthorized
         \/ \E s \in Sessions : Accept(s)
<1>1. ASSUME NEW t \in {"main", "glib"}, Services(t), Exit
      PROVE  Crash
  BY <1>1 DEF Services, NameGroup, NoGroup, StartNetwork, StartNetworkRaises, Listen,
              ListenRaises, ReadWifi, Crash
<1>2. CASE MainStep
  <2>1. StartUxPlayRaises => Crash
    BY DEF StartUxPlayRaises, Crash
  <2>2. GroupAdd => Radiate
    BY DEF GroupAdd, MainGoto, Radiate
  <2>3. Services("main") => Serve \/ Crash
    BY <1>1 DEF Serve
  <2> QED  BY <1>2, <2>1, <2>2, <2>3 DEF MainStep, Stroll
<1>3. CASE GlibStep
  <2>1. Services("glib") => Serve \/ Crash
    BY <1>1 DEF Serve
  <2> QED  BY <1>3, <2>1 DEF GlibStep
<1>4. CASE Environment
  <2>1. Radio => Radiate
    BY DEF Radio, Radiate
  <2>2. Killed \/ BringUpFails => Crash
    BY DEF Killed, BringUpFails, Crash
  <2> QED  BY <1>4, <2>1, <2>2 DEF Environment, Stroll
<1> QED  BY <1>2, <1>3, <1>4 DEF Next

-----------------------------------------------------------------------------
(* Types.                                                                  *)

LEMMA TypeInit == Init => TypeOK
<1> SUFFICES ASSUME Init PROVE TypeOK
  OBVIOUS
<1>1. 0 \in Groups /\ 1 \in Groups /\ 0 \in Pins /\ 0 \in 0 .. MaxArrivals /\ 0 \in 0 .. MaxFaults
  BY Bounds DEF Groups, Pins
<1>2. GroupTypeOK
  <2>1. group \in Groups /\ born \in Groups
    BY <1>1 DEF Init, GroupInit
  <2>2. signals \in Seq(Signals)
    BY DEF Init, GroupInit
  <2> QED  BY <1>1, <2>1, <2>2 DEF Init, GroupInit, GroupTypeOK
<1>3. /\ found \in [{"main", "glib"} -> Groups]
      /\ pc \in [Sessions -> SessionPlaces] /\ todo \in [Sessions -> Seq(Actions)]
  <2>1. <<>> \in Seq(Actions) /\ "off" \in SessionPlaces
    BY DEF SessionPlaces
  <2> QED  BY <1>1, <2>1 DEF Init, NothingFound, NobodyThere, NothingToDo
<1> QED
  BY <1>1, <1>2, <1>3 DEF Init, TypeOK, MainPlaces, GlibPlaces, States

LEMMA EmitTypes ==
  ASSUME signals \in Seq(Signals), NEW signal \in Signals, Emit(signal)
  PROVE  signals' \in Seq(Signals)
  BY DEF Emit

LEMMA FaultTypes ==
  ASSUME faults \in 0 .. MaxFaults, Fault \/ UNCHANGED faults
  PROVE  faults' \in 0 .. MaxFaults
  BY Bounds DEF Fault

LEMMA ArriveTypes ==
  ASSUME arrivals \in 0 .. MaxArrivals, Arrive
  PROVE  arrivals' \in 0 .. MaxArrivals
  BY Bounds DEF Arrive

LEMMA TypeExit ==
  ASSUME TypeOK, Exit, UNCHANGED arrivals, Fault \/ UNCHANGED faults
  PROVE  TypeOK'
<1>1. 0 \in Groups /\ 0 \in Pins /\ <<>> \in Seq(Signals)
  BY Bounds DEF Groups, Pins
<1>2. GroupTypeOK'
  BY <1>1 DEF TypeOK, GroupTypeOK, Exit, CastdGone
<1>3. faults' \in 0 .. MaxFaults
  BY FaultTypes DEF TypeOK
<1>4. /\ found' \in [{"main", "glib"} -> Groups]
      /\ pc' \in [Sessions -> SessionPlaces] /\ todo' \in [Sessions -> Seq(Actions)]
  <2>1. <<>> \in Seq(Actions) /\ "off" \in SessionPlaces
    BY DEF SessionPlaces
  <2> QED  BY <1>1, <2>1 DEF Exit, NothingFound, NobodyThere, NothingToDo
<1> QED
  BY <1>1, <1>2, <1>3, <1>4 DEF TypeOK, Exit, MainPlaces, GlibPlaces, States

LEMMA TypeMain ==
  ASSUME TypeOK, Created,
         \/ Begin \/ Probe \/ Configure \/ SkipGroupAdd \/ CreateUxPlay \/ RunForever
         \/ StartUxPlay \/ GroupAddIsLate
  PROVE  TypeOK'
<1> USE DEF MainGoto, MainPlaces, GlibPlaces
<1>1. CASE Begin
  BY <1>1 DEF Begin, TypeOK, GroupTypeOK
<1>2. CASE Probe
  BY <1>2 DEF Probe, TypeOK, GroupTypeOK
<1>3. CASE Configure
  BY <1>3 DEF Configure, PublishWfdIes, TypeOK, GroupTypeOK
<1>4. CASE SkipGroupAdd
  BY <1>4 DEF SkipGroupAdd, TypeOK, GroupTypeOK
<1>5. CASE CreateUxPlay
  BY <1>5 DEF CreateUxPlay, TypeOK, GroupTypeOK
<1>6. CASE RunForever
  <2>1. uxplay # "none"
    BY <1>6 DEF RunForever, Created
  <2> QED  BY <1>6, <2>1 DEF RunForever, TypeOK, GroupTypeOK
<1>7. CASE StartUxPlay
  BY <1>7 DEF StartUxPlay, TypeOK, GroupTypeOK
<1>8. CASE GroupAddIsLate
  <2>1. faults' \in 0 .. MaxFaults
    BY <1>8, FaultTypes DEF GroupAddIsLate, TypeOK
  <2> QED  BY <1>8, <2>1 DEF GroupAddIsLate, TypeOK, GroupTypeOK
<1> QED  BY <1>1, <1>2, <1>3, <1>4, <1>5, <1>6, <1>7, <1>8

LEMMA TypeServices ==
  ASSUME TypeOK, NEW t \in {"main", "glib"}, Services(t)
  PROVE  TypeOK'
<1> USE DEF GotoOn, At, MainPlaces, GlibPlaces
<1>1. CASE NameGroup(t)
  BY <1>1 DEF NameGroup, TypeOK, GroupTypeOK
<1>2. CASE NoGroup(t)
  <2>1. CASE Exit
    BY <1>2, <2>1, TypeExit DEF NoGroup
  <2>2. CASE ~Exit
    BY <1>2, <2>2 DEF NoGroup, TypeOK, GroupTypeOK
  <2> QED  BY <2>1, <2>2
<1>3. CASE StartNetwork(t)
  <2>1. found[t] \in Groups
    BY DEF TypeOK
  <2>2. address' \in Groups /\ dnsmasq' \in Groups
    BY <1>3, <2>1 DEF StartNetwork, NetworkStart, TypeOK, GroupTypeOK
  <2> QED  BY <1>3, <2>2 DEF StartNetwork, TypeOK, GroupTypeOK
<1>4. CASE StartNetworkRaises(t)
  <2>1. CASE Exit
    BY <1>4, <2>1, TypeExit DEF StartNetworkRaises
  <2>2. CASE ~Exit
    <3>1. dnsmasq' \in Groups /\ address' = address
      BY <1>4, <2>2, Bounds DEF StartNetworkRaises, NetworkStartRaises, Groups
    <3> QED  BY <1>4, <2>2, <3>1 DEF StartNetworkRaises, TypeOK, GroupTypeOK
  <2> QED  BY <2>1, <2>2
<1>5. CASE Listen(t)
  BY <1>5 DEF Listen, TypeOK, GroupTypeOK
<1>6. CASE ListenRaises(t)
  <2>1. CASE Exit
    BY <1>6, <2>1, TypeExit DEF ListenRaises
  <2>2. CASE ~Exit
    BY <1>6, <2>2 DEF ListenRaises, TypeOK, GroupTypeOK
  <2> QED  BY <2>1, <2>2
<1>7. CASE ReadWifi(t)
  <2>1. GetGroupCredentials \in Groups
    BY ReadTypes DEF TypeOK
  <2> QED  BY <1>7, <2>1 DEF ReadWifi, TypeOK, GroupTypeOK
<1> QED  BY <1>1, <1>2, <1>3, <1>4, <1>5, <1>6, <1>7 DEF Services

LEMMA DeliverTypes ==
  ASSUME TypeOK, NEW type, Deliver(type)
  PROVE  /\ Head(signals) \in Signals /\ signals' \in Seq(Signals) /\ signals # <<>>
         /\ Head(signals).type = type
  BY HeadTailProperties DEF Deliver, TypeOK, GroupTypeOK

LEMMA TypeGlib ==
  ASSUME TypeOK, HandleGroupStarted \/ HandleDisplayPin \/ HandleStaAuthorized
  PROVE  TypeOK'
<1>1. CASE HandleGroupStarted
  <2>1. Head(signals).of \in Groups /\ signals' \in Seq(Signals)
    BY <1>1, DeliverTypes, SignalKinds, Bounds DEF HandleGroupStarted, Groups
  <2>2. ReadCredentials(Head(signals).of) \in Groups
    BY <2>1, ReadTypes DEF TypeOK
  <2> QED
    BY <1>1, <2>1, <2>2
       DEF HandleGroupStarted, Deliver, CaptureGroup, TypeOK, GroupTypeOK, GlibPlaces
<1>2. CASE HandleDisplayPin
  <2>1. Head(signals).of \in Pins /\ signals' \in Seq(Signals)
    BY <1>2, DeliverTypes, SignalKinds, Bounds DEF HandleDisplayPin, Pins
  <2>2. armed' \in Pins
    BY <1>2, <2>1 DEF HandleDisplayPin, AuthorizeDisplayPin, TypeOK, GroupTypeOK
  <2> QED
    BY <1>2, <2>1, <2>2 DEF HandleDisplayPin, Deliver, TypeOK, GroupTypeOK
<1>3. CASE HandleStaAuthorized
  <2>1. signals' \in Seq(Signals)
    BY <1>3, DeliverTypes DEF HandleStaAuthorized
  <2>2. pc' \in [Sessions -> SessionPlaces]
    BY <1>3 DEF HandleStaAuthorized, TypeOK, SessionPlaces
  <2> QED
    BY <1>3, <2>1, <2>2 DEF HandleStaAuthorized, Deliver, TypeOK, GroupTypeOK
<1> QED  BY <1>1, <1>2, <1>3

(* What no step of a session changes.                                      *)
Ground == <<group, born, asked, pending, armed, subscribed, signals, ifacePath, credentials,
            address, dnsmasq, main, glib, found, wifi, listening>>

LEMMA TypeSession ==
  ASSUME TypeOK, NEW s \in Sessions, SessionStep(s) \/ Disconnect(s)
  PROVE  TypeOK' /\ UNCHANGED Ground
<1> USE DEF OnlySession, Goto, Ground, SessionPlaces
<1>1. \A q \in Seq(Actions) : q # <<>> => Tail(q) \in Seq(Actions)
  BY HeadTailProperties
<1>2. todo[s] \in Seq(Actions) /\ <<>> \in Seq(Actions)
  BY DEF TypeOK
<1>3. CASE NotAlreadyPresenting(s)
  BY <1>3 DEF NotAlreadyPresenting, TypeOK, GroupTypeOK
<1>4. CASE Dial(s)
  BY <1>4 DEF Dial, TypeOK, GroupTypeOK
<1>5. CASE Connect(s)
  <2>1. state' \in States /\ todo' \in [Sessions -> Seq(Actions)]
    BY <1>5, ActionLists DEF Connect, Handle, TypeOK
  <2> QED  BY <1>5, <2>1 DEF Connect, TypeOK, GroupTypeOK
<1>6. CASE Disconnect(s)
  <2>1. state' \in States /\ todo' \in [Sessions -> Seq(Actions)]
    BY <1>6, ActionLists DEF Disconnect, Handle, TypeOK
  <2> QED  BY <1>6, <2>1 DEF Disconnect, TypeOK, GroupTypeOK
<1>7. ASSUME todo[s] # <<>>, Carried(s)
      PROVE  todo' \in [Sessions -> Seq(Actions)] /\ pc' = pc
  BY <1>1, <1>2, <1>7 DEF Carried, TypeOK
<1>8. CASE TurnUxPlay(s)
  <2>1. todo' \in [Sessions -> Seq(Actions)] /\ pc' = pc
    BY <1>7, <1>8 DEF TurnUxPlay, Pending
  <2> QED  BY <1>8, <2>1 DEF TurnUxPlay, TypeOK, GroupTypeOK
<1>9. CASE PauseRaises(s)
  BY <1>2, <1>9 DEF PauseRaises, TypeOK, GroupTypeOK
<1>10. CASE ResumeRaises(s)
  BY <1>2, <1>10 DEF ResumeRaises, TypeOK, GroupTypeOK
<1>11. CASE SetSessionAvailable(s)
  <2>1. todo' \in [Sessions -> Seq(Actions)] /\ pc' = pc
    BY <1>7, <1>11 DEF SetSessionAvailable, Pending
  <2> QED  BY <1>11, <2>1 DEF SetSessionAvailable, PublishWfdIes, TypeOK, GroupTypeOK
<1>12. CASE StopPaintOrLog(s)
  <2>1. todo' \in [Sessions -> Seq(Actions)] /\ pc' = pc
    BY <1>7, <1>12 DEF StopPaintOrLog, Pending
  <2> QED  BY <1>12, <2>1 DEF StopPaintOrLog, TypeOK, GroupTypeOK
<1>13. CASE Dispatched(s)
  BY <1>13 DEF Dispatched, TypeOK, GroupTypeOK
<1> QED
  BY <1>3, <1>4, <1>5, <1>6, <1>8, <1>9, <1>10, <1>11, <1>12, <1>13 DEF SessionStep

LEMMA TypeRadio ==
  ASSUME TypeOK, Radiate
  PROVE  TypeOK'
<1>1. CASE /\ NewGroup /\ UNCHANGED <<found, daemon, bounds, glib, sessions>>
           /\ main' = main \/ (main = "grouping" /\ main' = "naming")
  <2>1. born + 1 \in Groups /\ born + 1 \in 1 .. MaxGroups /\ 0 \in Pins
    BY <1>1, Bounds DEF NewGroup, TypeOK, GroupTypeOK, Groups, Pins
  <2>2. signals' \in Seq(Signals)
    BY <1>1, <2>1, EmitTypes, SignalsThere DEF NewGroup, TypeOK, GroupTypeOK
  <2> QED  BY <1>1, <2>1, <2>2, ZenonT(60) DEF NewGroup, TypeOK, GroupTypeOK, MainPlaces
<1>2. CASE GroupEnds /\ UNCHANGED <<start, daemon, sessions, bounds>>
  <2>1. 0 \in Groups /\ 0 \in Pins
    BY Bounds DEF Groups, Pins
  <2> QED  BY <1>2, <2>1 DEF GroupEnds, TypeOK, GroupTypeOK
<1>3. CASE AskPin /\ UNCHANGED <<start, daemon, sessions, bounds>>
  <2>1. asked + 1 \in Pins /\ asked + 1 \in 1 .. MaxPins
    BY <1>3, Bounds DEF AskPin, TypeOK, GroupTypeOK, Pins
  <2>2. signals' \in Seq(Signals)
    BY <1>3, <2>1, EmitTypes, SignalsThere DEF AskPin, TypeOK, GroupTypeOK
  <2> QED  BY <1>3, <2>1, <2>2 DEF AskPin, TypeOK, GroupTypeOK
<1> QED  BY <1>1, <1>2, <1>3 DEF Radiate

LEMMA TypeNext ==
  ASSUME TypeOK, Created, [Next]_vars
  PROVE  TypeOK' /\ Created'
<1>1. CASE UNCHANGED vars
  BY <1>1 DEF vars, TypeOK, GroupTypeOK, Created
<1>2. CASE Stroll
  BY <1>2, TypeMain
     DEF Stroll, Created, Begin, Probe, Configure, SkipGroupAdd, CreateUxPlay, RunForever,
         StartUxPlay, GroupAddIsLate, MainGoto
<1>3. CASE Serve
  <2>1. PICK t \in {"main", "glib"} : Services(t) /\ ~Exit
    BY <1>3 DEF Serve
  <2>2. uxplay' = uxplay /\ (main' = main \/ main' \notin {"looping", "starting", "joined"})
    BY <2>1 DEF Services, NameGroup, NoGroup, StartNetwork, StartNetworkRaises, Listen,
                ListenRaises, ReadWifi, GotoOn
  <2> QED  BY <2>1, <2>2, TypeServices DEF Created
<1>4. CASE Crash
  BY <1>4, TypeExit DEF Crash, Created, Exit
<1>5. CASE Radiate
  BY <1>5, TypeRadio DEF Radiate, Created
<1>6. CASE HandleGroupStarted \/ HandleDisplayPin \/ HandleStaAuthorized
  BY <1>6, TypeGlib DEF HandleGroupStarted, HandleDisplayPin, HandleStaAuthorized, Deliver, Created
<1>7. ASSUME NEW s \in Sessions, SessionStep(s) \/ Disconnect(s)
      PROVE  TypeOK' /\ Created'
  <2>1. uxplay # "none" => uxplay' # "none"
    BY <1>7 DEF SessionStep, NotAlreadyPresenting, Dial, Connect, Disconnect, TurnUxPlay,
                PauseRaises, ResumeRaises, SetSessionAvailable, StopPaintOrLog, Dispatched
  <2>2. main' = main
    BY <1>7, TypeSession DEF Ground
  <2> QED  BY <1>7, <2>1, <2>2, TypeSession DEF Created
<1>8. CASE StationAuthorized
  <2>1. signals' \in Seq(Signals)
    BY <1>8, EmitTypes, SignalsThere DEF StationAuthorized, TypeOK, GroupTypeOK
  <2>2. arrivals' \in 0 .. MaxArrivals
    BY <1>8, ArriveTypes DEF StationAuthorized, TypeOK
  <2> QED  BY <1>8, <2>1, <2>2 DEF StationAuthorized, Arrive, TypeOK, GroupTypeOK, Created
<1>9. ASSUME NEW s \in Sessions, Accept(s)
      PROVE  TypeOK' /\ Created'
  <2>1. arrivals' \in 0 .. MaxArrivals
    BY <1>9, ArriveTypes DEF Accept, TypeOK
  <2>2. pc' \in [Sessions -> SessionPlaces]
    BY <1>9 DEF Accept, Goto, TypeOK, SessionPlaces
  <2> QED  BY <1>9, <2>1, <2>2 DEF Accept, Arrive, TypeOK, GroupTypeOK, Created
<1> QED  BY <1>1, <1>2, <1>3, <1>4, <1>5, <1>6, <1>7, <1>8, <1>9, Steps

-----------------------------------------------------------------------------
(* The queue of signals.                                                   *)

LEMMA Dequeue ==
  ASSUME signals \in Seq(Signals), signals # <<>>, signals' = Tail(signals)
  PROVE  /\ Len(signals) \in Nat /\ 1 \in Queued /\ signals[1] = Head(signals)
         /\ \A k \in Queued' : k + 1 \in Queued /\ signals'[k] = signals[k + 1]
         /\ \A k \in Queued : k = 1 \/ (k - 1 \in Queued' /\ signals'[k - 1] = signals[k])
<1>1. /\ Len(signals) \in Nat /\ Len(signals) >= 1 /\ signals[1] = Head(signals)
      /\ Len(signals') = Len(signals) - 1
      /\ \A k \in 1 .. Len(signals) - 1 : signals'[k] = signals[k + 1]
  BY EmptySeq, HeadTailProperties
<1>2. ASSUME NEW k \in Queued' PROVE k + 1 \in Queued /\ signals'[k] = signals[k + 1]
  BY <1>1, <1>2 DEF Queued
<1>3. ASSUME NEW k \in Queued, k # 1
      PROVE  k - 1 \in Queued' /\ signals'[k - 1] = signals[k]
  <2>1. k - 1 \in 1 .. Len(signals) - 1 /\ (k - 1) + 1 = k
    BY <1>1, <1>3 DEF Queued
  <2> QED  BY <1>1, <2>1 DEF Queued
<1> QED  BY <1>1, <1>2, <1>3 DEF Queued

LEMMA Enqueue ==
  ASSUME signals \in Seq(Signals), NEW signal \in Signals, signals' = Append(signals, signal)
  PROVE  /\ Len(signals) \in Nat /\ signals' \in Seq(Signals)
         /\ Len(signals) + 1 \in Queued' /\ signals'[Len(signals) + 1] = signal
         /\ \A k \in Queued : /\ k \in Nat /\ k < Len(signals) + 1
                              /\ k \in Queued' /\ signals'[k] = signals[k]
         /\ \A k \in Queued' : k \in Queued \/ k = Len(signals) + 1
  BY DEF Queued

(* What is handled is gone.                                                *)
LEMMA AnnouncedStill ==
  ASSUME signals \in Seq(Signals), signals # <<>>, signals' = Tail(signals),
         group' = group, born' = born, Newest, Announcements, group # 0
  PROVE  /\ Head(signals) # Started(group) => (Announced' <=> Announced)
         /\ Head(signals) = Started(group) => ~Announced'
<1>1. ASSUME Announced', Head(signals) = Started(group) PROVE FALSE
  <2>1. PICK k \in Queued' : signals'[k] = Started(group)
    BY <1>1 DEF Announced
  <2>2. /\ 1 \in Queued /\ k + 1 \in Queued /\ 1 < k + 1
        /\ signals[1] = Started(group) /\ signals[k + 1] = Started(group)
    BY <1>1, <2>1, Dequeue DEF Queued
  <2>3. signals[1].of < signals[k + 1].of
    BY <2>2, SignalFields DEF Announcements, IsStarted
  <2>4. signals[1].of = group /\ signals[k + 1].of = group /\ group <= born
    BY <2>2, SignalFields DEF Announcements, IsStarted
  <2>5. group = born /\ group < group
    BY <2>3, <2>4 DEF Newest
  <2>6. signals[1] \in Signals /\ signals[1].type = "GroupStarted"
    BY <2>2, SignalFields DEF Queued
  <2>7. group \in Nat
    <3>1. group \in 1 .. MaxGroups
      BY <2>4, <2>6, SignalKinds
    <3> QED  BY <3>1, Bounds
  <2> QED  BY <2>5, <2>7
<1>2. ASSUME Announced' PROVE Announced
  BY <1>2, Dequeue, ZenonT(60) DEF Announced
<1>3. ASSUME Announced, Head(signals) # Started(group) PROVE Announced'
  <2>1. PICK k \in Queued : signals[k] = Started(group)
    BY <1>3 DEF Announced
  <2>2. k # 1
    BY <1>3, <2>1, Dequeue
  <2> QED  BY <2>1, <2>2, Dequeue, ZenonT(60) DEF Announced
<1> QED  BY <1>1, <1>2, <1>3

LEMMA DequeueAnnouncements ==
  ASSUME signals \in Seq(Signals), signals # <<>>, signals' = Tail(signals),
         group' = group, born' = born, Newest, Announcements
  PROVE  Announcements'
<1>1. \A k \in Queued' : IsStarted(k)' => signals'[k].of <= born
  BY Dequeue DEF Announcements, IsStarted
<1>2. ASSUME NEW j \in Queued', NEW k \in Queued', j < k, IsStarted(j)', IsStarted(k)'
      PROVE  signals'[j].of < signals'[k].of
  <2>1. j + 1 \in Queued /\ k + 1 \in Queued /\ j + 1 < k + 1
    BY <1>2, Dequeue DEF Queued
  <2> QED  BY <1>2, <2>1, Dequeue, ZenonT(60) DEF Announcements, IsStarted
<1>3. ASSUME group # 0, NEW k \in Queued', IsStarted(k)'
      PROVE  Announced'
  <2>1. k + 1 \in Queued /\ IsStarted(k + 1) /\ 1 \in Queued /\ 1 < k + 1
    BY <1>3, Dequeue DEF IsStarted, Queued
  <2>2. Announced
    BY <1>3, <2>1 DEF Announcements
  <2>3. Head(signals) # Started(group)
    <3>1. SUFFICES ASSUME Head(signals) = Started(group) PROVE FALSE
      OBVIOUS
    <3>2. signals[1] = Started(group) /\ IsStarted(1)
      BY <3>1, Dequeue, SignalFields DEF IsStarted
    <3>3. group < signals[k + 1].of /\ signals[k + 1].of <= born /\ group = born
      BY <1>3, <2>1, <3>2, SignalFields DEF Announcements, Newest
    <3>4. signals[k + 1].of \in 1 .. MaxGroups /\ signals[1].of \in 1 .. MaxGroups
      <4>1. signals[k + 1] \in Signals /\ signals[1] \in Signals
        BY <2>1 DEF Queued
      <4> QED  BY <2>1, <3>2, <4>1, SignalKinds DEF IsStarted
    <3>5. group = signals[1].of
      BY <3>2, SignalFields
    <3> QED  BY <3>3, <3>4, <3>5, Bounds
  <2> QED  BY <1>3, <2>2, <2>3, AnnouncedStill
<1> QED  BY <1>1, <1>2, <1>3 DEF Announcements

LEMMA DequeueQuestions ==
  ASSUME TypeOK, signals # <<>>, signals' = Tail(signals),
         group' = group, asked' = asked, pending' = pending, Questions
  PROVE  /\ Questions'
         /\ pending # 0 /\ Head(signals).type # "DisplayPin" /\ (\A k \in Queued' : ~IsPin(k)')
              => \A k \in Queued : ~IsPin(k)
         /\ pending # 0 /\ Head(signals).type = "DisplayPin" /\ (\A k \in Queued' : ~IsPin(k)')
              => Head(signals) = DisplayPin(pending) /\ ~Announced
<1>0. signals \in Seq(Signals)
  BY DEF TypeOK, GroupTypeOK
<1>1. \A k \in Queued' : IsPin(k)' => signals'[k].of <= asked'
  BY <1>0, Dequeue, ZenonT(60) DEF Questions, IsPin
<1>2. ASSUME NEW j \in Queued', NEW k \in Queued', j < k, IsPin(j)', IsPin(k)'
      PROVE  signals'[j].of < signals'[k].of
  <2>1. j + 1 \in Queued /\ k + 1 \in Queued /\ j + 1 < k + 1
    BY <1>0, <1>2, Dequeue DEF Queued
  <2> QED  BY <1>0, <1>2, <2>1, Dequeue, ZenonT(60) DEF Questions, IsPin
<1>3. pending' # 0 => pending' = asked' /\ group' # 0
  BY DEF Questions
<1>4. ASSUME pending # 0, NEW k \in Queued', IsPin(k)'
      PROVE  \E j \in Queued' : signals'[j] = DisplayPin(pending)
  <2>1. /\ k + 1 \in Queued /\ 1 \in Queued /\ 1 < k + 1 /\ IsPin(k + 1)
        /\ signals[k + 1].of <= asked /\ pending = asked
    BY <1>0, <1>4, Dequeue DEF IsPin, Queued, Questions
  <2>2. PICK i \in Queued : signals[i] = DisplayPin(pending)
    BY <1>4, <2>1 DEF Questions
  <2>3. i # 1
    <3>1. SUFFICES ASSUME i = 1 PROVE FALSE
      OBVIOUS
    <3>2. IsPin(1) /\ signals[1].of = pending
      BY <2>2, <3>1, SignalFields DEF IsPin
    <3>3. pending < signals[k + 1].of
      BY <2>1, <3>2 DEF Questions
    <3>4. pending \in Nat /\ signals[k + 1].of \in Nat
      <4>1. signals[k + 1] \in Signals
        BY <1>0, <2>1 DEF Queued
      <4>2. signals[k + 1].of \in 1 .. MaxPins
        BY <2>1, <4>1, SignalKinds DEF IsPin
      <4> QED  BY <4>2, Bounds DEF TypeOK, GroupTypeOK, Pins
    <3> QED  BY <2>1, <3>3, <3>4
  <2> QED  BY <1>0, <2>2, <2>3, Dequeue, ZenonT(60)
<1>5. ASSUME pending # 0, NEW j \in Queued', NEW k \in Queued',
             signals'[j] = DisplayPin(pending), signals'[k] = Started(group)
      PROVE  k < j
  <2>1. j + 1 \in Queued /\ k + 1 \in Queued
        /\ signals[j + 1] = DisplayPin(pending) /\ signals[k + 1] = Started(group)
    BY <1>0, <1>5, Dequeue
  <2>2. k + 1 < j + 1
    BY <1>5, <2>1 DEF Questions
  <2> QED  BY <1>0, <2>2, Dequeue DEF Queued
<1>6. Questions'
  BY <1>1, <1>2, <1>3, <1>4, <1>5 DEF Questions
<1>7. ASSUME pending # 0, Head(signals).type # "DisplayPin", \A k \in Queued' : ~IsPin(k)',
             NEW k \in Queued
      PROVE  ~IsPin(k)
  BY <1>0, <1>7, Dequeue DEF IsPin
<1>8. ASSUME pending # 0, Head(signals).type = "DisplayPin", \A k \in Queued' : ~IsPin(k)'
      PROVE  Head(signals) = DisplayPin(pending) /\ ~Announced
  <2>1. 1 \in Queued /\ IsPin(1) /\ signals[1] = Head(signals)
    BY <1>0, <1>8, Dequeue DEF IsPin
  <2>2. PICK i \in Queued : signals[i] = DisplayPin(pending)
    BY <1>8, <2>1 DEF Questions
  <2>3. i = 1
    <3>1. SUFFICES ASSUME i # 1 PROVE FALSE
      OBVIOUS
    <3>2. i - 1 \in Queued' /\ signals'[i - 1] = DisplayPin(pending)
      BY <1>0, <2>2, <3>1, Dequeue
    <3>3. signals'[i - 1].type = "DisplayPin"
      BY <3>2, SignalFields
    <3> QED  BY <1>8, <3>2, <3>3 DEF IsPin
  <2>4. ASSUME NEW k \in Queued, signals[k] = Started(group) PROVE FALSE
    <3>1. k < 1
      BY <1>8, <2>2, <2>3, <2>4 DEF Questions
    <3> QED  BY <1>0, <3>1, Dequeue DEF Queued
  <2> QED  BY <2>1, <2>2, <2>3, <2>4 DEF Announced
<1> QED  BY <1>6, <1>7, <1>8

(* What comes last is the newest group or the newest PIN.                  *)
LEMMA EnqueueAnnouncements ==
  ASSUME signals \in Seq(Signals), NEW signal \in Signals, signals' = Append(signals, signal),
         Announcements, Newest, group' = group, born' = born, signal.type # "GroupStarted"
  PROVE  Announcements' /\ (Announced <=> Announced')
<1>1. \A k \in Queued' : IsStarted(k)' => k \in Queued /\ IsStarted(k) /\ signals'[k] = signals[k]
  BY Enqueue DEF IsStarted
<1>2. Announced <=> Announced'
  <2>1. Announced => Announced'
    BY Enqueue DEF Announced
  <2>2. Announced' => Announced
    BY <1>1, SignalFields DEF Announced, IsStarted
  <2> QED  BY <2>1, <2>2
<1>3. /\ \A k \in Queued' : IsStarted(k)' => signals'[k].of <= born
      /\ \A j, k \in Queued' : j < k /\ IsStarted(j)' /\ IsStarted(k)' => signals'[j].of < signals'[k].of
  BY <1>1 DEF Announcements
<1>4. group # 0 /\ (\E k \in Queued' : IsStarted(k)') => Announced'
  BY <1>1, <1>2 DEF Announcements
<1> QED  BY <1>2, <1>3, <1>4 DEF Announcements

LEMMA EnqueueQuestions ==
  ASSUME signals \in Seq(Signals), NEW signal \in Signals, signals' = Append(signals, signal),
         Questions, signal.type # "DisplayPin", asked' = asked,
         pending' = 0 \/ (UNCHANGED <<pending, group>> /\ signal.type # "GroupStarted")
  PROVE  Questions' /\ (pending' # 0 /\ (\A k \in Queued' : ~IsPin(k)') => \A k \in Queued : ~IsPin(k))
<1>1. \A k \in Queued' : IsPin(k)' => k \in Queued /\ IsPin(k) /\ signals'[k] = signals[k]
  BY Enqueue DEF IsPin
<1>2. \A k \in Queued : k \in Queued' /\ signals'[k] = signals[k] /\ (IsPin(k)' <=> IsPin(k))
  BY Enqueue DEF IsPin
<1>3. /\ \A k \in Queued' : IsPin(k)' => signals'[k].of <= asked'
      /\ \A j, k \in Queued' : j < k /\ IsPin(j)' /\ IsPin(k)' => signals'[j].of < signals'[k].of
  BY <1>1 DEF Questions
<1>4. CASE pending' = 0
  BY <1>3, <1>4 DEF Questions
<1>5. CASE UNCHANGED <<pending, group>> /\ signal.type # "GroupStarted"
  <2>1. pending # 0 /\ (\E k \in Queued' : IsPin(k)') => \E k \in Queued' : signals'[k] = DisplayPin(pending)
    BY <1>1, <1>2 DEF Questions
  <2>2. ASSUME pending # 0, NEW j \in Queued', NEW k \in Queued',
               signals'[j] = DisplayPin(pending), signals'[k] = Started(group)
        PROVE  k < j
    <3>1. j \in Queued /\ signals[j] = DisplayPin(pending)
      BY <1>1, <2>2, SignalFields DEF IsPin
    <3>2. k \in Queued /\ signals[k] = Started(group)
      <4>1. signals'[k].type = "GroupStarted" /\ signal.type # "GroupStarted"
        BY <1>5, <2>2, SignalFields
      <4>2. k \in Queued
        BY <2>2, <4>1, Enqueue
      <4> QED  BY <1>2, <2>2, <4>2
    <3> QED  BY <2>2, <3>1, <3>2 DEF Questions
  <2> QED  BY <1>2, <1>3, <1>5, <2>1, <2>2 DEF Questions
<1> QED  BY <1>2, <1>4, <1>5

-----------------------------------------------------------------------------
(* What each step keeps of the rest of the invariant.                      *)

LEMMA GroundRest ==
  ASSUME Rest, UNCHANGED Ground
  PROVE  Rest'
<1>1. Connected' /\ Newest'
  BY DEF Rest, Ground, Connected, Newest
<1>2. Announcements' /\ Questions' /\ Answered' /\ Captured'
  BY DEF Rest, Ground, Announcements, Questions, Answered, Captured, Announced, Queued,
         IsStarted, IsPin
<1>3. Following'
  BY DEF Rest, Ground, Following, Announced, Queued, Underway, Provided, At
<1> QED  BY <1>1, <1>2, <1>3 DEF Rest

LEMMA CrashRest ==
  ASSUME TypeOK, Rest, Exit
  PROVE  Rest'
<1>1. /\ signals' = <<>> /\ subscribed' = FALSE /\ pending' = 0 /\ dnsmasq' = 0
      /\ main' = "down" /\ glib' = "off" /\ ifacePath' = 0 /\ credentials' = 0
      /\ group' = group /\ born' = born /\ address' = address
  BY DEF Exit, CastdGone
<1>2. \A k \in Queued' : FALSE
  BY <1>1 DEF Queued
<1>3. Connected' /\ Newest' /\ Answered' /\ Captured'
  BY <1>1 DEF Rest, Connected, Newest, Answered, Captured, TypeOK, GroupTypeOK, Groups
<1>4. Announcements' /\ Questions'
  BY <1>1, <1>2 DEF Announcements, Questions
<1>5. Following'
  BY <1>1 DEF Following, Underway, At
<1> QED  BY <1>3, <1>4, <1>5 DEF Rest

(* A step that leaves group, PINs and signals alone keeps what is said of  *)
(* them.                                                                   *)
LEMMA QuietRest ==
  ASSUME Rest, UNCHANGED <<group, born, asked, pending, armed, signals>>
  PROVE  Announcements' /\ Questions' /\ Answered' /\ (Announced' <=> Announced)
  BY DEF Rest, Announcements, Questions, Answered, Announced, Queued, IsStarted, IsPin

LEMMA StrollRest ==
  ASSUME TypeOK, Rest, Stroll
  PROVE  Rest'
<1>1. /\ UNCHANGED <<group, born, asked, pending, armed, signals, ifacePath, credentials,
                     address, dnsmasq, found, wifi, listening>>
      /\ \/ main = "down" /\ main' = "probing" /\ UNCHANGED <<glib, subscribed>>
         \/ main = "probing" /\ main' = "configuring" /\ subscribed' = TRUE /\ UNCHANGED glib
         \/ main = "configuring" /\ main' = "grouping" /\ UNCHANGED <<glib, subscribed>>
         \/ main = "grouping" /\ main' = "naming" /\ UNCHANGED <<glib, subscribed>>
         \/ main = "creating" /\ main' = "looping" /\ UNCHANGED <<glib, subscribed>>
         \/ main = "looping" /\ main' = "starting" /\ glib' = "idle" /\ UNCHANGED subscribed
         \/ main = "starting" /\ main' = "joined" /\ UNCHANGED <<glib, subscribed>>
  BY DEF Stroll, MainGoto, Begin, Probe, Configure, SkipGroupAdd, CreateUxPlay, RunForever,
         StartUxPlay, GroupAddIsLate
<1>2. glib # "off" => main \in {"starting", "joined"}
  BY DEF TypeOK
<1>3. Announcements' /\ Questions' /\ Answered' /\ (Announced' <=> Announced)
  BY <1>1, QuietRest
<1>4. Connected'
  BY <1>1, <1>2 DEF Rest, Connected
<1>5. Newest' /\ Captured'
  BY <1>1, <1>3 DEF Rest, Newest, Captured
<1>6. Following'
  <2>1. SUFFICES ASSUME group # 0, ~Announced PROVE Following'
    BY <1>1, <1>3 DEF Following
  <2>2. /\ Underway("main") /\ Underway("glib")
        /\ glib \in {"naming", "serving", "listening", "reading"} => credentials = group
        /\ main \in {"creating", "looping", "starting", "joined"} /\ glib \in {"off", "idle"} =>
             Provided /\ listening /\ wifi = group
    BY <2>1 DEF Rest, Following
  <2>3. Underway("main")'
    BY <1>1 DEF Underway, At
  <2>4. Underway("glib")'
    BY <1>1, <2>2 DEF Underway, At, Provided
  <2>5. glib' \in {"naming", "serving", "listening", "reading"} => credentials' = group'
    BY <1>1, <2>2
  <2>6. main' \in {"creating", "looping", "starting", "joined"} /\ glib' \in {"off", "idle"} =>
             Provided' /\ listening' /\ wifi' = group'
    BY <1>1, <1>2, <2>2 DEF Provided
  <2> QED  BY <2>3, <2>4, <2>5, <2>6 DEF Following
<1> QED  BY <1>3, <1>4, <1>5, <1>6 DEF Rest

(* What the services need while they are started: the other thread is not  *)
(* at it.                                                                  *)
LEMMA ServeRest ==
  ASSUME TypeOK, Rest, NEW t \in {"main", "glib"}, Services(t), ~Exit
  PROVE  Rest'
<1>1. UNCHANGED <<group, born, asked, pending, armed, signals, subscribed, ifacePath>>
  BY DEF Services, NameGroup, NoGroup, StartNetwork, StartNetworkRaises, Listen, ListenRaises,
         ReadWifi
<1>2. Announcements' /\ Questions' /\ Answered' /\ (Announced' <=> Announced)
  BY <1>1, QuietRest
<1>3. /\ t = "main" => /\ glib = "off" /\ glib' = "off"
                       /\ main \in {"naming", "serving", "listening", "reading"}
                       /\ main' \in {"serving", "listening", "reading", "creating"}
      /\ t = "glib" => /\ main \in {"starting", "joined"} /\ main' = main
                       /\ glib \in {"naming", "serving", "listening", "reading"}
                       /\ glib' \in {"serving", "listening", "reading", "idle"}
  BY DEF TypeOK, Services, NameGroup, NoGroup, StartNetwork, StartNetworkRaises, Listen,
         ListenRaises, ReadWifi, GotoOn, At
<1>4. UNCHANGED <<credentials, wifi>> \/ ReadWifi(t)
  BY DEF Services, NameGroup, NoGroup, StartNetwork, StartNetworkRaises, Listen, ListenRaises
<1>5. Connected'
  <2>1. CASE t = "glib"
    BY <1>1, <1>3, <2>1 DEF Rest, Connected
  <2>2. CASE t = "main"
    BY <1>1, <1>3, <1>4, <2>2 DEF Rest, Connected, ReadWifi, GotoOn, At
  <2> QED  BY <2>1, <2>2
<1>6. Newest'
  <2>1. UNCHANGED network \/ StartNetwork(t) \/ StartNetworkRaises(t)
    BY DEF Services, NameGroup, NoGroup, Listen, ListenRaises, ReadWifi
  <2>2. group \in Nat /\ born \in Nat /\ (group # 0 => group = born)
    BY Bounds DEF Rest, Newest, TypeOK, GroupTypeOK, Groups
  <2>3. CASE UNCHANGED network
    BY <1>1, <2>3 DEF Rest, Newest
  <2>4. CASE StartNetwork(t)
    <3>1. UNCHANGED network \/ (dnsmasq' = group /\ address' = group)
      BY <2>4 DEF StartNetwork, NetworkStart
    <3>2. CASE dnsmasq' = group /\ address' = group
      BY <1>1, <2>2, <3>2 DEF Newest, TypeOK, GroupTypeOK, Groups
    <3> QED  BY <2>3, <3>1, <3>2
  <2>5. CASE StartNetworkRaises(t)
    <3>1. dnsmasq' = 0
      BY <2>5 DEF StartNetworkRaises, NetworkStartRaises
    <3> QED  BY <1>1, <2>2, <3>1 DEF Newest
  <2> QED  BY <2>1, <2>3, <2>4, <2>5
<1>7. Captured'
  BY <1>1, <1>2 DEF Rest, Captured
<1>8. Following'
  <2> SUFFICES ASSUME group # 0, ~Announced PROVE Following'
    BY <1>1, <1>2 DEF Following
  <2>1. /\ Underway("main") /\ Underway("glib")
        /\ glib \in {"naming", "serving", "listening", "reading"} => credentials = group
    BY DEF Rest, Following
  <2>2. At(t) = "serving" => found[t] = group
    BY <2>1 DEF Underway
  <2>3. At(t) \in {"listening", "reading"} => Provided
    BY <2>1 DEF Underway
  <2>4. At(t) = "reading" => listening
    BY <2>1 DEF Underway
  <2>5. CASE NameGroup(t)
    <3>1. At(t)' = "serving" /\ found'[t] = group' /\ UNCHANGED <<credentials, wifi>>
      BY <2>5 DEF NameGroup, GotoOn, At, TypeOK
    <3> QED  BY <1>1, <1>3, <2>1, <3>1 DEF Following, Underway, At
  <2>6. CASE NoGroup(t)
    BY <2>6 DEF NoGroup
  <2>7. CASE StartNetwork(t)
    <3>1. found[t] = group /\ dnsmasq' = group /\ address' = group
      BY <2>2, <2>7 DEF StartNetwork, NetworkStart, Serving, Rest, Newest
    <3>2. At(t)' = "listening" /\ UNCHANGED <<credentials, wifi>>
      BY <2>7 DEF StartNetwork, GotoOn, At
    <3> QED  BY <1>1, <1>3, <2>1, <3>1, <3>2 DEF Following, Underway, Provided, At
  <2>8. CASE StartNetworkRaises(t)
    BY <2>2, <2>8 DEF StartNetworkRaises, NetworkStartRaises
  <2>9. CASE Listen(t)
    <3>1. At(t)' = "reading" /\ listening' /\ UNCHANGED <<credentials, wifi, address, dnsmasq>>
      BY <2>9 DEF Listen, GotoOn, At
    <3>2. Provided'
      BY <1>1, <2>3, <2>9, <3>1 DEF Listen, Provided
    <3> QED  BY <1>1, <1>3, <2>1, <3>1, <3>2 DEF Following, Underway, At
  <2>10. CASE ListenRaises(t)
    BY <2>3, <2>10 DEF ListenRaises, Provided
  <2>11. CASE ReadWifi(t)
    <3>1. GetGroupCredentials = group
      <4>1. CASE t = "glib"
        BY <1>3, <2>1, <4>1 DEF GetGroupCredentials
      <4>2. CASE t = "main"
        BY <1>3, <4>2 DEF Rest, Connected, GetGroupCredentials, ReadCredentials, Registrar
      <4> QED  BY <4>1, <4>2
    <3>2. /\ Provided' /\ listening' /\ credentials' = group /\ wifi' = group
          /\ At(t)' \in {"creating", "idle"}
      BY <1>1, <2>3, <2>4, <2>11, <3>1 DEF ReadWifi, Provided, GotoOn, At
    <3> QED  BY <1>1, <1>3, <2>1, <3>2 DEF Following, Underway, At
  <2> QED
    BY <2>5, <2>6, <2>7, <2>8, <2>9, <2>10, <2>11 DEF Services
<1> QED  BY <1>2, <1>5, <1>6, <1>7, <1>8 DEF Rest

LEMMA NewGroupRest ==
  ASSUME TypeOK, Rest, NewGroup, UNCHANGED <<found, daemon, bounds, glib, sessions>>,
         main' = main \/ (main = "grouping" /\ main' = "naming")
  PROVE  Rest'
<1>1. /\ group = 0 /\ group' = born + 1 /\ born' = born + 1 /\ pending' = 0
      /\ Emit(Started(born + 1))
      /\ UNCHANGED <<asked, address, dnsmasq, subscribed, ifacePath, credentials>>
  BY DEF NewGroup
<1>2. born \in Nat /\ born + 1 \in 1 .. MaxGroups /\ signals \in Seq(Signals)
  BY Bounds DEF NewGroup, TypeOK, GroupTypeOK, Groups
<1>3. Started(born + 1) \in Signals
  BY <1>2, SignalsThere
<1>4. subscribed => signals' = Append(signals, Started(born + 1))
  BY <1>1 DEF Emit
<1>5. ~subscribed => /\ signals = <<>> /\ signals' = <<>> /\ main \in {"down", "probing"}
                     /\ main' = main /\ pending = 0 /\ glib = "off" /\ ifacePath = 0
  BY <1>1 DEF Emit, Rest, Connected, TypeOK
<1>6. Connected'
  BY <1>1, <1>5 DEF Rest, Connected
<1>7. Newest'
  BY <1>1, <1>2 DEF Rest, Newest, TypeOK, GroupTypeOK, Groups
<1>8. subscribed => Announced'
  <2> SUFFICES ASSUME subscribed PROVE Announced'
    OBVIOUS
  <2>1. Len(signals) + 1 \in Queued' /\ signals'[Len(signals) + 1] = Started(born + 1)
    BY <1>2, <1>3, <1>4, Enqueue
  <2> QED  BY <1>1, <2>1 DEF Announced
<1>9. Announcements'
  <2>1. CASE ~subscribed
    BY <1>5, <2>1 DEF Announcements, Queued
  <2>2. CASE subscribed
    <3>1. ASSUME NEW k \in Queued', IsStarted(k)'
          PROVE  /\ \/ k \in Queued /\ signals'[k] = signals[k] /\ signals'[k].of <= born
                    \/ k = Len(signals) + 1 /\ signals'[k].of = born + 1
                 /\ signals'[k].of <= born'
      <4>1. CASE k \in Queued
        <5>1. signals'[k] = signals[k]
          BY <1>2, <1>3, <1>4, <2>2, <4>1, Enqueue
        <5>2. IsStarted(k)
          BY <3>1, <5>1 DEF IsStarted
        <5>3. signals[k].of <= born /\ signals[k] \in Signals
          BY <1>2, <4>1, <5>2 DEF Rest, Announcements, Queued
        <5>4. signals[k].of \in 1 .. MaxGroups
          BY <5>2, <5>3, SignalKinds DEF IsStarted
        <5> QED  BY <1>1, <1>2, <4>1, <5>1, <5>3, <5>4, Bounds
      <4>2. CASE k = Len(signals) + 1
        <5>1. signals'[k].of = born + 1
          BY <1>2, <1>3, <1>4, <2>2, <4>2, Enqueue, SignalFields
        <5> QED  BY <1>1, <1>2, <4>2, <5>1
      <4> QED  BY <1>2, <1>3, <1>4, <2>2, <4>1, <4>2, Enqueue
    <3>2. ASSUME NEW j \in Queued', NEW k \in Queued', j < k, IsStarted(j)', IsStarted(k)'
          PROVE  signals'[j].of < signals'[k].of
      <4>1. j # Len(signals) + 1
        BY <1>2, <1>3, <1>4, <2>2, <3>2, Enqueue
      <4>2. j \in Queued /\ signals'[j] = signals[j] /\ signals'[j].of <= born
        BY <3>1, <3>2, <4>1
      <4>3. CASE k = Len(signals) + 1
        <5>1. signals'[k].of = born + 1
          BY <1>2, <1>3, <1>4, <2>2, <4>3, Enqueue, SignalFields
        <5>2. signals[j].of \in 1 .. MaxGroups
          <6>1. signals[j] \in Signals
            BY <1>2, <4>2 DEF Queued
          <6> QED  BY <3>2, <4>2, <6>1, SignalKinds DEF IsStarted
        <5> QED  BY <1>2, <4>2, <5>1, <5>2, Bounds
      <4>4. CASE k \in Queued
        BY <1>2, <1>3, <1>4, <2>2, <3>2, <4>2, <4>4, Enqueue DEF Rest, Announcements, IsStarted
      <4> QED  BY <1>2, <1>3, <1>4, <2>2, <4>3, <4>4, Enqueue
    <3> QED  BY <1>8, <2>2, <3>1, <3>2 DEF Announcements
  <2> QED  BY <2>1, <2>2
<1>10. Questions'
  <2>1. CASE ~subscribed
    BY <1>1, <1>5, <2>1 DEF Questions, Queued
  <2>2. CASE subscribed
    BY <1>1, <1>2, <1>3, <1>4, <2>2, EnqueueQuestions, SignalFields DEF Rest
  <2> QED  BY <2>1, <2>2
<1>11. Answered' /\ Captured'
  BY <1>1, <1>5, <1>8 DEF Answered, Captured
<1>12. Following'
  BY <1>5, <1>8 DEF Following, Underway, At
<1> QED  BY <1>6, <1>7, <1>9, <1>10, <1>11, <1>12 DEF Rest

LEMMA GroupEndsRest ==
  ASSUME TypeOK, Rest, GroupEnds, UNCHANGED <<start, daemon, sessions, bounds>>
  PROVE  Rest'
<1>1. /\ group' = 0 /\ pending' = 0
      /\ UNCHANGED <<born, asked, subscribed, signals, ifacePath, credentials, dnsmasq, main, glib>>
  BY DEF GroupEnds
<1>2. Connected' /\ Newest' /\ Answered' /\ Captured' /\ Following'
  BY <1>1 DEF Rest, Connected, Newest, Answered, Captured, Following
<1>3. Announcements' /\ Questions'
  BY <1>1 DEF Rest, Announcements, Questions, Queued, IsStarted, IsPin
<1> QED  BY <1>2, <1>3 DEF Rest

LEMMA AskPinRest ==
  ASSUME TypeOK, Rest, AskPin, UNCHANGED <<start, daemon, sessions, bounds>>
  PROVE  Rest'
<1>1. /\ group # 0 /\ asked' = asked + 1 /\ Emit(DisplayPin(asked + 1))
      /\ pending' = IF subscribed THEN asked + 1 ELSE pending
      /\ UNCHANGED <<group, born, armed, address, dnsmasq, subscribed, ifacePath, credentials,
                     main, glib, found, wifi, listening>>
  BY DEF AskPin
<1>2. asked \in Nat /\ asked + 1 \in 1 .. MaxPins /\ signals \in Seq(Signals)
  BY Bounds DEF AskPin, TypeOK, GroupTypeOK, Pins
<1>3. DisplayPin(asked + 1) \in Signals
  BY <1>2, SignalsThere
<1>4. CASE ~subscribed
  <2>1. signals = <<>> /\ signals' = <<>> /\ pending = 0 /\ pending' = 0
    BY <1>1, <1>4 DEF Emit, Rest, Connected
  <2>2. \A k \in Queued : FALSE
    BY <2>1 DEF Queued
  <2>3. \A k \in Queued' : FALSE
    BY <2>1 DEF Queued
  <2>4. Connected' /\ Newest' /\ Answered'
    BY <1>1, <2>1 DEF Rest, Connected, Newest, Answered
  <2>5. Announcements' /\ Questions' /\ (Announced' <=> Announced)
    BY <1>1, <2>1, <2>2, <2>3 DEF Rest, Announcements, Questions, Announced, IsStarted
  <2>6. Captured' /\ Following'
    BY <1>1, <2>5 DEF Rest, Captured, Following, Underway, Provided, At
  <2> QED  BY <2>4, <2>5, <2>6 DEF Rest
<1>5. CASE subscribed
  <2>1. signals' = Append(signals, DisplayPin(asked + 1)) /\ pending' = asked + 1
    BY <1>1, <1>5 DEF Emit
  <2>2. Announcements' /\ (Announced' <=> Announced)
    BY <1>1, <1>2, <1>3, <2>1, SignalFields, EnqueueAnnouncements DEF Rest
  <2> DEFINE last == Len(signals) + 1
  <2>3. /\ Len(signals) \in Nat /\ last \in Queued' /\ signals'[last] = DisplayPin(asked + 1)
        /\ \A k \in Queued : k \in Nat /\ k < last /\ k \in Queued' /\ signals'[k] = signals[k]
        /\ \A k \in Queued' : k \in Queued \/ k = last
    BY <1>2, <1>3, <2>1, Enqueue
  <2> HIDE DEF last
  <2>4. ASSUME NEW k \in Queued, IsPin(k) PROVE signals[k].of \in Nat /\ signals[k].of <= asked
    <3>1. signals[k] \in Signals
      BY <1>2 DEF Queued
    <3>2. signals[k].of \in 1 .. MaxPins
      BY <2>4, <3>1, SignalKinds DEF IsPin
    <3> QED  BY <2>4, <3>2, Bounds DEF Rest, Questions
  <2>5. signals'[last].type = "DisplayPin" /\ signals'[last].of = asked + 1
    BY <2>3, SignalFields
  <2>6. \A k \in Queued' : IsPin(k)' => signals'[k].of <= asked'
    <3> TAKE k \in Queued'
    <3> HAVE IsPin(k)'
    <3>1. CASE k = last
      BY <1>1, <1>2, <2>5, <3>1
    <3>2. CASE k \in Queued
      <4>1. IsPin(k) /\ signals'[k] = signals[k]
        BY <2>3, <3>2 DEF IsPin
      <4> QED  BY <1>1, <1>2, <2>4, <3>2, <4>1
    <3> QED  BY <2>3, <3>1, <3>2
  <2>7. ASSUME NEW j \in Queued', NEW k \in Queued', j < k, IsPin(j)', IsPin(k)'
        PROVE  signals'[j].of < signals'[k].of
    <3>1. j \in Queued
      <4>1. SUFFICES ASSUME j = last PROVE FALSE
        BY <2>3
      <4>2. last < k /\ last \in Nat /\ (k = last \/ (k \in Nat /\ k < last))
        BY <2>3, <2>7, <4>1 DEF last
      <4> QED  BY <4>2
    <3>2. IsPin(j) /\ signals'[j] = signals[j]
      BY <2>3, <2>7, <3>1 DEF IsPin
    <3>3. CASE k = last
      BY <1>2, <2>4, <2>5, <3>1, <3>2, <3>3
    <3>4. CASE k \in Queued
      <4>1. IsPin(k) /\ signals'[k] = signals[k]
        BY <2>3, <2>7, <3>4 DEF IsPin
      <4> QED  BY <2>7, <3>1, <3>2, <3>4, <4>1 DEF Rest, Questions
    <3> QED  BY <2>3, <3>3, <3>4
  <2>8. pending' # 0 /\ pending' = asked' /\ group' # 0
    <3>1. asked + 1 # 0
      BY <1>2
    <3> QED  BY <1>1, <2>1, <3>1, Zenon
  <2>9. \E k \in Queued' : signals'[k] = DisplayPin(pending')
    BY <2>1, <2>3
  <2>10. ASSUME NEW j \in Queued', NEW k \in Queued',
                signals'[j] = DisplayPin(pending'), signals'[k] = Started(group')
         PROVE  k < j
    <3>1. j = last
      <4>1. SUFFICES ASSUME j \in Queued PROVE FALSE
        BY <2>3
      <4>2. signals[j] = DisplayPin(asked + 1)
        BY <2>1, <2>3, <2>10, <4>1
      <4>3. IsPin(j) /\ signals[j].of = asked + 1
        BY <4>2, SignalFields DEF IsPin
      <4> QED  BY <1>2, <2>4, <4>1, <4>3
    <3>2. k # last
      <4>1. signals'[k].type = "GroupStarted" /\ signals'[last].type = "DisplayPin"
        BY <2>3, <2>10, SignalFields
      <4> QED  BY <4>1
    <3> QED  BY <2>3, <3>1, <3>2
  <2>11. Questions'
    BY <2>6, <2>7, <2>8, <2>9, <2>10 DEF Questions
  <2>12. Answered'
    <3>1. \E k \in Queued' : IsPin(k)'
      BY <2>3, <2>5 DEF IsPin
    <3> QED  BY <3>1 DEF Answered
  <2>13. Connected' /\ Newest'
    BY <1>1, <1>5 DEF Rest, Connected, Newest
  <2>14. Captured' /\ Following'
    BY <1>1, <2>2 DEF Rest, Captured, Following, Underway, Provided, At
  <2> QED  BY <2>2, <2>11, <2>12, <2>13, <2>14 DEF Rest
<1> QED  BY <1>4, <1>5

(* A signal that is neither a group's start nor a PIN.                     *)
LEMMA StationRest ==
  ASSUME TypeOK, Rest, StationAuthorized
  PROVE  Rest'
<1>1. /\ subscribed /\ signals' = Append(signals, StaAuthorized)
      /\ UNCHANGED <<group, born, asked, pending, armed, address, dnsmasq, subscribed, ifacePath,
                     credentials, main, glib, found, wifi, listening>>
  BY DEF StationAuthorized, Emit
<1>2. signals \in Seq(Signals) /\ StaAuthorized \in Signals
      /\ StaAuthorized.type # "GroupStarted" /\ StaAuthorized.type # "DisplayPin"
  BY SignalsThere, SignalFields DEF TypeOK, GroupTypeOK
<1>3. Announcements' /\ (Announced' <=> Announced)
  BY <1>1, <1>2, EnqueueAnnouncements DEF Rest
<1>4. Questions' /\ (pending' # 0 /\ (\A k \in Queued' : ~IsPin(k)') => \A k \in Queued : ~IsPin(k))
  BY <1>1, <1>2, EnqueueQuestions DEF Rest
<1>5. Answered'
  BY <1>1, <1>4 DEF Rest, Answered
<1>6. Connected' /\ Newest'
  BY <1>1 DEF Rest, Connected, Newest
<1>7. Captured' /\ Following'
  BY <1>1, <1>3 DEF Rest, Captured, Following, Underway, Provided, At
<1> QED  BY <1>3, <1>4, <1>5, <1>6, <1>7 DEF Rest

-----------------------------------------------------------------------------
(* The GLib thread's handlers.                                             *)

LEMMA GroupStartedRest ==
  ASSUME TypeOK, Rest, HandleGroupStarted
  PROVE  Rest'
<1> DEFINE m == Head(signals)
<1>1. /\ glib = "idle" /\ glib' = "naming" /\ signals # <<>> /\ signals' = Tail(signals)
      /\ m.type = "GroupStarted" /\ ifacePath' = m.of /\ credentials' = ReadCredentials(m.of)
      /\ UNCHANGED <<group, born, asked, pending, armed, address, dnsmasq, subscribed, main,
                     found, wifi, listening>>
  BY DEF HandleGroupStarted, Deliver, CaptureGroup
<1>2. signals \in Seq(Signals) /\ 1 \in Queued /\ signals[1] = m /\ m = Started(m.of)
  <2>1. signals \in Seq(Signals)
    BY DEF TypeOK, GroupTypeOK
  <2>2. 1 \in Queued /\ signals[1] = m
    BY <1>1, <2>1, Dequeue
  <2>3. m \in Signals
    BY <2>1, <2>2 DEF Queued
  <2> QED  BY <1>1, <2>1, <2>2, <2>3, SignalKinds
<1> HIDE DEF m
<1>3. main \in {"starting", "joined"}
  BY <1>1 DEF TypeOK
<1>4. Announcements'
  BY <1>1, <1>2, DequeueAnnouncements DEF Rest
<1>5. Questions' /\ Answered'
  BY <1>1, <1>2, DequeueQuestions DEF Rest, Answered, m
<1>6. Connected' /\ Newest'
  BY <1>1, <1>3 DEF Rest, Connected, Newest
<1>7. group # 0 /\ ~Announced' => m.of = group
  <2> SUFFICES ASSUME group # 0, m.of # group PROVE Announced'
    OBVIOUS
  <2>1. IsStarted(1)
    BY <1>1, <1>2 DEF IsStarted
  <2>2. Announced
    BY <1>2, <2>1 DEF Rest, Announcements
  <2>3. m # Started(group)
    BY SignalFields
  <2> QED  BY <1>1, <1>2, <2>2, <2>3, AnnouncedStill DEF Rest, m
<1>8. Captured'
  BY <1>1, <1>7 DEF Captured
<1>9. Following'
  <2> SUFFICES ASSUME group # 0, ~Announced' PROVE Following'
    BY <1>1 DEF Following
  <2>1. credentials' = group'
    BY <1>1, <1>7 DEF ReadCredentials
  <2> QED  BY <1>1, <1>3, <2>1 DEF Following, Underway, At
<1> QED  BY <1>4, <1>5, <1>6, <1>8, <1>9 DEF Rest

LEMMA DisplayPinRest ==
  ASSUME TypeOK, Rest, HandleDisplayPin
  PROVE  Rest'
<1> DEFINE m == Head(signals)
<1>1. /\ glib = "idle" /\ signals # <<>> /\ signals' = Tail(signals)
      /\ m.type = "DisplayPin" /\ AuthorizeDisplayPin(m.of)
      /\ UNCHANGED <<group, born, asked, pending, address, dnsmasq, subscribed, ifacePath,
                     credentials, main, glib, found, wifi, listening>>
  BY DEF HandleDisplayPin, Deliver
<1>2. signals \in Seq(Signals)
  BY DEF TypeOK, GroupTypeOK
<1>3. Announcements'
  BY <1>1, <1>2, DequeueAnnouncements DEF Rest
<1>4. group # 0 => (Announced' <=> Announced)
  <2>1. m # Started(group)
    BY <1>1, SignalFields
  <2> QED  BY <1>1, <1>2, <2>1, AnnouncedStill DEF Rest, m
<1>5. Questions'
  BY <1>1, DequeueQuestions DEF Rest
<1>6. Answered'
  <2> SUFFICES ASSUME pending # 0, \A k \in Queued' : ~IsPin(k)' PROVE armed' = pending
    BY <1>1 DEF Answered
  <2>1. m = DisplayPin(pending) /\ ~Announced /\ group # 0
    BY <1>1, DequeueQuestions DEF Rest, Questions, m
  <2>2. ifacePath \in {0, group}
    BY <2>1 DEF Rest, Captured
  <2>3. m.of = pending
    BY <2>1, SignalFields
  <2> QED  BY <1>1, <2>1, <2>2, <2>3 DEF AuthorizeDisplayPin, Registrar
<1>7. Connected' /\ Newest'
  BY <1>1 DEF Rest, Connected, Newest
<1>8. Captured' /\ Following'
  BY <1>1, <1>4 DEF Rest, Captured, Following, Underway, Provided, At
<1> QED  BY <1>3, <1>5, <1>6, <1>7, <1>8 DEF Rest

LEMMA StaAuthorizedRest ==
  ASSUME TypeOK, Rest, HandleStaAuthorized
  PROVE  Rest'
<1> DEFINE m == Head(signals)
<1>1. /\ glib = "idle" /\ signals # <<>> /\ signals' = Tail(signals)
      /\ m.type = "StaAuthorized"
      /\ UNCHANGED <<group, born, asked, pending, armed, address, dnsmasq, subscribed, ifacePath,
                     credentials, main, glib, found, wifi, listening>>
  BY DEF HandleStaAuthorized, Deliver
<1>2. signals \in Seq(Signals)
  BY DEF TypeOK, GroupTypeOK
<1>3. Announcements'
  BY <1>1, <1>2, DequeueAnnouncements DEF Rest
<1>4. group # 0 => (Announced' <=> Announced)
  <2>1. m # Started(group)
    BY <1>1, SignalFields
  <2> QED  BY <1>1, <1>2, <2>1, AnnouncedStill DEF Rest, m
<1>5. Questions' /\ Answered'
  BY <1>1, DequeueQuestions DEF Rest, Answered, m
<1>6. Connected' /\ Newest'
  BY <1>1 DEF Rest, Connected, Newest
<1>7. Captured' /\ Following'
  BY <1>1, <1>4 DEF Rest, Captured, Following, Underway, Provided, At
<1> QED  BY <1>3, <1>5, <1>6, <1>7 DEF Rest

-----------------------------------------------------------------------------
(* The invariant holds in every reachable state.                           *)

LEMMA InitInv == Init => Inv
<1> SUFFICES ASSUME Init PROVE Inv
  OBVIOUS
<1>1. TypeOK
  BY TypeInit
<1>2. /\ signals = <<>> /\ subscribed = FALSE /\ pending = 0 /\ dnsmasq = 0
      /\ main = "down" /\ glib = "off" /\ ifacePath = 0 /\ credentials = 0
      /\ group \in {0, 1} /\ born = group
  BY DEF Init, GroupInit
<1>3. \A k \in Queued : FALSE
  BY <1>2 DEF Queued
<1>4. Created /\ Connected /\ Newest /\ Answered /\ Captured
  BY <1>2 DEF Created, Connected, Newest, Answered, Captured
<1>5. Announcements /\ Questions
  BY <1>2, <1>3 DEF Announcements, Questions
<1>6. Following
  BY <1>2 DEF Following, Underway, At
<1> QED  BY <1>1, <1>4, <1>5, <1>6 DEF Inv, Rest

LEMMA NextInv == Inv /\ [Next]_vars => Inv'
<1> SUFFICES ASSUME Inv, [Next]_vars PROVE Inv'
  OBVIOUS
<1>1. TypeOK /\ Rest /\ TypeOK' /\ Created'
  BY TypeNext DEF Inv
<1>2. CASE UNCHANGED vars
  <2>1. UNCHANGED Ground
    BY <1>2 DEF vars, Ground
  <2> QED  BY <1>1, <2>1, GroundRest DEF Inv
<1>3. CASE Stroll
  BY <1>1, <1>3, StrollRest DEF Inv
<1>4. CASE Serve
  BY <1>1, <1>4, ServeRest DEF Inv, Serve
<1>5. CASE Crash
  BY <1>1, <1>5, CrashRest DEF Inv, Crash
<1>6. CASE Radiate
  BY <1>1, <1>6, NewGroupRest, GroupEndsRest, AskPinRest DEF Inv, Radiate
<1>7. CASE HandleGroupStarted \/ HandleDisplayPin \/ HandleStaAuthorized
  BY <1>1, <1>7, GroupStartedRest, DisplayPinRest, StaAuthorizedRest DEF Inv
<1>8. ASSUME NEW s \in Sessions, SessionStep(s) \/ Disconnect(s) PROVE Inv'
  BY <1>1, <1>8, TypeSession, GroundRest DEF Inv
<1>9. CASE StationAuthorized
  BY <1>1, <1>9, StationRest DEF Inv
<1>10. ASSUME NEW s \in Sessions, Accept(s) PROVE Inv'
  <2>1. UNCHANGED Ground
    BY <1>10 DEF Accept, Ground
  <2> QED  BY <1>1, <2>1, GroundRest DEF Inv
<1> QED  BY <1>2, <1>3, <1>4, <1>5, <1>6, <1>7, <1>8, <1>9, <1>10, Steps

(* What is said above of the group, the queue of signals and the threads   *)
(* holds in every reachable state, also across restarts of castd.          *)
THEOREM InvHolds == Spec => []Inv
  BY InitInv, NextInv, PTL DEF Spec

(* Every variable has its type, whatever castd, wpa_supplicant and the     *)
(* peers do, and no handler runs before there is a UxPlay for it to find.  *)
THEOREM TypeCorrect == Spec => []TypeOK
<1>1. Inv => TypeOK
  BY DEF Inv
<1> QED  BY <1>1, InvHolds, PTL

(* The registrar of the live group is armed with the PIN on the screen as  *)
(* soon as castd has caught up with its signals: _handle_group_started has *)
(* replaced the path of the old group before on_display_pin uses it.       *)
THEOREM RegistrarArmedHolds == Spec => []RegistrarArmed
<1>1. Inv => RegistrarArmed
  BY DEF Inv, Rest, Answered, RegistrarArmed, Settled, Queued
<1> QED  BY <1>1, InvHolds, PTL

(* Settled, castd's DHCP server, the sink's address and the listener are   *)
(* the live group's: of start() when it found or made the group, of the    *)
(* handler of GroupStarted when the group came later.                      *)
THEOREM ServicesFollowGroupHolds == Spec => []ServicesFollowGroup
<1>1. Inv => ServicesFollowGroup
  <2> SUFFICES ASSUME Inv, Settled, group # 0 PROVE Provided /\ listening
    BY DEF ServicesFollowGroup, Provided
  <2>1. ~Announced
    BY DEF Settled, Announced, Queued
  <2> QED  BY <2>1 DEF Inv, Rest, Following, Settled
<1> QED  BY <1>1, InvHolds, PTL

(* The same of the Wi-Fi credentials castd hands out.                      *)
THEOREM CredentialsFollowGroupHolds == Spec => []CredentialsFollowGroup
<1>1. Inv => CredentialsFollowGroup
  <2> SUFFICES ASSUME Inv, Settled, group # 0 PROVE wifi = group
    BY DEF CredentialsFollowGroup
  <2>1. ~Announced
    BY DEF Settled, Announced, Queued
  <2> QED  BY <2>1 DEF Inv, Rest, Following, Settled
<1> QED  BY <1>1, InvHolds, PTL
-----------------------------------------------------------------------------
(* The room is offered.  Sessions that overlap upset it: the second source *)
(* to connect is rejected, and its MIRACAST_DISCONNECTED frees the room    *)
(* under the first (SecondSource); what the one resumes the other may      *)
(* still be pausing.  The theorem is about the behaviours in which no two  *)
(* sessions are between the start of the one transition and the end of the *)
(* other, however many follow each other or wait to connect.               *)
InSession(s) == pc[s] \in {"connecting", "pumping", "closing"}

OneAtATime == \A s, v \in Sessions : InSession(s) /\ InSession(v) => s = v

(* The session thread that died at RESUME_AIRPLAY_ADVERTISING.             *)
Aborted == \E s \in Sessions : pc[s] = "aborted"

(* What start() owes to the room, and a session gives back.                *)
Published == main \notin {"down", "probing", "configuring"} => ies = WfdIes(TRUE)
Restored == main = "joined" => uxplay = "up"

(* No session before configure() has been called.                          *)
LateSessions ==
  listening \/ (\E s \in Sessions : pc[s] # "off") =>
    main \in {"reading", "creating", "looping", "starting", "joined"}

(* How far the session in progress is with what it takes and gives back.   *)
Progress(s) ==
  /\ pc[s] = "connecting" =>
       /\ state = "MIRACAST"
       /\ todo[s] \in {EnterMiracast, <<"PAUSE_MIRACAST_DISCOVERY">>,
                       <<"LOG_REJECTED_CONNECTION">>, <<>>}
  /\ pc[s] = "pumping" => state = "MIRACAST"
  /\ pc[s] = "closing" =>
       /\ state = "IDLE"
       /\ \/ todo[s] \in {LeaveMiracast, Tail(LeaveMiracast)}
          \/ todo[s] = <<"RESUME_MIRACAST_DISCOVERY", "SHOW_IDLE_SCREEN">> /\ Restored
          \/ todo[s] \in {<<"SHOW_IDLE_SCREEN">>, <<>>} /\ Restored /\ Published

(* Between two sessions; a thread that died while it took the room leaves  *)
(* it in MIRACAST to the next one.                                         *)
Unoccupied == (\A s \in Sessions : ~InSession(s)) /\ state = "IDLE"
                => Restored /\ (Published \/ Aborted)

Offer == LateSessions /\ state # "AIRPLAY" /\ Unoccupied /\ \A s \in Sessions : Progress(s)

LEMMA OfferInit == Init => Offer
  BY DEF Init, NobodyThere, Offer, LateSessions, Unoccupied, Progress, InSession, Published, Restored

LEMMA OfferCrash ==
  ASSUME Exit
  PROVE  Offer'
  BY DEF Exit, NobodyThere, Offer, LateSessions, Unoccupied, Progress, InSession, Published, Restored

(* A step of start(), of the GLib thread or of the radio.                  *)
LEMMA OfferElsewhere ==
  ASSUME Offer, UNCHANGED <<state, pc, todo>>, LateSessions',
         Published => Published', Restored => Restored'
  PROVE  Offer'
  BY DEF Offer, Aborted, Unoccupied, Progress, InSession

LEMMA OfferStroll ==
  ASSUME TypeOK, Offer, Stroll
  PROVE  Offer'
<1> USE DEF MainGoto
<1>1. UNCHANGED <<state, pc, todo, listening>>
  BY DEF Stroll, Begin, Probe, Configure, SkipGroupAdd, CreateUxPlay, RunForever,
         StartUxPlay, GroupAddIsLate
<1>2. LateSessions'
  BY DEF Offer, LateSessions, Stroll, Begin, Probe, Configure, SkipGroupAdd, CreateUxPlay,
         RunForever, StartUxPlay, GroupAddIsLate
<1>3. Published => Published'
  BY DEF Published, Stroll, Begin, Probe, Configure, PublishWfdIes, SkipGroupAdd, CreateUxPlay,
         RunForever, StartUxPlay, GroupAddIsLate
<1>4. Restored => Restored'
  BY DEF Restored, Stroll, Begin, Probe, Configure, SkipGroupAdd, CreateUxPlay,
         RunForever, StartUxPlay, GroupAddIsLate
<1> QED  BY <1>1, <1>2, <1>3, <1>4, OfferElsewhere

LEMMA OfferServe ==
  ASSUME TypeOK, Offer, NEW t \in {"main", "glib"}, Services(t), ~Exit
  PROVE  Offer'
<1>1. UNCHANGED <<state, pc, todo, ies, uxplay>>
  BY DEF Services, NameGroup, NoGroup, StartNetwork, StartNetworkRaises, Listen, ListenRaises,
         ReadWifi, GotoOn
<1>2. \/ main' = main /\ main \in {"starting", "joined"}
      \/ main = "naming" /\ main' = "serving" /\ UNCHANGED listening
      \/ main = "serving" /\ main' = "listening" /\ UNCHANGED listening
      \/ main = "listening" /\ main' = "reading"
      \/ main = "reading" /\ main' = "creating" /\ UNCHANGED listening
  BY DEF TypeOK, Services, NameGroup, NoGroup, StartNetwork, StartNetworkRaises, Listen,
         ListenRaises, ReadWifi, GotoOn, At
<1>3. LateSessions'
  BY <1>1, <1>2 DEF Offer, LateSessions
<1>4. (Published => Published') /\ (Restored => Restored')
  BY <1>1, <1>2 DEF Published, Restored
<1> QED  BY <1>1, <1>3, <1>4, OfferElsewhere

LEMMA OfferRadiate ==
  ASSUME TypeOK, Offer, Radiate
  PROVE  Offer'
<1>1. UNCHANGED <<state, pc, todo, ies, uxplay, listening>>
      /\ (main' = main \/ (main = "grouping" /\ main' = "naming"))
  BY DEF Radiate, NewGroup, GroupEnds, AskPin
<1>2. LateSessions'
  BY <1>1 DEF Offer, LateSessions
<1>3. (Published => Published') /\ (Restored => Restored')
  BY <1>1 DEF Published, Restored
<1> QED  BY <1>1, <1>2, <1>3, OfferElsewhere

(* A session that is not there yet moves, or is gone before it began.      *)
LEMMA OfferArrives ==
  ASSUME TypeOK, Offer, UNCHANGED <<state, todo, ies, uxplay, main, listening>>,
         NEW s \in Sessions, NEW place \in {"off", "authorized", "dialing", "opened"},
         pc[s] \in {"off", "authorized", "dialing", "opened"}, pc' = [pc EXCEPT ![s] = place],
         main \in {"reading", "creating", "looping", "starting", "joined"}
  PROVE  Offer'
<1>1. LateSessions'
  BY DEF LateSessions
<1>2. (Published <=> Published') /\ (Restored <=> Restored')
  BY DEF Published, Restored
<1>3. \A v \in Sessions : /\ InSession(v)' <=> InSession(v)
                          /\ pc'[v] = "aborted" <=> pc[v] = "aborted"
  BY DEF TypeOK, InSession
<1>4. Unoccupied' <=> Unoccupied
  BY <1>2, <1>3 DEF Aborted, Unoccupied
<1>5. ASSUME NEW v \in Sessions, Progress(v) PROVE Progress(v)'
  BY <1>2, <1>5 DEF Progress, TypeOK
<1> QED  BY <1>1, <1>4, <1>5 DEF Offer

LEMMA OfferLists ==
  /\ EnterMiracast = <<"PAUSE_AIRPLAY_ADVERTISING", "PAUSE_MIRACAST_DISCOVERY">>
  /\ Tail(EnterMiracast) = <<"PAUSE_MIRACAST_DISCOVERY">>
  /\ Tail(<<"PAUSE_MIRACAST_DISCOVERY">>) = <<>>
  /\ Head(EnterMiracast) = "PAUSE_AIRPLAY_ADVERTISING"
  /\ Head(<<"PAUSE_MIRACAST_DISCOVERY">>) = "PAUSE_MIRACAST_DISCOVERY"
  /\ Head(LeaveMiracast) = "STOP_RENDER_PIPELINE"
  /\ Head(Tail(LeaveMiracast)) = "RESUME_AIRPLAY_ADVERTISING"
  /\ Tail(Tail(LeaveMiracast)) = <<"RESUME_MIRACAST_DISCOVERY", "SHOW_IDLE_SCREEN">>
  /\ Head(<<"RESUME_MIRACAST_DISCOVERY", "SHOW_IDLE_SCREEN">>) = "RESUME_MIRACAST_DISCOVERY"
  /\ Tail(<<"RESUME_MIRACAST_DISCOVERY", "SHOW_IDLE_SCREEN">>) = <<"SHOW_IDLE_SCREEN">>
  /\ Head(<<"SHOW_IDLE_SCREEN">>) = "SHOW_IDLE_SCREEN"
  /\ Tail(<<"SHOW_IDLE_SCREEN">>) = <<>>
  /\ Tail(<<"LOG_REJECTED_CONNECTION">>) = <<>>
  /\ EnterMiracast # <<>> /\ LeaveMiracast # <<>> /\ Tail(LeaveMiracast) # <<>>
  BY DEF EnterMiracast, LeaveMiracast

(* A session moves within its time, alone.                                 *)
LEMMA OfferAlone ==
  ASSUME TypeOK, Offer, OneAtATime, OneAtATime', NEW s \in Sessions,
         UNCHANGED <<main, listening>>,
         NEW place, pc' = [pc EXCEPT ![s] = place],
         pc[s] \notin {"off", "died", "aborted"},
         InSession(s) \/ InSession(s)',
         \A v \in Sessions \ {s} : todo'[v] = todo[v],
         state' # "AIRPLAY", Progress(s)', InSession(s)' \/ Unoccupied'
  PROVE  Offer'
<1>1. LateSessions'
  BY DEF Offer, LateSessions
<1>2. \A v \in Sessions \ {s} : pc'[v] = pc[v]
  BY DEF TypeOK
<1>3. \A v \in Sessions \ {s} : ~InSession(v)'
  BY <1>2 DEF OneAtATime, InSession
<1>5. \A v \in Sessions \ {s} : Progress(v)'
  BY <1>3 DEF InSession, Progress
<1>6. InSession(s)' => Unoccupied'
  BY DEF Unoccupied
<1> QED  BY <1>1, <1>5, <1>6 DEF Offer

LEMMA OfferSession ==
  ASSUME TypeOK, Offer, OneAtATime, OneAtATime', NEW s \in Sessions,
         SessionStep(s) \/ Disconnect(s)
  PROVE  Offer'
<1> USE DEF OnlySession, Goto
<1>1. CASE NotAlreadyPresenting(s) \/ Dial(s)
  <2>1. main \in {"reading", "creating", "looping", "starting", "joined"}
    BY <1>1 DEF NotAlreadyPresenting, Dial, Offer, LateSessions
  <2>2. PICK place \in {"off", "dialing", "opened"} : pc' = [pc EXCEPT ![s] = place]
    BY <1>1 DEF NotAlreadyPresenting, Dial
  <2>3. UNCHANGED <<state, todo, ies, uxplay, main, listening>>
        /\ pc[s] \in {"off", "authorized", "dialing", "opened"}
    BY <1>1 DEF NotAlreadyPresenting, Dial
  <2> QED  BY <2>1, <2>2, <2>3, OfferArrives
<1>2. UNCHANGED <<main, listening>>
  BY TypeSession DEF Ground
<1>3. CASE Connect(s)
  <2>1. pc[s] = "opened" /\ pc' = [pc EXCEPT ![s] = "connecting"] /\ pc'[s] = "connecting"
        /\ state' = Transition(state, "MIRACAST_CONNECTED").next
        /\ todo' = [todo EXCEPT ![s] = Transition(state, "MIRACAST_CONNECTED").actions]
    BY <1>3 DEF Connect, Handle, TypeOK
  <2>2. InSession(s)' /\ ~InSession(s)
    BY <2>1 DEF InSession
  <2>3. CASE state = "IDLE"
    <3>1. state' = "MIRACAST" /\ todo'[s] = EnterMiracast
      BY <2>1, <2>3 DEF Transition, To, TypeOK
    <3>2. Progress(s)'
      BY <2>1, <3>1 DEF Progress
    <3> QED  BY <1>2, <2>1, <2>2, <3>1, <3>2, OfferAlone DEF TypeOK
  <2>4. CASE state = "MIRACAST"
    <3>1. state' = "MIRACAST" /\ todo'[s] = <<"LOG_REJECTED_CONNECTION">>
      BY <2>1, <2>4 DEF Transition, To, Rejected, TypeOK
    <3>2. Progress(s)'
      BY <2>1, <3>1 DEF Progress
    <3> QED  BY <1>2, <2>1, <2>2, <3>1, <3>2, OfferAlone DEF TypeOK
  <2> QED  BY <2>3, <2>4 DEF Offer, TypeOK, States
<1>4. CASE Disconnect(s)
  <2>1. pc[s] = "pumping" /\ pc' = [pc EXCEPT ![s] = "closing"] /\ pc'[s] = "closing"
        /\ state' = Transition(state, "MIRACAST_DISCONNECTED").next
        /\ todo' = [todo EXCEPT ![s] = Transition(state, "MIRACAST_DISCONNECTED").actions]
    BY <1>4 DEF Disconnect, Handle, TypeOK
  <2>2. InSession(s)'
    BY <2>1 DEF InSession
  <2>3. state = "MIRACAST"
    BY <2>1 DEF Offer, Progress
  <2>4. state' = "IDLE" /\ todo'[s] = LeaveMiracast
    BY <2>1, <2>3 DEF Transition, To, TypeOK
  <2>5. Progress(s)'
    BY <2>1, <2>4 DEF Progress
  <2> QED  BY <1>2, <2>1, <2>2, <2>4, <2>5, OfferAlone DEF TypeOK
<1>5. CASE PauseRaises(s) \/ ResumeRaises(s)
  <2>1. PICK place \in {"died", "aborted"} : pc' = [pc EXCEPT ![s] = place]
    BY <1>5 DEF PauseRaises, ResumeRaises
  <2>2. /\ InSession(s) /\ todo' = [todo EXCEPT ![s] = <<>>] /\ state' = state
        /\ pc[s] \in {"connecting", "closing"} /\ Progress(s)
    BY <1>5 DEF PauseRaises, ResumeRaises, Pending, InSession, Offer
  <2>3. pc'[s] = place /\ pc[s] \notin {"off", "died", "aborted"}
    BY <2>1, <2>2 DEF TypeOK
  <2>4. CASE PauseRaises(s)
    <3>1. state' = "MIRACAST"
      BY <2>2, <2>4, OfferLists DEF PauseRaises, Pending, Progress
    <3> QED  BY <1>2, <2>1, <2>2, <2>3, <3>1, OfferAlone DEF TypeOK, Progress, Unoccupied
  <2>5. CASE ResumeRaises(s)
    <3>1. uxplay' = "up" /\ pc'[s] = "aborted"
      BY <2>3, <2>5 DEF ResumeRaises, TypeOK
    <3>2. Unoccupied'
      BY <3>1 DEF Unoccupied, Restored, Aborted
    <3> QED  BY <1>2, <2>1, <2>2, <2>3, <3>2, OfferAlone DEF TypeOK, Progress, Offer
  <2> QED  BY <1>5, <2>4, <2>5
<1>6. CASE TurnUxPlay(s) \/ SetSessionAvailable(s) \/ StopPaintOrLog(s)
  <2>1. /\ pc[s] \in {"connecting", "closing"} /\ todo[s] # <<>> /\ pc' = pc /\ state' = state
        /\ todo' = [todo EXCEPT ![s] = Tail(todo[s])] /\ todo'[s] = Tail(todo[s])
    BY <1>6 DEF TurnUxPlay, SetSessionAvailable, StopPaintOrLog, Pending, Carried, TypeOK
  <2>2. InSession(s)' /\ pc' = [pc EXCEPT ![s] = pc[s]]
    BY <2>1 DEF InSession, TypeOK
  <2>3. Progress(s)'
    <3>1. Progress(s)
      BY DEF Offer
    <3>2. CASE pc[s] = "connecting"
      BY <2>1, <3>1, <3>2, OfferLists DEF Progress
    <3>3. CASE pc[s] = "closing"
      <4>1. CASE todo[s] = LeaveMiracast
        BY <2>1, <3>1, <3>3, <4>1 DEF Progress
      <4>2. CASE todo[s] = Tail(LeaveMiracast)
        <5>1. uxplay' = "up"
          BY <1>6, <4>2, OfferLists DEF TurnUxPlay, SetSessionAvailable, StopPaintOrLog, Pending
        <5> QED  BY <2>1, <3>1, <3>3, <4>2, <5>1, OfferLists DEF Progress, Restored
      <4>3. CASE todo[s] = <<"RESUME_MIRACAST_DISCOVERY", "SHOW_IDLE_SCREEN">> /\ Restored
        <5>1. ies' = WfdIes(TRUE) /\ uxplay' = uxplay
          BY <1>6, <4>3, OfferLists
             DEF TurnUxPlay, SetSessionAvailable, StopPaintOrLog, Pending, PublishWfdIes
        <5>2. Published' /\ Restored'
          BY <1>2, <4>3, <5>1 DEF Published, Restored
        <5> QED  BY <2>1, <3>1, <3>3, <4>3, <5>2, OfferLists DEF Progress
      <4>4. CASE todo[s] = <<"SHOW_IDLE_SCREEN">> /\ Restored /\ Published
        <5>1. UNCHANGED <<ies, uxplay>>
          BY <1>6, <4>4, OfferLists DEF TurnUxPlay, SetSessionAvailable, StopPaintOrLog, Pending
        <5>2. Published' /\ Restored'
          BY <1>2, <4>4, <5>1 DEF Published, Restored
        <5> QED  BY <2>1, <3>1, <3>3, <4>4, <5>2, OfferLists DEF Progress
      <4> QED  BY <2>1, <3>1, <3>3, <4>1, <4>2, <4>3, <4>4 DEF Progress
    <3> QED  BY <2>1, <3>2, <3>3
  <2> QED  BY <1>2, <2>1, <2>2, <2>3, OfferAlone DEF TypeOK, Offer
<1>7. CASE Dispatched(s)
  <2>1. /\ pc[s] \in {"connecting", "closing"} /\ todo[s] = <<>> /\ todo' = todo
        /\ UNCHANGED <<ies, uxplay, state>> /\ InSession(s)
    BY <1>7 DEF Dispatched, InSession
  <2>2. (Published => Published') /\ (Restored => Restored')
    BY <1>2, <2>1 DEF Published, Restored
  <2>3. CASE pc[s] = "connecting"
    <3>1. pc' = [pc EXCEPT ![s] = "pumping"] /\ pc'[s] = "pumping"
      BY <1>7, <2>3 DEF Dispatched, TypeOK
    <3>2. Progress(s)'
      BY <2>1, <2>3, <3>1 DEF Offer, Progress
    <3>3. InSession(s)'
      BY <3>1 DEF InSession
    <3> QED  BY <1>2, <2>1, <2>3, <3>1, <3>2, <3>3, OfferAlone DEF Offer
  <2>4. CASE pc[s] = "closing"
    <3>1. pc' = [pc EXCEPT ![s] = "off"] /\ pc'[s] = "off"
      BY <1>7, <2>4 DEF Dispatched, TypeOK
    <3>2. Unoccupied'
      <4>1. state = "IDLE" /\ Published /\ Restored
        BY <2>1, <2>4, OfferLists DEF Offer, Progress
      <4> QED  BY <2>1, <2>2, <4>1 DEF Unoccupied
    <3>3. Progress(s)'
      BY <3>1 DEF Progress
    <3> QED  BY <1>2, <2>1, <2>4, <3>1, <3>2, <3>3, OfferAlone DEF Offer
  <2> QED  BY <2>1, <2>3, <2>4
<1> QED  BY <1>1, <1>3, <1>4, <1>5, <1>6, <1>7 DEF SessionStep

LEMMA OfferNext ==
  ASSUME TypeOK, Offer, [Next]_vars, OneAtATime, OneAtATime'
  PROVE  Offer'
<1>1. CASE UNCHANGED vars
  BY <1>1, OfferElsewhere DEF vars, Offer, LateSessions, Published, Restored
<1>2. CASE Stroll
  BY <1>2, OfferStroll
<1>3. CASE Serve
  BY <1>3, OfferServe DEF Serve
<1>4. CASE Crash
  BY <1>4, OfferCrash DEF Crash
<1>5. CASE Radiate
  BY <1>5, OfferRadiate
<1>6. CASE HandleGroupStarted \/ HandleDisplayPin \/ StationAuthorized
  <2>1. UNCHANGED <<state, pc, todo, ies, uxplay, main, listening>>
    BY <1>6 DEF HandleGroupStarted, HandleDisplayPin, Deliver, StationAuthorized
  <2>2. LateSessions' /\ (Published => Published') /\ (Restored => Restored')
    BY <2>1 DEF Offer, LateSessions, Published, Restored
  <2> QED  BY <2>1, <2>2, OfferElsewhere
<1>7. CASE HandleStaAuthorized
  <2>1. /\ UNCHANGED <<state, todo, ies, uxplay, main, listening>>
        /\ main \in {"starting", "joined"}
    BY <1>7 DEF HandleStaAuthorized, Deliver, TypeOK
  <2>2. CASE UNCHANGED pc
    BY <2>1, <2>2, OfferElsewhere DEF Offer, LateSessions, Published, Restored
  <2>3. CASE \E s \in Sessions : pc[s] = "off" /\ pc' = [pc EXCEPT ![s] = "authorized"]
    BY <2>1, <2>3, OfferArrives
  <2> QED  BY <1>7, <2>2, <2>3 DEF HandleStaAuthorized
<1>8. ASSUME NEW s \in Sessions, SessionStep(s) \/ Disconnect(s) PROVE Offer'
  BY <1>8, OfferSession
<1>9. ASSUME NEW s \in Sessions, Accept(s) PROVE Offer'
  BY <1>9, OfferArrives DEF Accept, Goto, Offer, LateSessions
<1> QED  BY <1>1, <1>2, <1>3, <1>4, <1>5, <1>6, <1>7, <1>8, <1>9, Steps

(* As long as sessions do not overlap, a settled castd in IDLE advertises  *)
(* AirPlay again and, unless a session thread died of the RuntimeError     *)
(* that a source which came before start() was done may run into, Miracast *)
(* too: whatever was killed and restarted, and whichever sessions died     *)
(* before there was a UxPlay or were rejected behind them.                 *)
THEOREM OneByOneTheRoomIsOffered == Spec /\ []OneAtATime => []RoomOffered
<1>1. Offer => RoomOffered
  <2> SUFFICES ASSUME Offer, Settled, state = "IDLE",
                      \A s \in Sessions : pc[s] \notin {"connecting", "closing"}
               PROVE  uxplay = "up" /\ (Offered(ies) \/ Aborted)
    BY DEF RoomOffered, Aborted
  <2>1. \A s \in Sessions : ~InSession(s)
    BY DEF Offer, Progress, InSession
  <2>2. uxplay = "up" /\ (ies = WfdIes(TRUE) \/ Aborted)
    BY <2>1 DEF Offer, Unoccupied, Published, Restored, Settled
  <2> QED  BY <2>2, OfferedIffAvailable
<1>2. TypeOK /\ Offer /\ [Next]_vars /\ OneAtATime /\ OneAtATime' => Offer'
  BY OfferNext
<1> QED  BY <1>1, <1>2, OfferInit, TypeCorrect, PTL DEF Spec
=============================================================================
