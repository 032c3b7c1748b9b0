----------------------------- MODULE GroupOwner -----------------------------
(***************************************************************************)
(* The P2P group and what castd needs on it: castd/p2p/dbus_go.py over     *)
(* wpa_supplicant, castd/p2p/group_network.py over ip and dnsmasq.         *)
(*                                                                         *)
(* Groups are numbered as wpa_supplicant creates them.  The number of a    *)
(* group stands for its interface (p2p-wlan1-N), its object path, its SSID *)
(* and its passphrase, which are all new in every group; 0 stands for none *)
(* of them, Python's None included.  wpa_supplicant outlives castd; castd's*)
(* end of the bus, its caches and its dnsmasq do not.                      *)
(*                                                                         *)
(* A failure of a D-Bus call or of ip is one that the state explains: the  *)
(* group meant is not the live one.  Calls that fail out of nothing appear *)
(* in the start-up only (CastStart).                                       *)
(***************************************************************************)
EXTENDS WfdIe

CONSTANTS
  MaxGroups,   \* bound on the groups wpa_supplicant ever creates
  MaxPins      \* bound on the PINs it ever generates

VARIABLES
  group,       \* wpa_supplicant: the live group
  born,        \* wpa_supplicant: the groups created so far
  ies,         \* wpa_supplicant: its WFDIEs property, <<>> before the first Set
  asked,       \* wpa_supplicant: the PINs generated so far
  pending,     \* the last PIN the live group asked castd to display
  armed,       \* the PIN the live group's WPS registrar is armed with
  address,     \* the interface that has SINK_IP
  subscribed,  \* castd has registered its signal receivers
  signals,     \* the signals queued on castd's connection
  ifacePath,   \* _group_iface_path
  credentials, \* _group_credentials
  dnsmasq      \* the interface castd's dnsmasq serves

supplicant == <<group, born, asked, pending, armed>>
bus == <<subscribed, signals>>
caches == <<ifacePath, credentials>>
network == <<address, dnsmasq>>

Groups == 0 .. MaxGroups
Pins == 0 .. MaxPins

Started(g) == [type |-> "GroupStarted", of |-> g]
DisplayPin(p) == [type |-> "DisplayPin", of |-> p]
StaAuthorized == [type |-> "StaAuthorized", of |-> 0]
Signals == {Started(g) : g \in 1 .. MaxGroups} \cup {DisplayPin(p) : p \in 1 .. MaxPins}
             \cup {StaAuthorized}

GroupInit ==
  /\ group \in {0, 1} /\ born = group
  /\ ies = <<>>
  /\ asked = 0 /\ pending = 0 /\ armed = 0
  /\ address = 0
  /\ subscribed = FALSE /\ signals = <<>>
  /\ ifacePath = 0 /\ credentials = 0
  /\ dnsmasq = 0

\* Nobody hears a signal that is emitted before __init__ has subscribed.
Emit(signal) == signals' = IF subscribed THEN Append(signals, signal) ELSE signals

-----------------------------------------------------------------------------
(* wpa_supplicant and the radio.                                           *)

NewGroup ==
  /\ born < MaxGroups /\ group = 0
  /\ group' = born + 1 /\ born' = born + 1
  /\ pending' = 0 /\ armed' = 0
  /\ Emit(Started(born + 1))
  /\ UNCHANGED <<ies, asked, network, subscribed, caches>>

(* The interface goes and takes its address along.  GroupFinished is only  *)
(* logged.  The bound leaves one more group to create.                     *)
GroupEnds ==
  /\ group # 0 /\ born < MaxGroups
  /\ group' = 0 /\ pending' = 0 /\ armed' = 0 /\ address' = 0
  /\ UNCHANGED <<born, ies, asked, bus, caches, dnsmasq>>

(* A peer asks for the PIN: it is a new one each time.                     *)
AskPin ==
  /\ group # 0 /\ asked < MaxPins
  /\ asked' = asked + 1
  /\ Emit(DisplayPin(asked + 1))
  /\ pending' = IF subscribed THEN asked + 1 ELSE pending
  /\ UNCHANGED <<group, born, ies, armed, network, subscribed, caches>>

-----------------------------------------------------------------------------
(* P2PGroupOwner.                                                          *)

PublishWfdIes(available) == ies' = WfdIes(available)

\* _group_interface_object: the captured path, or a look at what is there.
Registrar == IF ifacePath # 0 THEN ifacePath ELSE group

\* _read_group_credentials, of a group object that may be gone.
ReadCredentials(g) == IF g # 0 /\ g = group THEN g ELSE 0

GetGroupCredentials == IF credentials # 0 THEN credentials ELSE ReadCredentials(Registrar)

(* _handle_group_started, up to its callback.                              *)
CaptureGroupPathKept(g) ==
  /\ ifacePath' = IF ifacePath = 0 THEN g ELSE ifacePath
  /\ credentials' = ReadCredentials(g)

CaptureGroupCredentialsKept(g) ==
  /\ ifacePath' = g
  /\ credentials' = IF credentials = 0 THEN ReadCredentials(g) ELSE credentials

CaptureGroup(g) ==
  /\ ifacePath' = g
  /\ credentials' = ReadCredentials(g)

(* authorize_display_pin; its failure is swallowed.                        *)
AuthorizeDisplayPin(p) ==
  armed' = IF Registrar # 0 /\ Registrar = group THEN p ELSE armed

-----------------------------------------------------------------------------
(* GroupNetwork.start.                                                     *)

ServingAnywhere(i) == dnsmasq # 0
Serving(i) == dnsmasq = i

(* The old dnsmasq is stopped before ip is asked: when the interface is    *)
(* gone the caller gets CalledProcessError and there is no dnsmasq.        *)
NetworkStart(i) ==
  \/ Serving(i) /\ UNCHANGED network
  \/ ~Serving(i) /\ i = group /\ dnsmasq' = i /\ address' = i

NetworkStartRaises(i) ==
  /\ ~Serving(i) /\ i # group
  /\ dnsmasq' = 0 /\ UNCHANGED address

-----------------------------------------------------------------------------
(* castd is gone: with it its connection, its caches and, with its control *)
(* group, its dnsmasq.  The address and the published IEs stay.            *)
CastdGone ==
  /\ subscribed' = FALSE /\ signals' = <<>>
  /\ ifacePath' = 0 /\ credentials' = 0 /\ dnsmasq' = 0
  /\ pending' = 0
  /\ UNCHANGED <<group, born, ies, asked, armed, address>>

GroupTypeOK ==
  /\ group \in Groups /\ born \in Groups /\ asked \in Pins
  /\ pending \in Pins /\ armed \in Pins
  /\ ies \in {<<>>, WfdIes(TRUE), WfdIes(FALSE)}
  /\ subscribed \in BOOLEAN /\ signals \in Seq(Signals)
  /\ ifacePath \in Groups /\ credentials \in Groups
  /\ address \in Groups /\ dnsmasq \in Groups
=============================================================================
