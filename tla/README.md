# castd in TLA+

castd turns a Raspberry Pi into a meeting-room display for Miracast and
AirPlay. One Python process runs a dozen threads and four kinds of child
processes; whoever connects first has the display. This directory models that
process, checks the models with TLC and proves the central results with TLAPS.

    tlc -workers 2 -config Crowd.cfg MCCastDaemon      # one of the runs
    tlapm CastDaemonProofs.tla                         # one of the proof modules

PROJECT.json lists the runs, the theorems, the source lines behind each
definition, the mutants and the hazards.

## 1. The system

| component | source | state | operations |
|---|---|---|---|
| arbitration table | `fsm/state_machine.py` | `state`: IDLE, MIRACAST, AIRPLAY | `handle(event)`: next state and a list of actions |
| daemon | `main.py` | arbiter, `_active_control_sock`, `_render_pipeline_expected`, `_rtsp_listener`, `_wifi_credentials` | session thread per source, action dispatch, stream watch, cold-start recovery, start-up, callbacks |
| render process | `render/gstreamer.py` | `_proc`, `_first_frame` | `start`, `stop`, `wait_for_first_frame`, drain thread |
| UxPlay process | `airplay/uxplay.py` | `_proc`, `_expect_exit`, tracker per pump | `start`, `stop`, output pump with its callbacks |
| RTSP session | `wfdsink/session.py` | reader's buffer, socket | `next_message`, `negotiate`, `run_steady_state`, dial, listen |
| WFD negotiator | `wfdsink/rtsp.py` | `state`, own CSeq, session parameters | one handler per message M1-M7, keep-alive acknowledgement |
| stream watchdog | `stream_watchdog.py` | last counter, last progress | `observe`, `reset` |
| health | `health.py`, `sdnotify.py`, `castd.service` | published state, last heartbeat | `/health`, sd_notify, systemd restart |
| group owner | `p2p/dbus_go.py` | P2P group of wpa_supplicant, WFD IE, WPS PIN, credentials | configure, start group, authorize PIN, publish availability, D-Bus signals |
| group network | `p2p/group_network.py` | dnsmasq child, address | `start`, lease lookup |
| configuration, WFD IEs, kiosk screen, QR | `config.py`, `p2p/wfd_ie.py`, `render/idle_screen.py`, `render/framebuffer.py`, `airplay/qrcode_wifi.py` | files | pure functions and drawing |

How they interact: wpa_supplicant's StaAuthorized signal, or a connection to
port 7236, starts a *session thread*. It reports MIRACAST_CONNECTED, shakes
hands (M1-M7), starts the render process and a *recovery thread*, and pumps
keep-alives until the source is gone; then it reports MIRACAST_DISCONNECTED.
The *output pump* of UxPlay reports AIRPLAY_CONNECTED and AIRPLAY_DISCONNECTED
from the lines UxPlay prints, and starts UxPlay again after a crash. Each of
these threads computes its transition under a lock and then carries out the
actions of the transition without one: stop the pipeline, pause or resume
UxPlay, publish the availability, paint, publish the health state. The *stream
watch thread* looks at all of that every two seconds and may close the control
socket of the session in progress.

What is hard: the action lists of several threads interleave; every thread
reads the state without the lock and acts on it later; `stop()` waits for
seconds in the middle of an action; children die on their own at any point; a
re-roll of the pipeline races the teardown; MIRACAST_DISCONNECTED does not say
whose session ended; the byte stream of a source can be cut anywhere.

What would make each part correct:

* arbitration: one owner at a time, taken by the first, freed by a departure
  of its protocol; never left behind by nobody;
* daemon: a complete teardown, a display that belongs to the owner alone, a
  guarded stream, a watchdog that does not fire on a healthy handshake;
* processes: at most one pipeline, UxPlay back after a crash;
* RTSP: no message lost, doubled or halved, both ends agree on what was
  negotiated, no standoff, an end in every case;
* start-up and group owner: castd comes up whatever it finds, and the address,
  the DHCP server, the credentials and the WPS registrar follow the live group
  when it is replaced; the room is offered exactly when it is free;
* supervision: no kill and no teardown of what is alive, an end to what is
  stalled, no endless restarts of what cannot start.

## 2. The modules

**CastArbiter** is the table: no variables, one operator `Transition(st, ev)`
and the action lists by name.

**Arbitration** is the abstract specification: `owner` and the set `engaged` of
actors that joined and have not left. The first to join a free room takes it
for its protocol; the departure of any actor of the owner protocol frees it (it
is the protocol that owns the room: the code's event carries no session); a
client may vanish with its UxPlay, and castd may reclaim a room from an UxPlay
it finds dead.

**CastDaemon** is the running daemon. A thread is an element of `Sessions`,
`Recoveries` or `UxPlays` (a UxPlay instance and its pump share a name), plus
the stream watch thread. `pc` says where each thread is, with one place per
point where the code can block or touches shared state; `todo` is the part of
its action list that is still to be carried out; `waitFor` the child its
`stop()` waits for; `told` the state it has read for `/health` and not handed
over. A step ends where a thread can block and between two accesses to shared
variables: a tick of the stream watch is up to six steps, a re-roll five, and a
`stop()` that waits looks at `_proc` again before it waits, kills or returns,
so it can go over to another child or raise. The header of the module lists the
few adjacent statements that are one step. Correspondence:

| code | model |
|---|---|
| `arbiter.state`, `health._state`, WFD availability | `state`, `health`, `avail` |
| `render._proc`, `_first_frame`; `uxplay._proc`, `_expect_exit` | `proc`, `firstFrame`; `uxProc`, `expectExit` |
| `Popen.poll()` of every child ever started | `life` |
| `_active_control_sock`, `sock.close()` | `activeSock`, `sockOpen` |
| `_render_pipeline_expected` | `expected` |
| lines in UxPlay's pipe, the tracker's "some client" | `unread`, `tracked` |
| `_run_source_session`, `handle_miracast_connected` | `Open` ... `Leave`, places `opened` ... `leaving` |
| `_apply_actions` | `Dispatch` and its parts |
| `_recover_render_cold_start` | `RecoveryWait` ... `RecoveryRearm` |
| `_pump_output`, `_on_airplay_*`, `_on_uxplay_exited` | `ReadLine` ... `Relaunch` |
| `_stream_watch_tick` | `WatchState`, `WatchLower`, `WatchGate`, `WatchAlive` |
| `_trip_stream_watchdog` | `WatchTrip` (reads the socket), `WatchClose` |
| an exception nobody catches | `Raise` and the actions ending in `Raises` |

A session thread that dies of an exception nobody catches stays in place
`died` (from its MIRACAST_CONNECTED on: `render.start()`, or a `stop()` whose
`_proc` another thread dropped) or `aborted` (after its
MIRACAST_DISCONNECTED, in the middle of its list: mostly `uxplay.start()`).
Painting and logging change
nothing modelled. The initial state is the one in which `start()` ends.

**RtspSession** is one control connection seen from both ends. Messages travel
as pieces (first line, headers, blank line, body), so that `RtspReader` is
modelled by what it does: find the first blank line, add the body's length,
wait until that much is there, and at the end of the stream return whatever is
left. A flawed message lacks what the handler looks for (CSeq; server_port and
Session in the response to SETUP; 200 OK in the response to PLAY). The source
is external: it sends the handshake in the order of the protocol, each message
as soon as it has what it waits for, then keep-alives or the teardown trigger,
and may stop or close at any piece. Not modelled: a source that leaves the
order of the handshake, the text of the capability body, the UIBC port.

**WfdIe** is the encoder of the two WFD subelements castd publishes, as byte
sequences, and the reader of a source: the walk over the subelements and the
two-bit availability field, from the layout quoted at the head of `wfd_ie.py`.

**GroupOwner** is the P2P group. A group is a number that stands for everything
that is new in each group: interface name, object path, SSID, passphrase. On the
side of wpa_supplicant (external, it outlives castd): `group`, `born`, `ies`,
the PINs `asked` and `armed`. On the side of castd: `subscribed` and the queue
`signals`, the caches `ifacePath` and `credentials`, and what GroupNetwork set
up (`address`, `dnsmasq`). A call fails when the state explains it: the group
it is about is not the live one.

**CastStart** composes it with the start of the daemon and with the table.

| code | model |
|---|---|
| `CastDaemon.start()`, one place per point where it can fail or be overtaken | `main`, `Begin` ... `StartUxPlay` |
| `_ensure_group_services` and the credentials, called on two threads | `Services(t)`, `t` being "main" or "glib" |
| `run_forever`, `_handle_group_started`, `_handle_display_pin_request`, `_handle_sta_authorized` | `glib`, `HandleGroupStarted`, `HandleDisplayPin`, `HandleStaAuthorized` |
| `_connect_to_authorized_source`, `_accept_sources_loop`, the session thread | `SessionStep`, `Accept`; of the actions, those on UxPlay and the IEs |
| an exception on the main thread, a kill | `Exit`: castd's side is lost, wpa_supplicant's stays |

It abstracts from CastDaemon what start-up does not touch (pipelines, AirPlay
clients, crashes of UxPlay), and CastDaemon begins where its `start()` ends.

**RoomConfig** is `parse_room_config`: every check in its order, and the WPS
checksum. **StreamWatchdog** is `StreamWatchdog` with a relative clock.

**Supervision** extends both with time. `unit` is systemd's view of castd,
`begun` and `starts` its rate limit; `heart` and `sincePing` the heartbeat
thread; `session` ... `stuck` a session as the stream watch thread sees it.
`Tick` lets one unit of time pass when nobody is overdue (`Patient`): a thread
that sleeps wakes up at most `Late` after its time. `Load` and `Refuse` are the
two ends of `main()`'s configuration, `WatchNothing` ... `WatchStalled` the five
outcomes of `_stream_watch_tick`. The counter of received bytes is kept as what
it has done since it was last read: nothing, grown, or restarted from zero with
a new interface. A trip closes the socket (`shut`) and nothing else: the
session goes on until its thread gets out of `recv`, at the next message of the
source or after `KeepaliveSec` (`NoticeClosed`), and the watchdog goes on over
it meanwhile. The teardown that follows, the interleavings within a tick and
the re-rolls of the pipeline take no time here; they are in CastDaemon.

**ClientTracker** is `UxPlayClientTracker.feed` as two operators.

**MCCastDaemon**, **MCRtspSession**, **MCCastStart**, **MCSupervision**
instantiate the specifications; **CastDaemonProofs**, **RtspSessionProofs**,
**CastStartProofs**, **SupervisionProofs**, **WfdIeProofs**,
**RoomConfigProofs** and **ClientTracker** have the proofs. A
definition such as `WatchOnlyLogs` next to `WatchClose` is a
mutant: no specification uses it, PROJECT.json pairs it with the property that
must notice it.

## 3. The runs

| run | question | bounds | distinct states |
|---|---|---|---|
| miracast | `RoomRestored`, `SessionEnds` | 1 source (any number of sessions), 2 UxPlay names, 2 pipeline names; crash, stall, failed spawn | 12 k |
| airplay | `AirPlayIsBusy`, `AirPlayComesBack` | 3 UxPlay names, 2 unread lines; crash | 1.9 k |
| recovery | `TypeOK`, `RoomTaken`, `GateUp`, `DeadStreamEnds` | 1 source, 1 recovery thread, 2 re-rolls, 2 pipeline names; crash, frame or no frame | 225 k |
| crowd | `Custody`, `ActiveSockLive`, `ArbitrationKept` | 2 sources, 1 UxPlay, 1 pipeline name, failing D-Bus, long ticks; symmetry, a view | 1.6 M |
| rtsp | `NothingLost`, `WholeMessages`, `Agreement`, `NoStandoff`, `EveryRequestAnswered`, `SessionOver`, `TypeOK` | the 7 messages of the handshake and 2 more | 62 k |
| group | `TypeOK`, `ServicesFollowGroup`, `CredentialsFollowGroup`, `RegistrarArmed`, `RoomOffered`, `CastdComesUp`, `GroupServed` | 2 groups, 2 PINs, 1 session at a time, 2 arrivals, 2 faults | 341 k |
| supervision | `TypeOK`, `NoSpuriousKill`, `StalledSessionEnds`, `FailingStartsStop`, `LiveSessionKept` | one good and six bad files; timers scaled (below) | 311 k |
| second_source, airplay_busy, stale_gate, resurrection, early_source | the disagreements of section 5 | | |

Why the bounds suffice. Names of processes and threads are reused, so sessions
and pipelines follow each other without limit; what is bounded is how many
overlap. Two UxPlay names let a new instance run while the pump of the one
before is still busy, three let a second crash fall into that window. Two
pipeline names are needed for an orphan to exist at all. With one UxPlay name
(recovery, crowd) an instance starts only after the pump of its predecessor
has ended. Two messages after the handshake are a keep-alive that arrives
together with the response to PLAY and one behind it. `Retries` is 2 instead of
3: the last try and one that is not the last. The environment of each run
(`Env`) is chosen by its question; what was left out is what the findings and
the hazards in PROJECT.json are about, and the comments of the properties say
which runs they hold for:

* `RoomRestored` and `RoomTaken` are about settled states (`Quiet`), one source
  and no D-Bus failures; `RoomRestored` for runs in which no thread died, and
  with one source that UxPlay does not crash under (the theorem has the
  crashes); `RoomTaken` without UxPlay crashes: a UxPlay found dead just before
  a session begins is started two seconds later, during it.
* `AirPlayIsBusy` and `AirPlayComesBack` are about a daemon with no source.
  With one, a session's RESUME_MIRACAST_DISCOVERY may be carried out after an
  AirPlay client has taken the room. `AirPlayComesBack` also takes for granted
  that `poll()` sees the exit that ended UxPlay's output: `"lateexit"`, the
  output ending before the process can be reaped (uxplay.py:150-165,
  main.py:223), leaves the room without UxPlay, and TLC shows it.
* `GateUp` and `DeadStreamEnds` hold of ticks that are preempted anywhere but
  not for as long as a handshake takes (a second or more, main.py:308). `fresh`
  remembers the sessions that connected within the current tick, and they do
  not finish their handshake before it. With `"longtick"` this is dropped, and
  a tick that read IDLE (main.py:323) lowers the gate (325) of a session that
  connected, shook hands and raised it (442) in between: 16 steps to a session
  that no watchdog guards. The same is left by a re-roll whose `Popen` fails
  (`"spawnfail"`, main.py:490-494).
* `RoomOffered` makes an exception of a session that died of the RuntimeError of
  `uxplay.start()` before it came to RESUME_MIRACAST_DISCOVERY: it leaves the
  room IDLE with the WFD IE at busy (section 5).
* `NoOrphan` is not checked by a run: with one session and no re-roll only one
  thread calls `RenderProcess`, with a re-roll it is false (finding
  resurrection). It is proved under the conditions of section 4.

In group, two groups are one that castd finds or makes and one that replaces it
(`GroupEnds` needs a number left, so that a group can always come back), two
PINs are one that is armed and one that supersedes it, and two faults are, for
instance, a kill in the middle of a session and a failure of the start after
it. The four properties about the group are about settled states: `start()` is
over and every signal has been handled. `GroupServed` says that they are not
empty promises: a group that lives gets its address, its DHCP server and its
listening socket in the end, from the start-up that finds it or from the handler
of its GroupStarted, unless it ends or castd does.

In supervision the timers keep the order of those of the code, not their size:

| constant | code | run |
|---|---|---|
| `HeartbeatSec`, `WatchdogSec` | 10, 30 | 2, 4 |
| `RestartSec`, `BringUpSec` | 15, not known | 2, 1 |
| `StartLimitIntervalSec`, `StartLimitBurst` | 300, 5 | 9, 3 |
| `IntervalSec`, `Window` | 2, 10 | 2, 3 |
| `HandshakeSec` | 1 to 3 (main.py:308) | 1 |
| `KeepaliveSec` | 60 (session.py:147) | 5 |
| `Late` | not known | 1 |

As in the code a handshake may be shorter than the period of the watch thread,
so that two sessions may fit between two passes; a closed session may linger
for longer than the window, so that the watchdog trips a second time; the bound
of `StalledSessionEnds` is reached (one second less is refuted); and all starts that the limit
allows fit into its interval. That is a condition on castd: a bring-up that
takes 45 s or more before it fails outlasts 300 s in five attempts, and the
limit never strikes. The three timing properties without fairness are proved
for every value of the constants (section 4).

Symmetry is used in crowd only, which checks no liveness, and all sets there
are symmetric in the specification and in the properties. crowd also has a
VIEW, `Decisive`: it leaves out `health`, `avail`, which state a thread is about
to publish and the sockets of sessions on their way out. No guard reads these
and none of the three properties does, so two states with the same view have
the same steps and the same verdicts.

**Fairness.** Each session thread, recovery thread, pump and the watch thread is
weakly fair: they are plain threads and every blocking call in them has a
timeout (handshake 15 s, dial 10 x 5 s, keep-alive 60 s, `wait` 3 s) or waits
for a child. A signalled child dies (SIGTERM, then SIGKILL). A session thread
is *not* assumed to see its source leave: `SourceLeaves` is part of the
environment, `NoticeClosed` is what the thread itself does about a socket that
was closed under it. Nothing is assumed of sources, clients and crashes. In
RtspSession the session thread alone is fair; the timeout of its `recv` is one
of its steps.

In CastStart the main thread, the GLib thread and the session threads are
weakly fair, and systemd starts castd whenever it is down (`Restart=always`);
faults are bounded, so `CastdComesUp` says that castd comes up, and `GroupServed`
that the live group is served, when things stop going wrong. The limit on starts is in Supervision, where time passes, systemd
acts, the heartbeat and the stream watch thread run, and a bring-up fails in
the end when the group has a defect, and the session thread gets out of its
`recv`; nothing is assumed of sources and streams.

Deadlock is checked in CastDaemon (the watch thread ticks for ever). In
RtspSession it is off: a session that is over stops. It is off in CastStart,
which stops when its bounds are used up, and in Supervision, where a unit
that failed stays failed.

## 4. The proofs

`CastDaemonProofs` proves, for all finite or infinite sets of sessions,
recovery threads, UxPlays and pipelines and every environment, from the named
assumptions on the constants alone (the sets of thread and process names are
disjoint, `None` is in none of them, the bounds are natural numbers):

* `TypeCorrect`: `TypeOK` is an invariant. It includes that a thread is only
  in places of its own code, that no pump is ever asked to resume AirPlay, and
  `TriesOK`: a recovery thread that is not off has a try left.
* `CustodyHolds`, `ActiveSockLiveHolds`: two safety properties of run crowd.
* `ArbitrationImplemented`: `Spec => Room!Spec`, the refinement of the same run.

The argument. The refinement mapping is `owner <- state` and `engaged <-` the
sessions between their two events and the UxPlays whose pump counts a client.
Almost every step leaves both alone (`NothingHappens`); `Connect` is `Join`,
`Disconnect` is `Leave`, a line of UxPlay is one or the other, the launch of an
instance makes a counted client `Vanish`, an exit noticed in AIRPLAY is
`Reclaim`. The one step that is not obvious is the session thread that dies of
the RuntimeError of `uxplay.start()`: it must not leave `engaged` silently. The
inductive invariant `Inv` therefore adds `NoResume` (only a session that is past
its MIRACAST_DISCONNECTED has RESUME_AIRPLAY_ADVERTISING on its list) to
`TypeOK`, `ActiveSockLive` and `Custody`. `CustodyStep` then needs nothing but
the abstract steps: whichever source leaves first frees the room, so while it
is in MIRACAST no source has left.

`SupervisionProofs` proves, from `TimingAssumption` alone (the constants are
natural numbers and `HeartbeatSec + Late < WatchdogSec`):

* `TypeCorrect`, with `Sound`: `TypeOK`, only an accepted file brings castd up,
  and without a serving castd nothing is watched.
* `NoSpuriousKillHolds`: by `Beats`, a running heartbeat is never later than it
  can be.
* `LiveSessionIsKept`: by `Told`, the detector's count never exceeds the time
  for which the counter has told of no stream.
* `StalledSessionsEnd`: by `Watched`. A stall is either younger than the last
  pass, or it has been seen: then the detector has its baseline, nothing has
  come in since, and the stall is older than the detector's count by at most the
  one pass that it took to be noticed. So it is at most `Window` and one pass
  old at the last pass, and one more pass closes the socket. From then on it is
  at most `Patience` older than the socket has been closed, whatever the
  detector does after its reset, and `recv` bounds that.

`WfdIeProofs`, for every device type, port and throughput the encoder accepts:
a source reads 0 or 1 in the availability field, never a reserved value
(`AvailabilityIsABit`; an earlier revision of the code sent one), and the port
and throughput that were encoded (`FieldsReadBack`); of the published blob that
its lengths lead from one subelement to the next and to the end
(`BlobIsTwoSubelements`) and that a source takes the room for free exactly when
castd said so (`OfferedIffAvailable`, what `RoomOffered` asks).
`RoomConfigProofs`: a PIN is accepted exactly when it meets the checksum of the
standard, and a PIN with one wrong digit never is. `ClientTracker`: the
tracker's reports are the edges of "a client is counted", which is all that
CastDaemon keeps of it.

The properties of a settled CastDaemon (`RoomRestored`, `RoomTaken`, `GateUp`,
`AirPlayIsBusy`) and `NoOrphan` are not true of every behaviour: the
disagreements of section 5 break them. What is proved is where they do hold.
Each of these theorems names the behaviours it is about by a formula on the
states the code goes through, and holds for any number of threads, processes,
re-rolls and sessions after each other. `OneByOne` says that no two
sessions overlap and no AirPlay client has the room, `Undisturbed` that besides
no pump takes the exit of its UxPlay for a crash, `NoReroll` that no recovery
thread comes to start the pipeline again, `Prompt` that no thread is
about to publish a state that has changed since it read it (main.py:529).

| theorem | hypothesis | without it |
|---|---|---|
| `LockPreventsOrphans`: `NoOrphan` | `[][Locked]_vars`: the calls of `RenderProcess.start` and `stop` do not overlap. The code has no such lock. | resurrection |
| `OneByOneTheStreamIsGuarded`: `GateUp` | `OneByOne`, every gst-launch starts, and no tick of the stream watch outlasts a handshake | second_source; airplay_busy; a re-roll whose gst-launch does not start ends its thread with the gate down (main.py:493); the stale tick of section 3 |
| `OneByOneTheRoomIsTaken`: `RoomTaken` | `Undisturbed`, `Prompt`, and no publish fails on D-Bus | second_source; airplay_busy; a UxPlay found dead is started in the middle of a session (main.py:224); `/health` may show an older state; the swallowed exception leaves discovery as it was |
| `OneByOneTheRoomIsRestored`: `RoomRestored` | `OneByOne`, `NoReroll`, `Prompt`, no publish fails on D-Bus, and no UxPlay is missed by `poll()`; UxPlay may crash at any time | second_source; airplay_busy; resurrection; the older state; the swallowed exception; a crashed UxPlay that is taken for running |
| `OneByOneNoOrphan`: `NoOrphan` | `OneByOne` and `NoReroll` | the same overlaps; resurrection |
| `AloneAirPlayIsBusy`: `AirPlayIsBusy` | no source gets beyond dialling, and no publish fails on D-Bus | a session's late RESUME_MIRACAST_DISCOVERY; the swallowed exception |

The inductive invariants behind them:

* `InStop`, for the lock: `stop()` waits for what `_proc` holds.
* `Gate`: the session in progress has the room and its socket is the one the
  watchdog knows, and while it is streaming the gate is up or some recovery
  thread is still going to put it up (`Covered`), and no tick that has read
  another state, or a dead pipeline, is on its way to lower it. That is the
  whole difficulty of the re-roll: the thread lowers the gate itself, may stop
  a pipeline it did not start, and may belong to an earlier session.
* `Turns`, what sessions in turn keep whatever UxPlay does: the room belongs to
  the one between its two events, the action lists are the known ones
  (`ListsKnown`), a pump only rejects clients or brings UxPlay back and every
  UxPlay that runs has one (`PumpsAside`). The step lemma `TurnsSteps` says that
  whatever is not a step of the session at its list is `Elsewhere`.
* `Course`, for taking: one UxPlay at a time (`OneUxPlay`), and `Taken`: the
  session is as far with its list as the daemon is with what the list asks for.
* `Alone`: only the session that is present waits in `stop()`; so the calls do
  not overlap (`AsIfLocked`) and the theorem of the lock applies.
* `Restored`, for giving back: the same relation for the teardown (`Progress`),
  and with no teardown under way an IDLE room has everything back. A UxPlay
  that crashed counts as back while the pump that has to start it is on its way
  (`UxServes`): it leaves only when it finds another one running, and that one
  has a pump of its own.
* `AirAlone`: only a pump starts the next UxPlay, as its last act, so there is
  one pump at a time and its lists never interleave with another's.

`RtspSessionProofs` proves, for every number of messages, every placing of the
flaws and every way in which TCP cuts the stream, all six safety properties of
run rtsp: `TypeCorrect`, `NothingLostHolds`, `WholeMessagesHolds`,
`AgreementHolds`, `NoStandoffHolds`, `EveryRequestAnsweredHolds`. The invariant
`Inv` relates the two ends. `Arrivals`: what is in the buffer and on the wire
are the pieces of messages in order, from the first piece of one to the last of
the newest. `Behind` and `InStep`: what was read belongs to earlier messages,
and what is coming begins with the one `negotiate()` is waiting for.
`SaidEnough`: castd has said all that the source waits for, which is why
neither end waits for the other. `Trusted`: the handshake is only as far as its
messages were sound. `NothingLost` is stated with a recursive function, the
stream of all that was sent; `StreamInv` carries along that the function exists
and what it is worth at the newest message, from one message to the next, which
takes no induction.

`CastStartProofs` proves from `StartAssumption` (the bounds are natural numbers
and castd can find or make at least one group), for every number of groups,
PINs, restarts, faults and arrivals: `TypeCorrect`, `RegistrarArmedHolds`,
`ServicesFollowGroupHolds`, `CredentialsFollowGroupHolds`. The properties are
about settled states; the invariant says what holds before castd has caught up.
`Announcements` and `Questions`: the queue holds the signals in the order of
the groups and PINs they are about, and while it holds any of a kind it holds
the newest, a PIN behind the announcement of its group. `Captured`: the object
path castd has is that of the live group unless its announcement is still in
the queue. `Following`: a live group that is no longer announced has been
served, or one of the two threads is at a named point of serving it.
`OneByOneTheRoomIsOffered` is `RoomOffered` for behaviours in which no two
sessions overlap (second_source is why), by the relation between the state and
how far the session is with its list; it covers the sessions that died of the
AttributeError of early_source, those that were rejected after them, and those
that were aborted at RESUME, which are the only ones that leave the IE busy.

The hypotheses of the conditional theorems are conditions on behaviours that the
program has: the runs miracast, recovery and group have one source at a time,
airplay has none. Each one is needed: TLC finds the property violated on a small
instance when it is dropped and the others are kept.

Only model-checked: the liveness properties `SessionEnds`, `AirPlayComesBack`,
`DeadStreamEnds`, `SessionOver`, `CastdComesUp`, `GroupServed` and
`FailingStartsStop`, which rest on fairness and on ENABLED, out of the prover's
reach. Every safety property of a passing run is stated by a theorem, those of
the table and `RoomOffered` under their conditions.

## 5. Where the code does not do what its documents say

1. **second_source.** A source the arbiter rejected still sends
   MIRACAST_DISCONNECTED when its session ends, which frees the room of the
   source that is presenting. (README.md:183-185)
2. **airplay_busy.** A source that connects while AirPlay has the room
   negotiates and starts its pipeline on the display. (state_machine.py:55-58)
3. **stale_gate.** The watchdog's gate survives from one session into the
   handshake of the next. (main.py:302-304)
4. **resurrection.** A recovery thread can start a pipeline after the
   teardown. (main.py:465-466, 493)
5. **early_source.** The listener is open before `self.uxplay` exists. A source
   accepted in between ends its thread with an AttributeError and leaves the
   room in MIRACAST. (main.py:267-269)

More that no run is spent on:

* `/health` answers 503 thirty seconds after the last transition, so an idle
  room is unhealthy by README.md:247-249 and by `soak_monitor.sh`.
* The heartbeat thread goes on while the main thread is wedged, which
  main.py:399-400 says is caught (in Supervision `Ping` depends on the heartbeat
  thread alone).
* A session that pauses UxPlay between its creation and its start (main.py:143,
  153), and resumes it after, dies of the RuntimeError of `uxplay.start()`, before its
  RESUME_MIRACAST_DISCOVERY: an IDLE room whose WFD IE says busy, against
  dbus_go.py:272-279 and README.md:184, until the next session ends.
* A re-roll lowers the gate so that the watchdog does not take its restart for
  a death (main.py:488-489). A tick that has read the gate before (327) looks at
  the pipeline after it was stopped (329) and closes the session all the same.
* A tick that outlasts a handshake, and a re-roll whose `Popen` fails, leave a
  session without its watchdog (section 3).
* A thread that is delayed within main.py:529 publishes an old state on
  `/health` over a newer one, until the next transition.
* A UxPlay whose output ends before it can be reaped is taken for running and
  not started again (main.py:223).
* A `stop()` whose `_proc` another `stop()` has dropped raises AttributeError in
  its thread (gstreamer.py:282-288, uxplay.py:172-177). For UxPlay this takes two
  sessions and two UxPlay instances at once, which crowd does not have
  (`PauseAirPlayRaises` is reached by no run of section 3). The theorems of
  `CastDaemonProofs` cover it for all bounds, and a variant of crowd without
  AirPlay clients and with two UxPlay names (1.7 M states) has no error either.

## 6. Not modelled, and the plan

Out of scope: drawing (idle screen, framebuffer, QR code: output that no other
part reads), argv and pipeline descriptions, logging, the shell tools, the HTTP
server itself. Not modelled either: dnsmasq dying on its own and the contents of
its lease file (`find_lease_ip` is one choice of `Dial`), failures of D-Bus
calls on the live group after start-up other than the swallowed one in
CastDaemon, the age of the heartbeat behind `/health`, and the subelements of
`wfd_ie.py` that nothing calls.

What is left of the plan, in its order:

1. Proofs under weaker conditions: `NoOrphan` and `RoomRestored` with re-rolls
   that end before the teardown, `RoomTaken` with a UxPlay that crashes outside
   the two seconds before a session, `AirPlayIsBusy` after sources that have
   left.
2. RenderProcess on its own, with the drain thread's late lines
   (`gstreamer.py:261`).
3. `/health` as an abstract specification over Supervision.
