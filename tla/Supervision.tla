---------------------------- MODULE Supervision ----------------------------
(***************************************************************************)
(* The two watchdogs over time: systemd's over castd (castd.service, the   *)
(* heartbeat thread of main.py, sdnotify.py, the exit on a bad             *)
(* receiver.conf), and castd's own over the stream of a session            *)
(* (_stream_watch_loop over StreamWatchdog).  Time passes in Tick; every   *)
(* timer is relative and is stopped where nothing depends on it any more.  *)
(*                                                                         *)
(* A session is "shaking" from the transition to MIRACAST until its        *)
(* pipeline runs.  A trip of the stream watchdog closes its socket and     *)
(* does no more: the session is over when its thread notices, at the next  *)
(* message or when its recv times out.  What takes a few statements, or the*)
(* seconds of a teardown, takes no time here: a tick of the stream watch is*)
(* one step.  Its interleavings, the teardown and the re-rolls of the      *)
(* pipeline are in CastDaemon.                                             *)
(***************************************************************************)
EXTENDS RoomConfig, StreamWatchdog

CONSTANTS
  Files,          \* the receiver.conf files there may be
  HeartbeatSec,   \* interval_s of _watchdog_heartbeat_loop
  WatchdogSec, RestartSec, StartLimitIntervalSec, StartLimitBurst,  \* castd.service
  BringUpSec,     \* bound on what start() takes
  IntervalSec,    \* interval_s of _stream_watch_loop
  HandshakeSec,   \* a handshake takes at least this
  KeepaliveSec,   \* keepalive_timeout of run_steady_state
  Late,           \* bound on how late a sleeping thread wakes up
  Env             \* what goes wrong: "send", "bringup", "unreadable", "recreated"

(* Seconds are whole, and the heartbeat, as late as it may be, is in time.  *)
ASSUME TimingAssumption ==
  /\ {HeartbeatSec, WatchdogSec, RestartSec, StartLimitIntervalSec, BringUpSec,
      IntervalSec, HandshakeSec, KeepaliveSec, Late, Window} \subseteq Nat
  /\ StartLimitBurst \in Nat \ {0}
  /\ HeartbeatSec + Late < WatchdogSec

VARIABLES
  conf, defect,   \* the file, and whether the group can be brought up: never change
  unit,           \* "waiting", "loading", "bringing", "serving", "failed"
  elapsed,        \* the time unit has been in "waiting" or "bringing"
  begun, starts,  \* systemd's rate limit: the time since its window began, the starts in it
  heart,          \* the heartbeat thread: "none", "beating", "dead"
  sincePing,      \* the time since castd was last heard of
  session,        \* "none", "shaking", "streaming"
  shaken,         \* the time the handshake has taken
  shut, sinceShut,  \* the stream watchdog has closed its socket; the time since then
  running, gate,  \* render.is_running, _render_pipeline_expected
  watch,          \* the StreamWatchdog
  sinceSample,    \* the time since the stream watch thread's last pass
  counter,        \* what it has done since it was last read: "flat", "grown", "restarted"
  linked,         \* the source is still on the group that its session began on
  readable,       \* the counter can be read
  flat,           \* how long it has told of no stream, since a pass last saw an idle room
  stuck           \* how long none has come in under the watchdog's eyes

boot == <<conf, defect>>
systemd == <<unit, elapsed, begun, starts, heart, sincePing>>
stream == <<session, shaken, shut, sinceShut, running, gate, watch, sinceSample, counter, linked,
            readable, flat, stuck>>
vars == <<boot, systemd, stream>>

Up == unit \in {"bringing", "serving"}   \* READY=1 has been sent
\* The time the heartbeat thread sleeps between two pings.
BeatSecAtTheDeadline == WatchdogSec
BeatSec == HeartbeatSec

\* The time a stall takes to be noticed, and then to end the session.
Patience == Window + 2 * (IntervalSec + Late)
StallBound == Patience + KeepaliveSec + Late

NoStream ==
  /\ session = "none" /\ shaken = 0 /\ shut = FALSE /\ sinceShut = 0
  /\ running = FALSE /\ gate = FALSE
  /\ watch = Reset /\ sinceSample = 0 /\ counter = "flat"
  /\ linked = TRUE /\ readable = TRUE /\ flat = 0 /\ stuck = 0

Init ==
  /\ conf \in Files /\ defect \in BOOLEAN
  /\ unit = "loading" /\ elapsed = 0 /\ begun = 0 /\ starts = 1
  /\ heart = "none" /\ sincePing = 0
  /\ NoStream
-----------------------------------------------------------------------------
(* systemd, and castd's life under it.                                     *)

(* Whatever ends the process takes all threads and the session along.      *)
Gone ==
  /\ unit' = "waiting" /\ elapsed' = 0 /\ heart' = "none" /\ sincePing' = 0
  /\ session' = "none" /\ shaken' = 0 /\ shut' = FALSE /\ sinceShut' = 0
  /\ running' = FALSE /\ gate' = FALSE
  /\ watch' = Reset /\ sinceSample' = 0 /\ counter' = "flat"
  /\ linked' = TRUE /\ readable' = TRUE /\ flat' = 0 /\ stuck' = 0
  /\ UNCHANGED <<boot, begun, starts>>

(* parse_room_config, then READY=1 and the heartbeat thread, before the    *)
(* group is brought up.                                                    *)
Load ==
  /\ unit = "loading" /\ Accepted(conf)
  /\ unit' = "bringing" /\ elapsed' = 0 /\ heart' = "beating" /\ sincePing' = 0
  /\ UNCHANGED <<boot, begun, starts, stream>>

Refuse == unit = "loading" /\ ~Accepted(conf) /\ Gone

BroughtUp ==
  /\ unit = "bringing" /\ ~defect
  /\ unit' = "serving" /\ elapsed' = 0
  /\ UNCHANGED <<boot, begun, starts, heart, sincePing, stream>>

BringUpFails == unit = "bringing" /\ (defect \/ "bringup" \in Env) /\ Gone

Ping ==
  /\ heart = "beating" /\ sincePing >= BeatSec
  /\ sincePing' = 0
  /\ UNCHANGED <<boot, unit, elapsed, begun, starts, heart, stream>>

(* notify raises OSError: the thread is gone, and nothing else notices.    *)
PingRaises ==
  /\ "send" \in Env
  /\ heart = "beating" /\ sincePing >= BeatSec
  /\ heart' = "dead"
  /\ UNCHANGED <<boot, unit, elapsed, begun, starts, sincePing, stream>>

Kill == Up /\ sincePing >= WatchdogSec /\ Gone

RestartDue == unit = "waiting" /\ elapsed >= RestartSec

RestartForEver ==
  /\ RestartDue
  /\ unit' = "loading" /\ elapsed' = 0
  /\ UNCHANGED <<boot, begun, starts, heart, sincePing, stream>>

(* The window of the rate limit is over, or has room for another start.    *)
Restart ==
  /\ RestartDue
  /\ \/ begun > StartLimitIntervalSec /\ begun' = 0 /\ starts' = 1
     \/ begun <= StartLimitIntervalSec /\ starts < StartLimitBurst
          /\ starts' = starts + 1 /\ UNCHANGED begun
  /\ unit' = "loading" /\ elapsed' = 0
  /\ UNCHANGED <<boot, heart, sincePing, stream>>

StartLimitHit ==
  /\ RestartDue /\ begun <= StartLimitIntervalSec /\ starts >= StartLimitBurst
  /\ unit' = "failed" /\ elapsed' = 0
  /\ UNCHANGED <<boot, begun, starts, heart, sincePing, stream>>
-----------------------------------------------------------------------------
(* A session and its stream.                                               *)

Shake ==
  /\ unit = "serving" /\ session = "none"
  /\ session' = "shaking" /\ shaken' = 0 /\ linked' = TRUE
  /\ UNCHANGED <<boot, systemd, shut, sinceShut, running, gate, watch, sinceSample, counter,
                 readable, flat, stuck>>

Stream ==
  /\ session = "shaking" /\ shaken >= HandshakeSec
  /\ session' = "streaming" /\ shaken' = 0 /\ running' = TRUE /\ gate' = TRUE
  /\ UNCHANGED <<boot, systemd, shut, sinceShut, watch, sinceSample, counter, linked, readable,
                 flat, stuck>>

EndOfSessionPipelineKept ==
  /\ session' = "none" /\ shaken' = 0 /\ shut' = FALSE /\ sinceShut' = 0
  /\ running' = running /\ stuck' = 0

(* The teardown leaves the gate as it is.                                  *)
EndOfSession ==
  /\ session' = "none" /\ shaken' = 0 /\ shut' = FALSE /\ sinceShut' = 0
  /\ running' = FALSE /\ stuck' = 0

Leave ==
  /\ session # "none" /\ EndOfSession
  /\ UNCHANGED <<boot, systemd, gate, watch, sinceSample, counter, linked, readable, flat>>

(* A message, an error or the timeout of recv has woken the thread.        *)
NoticeClosed == shut /\ Leave

PipelineDies ==
  /\ session = "streaming" /\ running' = FALSE /\ stuck' = 0
  /\ UNCHANGED <<boot, systemd, session, shaken, shut, sinceShut, gate, watch, sinceSample,
                 counter, linked, readable, flat>>

(* The group is created anew: the source is off it, the counter starts     *)
(* from zero, and what it had counted is lost.                             *)
Recreate ==
  /\ "recreated" \in Env /\ session # "none" /\ linked
  /\ linked' = FALSE /\ counter' = "restarted" /\ flat' = Window + 1
  /\ UNCHANGED <<boot, systemd, session, shaken, shut, sinceShut, running, gate, watch,
                 sinceSample, readable, stuck>>

Unreadable ==
  /\ "unreadable" \in Env /\ session = "streaming"
  /\ readable' = ~readable /\ stuck' = 0
  /\ UNCHANGED <<boot, systemd, session, shaken, shut, sinceShut, running, gate, watch,
                 sinceSample, counter, linked, flat>>
-----------------------------------------------------------------------------
(* _stream_watch_tick.                                                     *)

SampleDue == unit = "serving" /\ sinceSample >= IntervalSec /\ sinceSample' = 0

WatchNothing ==
  /\ SampleDue /\ session = "none"
  /\ watch' = Reset /\ gate' = FALSE /\ flat' = 0
  /\ UNCHANGED <<boot, systemd, session, shaken, shut, sinceShut, running, counter,
                 linked, readable, stuck>>

WatchGated ==
  /\ SampleDue /\ session # "none"
  /\ ~gate \/ (running /\ ~readable)
  /\ UNCHANGED <<boot, systemd, session, shaken, shut, sinceShut, running, gate, watch,
                 counter, linked, readable, flat, stuck>>

WatchDead ==
  /\ SampleDue /\ session # "none" /\ gate /\ ~running
  /\ watch' = Reset /\ gate' = FALSE /\ shut' = TRUE
  /\ UNCHANGED <<boot, systemd, session, shaken, sinceShut, running, counter, linked, readable,
                 flat, stuck>>

Watching == SampleDue /\ session # "none" /\ gate /\ running /\ readable

WatchAlive ==
  /\ Watching /\ ~Stalled(Observe(watch, counter = "grown"))
  /\ watch' = Observe(watch, counter = "grown") /\ counter' = "flat"
  /\ UNCHANGED <<boot, systemd, session, shaken, shut, sinceShut, running, gate,
                 linked, readable, flat, stuck>>

WatchStalled ==
  /\ Watching /\ Stalled(Observe(watch, counter = "grown"))
  /\ watch' = Reset /\ counter' = "flat" /\ shut' = TRUE
  /\ UNCHANGED <<boot, systemd, session, shaken, sinceShut, running, gate,
                 linked, readable, flat, stuck>>

Sample == WatchNothing \/ WatchGated \/ WatchDead \/ WatchAlive \/ WatchStalled
-----------------------------------------------------------------------------
(* Time.                                                                   *)

UpTo(n, bound) == IF n < bound THEN n + 1 ELSE n

(* Nobody is overdue.                                                      *)
Patient ==
  /\ unit # "loading"
  /\ unit = "waiting" => elapsed < RestartSec
  /\ unit = "bringing" => elapsed < BringUpSec
  /\ Up => sincePing < WatchdogSec
  /\ heart = "beating" => sincePing < BeatSec + Late
  /\ unit = "serving" => sinceSample < IntervalSec + Late
  /\ shut => sinceShut < KeepaliveSec + Late

(* One unit of time, in which a stream has come in or not: a live mirror   *)
(* always sends more than min_bytes_per_sample in an interval.             *)
Tick(arrives) ==
  /\ Patient
  /\ arrives => session = "streaming" /\ linked
  /\ elapsed' = IF unit \in {"waiting", "bringing"} THEN elapsed + 1 ELSE elapsed
  /\ begun' = IF unit = "failed" THEN begun ELSE UpTo(begun, StartLimitIntervalSec + 1)
  /\ sincePing' = IF Up THEN sincePing + 1 ELSE sincePing
  /\ shaken' = IF session = "shaking" THEN UpTo(shaken, HandshakeSec) ELSE shaken
  /\ sinceShut' = IF shut THEN sinceShut + 1 ELSE sinceShut
  /\ watch' = Older(watch)
  /\ sinceSample' = IF unit = "serving" THEN sinceSample + 1 ELSE sinceSample
  /\ counter' \in IF ~arrives THEN {counter}
                  ELSE IF counter = "restarted" THEN {"restarted", "grown"} ELSE {"grown"}
  /\ flat' = IF (arrives /\ counter' = "grown") \/ unit # "serving" THEN 0
             ELSE UpTo(flat, Window + 1)
  /\ stuck' = IF arrives \/ ~(session = "streaming" /\ running /\ gate /\ readable)
              THEN 0 ELSE UpTo(stuck, StallBound + 1)
  /\ UNCHANGED <<boot, unit, starts, heart, session, shut, running, gate, linked, readable>>

Advance == \E arrives \in BOOLEAN : Tick(arrives)

Defective == defect /\ BringUpFails

Systemd == Load \/ Refuse \/ BroughtUp \/ Defective \/ Ping \/ Kill \/ Restart \/ StartLimitHit

Environment == \/ PingRaises \/ BringUpFails
               \/ Shake \/ Stream \/ Leave \/ PipelineDies \/ Recreate \/ Unreadable

Next == Systemd \/ Sample \/ NoticeClosed \/ Advance \/ Environment

Spec == Init /\ [][Next]_vars

(* Time passes, systemd does what it is told, threads run.                 *)
FairSpec ==
  /\ Spec /\ WF_vars(Advance) /\ WF_vars(Systemd)
  /\ WF_vars(Sample) /\ WF_vars(NoticeClosed)
-----------------------------------------------------------------------------
(* Every variable has its type, and castd is heard of, has a heartbeat or  *)
(* serves a session only where it is up.                                   *)
TypeOK ==
  /\ conf \in Files /\ defect \in BOOLEAN
  /\ unit \in {"waiting", "loading", "bringing", "serving", "failed"}
  /\ elapsed \in Nat /\ begun \in 0 .. StartLimitIntervalSec + 1 /\ starts \in 1 .. StartLimitBurst
  /\ heart \in {"none", "beating", "dead"} /\ sincePing \in 0 .. WatchdogSec
  /\ session \in {"none", "shaking", "streaming"} /\ shaken \in 0 .. HandshakeSec
  /\ shut \in BOOLEAN /\ sinceShut \in 0 .. KeepaliveSec + Late
  /\ running \in BOOLEAN /\ gate \in BOOLEAN
  /\ watch \in [seen : BOOLEAN, quiet : 0 .. Window + 1]
  /\ sinceSample \in 0 .. IntervalSec + Late
  /\ counter \in {"flat", "grown", "restarted"} /\ linked \in BOOLEAN /\ readable \in BOOLEAN
  /\ flat \in 0 .. Window + 1 /\ stuck \in 0 .. StallBound + 1
  /\ heart # "none" <=> Up
  /\ session # "none" => unit = "serving" /\ Accepted(conf)
  /\ running => session = "streaming"
  /\ shut => session # "none"

(* A heartbeat thread that runs, late as it may be, never lets systemd's   *)
(* watchdog expire (main.py, _watchdog_heartbeat_loop: a missed tick never *)
(* trips a spurious reboot): only a daemon whose send has failed is killed.*)
NoSpuriousKill == Up /\ sincePing >= WatchdogSec => heart = "dead"

(* A castd that cannot start, because of its receiver.conf or of a group   *)
(* that cannot be brought up, is not started for ever: the unit fails      *)
(* (castd.service, StartLimitBurst).                                       *)
FailingStartsStop == ~Accepted(conf) \/ defect ~> unit = "failed"

(* The flat-line detector closes no session whose stream has come in within  *)
(* the window (stream_watchdog.py), as far as the counter can tell; a      *)
(* stall of a session just before it counts with it.                       *)
LiveSessionKept == [][WatchStalled => flat > Window]_vars

(* The teardown of a session whose pipeline runs but whose stream has      *)
(* stopped begins within the window, two passes of the stream watch thread *)
(* (main.py, _stream_watch_loop) and the timeout of the session thread's   *)
(* recv (session.py, run_steady_state), which closing the socket does not  *)
(* cut short; also when the counter of its interface has started from zero *)
(* meanwhile.                                                              *)
StalledSessionEnds == stuck <= StallBound
=============================================================================
