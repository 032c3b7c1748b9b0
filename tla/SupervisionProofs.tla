-------------------------- MODULE SupervisionProofs --------------------------
(***************************************************************************)
(* Proofs about Supervision, for every value of the timing constants that  *)
(* TimingAssumption admits, every set of configuration files and every     *)
(* environment.                                                            *)
(***************************************************************************)
EXTENDS Supervision, TLAPS

USE DEF boot, systemd, stream, vars

LEMMA Timing ==
  /\ HeartbeatSec \in Nat /\ WatchdogSec \in Nat /\ RestartSec \in Nat
  /\ StartLimitIntervalSec \in Nat /\ BringUpSec \in Nat
  /\ IntervalSec \in Nat /\ HandshakeSec \in Nat /\ KeepaliveSec \in Nat /\ Late \in Nat /\ Window \in Nat
  /\ StartLimitBurst \in Nat /\ StartLimitBurst >= 1
  /\ HeartbeatSec + Late < WatchdogSec
  /\ Patience = Window + 2 * (IntervalSec + Late) /\ Patience \in Nat
  /\ StallBound = Patience + KeepaliveSec + Late /\ StallBound \in Nat
BY TimingAssumption DEF Patience, StallBound

LEMMA Cleared ==
  /\ Reset \in [seen : BOOLEAN, quiet : 0 .. Window + 1]
  /\ Reset.seen = FALSE /\ Reset.quiet = 0
BY Timing DEF Reset

(* What time and a sample do to the detector.                              *)
LEMMA Detector ==
  ASSUME NEW w \in [seen : BOOLEAN, quiet : 0 .. Window + 1], NEW b \in BOOLEAN
  PROVE  /\ Older(w) \in [seen : BOOLEAN, quiet : 0 .. Window + 1]
         /\ Older(w).seen = w.seen
         /\ Older(w).quiet = IF w.seen /\ w.quiet <= Window THEN w.quiet + 1 ELSE w.quiet
         /\ Observe(w, b) \in [seen : BOOLEAN, quiet : 0 .. Window + 1]
         /\ Observe(w, b).seen = TRUE
         /\ Observe(w, b).quiet = IF w.seen /\ ~b THEN w.quiet ELSE 0
<1>1. w.quiet \in Nat /\ w.quiet <= Window + 1
  BY Timing
<1>2. /\ Older(w) = [seen |-> w.seen,
                     quiet |-> IF w.seen /\ w.quiet <= Window THEN w.quiet + 1 ELSE w.quiet]
  BY DEF Older
<1> QED  BY <1>1, <1>2, Timing DEF Observe
-----------------------------------------------------------------------------
(* What TypeOK leans on: only an accepted file brings castd up, and without*)
(* a serving castd there is no session and nothing is watched.             *)
Sound ==
  /\ TypeOK
  /\ Up => Accepted(conf)
  /\ unit # "serving" => /\ running = FALSE /\ sinceSample = 0 /\ stuck = 0
                         /\ watch.seen = FALSE /\ watch.quiet = 0

LEMMA SoundInit == Init => Sound
<1> SUFFICES ASSUME Init PROVE Sound
  OBVIOUS
<1>1. /\ sincePing \in 0 .. WatchdogSec /\ shaken \in 0 .. HandshakeSec
      /\ sinceShut \in 0 .. KeepaliveSec + Late
      /\ sinceSample \in 0 .. IntervalSec + Late
      /\ flat \in 0 .. Window + 1 /\ stuck \in 0 .. StallBound + 1
      /\ begun \in 0 .. StartLimitIntervalSec + 1 /\ starts \in 1 .. StartLimitBurst
  BY Timing DEF Init, NoStream
<1> QED  BY <1>1, Cleared DEF Init, NoStream, Sound, TypeOK, Up

LEMMA SoundGone ==
  ASSUME Sound, Gone
  PROVE  Sound'
<1>1. /\ sincePing' \in 0 .. WatchdogSec /\ shaken' \in 0 .. HandshakeSec
      /\ sinceShut' \in 0 .. KeepaliveSec + Late
      /\ sinceSample' \in 0 .. IntervalSec + Late
      /\ flat' \in 0 .. Window + 1 /\ stuck' \in 0 .. StallBound + 1
  BY Timing DEF Gone
<1> QED  BY <1>1, Cleared DEF Gone, Sound, TypeOK, Up

LEMMA SoundNext == Sound /\ [Next]_vars => Sound'
<1> SUFFICES ASSUME Sound, [Next]_vars PROVE Sound'
  OBVIOUS
<1>1. CASE Load
  BY <1>1, Timing DEF Load, Up, Sound, TypeOK
<1>2. CASE Refuse
  BY <1>2, SoundGone DEF Refuse
<1>3. CASE BroughtUp
  BY <1>3, Timing DEF BroughtUp, Up, Sound, TypeOK
<1>4. CASE Defective
  BY <1>4, SoundGone DEF Defective, BringUpFails
<1>5. CASE Ping
  BY <1>5, Timing DEF Ping, Up, Sound, TypeOK
<1>6. CASE Kill
  BY <1>6, SoundGone DEF Kill
<1>7. CASE Restart
  BY <1>7, Timing DEF Restart, RestartDue, Up, Sound, TypeOK
<1>8. CASE StartLimitHit
  BY <1>8, Timing DEF StartLimitHit, RestartDue, Up, Sound, TypeOK
<1>9. CASE WatchNothing
  <2>1. watch' \in [seen : BOOLEAN, quiet : 0 .. Window + 1]
    BY <1>9, Detector, Cleared DEF WatchNothing, Sound, TypeOK
  <2>2. /\ sinceSample' \in 0 .. IntervalSec + Late /\ flat' \in 0 .. Window + 1
        /\ stuck' \in 0 .. StallBound + 1 /\ shaken' \in 0 .. HandshakeSec
        /\ sinceShut' \in 0 .. KeepaliveSec + Late
    BY <1>9, Timing DEF WatchNothing, SampleDue, Up, Sound, TypeOK
  <2> QED  BY <1>9, <2>1, <2>2, Cleared DEF WatchNothing, SampleDue, Up, Sound, TypeOK
<1>10. CASE WatchGated
  <2>1. /\ sinceSample' \in 0 .. IntervalSec + Late /\ flat' \in 0 .. Window + 1
        /\ stuck' \in 0 .. StallBound + 1 /\ shaken' \in 0 .. HandshakeSec
        /\ sinceShut' \in 0 .. KeepaliveSec + Late
    BY <1>10, Timing DEF WatchGated, SampleDue, Up, Sound, TypeOK
  <2> QED  BY <1>10, <2>1 DEF WatchGated, SampleDue, Up, Sound, TypeOK
<1>11. CASE WatchDead
  <2>1. watch' \in [seen : BOOLEAN, quiet : 0 .. Window + 1]
    BY <1>11, Detector, Cleared DEF WatchDead, Sound, TypeOK
  <2>2. /\ sinceSample' \in 0 .. IntervalSec + Late /\ flat' \in 0 .. Window + 1
        /\ stuck' \in 0 .. StallBound + 1 /\ shaken' \in 0 .. HandshakeSec
        /\ sinceShut' \in 0 .. KeepaliveSec + Late
    BY <1>11, Timing DEF WatchDead, SampleDue, Up, Sound, TypeOK
  <2> QED  BY <1>11, <2>1, <2>2, Cleared DEF WatchDead, SampleDue, Up, Sound, TypeOK
<1>12. CASE WatchAlive
  <2>1. watch' \in [seen : BOOLEAN, quiet : 0 .. Window + 1]
    BY <1>12, Detector, Cleared DEF WatchAlive, Sound, TypeOK
  <2>2. /\ sinceSample' \in 0 .. IntervalSec + Late /\ flat' \in 0 .. Window + 1
        /\ stuck' \in 0 .. StallBound + 1 /\ shaken' \in 0 .. HandshakeSec
        /\ sinceShut' \in 0 .. KeepaliveSec + Late
    BY <1>12, Timing DEF WatchAlive, Watching, SampleDue, Up, Sound, TypeOK
  <2> QED  BY <1>12, <2>1, <2>2, Cleared DEF WatchAlive, Watching, SampleDue, Up, Sound, TypeOK
<1>13. CASE WatchStalled
  <2>1. watch' \in [seen : BOOLEAN, quiet : 0 .. Window + 1]
    BY <1>13, Detector, Cleared DEF WatchStalled, Sound, TypeOK
  <2>2. /\ sinceSample' \in 0 .. IntervalSec + Late /\ flat' \in 0 .. Window + 1
        /\ stuck' \in 0 .. StallBound + 1 /\ shaken' \in 0 .. HandshakeSec
        /\ sinceShut' \in 0 .. KeepaliveSec + Late
    BY <1>13, Timing DEF WatchStalled, Watching, SampleDue, Up, Sound, TypeOK
  <2> QED  BY <1>13, <2>1, <2>2, Cleared DEF WatchStalled, Watching, SampleDue, Up, Sound, TypeOK
<1>14. CASE Advance
  <2>1. PICK arrives \in BOOLEAN : Tick(arrives)
    BY <1>14 DEF Advance
  <2>2. watch \in [seen : BOOLEAN, quiet : 0 .. Window + 1]
    BY DEF Sound, TypeOK
  <2>3. /\ watch' \in [seen : BOOLEAN, quiet : 0 .. Window + 1]
        /\ watch'.seen = watch.seen
        /\ watch.seen = FALSE => watch'.quiet = watch.quiet
    BY <2>1, <2>2, Detector DEF Tick
  <2>4. /\ sincePing' \in 0 .. WatchdogSec /\ sinceSample' \in 0 .. IntervalSec + Late
        /\ sinceShut' \in 0 .. KeepaliveSec + Late
    BY <2>1, Timing DEF Tick, Patient, Sound, TypeOK, Up
  <2>5. /\ begun' \in 0 .. StartLimitIntervalSec + 1 /\ shaken' \in 0 .. HandshakeSec
        /\ elapsed' \in Nat
    BY <2>1, Timing DEF Tick, Sound, TypeOK, UpTo
  <2>6. flat' \in 0 .. Window + 1 /\ stuck' \in 0 .. StallBound + 1
    BY <2>1, Timing DEF Tick, Sound, TypeOK, UpTo
  <2>7. counter' \in {"flat", "grown", "restarted"}
    BY <2>1 DEF Tick, Sound, TypeOK
  <2>8. unit' # "serving" => sinceSample' = 0 /\ stuck' = 0
    BY <2>1 DEF Tick, Sound, TypeOK
  <2> QED  BY <2>1, <2>3, <2>4, <2>5, <2>6, <2>7, <2>8 DEF Tick, Sound, TypeOK, Up
<1>15. CASE PingRaises
  BY <1>15, Timing DEF PingRaises, Up, Sound, TypeOK
<1>16. CASE BringUpFails
  BY <1>16, SoundGone DEF BringUpFails
<1>17. CASE Shake
  <2>1. /\ sinceSample' \in 0 .. IntervalSec + Late /\ flat' \in 0 .. Window + 1
        /\ stuck' \in 0 .. StallBound + 1 /\ shaken' \in 0 .. HandshakeSec
        /\ sinceShut' \in 0 .. KeepaliveSec + Late
    BY <1>17, Timing DEF Shake, Up, Sound, TypeOK
  <2> QED  BY <1>17, <2>1 DEF Shake, Up, Sound, TypeOK
<1>18. CASE Stream
  <2>1. /\ sinceSample' \in 0 .. IntervalSec + Late /\ flat' \in 0 .. Window + 1
        /\ stuck' \in 0 .. StallBound + 1 /\ shaken' \in 0 .. HandshakeSec
        /\ sinceShut' \in 0 .. KeepaliveSec + Late
    BY <1>18, Timing DEF Stream, Up, Sound, TypeOK
  <2> QED  BY <1>18, <2>1 DEF Stream, Up, Sound, TypeOK
<1>19. CASE Leave
  <2>1. /\ sinceSample' \in 0 .. IntervalSec + Late /\ flat' \in 0 .. Window + 1
        /\ stuck' \in 0 .. StallBound + 1 /\ shaken' \in 0 .. HandshakeSec
        /\ sinceShut' \in 0 .. KeepaliveSec + Late
    BY <1>19, Timing DEF Leave, EndOfSession, Up, Sound, TypeOK
  <2> QED  BY <1>19, <2>1 DEF Leave, EndOfSession, Up, Sound, TypeOK
<1>20. CASE PipelineDies
  <2>1. /\ sinceSample' \in 0 .. IntervalSec + Late /\ flat' \in 0 .. Window + 1
        /\ stuck' \in 0 .. StallBound + 1 /\ shaken' \in 0 .. HandshakeSec
        /\ sinceShut' \in 0 .. KeepaliveSec + Late
    BY <1>20, Timing DEF PipelineDies, Up, Sound, TypeOK
  <2> QED  BY <1>20, <2>1 DEF PipelineDies, Up, Sound, TypeOK
<1>21. CASE Recreate
  <2>1. /\ sinceSample' \in 0 .. IntervalSec + Late /\ flat' \in 0 .. Window + 1
        /\ stuck' \in 0 .. StallBound + 1 /\ shaken' \in 0 .. HandshakeSec
        /\ sinceShut' \in 0 .. KeepaliveSec + Late
    BY <1>21, Timing, SMTT(20) DEF Recreate, Up, Sound, TypeOK
  <2> QED  BY <1>21, <2>1 DEF Recreate, Up, Sound, TypeOK
<1>22. CASE Unreadable
  <2>1. /\ sinceSample' \in 0 .. IntervalSec + Late /\ flat' \in 0 .. Window + 1
        /\ stuck' \in 0 .. StallBound + 1 /\ shaken' \in 0 .. HandshakeSec
        /\ sinceShut' \in 0 .. KeepaliveSec + Late
    BY <1>22, Timing DEF Unreadable, Up, Sound, TypeOK
  <2> QED  BY <1>22, <2>1 DEF Unreadable, Up, Sound, TypeOK
<1>23. CASE UNCHANGED vars
  BY <1>23 DEF Sound, TypeOK, Up
<1>24. CASE NoticeClosed
  BY <1>24, <1>19 DEF NoticeClosed
<1> QED  BY <1>1, <1>2, <1>3, <1>4, <1>5, <1>6, <1>7, <1>8, <1>9, <1>10, <1>11, <1>12, <1>13, <1>14, <1>15, <1>16, <1>17, <1>18, <1>19, <1>20, <1>21, <1>22, <1>23, <1>24
         DEF Next, Systemd, Sample, Environment

(* Every variable keeps its type, and castd is heard of, has a heartbeat or*)
(* serves a session only where it is up, whatever the timing.              *)
THEOREM TypeCorrect == Spec => []TypeOK
<1>1. Sound => TypeOK
  BY DEF Sound
<1> QED  BY <1>1, SoundInit, SoundNext, PTL DEF Spec
-----------------------------------------------------------------------------
(* A heartbeat thread that runs is never later than it can be.             *)
Beats == heart = "beating" => sincePing <= HeartbeatSec + Late

LEMMA BeatsNext == Sound /\ Beats /\ [Next]_vars => Beats'
<1> SUFFICES ASSUME Sound, Beats, [Next]_vars PROVE Beats'
  OBVIOUS
<1>1. CASE Load \/ Restart \/ StartLimitHit \/ BroughtUp \/ Ping \/ PingRaises
  BY <1>1, Timing DEF Load, Restart, RestartDue, StartLimitHit, BroughtUp, Ping, PingRaises,
     Beats, Sound, TypeOK
<1>2. CASE Refuse \/ Defective \/ Kill \/ BringUpFails
  BY <1>2 DEF Refuse, Defective, Kill, BringUpFails, Gone, Beats
<1>3. CASE Sample
  BY <1>3 DEF Sample, WatchNothing, WatchGated, WatchDead, WatchAlive, WatchStalled, Beats
<1>4. CASE Shake \/ Stream \/ Leave \/ PipelineDies \/ Recreate \/ Unreadable
  BY <1>4 DEF Shake, Stream, Leave, PipelineDies, Recreate, Unreadable, Beats
<1>7. CASE NoticeClosed
  BY <1>4, <1>7 DEF NoticeClosed
<1>5. CASE Advance
  <2>1. PICK arrives \in BOOLEAN : Tick(arrives)
    BY <1>5 DEF Advance
  <2>2. heart = "beating" => sincePing < HeartbeatSec + Late
    BY <2>1 DEF Tick, Patient, BeatSec
  <2>3. heart' = heart /\ (sincePing' = sincePing + 1 \/ sincePing' = sincePing)
    BY <2>1 DEF Tick
  <2>4. sincePing \in Nat
    BY Timing DEF Sound, TypeOK
  <2> QED  BY <2>2, <2>3, <2>4, Timing DEF Beats
<1>6. CASE UNCHANGED vars
  BY <1>6 DEF Beats
<1> QED  BY <1>1, <1>2, <1>3, <1>4, <1>5, <1>6, <1>7 DEF Next, Systemd, Environment

(* systemd never kills a castd whose heartbeat thread runs, for every      *)
(* period and lateness that together stay below WatchdogSec.               *)
THEOREM NoSpuriousKillHolds == Spec => []NoSpuriousKill
<1>1. Init => Beats
  BY Timing DEF Init, Beats
<1>2. Sound /\ Beats => NoSpuriousKill
  <2> SUFFICES ASSUME Sound, Beats, Up, sincePing >= WatchdogSec PROVE heart = "dead"
    BY DEF NoSpuriousKill
  <2>1. heart \in {"beating", "dead"}
    BY DEF Sound, TypeOK
  <2>2. heart # "beating"
    BY Timing DEF Beats, Sound, TypeOK
  <2> QED  BY <2>1, <2>2
<1> QED  BY <1>1, <1>2, SoundInit, SoundNext, BeatsNext, PTL DEF Spec
-----------------------------------------------------------------------------
(* The detector never counts more silence than there was.                  *)
Told == watch.seen /\ counter # "grown" => watch.quiet <= flat

LEMMA ToldNext == Sound /\ Told /\ [Next]_vars => Told'
<1> SUFFICES ASSUME Sound, Told, [Next]_vars PROVE Told'
  OBVIOUS
<1> DEFINE seen == Observe(watch, counter = "grown")
<1>1. /\ watch \in [seen : BOOLEAN, quiet : 0 .. Window + 1]
      /\ watch.quiet \in Nat /\ flat \in Nat
      /\ watch.quiet <= Window + 1 /\ flat <= Window + 1
  BY Timing DEF Sound, TypeOK
<1>2. CASE Load \/ Restart \/ StartLimitHit \/ BroughtUp \/ Ping \/ PingRaises
  BY <1>2 DEF Load, Restart, StartLimitHit, BroughtUp, Ping, PingRaises, Told
<1>3. CASE Refuse \/ Defective \/ Kill \/ BringUpFails
  BY <1>3, Cleared DEF Refuse, Defective, Kill, BringUpFails, Gone, Told
<1>4. CASE WatchNothing \/ WatchDead \/ WatchStalled
  BY <1>4, Cleared DEF WatchNothing, WatchDead, WatchStalled, Told
<1>5. CASE WatchGated
  BY <1>5 DEF WatchGated, Told
<1>6. CASE WatchAlive
  <2>1. watch' = seen /\ flat' = flat
    BY <1>6 DEF WatchAlive
  <2>2. seen.quiet = IF watch.seen /\ counter # "grown" THEN watch.quiet ELSE 0
    BY <1>1, Detector
  <2> HIDE DEF seen
  <2> QED  BY <1>1, <2>1, <2>2 DEF Told
<1>7. CASE Shake \/ Stream \/ Leave \/ PipelineDies \/ Unreadable
  BY <1>7 DEF Shake, Stream, Leave, PipelineDies, Unreadable, Told
<1>11. CASE NoticeClosed
  BY <1>7, <1>11 DEF NoticeClosed
<1>8. CASE Recreate
  BY <1>8, <1>1, Timing DEF Recreate, Told
<1>9. CASE Advance
  <2>1. PICK arrives \in BOOLEAN : Tick(arrives)
    BY <1>9 DEF Advance
  <2>2. /\ watch'.seen = watch.seen
        /\ watch'.quiet = IF watch.seen /\ watch.quiet <= Window
                          THEN watch.quiet + 1 ELSE watch.quiet
    BY <1>1, <2>1, Detector DEF Tick
  <2>3. CASE watch.seen /\ counter' # "grown"
    <3>1. counter # "grown" /\ unit = "serving"
      BY <2>1, <2>3 DEF Tick, Sound
    <3>2. flat' = UpTo(flat, Window + 1)
      BY <2>1, <2>3, <3>1 DEF Tick
    <3> QED  BY <1>1, <2>2, <2>3, <3>1, <3>2, Timing DEF Told, UpTo
  <2> QED  BY <2>2, <2>3 DEF Told
<1>10. CASE UNCHANGED vars
  BY <1>10 DEF Told
<1> QED  BY <1>2, <1>3, <1>4, <1>5, <1>6, <1>7, <1>8, <1>9, <1>10, <1>11
         DEF Next, Systemd, Sample, Environment

(* The flat-line detector closes no session that had a stream within the     *)
(* window, whatever the window, the period of its thread and its lateness. *)
THEOREM LiveSessionIsKept == Spec => LiveSessionKept
<1>1. Init => Told
  BY Cleared DEF Init, NoStream, Told
<1>2. Sound /\ Told => (WatchStalled => flat > Window)
  <2> SUFFICES ASSUME Sound, Told, WatchStalled PROVE flat > Window
    OBVIOUS
  <2> DEFINE seen == Observe(watch, counter = "grown")
  <2>1. /\ watch \in [seen : BOOLEAN, quiet : 0 .. Window + 1]
        /\ watch.quiet \in Nat /\ flat \in Nat
    BY Timing DEF Sound, TypeOK
  <2>2. seen.quiet = IF watch.seen /\ counter # "grown" THEN watch.quiet ELSE 0
    BY <2>1, Detector
  <2>3. seen.quiet > Window
    BY DEF WatchStalled, Stalled
  <2> HIDE DEF seen
  <2> QED  BY <2>1, <2>2, <2>3, Timing DEF Told
<1>3. Sound /\ Told /\ [Next]_vars => [WatchStalled => flat > Window]_vars
  BY <1>2
<1> QED  BY <1>1, <1>3, SoundInit, SoundNext, ToldNext, PTL DEF Spec, LiveSessionKept
-----------------------------------------------------------------------------
(* Until the watchdog closes the socket a stall is either younger than the *)
(* last pass, or under way: then it is no older than the detector's count  *)
(* and the pass that began it.  From then on only the session thread's     *)
(* recv is to be waited for, whatever the detector goes on to do.          *)
Eyed == session = "streaming" /\ running /\ gate /\ readable

Watched ==
  /\ stuck # 0 => Eyed
  /\ ~shut /\ stuck > sinceSample =>
       /\ watch.seen /\ counter # "grown"
       /\ stuck <= Window + IntervalSec + Late + sinceSample
       /\ watch.quiet <= Window => stuck <= IntervalSec + Late + watch.quiet
  /\ shut => stuck <= Patience + sinceShut

LEMMA WatchedNext == Sound /\ Watched /\ [Next]_vars => Watched'
<1> SUFFICES ASSUME Sound, Watched, [Next]_vars PROVE Watched'
  OBVIOUS
<1> DEFINE seen == Observe(watch, counter = "grown")
<1>1. /\ watch \in [seen : BOOLEAN, quiet : 0 .. Window + 1]
      /\ watch.quiet \in Nat /\ stuck \in Nat /\ sinceSample \in Nat
      /\ sinceSample <= IntervalSec + Late /\ shut \in BOOLEAN
      /\ sinceShut \in Nat /\ stuck <= StallBound + 1
  BY Timing DEF Sound, TypeOK
<1>2. CASE Load \/ Restart \/ StartLimitHit \/ BroughtUp \/ Ping \/ PingRaises
  BY <1>2 DEF Load, Restart, StartLimitHit, BroughtUp, Ping, PingRaises, Watched, Eyed
<1>3. CASE Refuse \/ Defective \/ Kill \/ BringUpFails
  BY <1>3 DEF Refuse, Defective, Kill, BringUpFails, Gone, Watched
<1>4. CASE WatchNothing \/ WatchGated
  <2>1. stuck = 0
    BY <1>4 DEF WatchNothing, WatchGated, Watched, Eyed
  <2> QED  BY <1>4, <2>1 DEF WatchNothing, WatchGated, SampleDue, Watched
<1>5. CASE WatchDead
  <2>1. stuck = 0
    BY <1>5 DEF WatchDead, Watched, Eyed
  <2> QED  BY <1>1, <1>5, <2>1, Timing DEF WatchDead, Watched
<1>12. CASE WatchStalled
  <2>1. stuck <= Patience + sinceShut
    BY <1>1, Timing DEF Watched
  <2>2. Eyed => Eyed'
    BY <1>12 DEF WatchStalled, Eyed
  <2> QED  BY <1>12, <2>1, <2>2 DEF WatchStalled, Watched
<1>13. CASE Leave
  BY <1>1, <1>13 DEF Leave, EndOfSession, Watched
<1>14. CASE NoticeClosed
  BY <1>13, <1>14 DEF NoticeClosed
<1>6. CASE WatchAlive
  <2>1. watch' = seen /\ sinceSample' = 0 /\ stuck' = stuck /\ counter' = "flat"
    BY <1>6 DEF WatchAlive, Watching, SampleDue
  <2>2. seen.seen = TRUE /\ seen.quiet = IF watch.seen /\ counter # "grown" THEN watch.quiet ELSE 0
    BY <1>1, Detector
  <2>3. seen.quiet <= Window
    BY <1>1, <1>6, <2>2, Timing DEF WatchAlive, Stalled
  <2>4. Eyed => Eyed'
    BY <1>6 DEF WatchAlive, Eyed
  <2> HIDE DEF seen
  <2>5. ASSUME ~shut PROVE stuck <= IntervalSec + Late + seen.quiet
    <3>1. CASE stuck <= sinceSample
      BY <1>1, <2>2, <3>1, Timing
    <3>2. CASE stuck > sinceSample
      BY <1>1, <2>2, <2>3, <2>5, <3>2, Timing DEF Watched
    <3> QED  BY <1>1, <3>1, <3>2
  <2>6. ~shut => stuck <= Window + IntervalSec + Late
    BY <1>1, <2>2, <2>3, <2>5, Timing
  <2>7. shut' = shut /\ sinceShut' = sinceShut
    BY <1>6 DEF WatchAlive
  <2> QED  BY <1>1, <2>1, <2>2, <2>4, <2>5, <2>6, <2>7, Timing DEF Watched
<1>7. CASE Shake \/ Stream
  <2>1. stuck = 0
    BY <1>7 DEF Shake, Stream, Watched, Eyed
  <2> QED  BY <1>1, <1>7, <2>1, Timing DEF Shake, Stream, Watched
<1>8. CASE PipelineDies \/ Unreadable
  BY <1>1, <1>8, Timing DEF PipelineDies, Unreadable, Watched
<1>9. CASE Recreate
  BY <1>1, <1>9 DEF Recreate, Watched, Eyed
<1>10. CASE Advance
  <2>1. PICK arrives \in BOOLEAN : Tick(arrives)
    BY <1>10 DEF Advance
  <2>2. /\ watch'.seen = watch.seen
        /\ watch'.quiet = IF watch.seen /\ watch.quiet <= Window
                          THEN watch.quiet + 1 ELSE watch.quiet
    BY <1>1, <2>1, Detector DEF Tick
  <2>5. shut' = shut /\ sinceShut' = IF shut THEN sinceShut + 1 ELSE sinceShut
    BY <2>1 DEF Tick
  <2>3. CASE stuck' = 0
    <3>1. stuck' <= sinceSample' /\ stuck' <= Patience + sinceShut'
      BY <1>1, <2>1, <2>3, <2>5, Timing DEF Tick, Sound, TypeOK
    <3> QED  BY <2>3, <3>1, <1>1, <2>1, Timing DEF Tick, Watched
  <2>4. CASE stuck' # 0
    <3>1. Eyed /\ ~arrives /\ stuck' = UpTo(stuck, StallBound + 1)
      BY <2>1, <2>4 DEF Tick, Eyed
    <3>2. unit = "serving" /\ sinceSample' = sinceSample + 1
      BY <2>1, <3>1 DEF Tick, Sound, TypeOK, Eyed
    <3>3. Eyed' /\ counter' = counter
      BY <2>1, <3>1 DEF Tick, Eyed
    <3>4. stuck' = stuck + 1 \/ stuck' = stuck
      BY <3>1 DEF UpTo
    <3>5. ASSUME ~shut', stuck' > sinceSample'
          PROVE  /\ watch'.seen /\ counter' # "grown"
                 /\ stuck' <= Window + IntervalSec + Late + sinceSample'
                 /\ watch'.quiet <= Window => stuck' <= IntervalSec + Late + watch'.quiet
      <4>1. ~shut /\ stuck > sinceSample
        BY <1>1, <2>5, <3>2, <3>4, <3>5
      <4> QED  BY <1>1, <2>2, <3>2, <3>3, <3>4, <4>1, Timing DEF Watched
    <3>6. ASSUME shut' PROVE stuck' <= Patience + sinceShut'
      BY <1>1, <2>5, <3>4, <3>6, Timing DEF Watched
    <3> QED  BY <3>3, <3>5, <3>6 DEF Watched
  <2> QED  BY <2>3, <2>4
<1>11. CASE UNCHANGED vars
  BY <1>11 DEF Watched, Eyed
<1> QED  BY <1>2, <1>3, <1>4, <1>5, <1>6, <1>7, <1>8, <1>9, <1>10, <1>11,
            <1>12, <1>13, <1>14
         DEF Next, Systemd, Sample, Environment

(* The teardown of a stalled session begins within the window, two passes  *)
(* and the timeout of the session thread's recv, whatever these are and    *)
(* however late the threads wake up.                                       *)
THEOREM StalledSessionsEnd == Spec => []StalledSessionEnds
<1>1. Init => Watched
  BY DEF Init, NoStream, Watched
<1>2. Sound /\ Watched => StalledSessionEnds
  BY Timing DEF Sound, TypeOK, Watched, StalledSessionEnds
<1> QED  BY <1>1, <1>2, SoundInit, SoundNext, WatchedNext, PTL DEF Spec
=============================================================================
