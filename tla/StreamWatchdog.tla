--------------------------- MODULE StreamWatchdog ---------------------------
(***************************************************************************)
(* castd/stream_watchdog.py.  The clock is kept relative: quiet is the     *)
(* time since _last_progress, and stands at one more than the window once  *)
(* it is past it.  Of the counter only the difference between two samples  *)
(* matters: fresh says that it is at least min_bytes_per_sample.           *)
(***************************************************************************)
EXTENDS Naturals

CONSTANT Window   \* stall_window_s

Reset == [seen |-> FALSE, quiet |-> 0]

\* What time does to it.
Older(w) == [w EXCEPT !.quiet = IF w.seen /\ @ <= Window THEN @ + 1 ELSE @]

ObserveAnyByte(w, fresh) == [seen |-> TRUE, quiet |-> 0]
ObserveNoProgress(w, fresh) == [seen |-> TRUE, quiet |-> w.quiet]

(* The first sample only sets the baseline.                                *)
Observe(w, fresh) ==
  [seen |-> TRUE, quiet |-> IF w.seen /\ ~fresh THEN w.quiet ELSE 0]

Stalled(w) == w.quiet > Window
=============================================================================
