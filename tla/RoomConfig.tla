----------------------------- MODULE RoomConfig -----------------------------
(***************************************************************************)
(* castd/config.py: what parse_room_config makes of receiver.conf.  A file *)
(* is a record: whether every line parses, the keys it gives, and of the   *)
(* values what the checks look at.  room_name and passphrase are lengths,  *)
(* wps_pin a sequence of digits, channel a number, 0 for one that is not.  *)
(***************************************************************************)
EXTENDS Integers, Sequences

Digit == 0 .. 9

ALLOWED_CHANNELS == [c \in {36, 40, 44, 48} |-> 5000 + 5 * c]

\* wps_pin_checksum, of the seven digits of a prefix.
WpsChecksum(d) ==
  (10 - ((3 * d[1] + d[2] + 3 * d[3] + d[4] + 3 * d[5] + d[6] + 3 * d[7]) % 10)) % 10

IsValidWpsPin(pin) == Len(pin) = 8 /\ WpsChecksum(pin) = pin[8]

KEYS == {"room_name", "wps_pin", "passphrase", "channel"}

\* The first ConfigError, in the order of the checks, or "ok".
Verdict(conf) ==
  CASE ~conf.parses -> "unparsable line"
    [] ~ KEYS \subseteq conf.keys -> "missing key"
    [] conf.room_name \notin 1 .. 32 -> "room_name"
    [] ~IsValidWpsPin(conf.wps_pin) -> "wps_pin"
    [] conf.passphrase \notin 8 .. 63 -> "passphrase"
    [] conf.channel \notin DOMAIN ALLOWED_CHANNELS -> "channel"
    [] OTHER -> "ok"

Accepted(conf) == Verdict(conf) = "ok"
=============================================================================
