--------------------------- MODULE MCSupervision ---------------------------
EXTENDS Supervision

(* The receiver.conf of config.py's tests, and one file per ConfigError.   *)
Good == [parses |-> TRUE, keys |-> KEYS, room_name |-> 12,
         wps_pin |-> <<1, 2, 3, 4, 5, 6, 7, 0>>, passphrase |-> 14, channel |-> 36]

MCFiles ==
  {Good,
   [Good EXCEPT !.parses = FALSE],
   [Good EXCEPT !.keys = KEYS \ {"passphrase"}],
   [Good EXCEPT !.room_name = 33],
   [Good EXCEPT !.wps_pin[8] = 1],
   [Good EXCEPT !.passphrase = 7],
   [Good EXCEPT !.channel = 0]}

MCEnv == {"send", "bringup", "unreadable", "recreated"}
=============================================================================
