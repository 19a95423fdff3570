---------------------------- MODULE MCResyncTicker ----------------------------
(* With a minimum of 30: two spellings of one allowed interval, another    *)
(* allowed one, one that is too short, no interval, one that cannot be     *)
(* parsed, and 0.                                                          *)
EXTENDS ResyncTicker

MCSettings == {"", "bad", "0s", "10s", "60s", "1m", "30s"}

MCDuration ==
  [s \in Settings |-> CASE s \in {"60s", "1m"} -> 60
                        [] s = "30s" -> 30
                        [] s = "10s" -> 10
                        [] s = "0s" -> 0
                        [] OTHER -> Invalid]
=============================================================================
