------------------------------ MODULE Coalescer ------------------------------
(***************************************************************************)
(* What the proxy update dispatcher promises its callers, without timers:  *)
(* events are handed over one at a time, some of them are held for         *)
(* batching, and one dispatch releases every event held so far.  No event  *)
(* is held for more than MaxWindow units of time.                          *)
(***************************************************************************)
EXTENDS Naturals

CONSTANTS
  MaxWindow,   (* the longest time an event may be held                     *)
  MaxEvents    (* bound on the number of events handed over                 *)

VARIABLES
  received,    (* number of events accepted so far                          *)
  covered,     (* number of events covered by a dispatch                    *)
  age          (* how long the oldest uncovered event has been held         *)

vars == <<received, covered, age>>

Held == received - covered

Init ==
  /\ received = 0
  /\ covered = 0
  /\ age = 0

Accept ==
  /\ received < MaxEvents
  /\ received' = received + 1
  /\ UNCHANGED <<covered, age>>

Dispatch ==
  /\ Held > 0
  /\ covered' = received
  /\ age' = 0
  /\ UNCHANGED received

Tick ==
  /\ Held > 0
  /\ age < MaxWindow
  /\ age' = age + 1
  /\ UNCHANGED <<received, covered>>

Next == Accept \/ Dispatch \/ Tick

Spec == Init /\ [][Next]_vars
=============================================================================
