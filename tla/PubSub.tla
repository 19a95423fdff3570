------------------------------- MODULE PubSub -------------------------------
(***************************************************************************)
(* A pub-sub instance as pubsub.New(0) makes it: one goroutine serves an   *)
(* unbuffered command channel.  A publication is sent to the unbuffered    *)
(* channel of each subscriber of its topic in turn, in no fixed order, and *)
(* until the last of them has received it no other command is served.      *)
(***************************************************************************)
EXTENDS Naturals

CONSTANTS
  Chans,    (* channels that Sub may return                                 *)
  noMsg     (* the message of an instance that is not sending               *)

VARIABLES
  subs,     (* the topics each channel is subscribed to                     *)
  sending   (* the publication being sent, and the channels still to get it *)

idle == [msg |-> noMsg, to |-> {}]

Init ==
  /\ subs = [c \in Chans |-> {}]
  /\ sending = idle

Subscribers(topic) == {c \in Chans : topic \in subs[c]}

\* Pub, Sub and Unsub return once the goroutine has taken the command, which
\* it does only between publications.
Pub(msg, topic) ==
  /\ sending = idle
  /\ sending' = IF Subscribers(topic) = {}
                  THEN idle
                  ELSE [msg |-> msg, to |-> Subscribers(topic)]
  /\ UNCHANGED subs

Sub(c, topics) ==
  /\ sending = idle
  /\ subs' = [subs EXCEPT ![c] = @ \cup topics]
  /\ UNCHANGED sending

Unsub(c) ==
  /\ sending = idle
  /\ subs' = [subs EXCEPT ![c] = {}]
  /\ UNCHANGED sending

\* The owner of c receives the publication.
Deliver(c) ==
  /\ c \in sending.to
  /\ sending' = IF sending.to = {c} THEN idle ELSE [sending EXCEPT !.to = @ \ {c}]
  /\ UNCHANGED subs
=============================================================================
