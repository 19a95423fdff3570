---------------------------- MODULE MCDispatcher ----------------------------
(* A window of 2 slides up to 3 times inside a max window of 5, and two    *)
(* more events are left for the batches that follow.                       *)
EXTENDS Dispatcher
=============================================================================
