---------------------------- MODULE MCBridgeSync ----------------------------
(* The host names and addresses are model values of the configurations.    *)
EXTENDS BridgeSync
=============================================================================
