---------------------------- MODULE MCControlPlane ----------------------------
(* Two endpoint changes, which broadcast.                                  *)
EXTENDS ControlPlane

MCEndpoint(n) == [kind |-> "EndpointUpdated", changed |-> TRUE, uid |-> n]

MCMsgs == {MCEndpoint("e1"), MCEndpoint("e2")}

MCOneMsg == {MCEndpoint("e1")}
=============================================================================
