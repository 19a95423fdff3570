--------------------------- MODULE MCBrokerClients ---------------------------
(* One message for each outcome of getProxyUpdateEvent, a proxy and        *)
(* the log level watcher.                                                  *)
EXTENDS BrokerClients

MCMsg(kind, changed, uid) == [kind |-> kind, changed |-> changed, uid |-> uid]

MCMsgs ==
  { MCMsg("ProxyUpdate", FALSE, ""),
    MCMsg("EcnetConfigUpdated", TRUE, ""),
    MCMsg("PodUpdated", TRUE, "u1"),
    MCMsg("NamespaceAdded", FALSE, "") }

MCuuidOf == [c \in ProxyChans |-> IF c = "p1" THEN "u1" ELSE "u2"]
=============================================================================
