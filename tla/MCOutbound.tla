----------------------------- MODULE MCOutbound -----------------------------
(* One HTTP service whose route has a cluster, with retries and an         *)
(* endpoint standing by, and a failover cluster in another Kubernetes      *)
(* cluster; a second rule to a cluster without retries; a TCP service.     *)
EXTENDS Outbound

Endpoint(weight, path) == [Weight |-> weight, Path |-> path]

MCClusters ==
  [ a |-> [Endpoints |-> [e1 |-> Endpoint(100, <<>>), e2 |-> Endpoint(0, <<"c2">>)],
           NumRetries |-> 1, RetryOn |-> {503}, SourceCert |-> none],
    b |-> [Endpoints |-> [e3 |-> Endpoint(100, <<"c3">>)],
           NumRetries |-> 0, RetryOn |-> {}, SourceCert |-> "cert"],
    c |-> [Endpoints |-> [e4 |-> Endpoint(100, <<"c4">>), e5 |-> Endpoint(0, <<>>)],
           NumRetries |-> 0, RetryOn |-> {}, SourceCert |-> none] ]

Rule(type, path, clusters) ==
  [Type |-> type, Path |-> path, Methods |-> {"GET"}, TargetClusters |-> clusters]

MCMatch(port, protocolName, ranges, egress) ==
  [ Port |-> port, Protocol |-> protocolName, ranges |-> ranges,
    HttpHostPort2Service |-> [svc |-> "svc"],
    HttpServiceRouteRules |->
      [svc |-> <<Rule("Exact", <<"x">>, [a |-> 100, b |-> 0]),
                 Rule("Prefix", <<"y">>, [c |-> 100, b |-> 0, gone |-> 0]),
                 Rule("Regex", {<<"z">>}, [gone |-> 100])>>],
    TcpTargetClusters |-> IF egress THEN [gone |-> 100] ELSE [a |-> 100, b |-> 0],
    AllowedEgressTraffic |-> egress ]

MCTrafficMatches ==
  [ p80 |-> mergeTrafficMatches(<<MCMatch("p80", "http", <<>>, FALSE)>>),
    p90 |-> mergeTrafficMatches(<<MCMatch("p90", "tcp", [ip1 |-> "cert"], FALSE),
                                  MCMatch("p90", "tcp", <<>>, TRUE)>>) ]

In(port, address, path) ==
  [port |-> port, address |-> address, host |-> "svc", method |-> "GET", path |-> path]

MCInputs ==
  { In("p80", "ip1", <<"x">>), In("p80", "ip1", <<"y", "w">>), In("p80", "ip1", <<"z">>),
    In("p80", "ip1", <<"v">>), In("p90", "ip1", <<>>), In("p90", "ip2", <<>>),
    In("p70", "ip1", <<>>) }

MCBreaking ==
  [ a |-> Settings([MinRequestAmount |-> 2, StatTimeWindow |-> 1, SlowAmountThreshold |-> 0,
                    SlowRatioThreshold |-> 50, ErrorAmountThreshold |-> 2, ErrorRatioThreshold |-> 0,
                    DegradedTimeWindow |-> 1, DegradedStatusCode |-> 503]) ]
=============================================================================
