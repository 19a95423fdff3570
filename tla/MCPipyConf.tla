---------------------------- MODULE MCPipyConf ----------------------------
(* Service n may be imported from two clusters, at one or two target ports *)
(* or with two ports, with or without a local service, local endpoints and *)
(* any kind of policy.  Service m shares the port, as HTTP, gRPC or TCP.   *)
EXTENDS PipyConf

MCPaths == {<<>>}

MCPort(port, name, app) == [Port |-> port, Name |-> name, AppProtocol |-> app]

MCImported(key, ip, port) == [ClusterKey |-> key, IP |-> ip, Port |-> port, Path |-> <<key>>]

MCImport(port, name, app, endpoints) == MCPort(port, name, app) @@ [Endpoints |-> endpoints]

MCSubsets ==
  <<[ Addresses |-> <<[IP |-> "ip1", Hostname |-> none], [IP |-> "ip2", Hostname |-> "h"]>>,
      Ports |-> <<[Name |-> <<"http", "web">>, Port |-> 8080], [Name |-> <<"admin">>, Port |-> 7070]>> ]>>

MCImportsOfN ==
  LET k1 == MCImported("k1", "ip8", 8080)
      k2 == MCImported("k2", "ip8", 8080)
      k3 == MCImported("k2", "v6", 9090)
  IN  { <<>>,
        <<MCImport(80, <<"http", "web">>, none, <<k1, k2>>)>>,
        <<MCImport(80, <<>>, "grpc", <<k1, k3>>), MCImport(90, <<"tcp", "x">>, none, <<>>)>>,
        <<MCImport(80, <<>>, none, <<k1>>), MCImport(90, <<>>, none, <<k3>>)>> }

MCPolicy(type, targets) == [LbType |-> type, LoadBalanceTarget |-> targets]

MCObjects ==
  [ Service |->
      [ n |-> {none} \cup [ClusterIP : {none, "ip9"}, Ports : {<<MCPort(80, <<"http", "web">>, none)>>}],
        m |-> {none} ],
    Endpoints |-> [n |-> {none, MCSubsets}, m |-> {none}],
    ServiceImport |->
      [ n |-> MCImportsOfN,
        m |-> {<<>>, <<MCImport(80, <<>>, none, <<MCImported("k1", "ip7", 8080)>>)>>,
               <<MCImport(80, <<"tcp", "m">>, none, <<MCImported("k1", "ip7", 8080)>>)>>} ],
    GlobalTrafficPolicy |->
      [ n |-> {none, MCPolicy("Locality", <<>>), MCPolicy("ActiveActive", <<>>),
               MCPolicy("ActiveActive", [k1 |-> 5]), MCPolicy("ActiveActive", [k1 |-> 5, k2 |-> none]),
               MCPolicy("FailOver", <<>>), MCPolicy("FailOver", [k1 |-> none])},
        m |-> {MCPolicy("ActiveActive", <<>>)} ] ]

MCPlugin(name, priority, disable) == [Plugin |-> name, Priority |-> priority, Disable |-> disable]

MCEcnetConfigs ==
  {none, [ LogLevel |-> "error",
           PluginChains |->
             [[m \in MountPoints |-> <<>>] EXCEPT
                !["outbound-http"] = <<MCPlugin("tls", 120, FALSE), MCPlugin("routing", 160, FALSE),
                                       MCPlugin("metrics", 150, TRUE), MCPlugin("tracing", 120, FALSE)>>,
                !["inbound-tcp"] = <<MCPlugin("tls", 120, TRUE)>>] ]}
=============================================================================
