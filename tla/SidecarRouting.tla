--------------------------- MODULE SidecarRouting ---------------------------
(***************************************************************************)
(* How the sidecar reads its configuration: config.js, which merges the    *)
(* traffic matches of a port, and the choices that outbound-main.js,       *)
(* outbound-http-routing.js and utils.js make.  Operators only; Outbound   *)
(* runs requests through them and PipyConf asks what a generated           *)
(* configuration makes of a service.                                       *)
(***************************************************************************)
EXTENDS Naturals, Sequences, TLC

CONSTANT none

First(S) == CHOOSE i \in S : \A j \in S : i <= j

OrNone(S) == IF S = {} THEN {none} ELSE S

\* RoundRobinLoadBalancer.next() on a map of weights: the list is shuffled,
\* so any target of positive weight may be next.
NextTarget(weights) == OrNone({k \in DOMAIN weights : weights[k] > 0})

\* utils.js failover: the targets of weight 0 stand by.
failover(weights) == OrNone({k \in DOMAIN weights : weights[k] = 0})

-----------------------------------------------------------------------------
(* A match of a port is [Port, Protocol, ranges, HttpHostPort2Service,     *)
(* HttpServiceRouteRules, TcpTargetClusters, AllowedEgressTraffic]; ranges *)
(* maps addresses to certificates and is <<>> where the match has none.    *)

\* uniqueIdentity and findIdentity: m takes o in when the identity of o (port,
\* protocol and addresses) is part of its own; of the addresses, the model
\* knows the cases of all of them and of a single one.
Covers(m, o) ==
  /\ m.Port = o.Port /\ m.Protocol = o.Protocol
  /\ \/ DOMAIN m.ranges = DOMAIN o.ranges
     \/ \E address \in DOMAIN m.ranges : DOMAIN o.ranges = {address}

\* outTrafficMatches and outMergeTrafficMatches: the first of the matches
\* that belong together is kept and gets the hosts and the rules of the
\* others; their TCP rules are lost.
mergeTrafficMatches(matches) ==
  LET stub[i \in DOMAIN matches] ==
        LET S == {j \in 1..(i - 1) : stub[j] = j /\ Covers(matches[j], matches[i])}
        IN  IF S = {} THEN i ELSE First(S)
      merged[i \in DOMAIN matches, j \in 0..Len(matches)] ==
        IF j = 0 THEN matches[i]
        ELSE IF stub[j] # i \/ j = i THEN merged[i, j - 1]
        ELSE [merged[i, j - 1] EXCEPT
                !.HttpHostPort2Service  = matches[j].HttpHostPort2Service @@ @,
                !.HttpServiceRouteRules = matches[j].HttpServiceRouteRules @@ @]
      kept == SelectSeq([i \in DOMAIN matches |-> i], LAMBDA i : stub[i] = i)
  IN  [k \in DOMAIN kept |-> merged[kept[k], Len(matches)]]

-----------------------------------------------------------------------------
NoMatch == [Protocol |-> "none"]

\* outbound-main.js: the first match with a range that holds the address,
\* and the certificate of that range, else the first match without ranges.
\* The latter makes the connection egress: the test for TCP reads
\* dst.Protocol, which is not set.
Destination(matches, address) ==
  LET inRange   == {i \in DOMAIN matches : address \in DOMAIN matches[i].ranges}
      unlimited == {i \in DOMAIN matches : matches[i].ranges = <<>>}
  IN  IF inRange # {}
        THEN [match |-> matches[First(inRange)], isEgress |-> FALSE,
              cert |-> matches[First(inRange)].ranges[address]]
      ELSE IF unlimited # {}
        THEN [match |-> matches[First(unlimited)], isEgress |-> TRUE, cert |-> none]
      ELSE [match |-> NoMatch, isEgress |-> FALSE, cert |-> none]

\* __protocol: "none" closes the connection.
protocol(match, EnableEgress) ==
  IF match.Protocol \in {"http", "grpc"} THEN "http"
  ELSE IF match.Protocol # "none" \/ EnableEgress THEN "tcp" ELSE "none"

\* matchPath of makeServiceHandler; a regular expression is the set of the
\* paths it matches.
matchPath(rule, path) ==
  CASE rule.Type = "Exact"  -> path = rule.Path
    [] rule.Type = "Prefix" -> /\ Len(rule.Path) <= Len(path)
                               /\ SubSeq(path, 1, Len(rule.Path)) = rule.Path
    [] rule.Type = "Regex"  -> path \in rule.Path

\* hostHandlers and serviceHandlers: the rules for a Host header.
RouteRules(match, host) ==
  IF host \in DOMAIN match.HttpHostPort2Service
    THEN match.HttpServiceRouteRules[match.HttpHostPort2Service[host]]
    ELSE <<>>

\* The rule that the method tree finds, or none.
FindRule(match, host, method, path) ==
  LET rules == RouteRules(match, host)
      fits  == {i \in DOMAIN rules : method \in rules[i].Methods /\ matchPath(rules[i], path)}
  IN  IF fits = {} THEN none ELSE rules[First(fits)]
=============================================================================
