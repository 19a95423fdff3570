-------------------------------- MODULE Node --------------------------------
(***************************************************************************)
(* What a program on a node meets when it uses an imported service: it     *)
(* asks for the service's name, is answered by the XDP program with the    *)
(* address of the bridge, connects there, and is led to the proxy, which   *)
(* asks which port the connection was for.                                 *)
(***************************************************************************)
EXTENDS DnsProxy, TrafficRedirect

CONSTANTS
  Names,        (* the names that the programs ask for                     *)
  Imported,     (* the ones that the bridge wrote into resdb               *)
  Ports,        (* the ports of the services                               *)
  Users,        (* who runs the programs: "root", "proxy" or others        *)
  MaxForgets

VARIABLES
  client,       (* socket -> [pc, user, name, port, ip] of its program     *)
  forgets

vars == <<dnsVars, redirectVars, client, forgets>>

DnsPod == "pod"
ClusterIP == "cluster"
RecordTypes == {"A", "AAAA"}

\* Mutant: the two types have different records.
ResolveEntries_ByType == [e \in Imported \X RecordTypes |-> [ip |-> IF e[2] = "A" THEN bridge ELSE "v6", ttl |-> 60]]

\* Mutant: only the first type is stored.
ResolveEntries_OnlyA == [e \in Imported \X {"A"} |-> [ip |-> bridge, ttl |-> 60]]

\* UpdateDNSResolveEntry: both types, always with the bridge's IPv4 address.
ResolveEntries == [e \in Imported \X RecordTypes |-> [ip |-> bridge, ttl |-> 60]]

Init ==
  /\ resdb = ResolveEntries
  /\ endpt = [e \in {DnsPod} |-> ClusterIP]
  /\ dns_buffer = null /\ cpu = [k \in Cpus |-> Idle]
  /\ RedirectInit
  /\ client \in [Sockets -> [pc : {"ask"}, user : Users, name : Names, port : Ports, ip : {none}]]
  /\ forgets = 0

\* A program's query, with the destination that kube-proxy put in.
Query(c, type) ==
  [ src |-> c, dst |-> DnsPod, dport |-> 53, udp |-> TRUE, query |-> TRUE, parsed |-> TRUE,
    name |-> client[c].name, type |-> type ]

Ask(c, k, type) ==
  /\ client[c].pc = "ask"
  /\ Receive(k, Query(c, type))
  /\ client' = [client EXCEPT ![c].pc = "wait"]
  /\ UNCHANGED <<redirectVars, forgets>>

\* What the DNS server says: it knows the names of the cluster, and does not
\* answer what is not a query.
ServerAnswer(pkt) == IF pkt.name \notin Imported THEN "other" ELSE none

\* A verdict is carried out.  A program takes a reply from the address that
\* it asked; it asks again when it hears nothing.
Deliver(k) ==
  LET c   == cpu[k].pkt.src
      got == IF cpu[k].pc = "XDP_TX"
               THEN IF cpu[k].reply.src = ClusterIP THEN cpu[k].reply.answer.ip ELSE "silence"
               ELSE IF cpu[k].pkt.query THEN ServerAnswer(cpu[k].pkt) ELSE "silence"
  IN  /\ cpu[k].pc \in {"XDP_TX", "XDP_PASS"}
      /\ client' = [client EXCEPT ![c].pc = IF got = "silence" THEN "ask"
                                            ELSE IF got = none THEN "unknown" ELSE "resolved",
                                  ![c].ip = IF got = "silence" THEN none ELSE got]
      /\ cpu' = [cpu EXCEPT ![k] = Idle]
      /\ UNCHANGED <<resdb, endpt, dns_buffer, redirectVars, forgets>>

Finish(k) ==
  /\ \/ Reply(k, TRUE) /\ UNCHANGED faults
     \/ Reply(k, FALSE) /\ faults < MaxFaults /\ faults' = faults + 1
  /\ UNCHANGED <<sock, sess_dest, pair_dest, sock_pair, lost, client, forgets>>

Dial(c, tuple) ==
  /\ client[c].pc = "resolved"
  /\ Connect(c, client[c].user, tuple, client[c].ip, client[c].port)
  /\ client' = [client EXCEPT ![c].pc = "connect"]
  /\ UNCHANGED <<dnsVars, forgets>>

ForgetEntry ==
  /\ forgets < MaxForgets /\ forgets' = forgets + 1
  /\ Forget
  /\ UNCHANGED <<redirectVars, client>>

InKernel(s) == Kernel(s) /\ UNCHANGED <<dnsVars, client, forgets>>

Next ==
  \/ \E c \in Sockets, k \in Cpus, t \in RecordTypes : Ask(c, k, t)
  \/ \E k \in Cpus : Finish(k) \/ Deliver(k)
  \/ \E c \in Sockets, tuple \in Tuples : Dial(c, tuple)
  \/ \E s \in Sockets : InKernel(s)
  \/ \E s \in Sockets : (Close(s) \/ Evict(s)) /\ UNCHANGED <<dnsVars, client, forgets>>
  \/ ForgetEntry

Spec == Init /\ [][Next]_vars

\* Programs retry, CPUs and the kernel's callbacks run, and a connection with
\* nothing more to say is closed.
Fairness ==
  /\ \A c \in Sockets :
       /\ SF_vars(\E k \in Cpus, t \in RecordTypes : Ask(c, k, t))
       /\ SF_vars(\E tuple \in Tuples : Dial(c, tuple))
       /\ WF_vars(InKernel(c))
       /\ WF_vars(Close(c) /\ UNCHANGED <<dnsVars, client, forgets>>)
  /\ \A k \in Cpus : WF_vars(Finish(k) \/ Deliver(k))

FairSpec == Spec /\ Fairness

-----------------------------------------------------------------------------
TypeOK ==
  /\ DOMAIN resdb \subseteq DOMAIN ResolveEntries /\ DOMAIN endpt \subseteq {DnsPod}
  /\ \A k \in Cpus : cpu[k].pc \in {"idle", "adjust", "XDP_TX", "XDP_PASS"}
  /\ \A s \in Sockets : sock[s].pc \in {"new", "denied", "syn", "active", "open", "proxied", "refused", "aborted", "closed"}
  /\ DOMAIN sess_dest \subseteq Sockets /\ lost \subseteq Sockets /\ faults \in 0..MaxFaults
  /\ \A c \in Sockets : client[c].pc \in {"ask", "wait", "resolved", "unknown", "connect"}

\* The shared buffer does no harm: whatever the CPUs do at the same time, a
\* reply holds the record that its own query matched.
ReplyIsOwnRecord ==
  \A k \in Cpus : cpu[k].pc = "XDP_TX" => cpu[k].reply.answer = cpu[k].matched

\* A reply is only sent from another address than the one the program asked
\* when the entry of the DNS pod was dropped meanwhile.
ReplyFromClusterIP ==
  \A k \in Cpus : cpu[k].pc = "XDP_TX" /\ DOMAIN endpt # {} => cpu[k].reply.src = ClusterIP

\* An imported service is reached from the node through the proxy or not at
\* all: a program other than root's that asked for its name connects to the
\* bridge and nowhere else, and there to the proxy, unless it is denied.
ImportedOnlyThroughProxy ==
  \A c \in Sockets :
    client[c].name \in Imported /\ client[c].user \notin {"root", "proxy"} /\ sock[c].pc # "new" =>
      sock[c].ip = bridge /\ (sock[c].userPort = proxyPort \/ sock[c].pc = "denied")

\* A program takes a reply of the XDP program for one of the DNS server: it
\* comes from the address that was asked, with the checksums it should have.
ReplyAcceptable == ReplyFromClusterIP /\ ChecksumUnlessCarry

\* Whatever entries are dropped and updates fail, nobody is led astray: a
\* program gets to the proxy or nowhere, and the proxy is told nothing or what
\* somebody asked for from that source port.
FaultsLeadNowhere == TypeOK /\ WrongOriginIsEarlier /\ ImportedOnlyThroughProxy

\* Without faults, every program that asks for an imported name and waits is
\* led to the proxy, which is told the right port, though the buffer, the source ports
\* and the maps are shared.
EventuallyProxied ==
  \A c \in Sockets :
    client[c].name \in Imported /\ Redirects(client[c].user, bridge, client[c].port)
      ~> (sock[c].pc \in {"proxied", "closed"} /\ sock[c].origin = Own(c)) \/ sock[c].pc = "aborted" \/ faults > 0 \/ forgets > 0
=============================================================================
