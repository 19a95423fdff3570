--------------------------- MODULE TrafficRedirect ---------------------------
(***************************************************************************)
(* The eBPF programs that lead TCP connections to the proxy of a node:     *)
(* ecnet_connect.c rewrites the port of a connection to the bridge and     *)
(* notes the port it was for, ecnet_sockops.c files the note under the     *)
(* addresses of the connection, ecnet_sockopt.c answers the proxy's        *)
(* SO_ORIGINAL_DST from there, and ecnet_redirmsg.c passes data directly   *)
(* between the two sockets.  The maps are LRU maps: the kernel drops       *)
(* entries of its own accord, and updates may fail.                        *)
(***************************************************************************)
EXTENDS Naturals, FiniteSets

CONSTANTS
  Sockets,     (* client sockets, that is socket cookies                   *)
  Tuples,      (* source addresses with port, which are used again         *)
  none,
  MaxFaults    (* bound on failed updates and dropped entries              *)

bridge == "bridge"            (* BRIDGE_IP *)
proxyPort == 15001            (* ECNET_PROXY_PORT *)

\* No program sends from the proxy's own address.
ASSUME TuplesAssumption == <<bridge, proxyPort>> \notin Tuples

ASSUME FaultsAssumption == MaxFaults \in Nat

VARIABLES
  sock,        (* cookie -> [pc, user, tuple, ip, port, userPort, origin]  *)
  sess_dest,   (* ecnet_sess_dest: cookie -> origin                        *)
  pair_dest,   (* ecnet_pair_dest: pair -> origin                          *)
  sock_pair,   (* ecnet_sock_pair: pair -> the socket with these addresses *)
  lost,        (* the sockets that a fault may have hit                    *)
  faults

redirectVars == <<sock, sess_dest, pair_dest, sock_pair, lost, faults>>

Empty == [x \in {} |-> none]
Put(f, x, v) == [y \in DOMAIN f \cup {x} |-> IF y = x THEN v ELSE f[y]]
Remove(f, x) == [y \in DOMAIN f \ {x} |-> f[y]]

\* The two ends of a connection, each with its own view of the addresses.
Pair(s, end) ==
  LET client == sock[s].tuple
      server == <<sock[s].ip, sock[s].userPort>>
  IN  IF end = "client" THEN <<client, server>> ELSE <<server, client>>

Peer(end) == IF end = "client" THEN "proxy" ELSE "client"

New == [pc |-> "new", user |-> none, tuple |-> none, ip |-> none, port |-> 0, userPort |-> 0, origin |-> none]

RedirectInit ==
  /\ sock = [s \in Sockets |-> New]
  /\ sess_dest = Empty /\ pair_dest = Empty /\ sock_pair = Empty
  /\ lost = {} /\ faults = 0

Fault(s) ==
  /\ faults < MaxFaults /\ faults' = faults + 1
  /\ lost' = lost \cup {s}

NoFault == UNCHANGED <<lost, faults>>

\* ecnet_tcp_con4: which connections are redirected.
Redirects(user, ip, port) ==
  port # proxyPort /\ ip = bridge /\ user \notin {"root", "proxy"}

\* The kernel gives a socket addresses that no open connection has.
Free(tuple, ip, userPort) ==
  \A t \in Sockets : sock[t].pc \in {"new", "denied", "refused", "aborted", "closed"}
                       \/ <<sock[t].tuple, sock[t].ip, sock[t].userPort>> # <<tuple, ip, userPort>>

\* Mutant: the note is written after the port is changed.
Connect_NoteAfterRewrite(s, user, tuple, ip, port) ==
  LET redirects == Redirects(user, ip, port)
      dialled   == IF redirects THEN proxyPort ELSE port
  IN  /\ sock[s].pc = "new"
      /\ Free(tuple, ip, dialled)
      /\ sess_dest' = IF redirects THEN Put(sess_dest, s, <<ip, dialled>>) ELSE sess_dest
      /\ sock' = [sock EXCEPT ![s] = [ pc |-> "syn", user |-> user, tuple |-> tuple, ip |-> ip, port |-> port,
                                       userPort |-> dialled, origin |-> none ]]
      /\ NoFault
      /\ UNCHANGED <<pair_dest, sock_pair>>

\* connect(): ecnet_sock_connect4.  A note that cannot be written denies the
\* connection.
Connect(s, user, tuple, ip, port) ==
  LET redirects == Redirects(user, ip, port)
      dialled   == IF redirects THEN proxyPort ELSE port
      asked     == [New EXCEPT !.user = user, !.tuple = tuple, !.ip = ip, !.port = port]
  IN  /\ sock[s].pc = "new"
      /\ Free(tuple, ip, dialled)
      /\ \/ /\ sess_dest' = IF redirects THEN Put(sess_dest, s, <<ip, port>>) ELSE sess_dest
            /\ sock' = [sock EXCEPT ![s] = [asked EXCEPT !.pc = "syn", !.userPort = dialled]]
            /\ NoFault
         \/ /\ redirects /\ Fault(s)
            /\ sock' = [sock EXCEPT ![s] = [asked EXCEPT !.pc = "denied"]]
            /\ UNCHANGED sess_dest
      /\ UNCHANGED <<pair_dest, sock_pair>>

\* bpf_sock_hash_update with BPF_NOEXIST.
AddSocket(s, end) ==
  sock_pair' = IF Pair(s, end) \in DOMAIN sock_pair THEN sock_pair
               ELSE Put(sock_pair, Pair(s, end), <<s, end>>)

\* Mutant: the note is filed under the addresses as the proxy sees them.
ActiveEstablished_OtherEnd(s) ==
  /\ sock[s].pc = "syn" /\ sock[s].ip = bridge /\ sock[s].userPort = proxyPort
  /\ sock' = [sock EXCEPT ![s].pc = "active"]
  /\ pair_dest' = IF s \in DOMAIN sess_dest THEN Put(pair_dest, Pair(s, "proxy"), sess_dest[s]) ELSE pair_dest
  /\ NoFault
  /\ AddSocket(s, "client")
  /\ UNCHANGED sess_dest

\* BPF_SOCK_OPS_ACTIVE_ESTABLISHED_CB: ecnet_sockops4 at the client.
ActiveEstablished(s) ==
  /\ sock[s].pc = "syn" /\ sock[s].ip = bridge /\ sock[s].userPort = proxyPort
  /\ sock' = [sock EXCEPT ![s].pc = "active"]
  /\ IF s \in DOMAIN sess_dest
       THEN \/ pair_dest' = Put(pair_dest, Pair(s, "client"), sess_dest[s]) /\ NoFault
            \/ UNCHANGED pair_dest /\ Fault(s)
       ELSE UNCHANGED pair_dest /\ NoFault
  /\ AddSocket(s, "client")
  /\ UNCHANGED sess_dest

\* BPF_SOCK_OPS_PASSIVE_ESTABLISHED_CB: the same program at the proxy, whose
\* cookie has no note.
PassiveEstablished(s) ==
  /\ sock[s].pc = "active"
  /\ sock' = [sock EXCEPT ![s].pc = "open"]
  /\ AddSocket(s, "proxy")
  /\ UNCHANGED <<sess_dest, pair_dest, lost, faults>>

\* getsockopt(SO_ORIGINAL_DST): ecnet_sockopt4 looks for the client's view.
GetOriginalDst(s) ==
  LET p == Pair(s, "client")
  IN  /\ sock[s].pc = "open"
      /\ sock' = [sock EXCEPT ![s].pc = "proxied",
                              ![s].origin = IF p \in DOMAIN pair_dest THEN pair_dest[p] ELSE none]
      /\ UNCHANGED <<sess_dest, pair_dest, sock_pair, lost, faults>>

\* Nothing else listens at the bridge; other hosts are none of our business.
Unredirected(s) ==
  /\ sock[s].pc = "syn" /\ <<sock[s].ip, sock[s].userPort>> # <<bridge, proxyPort>>
  /\ sock' = [sock EXCEPT ![s].pc = IF sock[s].ip = bridge THEN "refused" ELSE "closed"]
  /\ UNCHANGED <<sess_dest, pair_dest, sock_pair, lost, faults>>

\* A closed socket leaves the sockhash; the notes stay.  The client may give
\* up before the proxy has asked.
Close(s) ==
  /\ sock[s].pc \in {"open", "proxied"}
  /\ sock' = [sock EXCEPT ![s].pc = IF @ = "open" THEN "aborted" ELSE "closed"]
  /\ sock_pair' = Remove(Remove(sock_pair, Pair(s, "client")), Pair(s, "proxy"))
  /\ UNCHANGED <<sess_dest, pair_dest, lost, faults>>

\* An LRU map drops the note of a connection, for good once it is not
\* written again.
Evict(s) ==
  /\ sock[s].pc \in {"syn", "active", "open"} /\ Fault(s)
  /\ \/ s \in DOMAIN sess_dest /\ sess_dest' = Remove(sess_dest, s) /\ UNCHANGED pair_dest
     \/ /\ Pair(s, "client") \in DOMAIN pair_dest
        /\ pair_dest' = Remove(pair_dest, Pair(s, "client")) /\ UNCHANGED sess_dest
  /\ UNCHANGED <<sock, sock_pair>>

\* Mutant: the key is the socket's own.
RedirectMsg_OwnKey(s, end) ==
  IF Pair(s, end) \in DOMAIN sock_pair THEN sock_pair[Pair(s, end)] ELSE none

\* ecnet_redirmsg: the socket that data sent at an end goes to; none is the
\* way through the TCP stack.
RedirectMsg(s, end) ==
  IF Pair(s, Peer(end)) \in DOMAIN sock_pair THEN sock_pair[Pair(s, Peer(end))] ELSE none

Kernel(s) == ActiveEstablished(s) \/ PassiveEstablished(s) \/ GetOriginalDst(s) \/ Unredirected(s)

-----------------------------------------------------------------------------
Redirected(s) == Redirects(sock[s].user, sock[s].ip, sock[s].port)

Own(s) == <<sock[s].ip, sock[s].port>>

\* The proxy is told the port that the client asked for, for every redirected
\* connection that no fault hit, with source ports in use again and notes of
\* earlier connections left in the maps.
OriginIsOwn ==
  \A s \in Sockets : sock[s].pc = "proxied" /\ Redirected(s) /\ s \notin lost => sock[s].origin = Own(s)

\* After a fault the proxy is told nothing, or else what an earlier connection
\* from the same source port asked for: never a destination nobody asked for
\* there.
WrongOriginIsEarlier ==
  \A s \in Sockets : sock[s].pc = "proxied" =>
    \/ sock[s].origin \in {Own(s), none}
    \/ \E t \in Sockets \ {s} : /\ sock[t].tuple = sock[s].tuple /\ sock[t].pc \in {"aborted", "closed"}
                                /\ Redirected(t) /\ sock[s].origin = Own(t)

\* Data is only ever passed to the other end of its own connection, whichever
\* connections used the addresses before.
DataStaysInConnection ==
  \A s \in Sockets, end \in {"client", "proxy"} :
    sock[s].pc \in {"open", "proxied"} => RedirectMsg(s, end) = <<s, Peer(end)>>
=============================================================================
