------------------------------ MODULE NodeProofs ------------------------------
(* The redirection of connections and the shared DNS buffer, for any number    *)
(* of programs, source ports, CPUs and faults.                                 *)
EXTENDS Node, TLAPS

IsSock(r) ==
  r = [ pc |-> r.pc, user |-> r.user, tuple |-> r.tuple, ip |-> r.ip, port |-> r.port,
        userPort |-> r.userPort, origin |-> r.origin ]

Addresses(s) == <<sock[s].tuple, sock[s].ip, sock[s].userPort>>

Established(s) == sock[s].pc \in {"active", "open", "proxied"}
Live(s) == sock[s].pc = "syn" \/ Established(s)

SockType ==
  /\ sock = [s \in Sockets |-> sock[s]]
  /\ \A s \in Sockets :
       /\ IsSock(sock[s])
       /\ sock[s].pc \in {"new", "denied", "syn", "active", "open", "proxied", "refused", "aborted", "closed"}
       /\ Live(s) => sock[s].tuple \in Tuples
       /\ Established(s) => sock[s].ip = bridge /\ sock[s].userPort = proxyPort
       /\ Live(s) /\ Redirected(s) => sock[s].ip = bridge /\ sock[s].userPort = proxyPort

\* Connections that are open at a time have different addresses.
Distinct == \A s, t \in Sockets : Live(s) /\ Live(t) /\ s # t => Addresses(s) # Addresses(t)

\* Where the note of a connection that no fault hit lies, until the proxy asks.
Noted ==
  \A s \in Sockets : Redirected(s) /\ s \notin lost =>
    /\ sock[s].pc = "syn" => s \in DOMAIN sess_dest /\ sess_dest[s] = Own(s)
    /\ sock[s].pc \in {"active", "open"} =>
         Pair(s, "client") \in DOMAIN pair_dest /\ pair_dest[Pair(s, "client")] = Own(s)

\* The sockhash holds the ends that are established, and no other.
Filed ==
  /\ \A s \in Sockets :
       /\ Established(s) => /\ Pair(s, "client") \in DOMAIN sock_pair
                            /\ sock_pair[Pair(s, "client")] = <<s, "client">>
       /\ sock[s].pc \in {"open", "proxied"} => /\ Pair(s, "proxy") \in DOMAIN sock_pair
                                               /\ sock_pair[Pair(s, "proxy")] = <<s, "proxy">>
  /\ \A e \in DOMAIN sock_pair : \E s \in Sockets :
       \/ Established(s) /\ e = Pair(s, "client")
       \/ sock[s].pc \in {"open", "proxied"} /\ e = Pair(s, "proxy")

RedirectInv == SockType /\ Distinct /\ Noted /\ Filed /\ OriginIsOwn

\* Different connections have different pairs, and no client end looks like a
\* proxy end.
LEMMA PairsDiffer ==
  ASSUME SockType, Distinct, NEW s \in Sockets, NEW t \in Sockets, Live(s), Live(t)
  PROVE  /\ s # t => Pair(s, "client") # Pair(t, "client") /\ Pair(s, "proxy") # Pair(t, "proxy")
         /\ sock[t].ip = bridge /\ sock[t].userPort = proxyPort => Pair(s, "client") # Pair(t, "proxy")
<1>1. s # t => Addresses(s) # Addresses(t)
  BY DEF Distinct
<1>2. sock[s].tuple # <<bridge, proxyPort>>
  BY TuplesAssumption DEF SockType
<1> QED
  BY <1>1, <1>2 DEF Pair, Addresses

\* Init has no connection.
LEMMA InitRedirect == Init => RedirectInv
<1> SUFFICES ASSUME Init PROVE RedirectInv
  OBVIOUS
<1>1. \A s \in Sockets : sock[s] = New
  BY DEF Init, RedirectInit
<1>2. DOMAIN sock_pair = {} /\ sock = [s \in Sockets |-> sock[s]]
  BY DEF Init, RedirectInit, Empty
<1> QED
  BY <1>1, <1>2 DEF RedirectInv, SockType, IsSock, New, Distinct, Noted, Filed, OriginIsOwn, Live, Established

\* The sockhash stays in order when it and the sockets are left alone.
LEMMA FiledUnchanged ==
  ASSUME Filed, UNCHANGED <<sock, sock_pair>> PROVE Filed'
<1>1. \A t \in Sockets : /\ Established(t)' = Established(t) /\ sock'[t].pc = sock[t].pc
                         /\ Pair(t, "client")' = Pair(t, "client") /\ Pair(t, "proxy")' = Pair(t, "proxy")
  BY DEF Established, Pair
<1> QED
  BY <1>1 DEF Filed

\* Steps that leave the sockets and the maps alone.
LEMMA StutterRedirect ==
  ASSUME RedirectInv, UNCHANGED <<sock, sess_dest, pair_dest, sock_pair, lost>> PROVE RedirectInv'
<1>1. SockType'
  BY DEF RedirectInv, SockType, Live, Established, Redirected
<1>2. Distinct'
  BY DEF RedirectInv, Distinct, Live, Established, Addresses
<1>3. Noted'
  BY DEF RedirectInv, Noted, Redirected, Own, Pair
<1>4. Filed'
  BY FiledUnchanged DEF RedirectInv
<1>5. OriginIsOwn'
  BY DEF RedirectInv, OriginIsOwn, Redirected, Own
<1> QED
  BY <1>1, <1>2, <1>3, <1>4, <1>5 DEF RedirectInv

\* What a step does to one socket leaves the others as they were.
LEMMA OneSocket ==
  ASSUME SockType, NEW s \in Sockets, NEW r, IsSock(r), sock' = [sock EXCEPT ![s] = r]
  PROVE  /\ sock' = [t \in Sockets |-> sock'[t]]
         /\ sock'[s] = r
         /\ \A t \in Sockets : t # s => sock'[t] = sock[t]
BY DEF SockType

\* A socket that is not established leaves the sockhash in order.
LEMMA FiledKept ==
  ASSUME Filed, NEW s \in Sockets, UNCHANGED sock_pair, ~Established(s), ~Established(s)',
         \A t \in Sockets : t # s => sock'[t] = sock[t]
  PROVE  Filed'
<1>1. \A t \in Sockets : t # s => /\ Established(t)' = Established(t) /\ sock'[t].pc = sock[t].pc
                                  /\ Pair(t, "client")' = Pair(t, "client") /\ Pair(t, "proxy")' = Pair(t, "proxy")
  BY DEF Established, Pair
<1>2. sock[s].pc \notin {"open", "proxied"} /\ sock'[s].pc \notin {"open", "proxied"}
  BY DEF Established
<1>3. \A t \in Sockets :
        /\ Established(t)' => /\ Pair(t, "client")' \in DOMAIN sock_pair'
                              /\ sock_pair'[Pair(t, "client")'] = <<t, "client">>
        /\ sock'[t].pc \in {"open", "proxied"} => /\ Pair(t, "proxy")' \in DOMAIN sock_pair'
                                                  /\ sock_pair'[Pair(t, "proxy")'] = <<t, "proxy">>
  BY <1>1, <1>2 DEF Filed
<1>4. \A e \in DOMAIN sock_pair' : \E t \in Sockets :
        \/ Established(t)' /\ e = Pair(t, "client")'
        \/ sock'[t].pc \in {"open", "proxied"} /\ e = Pair(t, "proxy")'
  BY <1>1, <1>2 DEF Filed
<1> QED
  BY <1>3, <1>4 DEF Filed

\* connect() takes free addresses and leaves a note.
LEMMA ConnectInv ==
  ASSUME RedirectInv, NEW s \in Sockets, NEW user, NEW tuple \in Tuples, NEW ip, NEW port,
         Connect(s, user, tuple, ip, port)
  PROVE  RedirectInv'
<1> DEFINE redirects == Redirects(user, ip, port)
           dialled   == IF redirects THEN proxyPort ELSE port
           asked(pc, up) == [ pc |-> pc, user |-> user, tuple |-> tuple, ip |-> ip, port |-> port,
                              userPort |-> up, origin |-> none ]
<1>0. SockType /\ Distinct /\ Noted /\ Filed /\ OriginIsOwn
  BY DEF RedirectInv
<1>1. sock[s].pc = "new" /\ Free(tuple, ip, dialled) /\ UNCHANGED <<pair_dest, sock_pair>>
  BY DEF Connect
<1>2. \/ /\ sess_dest' = IF redirects THEN Put(sess_dest, s, <<ip, port>>) ELSE sess_dest
         /\ sock' = [sock EXCEPT ![s] = asked("syn", dialled)]
         /\ UNCHANGED lost
      \/ /\ sock' = [sock EXCEPT ![s] = asked("denied", 0)]
         /\ lost' = lost \cup {s} /\ UNCHANGED sess_dest
  BY Zenon DEF Connect, New, NoFault, Fault
<1>3. redirects => ip = bridge /\ dialled = proxyPort
  BY DEF Redirects
<1>4. \A t \in Sockets : Live(t) => t # s /\ Addresses(t) # <<tuple, ip, dialled>>
  BY <1>0, <1>1 DEF Free, Live, Established, Addresses, SockType
<1> HIDE DEF redirects, dialled
<1>5. CASE /\ sess_dest' = IF redirects THEN Put(sess_dest, s, <<ip, port>>) ELSE sess_dest
           /\ sock' = [sock EXCEPT ![s] = asked("syn", dialled)]
           /\ UNCHANGED lost
  <2>1. sock' = [t \in Sockets |-> sock'[t]] /\ sock'[s] = asked("syn", dialled)
          /\ \A t \in Sockets : t # s => sock'[t] = sock[t]
    BY <1>0, <1>5, OneSocket, Zenon DEF IsSock
  <2>2. Redirected(s)' = redirects
    BY <2>1 DEF Redirected, redirects
  <2>3. SockType'
    <3>1. ASSUME NEW t \in Sockets, t # s
          PROVE  /\ IsSock(sock'[t]) /\ sock'[t] = sock[t]
                 /\ Live(t)' = Live(t) /\ Established(t)' = Established(t) /\ Redirected(t)' = Redirected(t)
      BY <1>0, <2>1, <3>1 DEF SockType, Live, Established, Redirected
    <3>2. /\ IsSock(sock'[s]) /\ sock'[s].pc = "syn" /\ sock'[s].tuple \in Tuples /\ ~Established(s)'
          /\ sock'[s].ip = ip /\ sock'[s].userPort = dialled
      BY <2>1 DEF IsSock, Established
    <3> QED
      BY <1>0, <1>3, <2>1, <2>2, <3>1, <3>2 DEF SockType
  <2>4. Distinct'
    BY <1>0, <1>4, <2>1 DEF Distinct, Live, Established, Addresses
  <2>5. \A t \in Sockets : t # s /\ t \in DOMAIN sess_dest => t \in DOMAIN sess_dest' /\ sess_dest'[t] = sess_dest[t]
    BY <1>5 DEF Put
  <2>6. redirects => s \in DOMAIN sess_dest' /\ sess_dest'[s] = <<ip, port>>
    BY <1>5 DEF Put
  <2>7. Noted'
    <3>1. ASSUME NEW t \in Sockets, t # s
          PROVE  /\ sock'[t].pc = sock[t].pc /\ Redirected(t)' = Redirected(t) /\ Own(t)' = Own(t)
                 /\ Pair(t, "client")' = Pair(t, "client")
      BY <2>1, <3>1 DEF Redirected, Own, Pair
    <3>2. sock'[s].pc = "syn" /\ Own(s)' = <<ip, port>>
      BY <2>1 DEF Own
    <3>3. ASSUME NEW t \in Sockets, Redirected(t)', t \notin lost'
          PROVE  /\ sock'[t].pc = "syn" => t \in DOMAIN sess_dest' /\ sess_dest'[t] = Own(t)'
                 /\ sock'[t].pc \in {"active", "open"} =>
                      Pair(t, "client")' \in DOMAIN pair_dest' /\ pair_dest'[Pair(t, "client")'] = Own(t)'
      <4>1. CASE t = s
        BY <2>2, <2>6, <3>2, <3>3, <4>1, Zenon
      <4>2. CASE t # s
        BY <1>0, <1>1, <1>5, <2>5, <3>1, <3>3, <4>2 DEF Noted
      <4> QED
        BY <4>1, <4>2
    <3> QED
      BY <3>3 DEF Noted
  <2>8. Filed'
    BY <1>0, <1>1, <2>1, FiledKept DEF Established
  <2>9. OriginIsOwn'
    BY <1>0, <1>5, <2>1 DEF OriginIsOwn, Redirected, Own
  <2> QED
    BY <2>3, <2>4, <2>7, <2>8, <2>9 DEF RedirectInv
<1>6. CASE /\ sock' = [sock EXCEPT ![s] = asked("denied", 0)]
           /\ lost' = lost \cup {s} /\ UNCHANGED sess_dest
  <2>1. sock' = [t \in Sockets |-> sock'[t]] /\ sock'[s] = asked("denied", 0)
          /\ \A t \in Sockets : t # s => sock'[t] = sock[t]
    BY <1>0, <1>6, OneSocket, Zenon DEF IsSock
  <2>2. SockType' /\ Distinct'
    <3>1. SockType'
      BY <1>0, <2>1 DEF SockType, IsSock, Live, Established, Redirected
    <3>2. Distinct'
      BY <1>0, <2>1 DEF Distinct, Live, Established, Addresses
    <3> QED
      BY <3>1, <3>2
  <2>3. Noted' /\ OriginIsOwn'
    BY <1>0, <1>1, <1>6, <2>1, Zenon DEF Noted, OriginIsOwn, Redirected, Own, Pair
  <2>4. Filed'
    BY <1>0, <1>1, <2>1, FiledKept DEF Established
  <2> QED
    BY <2>2, <2>3, <2>4 DEF RedirectInv
<1> QED
  BY <1>2, <1>5, <1>6

\* What a callback changes of a socket: where it stands, and its origin.
SamePlace(s, pc, origin) ==
  /\ sock' = [t \in Sockets |-> sock'[t]]
  /\ \A t \in Sockets :
       /\ IsSock(sock'[t])
       /\ sock'[t].pc = IF t = s THEN pc ELSE sock[t].pc
       /\ sock'[t].origin = IF t = s THEN origin ELSE sock[t].origin
       /\ sock'[t].tuple = sock[t].tuple /\ sock'[t].ip = sock[t].ip /\ sock'[t].userPort = sock[t].userPort
       /\ sock'[t].user = sock[t].user
       /\ Pair(t, "client")' = Pair(t, "client") /\ Pair(t, "proxy")' = Pair(t, "proxy")
       /\ Redirected(t)' = Redirected(t) /\ Own(t)' = Own(t) /\ Addresses(t)' = Addresses(t)

\* A step that sets where a socket stands and its origin changes nothing else.
LEMMA CallbackStep ==
  ASSUME SockType, NEW s \in Sockets, NEW pc, NEW origin,
         sock' = [sock EXCEPT ![s].pc = pc, ![s].origin = origin]
  PROVE  SamePlace(s, pc, origin)
<1> DEFINE r == [ pc |-> pc, user |-> sock[s].user, tuple |-> sock[s].tuple, ip |-> sock[s].ip, port |-> sock[s].port,
                  userPort |-> sock[s].userPort, origin |-> origin ]
<1>1. sock = [t \in Sockets |-> sock[t]] /\ IsSock(sock[s])
  BY DEF SockType
<1>2. sock' = [t \in Sockets |-> sock'[t]] /\ \A t \in Sockets : t # s => sock'[t] = sock[t]
  BY <1>1
<1>3. sock'[s] = [[sock[s] EXCEPT !.pc = pc] EXCEPT !.origin = origin]
  BY <1>1
<1>4. sock'[s] = r
  BY <1>1, <1>3, Zenon DEF IsSock
<1>5. \A t \in Sockets : IsSock(sock'[t])
  BY <1>2, <1>4 DEF SockType, IsSock
<1>6. ASSUME NEW t \in Sockets
      PROVE  /\ sock'[t].pc = IF t = s THEN pc ELSE sock[t].pc
             /\ sock'[t].origin = IF t = s THEN origin ELSE sock[t].origin
             /\ sock'[t].tuple = sock[t].tuple /\ sock'[t].ip = sock[t].ip /\ sock'[t].userPort = sock[t].userPort
             /\ sock'[t].user = sock[t].user /\ sock'[t].port = sock[t].port
  <2>1. CASE t = s
    BY <1>4, <2>1
  <2>2. CASE t # s
    BY <1>2, <2>2, Zenon
  <2> QED
    BY <2>1, <2>2
<1> HIDE DEF r
<1>7. ASSUME NEW t \in Sockets
      PROVE  /\ Pair(t, "client")' = Pair(t, "client") /\ Pair(t, "proxy")' = Pair(t, "proxy")
             /\ Redirected(t)' = Redirected(t) /\ Own(t)' = Own(t) /\ Addresses(t)' = Addresses(t)
  <2>1. Redirected(t)' = Redirected(t)
    BY <1>6, Zenon DEF Redirected
  <2>2. Own(t)' = Own(t) /\ Addresses(t)' = Addresses(t)
    BY <1>6, Zenon DEF Own, Addresses
  <2>3. Pair(t, "client")' = Pair(t, "client") /\ Pair(t, "proxy")' = Pair(t, "proxy")
    <3>1. /\ Pair(t, "client") = <<sock[t].tuple, <<sock[t].ip, sock[t].userPort>>>>
          /\ Pair(t, "proxy") = <<<<sock[t].ip, sock[t].userPort>>, sock[t].tuple>>
      BY DEF Pair
    <3>2. /\ Pair(t, "client")' = <<sock'[t].tuple, <<sock'[t].ip, sock'[t].userPort>>>>
          /\ Pair(t, "proxy")' = <<<<sock'[t].ip, sock'[t].userPort>>, sock'[t].tuple>>
      BY DEF Pair
    <3> QED
      BY <1>6, <3>1, <3>2, Zenon
  <2> QED
    BY <2>1, <2>2, <2>3
<1> QED
  BY <1>2, <1>5, <1>6, <1>7, Zenon DEF SamePlace

\* So does one that leaves the origin alone.
LEMMA PcStep ==
  ASSUME SockType, NEW s \in Sockets, NEW pc, sock' = [sock EXCEPT ![s].pc = pc]
  PROVE  SamePlace(s, pc, sock[s].origin)
<1>1. sock' = [sock EXCEPT ![s].pc = pc, ![s].origin = sock[s].origin]
  BY Zenon DEF SockType, IsSock
<1> QED
  BY <1>1, CallbackStep, Zenon

\* A connection that is set up, asked about or over keeps types and addresses.
LEMMA PlaceKept ==
  ASSUME SockType, Distinct, NEW s \in Sockets, NEW pc, NEW origin, SamePlace(s, pc, origin),
         pc \in {"active", "open", "proxied"} => Live(s) /\ sock[s].ip = bridge /\ sock[s].userPort = proxyPort,
         pc \in {"active", "open", "proxied", "refused", "aborted", "closed"}
  PROVE  SockType' /\ Distinct'
<1>1. \A t \in Sockets : Live(t)' => Live(t)
  BY DEF SamePlace, Live, Established
<1>2. Distinct'
  BY <1>1 DEF Distinct, SamePlace
<1>3. SockType'
  BY <1>1 DEF SockType, SamePlace, Live, Established
<1> QED
  BY <1>2, <1>3

\* The client's callback moves the note to the addresses.
LEMMA ActiveInv ==
  ASSUME RedirectInv, NEW s \in Sockets, ActiveEstablished(s) PROVE RedirectInv'
<1>0. SockType /\ Distinct /\ Noted /\ Filed /\ OriginIsOwn
  BY DEF RedirectInv
<1>1. sock[s].pc = "syn" /\ sock[s].ip = bridge /\ sock[s].userPort = proxyPort /\ Live(s) /\ ~Established(s)
  BY DEF ActiveEstablished, Live, Established
<1>2. SamePlace(s, "active", sock[s].origin)
  BY <1>0, PcStep, Zenon DEF ActiveEstablished
<1>3. SockType' /\ Distinct'
  BY <1>0, <1>1, <1>2, PlaceKept
<1>4. \A t \in Sockets : t # s /\ Live(t) => /\ Pair(s, "client") # Pair(t, "client")
                                             /\ Established(t) => Pair(s, "client") # Pair(t, "proxy")
  BY <1>0, <1>1, PairsDiffer DEF SockType, Live
<1>5. Noted'
  <2>1. UNCHANGED sess_dest /\ lost \subseteq lost'
    BY DEF ActiveEstablished, NoFault, Fault
  <2>2. \A t \in Sockets : t # s /\ Live(t) /\ Pair(t, "client") \in DOMAIN pair_dest =>
          Pair(t, "client") \in DOMAIN pair_dest' /\ pair_dest'[Pair(t, "client")] = pair_dest[Pair(t, "client")]
    BY <1>4 DEF ActiveEstablished, Put
  <2>3. Redirected(s) /\ s \notin lost' =>
          Pair(s, "client") \in DOMAIN pair_dest' /\ pair_dest'[Pair(s, "client")] = Own(s)
    BY <1>0, <1>1, <2>1 DEF ActiveEstablished, Put, Noted, Fault
  <2> QED
    BY <1>0, <1>2, <2>1, <2>2, <2>3 DEF Noted, SamePlace, Live, Established
<1>6. Pair(s, "client") \notin DOMAIN sock_pair
  BY <1>0, <1>1, <1>4 DEF Filed, Live, Established
<1>7. sock_pair' = Put(sock_pair, Pair(s, "client"), <<s, "client">>)
  BY <1>6 DEF ActiveEstablished, AddSocket
<1>8. Filed'
  <2>0. \A t \in Sockets : Pair(t, "client")' = Pair(t, "client") /\ Pair(t, "proxy")' = Pair(t, "proxy")
    BY <1>2 DEF SamePlace
  <2>1. \A t \in Sockets : Established(t)' <=> (t = s \/ Established(t))
    BY <1>2 DEF SamePlace, Established
  <2>2. \A t \in Sockets : sock'[t].pc \in {"open", "proxied"} <=> sock[t].pc \in {"open", "proxied"}
    BY <1>1, <1>2 DEF SamePlace
  <2>3. \A t \in Sockets : Established(t) => t # s
    BY <1>1
  <2>4. \A e \in DOMAIN sock_pair : e \in DOMAIN sock_pair' /\ sock_pair'[e] = sock_pair[e]
    BY <1>6, <1>7 DEF Put
  <2>5. DOMAIN sock_pair' = DOMAIN sock_pair \cup {Pair(s, "client")} /\ sock_pair'[Pair(s, "client")] = <<s, "client">>
    BY <1>7 DEF Put
  <2>6. ASSUME NEW t \in Sockets
        PROVE  /\ Established(t)' => /\ Pair(t, "client")' \in DOMAIN sock_pair'
                                     /\ sock_pair'[Pair(t, "client")'] = <<t, "client">>
               /\ sock'[t].pc \in {"open", "proxied"} => /\ Pair(t, "proxy")' \in DOMAIN sock_pair'
                                                         /\ sock_pair'[Pair(t, "proxy")'] = <<t, "proxy">>
    BY <1>0, <2>0, <2>1, <2>2, <2>4, <2>5 DEF Filed
  <2>7. ASSUME NEW e \in DOMAIN sock_pair'
        PROVE  \E t \in Sockets : \/ Established(t)' /\ e = Pair(t, "client")'
                                  \/ sock'[t].pc \in {"open", "proxied"} /\ e = Pair(t, "proxy")'
    BY <1>0, <2>0, <2>1, <2>2, <2>5 DEF Filed
  <2> QED
    BY <2>6, <2>7 DEF Filed
<1>9. OriginIsOwn'
  <2>1. lost \subseteq lost'
    BY DEF ActiveEstablished, NoFault, Fault
  <2> QED
    BY <1>0, <1>2, <2>1 DEF OriginIsOwn, SamePlace
<1> QED
  BY <1>3, <1>5, <1>8, <1>9 DEF RedirectInv

\* The proxy's callback adds its end.
LEMMA PassiveInv ==
  ASSUME RedirectInv, NEW s \in Sockets, PassiveEstablished(s) PROVE RedirectInv'
<1>0. SockType /\ Distinct /\ Noted /\ Filed /\ OriginIsOwn
  BY DEF RedirectInv
<1>1. sock[s].pc = "active" /\ Established(s) /\ Live(s) /\ UNCHANGED <<sess_dest, pair_dest, lost>>
  BY DEF PassiveEstablished, Live, Established
<1>2. SamePlace(s, "open", sock[s].origin)
  BY <1>0, PcStep, Zenon DEF PassiveEstablished
<1>3. sock[s].ip = bridge /\ sock[s].userPort = proxyPort
  BY <1>0, <1>1 DEF SockType
<1>4. SockType' /\ Distinct'
  BY <1>0, <1>1, <1>2, <1>3, PlaceKept
<1>5. Noted' /\ OriginIsOwn'
  <2>1. Noted'
    BY <1>0, <1>1, <1>2 DEF Noted, SamePlace
  <2>2. OriginIsOwn'
    BY <1>0, <1>1, <1>2 DEF OriginIsOwn, SamePlace
  <2> QED
    BY <2>1, <2>2
<1>6. \A t \in Sockets : Live(t) => Pair(t, "client") # Pair(s, "proxy") /\ (t # s => Pair(t, "proxy") # Pair(s, "proxy"))
  BY <1>0, <1>1, <1>3, PairsDiffer
<1>7. Pair(s, "proxy") \notin DOMAIN sock_pair
  BY <1>0, <1>1, <1>6 DEF Filed, Live, Established
<1>8. sock_pair' = Put(sock_pair, Pair(s, "proxy"), <<s, "proxy">>)
  BY <1>7 DEF PassiveEstablished, AddSocket
<1>9. Filed'
  <2>0. \A t \in Sockets : Pair(t, "client")' = Pair(t, "client") /\ Pair(t, "proxy")' = Pair(t, "proxy")
    BY <1>2 DEF SamePlace
  <2>1. \A t \in Sockets : Established(t)' <=> Established(t)
    BY <1>1, <1>2 DEF SamePlace, Established
  <2>2. \A t \in Sockets : sock'[t].pc \in {"open", "proxied"} <=> (t = s \/ sock[t].pc \in {"open", "proxied"})
    BY <1>1, <1>2 DEF SamePlace
  <2>3. \A e \in DOMAIN sock_pair : e \in DOMAIN sock_pair' /\ sock_pair'[e] = sock_pair[e]
    BY <1>7, <1>8 DEF Put
  <2>4. DOMAIN sock_pair' = DOMAIN sock_pair \cup {Pair(s, "proxy")} /\ sock_pair'[Pair(s, "proxy")] = <<s, "proxy">>
    BY <1>8 DEF Put
  <2>5. ASSUME NEW t \in Sockets
        PROVE  /\ Established(t)' => /\ Pair(t, "client")' \in DOMAIN sock_pair'
                                     /\ sock_pair'[Pair(t, "client")'] = <<t, "client">>
               /\ sock'[t].pc \in {"open", "proxied"} => /\ Pair(t, "proxy")' \in DOMAIN sock_pair'
                                                         /\ sock_pair'[Pair(t, "proxy")'] = <<t, "proxy">>
    BY <1>0, <2>0, <2>1, <2>2, <2>3, <2>4 DEF Filed
  <2>6. ASSUME NEW e \in DOMAIN sock_pair'
        PROVE  \E t \in Sockets : \/ Established(t)' /\ e = Pair(t, "client")'
                                  \/ sock'[t].pc \in {"open", "proxied"} /\ e = Pair(t, "proxy")'
    BY <1>0, <2>0, <2>1, <2>2, <2>4, Zenon DEF Filed
  <2> QED
    BY <2>5, <2>6 DEF Filed
<1> QED
  BY <1>4, <1>5, <1>9 DEF RedirectInv

\* A callback that establishes and closes nothing leaves the sockhash in order.
LEMMA FiledSame ==
  ASSUME Filed, NEW s \in Sockets, NEW pc, NEW origin, SamePlace(s, pc, origin), UNCHANGED sock_pair,
         Established(s)' <=> Established(s),
         pc \in {"open", "proxied"} <=> sock[s].pc \in {"open", "proxied"}
  PROVE  Filed'
<1>1. \A t \in Sockets : /\ Pair(t, "client")' = Pair(t, "client") /\ Pair(t, "proxy")' = Pair(t, "proxy")
                         /\ sock'[t].pc \in {"open", "proxied"} <=> sock[t].pc \in {"open", "proxied"}
  BY DEF SamePlace
<1>2. \A t \in Sockets : Established(t)' <=> Established(t)
  BY DEF SamePlace, Established
<1>3. ASSUME NEW t \in Sockets
      PROVE  /\ Established(t)' => /\ Pair(t, "client")' \in DOMAIN sock_pair'
                                   /\ sock_pair'[Pair(t, "client")'] = <<t, "client">>
             /\ sock'[t].pc \in {"open", "proxied"} => /\ Pair(t, "proxy")' \in DOMAIN sock_pair'
                                                       /\ sock_pair'[Pair(t, "proxy")'] = <<t, "proxy">>
  BY <1>1, <1>2 DEF Filed
<1>4. ASSUME NEW e \in DOMAIN sock_pair'
      PROVE  \E t \in Sockets : \/ Established(t)' /\ e = Pair(t, "client")'
                                \/ sock'[t].pc \in {"open", "proxied"} /\ e = Pair(t, "proxy")'
  <2>1. PICK t \in Sockets : \/ Established(t) /\ e = Pair(t, "client")
                             \/ sock[t].pc \in {"open", "proxied"} /\ e = Pair(t, "proxy")
    BY DEF Filed
  <2> QED
    BY <1>1, <1>2, <2>1
<1> QED
  BY <1>3, <1>4 DEF Filed

\* The proxy is answered from the note.
LEMMA OriginalDstInv ==
  ASSUME RedirectInv, NEW s \in Sockets, GetOriginalDst(s) PROVE RedirectInv'
<1> DEFINE p == Pair(s, "client")
           answer == IF p \in DOMAIN pair_dest THEN pair_dest[p] ELSE none
<1>0. SockType /\ Distinct /\ Noted /\ Filed /\ OriginIsOwn
  BY DEF RedirectInv
<1>1. sock[s].pc = "open" /\ Established(s) /\ Live(s) /\ UNCHANGED <<sess_dest, pair_dest, sock_pair, lost>>
  BY DEF GetOriginalDst, Live, Established
<1>2. SamePlace(s, "proxied", answer)
  BY <1>0, CallbackStep, Zenon DEF GetOriginalDst
<1>3. Redirected(s) /\ s \notin lost => answer = Own(s)
  BY <1>0, <1>1 DEF Noted
<1> HIDE DEF answer
<1>4. SockType' /\ Distinct'
  <2>1. sock[s].ip = bridge /\ sock[s].userPort = proxyPort
    BY <1>0, <1>1 DEF SockType
  <2> QED
    BY <1>0, <1>1, <1>2, <2>1, PlaceKept
<1>5. Noted'
  BY <1>0, <1>1, <1>2 DEF Noted, SamePlace
<1>6. OriginIsOwn'
  BY <1>0, <1>1, <1>2, <1>3, Zenon DEF OriginIsOwn, SamePlace
<1>7. Filed'
  <2>1. Established(s)'
    BY <1>2 DEF SamePlace, Established
  <2> QED
    BY <1>0, <1>1, <1>2, <2>1, FiledSame
<1> QED
  BY <1>4, <1>5, <1>6, <1>7 DEF RedirectInv

\* A connection that is not redirected has nothing to do with the maps.
LEMMA UnredirectedInv ==
  ASSUME RedirectInv, NEW s \in Sockets, Unredirected(s) PROVE RedirectInv'
<1> DEFINE pc == IF sock[s].ip = bridge THEN "refused" ELSE "closed"
<1>0. SockType /\ Distinct /\ Noted /\ Filed /\ OriginIsOwn
  BY DEF RedirectInv
<1>1. sock[s].pc = "syn" /\ ~Established(s) /\ UNCHANGED <<sess_dest, pair_dest, sock_pair, lost>>
  BY DEF Unredirected, Established
<1>2. SamePlace(s, pc, sock[s].origin)
  BY <1>0, PcStep, Zenon DEF Unredirected
<1>3. pc \in {"refused", "closed"}
  OBVIOUS
<1> HIDE DEF pc
<1>4. SockType' /\ Distinct'
  BY <1>0, <1>2, <1>3, PlaceKept
<1>5. Noted' /\ OriginIsOwn'
  <2>1. Noted'
    BY <1>0, <1>1, <1>2, <1>3 DEF Noted, SamePlace
  <2>2. OriginIsOwn'
    BY <1>0, <1>1, <1>2, <1>3 DEF OriginIsOwn, SamePlace
  <2> QED
    BY <2>1, <2>2
<1>6. Filed'
  <2>1. ~Established(s)'
    BY <1>2, <1>3 DEF SamePlace, Established
  <2> QED
    BY <1>0, <1>1, <1>2, <1>3, <2>1, FiledSame
<1> QED
  BY <1>4, <1>5, <1>6 DEF RedirectInv

\* Closing takes the two ends out, and no other.
LEMMA CloseInv ==
  ASSUME RedirectInv, NEW s \in Sockets, Close(s) PROVE RedirectInv'
<1> DEFINE pc == IF sock[s].pc = "open" THEN "aborted" ELSE "closed"
<1>0. SockType /\ Distinct /\ Noted /\ Filed /\ OriginIsOwn
  BY DEF RedirectInv
<1>1. sock[s].pc \in {"open", "proxied"} /\ Established(s) /\ Live(s) /\ UNCHANGED <<sess_dest, pair_dest, lost>>
  BY DEF Close, Established, Live
<1>2. SamePlace(s, pc, sock[s].origin)
  <2>1. sock' = [sock EXCEPT ![s].pc = pc]
    BY <1>0 DEF Close, SockType
  <2> QED
    BY <1>0, <2>1, PcStep, Zenon
<1>3. pc \in {"aborted", "closed"}
  OBVIOUS
<1> HIDE DEF pc
<1>4. SockType' /\ Distinct'
  BY <1>0, <1>2, <1>3, PlaceKept
<1>5. Noted' /\ OriginIsOwn'
  <2>1. Noted'
    BY <1>0, <1>1, <1>2, <1>3 DEF Noted, SamePlace
  <2>2. OriginIsOwn'
    BY <1>0, <1>1, <1>2, <1>3 DEF OriginIsOwn, SamePlace
  <2> QED
    BY <2>1, <2>2
<1>6. Filed'
  <2>0. \A t \in Sockets : Pair(t, "client")' = Pair(t, "client") /\ Pair(t, "proxy")' = Pair(t, "proxy")
    BY <1>2 DEF SamePlace
  <2>1. \A t \in Sockets : Established(t)' <=> (t # s /\ Established(t))
    BY <1>2, <1>3 DEF SamePlace, Established
  <2>2. \A t \in Sockets : sock'[t].pc \in {"open", "proxied"} <=> (t # s /\ sock[t].pc \in {"open", "proxied"})
    BY <1>2, <1>3 DEF SamePlace
  <2>3. \A t \in Sockets : Established(t) /\ t # s =>
          /\ Pair(t, "client") \notin {Pair(s, "client"), Pair(s, "proxy")}
          /\ Pair(t, "proxy") \notin {Pair(s, "client"), Pair(s, "proxy")}
    <3>1. \A t \in Sockets : Established(t) => Live(t) /\ sock[t].ip = bridge /\ sock[t].userPort = proxyPort
      BY <1>0 DEF SockType, Live
    <3> QED
      BY <1>0, <1>1, <3>1, PairsDiffer
  <2>4. /\ DOMAIN sock_pair' = DOMAIN sock_pair \ {Pair(s, "client"), Pair(s, "proxy")}
        /\ \A e \in DOMAIN sock_pair' : sock_pair'[e] = sock_pair[e]
    BY DEF Close, Remove
  <2>5. \A t \in Sockets : sock[t].pc \in {"open", "proxied"} => Established(t)
    BY DEF Established
  <2>6. ASSUME NEW t \in Sockets
        PROVE  /\ Established(t)' => /\ Pair(t, "client")' \in DOMAIN sock_pair'
                                     /\ sock_pair'[Pair(t, "client")'] = <<t, "client">>
               /\ sock'[t].pc \in {"open", "proxied"} => /\ Pair(t, "proxy")' \in DOMAIN sock_pair'
                                                         /\ sock_pair'[Pair(t, "proxy")'] = <<t, "proxy">>
    <3>1. CASE Established(t)'
      <4>1. t # s /\ Established(t)
        BY <2>1, <3>1
      <4>2. Pair(t, "client") \in DOMAIN sock_pair' /\ sock_pair'[Pair(t, "client")] = <<t, "client">>
        BY <1>0, <2>3, <2>4, <4>1 DEF Filed
      <4>3. sock[t].pc \in {"open", "proxied"} =>
              Pair(t, "proxy") \in DOMAIN sock_pair' /\ sock_pair'[Pair(t, "proxy")] = <<t, "proxy">>
        BY <1>0, <2>3, <2>4, <4>1 DEF Filed
      <4> QED
        BY <2>0, <2>2, <4>2, <4>3
    <3> QED
      BY <2>1, <2>2, <2>5, <3>1
  <2>7. ASSUME NEW e \in DOMAIN sock_pair'
        PROVE  \E t \in Sockets : \/ Established(t)' /\ e = Pair(t, "client")'
                                  \/ sock'[t].pc \in {"open", "proxied"} /\ e = Pair(t, "proxy")'
    <3>1. PICK t \in Sockets : \/ Established(t) /\ e = Pair(t, "client")
                               \/ sock[t].pc \in {"open", "proxied"} /\ e = Pair(t, "proxy")
      BY <1>0, <2>4 DEF Filed
    <3>2. t # s
      BY <2>4, <3>1
    <3> QED
      BY <2>0, <2>1, <2>2, <3>1, <3>2
  <2> QED
    BY <2>6, <2>7 DEF Filed
<1> QED
  BY <1>4, <1>5, <1>6 DEF RedirectInv

\* A dropped entry is the note of the connection that the fault is counted for.
LEMMA EvictInv ==
  ASSUME RedirectInv, NEW s \in Sockets, Evict(s) PROVE RedirectInv'
<1>0. SockType /\ Distinct /\ Noted /\ Filed /\ OriginIsOwn
  BY DEF RedirectInv
<1>1. UNCHANGED <<sock, sock_pair>> /\ lost' = lost \cup {s} /\ Live(s)
  BY DEF Evict, Fault, Live, Established
<1>2. SockType' /\ Distinct'
  <2>1. SockType'
    BY <1>0, <1>1 DEF SockType, Live, Established, Redirected
  <2>2. Distinct'
    BY <1>0, <1>1 DEF Distinct, Live, Established, Addresses
  <2> QED
    BY <2>1, <2>2
<1>3. Filed'
  BY <1>0, <1>1, FiledUnchanged
<1>4. OriginIsOwn'
  BY <1>0, <1>1 DEF OriginIsOwn, Redirected, Own
<1>5. \A t \in Sockets \ {s} : t \in DOMAIN sess_dest => t \in DOMAIN sess_dest' /\ sess_dest'[t] = sess_dest[t]
  BY DEF Evict, Remove
<1>6. \A t \in Sockets \ {s} : sock[t].pc \in {"active", "open"} /\ Pair(t, "client") \in DOMAIN pair_dest =>
        Pair(t, "client") \in DOMAIN pair_dest' /\ pair_dest'[Pair(t, "client")] = pair_dest[Pair(t, "client")]
  <2>1. \A t \in Sockets \ {s} : sock[t].pc \in {"active", "open"} => Pair(t, "client") # Pair(s, "client")
    BY <1>0, <1>1, PairsDiffer, Zenon DEF Live, Established
  <2> QED
    BY <2>1 DEF Evict, Remove
<1>7. Noted'
  BY <1>0, <1>1, <1>5, <1>6 DEF Noted, Redirected, Own, Pair
<1> QED
  BY <1>2, <1>3, <1>4, <1>7 DEF RedirectInv

\* Every step of a node preserves the invariant of the redirection.
LEMMA NextRedirect == RedirectInv /\ [Next]_vars => RedirectInv'
<1> SUFFICES ASSUME RedirectInv, [Next]_vars PROVE RedirectInv'
  OBVIOUS
<1>1. ASSUME NEW c \in Sockets, NEW k \in Cpus, NEW t \in RecordTypes, Ask(c, k, t) PROVE RedirectInv'
  BY <1>1, StutterRedirect DEF Ask, redirectVars
<1>2. ASSUME NEW k \in Cpus, Finish(k) \/ Deliver(k) PROVE RedirectInv'
  BY <1>2, StutterRedirect, Zenon DEF Finish, Deliver, redirectVars
<1>3. ASSUME NEW c \in Sockets, NEW tuple \in Tuples, Dial(c, tuple) PROVE RedirectInv'
  BY <1>3, ConnectInv DEF Dial
<1>4. ASSUME NEW s \in Sockets, InKernel(s) PROVE RedirectInv'
  BY <1>4, ActiveInv, PassiveInv, OriginalDstInv, UnredirectedInv DEF InKernel, Kernel
<1>5. ASSUME NEW s \in Sockets, Close(s) \/ Evict(s) PROVE RedirectInv'
  BY <1>5, CloseInv, EvictInv
<1>6. ASSUME ForgetEntry PROVE RedirectInv'
  BY <1>6, StutterRedirect DEF ForgetEntry, redirectVars
<1>7. CASE UNCHANGED vars
  BY <1>7, StutterRedirect DEF vars, redirectVars
<1> QED
  BY <1>1, <1>2, <1>3, <1>4, <1>5, <1>6, <1>7 DEF Next

\* For any number of programs and source ports, and however often the kernel
\* drops notes of other connections: ecnet_sockopt4 tells the proxy the port
\* that the client of the connection asked for.
THEOREM OriginSound == Spec => []OriginIsOwn
<1>1. RedirectInv => OriginIsOwn
  BY DEF RedirectInv
<1> QED
  BY <1>1, InitRedirect, NextRedirect, PTL DEF Spec

\* For any number of connections, on addresses used before or not:
\* ecnet_redirmsg passes data to the other end of its own connection.
THEOREM DataSound == Spec => []DataStaysInConnection
<1>1. RedirectInv => DataStaysInConnection
  <2> SUFFICES ASSUME Filed, NEW s \in Sockets, NEW end \in {"client", "proxy"}, sock[s].pc \in {"open", "proxied"}
               PROVE  RedirectMsg(s, end) = <<s, Peer(end)>>
    BY DEF RedirectInv, DataStaysInConnection
  <2>1. Established(s)
    BY DEF Established
  <2>2. Peer(end) \in {"client", "proxy"}
    BY DEF Peer
  <2>3. Pair(s, Peer(end)) \in DOMAIN sock_pair /\ sock_pair[Pair(s, Peer(end))] = <<s, Peer(end)>>
    BY <2>1, <2>2, Zenon DEF Filed
  <2> QED
    BY <2>3 DEF RedirectMsg
<1> QED
  BY <1>1, InitRedirect, NextRedirect, PTL DEF Spec

-----------------------------------------------------------------------------
\* UpdateDNSResolveEntry stores one and the same record under every name and
\* type, which is why the CPUs may share dns_buffer.
TheRecord == [ip |-> bridge, ttl |-> 60]

BufferInv ==
  /\ \A x \in DOMAIN resdb : resdb[x] = TheRecord
  /\ cpu = [k \in Cpus |-> cpu[k]]
  /\ \A k \in Cpus :
       /\ cpu[k] = [pc |-> cpu[k].pc, pkt |-> cpu[k].pkt, matched |-> cpu[k].matched, reply |-> cpu[k].reply]
       /\ cpu[k].pc \in {"adjust", "XDP_TX"} => cpu[k].matched = TheRecord /\ dns_buffer = TheRecord
       /\ cpu[k].pc = "XDP_TX" => cpu[k].reply.answer = TheRecord

\* A step that leaves record r at CPU k.
CpuStep(k, r) ==
  /\ cpu' = [j \in Cpus |-> IF j = k THEN r ELSE cpu[j]]
  /\ r = [pc |-> r.pc, pkt |-> r.pkt, matched |-> r.matched, reply |-> r.reply]
  /\ UNCHANGED resdb /\ dns_buffer' \in {dns_buffer, TheRecord}
  /\ r.pc \in {"adjust", "XDP_TX"} => r.matched = TheRecord /\ dns_buffer' = TheRecord
  /\ r.pc = "XDP_TX" => r.reply.answer = TheRecord

\* Such a step keeps the invariant for all CPUs.
LEMMA OneCpu ==
  ASSUME BufferInv, NEW k \in Cpus, NEW r, CpuStep(k, r) PROVE BufferInv'
<1>1. cpu' = [j \in Cpus |-> cpu'[j]] /\ cpu'[k] = r /\ \A j \in Cpus : j # k => cpu'[j] = cpu[j]
  BY DEF CpuStep
<1>2. ASSUME NEW j \in Cpus, j # k
      PROVE  /\ cpu'[j] = [pc |-> cpu'[j].pc, pkt |-> cpu'[j].pkt, matched |-> cpu'[j].matched, reply |-> cpu'[j].reply]
             /\ cpu'[j].pc \in {"adjust", "XDP_TX"} => cpu'[j].matched = TheRecord /\ dns_buffer' = TheRecord
             /\ cpu'[j].pc = "XDP_TX" => cpu'[j].reply.answer = TheRecord
  BY <1>1, <1>2 DEF BufferInv, CpuStep
<1>3. /\ cpu'[k] = [pc |-> cpu'[k].pc, pkt |-> cpu'[k].pkt, matched |-> cpu'[k].matched, reply |-> cpu'[k].reply]
      /\ cpu'[k].pc \in {"adjust", "XDP_TX"} => cpu'[k].matched = TheRecord /\ dns_buffer' = TheRecord
      /\ cpu'[k].pc = "XDP_TX" => cpu'[k].reply.answer = TheRecord
  BY <1>1 DEF CpuStep
<1>4. \A x \in DOMAIN resdb' : resdb'[x] = TheRecord
  BY DEF BufferInv, CpuStep
<1>5. TheRecord' = TheRecord
  BY Zenon DEF TheRecord, bridge
<1> QED
  BY <1>1, <1>2, <1>3, <1>4, <1>5 DEF BufferInv

\* Steps that do not touch what a CPU uses, and put no other record anywhere.
LEMMA SameBuffer ==
  ASSUME BufferInv, UNCHANGED <<dns_buffer, cpu>>, \A x \in DOMAIN resdb' : resdb'[x] = TheRecord
  PROVE  BufferInv'
<1>1. TheRecord' = TheRecord
  BY DEF TheRecord, bridge
<1>2. cpu' = cpu /\ dns_buffer' = dns_buffer
  OBVIOUS
<1>3. cpu' = [k \in Cpus |-> cpu'[k]]
  BY <1>2, Zenon DEF BufferInv
<1>4. ASSUME NEW k \in Cpus
      PROVE  /\ cpu'[k] = [pc |-> cpu'[k].pc, pkt |-> cpu'[k].pkt, matched |-> cpu'[k].matched, reply |-> cpu'[k].reply]
             /\ cpu'[k].pc \in {"adjust", "XDP_TX"} => cpu'[k].matched = TheRecord /\ dns_buffer' = TheRecord
             /\ cpu'[k].pc = "XDP_TX" => cpu'[k].reply.answer = TheRecord
  BY <1>2, Zenon DEF BufferInv
<1> QED
  BY <1>1, <1>3, <1>4 DEF BufferInv

\* Steps that leave the map of records alone, too.
LEMMA StutterBuffer ==
  ASSUME BufferInv, UNCHANGED <<dns_buffer, cpu>>, UNCHANGED resdb PROVE BufferInv'
<1>1. \A x \in DOMAIN resdb' : resdb'[x] = TheRecord
  BY DEF BufferInv
<1> QED
  BY <1>1, SameBuffer

\* A packet is matched, or passed on.
LEMMA ReceiveBuffer ==
  ASSUME BufferInv, NEW k \in Cpus, NEW pkt, Receive(k, pkt) PROVE BufferInv'
<1>1. CASE Answers(pkt)
  <2>1. resdb[<<pkt.name, pkt.type>>] = TheRecord
    BY <1>1 DEF Answers, BufferInv
  <2> DEFINE r == [pc |-> "adjust", pkt |-> [pkt EXCEPT !.query = FALSE], matched |-> TheRecord, reply |-> null]
  <2>2. dns_buffer' = TheRecord /\ UNCHANGED resdb /\ cpu' = [cpu EXCEPT ![k] = r]
    BY <1>1, <2>1 DEF Receive
  <2>3. CpuStep(k, r)
    BY <2>2, Zenon DEF CpuStep, BufferInv
  <2> QED
    BY <2>3, OneCpu
<1>2. CASE ~Answers(pkt)
  <2> DEFINE r == [pc |-> "XDP_PASS", pkt |-> pkt, matched |-> null, reply |-> null]
  <2>1. UNCHANGED <<resdb, dns_buffer>> /\ cpu' = [cpu EXCEPT ![k] = r]
    BY <1>2, Zenon DEF Receive, Idle
  <2>2. CpuStep(k, r)
    BY <2>1 DEF CpuStep, BufferInv
  <2> QED
    BY <2>2, OneCpu
<1> QED
  BY <1>1, <1>2

\* The answer is copied from the buffer.
LEMMA ReplyBuffer ==
  ASSUME BufferInv, NEW k \in Cpus, NEW adjusted \in BOOLEAN, Reply(k, adjusted) PROVE BufferInv'
<1> DEFINE to == IF adjusted THEN "XDP_TX" ELSE "XDP_PASS"
           of(src) == IF adjusted THEN ReplyOf(cpu[k].pkt, src) ELSE null
<1>1. PICK src : cpu' = [cpu EXCEPT ![k].pc = to, ![k].reply = of(src)]
  BY Zenon DEF Reply
<1>2. cpu[k].pc = "adjust" /\ UNCHANGED <<resdb, dns_buffer>>
  BY DEF Reply
<1>3. cpu[k].matched = TheRecord /\ dns_buffer = TheRecord
  BY <1>2 DEF BufferInv
<1>4. adjusted => of(src).answer = TheRecord
  BY <1>3 DEF ReplyOf
<1>5. to = "XDP_TX" => adjusted
  OBVIOUS
<1> HIDE DEF of, to
<1> DEFINE r == [pc |-> to, pkt |-> cpu[k].pkt, matched |-> cpu[k].matched, reply |-> of(src)]
<1>6. cpu'[k] = [[cpu[k] EXCEPT !.pc = to] EXCEPT !.reply = of(src)]
  BY <1>1 DEF BufferInv
<1>7. cpu'[k] = r
  BY <1>6, Zenon DEF BufferInv
<1>8. cpu' = [j \in Cpus |-> IF j = k THEN r ELSE cpu[j]]
  BY <1>1, <1>7 DEF BufferInv
<1>9. CpuStep(k, r)
  BY <1>2, <1>3, <1>4, <1>5, <1>8, Zenon DEF CpuStep
<1> QED
  BY <1>9, OneCpu

\* The maps hold one record from the start.
LEMMA InitBuffer == Init => BufferInv
BY DEF Init, BufferInv, ResolveEntries, TheRecord, Idle

\* No step puts another one anywhere.
LEMMA NextBuffer == BufferInv /\ [Next]_vars => BufferInv'
<1> SUFFICES ASSUME BufferInv, [Next]_vars PROVE BufferInv'
  OBVIOUS
<1>1. ASSUME NEW c \in Sockets, NEW k \in Cpus, NEW t \in RecordTypes, Ask(c, k, t) PROVE BufferInv'
  BY <1>1, ReceiveBuffer DEF Ask
<1>2. ASSUME NEW k \in Cpus, Finish(k) PROVE BufferInv'
  BY <1>2, ReplyBuffer, Zenon DEF Finish
<1>3. ASSUME NEW k \in Cpus, Deliver(k) PROVE BufferInv'
  <2>1. UNCHANGED <<resdb, dns_buffer>> /\ cpu' = [cpu EXCEPT ![k] = Idle]
    BY <1>3, Zenon DEF Deliver
  <2>2. CpuStep(k, Idle)
    BY <2>1 DEF CpuStep, BufferInv, Idle
  <2> QED
    BY <2>2, OneCpu, Zenon
<1>4. ASSUME ForgetEntry PROVE BufferInv'
  <2>1. UNCHANGED <<dns_buffer, cpu>> /\ \A x \in DOMAIN resdb' : resdb'[x] = TheRecord
    BY <1>4, Zenon DEF ForgetEntry, Forget, BufferInv
  <2> QED
    BY <2>1, SameBuffer
<1>5. CASE UNCHANGED dnsVars
  BY <1>5, StutterBuffer DEF dnsVars
<1>6. ASSUME \/ \E c \in Sockets, tuple \in Tuples : Dial(c, tuple)
             \/ \E s \in Sockets : InKernel(s)
             \/ \E s \in Sockets : (Close(s) \/ Evict(s)) /\ UNCHANGED <<dnsVars, client, forgets>>
             \/ UNCHANGED vars
      PROVE  UNCHANGED dnsVars
  BY <1>6, Zenon DEF Dial, InKernel, vars
<1> QED
  BY <1>1, <1>2, <1>3, <1>4, <1>5, <1>6 DEF Next

\* Whatever the CPUs do at the same time, ecnet_dnsproxy.c sends the record
\* that the query matched, because no record that could lie in the shared
\* buffer differs from it.
THEOREM ReplySound == Spec => []ReplyIsOwnRecord
<1>1. BufferInv => ReplyIsOwnRecord
  BY DEF BufferInv, ReplyIsOwnRecord
<1> QED
  BY <1>1, InitBuffer, NextBuffer, PTL DEF Spec

-----------------------------------------------------------------------------
(* The checksums.                                                           *)

\* Division with remainder.
LEMMA Divided ==
  ASSUME NEW m \in Nat \ {0}, NEW x \in Nat
  PROVE  x \div m \in Nat /\ x % m \in 0..(m - 1) /\ x = m * (x \div m) + (x % m)
<1>1. x \div m \in Nat
  OBVIOUS
<1>2. x % m \in 0..(m - 1)
  OBVIOUS
<1>3. x = m * (x \div m) + (x % m)
  OBVIOUS
<1> QED
  BY <1>1, <1>2, <1>3

\* Multiples of m differ by m at least.
LEMMA Multiples ==
  ASSUME NEW m \in Nat, NEW a \in Nat, NEW b \in Nat, a + 1 <= b
  PROVE  m * a + m <= m * b /\ m * a \in Nat /\ m * b \in Nat
<1>1. PICK d \in Nat : b = a + 1 + d
  <2>1. b - (a + 1) \in Nat /\ b = a + 1 + (b - (a + 1))
    OBVIOUS
  <2> QED
    BY <2>1
<1>2. m * b = m * a + m + m * d
  BY <1>1
<1>3. m * d \in Nat /\ m * a \in Nat
  OBVIOUS
<1> QED
  BY <1>2, <1>3

\* There is one remainder only.
LEMMA OneRemainder ==
  ASSUME NEW m \in Nat \ {0}, NEW q \in Nat, NEW r \in 0..(m - 1), NEW x \in Nat, x = m * q + r
  PROVE  x % m = r
<1> DEFINE p == x \div m
           s == x % m
<1>1. p \in Nat /\ s \in 0..(m - 1) /\ x = m * p + s
  BY Divided, Zenon
<1> HIDE DEF p, s
<1>2. CASE p + 1 <= q
  <2>1. m * p + m <= m * q /\ m * p \in Nat /\ m * q \in Nat
    BY <1>1, <1>2, Multiples
  <2> QED
    BY <1>1, <2>1
<1>3. CASE q + 1 <= p
  <2>1. m * q + m <= m * p /\ m * p \in Nat /\ m * q \in Nat
    BY <1>1, <1>3, Multiples
  <2> QED
    BY <1>1, <2>1
<1>4. CASE p = q
  BY <1>1, <1>4 DEF s
<1> QED
  BY <1>1, <1>2, <1>3, <1>4

\* One round of adding the carries.
Fold(x) == (x % Word) + (x \div Word)

\* A round takes away a multiple of Word - 1, and everything only from 0.
LEMMA FoldOK ==
  ASSUME NEW x \in Nat
  PROVE  /\ Fold(x) \in Nat /\ (Fold(x) = 0 <=> x = 0)
         /\ \E q \in Nat : x = (Word - 1) * q + Fold(x)
<1> DEFINE q == x \div Word
           r == x % Word
<1>1. q \in Nat /\ r \in 0..(Word - 1) /\ x = Word * q + r /\ Fold(x) = r + q
  BY Divided, WordAssumption DEF Fold
<1> HIDE DEF q, r
<1>2. Word \in Nat \ {0, 1}
  BY WordAssumption
<1>3. Word * q = (Word - 1) * q + q
  BY <1>1, <1>2
<1>4. (Word - 1) * q \in Nat
  BY <1>1, <1>2
<1>5. x = (Word - 1) * q + Fold(x)
  BY <1>1, <1>3, <1>4
<1>6. q = 0 => (Word - 1) * q = 0
  BY <1>2
<1>7. Fold(x) \in Nat /\ (Fold(x) = 0 <=> x = 0)
  BY <1>1, <1>2, <1>4, <1>5, <1>6
<1> QED
  BY <1>1, <1>5, <1>7

\* A round leaves a word less.
LEMMA FoldBound ==
  ASSUME NEW x \in Nat, NEW b \in Nat, x <= Word * b + Word - 2
  PROVE  Fold(x) <= b + Word - 2
<1> DEFINE q == x \div Word
           r == x % Word
<1>1. q \in Nat /\ r \in 0..(Word - 1) /\ x = Word * q + r /\ Fold(x) = r + q
  BY Divided, WordAssumption DEF Fold
<1> HIDE DEF q, r
<1>2. Word \in Nat \ {0, 1}
  BY WordAssumption
<1>3. CASE b + 1 <= q
  <2>1. Word * b + Word <= Word * q /\ Word * b \in Nat /\ Word * q \in Nat
    BY <1>1, <1>2, <1>3, Multiples
  <2> QED
    BY <1>1, <1>2, <2>1
<1>4. CASE q = b
  <2>1. Word * b \in Nat
    BY <1>2
  <2> QED
    BY <1>1, <1>2, <1>4, <2>1
<1>5. CASE q + 1 <= b
  BY <1>1, <1>2, <1>5
<1> QED
  BY <1>1, <1>3, <1>4, <1>5

\* What is left when no carry is, is the one's complement sum.
LEMMA Folded ==
  ASSUME NEW sum \in Nat, NEW y \in 0..(Word - 1), NEW q \in Nat, sum = (Word - 1) * q + y, y = 0 <=> sum = 0
  PROVE  y = OnesSum(sum)
<1>1. Word - 1 \in Nat \ {0}
  BY WordAssumption
<1>2. CASE sum # 0
  <2>1. y - 1 \in 0..(Word - 1 - 1) /\ sum - 1 \in Nat /\ (Word - 1) * q \in Nat
    BY <1>1, <1>2
  <2>2. sum - 1 = (Word - 1) * q + (y - 1)
    BY <1>1, <2>1
  <2>3. (sum - 1) % (Word - 1) = y - 1
    BY <1>1, <2>1, <2>2, OneRemainder
  <2> QED
    BY <1>2, <2>1, <2>3 DEF OnesSum
<1> QED
  BY <1>2 DEF OnesSum

\* cal_udp_csum's one round, and the four of csum_fold_helper, for words of any
\* width.
LEMMA ChecksumsOK == ChecksumsRight
<1>1. Word \in Nat \ {0, 1}
  BY WordAssumption
<1>2. ASSUME NEW sum \in 0..(Word * Word - 1), (sum % Word) + (sum \div Word) < Word
      PROVE  cal_udp_csum(sum) = Word - 1 - OnesSum(sum)
  <2>1. sum \in Nat /\ Fold(sum) \in 0..(Word - 1)
    BY <1>1, <1>2, FoldOK DEF Fold
  <2>2. Fold(sum) = OnesSum(sum)
    BY <2>1, FoldOK, Folded, Zenon
  <2>3. \A n \in Nat, m \in Nat \ {0} : n < m => n % m = n
    OBVIOUS
  <2>4. Fold(sum) % Word = Fold(sum)
    BY <1>1, <1>2, <2>1, <2>3 DEF Fold
  <2> QED
    BY <2>2, <2>4 DEF cal_udp_csum, Fold
<1>3. ASSUME NEW sum \in 0..(Word * Word * Word * Word - 1)
      PROVE  csum_fold_helper(sum) = Word - 1 - OnesSum(sum)
  <2> DEFINE W2 == Word * Word
             W3 == Word * Word * Word
             x1 == Fold(sum)
             x2 == Fold(x1)
             x3 == Fold(x2)
             x4 == Fold(x3)
  <2>1. /\ W2 \in Nat /\ W3 \in Nat /\ W3 = Word * W2 /\ Word * W3 \in Nat
        /\ Word * Word * Word * Word = Word * W3 /\ Word * 1 = Word /\ sum \in Nat
    BY <1>1
  <2>2. sum <= Word * W3 + Word - 2
    BY <1>1, <2>1
  <2>3. csum_fold_helper(sum) = Word - 1 - x4
    BY DEF csum_fold_helper, Fold
  <2> HIDE DEF W2, W3
  <2>4. x1 \in Nat /\ x1 <= W3 + Word - 2
    BY <2>1, <2>2, FoldOK, FoldBound
  <2>5. x2 \in Nat /\ x2 <= W2 + Word - 2
    BY <2>1, <2>4, FoldOK, FoldBound
  <2>6. x3 \in Nat /\ x3 <= Word + Word - 2
    BY <1>1, <2>1, <2>5, FoldOK, FoldBound, Zenon DEF W2
  <2>7. x4 \in Nat /\ x4 <= 1 + Word - 2
    BY <1>1, <2>1, <2>6, FoldOK, FoldBound, Zenon
  <2>8. x4 = 0 <=> sum = 0
    <3>1. (x1 = 0 <=> sum = 0) /\ (x2 = 0 <=> x1 = 0)
      BY <2>1, <2>4, FoldOK
    <3>2. (x3 = 0 <=> x2 = 0) /\ (x4 = 0 <=> x3 = 0)
      BY <2>5, <2>6, FoldOK
    <3> HIDE DEF x1, x2, x3, x4
    <3> QED
      BY <3>1, <3>2
  <2>9. PICK q1 \in Nat : sum = (Word - 1) * q1 + x1
    BY <2>1, FoldOK
  <2>10. PICK q2 \in Nat : x1 = (Word - 1) * q2 + x2
    BY <2>4, FoldOK
  <2>11. PICK q3 \in Nat : x2 = (Word - 1) * q3 + x3
    BY <2>5, FoldOK
  <2>12. PICK q4 \in Nat : x3 = (Word - 1) * q4 + x4
    BY <2>6, FoldOK
  <2> HIDE DEF x1, x2, x3, x4
  <2> DEFINE q == q1 + q2 + q3 + q4
  <2>13. (Word - 1) * q = (Word - 1) * q1 + (Word - 1) * q2 + (Word - 1) * q3 + (Word - 1) * q4
    <3>1. \A w, a, b, c, d \in Nat : w * (a + b + c + d) = w * a + w * b + w * c + w * d
      OBVIOUS
    <3>2. Word - 1 \in Nat
      BY <1>1
    <3> QED
      BY <3>1, <3>2
  <2>14. (Word - 1) * q1 \in Nat /\ (Word - 1) * q2 \in Nat /\ (Word - 1) * q3 \in Nat /\ (Word - 1) * q4 \in Nat
    BY <1>1
  <2>15. q \in Nat /\ x4 \in 0..(Word - 1)
    BY <1>1, <2>7
  <2> HIDE DEF q
  <2>16. sum = (Word - 1) * q + x4
    BY <2>7, <2>9, <2>10, <2>11, <2>12, <2>13, <2>14
  <2>17. x4 = OnesSum(sum)
    BY <2>1, <2>8, <2>15, <2>16, Folded
  <2> QED
    BY <2>3, <2>17
<1> QED
  BY <1>2, <1>3 DEF ChecksumsRight

-----------------------------------------------------------------------------
(* Where replies come from, and what the programs take from them.           *)

\* Packets are the programs' queries; a reply leaves from the cluster IP while
\* the map knows the DNS pod.
CpuOK(k) ==
  /\ cpu[k].pc \in {"idle", "adjust", "XDP_TX", "XDP_PASS"}
  /\ cpu[k].pc # "idle" => cpu[k].pkt.src \in Sockets /\ cpu[k].pkt.name = client[cpu[k].pkt.src].name
  /\ cpu[k].pc = "adjust" => cpu[k].pkt.dst = DnsPod
  /\ cpu[k].pc = "XDP_TX" /\ DOMAIN endpt # {} => cpu[k].reply.src = ClusterIP

\* A program that resolved an imported name holds the bridge's address.
ClientOK(c) ==
  /\ client[c] = [ pc |-> client[c].pc, user |-> client[c].user, name |-> client[c].name,
                   port |-> client[c].port, ip |-> client[c].ip ]
  /\ client[c].pc \in {"ask", "wait", "resolved", "unknown", "connect"}
  /\ client[c].pc = "resolved" /\ client[c].name \in Imported => client[c].ip = bridge

AnswerInv ==
  /\ DOMAIN resdb \subseteq DOMAIN ResolveEntries
  /\ DOMAIN endpt \subseteq {DnsPod} /\ \A e \in DOMAIN endpt : endpt[e] = ClusterIP
  /\ \A k \in Cpus : CpuOK(k)
  /\ client = [c \in Sockets |-> client[c]]
  /\ \A c \in Sockets : ClientOK(c)

\* A program stays the same program.
SameProgram(c) == client'[c].user = client[c].user /\ client'[c].name = client[c].name

\* What a step does to one program: where it stands and the address it holds.
LEMMA ClientStep ==
  ASSUME AnswerInv, NEW c \in Sockets, NEW pc \in {"ask", "wait", "resolved", "unknown", "connect"}, NEW ip,
         client' = [client EXCEPT ![c].pc = pc, ![c].ip = ip],
         pc = "resolved" /\ client[c].name \in Imported => ip = bridge
  PROVE  /\ client' = [d \in Sockets |-> client'[d]]
         /\ \A d \in Sockets : ClientOK(d)' /\ SameProgram(d)
<1> DEFINE r == [pc |-> pc, user |-> client[c].user, name |-> client[c].name, port |-> client[c].port, ip |-> ip]
<1>1. client = [d \in Sockets |-> client[d]] /\ ClientOK(c)
  BY DEF AnswerInv
<1>2. client' = [d \in Sockets |-> client'[d]] /\ \A d \in Sockets : d # c => client'[d] = client[d]
  BY <1>1
<1>3. client'[c] = [[client[c] EXCEPT !.pc = pc] EXCEPT !.ip = ip]
  BY <1>1
<1>4. client'[c] = r
  BY <1>1, <1>3, Zenon DEF ClientOK
<1>5. ClientOK(c)' /\ SameProgram(c)
  <2>1. /\ client'[c].pc = pc /\ client'[c].ip = ip /\ client'[c].user = client[c].user
        /\ client'[c].name = client[c].name /\ client'[c].port = client[c].port
    BY <1>4
  <2>2. client'[c] = [ pc |-> client'[c].pc, user |-> client'[c].user, name |-> client'[c].name,
                       port |-> client'[c].port, ip |-> client'[c].ip ]
    BY <1>4, <2>1, Zenon
  <2> HIDE DEF r
  <2> QED
    BY <2>1, <2>2 DEF ClientOK, SameProgram, bridge
<1>6. ASSUME NEW d \in Sockets, d # c PROVE ClientOK(d)' /\ SameProgram(d)
  BY <1>2, <1>6 DEF AnswerInv, ClientOK, SameProgram, bridge
<1> QED
  BY <1>2, <1>5, <1>6

\* A step of a CPU and of a program leaves the maps alone.
LEMMA CpuAnswer ==
  ASSUME BufferInv, AnswerInv, NEW k \in Cpus, NEW r, cpu' = [cpu EXCEPT ![k] = r], CpuOK(k)',
         UNCHANGED <<resdb, endpt>>, client' = [d \in Sockets |-> client'[d]],
         \A d \in Sockets : ClientOK(d)' /\ SameProgram(d)
  PROVE  AnswerInv'
<1>1. ASSUME NEW j \in Cpus, j # k PROVE CpuOK(j)'
  <2>1. cpu'[j] = cpu[j]
    BY <1>1, Zenon DEF BufferInv
  <2> QED
    BY <2>1 DEF AnswerInv, CpuOK, SameProgram
<1>2. DOMAIN resdb' \subseteq DOMAIN ResolveEntries'
  BY DEF AnswerInv, ResolveEntries
<1> QED
  BY <1>1, <1>2, Zenon DEF AnswerInv

\* A query is matched, or passed on.
LEMMA AskAnswer ==
  ASSUME BufferInv, AnswerInv, NEW c \in Sockets, NEW k \in Cpus, NEW t \in RecordTypes, Ask(c, k, t)
  PROVE  AnswerInv'
<1> DEFINE pkt == Query(c, t)
<1>1. /\ Receive(k, pkt) /\ UNCHANGED <<resdb, endpt>> /\ client' = [client EXCEPT ![c].pc = "wait"]
  BY DEF Ask, Receive
<1>2. client' = [client EXCEPT ![c].pc = "wait", ![c].ip = client[c].ip]
  <2>1. client = [d \in Sockets |-> client[d]] /\ ClientOK(c)
    BY DEF AnswerInv
  <2> QED
    BY <1>1, <2>1, Zenon DEF ClientOK
<1>3. client' = [d \in Sockets |-> client'[d]] /\ \A d \in Sockets : ClientOK(d)' /\ SameProgram(d)
  BY <1>2, ClientStep, Zenon
<1>4. pkt.src = c /\ pkt.name = client[c].name /\ pkt.dst = DnsPod
  BY DEF Query
<1>5. [pkt EXCEPT !.query = FALSE].src = c /\ [pkt EXCEPT !.query = FALSE].name = client[c].name
        /\ [pkt EXCEPT !.query = FALSE].dst = DnsPod
  BY DEF Query
<1> HIDE DEF pkt
<1>6. client'[c].name = client[c].name
  BY <1>3 DEF SameProgram
<1>7. PICK r : /\ cpu' = [cpu EXCEPT ![k] = r] /\ r.pc \in {"adjust", "XDP_PASS"}
               /\ r.pkt \in {pkt, [pkt EXCEPT !.query = FALSE]}
  <2>1. CASE Answers(pkt)
    <3> DEFINE r == [pc |-> "adjust", pkt |-> [pkt EXCEPT !.query = FALSE],
                     matched |-> resdb[<<pkt.name, pkt.type>>], reply |-> null]
    <3>1. cpu' = [cpu EXCEPT ![k] = r]
      BY <1>1, <2>1, Zenon DEF Receive
    <3>2. r.pc = "adjust" /\ r.pkt = [pkt EXCEPT !.query = FALSE]
      BY Zenon
    <3> HIDE DEF r
    <3> QED
      BY <3>1, <3>2, Zenon
  <2>2. CASE ~Answers(pkt)
    <3> DEFINE r == [pc |-> "XDP_PASS", pkt |-> pkt, matched |-> null, reply |-> null]
    <3>1. cpu' = [cpu EXCEPT ![k] = r]
      BY <1>1, <2>2, Zenon DEF Receive, Idle
    <3>2. r.pc = "XDP_PASS" /\ r.pkt = pkt
      BY Zenon
    <3> HIDE DEF r
    <3> QED
      BY <3>1, <3>2, Zenon
  <2> QED
    BY <2>1, <2>2
<1>8. cpu'[k] = r
  BY <1>7 DEF BufferInv
<1>9. CpuOK(k)'
  <2>1. r.pkt.src = c /\ r.pkt.name = client[c].name /\ r.pkt.dst = DnsPod
    BY <1>4, <1>5, <1>7, Zenon
  <2>2. /\ r.pkt.src \in Sockets /\ r.pkt.name = client'[r.pkt.src].name /\ r.pkt.dst = DnsPod
        /\ r.pc \in {"adjust", "XDP_PASS"}
    BY <1>6, <1>7, <2>1, Zenon
  <2>3. r.pc \in {"idle", "adjust", "XDP_TX", "XDP_PASS"} /\ r.pc # "XDP_TX"
    BY <2>2
  <2> QED
    BY <1>8, <2>2, <2>3, Zenon DEF CpuOK
<1>10. UNCHANGED <<resdb, endpt>>
  BY <1>1, Zenon
<1>11. cpu' = [cpu EXCEPT ![k] = r]
  BY <1>7, Zenon
<1> QED
  BY <1>3, <1>9, <1>10, <1>11, CpuAnswer, Zenon

\* When nothing of it changes.
LEMMA SameAnswer ==
  ASSUME AnswerInv, UNCHANGED <<resdb, endpt, cpu, client>> PROVE AnswerInv'
<1>1. \A k \in Cpus : CpuOK(k)'
  BY DEF AnswerInv, CpuOK
<1>2. \A c \in Sockets : ClientOK(c)'
  BY Zenon DEF AnswerInv, ClientOK
<1>3. DOMAIN resdb' \subseteq DOMAIN ResolveEntries'
  BY DEF AnswerInv, ResolveEntries
<1> QED
  BY <1>1, <1>2, <1>3, Zenon DEF AnswerInv

\* A reply takes its address from the map's entry, or from one that is gone.
LEMMA ReplyAnswer ==
  ASSUME BufferInv, AnswerInv, NEW k \in Cpus, NEW adjusted \in BOOLEAN, Reply(k, adjusted), UNCHANGED client
  PROVE  AnswerInv'
<1> DEFINE to == IF adjusted THEN "XDP_TX" ELSE "XDP_PASS"
           of(src) == IF adjusted THEN ReplyOf(cpu[k].pkt, src) ELSE null
           eip == cpu[k].pkt.dst
           now == IF eip \in DOMAIN endpt THEN {endpt[eip]} ELSE {endpt[e] : e \in DOMAIN endpt} \cup {null}
<1>1. PICK src \in now : cpu' = [cpu EXCEPT ![k].pc = to, ![k].reply = of(src)]
  BY Zenon DEF Reply
<1>2. cpu[k].pc = "adjust" /\ UNCHANGED <<resdb, endpt>>
  BY DEF Reply
<1>3. DOMAIN endpt # {} => src = ClusterIP
  BY <1>1, <1>2 DEF AnswerInv, CpuOK
<1>4. adjusted => of(src).src = src
  BY DEF ReplyOf
<1>5. to \in {"XDP_TX", "XDP_PASS"} /\ (to = "XDP_TX" => adjusted)
  OBVIOUS
<1> HIDE DEF of, to, now
<1> DEFINE r == [pc |-> to, pkt |-> cpu[k].pkt, matched |-> cpu[k].matched, reply |-> of(src)]
<1>6. cpu'[k] = [[cpu[k] EXCEPT !.pc = to] EXCEPT !.reply = of(src)]
  BY <1>1 DEF BufferInv
<1>7. cpu'[k] = r
  BY <1>6, Zenon DEF BufferInv
<1>8. cpu' = [cpu EXCEPT ![k] = r]
  BY <1>1, <1>7, Zenon DEF BufferInv
<1>9. cpu'[k].pc = to /\ cpu'[k].pkt = cpu[k].pkt /\ cpu'[k].reply = of(src)
  BY <1>7
<1>10. CpuOK(k)'
  BY <1>2, <1>3, <1>4, <1>5, <1>9 DEF CpuOK, AnswerInv, ClusterIP, DnsPod
<1>11. client' = [d \in Sockets |-> client'[d]] /\ \A d \in Sockets : ClientOK(d)' /\ SameProgram(d)
  BY Zenon DEF AnswerInv, ClientOK, SameProgram
<1> HIDE DEF r
<1> QED
  BY <1>2, <1>8, <1>10, <1>11, CpuAnswer, Zenon

\* A verdict is carried out: the server knows no imported name, and a reply
\* holds the bridge's address.
LEMMA DeliverAnswer ==
  ASSUME BufferInv, AnswerInv, NEW k \in Cpus, Deliver(k) PROVE AnswerInv'
<1> DEFINE c   == cpu[k].pkt.src
           got == IF cpu[k].pc = "XDP_TX"
                    THEN IF cpu[k].reply.src = ClusterIP THEN cpu[k].reply.answer.ip ELSE "silence"
                    ELSE IF cpu[k].pkt.query THEN ServerAnswer(cpu[k].pkt) ELSE "silence"
           pc  == IF got = "silence" THEN "ask" ELSE IF got = none THEN "unknown" ELSE "resolved"
           ip  == IF got = "silence" THEN none ELSE got
<1>1. /\ cpu[k].pc \in {"XDP_TX", "XDP_PASS"} /\ cpu' = [cpu EXCEPT ![k] = Idle] /\ UNCHANGED <<resdb, endpt>>
      /\ client' = [client EXCEPT ![c].pc = pc, ![c].ip = ip]
  BY Zenon DEF Deliver
<1>2. c \in Sockets /\ cpu[k].pkt.name = client[c].name
  BY <1>1, Zenon DEF AnswerInv, CpuOK
<1>3. cpu[k].pc = "XDP_TX" => cpu[k].reply.answer.ip = bridge
  BY DEF BufferInv, TheRecord
<1>4. client[c].name \in Imported => ServerAnswer(cpu[k].pkt) = none
  BY <1>2, Zenon DEF ServerAnswer
<1>5. client[c].name \in Imported => got \in {bridge, "silence", none}
  BY <1>3, <1>4
<1> HIDE DEF c, got
<1>6. pc \in {"ask", "wait", "resolved", "unknown", "connect"}
  OBVIOUS
<1>7. pc = "resolved" /\ client[c].name \in Imported => ip = bridge
  BY <1>5
<1> HIDE DEF pc, ip
<1>8. client' = [d \in Sockets |-> client'[d]] /\ \A d \in Sockets : ClientOK(d)' /\ SameProgram(d)
  BY <1>1, <1>2, <1>6, <1>7, ClientStep, Zenon
<1>9. cpu'[k] = Idle
  BY <1>1, Zenon DEF BufferInv
<1>10. CpuOK(k)'
  BY <1>9 DEF CpuOK, Idle
<1> QED
  BY <1>1, <1>8, <1>10, CpuAnswer, Zenon

\* An entry of the maps is dropped.
LEMMA ForgetAnswer ==
  ASSUME AnswerInv, ForgetEntry PROVE AnswerInv'
<1>1. UNCHANGED <<cpu, client>>
  BY DEF ForgetEntry, Forget
<1>2. /\ DOMAIN resdb' \subseteq DOMAIN resdb /\ DOMAIN endpt' \subseteq DOMAIN endpt
      /\ \A e \in DOMAIN endpt' : endpt'[e] = endpt[e]
  BY Zenon DEF ForgetEntry, Forget
<1>3. \A k \in Cpus : CpuOK(k)'
  BY <1>1, <1>2 DEF AnswerInv, CpuOK, ClusterIP, DnsPod
<1>4. \A c \in Sockets : ClientOK(c)'
  BY <1>1, Zenon DEF AnswerInv, ClientOK
<1>5. DOMAIN resdb' \subseteq DOMAIN ResolveEntries'
  BY <1>2 DEF AnswerInv, ResolveEntries
<1>6. client' = [c \in Sockets |-> client'[c]]
  BY <1>1 DEF AnswerInv
<1>7. DOMAIN endpt' \subseteq {DnsPod} /\ \A e \in DOMAIN endpt' : endpt'[e] = ClusterIP
  BY <1>2 DEF AnswerInv
<1> QED
  BY <1>3, <1>4, <1>5, <1>6, <1>7, Zenon DEF AnswerInv, ClusterIP, DnsPod

\* A program connects.
LEMMA DialAnswer ==
  ASSUME AnswerInv, NEW c \in Sockets, NEW tuple \in Tuples, Dial(c, tuple)
  PROVE  AnswerInv' /\ \A d \in Sockets : SameProgram(d)
<1>1. UNCHANGED <<resdb, endpt, cpu>> /\ client' = [client EXCEPT ![c].pc = "connect"]
  BY DEF Dial, dnsVars
<1>2. client' = [client EXCEPT ![c].pc = "connect", ![c].ip = client[c].ip]
  <2>1. client = [d \in Sockets |-> client[d]] /\ ClientOK(c)
    BY DEF AnswerInv
  <2> QED
    BY <1>1, <2>1, Zenon DEF ClientOK
<1>3. client' = [d \in Sockets |-> client'[d]] /\ \A d \in Sockets : ClientOK(d)' /\ SameProgram(d)
  BY <1>2, ClientStep, Zenon
<1>4. \A k \in Cpus : CpuOK(k)'
  BY <1>1, <1>3 DEF AnswerInv, CpuOK, SameProgram
<1>5. DOMAIN resdb' \subseteq DOMAIN ResolveEntries'
  BY <1>1 DEF AnswerInv, ResolveEntries
<1> QED
  BY <1>1, <1>3, <1>4, <1>5 DEF AnswerInv, ClusterIP, DnsPod

\* Nobody has asked for anything at first.
LEMMA InitAnswer == Init => AnswerInv
<1> SUFFICES ASSUME Init PROVE AnswerInv
  OBVIOUS
<1>1. DOMAIN resdb \subseteq DOMAIN ResolveEntries /\ \A k \in Cpus : CpuOK(k)
  BY DEF Init, Idle, CpuOK
<1>2. endpt = [e \in {DnsPod} |-> ClusterIP]
  BY DEF Init
<1>3. client \in [Sockets -> [pc : {"ask"}, user : Users, name : Names, port : Ports, ip : {none}]]
  BY Zenon DEF Init
<1>4. client = [c \in Sockets |-> client[c]] /\ \A c \in Sockets : ClientOK(c)
  BY <1>3, Zenon DEF ClientOK
<1> QED
  BY <1>1, <1>2, <1>4, Zenon DEF AnswerInv

\* Every step keeps what is known of the answers.
LEMMA NextAnswer == BufferInv /\ AnswerInv /\ [Next]_vars => AnswerInv'
<1> SUFFICES ASSUME BufferInv, AnswerInv, [Next]_vars PROVE AnswerInv'
  OBVIOUS
<1>1. ASSUME NEW c \in Sockets, NEW k \in Cpus, NEW t \in RecordTypes, Ask(c, k, t) PROVE AnswerInv'
  BY <1>1, AskAnswer
<1>2. ASSUME NEW k \in Cpus, Finish(k) \/ Deliver(k) PROVE AnswerInv'
  BY <1>2, ReplyAnswer, DeliverAnswer, Zenon DEF Finish
<1>3. ASSUME NEW c \in Sockets, NEW tuple \in Tuples, Dial(c, tuple) PROVE AnswerInv'
  BY <1>3, DialAnswer
<1>4. ASSUME ForgetEntry PROVE AnswerInv'
  BY <1>4, ForgetAnswer
<1>5. CASE UNCHANGED <<dnsVars, client>>
  BY <1>5, SameAnswer DEF dnsVars
<1>6. ASSUME \/ \E s \in Sockets : InKernel(s)
             \/ \E s \in Sockets : (Close(s) \/ Evict(s)) /\ UNCHANGED <<dnsVars, client, forgets>>
             \/ UNCHANGED vars
      PROVE  UNCHANGED <<dnsVars, client>>
  BY <1>6, Zenon DEF InKernel, vars
<1> QED
  BY <1>1, <1>2, <1>3, <1>4, <1>5, <1>6 DEF Next

\* For any number of CPUs and words of any width: while the DNS pod is known, a
\* reply leaves from the cluster IP that was asked, csum_fold_helper's four
\* rounds add every carry, and cal_udp_csum's one round all but a second one.
THEOREM AnswersAcceptable == Spec => []ReplyAcceptable
<1>1. AnswerInv => ReplyFromClusterIP
  BY DEF AnswerInv, CpuOK, ReplyFromClusterIP
<1>2. ChecksumUnlessCarry
  BY ChecksumsOK DEF ChecksumUnlessCarry
<1>3. AnswerInv => ReplyAcceptable
  BY <1>1, <1>2 DEF ReplyAcceptable
<1> QED
  BY <1>3, InitBuffer, NextBuffer, InitAnswer, NextAnswer, PTL DEF Spec

-----------------------------------------------------------------------------
(* What faults can do.                                                      *)

\* Every note in the maps is of a connection that was redirected and asked for
\* what the note says, from the addresses that it is filed under.
Traced ==
  /\ \A x \in DOMAIN sess_dest : x \in Sockets /\ Redirected(x) /\ sess_dest[x] = Own(x) /\ sock[x].pc # "new"
  /\ \A p \in DOMAIN pair_dest : \E t \in Sockets :
       /\ Redirected(t) /\ sock[t].pc \in {"active", "open", "proxied", "aborted", "closed"}
       /\ p = Pair(t, "client") /\ pair_dest[p] = Own(t)

\* A socket is its program's, and goes to the bridge for an imported name; there
\* every program but root's gets the proxy.
Led ==
  \A c \in Sockets : sock[c].pc # "new" =>
    /\ sock[c].user = client[c].user /\ (client[c].name \in Imported => sock[c].ip = bridge)
    /\ sock[c].pc # "denied" /\ sock[c].ip = bridge /\ sock[c].user \notin {"root", "proxy"} =>
         sock[c].userPort = proxyPort

FaultType == lost \subseteq Sockets /\ faults \in 0..MaxFaults

FaultInv == Traced /\ Led /\ FaultType /\ WrongOriginIsEarlier

\* Steps that leave the sockets and the maps alone.
LEMMA StutterFault ==
  ASSUME FaultInv, UNCHANGED <<sock, sess_dest, pair_dest>>, \A c \in Sockets : SameProgram(c), FaultType'
  PROVE  FaultInv'
<1>1. Traced'
  BY Zenon DEF FaultInv, Traced, Redirected, Own, Pair
<1>2. Led'
  BY DEF FaultInv, Led, SameProgram, bridge, proxyPort
<1>3. WrongOriginIsEarlier'
  BY Zenon DEF FaultInv, WrongOriginIsEarlier, Redirected, Own
<1> QED
  BY <1>1, <1>2, <1>3, Zenon DEF FaultInv

\* A step of a connection that started and does not end up proxied keeps what
\* is known of the notes that stay.
LEMMA MoveFault ==
  ASSUME FaultInv, NEW s \in Sockets, NEW pc, NEW origin, SamePlace(s, pc, origin),
         sock[s].pc \in {"syn", "active", "open", "proxied"},
         pc \in {"active", "open", "proxied", "refused", "aborted", "closed"},
         pc = "refused" => sock[s].pc = "syn", UNCHANGED client
  PROVE  /\ Led'
         /\ \A x \in DOMAIN sess_dest :
              x \in Sockets /\ Redirected(x)' /\ sess_dest[x] = Own(x)' /\ sock'[x].pc # "new"
         /\ \A p \in DOMAIN pair_dest : \E t \in Sockets :
              /\ Redirected(t)' /\ sock'[t].pc \in {"active", "open", "proxied", "aborted", "closed"}
              /\ p = Pair(t, "client")' /\ pair_dest[p] = Own(t)'
         /\ pc # "proxied" => WrongOriginIsEarlier'
<1>1. Led'
  BY DEF FaultInv, Led, SamePlace, bridge, proxyPort
<1>2. \A x \in DOMAIN sess_dest :
        x \in Sockets /\ Redirected(x)' /\ sess_dest[x] = Own(x)' /\ sock'[x].pc # "new"
  BY Zenon DEF FaultInv, Traced, SamePlace
<1>3. ASSUME NEW p \in DOMAIN pair_dest
      PROVE  \E t \in Sockets : /\ Redirected(t)' /\ sock'[t].pc \in {"active", "open", "proxied", "aborted", "closed"}
                                /\ p = Pair(t, "client")' /\ pair_dest[p] = Own(t)'
  <2>1. PICK t \in Sockets : /\ Redirected(t) /\ sock[t].pc \in {"active", "open", "proxied", "aborted", "closed"}
                             /\ p = Pair(t, "client") /\ pair_dest[p] = Own(t)
    BY Zenon DEF FaultInv, Traced
  <2>2. sock'[t].pc \in {"active", "open", "proxied", "aborted", "closed"}
    BY <2>1, Zenon DEF SamePlace
  <2> QED
    BY <2>1, <2>2, Zenon DEF SamePlace
<1>4. ASSUME pc # "proxied", NEW u \in Sockets, sock'[u].pc = "proxied"
      PROVE  \/ sock'[u].origin \in {Own(u)', none}
             \/ \E t \in Sockets \ {u} : /\ sock'[t].tuple = sock'[u].tuple /\ sock'[t].pc \in {"aborted", "closed"}
                                         /\ Redirected(t)' /\ sock'[u].origin = Own(t)'
  <2>1. u # s /\ sock[u].pc = "proxied" /\ sock'[u].origin = sock[u].origin
    BY <1>4 DEF SamePlace
  <2> QED
    BY <2>1 DEF FaultInv, WrongOriginIsEarlier, SamePlace
<1> QED
  BY <1>1, <1>2, <1>3, <1>4, Zenon DEF WrongOriginIsEarlier

\* A program connects.
LEMMA DialFault ==
  ASSUME SockType, AnswerInv, FaultInv, NEW s \in Sockets, NEW tuple \in Tuples, Dial(s, tuple)
  PROVE  FaultInv'
<1> DEFINE user == client[s].user
           ip == client[s].ip
           port == client[s].port
           redirects == Redirects(user, ip, port)
           dialled   == IF redirects THEN proxyPort ELSE port
           asked(pc, up) == [ pc |-> pc, user |-> user, tuple |-> tuple, ip |-> ip, port |-> port,
                              userPort |-> up, origin |-> none ]
<1>1. Connect(s, user, tuple, ip, port) /\ client[s].pc = "resolved"
  BY DEF Dial
<1>2. sock[s].pc = "new" /\ UNCHANGED pair_dest
  BY <1>1, Zenon DEF Connect
<1>3. client[s].name \in Imported => ip = bridge
  BY <1>1 DEF AnswerInv, ClientOK
<1>4. \A c \in Sockets : SameProgram(c)
  BY DialAnswer
<1>5. \/ /\ sess_dest' = IF redirects THEN Put(sess_dest, s, <<ip, port>>) ELSE sess_dest
         /\ sock' = [sock EXCEPT ![s] = asked("syn", dialled)]
         /\ UNCHANGED <<lost, faults>>
      \/ /\ sock' = [sock EXCEPT ![s] = asked("denied", 0)]
         /\ faults < MaxFaults /\ faults' = faults + 1 /\ lost' = lost \cup {s} /\ UNCHANGED sess_dest
  BY <1>1, Zenon DEF Connect, New, NoFault, Fault
<1>6. redirects <=> port # proxyPort /\ ip = bridge /\ user \notin {"root", "proxy"}
  BY DEF Redirects
<1>7. dialled = IF redirects THEN proxyPort ELSE port
  BY Zenon
<1> HIDE DEF user, ip, port, redirects, dialled
<1>20. PICK pc \in {"syn", "denied"} :
         \E up : sock' = [sock EXCEPT ![s] = asked(pc, up)] /\ (pc = "syn" => up = dialled)
  BY <1>5
<1>8. PICK up : sock' = [sock EXCEPT ![s] = asked(pc, up)] /\ (pc = "syn" => up = dialled)
  BY <1>20, Zenon
<1>9. sock'[s] = asked(pc, up) /\ \A t \in Sockets : t # s => sock'[t] = sock[t]
  BY <1>8, OneSocket, Zenon DEF IsSock
<1>10. /\ sock'[s].pc = pc /\ sock'[s].user = user /\ sock'[s].ip = ip /\ sock'[s].port = port
       /\ sock'[s].userPort = up
  BY <1>9
<1>11. FaultType'
  BY <1>5, FaultsAssumption DEF FaultInv, FaultType
<1>12. Led'
  <2>1. ASSUME NEW c \in Sockets, c # s, sock'[c].pc # "new"
        PROVE  /\ sock'[c].user = client'[c].user /\ (client'[c].name \in Imported => sock'[c].ip = bridge)
               /\ sock'[c].pc # "denied" /\ sock'[c].ip = bridge /\ sock'[c].user \notin {"root", "proxy"} =>
                    sock'[c].userPort = proxyPort
    BY <1>4, <1>9, <2>1, Zenon DEF FaultInv, Led, SameProgram
  <2>2. /\ sock'[s].user = client'[s].user /\ (client'[s].name \in Imported => sock'[s].ip = bridge)
        /\ sock'[s].pc # "denied" /\ sock'[s].ip = bridge /\ sock'[s].user \notin {"root", "proxy"} =>
             sock'[s].userPort = proxyPort
    BY <1>3, <1>4, <1>6, <1>7, <1>8, <1>10, Zenon DEF SameProgram, user
  <2> QED
    BY <2>1, <2>2 DEF Led, bridge, proxyPort
<1>13. \A t \in Sockets : t # s => /\ Redirected(t)' = Redirected(t) /\ Own(t)' = Own(t) /\ sock'[t].pc = sock[t].pc
                                   /\ Pair(t, "client")' = Pair(t, "client")
  BY <1>9, Zenon DEF Redirected, Own, Pair
<1>14. ASSUME NEW x \in DOMAIN sess_dest'
       PROVE  x \in Sockets /\ Redirected(x)' /\ sess_dest'[x] = Own(x)' /\ sock'[x].pc # "new"
  <2>1. CASE x \in DOMAIN sess_dest /\ x # s
    <3>1. sess_dest'[x] = sess_dest[x]
      BY <1>5, <2>1, Zenon DEF Put
    <3> QED
      BY <1>13, <2>1, <3>1, Zenon DEF FaultInv, Traced
  <2>2. CASE x \in DOMAIN sess_dest /\ x = s
    BY <1>2, <2>2, Zenon DEF FaultInv, Traced
  <2>3. CASE x \notin DOMAIN sess_dest
    <3>1. x = s /\ redirects /\ sess_dest' = Put(sess_dest, s, <<ip, port>>)
      BY <1>5, <2>3, Zenon DEF Put
    <3>2. sess_dest'[x] = <<ip, port>>
      BY <3>1, Zenon DEF Put
    <3>3. Own(s)' = <<ip, port>> /\ Redirected(s)'
      BY <1>10, <3>1, Zenon DEF Own, Redirected, redirects
    <3> QED
      BY <1>10, <3>1, <3>2, <3>3, Zenon
  <2> QED
    BY <2>1, <2>2, <2>3, Zenon
<1>15. ASSUME NEW p \in DOMAIN pair_dest'
       PROVE  \E t \in Sockets : /\ Redirected(t)' /\ sock'[t].pc \in {"active", "open", "proxied", "aborted", "closed"}
                                 /\ p = Pair(t, "client")' /\ pair_dest'[p] = Own(t)'
  <2>1. PICK t \in Sockets : /\ Redirected(t) /\ sock[t].pc \in {"active", "open", "proxied", "aborted", "closed"}
                             /\ p = Pair(t, "client") /\ pair_dest[p] = Own(t)
    BY <1>2, Zenon DEF FaultInv, Traced
  <2>2. t # s
    BY <1>2, <2>1, Zenon
  <2> QED
    BY <1>2, <1>13, <2>1, <2>2, Zenon
<1>16. WrongOriginIsEarlier'
  <2>1. ASSUME NEW u \in Sockets, sock'[u].pc = "proxied"
        PROVE  \/ sock'[u].origin \in {Own(u)', none}
               \/ \E t \in Sockets \ {u} : /\ sock'[t].tuple = sock'[u].tuple /\ sock'[t].pc \in {"aborted", "closed"}
                                           /\ Redirected(t)' /\ sock'[u].origin = Own(t)'
    <3>1. u # s /\ sock[u].pc = "proxied"
      BY <1>8, <1>10, <1>13, <2>1, Zenon
    <3>2. CASE sock[u].origin \in {Own(u), none}
      BY <1>9, <1>13, <3>1, <3>2, Zenon
    <3>3. CASE \E t \in Sockets \ {u} : /\ sock[t].tuple = sock[u].tuple /\ sock[t].pc \in {"aborted", "closed"}
                                        /\ Redirected(t) /\ sock[u].origin = Own(t)
      BY <1>2, <1>9, <1>13, <3>1, <3>3, Zenon
    <3> QED
      BY <3>1, <3>2, <3>3, Zenon DEF FaultInv, WrongOriginIsEarlier
  <2> QED
    BY <2>1, Zenon DEF WrongOriginIsEarlier
<1>17. Traced'
  BY <1>14, <1>15, Zenon DEF Traced
<1> QED
  BY <1>11, <1>12, <1>16, <1>17 DEF FaultInv

\* The callbacks of the kernel.
LEMMA ActiveFault ==
  ASSUME SockType, FaultInv, NEW s \in Sockets, ActiveEstablished(s), UNCHANGED client PROVE FaultInv'
<1>1. sock[s].pc = "syn" /\ UNCHANGED sess_dest
  BY DEF ActiveEstablished
<1>2. SamePlace(s, "active", sock[s].origin)
  BY PcStep, Zenon DEF ActiveEstablished
<1>3. /\ Led'
      /\ \A x \in DOMAIN sess_dest : x \in Sockets /\ Redirected(x)' /\ sess_dest[x] = Own(x)' /\ sock'[x].pc # "new"
      /\ \A p \in DOMAIN pair_dest : \E t \in Sockets :
           /\ Redirected(t)' /\ sock'[t].pc \in {"active", "open", "proxied", "aborted", "closed"}
           /\ p = Pair(t, "client")' /\ pair_dest[p] = Own(t)'
      /\ WrongOriginIsEarlier'
  BY <1>1, <1>2, MoveFault
<1>4. FaultType'
  BY FaultsAssumption DEF ActiveEstablished, NoFault, Fault, FaultInv, FaultType
<1>5. ASSUME NEW p \in DOMAIN pair_dest'
      PROVE  \E t \in Sockets : /\ Redirected(t)' /\ sock'[t].pc \in {"active", "open", "proxied", "aborted", "closed"}
                                /\ p = Pair(t, "client")' /\ pair_dest'[p] = Own(t)'
  <2>1. CASE p \in DOMAIN pair_dest /\ pair_dest'[p] = pair_dest[p]
    BY <1>3, <2>1, Zenon
  <2>2. CASE ~(p \in DOMAIN pair_dest /\ pair_dest'[p] = pair_dest[p])
    <3>1. s \in DOMAIN sess_dest /\ pair_dest' = Put(pair_dest, Pair(s, "client"), sess_dest[s])
      BY <2>2, Zenon DEF ActiveEstablished
    <3>2. p = Pair(s, "client") /\ pair_dest'[p] = sess_dest[s]
      BY <2>2, <3>1, Zenon DEF Put
    <3>3. Redirected(s)' /\ sess_dest[s] = Own(s)'
      BY <1>3, <3>1, Zenon
    <3>4. sock'[s].pc = "active" /\ Pair(s, "client")' = Pair(s, "client")
      BY <1>2, Zenon DEF SamePlace
    <3> QED
      BY <3>2, <3>3, <3>4
  <2> QED
    BY <2>1, <2>2, Zenon
<1>6. Traced'
  BY <1>1, <1>3, <1>5, Zenon DEF Traced
<1> QED
  BY <1>3, <1>4, <1>6 DEF FaultInv

\* The proxy's callback, a connection that is not redirected, and the end of
\* one leave the notes alone.
LEMMA QuietFault ==
  ASSUME SockType, FaultInv, NEW s \in Sockets, PassiveEstablished(s) \/ Unredirected(s) \/ Close(s), UNCHANGED client
  PROVE  FaultInv'
<1>1. UNCHANGED <<sess_dest, pair_dest, lost, faults>>
  BY Zenon DEF PassiveEstablished, Unredirected, Close
<1>2. PICK pc \in {"open", "refused", "aborted", "closed"} :
        SamePlace(s, pc, sock[s].origin) /\ (pc = "refused" => sock[s].pc = "syn")
  <2>1. CASE PassiveEstablished(s)
    BY <2>1, PcStep, Zenon DEF PassiveEstablished
  <2>2. CASE Unredirected(s)
    <3> DEFINE pc == IF sock[s].ip = bridge THEN "refused" ELSE "closed"
    <3>1. pc \in {"open", "refused", "aborted", "closed"} /\ sock[s].pc = "syn"
      BY <2>2 DEF Unredirected
    <3>2. SamePlace(s, pc, sock[s].origin)
      BY <2>2, PcStep, Zenon DEF Unredirected
    <3> HIDE DEF pc
    <3> QED
      BY <3>1, <3>2
  <2>3. CASE Close(s)
    <3> DEFINE pc == IF sock[s].pc = "open" THEN "aborted" ELSE "closed"
    <3>1. pc \in {"open", "refused", "aborted", "closed"} /\ pc # "refused"
      OBVIOUS
    <3>2. sock' = [sock EXCEPT ![s].pc = pc]
      BY <2>3 DEF Close, SockType
    <3>3. SamePlace(s, pc, sock[s].origin)
      BY <3>2, PcStep, Zenon
    <3> HIDE DEF pc
    <3> QED
      BY <3>1, <3>3, Zenon
  <2> QED
    BY <2>1, <2>2, <2>3
<1>3. sock[s].pc \in {"syn", "active", "open", "proxied"}
  BY Zenon DEF PassiveEstablished, Unredirected, Close
<1>4. /\ Led' /\ WrongOriginIsEarlier'
      /\ \A x \in DOMAIN sess_dest : x \in Sockets /\ Redirected(x)' /\ sess_dest[x] = Own(x)' /\ sock'[x].pc # "new"
      /\ \A p \in DOMAIN pair_dest : \E t \in Sockets :
           /\ Redirected(t)' /\ sock'[t].pc \in {"active", "open", "proxied", "aborted", "closed"}
           /\ p = Pair(t, "client")' /\ pair_dest[p] = Own(t)'
  BY <1>2, <1>3, MoveFault, Zenon
<1>5. Traced' /\ FaultType'
  BY <1>1, <1>4, Zenon DEF Traced, FaultInv, FaultType
<1> QED
  BY <1>4, <1>5 DEF FaultInv

\* The proxy is told what the note under its addresses says: the connection's
\* own, or that of one which had them before and is over.
LEMMA OriginalDstFault ==
  ASSUME SockType, Distinct, FaultInv, NEW s \in Sockets, GetOriginalDst(s), UNCHANGED client PROVE FaultInv'
<1> DEFINE p == Pair(s, "client")
           answer == IF p \in DOMAIN pair_dest THEN pair_dest[p] ELSE none
<1>1. sock[s].pc = "open" /\ Live(s) /\ UNCHANGED <<sess_dest, pair_dest, lost, faults>>
  BY DEF GetOriginalDst, Live, Established
<1>2. SamePlace(s, "proxied", answer)
  BY CallbackStep, Zenon DEF GetOriginalDst
<1>3. \/ answer = none
      \/ \E t \in Sockets : /\ Redirected(t) /\ sock[t].pc \in {"active", "open", "proxied", "aborted", "closed"}
                            /\ p = Pair(t, "client") /\ answer = Own(t)
  BY Zenon DEF FaultInv, Traced
<1>4. \A t \in Sockets : Live(t) /\ t # s => p # Pair(t, "client")
  BY <1>1, PairsDiffer, Zenon
<1>5. \A t \in Sockets : p = Pair(t, "client") => sock[t].tuple = sock[s].tuple
  BY Zenon DEF Pair
<1> HIDE DEF answer, p
<1>6. /\ Led'
      /\ \A x \in DOMAIN sess_dest : x \in Sockets /\ Redirected(x)' /\ sess_dest[x] = Own(x)' /\ sock'[x].pc # "new"
      /\ \A e \in DOMAIN pair_dest : \E t \in Sockets :
           /\ Redirected(t)' /\ sock'[t].pc \in {"active", "open", "proxied", "aborted", "closed"}
           /\ e = Pair(t, "client")' /\ pair_dest[e] = Own(t)'
  BY <1>1, <1>2, MoveFault, Zenon
<1>7. Traced' /\ FaultType'
  BY <1>1, <1>6, Zenon DEF Traced, FaultInv, FaultType
<1>8. \/ answer \in {Own(s), none}
      \/ \E t \in Sockets \ {s} : /\ sock[t].tuple = sock[s].tuple /\ sock[t].pc \in {"aborted", "closed"}
                                  /\ Redirected(t) /\ answer = Own(t)
  BY <1>3, <1>4, <1>5, Zenon DEF Live, Established
<1>9. ASSUME NEW u \in Sockets, sock'[u].pc = "proxied"
      PROVE  \/ sock'[u].origin \in {Own(u)', none}
             \/ \E t \in Sockets \ {u} : /\ sock'[t].tuple = sock'[u].tuple /\ sock'[t].pc \in {"aborted", "closed"}
                                         /\ Redirected(t)' /\ sock'[u].origin = Own(t)'
  <2>1. \A t \in Sockets : sock[t].pc \in {"aborted", "closed"} => sock'[t].pc = sock[t].pc
    BY <1>1, <1>2, Zenon DEF SamePlace
  <2>2. CASE u = s
    BY <1>2, <1>8, <2>1, <2>2 DEF SamePlace
  <2>3. CASE u # s
    BY <1>2, <1>9, <2>1, <2>3 DEF SamePlace, FaultInv, WrongOriginIsEarlier
  <2> QED
    BY <2>2, <2>3, Zenon
<1>10. WrongOriginIsEarlier'
  BY <1>9 DEF WrongOriginIsEarlier
<1> QED
  BY <1>6, <1>7, <1>10 DEF FaultInv

\* A dropped note is just gone.
LEMMA EvictFault ==
  ASSUME FaultInv, NEW s \in Sockets, Evict(s), UNCHANGED client PROVE FaultInv'
<1>1. UNCHANGED sock
  BY Zenon DEF Evict
<1>2. /\ \A x \in DOMAIN sess_dest' : x \in DOMAIN sess_dest /\ sess_dest'[x] = sess_dest[x]
      /\ \A p \in DOMAIN pair_dest' : p \in DOMAIN pair_dest /\ pair_dest'[p] = pair_dest[p]
  BY Zenon DEF Evict, Remove
<1>3. FaultType'
  BY FaultsAssumption DEF Evict, Fault, FaultInv, FaultType
<1>4. \A t \in Sockets : Redirected(t)' = Redirected(t) /\ Own(t)' = Own(t) /\ Pair(t, "client")' = Pair(t, "client")
  BY <1>1, Zenon DEF Redirected, Own, Pair
<1>5. Traced'
  BY <1>1, <1>2, <1>4, Zenon DEF FaultInv, Traced
<1>6. Led'
  BY <1>1 DEF FaultInv, Led, bridge, proxyPort
<1>7. WrongOriginIsEarlier'
  BY <1>1, <1>4 DEF FaultInv, WrongOriginIsEarlier
<1> QED
  BY <1>3, <1>5, <1>6, <1>7, Zenon DEF FaultInv

\* No fault has happened at first.
LEMMA InitFault == Init => FaultInv
<1> SUFFICES ASSUME Init PROVE FaultInv
  OBVIOUS
<1>1. \A s \in Sockets : sock[s].pc = "new"
  BY DEF Init, RedirectInit, New
<1>2. DOMAIN sess_dest = {} /\ DOMAIN pair_dest = {} /\ lost = {} /\ faults = 0
  BY DEF Init, RedirectInit, Empty
<1>3. 0 \in 0..MaxFaults
  BY FaultsAssumption
<1> QED
  BY <1>1, <1>2, <1>3, Zenon DEF FaultInv, Traced, Led, FaultType, WrongOriginIsEarlier

\* A step of the DNS program: a reply that cannot be sent is a fault.
LEMMA DnsFault ==
  ASSUME AnswerInv, FaultInv, NEW k \in Cpus,
         \/ \E c \in Sockets, t \in RecordTypes : Ask(c, k, t)
         \/ Finish(k) \/ Deliver(k)
  PROVE  FaultInv'
<1>1. UNCHANGED <<sock, sess_dest, pair_dest>>
  BY Zenon DEF Ask, Finish, Deliver, redirectVars
<1>2. FaultType'
  <2>1. UNCHANGED lost /\ (UNCHANGED faults \/ (faults < MaxFaults /\ faults' = faults + 1))
    BY Zenon DEF Ask, Finish, Deliver, redirectVars
  <2> QED
    BY <2>1, FaultsAssumption DEF FaultInv, FaultType
<1>3. \A d \in Sockets : SameProgram(d)
  <2>1. \A c \in Sockets : client[c] = [ pc |-> client[c].pc, user |-> client[c].user, name |-> client[c].name,
                                         port |-> client[c].port, ip |-> client[c].ip ]
    BY Zenon DEF AnswerInv, ClientOK
  <2>2. client = [c \in Sockets |-> client[c]]
    BY DEF AnswerInv
  <2>3. ASSUME NEW c \in Sockets, NEW pc, NEW ip, client' = [client EXCEPT ![c].pc = pc, ![c].ip = ip]
        PROVE  \A d \in Sockets : SameProgram(d)
    <3>1. client'[c] = [[client[c] EXCEPT !.pc = pc] EXCEPT !.ip = ip] /\ \A d \in Sockets : d # c => client'[d] = client[d]
      BY <2>2, <2>3
    <3>2. client'[c].user = client[c].user /\ client'[c].name = client[c].name
      BY <2>1, <3>1
    <3> QED
      BY <3>1, <3>2, Zenon DEF SameProgram
  <2>4. ASSUME NEW c \in Sockets, NEW t \in RecordTypes, Ask(c, k, t) PROVE \A d \in Sockets : SameProgram(d)
    <3>1. client' = [client EXCEPT ![c].pc = "wait"]
      BY <2>4 DEF Ask
    <3>2. client'[c] = [client[c] EXCEPT !.pc = "wait"] /\ \A d \in Sockets : d # c => client'[d] = client[d]
      BY <2>2, <3>1
    <3>3. client'[c].user = client[c].user /\ client'[c].name = client[c].name
      BY <2>1, <3>2, Zenon
    <3> QED
      BY <3>2, <3>3, Zenon DEF SameProgram
  <2>5. CASE Finish(k)
    BY <2>5 DEF Finish, SameProgram
  <2>6. CASE Deliver(k)
    <3>1. cpu[k].pkt.src \in Sockets
      BY <2>6, Zenon DEF Deliver, AnswerInv, CpuOK
    <3> QED
      BY <2>3, <2>6, <3>1, Zenon DEF Deliver
  <2> QED
    BY <2>4, <2>5, <2>6
<1> QED
  BY <1>1, <1>2, <1>3, StutterFault

\* Every step keeps what is known about faults.
LEMMA NextFault == RedirectInv /\ AnswerInv /\ FaultInv /\ [Next]_vars => FaultInv'
<1> SUFFICES ASSUME RedirectInv, AnswerInv, FaultInv, [Next]_vars PROVE FaultInv'
  OBVIOUS
<1>0. SockType /\ Distinct
  BY DEF RedirectInv
<1>1. ASSUME NEW c \in Sockets, NEW k \in Cpus, NEW t \in RecordTypes, Ask(c, k, t) PROVE FaultInv'
  BY <1>1, DnsFault, Zenon
<1>2. ASSUME NEW k \in Cpus, Finish(k) \/ Deliver(k) PROVE FaultInv'
  BY <1>2, DnsFault, Zenon
<1>3. ASSUME NEW c \in Sockets, NEW tuple \in Tuples, Dial(c, tuple) PROVE FaultInv'
  BY <1>0, <1>3, DialFault
<1>4. ASSUME NEW s \in Sockets, InKernel(s) PROVE FaultInv'
  BY <1>0, <1>4, ActiveFault, QuietFault, OriginalDstFault, Zenon DEF InKernel, Kernel
<1>5. ASSUME NEW s \in Sockets, Close(s) \/ Evict(s), UNCHANGED client PROVE FaultInv'
  BY <1>0, <1>5, QuietFault, EvictFault, Zenon
<1>6. CASE ForgetEntry \/ UNCHANGED vars
  <2>1. UNCHANGED <<redirectVars, client>>
    BY <1>6 DEF ForgetEntry, vars
  <2>2. UNCHANGED <<sock, sess_dest, pair_dest>> /\ FaultType' /\ \A c \in Sockets : SameProgram(c)
    BY <2>1 DEF redirectVars, FaultInv, FaultType, SameProgram
  <2> QED
    BY <2>2, StutterFault
<1> QED
  BY <1>1, <1>2, <1>3, <1>4, <1>5, <1>6, Zenon DEF Next

\* For any number of programs, source ports and faults: whatever notes are
\* dropped or cannot be written, the proxy is told nothing, the truth, or what
\* a connection that is over asked for from the same port; and no program that
\* asked for an imported name is connected to anything but the proxy.
THEOREM FaultsHarmless == Spec => []FaultsLeadNowhere
<1>1. RedirectInv /\ AnswerInv /\ FaultInv => FaultsLeadNowhere
  <2> SUFFICES ASSUME RedirectInv, AnswerInv, FaultInv PROVE FaultsLeadNowhere
    OBVIOUS
  <2>1. TypeOK
    BY Zenon DEF RedirectInv, SockType, AnswerInv, CpuOK, ClientOK, FaultInv, FaultType, Traced, TypeOK
  <2>2. ImportedOnlyThroughProxy
    BY DEF FaultInv, Led, ImportedOnlyThroughProxy
  <2> QED
    BY <2>1, <2>2 DEF FaultInv, FaultsLeadNowhere
<1> QED
  BY <1>1, InitRedirect, NextRedirect, InitBuffer, NextBuffer, InitAnswer, NextAnswer, InitFault, NextFault, PTL DEF Spec
=============================================================================
