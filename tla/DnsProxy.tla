------------------------------ MODULE DnsProxy ------------------------------
(***************************************************************************)
(* ecnet_dnsproxy.c: the XDP program at the bridge, which answers queries  *)
(* for imported names in place of the cluster's DNS server.  It runs on    *)
(* several CPUs at once; they share the buffer that an answer is built in. *)
(*                                                                         *)
(* A packet is [src, dst, dport, udp, query, parsed, name, type]: parsed   *)
(* says that parse_query finds the end of the name and what follows it.    *)
(* The checksums are operators on the sum of a packet's words; Word stands *)
(* for 2^16, the sum for UDP has two words and the one for IP four.        *)
(***************************************************************************)
EXTENDS Naturals, FiniteSets

CONSTANTS Cpus, Word, null

ASSUME WordAssumption == Word \in Nat \ {0, 1}

VARIABLES
  resdb,       (* ecnet_dns_resdb: <<name, type>> -> record                *)
  endpt,       (* ecnet_dns_endpt: address of a DNS pod -> its cluster IP  *)
  dns_buffer,
  cpu          (* [pc, pkt, matched, reply]                                *)

dnsVars == <<resdb, endpt, dns_buffer, cpu>>

Idle == [pc |-> "idle", pkt |-> null, matched |-> null, reply |-> null]

\* Mutant: the carries are not added.
cal_udp_csum_NoCarry(sum) == Word - 1 - (sum % Word)

\* cal_udp_csum: the carries are added once, and what that carries is lost.
cal_udp_csum(sum) == Word - 1 - (((sum % Word) + (sum \div Word)) % Word)

\* csum_fold_helper: four times, which leaves no carry.
csum_fold_helper(sum) ==
  LET fold(x) == (x % Word) + (x \div Word)
  IN  Word - 1 - fold(fold(fold(fold(sum))))

\* The checks of ecnet_dns_proxy, parse_query and match_a_records.
Answers(pkt) ==
  /\ pkt.udp /\ pkt.dst \in DOMAIN endpt /\ pkt.dport = 53
  /\ pkt.query /\ pkt.parsed
  /\ <<pkt.name, pkt.type>> \in DOMAIN resdb

\* A packet that matches has its header changed at once
\* (modify_dns_header_response) and its answer built in the buffer
\* (create_query_response); any other one is passed on.
Receive(k, pkt) ==
  /\ cpu[k].pc = "idle"
  /\ IF Answers(pkt)
       THEN LET record == resdb[<<pkt.name, pkt.type>>]
            IN  /\ dns_buffer' = record
                /\ cpu' = [cpu EXCEPT ![k] = [pc |-> "adjust", pkt |-> [pkt EXCEPT !.query = FALSE],
                                              matched |-> record, reply |-> null]]
       ELSE /\ cpu' = [cpu EXCEPT ![k] = [Idle EXCEPT !.pc = "XDP_PASS", !.pkt = pkt]]
            /\ UNCHANGED dns_buffer
  /\ UNCHANGED <<resdb, endpt>>

\* The reply: what lies in the buffer, always as an A record, from the
\* cluster IP to the sender.
ReplyOf(pkt, src) ==
  [src |-> src, dst |-> pkt.src, type |-> "A", answer |-> dns_buffer]

\* bpf_xdp_adjust_tail, copy_to_pkt_buf, swap_src_dst_udp, swap_src_dst_mac.
\* When the tail cannot be adjusted the packet is passed on with its header
\* changed.  cluster_ip points into the map: the entry may have changed.
Reply(k, adjusted) ==
  LET eip == cpu[k].pkt.dst
      now == IF eip \in DOMAIN endpt THEN {endpt[eip]} ELSE {endpt[e] : e \in DOMAIN endpt} \cup {null}
  IN  /\ cpu[k].pc = "adjust"
      /\ \E src \in now :
           cpu' = [cpu EXCEPT ![k].pc = IF adjusted THEN "XDP_TX" ELSE "XDP_PASS",
                              ![k].reply = IF adjusted THEN ReplyOf(cpu[k].pkt, src) ELSE null]
      /\ UNCHANGED <<resdb, endpt, dns_buffer>>

\* The kernel drops an entry, or the bridge deletes it.
Forget ==
  /\ \/ \E x \in DOMAIN resdb : resdb' = [y \in DOMAIN resdb \ {x} |-> resdb[y]] /\ UNCHANGED endpt
     \/ \E e \in DOMAIN endpt : endpt' = [y \in DOMAIN endpt \ {e} |-> endpt[y]] /\ UNCHANGED resdb
  /\ UNCHANGED <<dns_buffer, cpu>>

-----------------------------------------------------------------------------
\* One's complement addition: the carries are added until there are none.
OnesSum(sum) == IF sum = 0 THEN 0 ELSE 1 + ((sum - 1) % (Word - 1))

\* What the two checksum functions return over all sums they can be given.
ChecksumsRight ==
  /\ \A sum \in 0..(Word * Word * Word * Word - 1) : csum_fold_helper(sum) = Word - 1 - OnesSum(sum)
  /\ \A sum \in 0..(Word * Word - 1) :
       (sum % Word) + (sum \div Word) < Word => cal_udp_csum(sum) = Word - 1 - OnesSum(sum)

\* A reply that is sent has the right checksums, whatever its words add up to:
\* csum_fold_helper's four rounds are enough for every sum that bpf_csum_diff
\* can return, and cal_udp_csum's single round for every sum except those
\* whose carries carry once more.
ChecksumUnlessCarry ==
  (\E k \in Cpus : cpu[k].pc = "XDP_TX") => ChecksumsRight
=============================================================================
