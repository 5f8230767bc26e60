--------------------------- MODULE DnsPacketProps ---------------------------
(***************************************************************************)
(* What a client may expect of the packets the DNS responder sends back.   *)
(* The client's side is written from the formats (RFC 791, 768, 1035), not *)
(* from the code: it reads both the query and the response by their own    *)
(* length fields.                                                          *)
(***************************************************************************)
EXTENDS DnsPacket

asked == query.bytes

(* A name that starts at p and whose last byte, the root label, is at z:    *)
(* the labels between them, each up to 63 bytes long, start at S.           *)
IsName(m, p, z) ==
  /\ m[z] = 0
  /\ \E S \in SUBSET {i \in p .. z - 1 : m[i] \in 1..63} :
       LET starts == S \union {z}
       IN  /\ p \in starts
           /\ \A i \in S : i + 1 + m[i] \in starts
           /\ \A j \in starts \ {p} : \E i \in S : i + 1 + m[i] = j

(* The last bytes of the names that start at p and leave room for a type    *)
(* and a class before end. There is at most one.                            *)
NameEnds(m, p, end) == {z \in p .. end - 5 : IsName(m, p, z)}

(* The bytes of the first question of a message that starts at d.           *)
QuestionEnd(m, d, end) ==
  (CHOOSE z \in NameEnds(m, d + 12, end) : TRUE) + 5

IpEnd(m) == 14 + Ntohs(m, 16)

(* What a receiver adds up to verify an IP header, in network order.        *)
VerifyingSum(m) ==
  LET sum[i \in 0 .. IpLen(m) \div 2] ==
        IF i = 0 THEN 0 ELSE sum[i - 1] + Ntohs(m, 14 + 2 * (i - 1))
  IN  sum[IpLen(m) \div 2]

-----------------------------------------------------------------------------
(* A response to an IPv4 query reaches the socket that asked: MACs,         *)
(* addresses and ports are exchanged, the lengths of Ethernet, IP and UDP   *)
(* agree with each other, and the IP checksum verifies, with IP options and *)
(* whatever the query carried after its question.                           *)
ReplyDelivered ==
  at = "sent" /\ IsIpv4(asked) =>
    /\ Get(pkt, 0, 12) = Get(asked, 6, 6) \o Get(asked, 0, 6)
    /\ Get(pkt, 26, 8) = Get(asked, 30, 4) \o Get(asked, 26, 4)
    /\ Get(pkt, Udp(pkt), 4) = Get(asked, Udp(asked) + 2, 2)
                                 \o Get(asked, Udp(asked), 2)
    /\ IpEnd(pkt) <= len
    /\ Ntohs(pkt, Udp(pkt) + 4) = IpEnd(pkt) - Udp(pkt)
    /\ Ntohs(pkt, Udp(pkt) + 6) = 0     \* no UDP checksum, RFC 768
    /\ VerifyingSum(pkt) > 0 /\ VerifyingSum(pkt) % 65535 = 0

(* A response of the DNS mode answers the question that was asked: same ID  *)
(* and question, one answer of the type asked whose name points at the      *)
(* question (or NOTIMP and none, for an unsupported type), and the message  *)
(* holds what its counts say and nothing after it.                          *)
ReplyMatchesQuestion ==
  at = "sent" /\ fn = "dns" /\ IsIpv4(asked) =>
    LET d    == Dns(asked)
        end  == QuestionEnd(asked, d, query.len)
        type == Ntohs(asked, end - 4)
        n    == Ntohs(pkt, d + 6)
    IN  /\ Get(pkt, d, 2) = Get(asked, d, 2)
        /\ QuestionEnd(pkt, d, len) = end
        /\ Get(pkt, d + 12, end - d - 12) = Get(asked, d + 12, end - d - 12)
        /\ pkt[d + 2] \div 128 = 1
        /\ <<pkt[d + 3] % 16, n>> = IF HasTemplate(type) THEN <<0, 1>>
                                                         ELSE <<4, 0>>
        /\ Get(pkt, d + 4, 2) = <<0, 1>> /\ Get(pkt, d + 8, 4) = <<0, 0, 0, 0>>
        /\ n = 0 => IpEnd(pkt) = end
        /\ n = 1 => /\ Get(pkt, end, 2) = <<192, 12>>
                    /\ Ntohs(pkt, end + 2) = type
                    /\ IpEnd(pkt) = end + 12 + Ntohs(pkt, end + 10)

(* The DNS mode counts a parse error exactly for the IPv4 packets without a *)
(* complete first question: a truncated or malformed one is never answered  *)
(* and a well-formed one never dropped, however the packet ends.            *)
RejectedIffMalformed ==
  at \in {"sent", "freed"} /\ fn = "dns" /\ IsIpv4(asked) =>
    (at = "freed" <=> NameEnds(asked, Dns(asked) + 12, query.len) = {})
=============================================================================
