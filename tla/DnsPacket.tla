------------------------------ MODULE DnsPacket ------------------------------
(***************************************************************************)
(* One packet of the DNS responder, from the XDP filter to the response    *)
(* built in place by process_dns_packet or process_nxdomain_packet.        *)
(*                                                                         *)
(* A frame is its bytes, numbered from 0 as the pointers of the code do.   *)
(* The contents of an answer do not matter to any property: the RDATA of   *)
(* type t is as many bytes as in the code, each of them t.                 *)
(***************************************************************************)
EXTENDS Integers, Sequences

CONSTANTS
  FrameSize,  \* bytes of a UMEM frame
  Queries     \* what clients send, see Frame

\* Every field has its width, and an IPv4 header its five words at least. The
\* headers (up to 82 bytes), the longest message and an answer fit a frame.
ASSUME FrameAssumption ==
  /\ FrameSize \in Nat /\ FrameSize <= 65535
  /\ \A q \in Queries :
       /\ q.l3 \in {4, 6} /\ q.ihl \in 0..15 /\ (q.l3 = 4 => q.ihl >= 5)
       /\ q.saddr \in Seq(0..255) /\ Len(q.saddr) = 4
       /\ q.port \in Nat /\ q.port <= 65535
       /\ q.msg \in Seq(0..255) /\ q.pad \in Nat
       /\ 82 + Len(q.msg) + q.pad + 64 <= FrameSize

VARIABLES
  fn,     \* the worker function: "dns" or "nxdomain"
  query,  \* the packet as the client sent it: its frame and its length
  pkt,    \* the bytes of the frame now
  len,    \* the length the packet has now
  at      \* "wire", "stack" (XDP_PASS), "worker", "freed" or "sent"

vars == <<fn, query, pkt, len, at>>

-----------------------------------------------------------------------------
(* Bytes. *)

Put(m, o, bytes) ==
  [i \in DOMAIN m |->
     IF i \in o .. o + Len(bytes) - 1 THEN bytes[i - o + 1] ELSE m[i]]

Get(m, o, w) == [i \in 1..w |-> m[o + i - 1]]

Ntohs(m, o) == 256 * m[o] + m[o + 1]
Htons(v)    == <<(v \div 256) % 256, v % 256>>

\* A 16-bit word as the CPU (little-endian) reads and writes it.
Word(m, o) == m[o] + 256 * m[o + 1]

(* Where the headers are: Ethernet at 0, IP at 14, then UDP, DNS and the   *)
(* question, which IP options shift.                                       *)
IpLen(m)    == (m[14] % 16) * 4
Udp(m)      == 14 + IpLen(m)
Dns(m)      == Udp(m) + 8
Question(m) == Dns(m) + 12
MinHdr      == 54
IsIpv4(m)   == Ntohs(m, 12) = 2048
IsIpv6(m)   == Ntohs(m, 12) = 34525

-----------------------------------------------------------------------------
(* net.h *)

Swap(m, a, b, w) == Put(Put(m, a, Get(m, b, w)), b, Get(m, a, w))

EthSwap(m)  == Swap(m, 0, 6, 6)
Ipv4Swap(m) == Swap(m, 26, 30, 4)
UdpSwap(m)  == Swap(m, Udp(m), Udp(m) + 2, 2)

SwapHeaders(m) == UdpSwap(Ipv4Swap(EthSwap(m)))

\* The sum of the words of an IP header of that many bytes.
SumOfWords(m, bytes) ==
  LET sum[i \in 0 .. bytes \div 2] ==
        IF i = 0 THEN 0 ELSE sum[i - 1] + Word(m, 14 + 2 * (i - 1))
  IN  sum[bytes \div 2]

(* Two carries are added back; ~sum & 0xFFFF.                              *)
Fold(sum)       == LET s == (sum \div 65536) + (sum % 65536)
                   IN  s + (s \div 65536)
Complement(sum) == 65535 - (Fold(sum) % 65536)

ChecksumOver(m, bytes) ==
  LET zeroed == Put(m, 24, <<0, 0>>)
      check  == Complement(SumOfWords(zeroed, bytes))
  IN  Put(zeroed, 24, <<check % 256, check \div 256>>)

\* A mistake a property must notice: the options are left out.
ChecksumFixedHeader(m) == ChecksumOver(m, 20)

IpChecksum(m) == ChecksumOver(m, IpLen(m))

-----------------------------------------------------------------------------
(* dns.c *)

RdLength == [t \in {1, 28, 5, 15, 65} |->
               CASE t = 1  -> 4       \* A
                 [] t = 28 -> 16      \* AAAA
                 [] t = 5  -> 12      \* CNAME
                 [] t = 15 -> 14      \* MX
                 [] t = 65 -> 3]      \* HTTPS

HasTemplate(qtype) == qtype \in DOMAIN RdLength

(* NAME (a pointer to offset 12), TYPE, CLASS IN, TTL 3600, RDLENGTH and    *)
(* RDATA.                                                                   *)
Answer(t) ==
  <<192, 12>> \o Htons(t) \o Htons(1) \o <<0, 0, 14, 16>>
    \o Htons(RdLength[t]) \o [i \in 1..RdLength[t] |-> t]

(* The length of the QNAME at q, or 0.                                      *)
ScanQname(m, q, end) ==
  LET scan[p \in q..end] ==
        IF p = end \/ m[p] > 63      THEN 0
        ELSE IF m[p] = 0             THEN p + 1 - q
        ELSE IF p + 1 + m[p] > end   THEN 0
        ELSE scan[p + 1 + m[p]]
  IN  scan[q]

QnameLen == ScanQname(pkt, Question(pkt), len)
Qtype    == Ntohs(pkt, Question(pkt) + QnameLen)
NextPart == Question(pkt) + QnameLen + 4   \* question + question_len

\* A mistake a property must notice: a question that ends the packet is out.
QuestionFitsStrictly ==
  /\ len >= MinHdr /\ IpLen(pkt) >= 20 /\ Question(pkt) < len
  /\ QnameLen > 0 /\ NextPart < len

(* None of the early returns of process_dns_packet is taken.                *)
QuestionFits ==
  /\ len >= MinHdr /\ IpLen(pkt) >= 20 /\ Question(pkt) < len
  /\ QnameLen > 0 /\ NextPart <= len

\* A mistake a property must notice: the record counts stay.
DnsHeaderKeepsCounts(m, flags, ancount) ==
  Put(m, Dns(m) + 2, Htons(flags) \o Htons(1) \o Htons(ancount))

(* The DNS header of a response: the ID stays, qdcount is 1.                *)
DnsHeader(m, flags, ancount) ==
  Put(m, Dns(m) + 2, Htons(flags) \o Htons(1) \o Htons(ancount)
                       \o <<0, 0, 0, 0>>)

(* udp->len, udp->check and ip->tot_len of a response that ends at end, in  *)
(* 16 bits as dns_len, udp_len and ip_total are; then the IP checksum.      *)
Finish(m, end) ==
  LET lengths == Put(Put(m, Udp(m) + 4, Htons(end - Udp(m)) \o <<0, 0>>),
                     16, Htons(end - 14))
  IN  IpChecksum(lengths)

Send(m, l) == pkt' = m /\ len' = l /\ at' = "sent"

-----------------------------------------------------------------------------
(* What clients send: l3 is 4 or 6; ihl is the IP header length in words,   *)
(* or the high half of an IPv6 traffic class, which is in the same bits;    *)
(* msg is the DNS message, or as much of it as was sent, and pad the number *)
(* of padding bytes after it. The MACs are 2 and 3.                         *)
Pattern(b, k) == [i \in 1..k |-> b]

Ipv4Header(q) ==
  LET total == 4 * q.ihl + 8 + Len(q.msg)
  IN  <<64 + q.ihl, 0>> \o Htons(total) \o <<0, 1, 0, 0, 64, 17, 0, 0>>
        \o q.saddr \o <<10, 0, 0, 1>> \o Pattern(7, 4 * (q.ihl - 5))

Ipv6Header(q) ==
  <<96 + q.ihl, 0, 0, 0>> \o Htons(8 + Len(q.msg)) \o <<17, 64>>
    \o Pattern(4, 16) \o Pattern(5, 16)

Frame(q) ==
  LET packet ==
        Pattern(2, 6) \o Pattern(3, 6)
          \o (IF q.l3 = 4 THEN <<8, 0>> \o Ipv4Header(q)
                          ELSE <<134, 221>> \o Ipv6Header(q))
          \o <<200, 1>> \o Htons(q.port) \o Htons(8 + Len(q.msg)) \o <<5, 5>>
          \o q.msg
  IN  [bytes |-> Put([i \in 0 .. FrameSize - 1 |-> 0], 0, packet),
       len   |-> Len(packet) + q.pad]

Init ==
  /\ fn \in {"dns", "nxdomain"}
  /\ query \in {Frame(q) : q \in Queries}
  /\ pkt = query.bytes /\ len = query.len
  /\ at = "wire"

-----------------------------------------------------------------------------
(* xdp_dns_redirect.c: is there a UDP header to port 53 at o? (The redirect *)
(* itself falls back to XDP_PASS only for a queue without a socket.)        *)
ToDnsPort(o) == o + 8 <= len /\ Ntohs(pkt, o + 2) = 53

Redirected ==
  \/ len >= 34 /\ IsIpv4(pkt) /\ pkt[23] = 17 /\ ToDnsPort(Udp(pkt))
  \/ len >= 54 /\ IsIpv6(pkt) /\ pkt[20] = 17 /\ ToDnsPort(54)

Filter ==
  /\ at = "wire"
  /\ at' = IF Redirected THEN "worker" ELSE "stack"
  /\ UNCHANGED <<fn, query, pkt, len>>

(* process_dns_packet returns 0: a parse error.                             *)
Reject ==
  /\ at = "worker" /\ fn = "dns" /\ ~QuestionFits
  /\ at' = "freed"
  /\ UNCHANGED <<fn, query, pkt, len>>

(* process_dns_packet, a supported type: the answer goes right after the    *)
(* question, over whatever is there.                                        *)
AnswerQuery ==
  /\ at = "worker" /\ fn = "dns" /\ QuestionFits /\ HasTemplate(Qtype)
  /\ LET header == DnsHeader(SwapHeaders(pkt), 33792, 1)    \* 0x8400
         end    == NextPart + Len(Answer(Qtype))
     IN  Send(Finish(Put(header, NextPart, Answer(Qtype)), end), end)
  /\ UNCHANGED <<fn, query>>

(* process_dns_packet, any other type.                                      *)
NotImplemented ==
  /\ at = "worker" /\ fn = "dns" /\ QuestionFits /\ ~HasTemplate(Qtype)
  /\ Send(Finish(DnsHeader(SwapHeaders(pkt), 33796, 0), NextPart),  \* 0x8404
          NextPart)
  /\ UNCHANGED <<fn, query>>

(* process_nxdomain_packet: the length stays, nothing but the length of the *)
(* packet is checked.                                                       *)
RejectShort ==
  /\ at = "worker" /\ fn = "nxdomain" /\ len < MinHdr
  /\ at' = "freed"
  /\ UNCHANGED <<fn, query, pkt, len>>

NxDomain ==
  /\ at = "worker" /\ fn = "nxdomain" /\ len >= MinHdr
  /\ LET header == DnsHeader(SwapHeaders(pkt), 33795, 0)    \* 0x8403
         summed == IpChecksum(header)
     IN  Send(Put(summed, Udp(pkt) + 6, <<0, 0>>), len)
  /\ UNCHANGED <<fn, query>>

Next ==
  \/ Filter
  \/ Reject \/ AnswerQuery \/ NotImplemented
  \/ RejectShort \/ NxDomain

Spec == Init /\ [][Next]_vars
=============================================================================
