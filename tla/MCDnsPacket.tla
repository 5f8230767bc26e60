---------------------------- MODULE MCDnsPacket ----------------------------
EXTENDS DnsPacketProps

Header == <<7, 9, 1, 0, 0, 1, 0, 0, 0, 0, 0, 1>>

\* The root, one and two labels, a label of 63 bytes, a label whose bytes look
\* like lengths; a label of 64 bytes, a compression pointer.
Names == { <<0>>, <<1, 97, 0>>, <<2, 0, 1, 1, 97, 0>>,
           <<63>> \o Pattern(97, 63) \o <<0>>, <<3, 63, 0, 192, 0>>,
           <<64>> \o Pattern(97, 64) \o <<0>>, <<192, 12>>, <<1, 97, 192, 12>> }

Types == {1, 5, 15, 28, 65, 2, 257}

\* Nothing, an EDNS record, and more than any answer is long.
Tails == { << >>, <<0, 0, 41, 4, 208, 0, 0, 0, 0, 0, 0>>, Pattern(200, 40) }

Messages == {Header \o name \o Htons(type) \o <<0, 1>> \o tail :
                name \in Names, type \in Types, tail \in Tails}

Whole == [l3 : {4}, ihl : {5, 7}, port : {53}, msg : Messages, pad : {0, 6},
          saddr : {<<10, 0, 0, 2>>, <<255, 255, 255, 254>>}]

Prefixes(m) == {SubSeq(m, 1, k) : k \in 0 .. Len(m)}

Truncated ==
  [l3 : {4}, ihl : {5, 7}, port : {53}, pad : {0, 6}, saddr : {<<10, 0, 0, 2>>},
   msg : UNION {Prefixes(Header \o name \o <<0, 1, 0, 1>>) :
                  name \in {<<0>>, <<1, 97, 0>>, <<2, 0, 1, 1, 97, 0>>}}]

Others ==
  [l3 : {4, 6}, ihl : {5, 0, 11}, port : {53, 99}, pad : {0},
   saddr : {<<10, 0, 0, 2>>},
   msg : {Header \o <<1, 97, 0>> \o <<0, 1, 0, 1>>}] 

SomeQueries == Whole \union Truncated
                 \union {q \in Others : q.l3 = 6 \/ q.ihl = 5}
=============================================================================
