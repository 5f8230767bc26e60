---------------------------- MODULE PacketProofs ----------------------------
(***************************************************************************)
(* What dns_responder writes, for every packet and every run.              *)
(*                                                                         *)
(* The packet: the IP checksum, for every header (the longest has 30       *)
(* words, whose sum is below 30 * 65536), and, for frames of any size and  *)
(* any queries, which packets are answered, that a response reaches the    *)
(* client that asked and that it answers what was asked.                   *)
(*                                                                         *)
(* The log of the RX timestamps, for any number of queues, of packets and  *)
(* any capacity: the window of the report and the merge of the logs.       *)
(***************************************************************************)
EXTENDS DnsPacketProps, TrafficLogProps, Induction, SequenceTheorems, TLAPS

-----------------------------------------------------------------------------
(* Adding the carry back twice is enough for the sum of up to 30 words (the *)
(* longest header): what is left is below 2^16 and congruent to the sum.    *)
LEMMA FoldSum ==
  ASSUME NEW sum \in Nat, sum \div 65536 <= 29
  PROVE  \E k \in Nat, f \in Nat :
            f <= 65535 /\ f = Fold(sum) % 65536 /\ sum = 65535 * k + f
  <1> DEFINE hi == sum \div 65536
             lo == sum % 65536
             s  == hi + lo
  <1>a. hi \in Nat /\ hi <= 29
    OBVIOUS
  <1>b. lo \in Nat /\ lo <= 65535
    OBVIOUS
  <1>c. sum = 65536 * hi + lo
    OBVIOUS
  <1>4. Fold(sum) = s + (s \div 65536)
    BY DEF Fold
  <1> HIDE DEF hi, lo
  <1>2. sum = 65535 * hi + s
    BY <1>a, <1>b, <1>c
  <1>3. s \in Nat /\ s <= 65564
    BY <1>a, <1>b
  <1> HIDE DEF s
  <1>5. CASE s < 65536
    <2>1. s \div 65536 = 0
      BY <1>5, <1>3
    <2>2. Fold(sum) % 65536 = s
      BY <2>1, <1>3, <1>4, <1>5
    <2>3. hi \in Nat /\ s \in Nat /\ s <= 65535
      BY <1>a, <1>3, <1>5
    <2> QED
      BY <2>2, <2>3, <1>2
  <1>6. CASE s >= 65536
    <2>1. s \div 65536 = 1
      BY <1>6, <1>3
    <2>2. Fold(sum) = s + 1
      BY <2>1, <1>4
    <2>3. (s + 1) % 65536 = s - 65535
      BY <1>3, <1>6
    <2>4. sum = 65535 * (hi + 1) + (s - 65535)
      BY <1>a, <1>2, <1>3
    <2>5. hi + 1 \in Nat /\ s - 65535 \in Nat /\ s - 65535 <= 65535
      BY <1>a, <1>3, <1>6
    <2> QED
      BY <2>2, <2>3, <2>4, <2>5
  <1> QED
    BY <1>3, <1>5, <1>6

(* ip_checksum_recompute writes a checksum that verifies: added to the sum  *)
(* of the other words of the header, whatever they are, it gives a multiple *)
(* of 65535, the zero of one's complement arithmetic, and not zero itself.  *)
THEOREM ChecksumVerifies ==
  ASSUME NEW sum \in Nat, sum \div 65536 <= 29
  PROVE  /\ Complement(sum) \in Nat /\ Complement(sum) <= 65535
         /\ sum + Complement(sum) > 0
         /\ (sum + Complement(sum)) % 65535 = 0
  <1>1. PICK k \in Nat, f \in Nat :
           f <= 65535 /\ f = Fold(sum) % 65536 /\ sum = 65535 * k + f
    BY FoldSum
  <1>2. Complement(sum) = 65535 - f
    BY <1>1 DEF Complement
  <1>3. sum + Complement(sum) = 65535 * (k + 1)
    BY <1>1, <1>2
  <1>4. (65535 * (k + 1)) % 65535 = 0
    OBVIOUS
  <1> QED
    BY <1>1, <1>2, <1>3, <1>4

-----------------------------------------------------------------------------
(* Names. *)

(* The values of a byte.                                                    *)
Byte == 0..255

(* The bytes from p up to end, which is not among them. *)
BytesIn(m, p, end) == \A i \in p..(end - 1) : m[i] \in Byte

(* What S has to be for the labels of a name from p to z to start there. *)
Labels(m, p, z, S) ==
  /\ S \subseteq {i \in p..(z - 1) : m[i] \in 1..63}
  /\ p \in S \union {z}
  /\ \A i \in S : i + 1 + m[i] \in S \union {z}
  /\ \A j \in (S \union {z}) \ {p} : \E i \in S : i + 1 + m[i] = j

(* The labels of a name, apart from its terminator.                         *)
LEMMA NameIs ==
  ASSUME NEW m, NEW p, NEW z
  PROVE  IsName(m, p, z) <=> m[z] = 0 /\ \E S : Labels(m, p, z, S)
  BY DEF IsName, Labels

(* The root label alone is a name, and no other name starts with it. *)
LEMMA NameOfRoot ==
  ASSUME NEW m, NEW p \in Nat, NEW z \in Nat, p <= z, m[p] = 0
  PROVE  IsName(m, p, z) <=> z = p
<1>1. Labels(m, p, p, {})
  BY DEF Labels
<1>2. IsName(m, p, p)
  BY <1>1, NameIs
<1>3. ASSUME NEW S, Labels(m, p, z, S) PROVE z = p
  <2>1. p \notin S
    BY <1>3 DEF Labels
  <2> QED
    BY <1>3, <2>1 DEF Labels
<1> QED
  BY <1>2, <1>3, NameIs

(* Nothing that is no label starts a name. *)
LEMMA NameOfOther ==
  ASSUME NEW m, NEW p \in Nat, NEW z \in Nat, m[p] \in Nat, m[p] > 63
  PROVE  ~IsName(m, p, z)
<1> SUFFICES ASSUME NEW S, Labels(m, p, z, S), m[z] = 0 PROVE FALSE
  BY NameIs
<1>1. p \notin S
  BY DEF Labels
<1>2. p = z
  BY <1>1 DEF Labels
<1> QED
  BY <1>2

(* A label before a name makes a name. *)
LEMMA NameAfterLabel ==
  ASSUME NEW m, NEW p \in Nat, NEW z \in Nat, m[p] \in 1..63, IsName(m, p + 1 + m[p], z),
         p + 1 + m[p] <= z
  PROVE  IsName(m, p, z)
<1> DEFINE n == p + 1 + m[p]
<1>1. n \in Nat /\ p < n /\ n <= z
  OBVIOUS
<1>2. PICK S : m[z] = 0 /\ Labels(m, n, z, S)
  BY NameIs
<1> DEFINE T == S \union {p}
<1>3. T \subseteq {i \in p..(z - 1) : m[i] \in 1..63}
  BY <1>1, <1>2 DEF Labels
<1>4. \A i \in T : i + 1 + m[i] \in T \union {z}
  <2> SUFFICES ASSUME NEW i \in T PROVE i + 1 + m[i] \in T \union {z}
    OBVIOUS
  <2>1. CASE i = p
    BY <1>2, <2>1 DEF Labels
  <2>2. CASE i \in S
    BY <1>2, <2>2 DEF Labels
  <2> QED
    BY <2>1, <2>2
<1>5. \A j \in (T \union {z}) \ {p} : \E i \in T : i + 1 + m[i] = j
  <2> SUFFICES ASSUME NEW j \in (T \union {z}) \ {p} PROVE \E i \in T : i + 1 + m[i] = j
    OBVIOUS
  <2>1. CASE j = n
    BY <2>1
  <2>2. CASE j # n
    BY <1>2, <2>2 DEF Labels
  <2> QED
    BY <2>1, <2>2
<1>6. Labels(m, p, z, T)
  BY <1>3, <1>4, <1>5 DEF Labels
<1> QED
  BY <1>2, <1>6, NameIs

(* What is left of a name after its first label is a name. *)
LEMMA NameWithoutLabel ==
  ASSUME NEW m, NEW p \in Nat, NEW z \in Nat, m[p] \in 1..63, IsName(m, p, z)
  PROVE  p + 1 + m[p] <= z /\ IsName(m, p + 1 + m[p], z)
<1> DEFINE n == p + 1 + m[p]
<1>1. n \in Nat /\ p < n
  OBVIOUS
<1>2. PICK S : m[z] = 0 /\ Labels(m, p, z, S)
  BY NameIs
<1>3. S \subseteq p..(z - 1) /\ \A i \in S : i \in Nat /\ m[i] \in 1..63
  BY <1>2 DEF Labels
<1>4. p \in S
  BY <1>2 DEF Labels
<1> DEFINE T == S \ {p}
           U == {j \in T \union {z} : j < n}
<1>5. n \in T \union {z}
  <2>1. n \in S \union {z}
    BY <1>2, <1>4 DEF Labels
  <2> QED
    BY <1>1, <2>1
<1>6. n <= z
  BY <1>1, <1>3, <1>5
<1>7. z # p
  BY <1>3, <1>4
<1>8. U = {}
  <2> SUFFICES ASSUME U # {} PROVE FALSE
    OBVIOUS
  <2>1. U \subseteq Nat
    BY <1>3
  <2>2. PICK j \in U : \A k \in U : j <= k
    BY <2>1, LeastElement
  <2>3. j \in (S \union {z}) \ {p} /\ j < n /\ j \in Nat
    BY <1>7, <2>1, <2>2
  <2>4. PICK i \in S : i + 1 + m[i] = j
    BY <1>2, <2>3 DEF Labels
  <2>5. i # p
    BY <2>3, <2>4
  <2>6. i \in Nat /\ i < j
    BY <1>3, <2>4
  <2>7. i \in U
    BY <1>1, <2>3, <2>5, <2>6
  <2> QED
    BY <2>1, <2>2, <2>6, <2>7
<1>9. T \subseteq {i \in n..(z - 1) : m[i] \in 1..63}
  <2> SUFFICES ASSUME NEW i \in T PROVE i \in n..(z - 1) /\ m[i] \in 1..63
    OBVIOUS
  <2>1. i \in p..(z - 1) /\ m[i] \in 1..63
    BY <1>3
  <2>2. ~ (i < n)
    BY <1>8
  <2> QED
    BY <1>1, <2>1, <2>2
<1>10. \A i \in T : i + 1 + m[i] \in T \union {z}
  <2> SUFFICES ASSUME NEW i \in T PROVE i + 1 + m[i] \in T \union {z}
    OBVIOUS
  <2>1. i + 1 + m[i] \in S \union {z}
    BY <1>2 DEF Labels
  <2>2. i \in n..(z - 1) /\ m[i] \in 1..63
    BY <1>9
  <2>3. i + 1 + m[i] # p
    BY <1>1, <2>2
  <2> QED
    BY <2>1, <2>3
<1>11. \A j \in (T \union {z}) \ {n} : \E i \in T : i + 1 + m[i] = j
  <2> SUFFICES ASSUME NEW j \in T \union {z}, j # n PROVE \E i \in T : i + 1 + m[i] = j
    OBVIOUS
  <2>1. j \in (S \union {z}) \ {p}
    BY <1>7
  <2>2. PICK i \in S : i + 1 + m[i] = j
    BY <1>2, <2>1 DEF Labels
  <2>3. i # p
    BY <2>2
  <2> QED
    BY <2>2, <2>3
<1>12. Labels(m, n, z, T)
  BY <1>5, <1>9, <1>10, <1>11 DEF Labels
<1> HIDE DEF T
<1>13. IsName(m, n, z)
  BY <1>2, <1>12, NameIs
<1> QED
  BY <1>6, <1>13

-----------------------------------------------------------------------------
(* The scan of a name. *)

(* What a scan that began at q finds from p on, s being the values beyond.  *)
ScanAt(s, m, q, end, p) ==
  IF p = end \/ m[p] > 63    THEN 0
  ELSE IF m[p] = 0           THEN p + 1 - q
  ELSE IF p + 1 + m[p] > end THEN 0
  ELSE s[p + 1 + m[p]]

(* A scan of the bytes from b on, for a name that starts at q.              *)
IsScan(s, m, q, b, end) == s = [p \in b..end |-> ScanAt(s, m, q, end, p)]

(* The recursion of ScanQname has a solution. *)
LEMMA ScanExists ==
  ASSUME NEW q \in Nat, NEW end \in Nat, q <= end, NEW m, BytesIn(m, q, end)
  PROVE  \E s : IsScan(s, m, q, q, end)
<1> DEFINE d == end - q
           G == {k \in 0..d : \E s : IsScan(s, m, q, end - k, end)}
<1>1. d \in Nat
  OBVIOUS
<1>2. 0 \in G
  <2> DEFINE s == [p \in end..end |-> 0]
  <2>1. \A p \in end..end : p = end
    OBVIOUS
  <2>2. \A p \in end..end : ScanAt(s, m, q, end, p) = 0
    BY <2>1 DEF ScanAt
  <2>3. IsScan(s, m, q, end, end)
    BY <2>2 DEF IsScan
  <2>4. end - 0 = end /\ 0 \in 0..d
    BY <1>1
  <2> HIDE DEF s
  <2> QED
    BY <2>3, <2>4
<1>3. ASSUME NEW k \in 0..(d - 1), k \in G PROVE k + 1 \in G
  <2>1. PICK s : IsScan(s, m, q, end - k, end)
    BY <1>3
  <2> DEFINE b == end - (k + 1)
             r == [p \in b..end |-> IF p = b THEN ScanAt(s, m, q, end, p) ELSE s[p]]
  <2>2. b \in Nat /\ end - k = b + 1 /\ q <= b /\ b < end /\ k + 1 \in 0..d
    BY <1>1
  <2> HIDE DEF d, b
  <2>3. \A p \in (b + 1)..end : r[p] = s[p] /\ s[p] = ScanAt(s, m, q, end, p)
    <3>1. s = [p \in (b + 1)..end |-> ScanAt(s, m, q, end, p)]
      BY <2>1, <2>2 DEF IsScan
    <3>2. \A p \in (b + 1)..end : p \in b..end /\ p # b
      BY <2>2
    <3> QED
      BY <3>1, <3>2
  <2>4. r[b] = ScanAt(s, m, q, end, b)
    BY <2>2
  <2>5. ASSUME NEW p \in b..end PROVE ScanAt(r, m, q, end, p) = ScanAt(s, m, q, end, p)
    <3>1. CASE p = end
      BY <3>1 DEF ScanAt
    <3>2. CASE p # end
      <4>1. p \in Nat /\ p < end /\ m[p] \in Byte
        BY <2>2, <3>2 DEF BytesIn
      <4>2. p + 1 + m[p] <= end => r[p + 1 + m[p]] = s[p + 1 + m[p]]
        <5> SUFFICES ASSUME p + 1 + m[p] <= end PROVE p + 1 + m[p] \in (b + 1)..end
          BY <2>3
        <5> QED
          BY <2>2, <4>1 DEF Byte
      <4>3. p + 1 + m[p] > end \/ p + 1 + m[p] <= end
        BY <2>2, <4>1 DEF Byte
      <4> HIDE DEF r
      <4> QED
        BY <4>1, <4>2, <4>3 DEF ScanAt
    <3> QED
      BY <3>1, <3>2
  <2>6. ASSUME NEW p \in b..end PROVE r[p] = ScanAt(r, m, q, end, p)
    <3>1. p = b \/ p \in (b + 1)..end
      BY <2>2
    <3> HIDE DEF r
    <3> QED
      BY <2>3, <2>4, <2>5, <3>1
  <2>7. r = [p \in b..end |-> r[p]]
    OBVIOUS
  <2> HIDE DEF r
  <2>8. IsScan(r, m, q, b, end)
    BY <2>6, <2>7 DEF IsScan
  <2> QED
    BY <2>2, <2>8 DEF b
<1> HIDE DEF d
<1>4. d \in G
  <2>1. 0..d \subseteq G
    BY <1>1, <1>2, <1>3, UpTo
  <2> QED
    BY <1>1, <2>1
<1>5. end - d = q
  BY DEF d
<1> QED
  BY <1>4, <1>5

(* ScanQname is what the scan has at the start. *)
LEMMA ScanIs ==
  ASSUME NEW q \in Nat, NEW end \in Nat, q <= end, NEW m, BytesIn(m, q, end)
  PROVE  \E s : IsScan(s, m, q, q, end) /\ ScanQname(m, q, end) = s[q]
<1> DEFINE s == CHOOSE r : IsScan(r, m, q, q, end)
<1>1. IsScan(s, m, q, q, end)
  BY ScanExists
<1>2. ScanQname(m, q, end) = s[q]
  BY DEF ScanQname, IsScan, ScanAt
<1> HIDE DEF s
<1> QED
  BY <1>1, <1>2

(* What the scan finds at p is the end of the name there, or that there is none. *)
Finds(s, m, q, end, p) ==
  /\ s[p] = 0 \/ \E z \in p..(end - 1) : s[p] = z + 1 - q
  /\ \A z \in p..(end - 1) : IsName(m, p, z) <=> s[p] = z + 1 - q

(* The scan is right at a byte if it is right at all later ones. *)
LEMMA FindsStep ==
  ASSUME NEW q \in Nat, NEW end \in Nat, NEW m, BytesIn(m, q, end),
         NEW s, IsScan(s, m, q, q, end), NEW p \in q..end,
         \A n \in (p + 1)..end : Finds(s, m, q, end, n)
  PROVE  Finds(s, m, q, end, p)
<1>1. s[p] = ScanAt(s, m, q, end, p) /\ p \in Nat /\ q <= p /\ p <= end
  BY DEF IsScan
<1>2. CASE p = end
  <2>1. s[p] = 0
    BY <1>1, <1>2 DEF ScanAt
  <2>2. p..(end - 1) = {}
    BY <1>1, <1>2
  <2> QED
    BY <2>1, <2>2 DEF Finds
<1>3. CASE p < end
  <2>1. m[p] \in Byte /\ p \in p..(end - 1)
    BY <1>1, <1>3 DEF BytesIn
  <2>2. \A z \in p..(end - 1) : z \in Nat /\ p <= z /\ z + 1 - q > 0
    BY <1>1
  <2>3. CASE m[p] > 63
    <3>1. s[p] = 0
      BY <1>1, <2>3 DEF ScanAt
    <3>2. \A z \in p..(end - 1) : ~IsName(m, p, z)
      BY <1>1, <2>1, <2>2, <2>3, NameOfOther DEF Byte
    <3>3. \A z \in p..(end - 1) : z + 1 - q # 0
      BY <2>2
    <3> QED
      BY <3>1, <3>2, <3>3 DEF Finds
  <2>4. CASE m[p] = 0
    <3>1. s[p] = p + 1 - q
      BY <1>1, <1>3, <2>4 DEF ScanAt
    <3>2. \A z \in p..(end - 1) : IsName(m, p, z) <=> z = p
      BY <1>1, <2>2, <2>4, NameOfRoot
    <3>3. \A z \in p..(end - 1) : z = p <=> p + 1 - q = z + 1 - q
      BY <1>1, <2>2
    <3> QED
      BY <2>1, <3>1, <3>2, <3>3 DEF Finds
  <2>5. CASE m[p] \in 1..63
    <3> DEFINE n == p + 1 + m[p]
    <3>1. n \in Nat /\ p < n
      BY <1>1, <2>5
    <3>2. s[p] = IF n > end THEN 0 ELSE s[n]
      <4>1. ~ (p = end \/ m[p] > 63) /\ ~ (p < end /\ m[p] = 0)
        BY <1>3, <1>1, <2>5
      <4> QED
        BY <1>1, <1>3, <2>5, <4>1 DEF ScanAt
    <3>3. \A z \in p..(end - 1) : IsName(m, p, z) <=> n <= z /\ IsName(m, n, z)
      BY <1>1, <2>2, <2>5, NameAfterLabel, NameWithoutLabel
    <3> HIDE DEF n
    <3>4. CASE n > end
      <4>1. \A z \in p..(end - 1) : ~ (n <= z) /\ z + 1 - q # 0
        BY <1>1, <3>1, <3>4
      <4> QED
        BY <3>2, <3>3, <3>4, <4>1 DEF Finds
    <3>5. CASE n <= end
      <4>1. Finds(s, m, q, end, n) /\ s[p] = s[n]
        BY <1>1, <3>1, <3>2, <3>5
      <4>2. \A z \in p..(end - 1) : n <= z <=> z \in n..(end - 1)
        BY <1>1, <3>1
      <4>3. n..(end - 1) \subseteq p..(end - 1)
        BY <1>1, <3>1
      <4>4. s[p] = 0 \/ \E z \in p..(end - 1) : s[p] = z + 1 - q
        BY <4>1, <4>3 DEF Finds
      <4>5. ASSUME NEW z \in p..(end - 1) PROVE IsName(m, p, z) <=> s[p] = z + 1 - q
        <5>1. CASE z \in n..(end - 1)
          BY <3>3, <4>1, <4>2, <5>1 DEF Finds
        <5>2. CASE z \notin n..(end - 1)
          <6>1. s[n] # z + 1 - q
            <7>1. CASE s[n] = 0
              BY <2>2, <7>1
            <7>2. CASE \E y \in n..(end - 1) : s[n] = y + 1 - q
              <8>1. PICK y \in n..(end - 1) : s[n] = y + 1 - q
                BY <7>2
              <8>2. y \in Nat /\ z \in Nat /\ y # z
                BY <2>2, <3>1, <5>2
              <8> QED
                BY <8>1, <8>2
            <7> QED
              BY <4>1, <7>1, <7>2 DEF Finds
          <6> QED
            BY <3>3, <4>1, <4>2, <5>2, <6>1
        <5> QED
          BY <5>1, <5>2
      <4> QED
        BY <4>4, <4>5 DEF Finds
    <3> QED
      BY <1>1, <3>1, <3>4, <3>5
  <2> QED
    BY <2>1, <2>3, <2>4, <2>5 DEF Byte
<1> QED
  BY <1>1, <1>2, <1>3

(* n is the length of the name at q, and 0 if there is none before end. *)
IsNameLength(n, m, q, end) ==
  /\ n = 0 \/ \E z \in q..(end - 1) : n = z + 1 - q
  /\ \A z \in q..(end - 1) : IsName(m, q, z) <=> n = z + 1 - q

(* ScanQname is the length of the name, whatever the bytes of the packet. *)
LEMMA ScanFinds ==
  ASSUME NEW q \in Nat, NEW end \in Nat, q <= end, NEW m, BytesIn(m, q, end)
  PROVE  IsNameLength(ScanQname(m, q, end), m, q, end)
<1>1. PICK s : IsScan(s, m, q, q, end) /\ ScanQname(m, q, end) = s[q]
  BY ScanIs
<1> DEFINE d == end - q
           G == {k \in 0..d : \A n \in (end - k)..end : Finds(s, m, q, end, n)}
<1>2. d \in Nat /\ end - d = q
  OBVIOUS
<1>3. 0 \in G
  <2>1. end \in q..end /\ (end + 1)..end = {}
    OBVIOUS
  <2>2. Finds(s, m, q, end, end)
    BY <1>1, <2>1, FindsStep
  <2>3. (end - 0)..end = {end}
    OBVIOUS
  <2> QED
    BY <1>2, <2>2, <2>3
<1>4. ASSUME NEW k \in 0..(d - 1), k \in G PROVE k + 1 \in G
  <2> DEFINE p == end - (k + 1)
  <2>1. p \in q..end /\ end - k = p + 1 /\ k + 1 \in 0..d
    OBVIOUS
  <2>2. \A n \in (p + 1)..end : Finds(s, m, q, end, n)
    BY <1>4, <2>1
  <2> HIDE DEF p
  <2>3. Finds(s, m, q, end, p)
    BY <1>1, <2>1, <2>2, FindsStep
  <2>4. \A n \in p..end : n = p \/ n \in (p + 1)..end
    BY <2>1
  <2>5. \A n \in p..end : Finds(s, m, q, end, n)
    BY <2>2, <2>3, <2>4
  <2> QED
    BY <2>1, <2>5 DEF p
<1> HIDE DEF d
<1>5. d \in G
  <2>1. 0..d \subseteq G
    BY <1>2, <1>3, <1>4, UpTo
  <2> QED
    BY <1>2, <2>1
<1>6. q \in (end - d)..end
  BY <1>2
<1>7. Finds(s, m, q, end, q)
  BY <1>5, <1>6
<1> QED
  BY <1>1, <1>7 DEF Finds, IsNameLength

-----------------------------------------------------------------------------
(* The packets that clients send. *)

(* A sequence after another keeps its elements. *)
Joins(r, s, t) ==
  /\ r \in Seq(Byte) /\ Len(r) = Len(s) + Len(t)
  /\ \A i \in 1..Len(s) : r[i] = s[i]
  /\ \A i \in 1..Len(t) : r[Len(s) + i] = t[i]

(* Concatenation is such a sequence.                                        *)
LEMMA ConcatJoins ==
  ASSUME NEW s \in Seq(Byte), NEW t \in Seq(Byte)
  PROVE  Joins(s \o t, s, t)
  BY DEF Joins

(* The bytes that stand for data no property looks at.                      *)
LEMMA PatternIs ==
  ASSUME NEW b \in Byte, NEW k \in Nat
  PROVE  Pattern(b, k) \in Seq(Byte) /\ Len(Pattern(b, k)) = k
  BY DEF Pattern

(* The addresses are such bytes.                                            *)
LEMMA PatternsAre ==
  /\ Pattern(4, 16) \in Seq(Byte) /\ Len(Pattern(4, 16)) = 16
  /\ Pattern(5, 16) \in Seq(Byte) /\ Len(Pattern(5, 16)) = 16
  /\ Pattern(2, 6) \in Seq(Byte) /\ Len(Pattern(2, 6)) = 6
  /\ Pattern(3, 6) \in Seq(Byte) /\ Len(Pattern(3, 6)) = 6
<1>1. 2 \in Byte /\ 3 \in Byte /\ 4 \in Byte /\ 5 \in Byte
  BY DEF Byte
<1>2. \A b \in Byte : \A k \in Nat : Pattern(b, k) \in Seq(Byte) /\ Len(Pattern(b, k)) = k
  BY PatternIs
<1> QED
  BY <1>1, <1>2

(* Two bytes hold a number of 16 bits. *)
LEMMA HtonsIs ==
  ASSUME NEW v \in Nat, v <= 65535
  PROVE  /\ Htons(v) \in Seq(Byte) /\ Len(Htons(v)) = 2
         /\ 256 * Htons(v)[1] + Htons(v)[2] = v
<1> DEFINE h == v \div 256
           l == v % 256
<1>1. h \in Nat /\ l \in Nat /\ l <= 255 /\ h <= 255
  OBVIOUS
<1>2. v = 256 * h + l
  OBVIOUS
<1> HIDE DEF h, l
<1>3. h % 256 = h
  BY <1>1
<1>4. Htons(v) = <<h, l>>
  BY <1>3 DEF Htons, h, l
<1>5. h \in Byte /\ l \in Byte
  BY <1>1 DEF Byte
<1>6. Htons(v) \in Seq(Byte) /\ Len(Htons(v)) = 2 /\ Htons(v)[1] = h /\ Htons(v)[2] = l
  BY <1>4, <1>5
<1> QED
  BY <1>2, <1>6

(* What r is after s was put into m, whose last byte is at n, at o. *)
PutInto(r, n, m, o, s) ==
  /\ r \in [0..n -> Byte]
  /\ \A i \in 0..n : i \notin o..(o + Len(s) - 1) => r[i] = m[i]
  /\ \A j \in 1..Len(s) : o + j - 1 <= n => r[o + j - 1] = s[j]

(* Put leaves a frame of bytes, changed where it writes.                    *)
LEMMA PutIs ==
  ASSUME NEW n \in Nat, NEW m \in [0..n -> Byte], NEW o \in Nat, NEW s \in Seq(Byte)
  PROVE  PutInto(Put(m, o, s), n, m, o, s)
<1>1. ASSUME NEW i \in o..(o + Len(s) - 1) PROVE s[i - o + 1] \in Byte
  <2>1. i - o + 1 \in 1..Len(s)
    OBVIOUS
  <2> QED
    BY <2>1
<1>2. Put(m, o, s) = [i \in 0..n |-> IF i \in o..(o + Len(s) - 1) THEN s[i - o + 1] ELSE m[i]]
  BY DEF Put
<1>3. Put(m, o, s) \in [0..n -> Byte]
  BY <1>1, <1>2
<1>4. ASSUME NEW j \in 1..Len(s), o + j - 1 <= n PROVE Put(m, o, s)[o + j - 1] = s[j]
  <2>1. o + j - 1 \in o..(o + Len(s) - 1) /\ o + j - 1 \in 0..n /\ (o + j - 1) - o + 1 = j
    BY <1>4
  <2> QED
    BY <1>2, <2>1
<1>5. \A i \in 0..n : i \notin o..(o + Len(s) - 1) => Put(m, o, s)[i] = m[i]
  BY <1>2
<1> QED
  BY <1>3, <1>4, <1>5 DEF PutInto

(* What is assumed of a query, field by field.                              *)
LEMMA QueryIs ==
  ASSUME NEW q \in Queries
  PROVE  /\ FrameSize \in Nat /\ FrameSize <= 65535
         /\ q.l3 \in {4, 6} /\ q.ihl \in Nat /\ q.ihl <= 15 /\ (q.l3 = 4 => q.ihl >= 5)
         /\ q.saddr \in Seq(Byte) /\ Len(q.saddr) = 4 /\ q.port \in Nat /\ q.port <= 65535
         /\ q.msg \in Seq(Byte) /\ Len(q.msg) \in Nat /\ q.pad \in Nat
         /\ 82 + Len(q.msg) + q.pad + 64 <= FrameSize
<1>1. FrameSize \in Nat /\ FrameSize <= 65535
  BY FrameAssumption
<1>2. q.l3 \in {4, 6} /\ q.ihl \in 0..15 /\ (q.l3 = 4 => q.ihl >= 5)
  BY FrameAssumption
<1>3. q.ihl \in Nat /\ q.ihl <= 15
  BY <1>2
<1>4. q.saddr \in Seq(Byte) /\ Len(q.saddr) = 4
  BY FrameAssumption DEF Byte
<1>5. q.port \in Nat /\ q.port <= 65535
  BY FrameAssumption
<1>6. q.msg \in Seq(Byte) /\ q.pad \in Nat
  BY FrameAssumption DEF Byte
<1>7. Len(q.msg) \in Nat
  BY <1>6
<1>8. 82 + Len(q.msg) + q.pad + 64 <= FrameSize
  BY FrameAssumption
<1>a. q.l3 \in {4, 6} /\ (q.l3 = 4 => q.ihl >= 5)
  BY <1>2
<1> QED
  BY <1>1, <1>a, <1>3, <1>4, <1>5, <1>6, <1>7, <1>8, Z3

(* Short sequences of bytes.                                                *)
LEMMA FewBytes ==
  ASSUME NEW a \in Byte, NEW b \in Byte, NEW c \in Byte, NEW d \in Byte
  PROVE  /\ <<a, b>> \in Seq(Byte) /\ Len(<<a, b>>) = 2
         /\ <<a, b, c, d>> \in Seq(Byte) /\ Len(<<a, b, c, d>>) = 4
  OBVIOUS

(* The first words of an IPv4 header of 4k bytes in a packet of n bytes. *)
Ipv4Bytes(k, n, saddr) ==
  <<64 + k, 0>> \o Htons(n) \o <<0, 1, 0, 0, 64, 17, 0, 0>>
    \o saddr \o <<10, 0, 0, 1>> \o Pattern(7, 4 * (k - 5))

(* A header a client sends has the length that it states.                   *)
LEMMA Ipv4BytesAre ==
  ASSUME NEW k \in Nat, k >= 5, k <= 15, NEW n \in Nat, n <= 65535,
         NEW saddr \in Seq(Byte), Len(saddr) = 4
  PROVE  /\ Ipv4Bytes(k, n, saddr) \in Seq(Byte) /\ Len(Ipv4Bytes(k, n, saddr)) = 4 * k
         /\ Ipv4Bytes(k, n, saddr)[1] = 64 + k
         /\ 256 * Ipv4Bytes(k, n, saddr)[3] + Ipv4Bytes(k, n, saddr)[4] = n
<1> DEFINE a == <<64 + k, 0>>
           b == Htons(n)
           c == <<0, 1, 0, 0, 64, 17, 0, 0>>
           e == <<10, 0, 0, 1>>
           f == Pattern(7, 4 * (k - 5))
           ab == a \o b
           abc == ab \o c
           abcd == abc \o saddr
           abcde == abcd \o e
           h == Ipv4Bytes(k, n, saddr)
<1>1. a \in Seq(Byte) /\ Len(a) = 2 /\ a[1] = 64 + k
  <2>1. 64 + k \in Byte /\ 0 \in Byte
    BY DEF Byte
  <2> QED
    BY <2>1, FewBytes
<1>2. b \in Seq(Byte) /\ Len(b) = 2 /\ 256 * b[1] + b[2] = n
  BY HtonsIs
<1>3. c \in Seq(Byte) /\ Len(c) = 8
  BY DEF Byte
<1>4. e \in Seq(Byte) /\ Len(e) = 4
  <2>1. 10 \in Byte /\ 0 \in Byte /\ 1 \in Byte
    BY DEF Byte
  <2> QED
    BY <2>1, FewBytes
<1>5. f \in Seq(Byte) /\ Len(f) = 4 * (k - 5)
  <2>1. 4 * (k - 5) \in Nat /\ 7 \in Byte
    BY DEF Byte
  <2> QED
    BY <2>1, PatternIs
<1>6. h = abcde \o f
  BY DEF Ipv4Bytes
<1>s. a \in Seq(Byte) /\ b \in Seq(Byte) /\ c \in Seq(Byte) /\ e \in Seq(Byte) /\ f \in Seq(Byte)
  BY <1>1, <1>2, <1>3, <1>4, <1>5
<1> HIDE DEF a, b, c, e, f, ab, h
<1>7. Joins(ab, a, b)
  BY <1>s, ConcatJoins DEF ab
<1>8. ab \in Seq(Byte) /\ Len(ab) = 4 /\ ab[1] = a[1] /\ ab[3] = b[1] /\ ab[4] = b[2]
  <2>1. 1 \in 1..2 /\ 2 \in 1..2 /\ 3 = 2 + 1 /\ 4 = 2 + 2
    OBVIOUS
  <2> QED
    BY <1>1, <1>2, <1>7, <2>1 DEF Joins
<1> HIDE DEF abc
<1>9. Joins(abc, ab, c)
  BY <1>s, <1>8, ConcatJoins DEF abc
<1>10. abc \in Seq(Byte) /\ Len(abc) = 12 /\ \A i \in 1..4 : abc[i] = ab[i]
  BY <1>3, <1>8, <1>9 DEF Joins
<1> HIDE DEF abcd
<1>11. Joins(abcd, abc, saddr)
  BY <1>10, ConcatJoins DEF abcd
<1>12. abcd \in Seq(Byte) /\ Len(abcd) = 16 /\ \A i \in 1..4 : abcd[i] = abc[i]
  BY <1>10, <1>11 DEF Joins
<1> HIDE DEF abcde
<1>13. Joins(abcde, abcd, e)
  BY <1>s, <1>12, ConcatJoins DEF abcde
<1>14. abcde \in Seq(Byte) /\ Len(abcde) = 20 /\ \A i \in 1..4 : abcde[i] = abcd[i]
  BY <1>4, <1>12, <1>13 DEF Joins
<1>15. Joins(h, abcde, f)
  <2>1. abcde \in Seq(Byte)
    BY <1>14
  <2>2. Joins(abcde \o f, abcde, f)
    BY <1>s, <2>1, ConcatJoins
  <2> QED
    BY <1>6, <2>2
<1>16. h \in Seq(Byte) /\ Len(h) = 20 + 4 * (k - 5) /\ \A i \in 1..4 : h[i] = abcde[i]
  <2>1. h \in Seq(Byte) /\ Len(h) = Len(abcde) + Len(f)
    BY <1>15 DEF Joins
  <2>3. \A i \in 1..Len(abcde) : h[i] = abcde[i]
    BY <1>15 DEF Joins
  <2>2. \A i \in 1..4 : i \in 1..20
    OBVIOUS
  <2> QED
    BY <1>5, <1>14, <2>1, <2>2, <2>3
<1>17. \A i \in 1..4 : h[i] = ab[i]
  <2> SUFFICES ASSUME NEW i \in 1..4 PROVE h[i] = ab[i]
    OBVIOUS
  <2> QED
    BY <1>10, <1>12, <1>14, <1>16
<1>18. h[1] = a[1] /\ h[3] = b[1] /\ h[4] = b[2]
  <2>1. 1 \in 1..4 /\ 3 \in 1..4 /\ 4 \in 1..4
    OBVIOUS
  <2> QED
    BY <1>8, <1>17, <2>1
<1>19. 20 + 4 * (k - 5) = 4 * k
  OBVIOUS
<1> QED
  BY <1>1, <1>2, <1>16, <1>18, <1>19 DEF h

Ipv6Bytes(k, n) ==
  <<96 + k, 0, 0, 0>> \o Htons(n) \o <<17, 64>> \o Pattern(4, 16) \o Pattern(5, 16)

(* The header of an IPv6 packet has 40 bytes.                               *)
LEMMA Ipv6BytesAre ==
  ASSUME NEW k \in Nat, k <= 15, NEW n \in Nat, n <= 65535
  PROVE  Ipv6Bytes(k, n) \in Seq(Byte) /\ Len(Ipv6Bytes(k, n)) = 40
<1> DEFINE a == <<96 + k, 0, 0, 0>>
           b == Htons(n)
           c == <<17, 64>>
           e == Pattern(4, 16)
           f == Pattern(5, 16)
           ab == a \o b
           abc == ab \o c
           abce == abc \o e
           h == Ipv6Bytes(k, n)
<1>1. 96 + k \in Byte /\ 0 \in Byte /\ 17 \in Byte /\ 64 \in Byte /\ 4 \in Byte /\ 5 \in Byte
  BY DEF Byte
<1>2. a \in Seq(Byte) /\ Len(a) = 4
  BY <1>1, FewBytes
<1>3. b \in Seq(Byte) /\ Len(b) = 2
  BY HtonsIs
<1>4. c \in Seq(Byte) /\ Len(c) = 2
  BY <1>1, FewBytes
<1>5. e \in Seq(Byte) /\ Len(e) = 16 /\ f \in Seq(Byte) /\ Len(f) = 16
  <2>2. e \in Seq(Byte) /\ Len(e) = 16
    BY PatternsAre
  <2>3. f \in Seq(Byte) /\ Len(f) = 16
    BY PatternsAre
  <2> QED
    BY <2>2, <2>3
<1>6. a \in Seq(Byte) /\ b \in Seq(Byte) /\ c \in Seq(Byte) /\ e \in Seq(Byte) /\ f \in Seq(Byte)
  BY <1>2, <1>3, <1>4, <1>5
<1>7. h = abce \o f
  BY DEF Ipv6Bytes
<1> HIDE DEF a, b, c, e, f, ab, h
<1>8. Joins(ab, a, b)
  BY <1>6, ConcatJoins DEF ab
<1>9. ab \in Seq(Byte) /\ Len(ab) = 6
  BY <1>2, <1>3, <1>8 DEF Joins
<1> HIDE DEF abc
<1>10. Joins(abc, ab, c)
  BY <1>6, <1>9, ConcatJoins DEF abc
<1>11. abc \in Seq(Byte) /\ Len(abc) = 8
  BY <1>4, <1>9, <1>10 DEF Joins
<1> HIDE DEF abce
<1>12. Joins(abce, abc, e)
  BY <1>6, <1>11, ConcatJoins DEF abce
<1>13. abce \in Seq(Byte) /\ Len(abce) = 24
  BY <1>5, <1>11, <1>12 DEF Joins
<1>14. Joins(h, abce, f)
  <2>1. abce \in Seq(Byte)
    BY <1>13
  <2> QED
    BY <1>6, <1>7, <2>1, ConcatJoins
<1>15. h \in Seq(Byte) /\ Len(h) = 40
  BY <1>5, <1>13, <1>14 DEF Joins
<1> QED
  BY <1>15 DEF h

(* The first bytes after the MACs. *)
LEMMA TypeBytes ==
  ASSUME NEW x \in Byte, NEW y \in Byte, NEW h \in Seq(Byte)
  PROVE  /\ <<x, y>> \o h \in Seq(Byte) /\ Len(<<x, y>> \o h) = 2 + Len(h)
         /\ (<<x, y>> \o h)[1] = x /\ (<<x, y>> \o h)[2] = y
         /\ \A i \in 1..Len(h) : (<<x, y>> \o h)[2 + i] = h[i]
<1> DEFINE a == <<x, y>>
           r == a \o h
<1>1. a \in Seq(Byte) /\ Len(a) = 2 /\ a[1] = x /\ a[2] = y
  OBVIOUS
<1> HIDE DEF a
<1>2. Joins(r, a, h)
  BY <1>1, ConcatJoins
<1> HIDE DEF r
<1>3. r \in Seq(Byte) /\ Len(r) = 2 + Len(h) /\ \A i \in 1..Len(h) : r[2 + i] = h[i]
  BY <1>1, <1>2 DEF Joins
<1>4. r[1] = x /\ r[2] = y
  <2>1. 1 \in 1..2 /\ 2 \in 1..2
    OBVIOUS
  <2> QED
    BY <1>1, <1>2, <2>1 DEF Joins
<1> QED
  BY <1>3, <1>4 DEF r, a

(* What follows the MACs, from the EtherType on. *)
IpPart(q) == IF q.l3 = 4 THEN <<8, 0>> \o Ipv4Header(q) ELSE <<134, 221>> \o Ipv6Header(q)

(* The packet with that IP part, that destination port and that message.    *)
PacketBytes(ip, port, msg) ==
  Pattern(2, 6) \o Pattern(3, 6) \o ip
    \o <<200, 1>> \o Htons(port) \o Htons(8 + Len(msg)) \o <<5, 5>> \o msg

(* p has the n bytes of ip after the MACs and a UDP length of 8 + k.        *)
HoldsIp(p, ip, n, k) ==
  /\ p \in Seq(Byte) /\ Len(p) = 20 + n + k
  /\ \A i \in 1..n : p[12 + i] = ip[i]
  /\ 256 * p[n + 17] + p[n + 18] = 8 + k

(* A packet has its IP header after the MACs and its length in UDP.         *)
LEMMA PacketBytesAre ==
  ASSUME NEW ip \in Seq(Byte), NEW n \in Nat, Len(ip) = n, n >= 1,
         NEW port \in Nat, port <= 65535, NEW msg \in Seq(Byte), 8 + Len(msg) <= 65535
  PROVE  HoldsIp(PacketBytes(ip, port, msg), ip, n, Len(msg))
<1> DEFINE x == Pattern(2, 6)
           y == Pattern(3, 6)
           u == <<200, 1>>
           v == Htons(port)
           h == Htons(8 + Len(msg))
           w == <<5, 5>>
           a == x \o y
           b == a \o ip
           c == b \o u
           d == c \o v
           e == d \o h
           f == e \o w
           p == PacketBytes(ip, port, msg)
<1>1. 2 \in Byte /\ 3 \in Byte /\ 200 \in Byte /\ 1 \in Byte /\ 5 \in Byte
  BY DEF Byte
<1>2. x \in Seq(Byte) /\ Len(x) = 6 /\ y \in Seq(Byte) /\ Len(y) = 6
  <2>2. x \in Seq(Byte) /\ Len(x) = 6
    BY PatternsAre
  <2>3. y \in Seq(Byte) /\ Len(y) = 6
    BY PatternsAre
  <2> QED
    BY <2>2, <2>3
<1>3. u \in Seq(Byte) /\ Len(u) = 2 /\ w \in Seq(Byte) /\ Len(w) = 2
  BY <1>1, FewBytes
<1>4. v \in Seq(Byte) /\ Len(v) = 2
  BY HtonsIs
<1>m. Len(msg) \in Nat
  OBVIOUS
<1>5. h \in Seq(Byte) /\ Len(h) = 2 /\ 256 * h[1] + h[2] = 8 + Len(msg)
  BY <1>m, HtonsIs
<1>6. p = f \o msg
  BY DEF PacketBytes
<1> HIDE DEF p
<1>7. /\ x \in Seq(Byte) /\ y \in Seq(Byte) /\ u \in Seq(Byte) /\ v \in Seq(Byte)
      /\ h \in Seq(Byte) /\ w \in Seq(Byte)
  BY <1>2, <1>3, <1>4, <1>5
<1> HIDE DEF x, y, u, v, h, w, a, p
<1>8. Joins(a, x, y)
  BY <1>7, ConcatJoins DEF a
<1>9. a \in Seq(Byte) /\ Len(a) = 12
  BY <1>2, <1>8 DEF Joins
<1> HIDE DEF b
<1>10. Joins(b, a, ip)
  BY <1>9, ConcatJoins DEF b
<1>11. b \in Seq(Byte) /\ Len(b) = 12 + n /\ \A i \in 1..n : b[12 + i] = ip[i]
  BY <1>9, <1>10 DEF Joins
<1> HIDE DEF c
<1>12. Joins(c, b, u)
  BY <1>7, <1>11, ConcatJoins DEF c
<1>13. c \in Seq(Byte) /\ Len(c) = 14 + n /\ \A i \in 1..(12 + n) : c[i] = b[i]
  BY <1>3, <1>11, <1>12 DEF Joins
<1> HIDE DEF d
<1>14. Joins(d, c, v)
  BY <1>7, <1>13, ConcatJoins DEF d
<1>15. d \in Seq(Byte) /\ Len(d) = 16 + n /\ \A i \in 1..(14 + n) : d[i] = c[i]
  BY <1>4, <1>13, <1>14 DEF Joins
<1> HIDE DEF e
<1>16. Joins(e, d, h)
  BY <1>7, <1>15, ConcatJoins DEF e
<1>17. /\ e \in Seq(Byte) /\ Len(e) = 18 + n /\ \A i \in 1..(16 + n) : e[i] = d[i]
       /\ \A i \in 1..2 : e[16 + n + i] = h[i]
  BY <1>5, <1>15, <1>16 DEF Joins
<1> HIDE DEF f
<1>18. Joins(f, e, w)
  BY <1>7, <1>17, ConcatJoins DEF f
<1>19. f \in Seq(Byte) /\ Len(f) = 20 + n /\ \A i \in 1..(18 + n) : f[i] = e[i]
  BY <1>3, <1>17, <1>18 DEF Joins
<1>20. Joins(p, f, msg)
  BY <1>6, <1>19, ConcatJoins
<1>21. /\ p \in Seq(Byte) /\ Len(p) = 20 + n + Len(msg)
       /\ \A i \in 1..(20 + n) : p[i] = f[i]
  BY <1>19, <1>20 DEF Joins
<1>22. ASSUME NEW i \in 1..n PROVE p[12 + i] = ip[i]
  <2>1. 12 + i \in 1..(12 + n) /\ 12 + i \in 1..(14 + n) /\ 12 + i \in 1..(16 + n)
        /\ 12 + i \in 1..(18 + n) /\ 12 + i \in 1..(20 + n)
    OBVIOUS
  <2>2. p[12 + i] = f[12 + i]
    BY <1>21, <2>1
  <2>3. f[12 + i] = e[12 + i]
    BY <1>19, <2>1
  <2>4. e[12 + i] = d[12 + i]
    BY <1>17, <2>1
  <2>5. d[12 + i] = c[12 + i]
    BY <1>15, <2>1
  <2>6. c[12 + i] = b[12 + i] /\ b[12 + i] = ip[i]
    BY <1>11, <1>13, <2>1
  <2> QED
    BY <2>2, <2>3, <2>4, <2>5, <2>6
<1>23. p[n + 17] = h[1] /\ p[n + 18] = h[2]
  <2>1. /\ n + 17 = 16 + n + 1 /\ n + 18 = 16 + n + 2
        /\ n + 17 \in 1..(18 + n) /\ n + 18 \in 1..(18 + n)
        /\ n + 17 \in 1..(20 + n) /\ n + 18 \in 1..(20 + n)
        /\ 1 \in 1..2 /\ 2 \in 1..2
    OBVIOUS
  <2>2. p[n + 17] = f[n + 17] /\ p[n + 18] = f[n + 18]
    BY <1>21, <2>1
  <2>3. f[n + 17] = e[n + 17] /\ f[n + 18] = e[n + 18]
    BY <1>19, <2>1
  <2>4. e[16 + n + 1] = h[1] /\ e[16 + n + 2] = h[2]
    BY <1>17, <2>1
  <2> QED
    BY <2>1, <2>2, <2>3, <2>4
<1>24. 256 * p[n + 17] + p[n + 18] = 8 + Len(msg)
  BY <1>5, <1>23
<1>25. HoldsIp(p, ip, n, Len(msg))
  BY <1>21, <1>22, <1>24 DEF HoldsIp
<1> QED
  BY <1>25 DEF p

(* A packet at the start of a frame of that size. *)
FrameBytes(size, p) == Put([i \in 0..(size - 1) |-> 0], 0, p)

(* The frame holds the packet from its first byte on.                       *)
LEMMA FrameBytesAre ==
  ASSUME NEW size \in Nat, NEW p \in Seq(Byte), NEW l \in Nat, Len(p) = l, l <= size, l > 0
  PROVE  /\ FrameBytes(size, p) \in [0..(size - 1) -> Byte]
         /\ \A j \in 1..l : FrameBytes(size, p)[j - 1] = p[j]
<1> DEFINE z == [i \in 0..(size - 1) |-> 0]
           last == size - 1
           m == FrameBytes(size, p)
           o == 0
<1>1. last \in Nat /\ z \in [0..last -> Byte] /\ o \in Nat
  BY DEF Byte
<1>2. m = Put(z, o, p)
  BY DEF FrameBytes
<1> HIDE DEF z, m, o, last
<1>3. /\ m \in [0..last -> Byte]
      /\ \A j \in 1..Len(p) : o + j - 1 <= last => m[o + j - 1] = p[j]
  <2>1. PutInto(m, last, z, o, p)
    BY <1>1, <1>2, PutIs
  <2> QED
    BY <2>1 DEF PutInto
<1>4. \A j \in 1..l : j \in 1..Len(p) /\ j - 1 <= last /\ o + j - 1 = j - 1
  BY DEF o, last
<1>5. \A j \in 1..l : m[j - 1] = p[j]
  BY <1>3, <1>4
<1> QED
  BY <1>3, <1>5 DEF m, last

(* The same of the frame m, for the fields that the code reads.             *)
HasHeaders(m, size, ip, n, k) ==
  /\ m \in [0..(size - 1) -> Byte]
  /\ m[12] = ip[1] /\ m[13] = ip[2] /\ m[14] = ip[3]
  /\ m[16] = ip[5] /\ m[17] = ip[6]
  /\ 256 * m[n + 16] + m[n + 17] = 8 + k

(* The frame has the headers of the packet where the code looks for them.   *)
LEMMA HeadersAre ==
  ASSUME NEW size \in Nat, NEW p, NEW ip, NEW n \in Nat, n >= 22, NEW k \in Nat,
         HoldsIp(p, ip, n, k), 20 + n + k <= size
  PROVE  HasHeaders(FrameBytes(size, p), size, ip, n, k)
<1> DEFINE m == FrameBytes(size, p)
           l == 20 + n + k
<1>1. l \in Nat /\ l <= size /\ l > 0 /\ p \in Seq(Byte) /\ Len(p) = l
  BY DEF HoldsIp
<1>2. /\ m \in [0..(size - 1) -> Byte]
      /\ \A j \in 1..l : m[j - 1] = p[j]
  BY <1>1, FrameBytesAre
<1> HIDE DEF m
<1>3. \A i \in 1..n : 12 + i \in 1..l /\ 12 + i - 1 = 11 + i
  OBVIOUS
<1>4. \A i \in 1..n : m[11 + i] = ip[i]
  <2> SUFFICES ASSUME NEW i \in 1..n PROVE m[11 + i] = ip[i]
    OBVIOUS
  <2>1. p[12 + i] = ip[i]
    BY DEF HoldsIp
  <2>2. m[12 + i - 1] = p[12 + i]
    BY <1>2, <1>3
  <2> QED
    BY <1>3, <2>1, <2>2
<1>5. m[12] = ip[1] /\ m[13] = ip[2] /\ m[14] = ip[3] /\ m[16] = ip[5] /\ m[17] = ip[6]
  <2>1. /\ 1 \in 1..n /\ 2 \in 1..n /\ 3 \in 1..n /\ 5 \in 1..n /\ 6 \in 1..n
        /\ 11 + 1 = 12 /\ 11 + 2 = 13 /\ 11 + 3 = 14 /\ 11 + 5 = 16 /\ 11 + 6 = 17
    OBVIOUS
  <2> QED
    BY <1>4, <2>1
<1>6. m[n + 16] = p[n + 17] /\ m[n + 17] = p[n + 18]
  <2>1. n + 17 \in 1..l /\ n + 18 \in 1..l /\ n + 17 - 1 = n + 16 /\ n + 18 - 1 = n + 17
    OBVIOUS
  <2>2. m[n + 17 - 1] = p[n + 17] /\ m[n + 18 - 1] = p[n + 18]
    BY <1>2, <2>1
  <2> QED
    BY <2>1, <2>2
<1>7. 256 * m[n + 16] + m[n + 17] = 8 + k
  BY <1>6 DEF HoldsIp
<1> QED
  BY <1>2, <1>5, <1>7 DEF m, HasHeaders

(* What a packet is when it comes from the wire. *)
Received(m, l) ==
  /\ m \in [0..(FrameSize - 1) -> Byte] /\ l \in Nat /\ l + 64 <= FrameSize
  /\ FrameSize \in Nat /\ 146 <= FrameSize /\ FrameSize <= 65535
  /\ IsIpv4(m) => /\ IpLen(m) \in Nat /\ 20 <= IpLen(m) /\ IpLen(m) <= 60
                  /\ Ntohs(m, 16) \in Nat /\ IpEnd(m) <= l
                  /\ Ntohs(m, Udp(m) + 4) = IpEnd(m) - Udp(m)

Ipv4Shape(p, m, size, k, l) ==
  /\ Len(p) = 22 + 4 * k + l
  /\ m \in [0..(size - 1) -> Byte] /\ IpLen(m) = 4 * k
  /\ Ntohs(m, 16) = 4 * k + 8 + l /\ Ntohs(m, 18 + 4 * k) = 8 + l

Ipv6Shape(p, m, size, l) ==
  Len(p) = 62 + l /\ m \in [0..(size - 1) -> Byte] /\ m[12] = 134

Ipv4Packet(k, saddr, port, msg, l) ==
  PacketBytes(<<8, 0>> \o Ipv4Bytes(k, 4 * k + 8 + l, saddr), port, msg)

Ipv6Packet(k, port, msg, l) ==
  PacketBytes(<<134, 221>> \o Ipv6Bytes(k, 8 + l), port, msg)

(* An IPv4 packet in its frame has the lengths that its headers state.      *)
LEMMA Ipv4Received ==
  ASSUME NEW size \in Nat, size <= 65535, NEW k \in Nat, 5 <= k, k <= 15,
         NEW saddr \in Seq(Byte), Len(saddr) = 4, NEW port \in Nat, port <= 65535,
         NEW msg \in Seq(Byte), NEW l \in Nat, l = Len(msg), 146 + l <= size
  PROVE  LET p == Ipv4Packet(k, saddr, port, msg, l)
         IN  Ipv4Shape(p, FrameBytes(size, p), size, k, l)
<1> DEFINE h == Ipv4Bytes(k, 4 * k + 8 + l, saddr)
           ip == <<8, 0>> \o h
           n == 2 + 4 * k
           p == PacketBytes(ip, port, msg)
           m == FrameBytes(size, p)
<1>1. h \in Seq(Byte) /\ Len(h) = 4 * k /\ h[1] = 64 + k /\ 256 * h[3] + h[4] = 4 * k + 8 + l
  <2>1. 4 * k + 8 + l \in Nat /\ 4 * k + 8 + l <= 65535
    OBVIOUS
  <2> QED
    BY <2>1, Ipv4BytesAre
<1> HIDE DEF h
<1>2. /\ ip \in Seq(Byte) /\ Len(ip) = 2 + Len(h) /\ ip[1] = 8 /\ ip[2] = 0
      /\ \A i \in 1..Len(h) : ip[2 + i] = h[i]
  <2>1. 8 \in Byte /\ 0 \in Byte /\ h \in Seq(Byte)
    BY <1>1 DEF Byte
  <2> QED
    BY <2>1, TypeBytes
<1> HIDE DEF ip
<1>3. ip[3] = h[1] /\ ip[5] = h[3] /\ ip[6] = h[4]
  <2>1. 1 \in 1..Len(h) /\ 3 \in 1..Len(h) /\ 4 \in 1..Len(h) /\ 2 + 1 = 3 /\ 2 + 3 = 5 /\ 2 + 4 = 6
    BY <1>1
  <2> QED
    BY <1>2, <2>1
<1>4. n \in Nat /\ Len(ip) = n /\ n >= 22 /\ n >= 1 /\ 20 + n + l <= size
  BY <1>1, <1>2
<1> HIDE DEF n
<1>5. HoldsIp(p, ip, n, l)
  <2>1. ip \in Seq(Byte) /\ 8 + Len(msg) <= 65535
    BY <1>2
  <2>2. HoldsIp(p, ip, n, Len(msg))
    BY <1>4, <2>1, PacketBytesAre
  <2> QED
    BY <2>2
<1>p. Len(p) = 22 + 4 * k + l
  BY <1>5 DEF HoldsIp, n
<1> HIDE DEF p
<1>6. /\ m \in [0..(size - 1) -> Byte] /\ m[14] = ip[3]
      /\ m[16] = ip[5] /\ m[17] = ip[6] /\ 256 * m[n + 16] + m[n + 17] = 8 + l
  <2>1. HasHeaders(m, size, ip, n, l)
    BY <1>4, <1>5, HeadersAre
  <2> QED
    BY <2>1 DEF HasHeaders
<1> HIDE DEF m
<1>7. m[14] = 64 + k /\ 256 * m[16] + m[17] = 4 * k + 8 + l
  BY <1>1, <1>3, <1>6
<1>8. IpLen(m) = 4 * k
  <2>1. (64 + k) % 16 = k
    OBVIOUS
  <2> QED
    BY <1>7, <2>1 DEF IpLen
<1>9. n + 16 = 18 + 4 * k /\ n + 17 = 18 + 4 * k + 1 /\ 17 = 16 + 1
  BY DEF n
<1>10. Ntohs(m, 16) = 4 * k + 8 + l
  BY <1>7, <1>9 DEF Ntohs
<1>11. Ntohs(m, 18 + 4 * k) = 8 + l
  BY <1>6, <1>9 DEF Ntohs
<1> QED
  BY <1>p, <1>6, <1>8, <1>10, <1>11 DEF Ipv4Shape, Ipv4Packet, m, p, ip, h

(* An IPv6 packet in its frame is no IPv4 packet for the code.              *)
LEMMA Ipv6Received ==
  ASSUME NEW size \in Nat, size <= 65535, NEW k \in Nat, k <= 15,
         NEW port \in Nat, port <= 65535,
         NEW msg \in Seq(Byte), NEW l \in Nat, l = Len(msg), 146 + l <= size
  PROVE  LET p == Ipv6Packet(k, port, msg, l)
         IN  Ipv6Shape(p, FrameBytes(size, p), size, l)
<1> DEFINE h == Ipv6Bytes(k, 8 + l)
           ip == <<134, 221>> \o h
           n == 42
           p == PacketBytes(ip, port, msg)
           m == FrameBytes(size, p)
<1>1. h \in Seq(Byte) /\ Len(h) = 40
  <2>1. 8 + l \in Nat /\ 8 + l <= 65535
    OBVIOUS
  <2> QED
    BY <2>1, Ipv6BytesAre
<1> HIDE DEF h
<1>2. ip \in Seq(Byte) /\ Len(ip) = 2 + Len(h) /\ ip[1] = 134
  <2>1. 134 \in Byte /\ 221 \in Byte /\ h \in Seq(Byte)
    BY <1>1 DEF Byte
  <2> QED
    BY <2>1, TypeBytes
<1> HIDE DEF ip
<1>3. n \in Nat /\ Len(ip) = n /\ n >= 22 /\ n >= 1 /\ 20 + n + l <= size
  BY <1>1, <1>2
<1> HIDE DEF n
<1>4. HoldsIp(p, ip, n, l)
  <2>1. ip \in Seq(Byte) /\ 8 + Len(msg) <= 65535
    BY <1>2
  <2>2. HoldsIp(p, ip, n, Len(msg))
    BY <1>3, <2>1, PacketBytesAre
  <2> QED
    BY <2>2
<1>p. Len(p) = 62 + l
  BY <1>4 DEF HoldsIp, n
<1> HIDE DEF p
<1>5. HasHeaders(m, size, ip, n, l)
  BY <1>3, <1>4, HeadersAre
<1> HIDE DEF m
<1>6. m \in [0..(size - 1) -> Byte] /\ m[12] = 134
  BY <1>2, <1>5 DEF HasHeaders
<1> QED
  BY <1>p, <1>6 DEF Ipv6Shape, Ipv6Packet, m, p, ip, h

(* The headers of a packet, and its length. *)
PacketOf(q) == PacketBytes(IpPart(q), q.port, q.msg)

(* The frame of a query is the frame of such a packet.                      *)
LEMMA FrameIs ==
  ASSUME NEW q \in Queries
  PROVE  /\ Frame(q).bytes = FrameBytes(FrameSize, PacketOf(q))
         /\ Frame(q).len = Len(PacketOf(q)) + q.pad
  BY DEF Frame, FrameBytes, PacketOf, PacketBytes, IpPart

(* The EtherType and the IP header of a query.                              *)
LEMMA IpPartIs ==
  ASSUME NEW q \in Queries
  PROVE  /\ q.l3 = 4 =>
              IpPart(q) = <<8, 0>> \o Ipv4Bytes(q.ihl, 4 * q.ihl + 8 + Len(q.msg), q.saddr)
         /\ q.l3 # 4 => IpPart(q) = <<134, 221>> \o Ipv6Bytes(q.ihl, 8 + Len(q.msg))
<1>1. Ipv4Header(q) = Ipv4Bytes(q.ihl, 4 * q.ihl + 8 + Len(q.msg), q.saddr)
  BY DEF Ipv4Header, Ipv4Bytes
<1>2. Ipv6Header(q) = Ipv6Bytes(q.ihl, 8 + Len(q.msg))
  BY DEF Ipv6Header, Ipv6Bytes
<1> QED
  BY <1>1, <1>2 DEF IpPart

(* Every packet that is sent is one. *)
LEMMA FrameReceived ==
  ASSUME NEW q \in Queries
  PROVE  Received(Frame(q).bytes, Frame(q).len)
<1> DEFINE m == Frame(q).bytes
           k == q.ihl
           l == Len(q.msg)
           p == PacketOf(q)
           pad == q.pad
           F == FrameSize
           w == q.saddr
           o == q.port
           b == q.msg
<1>1. /\ F \in Nat /\ F <= 65535 /\ k \in Nat /\ k <= 15 /\ (q.l3 = 4 => k >= 5)
      /\ w \in Seq(Byte) /\ Len(w) = 4 /\ o \in Nat /\ o <= 65535
      /\ b \in Seq(Byte) /\ l \in Nat /\ pad \in Nat
  BY QueryIs
<1>2. 146 + l + pad <= F
  <2>1. 82 + l + pad + 64 <= F
    BY QueryIs
  <2> HIDE DEF l, pad, F
  <2> QED
    BY <1>1, <2>1
<1>3. m = FrameBytes(F, p) /\ Frame(q).len = Len(p) + pad
  BY FrameIs
<1>4. /\ q.l3 = 4 => p = Ipv4Packet(k, w, o, b, l)
      /\ q.l3 # 4 => p = Ipv6Packet(k, o, b, l)
  BY IpPartIs DEF PacketOf, Ipv4Packet, Ipv6Packet
<1>5. l = Len(b)
  OBVIOUS
<1> HIDE DEF m, k, l, p, pad, F, w, o, b
<1>6. 146 + l <= F /\ 146 <= F
  BY <1>1, <1>2
<1>7. CASE q.l3 = 4
  <2>0. 5 <= k /\ p = Ipv4Packet(k, w, o, b, l)
    BY <1>1, <1>4, <1>7
  <2>s. Ipv4Shape(p, m, F, k, l)
    <3> DEFINE P == Ipv4Packet(k, w, o, b, l)
    <3>1. Ipv4Shape(P, FrameBytes(F, P), F, k, l)
      <4>1. /\ F \in Nat /\ F <= 65535 /\ k \in Nat /\ k <= 15 /\ 5 <= k
            /\ w \in Seq(Byte) /\ Len(w) = 4 /\ o \in Nat /\ o <= 65535
            /\ b \in Seq(Byte) /\ l \in Nat /\ l = Len(b) /\ 146 + l <= F
        BY <1>1, <1>5, <1>6, <2>0
      <4> QED
        BY <4>1, Ipv4Received
    <3> QED
      BY <1>3, <2>0, <3>1
  <2>1. /\ Len(p) = 22 + 4 * k + l
        /\ m \in [0..(F - 1) -> Byte] /\ IpLen(m) = 4 * k
        /\ Ntohs(m, 16) = 4 * k + 8 + l /\ Ntohs(m, 18 + 4 * k) = 8 + l
    BY <2>s DEF Ipv4Shape
  <2>2. Udp(m) + 4 = 18 + 4 * k /\ Udp(m) = 14 + 4 * k /\ IpEnd(m) = 22 + 4 * k + l
    BY <1>1, <2>1 DEF Udp, IpEnd
  <2>3. Ntohs(m, Udp(m) + 4) = IpEnd(m) - Udp(m)
    BY <1>1, <2>1, <2>2
  <2>4. Frame(q).len = 22 + 4 * k + l + pad
    BY <1>3, <2>1
  <2>5. /\ Frame(q).len \in Nat /\ Frame(q).len + 64 <= F /\ IpEnd(m) <= Frame(q).len
        /\ IpLen(m) \in Nat /\ 20 <= IpLen(m) /\ IpLen(m) <= 60 /\ Ntohs(m, 16) \in Nat
    BY <1>1, <1>2, <2>0, <2>1, <2>2, <2>4
  <2> QED
    BY <1>1, <1>6, <2>1, <2>3, <2>5 DEF Received, m, F
<1>8. CASE q.l3 # 4
  <2>0. p = Ipv6Packet(k, o, b, l)
    BY <1>4, <1>8
  <2>s. Ipv6Shape(p, m, F, l)
    <3> DEFINE P == Ipv6Packet(k, o, b, l)
    <3>1. Ipv6Shape(P, FrameBytes(F, P), F, l)
      <4>1. /\ F \in Nat /\ F <= 65535 /\ k \in Nat /\ k <= 15
            /\ o \in Nat /\ o <= 65535
            /\ b \in Seq(Byte) /\ l \in Nat /\ l = Len(b) /\ 146 + l <= F
        BY <1>1, <1>5, <1>6, <2>0
      <4> QED
        BY <4>1, Ipv6Received
    <3> QED
      BY <1>3, <2>0, <3>1
  <2>1. Len(p) = 62 + l /\ m \in [0..(F - 1) -> Byte] /\ m[12] = 134
    BY <2>s DEF Ipv6Shape
  <2>2. ~IsIpv4(m)
    <3>1. 13 \in 0..(F - 1) /\ 12 + 1 = 13
      BY <1>1, <1>6
    <3>2. m[12 + 1] \in Byte
      BY <2>1, <3>1
    <3> DEFINE y == m[12 + 1]
    <3>3. y \in Nat
      BY <3>2 DEF Byte
    <3>5. Ntohs(m, 12) = 256 * 134 + y
      BY <2>1 DEF Ntohs
    <3> HIDE DEF y
    <3>4. 256 * 134 + y # 2048
      BY <3>3
    <3> QED
      BY <3>5, <3>4 DEF IsIpv4
  <2>3. Frame(q).len = 62 + l + pad
    BY <1>3, <2>1
  <2>4. Frame(q).len \in Nat /\ Frame(q).len + 64 <= F
    BY <1>1, <1>2, <2>3
  <2> QED
    BY <1>1, <1>6, <2>1, <2>2, <2>4 DEF Received, m, F
<1> QED
  BY <1>7, <1>8

-----------------------------------------------------------------------------
(* The scan of an IPv4 packet. *)

(* The guard QuestionFits, of the bytes m of a packet of length l. *)
Fits(m, l) ==
  /\ l >= MinHdr /\ IpLen(m) >= 20 /\ Question(m) < l
  /\ ScanQname(m, Question(m), l) > 0
  /\ Question(m) + ScanQname(m, Question(m), l) + 4 <= l

(* Where the question of a received packet starts, and that its bytes are bytes. *)
LEMMA QuestionIs ==
  ASSUME NEW m, NEW l, Received(m, l), IsIpv4(m)
  PROVE  /\ Question(m) \in Nat /\ Question(m) = Dns(m) + 12 /\ Question(m) >= 54
         /\ l \in Nat /\ BytesIn(m, Question(m), l)
<1>1. /\ m \in [0..(FrameSize - 1) -> Byte] /\ l \in Nat /\ l + 64 <= FrameSize
      /\ FrameSize \in Nat /\ IpLen(m) \in Nat /\ 20 <= IpLen(m)
  BY DEF Received
<1>2. Question(m) = IpLen(m) + 34 /\ Dns(m) = IpLen(m) + 22
  BY <1>1 DEF Question, Dns, Udp
<1> DEFINE p == Question(m)
<1>3. p \in Nat /\ p >= 54
  BY <1>1, <1>2
<1>4. ASSUME NEW i \in p..(l - 1) PROVE m[i] \in Byte
  <2> HIDE DEF p
  <2>1. i \in 0..(FrameSize - 1)
    BY <1>1, <1>3
  <2> QED
    BY <1>1, <2>1
<1> QED
  BY <1>1, <1>2, <1>3, <1>4 DEF BytesIn

(* process_dns_packet answers exactly the packets with a whole question.    *)
LEMMA FitsIffNamed ==
  ASSUME NEW m, NEW l, Received(m, l), IsIpv4(m)
  PROVE  Fits(m, l) <=> NameEnds(m, Dns(m) + 12, l) # {}
<1> DEFINE p == Question(m)
           n == ScanQname(m, p, l)
<1>1. p \in Nat /\ p = Dns(m) + 12 /\ p >= 54 /\ l \in Nat /\ BytesIn(m, p, l)
  BY QuestionIs
<1>2. IpLen(m) \in Nat /\ 20 <= IpLen(m)
  BY DEF Received
<1>3. ASSUME p <= l
      PROVE  /\ n = 0 \/ \E z \in p..(l - 1) : n = z + 1 - p
             /\ \A z \in p..(l - 1) : IsName(m, p, z) <=> n = z + 1 - p
  <2> HIDE DEF p
  <2>1. IsNameLength(n, m, p, l)
    BY <1>1, <1>3, ScanFinds
  <2> QED
    BY <2>1 DEF IsNameLength
<1>4. Fits(m, l) <=> l >= 54 /\ IpLen(m) >= 20 /\ p < l /\ n > 0 /\ p + n + 4 <= l
  BY DEF Fits, MinHdr
<1>5. NameEnds(m, p, l) = {z \in p..(l - 5) : IsName(m, p, z)}
  BY DEF NameEnds
<1> HIDE DEF p, n
<1>6. ASSUME Fits(m, l) PROVE NameEnds(m, p, l) # {}
  <2>1. p < l /\ n > 0 /\ p + n + 4 <= l
    BY <1>4, <1>6
  <2>2. PICK z \in p..(l - 1) : n = z + 1 - p
    BY <1>1, <1>3, <2>1
  <2>3. IsName(m, p, z)
    BY <1>1, <1>3, <2>1, <2>2
  <2>4. z \in p..(l - 5)
    BY <1>1, <2>1, <2>2
  <2> QED
    BY <1>5, <2>3, <2>4
<1>7. ASSUME NameEnds(m, p, l) # {} PROVE Fits(m, l)
  <2>1. PICK z \in p..(l - 5) : IsName(m, p, z)
    BY <1>5, <1>7
  <2>2. z \in p..(l - 1) /\ p <= l
    BY <1>1
  <2>3. n = z + 1 - p
    BY <1>3, <2>1, <2>2
  <2> QED
    BY <1>1, <1>2, <1>4, <2>1, <2>3
<1> QED
  BY <1>1, <1>6, <1>7

-----------------------------------------------------------------------------
(* A packet is as it was sent until the worker sends it back, which the DNS *)
(* mode does with those that fit.                                           *)
AskedInv ==
  /\ fn \in {"dns", "nxdomain"}
  /\ Received(asked, query.len)
  /\ at \in {"wire", "stack", "worker", "freed", "sent"}
  /\ at # "sent" => pkt = asked /\ len = query.len
  /\ at \in {"sent", "freed"} /\ fn = "dns" => (at = "sent" <=> Fits(asked, query.len))

(* AskedInv is an invariant.                                                *)
LEMMA AskedHolds == Spec => []AskedInv
<1>1. Init => AskedInv
  <2> SUFFICES ASSUME Init PROVE AskedInv
    OBVIOUS
  <2>1. PICK q \in Queries : query = Frame(q)
    BY DEF Init
  <2>2. Received(asked, query.len)
    BY <2>1, FrameReceived DEF asked
  <2> QED
    BY <2>2 DEF Init, AskedInv, asked
<1>2. AskedInv /\ [Next]_vars => AskedInv'
  <2> SUFFICES ASSUME AskedInv, [Next]_vars PROVE AskedInv'
    OBVIOUS
  <2> USE DEF AskedInv
  <2>1. CASE UNCHANGED vars
    BY <2>1 DEF vars, asked
  <2>2. ASSUME fn' = fn, query' = query PROVE Received(asked, query.len)'
    BY <2>2 DEF asked
  <2>3. at = "worker" => (QuestionFits <=> Fits(asked, query.len))
    BY DEF QuestionFits, Fits, QnameLen, NextPart, asked
  <2>4. CASE Filter
    BY <2>2, <2>4 DEF Filter, asked
  <2>5. CASE Reject
    BY <2>2, <2>3, <2>5 DEF Reject, asked
  <2>6. CASE AnswerQuery
    BY <2>2, <2>3, <2>6 DEF AnswerQuery, Send, asked
  <2>7. CASE NotImplemented
    BY <2>2, <2>3, <2>7 DEF NotImplemented, Send, asked
  <2>8. CASE RejectShort
    BY <2>2, <2>8 DEF RejectShort, asked
  <2>9. CASE NxDomain
    BY <2>2, <2>9 DEF NxDomain, Send, asked
  <2> QED
    BY <2>1, <2>4, <2>5, <2>6, <2>7, <2>8, <2>9 DEF Next
<1> QED
  BY <1>1, <1>2, PTL DEF Spec

(* The DNS mode counts a parse error exactly for the IPv4 packets without a *)
(* complete first question, whatever the bytes of the packet.               *)
THEOREM RejectedHolds == Spec => []RejectedIffMalformed
<1>1. AskedInv => RejectedIffMalformed
  <2> SUFFICES ASSUME AskedInv, at \in {"sent", "freed"}, fn = "dns", IsIpv4(asked)
               PROVE  at = "freed" <=> NameEnds(asked, Dns(asked) + 12, query.len) = {}
    BY DEF RejectedIffMalformed
  <2>1. Received(asked, query.len) /\ (at = "sent" <=> Fits(asked, query.len))
    BY DEF AskedInv
  <2>2. Fits(asked, query.len) <=> NameEnds(asked, Dns(asked) + 12, query.len) # {}
    BY <2>1, FitsIffNamed
  <2> QED
    BY <2>1, <2>2
<1> QED
  BY <1>1, AskedHolds, PTL

-----------------------------------------------------------------------------
(* What a response is made of. *)

(* The flags and the counts of the DNS header. *)
HoldsCounts(s, a, b, c) ==
  /\ s \in Seq(Byte) /\ Len(s) = 10
  /\ s[1] = a /\ s[2] = b /\ s[3] = 0 /\ s[4] = 1 /\ s[5] = 0 /\ s[6] = c
  /\ s[7] = 0 /\ s[8] = 0 /\ s[9] = 0 /\ s[10] = 0

(* The bytes that DnsHeader writes.                                         *)
LEMMA CountsAre ==
  ASSUME NEW a \in Byte, NEW b \in Byte, NEW c \in Byte
  PROVE  HoldsCounts(<<a, b>> \o <<0, 1>> \o <<0, c>> \o <<0, 0, 0, 0>>, a, b, c)
<1> DEFINE x == <<a, b>>
           y == <<0, 1>>
           z == <<0, c>>
           w == <<0, 0, 0, 0>>
           xy == x \o y
           xyz == xy \o z
           s == xyz \o w
<1>0. 0 \in Byte /\ 1 \in Byte
  BY DEF Byte
<1>1. /\ x \in Seq(Byte) /\ y \in Seq(Byte) /\ z \in Seq(Byte) /\ w \in Seq(Byte)
      /\ Len(x) = 2 /\ Len(y) = 2 /\ Len(z) = 2 /\ Len(w) = 4
      /\ x[1] = a /\ x[2] = b /\ y[1] = 0 /\ y[2] = 1 /\ z[1] = 0 /\ z[2] = c
      /\ w[1] = 0 /\ w[2] = 0 /\ w[3] = 0 /\ w[4] = 0
  BY <1>0
<1> HIDE DEF x, y, z, w
<1>2. Joins(xy, x, y)
  BY <1>1, ConcatJoins
<1> HIDE DEF xy
<1>3. xy \in Seq(Byte) /\ Len(xy) = 4
  BY <1>1, <1>2 DEF Joins
<1>4. Joins(xyz, xy, z)
  BY <1>1, <1>3, ConcatJoins
<1> HIDE DEF xyz
<1>5. xyz \in Seq(Byte) /\ Len(xyz) = 6
  BY <1>1, <1>3, <1>4 DEF Joins
<1>6. Joins(s, xyz, w)
  BY <1>1, <1>5, ConcatJoins
<1> HIDE DEF s
<1>7. s \in Seq(Byte) /\ Len(s) = 10
  BY <1>1, <1>5, <1>6 DEF Joins
<1>8. xy[1] = a /\ xy[2] = b /\ xy[3] = 0 /\ xy[4] = 1
  <2>1. 1 \in 1..2 /\ 2 \in 1..2 /\ 2 + 1 = 3 /\ 2 + 2 = 4
    OBVIOUS
  <2>2. (\A i \in 1..2 : xy[i] = x[i]) /\ (\A i \in 1..2 : xy[2 + i] = y[i])
    BY <1>1, <1>2 DEF Joins
  <2>3. xy[1] = x[1] /\ xy[2] = x[2] /\ xy[2 + 1] = y[1] /\ xy[2 + 2] = y[2]
    BY <2>1, <2>2
  <2> QED
    BY <1>1, <2>1, <2>3
<1>9. xyz[1] = a /\ xyz[2] = b /\ xyz[3] = 0 /\ xyz[4] = 1 /\ xyz[5] = 0 /\ xyz[6] = c
  <2>1. /\ 1 \in 1..4 /\ 2 \in 1..4 /\ 3 \in 1..4 /\ 4 \in 1..4
        /\ 1 \in 1..2 /\ 2 \in 1..2 /\ 4 + 1 = 5 /\ 4 + 2 = 6
    OBVIOUS
  <2>2. (\A i \in 1..4 : xyz[i] = xy[i]) /\ (\A i \in 1..2 : xyz[4 + i] = z[i])
    BY <1>1, <1>3, <1>4 DEF Joins
  <2>3. /\ xyz[1] = xy[1] /\ xyz[2] = xy[2] /\ xyz[3] = xy[3] /\ xyz[4] = xy[4]
        /\ xyz[4 + 1] = z[1] /\ xyz[4 + 2] = z[2]
    BY <2>1, <2>2
  <2> QED
    BY <1>1, <1>8, <2>1, <2>3
<1>10. /\ s[1] = a /\ s[2] = b /\ s[3] = 0 /\ s[4] = 1 /\ s[5] = 0 /\ s[6] = c
       /\ s[7] = 0 /\ s[8] = 0 /\ s[9] = 0 /\ s[10] = 0
  <2>1. /\ 1 \in 1..6 /\ 2 \in 1..6 /\ 3 \in 1..6 /\ 4 \in 1..6 /\ 5 \in 1..6 /\ 6 \in 1..6
        /\ 1 \in 1..4 /\ 2 \in 1..4 /\ 3 \in 1..4 /\ 4 \in 1..4
        /\ 6 + 1 = 7 /\ 6 + 2 = 8 /\ 6 + 3 = 9 /\ 6 + 4 = 10
    OBVIOUS
  <2>2. (\A i \in 1..6 : s[i] = xyz[i]) /\ (\A i \in 1..4 : s[6 + i] = w[i])
    BY <1>1, <1>5, <1>6 DEF Joins
  <2>3. /\ s[1] = xyz[1] /\ s[2] = xyz[2] /\ s[3] = xyz[3] /\ s[4] = xyz[4]
        /\ s[5] = xyz[5] /\ s[6] = xyz[6]
        /\ s[6 + 1] = w[1] /\ s[6 + 2] = w[2] /\ s[6 + 3] = w[3] /\ s[6 + 4] = w[4]
    BY <2>1, <2>2
  <2> QED
    BY <1>1, <1>9, <2>1, <2>3
<1> QED
  BY <1>7, <1>10 DEF HoldsCounts, s, xyz, xy, x, y, z, w

(* An answer record: a pointer to the question, its type and its RDATA. *)
HoldsAnswer(s, t) ==
  /\ s \in Seq(Byte) /\ RdLength[t] \in Nat /\ RdLength[t] <= 16 /\ Len(s) = 12 + RdLength[t]
  /\ s[1] = 192 /\ s[2] = 12 /\ 256 * s[3] + s[4] = t /\ 256 * s[11] + s[12] = RdLength[t]

(* An answer has the type asked for and the length of that type's data.     *)
LEMMA AnswerIs ==
  ASSUME NEW t, HasTemplate(t)
  PROVE  HoldsAnswer(Answer(t), t)
<1> DEFINE k == RdLength[t]
           a == <<192, 12>>
           b == Htons(t)
           c == Htons(1)
           e == <<0, 0, 14, 16>>
           f == Htons(k)
           g == [i \in 1..k |-> t]
           ab == a \o b
           abc == ab \o c
           abce == abc \o e
           abcef == abce \o f
           s == abcef \o g
<1>1. t \in Nat /\ t <= 255 /\ k \in Nat /\ k <= 16
  BY DEF HasTemplate, RdLength
<1>s. Answer(t) = s
  BY DEF Answer
<1>k. k = RdLength[t]
  OBVIOUS
<1> HIDE DEF k
<1>2. a \in Seq(Byte) /\ Len(a) = 2 /\ a[1] = 192 /\ a[2] = 12
  <2>1. 192 \in Byte /\ 12 \in Byte
    BY DEF Byte
  <2> QED
    BY <2>1, FewBytes
<1>3. b \in Seq(Byte) /\ Len(b) = 2 /\ 256 * b[1] + b[2] = t
  <2>1. t <= 65535
    BY <1>1
  <2> QED
    BY <1>1, <2>1, HtonsIs
<1>4. c \in Seq(Byte) /\ Len(c) = 2
  <2>1. 1 \in Nat /\ 1 <= 65535
    OBVIOUS
  <2> QED
    BY <2>1, HtonsIs
<1>5. e \in Seq(Byte) /\ Len(e) = 4
  <2>1. 0 \in Byte /\ 14 \in Byte /\ 16 \in Byte
    BY DEF Byte
  <2> QED
    BY <2>1, FewBytes
<1>6. f \in Seq(Byte) /\ Len(f) = 2 /\ 256 * f[1] + f[2] = k
  <2>1. k <= 65535
    BY <1>1
  <2> QED
    BY <1>1, <2>1, HtonsIs
<1>7. g \in Seq(Byte) /\ Len(g) = k
  <2>1. t \in Byte
    BY <1>1 DEF Byte
  <2> QED
    BY <1>1, <2>1
<1> HIDE DEF a, b, c, e, f, g
<1>8. Joins(ab, a, b)
  BY <1>2, <1>3, ConcatJoins
<1> HIDE DEF ab
<1>9. ab \in Seq(Byte) /\ Len(ab) = 4
  BY <1>2, <1>3, <1>8 DEF Joins
<1>10. Joins(abc, ab, c)
  BY <1>4, <1>9, ConcatJoins
<1> HIDE DEF abc
<1>11. abc \in Seq(Byte) /\ Len(abc) = 6
  BY <1>4, <1>9, <1>10 DEF Joins
<1>12. Joins(abce, abc, e)
  BY <1>5, <1>11, ConcatJoins
<1> HIDE DEF abce
<1>13. abce \in Seq(Byte) /\ Len(abce) = 10
  BY <1>5, <1>11, <1>12 DEF Joins
<1>14. Joins(abcef, abce, f)
  BY <1>6, <1>13, ConcatJoins
<1> HIDE DEF abcef
<1>15. abcef \in Seq(Byte) /\ Len(abcef) = 12
  BY <1>6, <1>13, <1>14 DEF Joins
<1>16. Joins(s, abcef, g)
  BY <1>7, <1>15, ConcatJoins
<1> HIDE DEF s
<1>17. s \in Seq(Byte) /\ Len(s) = 12 + k
  BY <1>7, <1>15, <1>16 DEF Joins
<1>18. s[1] = abcef[1] /\ s[2] = abcef[2] /\ s[3] = abcef[3] /\ s[4] = abcef[4]
       /\ s[11] = abcef[11] /\ s[12] = abcef[12]
  <2>1. 1 \in 1..12 /\ 2 \in 1..12 /\ 3 \in 1..12 /\ 4 \in 1..12 /\ 11 \in 1..12 /\ 12 \in 1..12
    OBVIOUS
  <2>2. \A i \in 1..12 : s[i] = abcef[i]
    BY <1>15, <1>16 DEF Joins
  <2> QED
    BY <2>1, <2>2
<1>19. abcef[1] = abce[1] /\ abcef[2] = abce[2] /\ abcef[3] = abce[3] /\ abcef[4] = abce[4]
       /\ abcef[11] = f[1] /\ abcef[12] = f[2]
  <2>1. /\ 1 \in 1..10 /\ 2 \in 1..10 /\ 3 \in 1..10 /\ 4 \in 1..10
        /\ 1 \in 1..2 /\ 2 \in 1..2 /\ 10 + 1 = 11 /\ 10 + 2 = 12
    OBVIOUS
  <2>2. (\A i \in 1..10 : abcef[i] = abce[i]) /\ (\A i \in 1..2 : abcef[10 + i] = f[i])
    BY <1>6, <1>13, <1>14 DEF Joins
  <2>3. abcef[10 + 1] = f[1] /\ abcef[10 + 2] = f[2]
    BY <2>1, <2>2
  <2> QED
    BY <2>1, <2>2, <2>3
<1>20. abce[1] = abc[1] /\ abce[2] = abc[2] /\ abce[3] = abc[3] /\ abce[4] = abc[4]
  <2>1. 1 \in 1..6 /\ 2 \in 1..6 /\ 3 \in 1..6 /\ 4 \in 1..6
    OBVIOUS
  <2>2. \A i \in 1..6 : abce[i] = abc[i]
    BY <1>11, <1>12 DEF Joins
  <2> QED
    BY <2>1, <2>2
<1>21. abc[1] = ab[1] /\ abc[2] = ab[2] /\ abc[3] = ab[3] /\ abc[4] = ab[4]
  <2>1. 1 \in 1..4 /\ 2 \in 1..4 /\ 3 \in 1..4 /\ 4 \in 1..4
    OBVIOUS
  <2>2. \A i \in 1..4 : abc[i] = ab[i]
    BY <1>9, <1>10 DEF Joins
  <2> QED
    BY <2>1, <2>2
<1>22. ab[1] = 192 /\ ab[2] = 12 /\ ab[3] = b[1] /\ ab[4] = b[2]
  <2>1. 1 \in 1..2 /\ 2 \in 1..2 /\ 2 + 1 = 3 /\ 2 + 2 = 4
    OBVIOUS
  <2>2. (\A i \in 1..2 : ab[i] = a[i]) /\ (\A i \in 1..2 : ab[2 + i] = b[i])
    BY <1>2, <1>3, <1>8 DEF Joins
  <2>3. ab[1] = a[1] /\ ab[2] = a[2] /\ ab[2 + 1] = b[1] /\ ab[2 + 2] = b[2]
    BY <2>1, <2>2
  <2> QED
    BY <1>2, <2>1, <2>3
<1>23. s[1] = 192 /\ s[2] = 12 /\ s[3] = b[1] /\ s[4] = b[2] /\ s[11] = f[1] /\ s[12] = f[2]
  BY <1>18, <1>19, <1>20, <1>21, <1>22
<1>24. 256 * s[3] + s[4] = t /\ 256 * s[11] + s[12] = k
  BY <1>3, <1>6, <1>23
<1> QED
  BY <1>1, <1>s, <1>k, <1>17, <1>23, <1>24 DEF HoldsAnswer

-----------------------------------------------------------------------------
(* The headers of a response, made in a frame whose last byte is at n. *)

(* r is m with the w bytes at a and those at b exchanged.                   *)
Swapped(r, n, m, a, b, w) ==
  /\ r \in [0..n -> Byte]
  /\ \A i \in 0..n : i \notin a..(a + w - 1) /\ i \notin b..(b + w - 1) => r[i] = m[i]
  /\ \A k \in 0..(w - 1) : r[a + k] = m[b + k] /\ r[b + k] = m[a + k]

(* g is the w bytes of m from o on.                                         *)
HoldsGet(g, m, o, w) ==
  /\ g \in Seq(Byte) /\ Len(g) = w
  /\ \A k \in 0..(w - 1) : g[k + 1] = m[o + k]

(* Get reads the bytes of a frame.                                          *)
LEMMA GetIs ==
  ASSUME NEW n \in Nat, NEW m \in [0..n -> Byte], NEW o \in Nat, NEW w \in Nat, o + w <= n + 1
  PROVE  HoldsGet(Get(m, o, w), m, o, w)
<1>1. Get(m, o, w) = [i \in 1..w |-> m[o + i - 1]]
  BY DEF Get
<1>2. ASSUME NEW i \in 1..w PROVE m[o + i - 1] \in Byte
  <2>1. o + i - 1 \in 0..n
    OBVIOUS
  <2> QED
    BY <2>1
<1>3. Get(m, o, w) \in Seq(Byte) /\ Len(Get(m, o, w)) = w
  BY <1>1, <1>2
<1>4. ASSUME NEW k \in 0..(w - 1) PROVE Get(m, o, w)[k + 1] = m[o + k]
  <2>1. k + 1 \in 1..w /\ o + (k + 1) - 1 = o + k
    OBVIOUS
  <2> QED
    BY <1>1, <2>1
<1> QED
  BY <1>3, <1>4 DEF HoldsGet

(* Swap exchanges two fields that do not overlap and leaves the rest.       *)
LEMMA SwapIs ==
  ASSUME NEW n \in Nat, NEW m \in [0..n -> Byte],
         NEW a \in Nat, NEW b \in Nat, NEW w \in Nat, a + w <= b, b + w <= n + 1
  PROVE  Swapped(Swap(m, a, b, w), n, m, a, b, w)
<1> DEFINE ga == Get(m, a, w)
           gb == Get(m, b, w)
           x == Put(m, a, gb)
           r == Put(x, b, ga)
<1>1. a + w <= n + 1
  OBVIOUS
<1>2. /\ ga \in Seq(Byte) /\ Len(ga) = w /\ \A k \in 0..(w - 1) : ga[k + 1] = m[a + k]
  <2>1. HoldsGet(ga, m, a, w)
    BY <1>1, GetIs
  <2> HIDE DEF ga
  <2> QED
    BY <2>1 DEF HoldsGet
<1>3. /\ gb \in Seq(Byte) /\ Len(gb) = w /\ \A k \in 0..(w - 1) : gb[k + 1] = m[b + k]
  <2>1. HoldsGet(gb, m, b, w)
    BY GetIs
  <2> HIDE DEF gb
  <2> QED
    BY <2>1 DEF HoldsGet
<1>s. Swap(m, a, b, w) = r
  BY DEF Swap
<1> HIDE DEF ga, gb
<1>4. PutInto(x, n, m, a, gb)
  BY <1>3, PutIs
<1> HIDE DEF x
<1>5. /\ x \in [0..n -> Byte]
      /\ \A i \in 0..n : i \notin a..(a + w - 1) => x[i] = m[i]
      /\ \A j \in 1..w : a + j - 1 <= n => x[a + j - 1] = gb[j]
  BY <1>3, <1>4 DEF PutInto
<1>6. PutInto(r, n, x, b, ga)
  BY <1>2, <1>5, PutIs
<1> HIDE DEF r
<1>7. /\ r \in [0..n -> Byte]
      /\ \A i \in 0..n : i \notin b..(b + w - 1) => r[i] = x[i]
      /\ \A j \in 1..w : b + j - 1 <= n => r[b + j - 1] = ga[j]
  BY <1>2, <1>6 DEF PutInto
<1>8. ASSUME NEW i \in 0..n, i \notin a..(a + w - 1), i \notin b..(b + w - 1) PROVE r[i] = m[i]
  BY <1>5, <1>7, <1>8
<1>9. ASSUME NEW k \in 0..(w - 1) PROVE r[a + k] = m[b + k] /\ r[b + k] = m[a + k]
  <2>1. /\ k + 1 \in 1..w /\ a + (k + 1) - 1 = a + k /\ b + (k + 1) - 1 = b + k
        /\ a + k <= n /\ b + k <= n /\ a + k \in 0..n /\ a + k \notin b..(b + w - 1)
    OBVIOUS
  <2>2. r[a + k] = x[a + k]
    BY <1>7, <2>1
  <2>3. x[a + k] = gb[k + 1]
    <3>1. a + (k + 1) - 1 <= n => x[a + (k + 1) - 1] = gb[k + 1]
      BY <1>5, <2>1
    <3> QED
      BY <2>1, <3>1
  <2>4. r[b + k] = ga[k + 1]
    <3>1. b + (k + 1) - 1 <= n => r[b + (k + 1) - 1] = ga[k + 1]
      BY <1>7, <2>1
    <3> QED
      BY <2>1, <3>1
  <2> QED
    BY <1>2, <1>3, <2>2, <2>3, <2>4
<1> QED
  BY <1>s, <1>7, <1>8, <1>9 DEF Swapped

(* The addresses and the ports are exchanged, and nothing else moves. *)
HoldsSwaps(r, n, m, u) ==
  /\ r \in [0..n -> Byte]
  /\ \A k \in 0..5 : r[k] = m[6 + k] /\ r[6 + k] = m[k]
  /\ \A k \in 0..3 : r[26 + k] = m[30 + k] /\ r[30 + k] = m[26 + k]
  /\ \A k \in 0..1 : r[u + k] = m[u + 2 + k] /\ r[u + 2 + k] = m[u + k]
  /\ \A i \in 12..25 : r[i] = m[i]
  /\ \A i \in 34..(u - 1) : r[i] = m[i]
  /\ \A i \in (u + 4)..n : r[i] = m[i]

(* The three swaps exchange MACs, addresses and ports, and keep ihl.        *)
LEMMA SwapHeadersAre ==
  ASSUME NEW n \in Nat, NEW m \in [0..n -> Byte], NEW u \in Nat,
         u = Udp(m), 34 <= u, u + 4 <= n
  PROVE  HoldsSwaps(SwapHeaders(m), n, m, u) /\ Udp(SwapHeaders(m)) = u
<1> DEFINE x == EthSwap(m)
           y == Ipv4Swap(x)
           r == UdpSwap(y)
<1>1. Swapped(x, n, m, 0, 6, 6)
  BY SwapIs DEF EthSwap
<1>s. SwapHeaders(m) = r
  BY DEF SwapHeaders
<1> HIDE DEF x
<1>2. /\ x \in [0..n -> Byte]
      /\ \A i \in 12..n : x[i] = m[i]
      /\ \A k \in 0..5 : x[k] = m[6 + k] /\ x[6 + k] = m[k]
  <2>1. \A k \in 0..5 : 0 + k = k
    OBVIOUS
  <2>2. \A k \in 0..5 : x[0 + k] = m[6 + k] /\ x[6 + k] = m[0 + k]
    BY <1>1 DEF Swapped
  <2>3. \A i \in 12..n : x[i] = m[i]
    BY <1>1 DEF Swapped
  <2> QED
    BY <1>1, <2>1, <2>2, <2>3 DEF Swapped
<1>3. Swapped(y, n, x, 26, 30, 4)
  <2> DEFINE a == 26
             b == 30
             v == 4
  <2>1. a \in Nat /\ b \in Nat /\ v \in Nat /\ a + v <= b /\ b + v <= n + 1
    OBVIOUS
  <2>2. Swapped(y, n, x, a, b, v) <=> Swapped(Swap(x, a, b, v), n, x, a, b, v)
    BY DEF Ipv4Swap
  <2> HIDE DEF a, b, v, y
  <2>3. Swapped(Swap(x, a, b, v), n, x, a, b, v)
    BY <1>2, <2>1, SwapIs
  <2>4. Swapped(y, n, x, a, b, v)
    BY <2>2, <2>3
  <2> QED
    BY <2>4 DEF a, b, v
<1> HIDE DEF y
<1>4. /\ y \in [0..n -> Byte]
      /\ \A i \in 0..25 : y[i] = x[i]
      /\ \A i \in 34..n : y[i] = x[i]
      /\ \A k \in 0..3 : y[26 + k] = x[30 + k] /\ y[30 + k] = x[26 + k]
  <2>1. \A i \in 0..25 : y[i] = x[i]
    BY <1>3 DEF Swapped
  <2>2. \A i \in 34..n : y[i] = x[i]
    BY <1>3 DEF Swapped
  <2>3. \A k \in 0..3 : y[26 + k] = x[30 + k] /\ y[30 + k] = x[26 + k]
    BY <1>3 DEF Swapped
  <2> QED
    BY <1>3, <2>1, <2>2, <2>3 DEF Swapped
<1>5. Udp(y) = u
  <2>1. y[14] = m[14]
    <3>1. 14 \in 0..25 /\ 14 \in 12..n
      OBVIOUS
    <3> QED
      BY <1>2, <1>4, <3>1
  <2> QED
    BY <2>1 DEF Udp, IpLen
<1>6. Swapped(r, n, y, u, u + 2, 2)
  <2>1. Swapped(Swap(y, u, u + 2, 2), n, y, u, u + 2, 2)
    <3> DEFINE v == u + 2
    <3>1. v \in Nat /\ u + 2 <= v /\ v + 2 <= n + 1
      OBVIOUS
    <3> HIDE DEF v
    <3>2. Swapped(Swap(y, u, v, 2), n, y, u, v, 2)
      BY <1>4, <3>1, SwapIs
    <3> QED
      BY <3>2 DEF v
  <2> QED
    BY <1>5, <2>1 DEF UdpSwap
<1> HIDE DEF r
<1>7. /\ r \in [0..n -> Byte]
      /\ \A i \in 0..(u - 1) : r[i] = y[i]
      /\ \A i \in (u + 4)..n : r[i] = y[i]
      /\ \A k \in 0..1 : r[u + k] = y[u + 2 + k] /\ r[u + 2 + k] = y[u + k]
  <2>1. ASSUME NEW i \in 0..(u - 1) PROVE r[i] = y[i]
    <3>1. i \in 0..n /\ i \notin u..(u + 2 - 1) /\ i \notin (u + 2)..(u + 2 + 2 - 1)
      OBVIOUS
    <3> QED
      BY <1>6, <3>1 DEF Swapped
  <2>2. ASSUME NEW i \in (u + 4)..n PROVE r[i] = y[i]
    <3>1. i \in 0..n /\ i \notin u..(u + 2 - 1) /\ i \notin (u + 2)..(u + 2 + 2 - 1)
      OBVIOUS
    <3> QED
      BY <1>6, <3>1 DEF Swapped
  <2>3. \A k \in 0..1 : r[u + k] = y[u + 2 + k] /\ r[u + 2 + k] = y[u + k]
    BY <1>6 DEF Swapped
  <2> QED
    BY <1>6, <2>1, <2>2, <2>3 DEF Swapped
<1>8. ASSUME NEW k \in 0..5 PROVE r[k] = m[6 + k] /\ r[6 + k] = m[k]
  <2>1. k \in 0..(u - 1) /\ 6 + k \in 0..(u - 1) /\ k \in 0..25 /\ 6 + k \in 0..25
    OBVIOUS
  <2>2. r[k] = y[k] /\ r[6 + k] = y[6 + k]
    BY <1>7, <2>1
  <2>3. y[k] = x[k] /\ y[6 + k] = x[6 + k]
    BY <1>4, <2>1
  <2> QED
    BY <1>2, <2>2, <2>3
<1>9. ASSUME NEW k \in 0..3 PROVE r[26 + k] = m[30 + k] /\ r[30 + k] = m[26 + k]
  <2>1. 26 + k \in 0..(u - 1) /\ 30 + k \in 0..(u - 1) /\ 26 + k \in 12..n /\ 30 + k \in 12..n
    OBVIOUS
  <2>2. r[26 + k] = y[26 + k] /\ r[30 + k] = y[30 + k]
    BY <1>7, <2>1
  <2>3. y[26 + k] = x[30 + k] /\ y[30 + k] = x[26 + k]
    BY <1>4
  <2>4. x[26 + k] = m[26 + k] /\ x[30 + k] = m[30 + k]
    BY <1>2, <2>1
  <2> QED
    BY <2>2, <2>3, <2>4
<1>10. ASSUME NEW i \in 34..n PROVE y[i] = m[i]
  BY <1>2, <1>4
<1>11. ASSUME NEW k \in 0..1 PROVE r[u + k] = m[u + 2 + k] /\ r[u + 2 + k] = m[u + k]
  <2>1. u + k \in 34..n /\ u + 2 + k \in 34..n
    OBVIOUS
  <2> QED
    BY <1>7, <1>10, <2>1
<1>12. ASSUME NEW i \in 12..25 PROVE r[i] = m[i]
  <2>1. i \in 0..(u - 1) /\ i \in 0..25 /\ i \in 12..n
    OBVIOUS
  <2> QED
    BY <1>2, <1>4, <1>7, <2>1
<1>13. ASSUME NEW i \in 34..(u - 1) PROVE r[i] = m[i]
  <2>1. i \in 0..(u - 1) /\ i \in 34..n
    OBVIOUS
  <2> QED
    BY <1>7, <1>10, <2>1
<1>14. ASSUME NEW i \in (u + 4)..n PROVE r[i] = m[i]
  <2>1. i \in 34..n
    OBVIOUS
  <2> QED
    BY <1>7, <1>10, <2>1
<1>15. r[14] = m[14]
  <2>1. 14 \in 12..25
    OBVIOUS
  <2> QED
    BY <1>12, <2>1
<1>16. Udp(r) = u
  BY <1>15 DEF Udp, IpLen
<1> QED
  BY <1>s, <1>7, <1>8, <1>9, <1>11, <1>12, <1>13, <1>14, <1>16 DEF HoldsSwaps

-----------------------------------------------------------------------------
(* The checksum of the IP header. *)

(* The words of a header of w words, as the CPU reads them and as they are sent. *)
WordsOf(m, w)    == [i \in 1..w |-> Word(m, 14 + 2 * (i - 1))]
NetWordsOf(m, w) == [i \in 1..w |-> Ntohs(m, 14 + 2 * (i - 1))]

(* x is the sum of the words of the header.                                 *)
IsWordSum(x, m, w) == \E s : IsSums(s, WordsOf(m, w), w) /\ x = s[w]

(* The sum that the code computes is the last of the running sums. *)
LEMMA WordSumIs ==
  ASSUME NEW m, NEW bytes, NEW w \in Nat, w = bytes \div 2
  PROVE  IsWordSum(SumOfWords(m, bytes), m, w)
<1> DEFINE d == WordsOf(m, w)
           Sums(r) == [k \in 0..w |-> IF k = 0 THEN 0 ELSE r[k - 1] + d[k]]
           Code(r) == [i \in 0..w |-> IF i = 0 THEN 0 ELSE r[i - 1] + Word(m, 14 + 2 * (i - 1))]
           t == CHOOSE r : r = Code(r)
<1>1. PICK s : s = Sums(s)
  BY SumsExist DEF IsSums
<1>2. \A r : Code(r) = Sums(r)
  <2> SUFFICES ASSUME NEW r, NEW k \in 0..w, k # 0
               PROVE  r[k - 1] + d[k] = r[k - 1] + Word(m, 14 + 2 * (k - 1))
    OBVIOUS
  <2>1. k \in 1..w
    OBVIOUS
  <2> QED
    BY <2>1 DEF WordsOf
<1>3. SumOfWords(m, bytes) = t[w]
  BY DEF SumOfWords
<1>4. s = Code(s)
  BY <1>1, <1>2
<1>5. t = Code(t)
  <2> HIDE DEF Code
  <2> QED
    BY <1>4
<1>6. IsSums(t, d, w)
  <2> HIDE DEF t
  <2>1. t = Sums(t)
    BY <1>2, <1>5
  <2> QED
    BY <2>1 DEF IsSums
<1> QED
  BY <1>3, <1>6 DEF IsWordSum

(* So is the sum of the receiver. *)
LEMMA NetSumIs ==
  ASSUME NEW m, NEW w \in Nat, w = IpLen(m) \div 2
  PROVE  \E s : IsSums(s, NetWordsOf(m, w), w) /\ VerifyingSum(m) = s[w]
<1> DEFINE d == NetWordsOf(m, w)
           Sums(r) == [k \in 0..w |-> IF k = 0 THEN 0 ELSE r[k - 1] + d[k]]
           Code(r) == [i \in 0..w |-> IF i = 0 THEN 0 ELSE r[i - 1] + Ntohs(m, 14 + 2 * (i - 1))]
           t == CHOOSE r : r = Code(r)
<1>1. PICK s : s = Sums(s)
  BY SumsExist DEF IsSums
<1>2. \A r : Code(r) = Sums(r)
  <2> SUFFICES ASSUME NEW r, NEW k \in 0..w, k # 0
               PROVE  r[k - 1] + d[k] = r[k - 1] + Ntohs(m, 14 + 2 * (k - 1))
    OBVIOUS
  <2>1. k \in 1..w
    OBVIOUS
  <2> QED
    BY <2>1 DEF NetWordsOf
<1>3. VerifyingSum(m) = t[w]
  BY DEF VerifyingSum
<1>4. s = Code(s)
  BY <1>1, <1>2
<1>5. t = Code(t)
  <2> HIDE DEF Code
  <2> QED
    BY <1>4
<1>6. IsSums(t, d, w)
  <2> HIDE DEF t
  <2>1. t = Sums(t)
    BY <1>2, <1>5
  <2> QED
    BY <2>1 DEF IsSums
<1> QED
  BY <1>3, <1>6

(* The range of a byte.                                                     *)
LEMMA ByteIs ==
  ASSUME NEW x \in Byte
  PROVE  x \in Nat /\ x <= 255
  BY DEF Byte

(* A word of bytes, both ways. *)
IsWord(m, w, i) ==
  \E lo \in Nat, hi \in Nat :
     /\ lo <= 255 /\ hi <= 255
     /\ WordsOf(m, w)[i] = lo + 256 * hi /\ NetWordsOf(m, w)[i] = 256 * lo + hi

(* The words of a header in a frame are words of bytes.                     *)
LEMMA WordsAre ==
  ASSUME NEW n \in Nat, NEW m \in [0..n -> Byte], NEW w \in Nat, 13 + 2 * w <= n,
         NEW i \in 1..w
  PROVE  IsWord(m, w, i)
<1> DEFINE o == 14 + 2 * (i - 1)
<1>1. o \in 0..n /\ o + 1 \in 0..n
  OBVIOUS
<1>2. WordsOf(m, w)[i] = Word(m, o) /\ NetWordsOf(m, w)[i] = Ntohs(m, o)
  BY DEF WordsOf, NetWordsOf
<1> HIDE DEF o
<1>3. m[o] \in Byte /\ m[o + 1] \in Byte
  BY <1>1
<1>4. m[o] \in Nat /\ m[o] <= 255 /\ m[o + 1] \in Nat /\ m[o + 1] <= 255
  BY <1>3, ByteIs
<1> QED
  BY <1>2, <1>4 DEF IsWord, Word, Ntohs

(* A sum of w words is at most 65535 * w.                                   *)
LEMMA SumBounded ==
  ASSUME NEW w \in Nat, NEW d, \A i \in 1..w : d[i] \in Nat /\ d[i] <= 65535,
         NEW s, IsSums(s, d, w)
  PROVE  s[w] \in Nat /\ s[w] <= 65535 * w
<1> DEFINE G == {k \in 0..w : s[k] \in Nat /\ s[k] <= 65535 * k}
<1>1. s[0] = 0 /\ \A k \in 1..w : s[k] = s[k - 1] + d[k]
  BY SumsStep
<1>2. 0 \in G
  BY <1>1
<1>3. ASSUME NEW k \in 0..(w - 1), k \in G PROVE k + 1 \in G
  <2>1. k + 1 \in 1..w /\ k + 1 - 1 = k /\ k + 1 \in 0..w
    OBVIOUS
  <2>2. s[k + 1] = s[k] + d[k + 1]
    BY <1>1, <2>1
  <2>3. s[k] \in Nat /\ s[k] <= 65535 * k
    BY <1>3
  <2>4. d[k + 1] \in Nat /\ d[k + 1] <= 65535
    BY <2>1
  <2>5. s[k + 1] \in Nat /\ s[k + 1] <= 65535 * (k + 1)
    BY <2>2, <2>3, <2>4
  <2> QED
    BY <2>1, <2>5
<1>4. 0..w \subseteq G
  <2> HIDE DEF G
  <2> QED
    BY <1>2, <1>3, UpTo
<1>5. w \in 0..w
  OBVIOUS
<1> QED
  BY <1>4, <1>5

(* A sum that is zero in one's complement arithmetic is so in either order. *)
LEMMA EitherOrder ==
  ASSUME NEW n \in Nat, NEW m \in [0..n -> Byte], NEW w \in Nat, 13 + 2 * w <= n,
         NEW s, IsSums(s, WordsOf(m, w), w), NEW v, IsSums(v, NetWordsOf(m, w), w),
         s[w] > 0, s[w] % 65535 = 0
  PROVE  v[w] > 0 /\ v[w] % 65535 = 0
<1> DEFINE P(k) == s[k] \in Nat /\ \E b \in Nat : v[k] = 256 * s[k] - 65535 * b /\ 256 * b <= s[k]
           G == {k \in 0..w : P(k)}
<1>1. /\ s[0] = 0 /\ \A k \in 1..w : s[k] = s[k - 1] + WordsOf(m, w)[k]
      /\ v[0] = 0 /\ \A k \in 1..w : v[k] = v[k - 1] + NetWordsOf(m, w)[k]
  BY SumsStep
<1>2. 0 \in G
  <2>1. 0 \in Nat /\ v[0] = 256 * s[0] - 65535 * 0 /\ 256 * 0 <= s[0]
    BY <1>1
  <2>2. P(0)
    BY <1>1, <2>1
  <2>3. 0 \in 0..w
    OBVIOUS
  <2> HIDE DEF P
  <2> QED
    BY <2>2, <2>3
<1>3. ASSUME NEW k \in 0..(w - 1), k \in G PROVE k + 1 \in G
  <2>1. k + 1 \in 1..w /\ k + 1 - 1 = k /\ k + 1 \in 0..w
    OBVIOUS
  <2>w. IsWord(m, w, k + 1)
    BY <2>1, WordsAre
  <2>2. PICK lo \in Nat, hi \in Nat :
            /\ lo <= 255 /\ hi <= 255
            /\ WordsOf(m, w)[k + 1] = lo + 256 * hi /\ NetWordsOf(m, w)[k + 1] = 256 * lo + hi
    BY <2>w DEF IsWord
  <2>3. s[k + 1] = s[k] + (lo + 256 * hi) /\ v[k + 1] = v[k] + (256 * lo + hi)
    BY <1>1, <2>1, <2>2
  <2>4. P(k)
    BY <1>3
  <2>5. PICK b \in Nat : v[k] = 256 * s[k] - 65535 * b /\ 256 * b <= s[k]
    BY <2>4
  <2> DEFINE x == s[k]
             y == v[k]
             c == b + hi
  <2>6. /\ x \in Nat /\ y = 256 * x - 65535 * b /\ 256 * b <= x
        /\ s[k + 1] = x + (lo + 256 * hi) /\ v[k + 1] = y + (256 * lo + hi)
    BY <2>3, <2>4, <2>5
  <2> HIDE DEF x, y
  <2>7. c \in Nat /\ s[k + 1] \in Nat
    BY <2>6
  <2>8. v[k + 1] = 256 * s[k + 1] - 65535 * c /\ 256 * c <= s[k + 1]
    BY <2>6
  <2> HIDE DEF c
  <2>9. P(k + 1)
    BY <2>7, <2>8
  <2> HIDE DEF P
  <2> QED
    BY <2>1, <2>9
<1>4. w \in G
  <2> HIDE DEF G
  <2>1. 0..w \subseteq G
    BY <1>2, <1>3, UpTo
  <2> QED
    BY <2>1
<1>5. P(w)
  BY <1>4
<1>6. PICK b \in Nat : v[w] = 256 * s[w] - 65535 * b /\ 256 * b <= s[w]
  BY <1>5
<1> DEFINE x == s[w]
           j == x \div 65535
<1>7. x \in Nat /\ x > 0 /\ x % 65535 = 0 /\ v[w] = 256 * x - 65535 * b /\ 256 * b <= x
  BY <1>5, <1>6
<1> HIDE DEF x
<1>8. j \in Nat /\ x = 65535 * j
  BY <1>7
<1> HIDE DEF j
<1>9. v[w] > 0
  BY <1>7
<1>10. v[w] = 65535 * (256 * j - b)
  BY <1>7, <1>8
<1>11. \A q \in Int : (65535 * q) % 65535 = 0
  OBVIOUS
<1>12. 256 * j - b \in Int
  BY <1>8
<1> QED
  BY <1>9, <1>10, <1>11, <1>12

(* Two bytes put at o. *)
HoldsTwo(r, n, m, o, a, b) ==
  /\ r \in [0..n -> Byte]
  /\ \A i \in 0..n : i \notin {o, o + 1} => r[i] = m[i]
  /\ r[o] = a /\ r[o + 1] = b

(* Putting two bytes changes these two.                                     *)
LEMMA TwoBytesPut ==
  ASSUME NEW n \in Nat, NEW m \in [0..n -> Byte], NEW o \in Nat, o + 1 <= n,
         NEW a \in Byte, NEW b \in Byte
  PROVE  HoldsTwo(Put(m, o, <<a, b>>), n, m, o, a, b)
<1> DEFINE s == <<a, b>>
           r == Put(m, o, s)
<1>1. s \in Seq(Byte) /\ Len(s) = 2 /\ s[1] = a /\ s[2] = b
  OBVIOUS
<1> HIDE DEF s
<1>2. PutInto(r, n, m, o, s)
  BY <1>1, PutIs
<1> HIDE DEF r
<1>3. /\ r \in [0..n -> Byte]
      /\ \A i \in 0..n : i \notin o..(o + 2 - 1) => r[i] = m[i]
      /\ \A j \in 1..2 : o + j - 1 <= n => r[o + j - 1] = s[j]
  BY <1>1, <1>2 DEF PutInto
<1>4. \A i \in 0..n : i \notin {o, o + 1} => r[i] = m[i]
  BY <1>3
<1>5. r[o] = a /\ r[o + 1] = b
  <2>1. 1 \in 1..2 /\ 2 \in 1..2 /\ o + 1 - 1 = o /\ o + 2 - 1 = o + 1 /\ o <= n
    OBVIOUS
  <2>2. r[o + 1 - 1] = s[1] /\ r[o + 2 - 1] = s[2]
    BY <1>3, <2>1
  <2> QED
    BY <1>1, <2>1, <2>2
<1> QED
  BY <1>3, <1>4, <1>5 DEF HoldsTwo, r, s

(* The header of w words of r, which is m but for the checksum, verifies. *)
Verifies(r, w) == \A s : IsSums(s, WordsOf(r, w), w) => s[w] > 0 /\ s[w] % 65535 = 0

(* r is m with a checksum that verifies.                                    *)
HoldsChecksum(r, n, m, w) ==
  /\ r \in [0..n -> Byte]
  /\ \A i \in 0..n : i \notin {24, 25} => r[i] = m[i]
  /\ Verifies(r, w)

(* The checksum of a header whose other words add up to t. *)
IsChecksum(c, t) == c \in Nat /\ c <= 65535 /\ t + c > 0 /\ (t + c) % 65535 = 0

(* ChecksumVerifies for the sums of up to 30 words.                         *)
LEMMA ChecksumOfSum ==
  ASSUME NEW t \in Nat, t <= 1966050
  PROVE  IsChecksum(Complement(t), t)
<1>1. t \div 65536 <= 29
  OBVIOUS
<1> QED
  BY <1>1, ChecksumVerifies DEF IsChecksum

(* The checksum computed over a header verifies and leaves the other bytes. *)
LEMMA ChecksumIs ==
  ASSUME NEW n \in Nat, NEW m \in [0..n -> Byte], NEW w \in Nat, 10 <= w, w <= 30,
         13 + 2 * w <= n, NEW bytes \in Nat, bytes = 2 * w
  PROVE  HoldsChecksum(ChecksumOver(m, bytes), n, m, w)
<1> DEFINE z == Put(m, 24, <<0, 0>>)
           c == Complement(SumOfWords(z, bytes))
           lo == c % 256
           hi == c \div 256
           r == Put(z, 24, <<lo, hi>>)
<1>r. ChecksumOver(m, bytes) = r
  BY DEF ChecksumOver
<1>1. HoldsTwo(z, n, m, 24, 0, 0)
  <2>1. 24 \in Nat /\ 24 + 1 <= n /\ 0 \in Byte
    BY DEF Byte
  <2> QED
    BY <2>1, TwoBytesPut
<1> HIDE DEF z
<1>2. z \in [0..n -> Byte]
  BY <1>1 DEF HoldsTwo
<1>3. PICK s : IsSums(s, WordsOf(z, w), w) /\ SumOfWords(z, bytes) = s[w]
  <2>1. w = bytes \div 2
    OBVIOUS
  <2>2. IsWordSum(SumOfWords(z, bytes), z, w)
    BY <2>1, WordSumIs
  <2> QED
    BY <2>2 DEF IsWordSum
<1>4. ASSUME NEW x \in [0..n -> Byte]
      PROVE  \A i \in 1..w : WordsOf(x, w)[i] \in Nat /\ WordsOf(x, w)[i] <= 65535
  <2> SUFFICES ASSUME NEW i \in 1..w
               PROVE  WordsOf(x, w)[i] \in Nat /\ WordsOf(x, w)[i] <= 65535
    OBVIOUS
  <2>1. IsWord(x, w, i)
    BY WordsAre
  <2>2. PICK a \in Nat, b \in Nat : a <= 255 /\ b <= 255 /\ WordsOf(x, w)[i] = a + 256 * b
    BY <2>1, ZenonT(30) DEF IsWord
  <2> QED
    BY <2>2
<1> DEFINE t == s[w]
<1>5. t \in Nat /\ t <= 65535 * w
  BY <1>2, <1>3, <1>4, SumBounded
<1>6. c = Complement(t)
  BY <1>3
<1> HIDE DEF t, c
<1>7. c \in Nat /\ c <= 65535 /\ t + c > 0 /\ (t + c) % 65535 = 0
  <2>1. t <= 1966050
    BY <1>5
  <2>2. IsChecksum(c, t)
    BY <1>5, <1>6, <2>1, ChecksumOfSum
  <2> QED
    BY <2>2 DEF IsChecksum
<1>8. lo \in Nat /\ hi \in Nat /\ lo <= 255 /\ hi <= 255 /\ c = lo + 256 * hi
  BY <1>7
<1> HIDE DEF lo, hi
<1>9. HoldsTwo(r, n, z, 24, lo, hi)
  <2>1. 24 \in Nat /\ 24 + 1 <= n /\ lo \in Byte /\ hi \in Byte
    BY <1>8 DEF Byte
  <2> QED
    BY <1>2, <2>1, TwoBytesPut
<1> HIDE DEF r
<1>10. /\ r \in [0..n -> Byte] /\ z[24] = 0 /\ z[25] = 0 /\ r[24] = lo /\ r[25] = hi
       /\ \A i \in 0..n : i \notin {24, 25} => r[i] = z[i] /\ z[i] = m[i]
  BY <1>1, <1>9 DEF HoldsTwo
<1>11. \A i \in 0..n : i \notin {24, 25} => r[i] = m[i]
  BY <1>10
<1> DEFINE d == WordsOf(z, w)
           e == WordsOf(r, w)
<1>12. 6 \in 1..w /\ e[6] = d[6] + c
  <2>1. 6 \in 1..w /\ 14 + 2 * (6 - 1) = 24
    OBVIOUS
  <2>2. d[6] = Word(z, 24) /\ e[6] = Word(r, 24)
    BY <2>1 DEF WordsOf
  <2>3. d[6] = 0 /\ e[6] = lo + 256 * hi
    BY <2>2, <1>8, <1>10 DEF Word
  <2> QED
    BY <2>1, <2>3, <1>8
<1>13. \A k \in 1..w : k # 6 => e[k] = d[k]
  <2> SUFFICES ASSUME NEW k \in 1..w, k # 6 PROVE e[k] = d[k]
    OBVIOUS
  <2> DEFINE o == 14 + 2 * (k - 1)
  <2>1. o \in 0..n /\ o + 1 \in 0..n /\ o \notin {24, 25} /\ o + 1 \notin {24, 25}
    OBVIOUS
  <2>2. d[k] = Word(z, o) /\ e[k] = Word(r, o)
    BY DEF WordsOf
  <2> HIDE DEF o
  <2>3. r[o] = z[o] /\ r[o + 1] = z[o + 1]
    BY <1>10, <2>1
  <2> QED
    BY <2>2, <2>3 DEF Word
<1>14. d \in [1..w -> Nat] /\ e \in [1..w -> Nat]
  <2>1. /\ \A i \in 1..w : d[i] \in Nat
        /\ \A i \in 1..w : e[i] \in Nat
    BY <1>2, <1>4, <1>10
  <2> QED
    BY <2>1 DEF WordsOf
<1> HIDE DEF d, e
<1>15. ASSUME NEW v, IsSums(v, e, w) PROVE v[w] > 0 /\ v[w] % 65535 = 0
  <2>1. IsSums(s, d, w)
    BY <1>3 DEF d
  <2>2. Grows(d, e, w, s[w], v[w])
    BY <1>14, <1>15, <2>1, SumsGrow
  <2>3. v[w] = s[w] + c
    BY <1>7, <1>12, <1>13, <2>2 DEF Grows
  <2> QED
    BY <1>7, <2>3 DEF t
<1>16. Verifies(r, w)
  BY <1>15 DEF Verifies, e
<1> QED
  BY <1>r, <1>10, <1>11, <1>16 DEF HoldsChecksum

(* What the receiver computes for such a header. *)
ReceiverAccepts(m) == VerifyingSum(m) > 0 /\ VerifyingSum(m) % 65535 = 0

(* A header that verifies as the CPU reads it does so as it is sent.        *)
LEMMA ReceiverVerifies ==
  ASSUME NEW n \in Nat, NEW m \in [0..n -> Byte], NEW w \in Nat, 13 + 2 * w <= n,
         w = IpLen(m) \div 2, Verifies(m, w)
  PROVE  ReceiverAccepts(m)
<1>1. PICK v : IsSums(v, NetWordsOf(m, w), w) /\ VerifyingSum(m) = v[w]
  BY NetSumIs
<1>2. PICK s : IsSums(s, WordsOf(m, w), w)
  BY SumsExist
<1>3. s[w] > 0 /\ s[w] % 65535 = 0
  BY <1>2 DEF Verifies
<1>4. v[w] > 0 /\ v[w] % 65535 = 0
  BY <1>1, <1>2, <1>3, EitherOrder
<1> QED
  BY <1>1, <1>4 DEF ReceiverAccepts

(* The ten bytes at o are the flags and the counts. *)
HoldsHeader(r, n, m, o, a, b, c) ==
  /\ r \in [0..n -> Byte]
  /\ \A i \in 0..n : i \notin o..(o + 9) => r[i] = m[i]
  /\ r[o] = a /\ r[o + 1] = b /\ r[o + 2] = 0 /\ r[o + 3] = 1
  /\ r[o + 4] = 0 /\ r[o + 5] = c
  /\ r[o + 6] = 0 /\ r[o + 7] = 0 /\ r[o + 8] = 0 /\ r[o + 9] = 0

(* DnsHeader writes its ten bytes and no other.                             *)
LEMMA DnsHeaderIs ==
  ASSUME NEW n \in Nat, NEW m \in [0..n -> Byte], NEW flags, NEW an,
         NEW a \in Byte, NEW b \in Byte, NEW c \in Byte,
         Htons(flags) = <<a, b>>, Htons(an) = <<0, c>>,
         NEW o \in Nat, o = Dns(m) + 2, o + 9 <= n
  PROVE  HoldsHeader(DnsHeader(m, flags, an), n, m, o, a, b, c)
<1> DEFINE s == <<a, b>> \o <<0, 1>> \o <<0, c>> \o <<0, 0, 0, 0>>
           r == Put(m, o, s)
<1>1. Htons(1) = <<0, 1>>
  BY DEF Htons
<1>2. DnsHeader(m, flags, an) = r
  BY <1>1 DEF DnsHeader
<1>3. HoldsCounts(s, a, b, c)
  BY CountsAre
<1> HIDE DEF s
<1>4. s \in Seq(Byte) /\ Len(s) = 10
  BY <1>3 DEF HoldsCounts
<1>5. PutInto(r, n, m, o, s)
  BY <1>4, PutIs
<1> HIDE DEF r
<1>6. /\ r \in [0..n -> Byte]
      /\ \A i \in 0..n : i \notin o..(o + 10 - 1) => r[i] = m[i]
      /\ \A j \in 1..10 : o + j - 1 <= n => r[o + j - 1] = s[j]
  BY <1>4, <1>5 DEF PutInto
<1>7. \A i \in 0..n : i \notin o..(o + 9) => r[i] = m[i]
  BY <1>6
<1>8. \A j \in 0..9 : r[o + j] = s[j + 1]
  <2> SUFFICES ASSUME NEW j \in 0..9 PROVE r[o + j] = s[j + 1]
    OBVIOUS
  <2>1. j + 1 \in 1..10 /\ o + (j + 1) - 1 = o + j /\ o + j <= n
    OBVIOUS
  <2>2. o + (j + 1) - 1 <= n => r[o + (j + 1) - 1] = s[j + 1]
    BY <1>6, <2>1
  <2> QED
    BY <2>1, <2>2
<1>9. /\ r[o] = s[1] /\ r[o + 1] = s[2] /\ r[o + 2] = s[3] /\ r[o + 3] = s[4]
      /\ r[o + 4] = s[5] /\ r[o + 5] = s[6] /\ r[o + 6] = s[7] /\ r[o + 7] = s[8]
      /\ r[o + 8] = s[9] /\ r[o + 9] = s[10]
  <2>1. r[o + 0] = s[1] /\ o + 0 = o
    BY <1>8
  <2> QED
    BY <1>8, <2>1
<1> QED
  BY <1>2, <1>3, <1>6, <1>7, <1>9 DEF HoldsCounts, HoldsHeader

(* The length of a UDP datagram, and a checksum of 0. *)
HoldsLength(s, x) ==
  /\ s \in Seq(Byte) /\ Len(s) = 4
  /\ 256 * s[1] + s[2] = x /\ s[3] = 0 /\ s[4] = 0

(* A length in network order, before a zero checksum.                       *)
LEMMA LengthBytes ==
  ASSUME NEW x \in Nat, x <= 65535
  PROVE  HoldsLength(Htons(x) \o <<0, 0>>, x)
<1> DEFINE a == Htons(x)
           b == <<0, 0>>
           s == a \o b
<1>1. a \in Seq(Byte) /\ Len(a) = 2 /\ 256 * a[1] + a[2] = x
  BY HtonsIs
<1>2. b \in Seq(Byte) /\ Len(b) = 2 /\ b[1] = 0 /\ b[2] = 0
  <2>1. 0 \in Byte
    BY DEF Byte
  <2> QED
    BY <2>1
<1> HIDE DEF a, b
<1>3. Joins(s, a, b)
  BY <1>1, <1>2, ConcatJoins
<1> HIDE DEF s
<1>4. s \in Seq(Byte) /\ Len(s) = 4
  BY <1>1, <1>2, <1>3 DEF Joins
<1>5. s[1] = a[1] /\ s[2] = a[2] /\ s[3] = b[1] /\ s[4] = b[2]
  <2>1. 1 \in 1..2 /\ 2 \in 1..2 /\ 2 + 1 = 3 /\ 2 + 2 = 4
    OBVIOUS
  <2>2. (\A i \in 1..2 : s[i] = a[i]) /\ (\A i \in 1..2 : s[2 + i] = b[i])
    BY <1>1, <1>2, <1>3 DEF Joins
  <2>3. s[1] = a[1] /\ s[2] = a[2] /\ s[2 + 1] = b[1] /\ s[2 + 2] = b[2]
    BY <2>1, <2>2
  <2> QED
    BY <2>1, <2>3
<1>6. 256 * s[1] + s[2] = x /\ s[3] = 0 /\ s[4] = 0
  BY <1>1, <1>2, <1>5
<1> QED
  BY <1>4, <1>6 DEF HoldsLength, s, a, b

(* r is m with the lengths of a packet that ends at end and an IP checksum. *)
HoldsLengths(r, u, end) ==
  256 * r[16] + r[17] = end - 14 /\ 256 * r[u + 4] + r[u + 5] = end - u

(* The same, with the bytes that stay and a header that verifies.           *)
HoldsFinish(r, n, m, u, w, end) ==
  /\ r \in [0..n -> Byte]
  /\ \A i \in 0..n : i \notin {16, 17, 24, 25} /\ i \notin (u + 4)..(u + 7) => r[i] = m[i]
  /\ HoldsLengths(r, u, end) /\ r[u + 6] = 0 /\ r[u + 7] = 0
  /\ Verifies(r, w)

(* Finish states the lengths of a packet that ends at end, and a checksum.  *)
LEMMA FinishIs ==
  ASSUME NEW n \in Nat, NEW m \in [0..n -> Byte], NEW w \in Nat, 10 <= w, w <= 30,
         IpLen(m) = 2 * w, NEW u \in Nat, u = 14 + 2 * w, u + 7 <= n,
         NEW end \in Nat, u <= end, end <= 65535
  PROVE  HoldsFinish(Finish(m, end), n, m, u, w, end)
<1> DEFINE x == end - u
           y == end - 14
           s == Htons(x) \o <<0, 0>>
           t == Htons(y)
           p == Put(m, u + 4, s)
           q == Put(p, 16, t)
           r == IpChecksum(q)
<1>1. x \in Nat /\ x <= 65535 /\ y \in Nat /\ y <= 65535
  OBVIOUS
<1>2. Udp(m) = u
  BY DEF Udp
<1>3. Finish(m, end) = r
  BY <1>2 DEF Finish
<1>x. x = end - u /\ y = end - 14
  OBVIOUS
<1> HIDE DEF x, y
<1>4. s \in Seq(Byte) /\ Len(s) = 4 /\ 256 * s[1] + s[2] = x /\ s[3] = 0 /\ s[4] = 0
  <2>1. HoldsLength(s, x)
    BY <1>1, LengthBytes
  <2> QED
    BY <2>1 DEF HoldsLength
<1>5. t \in Seq(Byte) /\ Len(t) = 2 /\ 256 * t[1] + t[2] = y
  BY <1>1, HtonsIs
<1> HIDE DEF s, t
<1>6. PutInto(p, n, m, u + 4, s)
  BY <1>4, PutIs
<1> HIDE DEF p
<1>7. /\ p \in [0..n -> Byte]
      /\ \A i \in 0..n : i \notin (u + 4)..(u + 4 + 4 - 1) => p[i] = m[i]
      /\ \A j \in 1..4 : u + 4 + j - 1 <= n => p[u + 4 + j - 1] = s[j]
  BY <1>4, <1>6 DEF PutInto
<1>8. \A i \in 0..n : i \notin (u + 4)..(u + 7) => p[i] = m[i]
  BY <1>7
<1>9. p[u + 4] = s[1] /\ p[u + 5] = s[2] /\ p[u + 6] = s[3] /\ p[u + 7] = s[4]
  <2>1. \A j \in 1..4 : u + 4 + j - 1 = u + 3 + j /\ u + 3 + j <= n
    OBVIOUS
  <2>2. ASSUME NEW j \in 1..4 PROVE p[u + 3 + j] = s[j]
    <3>1. u + 4 + j - 1 = u + 3 + j /\ u + 4 + j - 1 <= n
      BY <2>1
    <3>2. p[u + 4 + j - 1] = s[j]
      BY <1>7, <3>1
    <3> QED
      BY <3>1, <3>2
  <2>3. /\ 1 \in 1..4 /\ 2 \in 1..4 /\ 3 \in 1..4 /\ 4 \in 1..4
        /\ u + 3 + 1 = u + 4 /\ u + 3 + 2 = u + 5 /\ u + 3 + 3 = u + 6 /\ u + 3 + 4 = u + 7
    OBVIOUS
  <2>4. /\ p[u + 3 + 1] = s[1] /\ p[u + 3 + 2] = s[2]
        /\ p[u + 3 + 3] = s[3] /\ p[u + 3 + 4] = s[4]
    BY <2>2, <2>3
  <2> QED
    BY <2>3, <2>4
<1>10. PutInto(q, n, p, 16, t)
  BY <1>5, <1>7, PutIs
<1> HIDE DEF q
<1>11. /\ q \in [0..n -> Byte]
       /\ \A i \in 0..n : i \notin 16..(16 + 2 - 1) => q[i] = p[i]
       /\ \A j \in 1..2 : 16 + j - 1 <= n => q[16 + j - 1] = t[j]
  BY <1>5, <1>10 DEF PutInto
<1>12. \A i \in 0..n : i \notin {16, 17} => q[i] = p[i]
  BY <1>11
<1>13. q[16] = t[1] /\ q[17] = t[2]
  <2>1. 1 \in 1..2 /\ 2 \in 1..2 /\ 16 + 1 - 1 = 16 /\ 16 + 2 - 1 = 17 /\ 16 <= n /\ 17 <= n
    OBVIOUS
  <2>2. q[16 + 1 - 1] = t[1] /\ q[16 + 2 - 1] = t[2]
    BY <1>11, <2>1
  <2> QED
    BY <2>1, <2>2
<1>14. IpLen(q) = 2 * w
  <2>1. 14 \in 0..n /\ 14 \notin {16, 17} /\ 14 \notin (u + 4)..(u + 7)
    OBVIOUS
  <2>2. q[14] = m[14]
    BY <1>8, <1>12, <2>1
  <2> QED
    BY <2>2 DEF IpLen
<1>15. HoldsChecksum(r, n, q, w)
  <2> DEFINE k == 2 * w
  <2>1. k \in Nat /\ k = 2 * w /\ 13 + 2 * w <= n
    OBVIOUS
  <2> HIDE DEF k
  <2>2. HoldsChecksum(ChecksumOver(q, k), n, q, w)
    <3>1. q \in [0..n -> Byte]
      BY <1>11
    <3>2. 10 <= w /\ w <= 30 /\ 13 + 2 * w <= n
      BY <2>1
    <3> QED
      BY <2>1, <3>1, <3>2, ChecksumIs
  <2> QED
    BY <1>14, <2>1, <2>2 DEF IpChecksum
<1> HIDE DEF r
<1>16. /\ r \in [0..n -> Byte] /\ Verifies(r, w)
       /\ \A i \in 0..n : i \notin {24, 25} => r[i] = q[i]
  BY <1>15 DEF HoldsChecksum
<1>17. ASSUME NEW i \in 0..n, i \notin {16, 17, 24, 25}, i \notin (u + 4)..(u + 7)
       PROVE  r[i] = m[i]
  BY <1>8, <1>12, <1>16, <1>17
<1>18. r[16] = t[1] /\ r[17] = t[2]
  <2>1. 16 \in 0..n /\ 17 \in 0..n /\ 16 \notin {24, 25} /\ 17 \notin {24, 25}
    OBVIOUS
  <2> QED
    BY <1>13, <1>16, <2>1
<1>19. r[u + 4] = s[1] /\ r[u + 5] = s[2] /\ r[u + 6] = 0 /\ r[u + 7] = 0
  <2>1. \A i \in (u + 4)..(u + 7) : i \in 0..n /\ i \notin {24, 25} /\ i \notin {16, 17}
    OBVIOUS
  <2>2. \A i \in (u + 4)..(u + 7) : r[i] = p[i]
    BY <1>12, <1>16, <2>1
  <2>3. /\ u + 4 \in (u + 4)..(u + 7) /\ u + 5 \in (u + 4)..(u + 7)
        /\ u + 6 \in (u + 4)..(u + 7) /\ u + 7 \in (u + 4)..(u + 7)
    OBVIOUS
  <2> QED
    BY <1>4, <1>9, <2>2, <2>3
<1>20. HoldsLengths(r, u, end)
  BY <1>x, <1>4, <1>5, <1>18, <1>19 DEF HoldsLengths
<1> QED
  BY <1>3, <1>16, <1>17, <1>19, <1>20 DEF HoldsFinish

-----------------------------------------------------------------------------
(* The responses. *)

(* What r has of the packet m that it answers, whose UDP header is at u and *)
(* whose question ends before e: see HoldsSwaps and HoldsHeader.            *)
HoldsResponse(r, n, m, u, w, e, a, b, c) ==
  /\ r \in [0..n -> Byte] /\ Verifies(r, w) /\ r[u + 6] = 0 /\ r[u + 7] = 0
  /\ \A k \in 0..5 : r[k] = m[6 + k] /\ r[6 + k] = m[k]
  /\ \A k \in 0..3 : r[26 + k] = m[30 + k] /\ r[30 + k] = m[26 + k]
  /\ \A k \in 0..1 : r[u + k] = m[u + 2 + k] /\ r[u + 2 + k] = m[u + k]
  /\ r[14] = m[14] /\ r[u + 8] = m[u + 8] /\ r[u + 9] = m[u + 9]
  /\ r[u + 10] = a /\ r[u + 11] = b /\ r[u + 12] = 0 /\ r[u + 13] = 1
  /\ r[u + 14] = 0 /\ r[u + 15] = c
  /\ r[u + 16] = 0 /\ r[u + 17] = 0 /\ r[u + 18] = 0 /\ r[u + 19] = 0
  /\ \A i \in (u + 20)..(e - 1) : r[i] = m[i]

(* What is written into a frame after the headers were made. *)
Elsewhere(r, n, y, u, e) ==
  /\ r \in [0..n -> Byte]
  /\ \A i \in 0..(e - 1) :
       i \notin {16, 17, 24, 25} /\ i \notin (u + 4)..(u + 7) => r[i] = y[i]

(* r was made of m: x by the swaps, y by the DNS header, r by other writes. *)
Made(r, n, m, u, w, e, a, b, c, x, y) ==
  /\ HoldsSwaps(x, n, m, u) /\ HoldsHeader(y, n, x, u + 10, a, b, c)
  /\ Elsewhere(r, n, y, u, e) /\ Verifies(r, w) /\ r[u + 6] = 0 /\ r[u + 7] = 0

(* A frame made in these steps has all that a response needs.               *)
LEMMA ResponseIs ==
  ASSUME NEW n \in Nat, NEW m, NEW x, NEW y, NEW r, NEW w, NEW a, NEW b, NEW c,
         NEW u \in Nat, NEW e \in Nat, 34 <= u, u + 20 <= e, e <= n + 1,
         Made(r, n, m, u, w, e, a, b, c, x, y)
  PROVE  HoldsResponse(r, n, m, u, w, e, a, b, c)
<1>0. /\ HoldsSwaps(x, n, m, u) /\ HoldsHeader(y, n, x, u + 10, a, b, c)
      /\ Elsewhere(r, n, y, u, e) /\ Verifies(r, w) /\ r[u + 6] = 0 /\ r[u + 7] = 0
  BY DEF Made
<1>1. ASSUME NEW i \in 0..(e - 1), i \notin {16, 17, 24, 25}, i \notin (u + 4)..(u + 7),
             i \notin (u + 10)..(u + 19)
      PROVE  r[i] = x[i]
  <2>1. i \in 0..n /\ i \notin (u + 10)..(u + 10 + 9)
    BY <1>1
  <2>2. y[i] = x[i]
    BY <1>0, <2>1 DEF HoldsHeader
  <2> QED
    BY <1>0, <1>1, <2>2 DEF Elsewhere
<1>2. ASSUME NEW k \in 0..5 PROVE r[k] = m[6 + k] /\ r[6 + k] = m[k]
  <2>1. /\ k \in 0..(e - 1) /\ k \notin {16, 17, 24, 25} /\ k \notin (u + 4)..(u + 7)
        /\ k \notin (u + 10)..(u + 19)
    OBVIOUS
  <2> DEFINE q == 6 + k
  <2>2. /\ q \in 0..(e - 1) /\ q \notin {16, 17, 24, 25} /\ q \notin (u + 4)..(u + 7)
        /\ q \notin (u + 10)..(u + 19)
    OBVIOUS
  <2> HIDE DEF q
  <2>3. r[k] = x[k] /\ r[q] = x[q]
    BY <1>1, <2>1, <2>2
  <2>4. x[k] = m[6 + k] /\ x[6 + k] = m[k]
    BY <1>0 DEF HoldsSwaps
  <2> QED
    BY <2>3, <2>4 DEF q
<1>3. ASSUME NEW k \in 0..3 PROVE r[26 + k] = m[30 + k] /\ r[30 + k] = m[26 + k]
  <2> DEFINE p == 26 + k
             q == 30 + k
  <2>1. /\ p \in 0..(e - 1) /\ p \notin {16, 17, 24, 25} /\ p \notin (u + 4)..(u + 7)
        /\ p \notin (u + 10)..(u + 19)
    OBVIOUS
  <2>2. /\ q \in 0..(e - 1) /\ q \notin {16, 17, 24, 25} /\ q \notin (u + 4)..(u + 7)
        /\ q \notin (u + 10)..(u + 19)
    OBVIOUS
  <2> HIDE DEF p, q
  <2>3. r[p] = x[p] /\ r[q] = x[q]
    BY <1>1, <2>1, <2>2
  <2>4. x[26 + k] = m[30 + k] /\ x[30 + k] = m[26 + k]
    BY <1>0 DEF HoldsSwaps
  <2> QED
    BY <2>3, <2>4 DEF p, q
<1>4. ASSUME NEW k \in 0..1 PROVE r[u + k] = m[u + 2 + k] /\ r[u + 2 + k] = m[u + k]
  <2> DEFINE p == u + k
             q == u + 2 + k
  <2>1. /\ p \in 0..(e - 1) /\ p \notin {16, 17, 24, 25} /\ p \notin (u + 4)..(u + 7)
        /\ p \notin (u + 10)..(u + 19)
    OBVIOUS
  <2>2. /\ q \in 0..(e - 1) /\ q \notin {16, 17, 24, 25} /\ q \notin (u + 4)..(u + 7)
        /\ q \notin (u + 10)..(u + 19)
    OBVIOUS
  <2> HIDE DEF p, q
  <2>3. r[p] = x[p] /\ r[q] = x[q]
    BY <1>1, <2>1, <2>2
  <2>4. x[u + k] = m[u + 2 + k] /\ x[u + 2 + k] = m[u + k]
    BY <1>0 DEF HoldsSwaps
  <2> QED
    BY <2>3, <2>4 DEF p, q
<1>5. r[14] = m[14]
  <2>1. /\ 14 \in 0..(e - 1) /\ 14 \notin {16, 17, 24, 25} /\ 14 \notin (u + 4)..(u + 7)
        /\ 14 \notin (u + 10)..(u + 19) /\ 14 \in 12..25
    OBVIOUS
  <2>2. r[14] = x[14]
    BY <1>1, <2>1
  <2>3. x[14] = m[14]
    BY <1>0, <2>1 DEF HoldsSwaps
  <2> QED
    BY <2>2, <2>3
<1>6. ASSUME NEW i \in (u + 8)..(e - 1), i \notin (u + 10)..(u + 19) PROVE r[i] = m[i]
  <2>1. /\ i \in 0..(e - 1) /\ i \notin {16, 17, 24, 25} /\ i \notin (u + 4)..(u + 7)
        /\ i \in (u + 4)..n
    OBVIOUS
  <2>2. r[i] = x[i]
    BY <1>1, <1>6, <2>1
  <2>3. x[i] = m[i]
    BY <1>0, <2>1 DEF HoldsSwaps
  <2> QED
    BY <2>2, <2>3
<1>7. r[u + 8] = m[u + 8] /\ r[u + 9] = m[u + 9]
  <2>1. /\ u + 8 \in (u + 8)..(e - 1) /\ u + 8 \notin (u + 10)..(u + 19)
        /\ u + 9 \in (u + 8)..(e - 1) /\ u + 9 \notin (u + 10)..(u + 19)
    OBVIOUS
  <2> QED
    BY <1>6, <2>1
<1>8. \A i \in (u + 20)..(e - 1) : r[i] = m[i]
  <2>1. \A i \in (u + 20)..(e - 1) : i \in (u + 8)..(e - 1) /\ i \notin (u + 10)..(u + 19)
    OBVIOUS
  <2> QED
    BY <1>6, <2>1
<1>9. \A i \in (u + 10)..(u + 19) : r[i] = y[i]
  <2>1. \A i \in (u + 10)..(u + 19) :
          i \in 0..(e - 1) /\ i \notin {16, 17, 24, 25} /\ i \notin (u + 4)..(u + 7)
    OBVIOUS
  <2> QED
    BY <1>0, <2>1 DEF Elsewhere
<1>10. /\ y[u + 10] = a /\ y[u + 11] = b /\ y[u + 12] = 0 /\ y[u + 13] = 1
       /\ y[u + 14] = 0 /\ y[u + 15] = c
       /\ y[u + 16] = 0 /\ y[u + 17] = 0 /\ y[u + 18] = 0 /\ y[u + 19] = 0
  <2>1. /\ u + 10 + 1 = u + 11 /\ u + 10 + 2 = u + 12 /\ u + 10 + 3 = u + 13
        /\ u + 10 + 4 = u + 14 /\ u + 10 + 5 = u + 15 /\ u + 10 + 6 = u + 16
        /\ u + 10 + 7 = u + 17 /\ u + 10 + 8 = u + 18 /\ u + 10 + 9 = u + 19
    OBVIOUS
  <2> QED
    BY <1>0, <2>1 DEF HoldsHeader
<1>11. /\ u + 10 \in (u + 10)..(u + 19) /\ u + 11 \in (u + 10)..(u + 19)
       /\ u + 12 \in (u + 10)..(u + 19) /\ u + 13 \in (u + 10)..(u + 19)
       /\ u + 14 \in (u + 10)..(u + 19) /\ u + 15 \in (u + 10)..(u + 19)
       /\ u + 16 \in (u + 10)..(u + 19) /\ u + 17 \in (u + 10)..(u + 19)
       /\ u + 18 \in (u + 10)..(u + 19) /\ u + 19 \in (u + 10)..(u + 19)
  OBVIOUS
<1>12. /\ r[u + 10] = a /\ r[u + 11] = b /\ r[u + 12] = 0 /\ r[u + 13] = 1
       /\ r[u + 14] = 0 /\ r[u + 15] = c
       /\ r[u + 16] = 0 /\ r[u + 17] = 0 /\ r[u + 18] = 0 /\ r[u + 19] = 0
  BY <1>9, <1>10, <1>11
<1>13. r \in [0..n -> Byte]
  BY <1>0 DEF Elsewhere
<1> QED
  BY <1>0, <1>2, <1>3, <1>4, <1>5, <1>7, <1>8, <1>12, <1>13 DEF HoldsResponse

(* Where the headers of an IPv4 packet are, in a frame whose last byte is at n. *)
Headers(m, n, l, u, w) ==
  /\ n \in Nat /\ n + 1 <= 65535 /\ m \in [0..n -> Byte]
  /\ l \in Nat /\ l + 63 <= n /\ 145 <= n
  /\ w \in Nat /\ 10 <= w /\ w <= 30 /\ IpLen(m) = 2 * w
  /\ u \in Nat /\ u = 14 + 2 * w /\ u = Udp(m)

(* A packet a client sent has its headers there.                            *)
LEMMA HeadersFound ==
  ASSUME NEW m, NEW l, Received(m, l), IsIpv4(m)
  PROVE  Headers(m, FrameSize - 1, l, Udp(m), IpLen(m) \div 2)
<1> DEFINE k == m[14] % 16
           h == IpLen(m)
<1>1. /\ m \in [0..(FrameSize - 1) -> Byte] /\ l \in Nat /\ l + 64 <= FrameSize
      /\ FrameSize \in Nat /\ 146 <= FrameSize /\ FrameSize <= 65535
      /\ h \in Nat /\ 20 <= h /\ h <= 60
  BY DEF Received
<1>2. h = 4 * k /\ k \in Nat
  <2>1. 14 \in 0..(FrameSize - 1)
    BY <1>1
  <2> DEFINE x == m[14]
  <2>2. x \in Byte
    BY <1>1, <2>1
  <2>3. x \in Nat
    BY <2>2, ByteIs
  <2> HIDE DEF x
  <2>4. x % 16 \in Nat
    BY <2>3
  <2> QED
    BY <2>4 DEF IpLen, x
<1>3. Udp(m) = 14 + h
  BY DEF Udp
<1> HIDE DEF h, k
<1>4. h \div 2 = 2 * k
  BY <1>2
<1>5. /\ h \div 2 \in Nat /\ 10 <= h \div 2 /\ h \div 2 <= 30 /\ h = 2 * (h \div 2)
  BY <1>1, <1>2, <1>4
<1>6. FrameSize - 1 \in Nat /\ FrameSize - 1 + 1 <= 65535 /\ l + 63 <= FrameSize - 1 /\ 145 <= FrameSize - 1
  BY <1>1
<1> QED
  BY <1>1, <1>3, <1>5, <1>6 DEF Headers, h

(* The header of every response. *)
LEMMA HeaderMade ==
  ASSUME NEW m, NEW n, NEW l, NEW u, NEW w, Headers(m, n, l, u, w),
         NEW flags, NEW an, NEW a \in Byte, NEW b \in Byte, NEW c \in Byte,
         Htons(flags) = <<a, b>>, Htons(an) = <<0, c>>
  PROVE  /\ HoldsSwaps(SwapHeaders(m), n, m, u)
         /\ HoldsHeader(DnsHeader(SwapHeaders(m), flags, an), n, SwapHeaders(m), u + 10, a, b, c)
<1> DEFINE x == SwapHeaders(m)
           o == u + 10
<1>1. n \in Nat /\ m \in [0..n -> Byte] /\ u \in Nat /\ u = Udp(m) /\ 34 <= u /\ u + 4 <= n /\ u + 19 <= n
  BY DEF Headers
<1>2. HoldsSwaps(x, n, m, u) /\ Udp(x) = u
  BY <1>1, SwapHeadersAre
<1> HIDE DEF x
<1>3. x \in [0..n -> Byte]
  BY <1>2 DEF HoldsSwaps
<1>4. o \in Nat /\ o = Dns(x) + 2 /\ o + 9 <= n
  BY <1>1, <1>2 DEF Dns
<1> HIDE DEF o
<1>5. HoldsHeader(DnsHeader(x, flags, an), n, x, o, a, b, c)
  BY <1>1, <1>3, <1>4, DnsHeaderIs
<1> QED
  BY <1>2, <1>5 DEF x, o

(* The packet is still one whose headers are where they were. *)
LEMMA HeaderStays ==
  ASSUME NEW m, NEW n, NEW l, NEW u, NEW w, Headers(m, n, l, u, w),
         NEW x, NEW y, NEW a, NEW b, NEW c,
         HoldsSwaps(x, n, m, u), HoldsHeader(y, n, x, u + 10, a, b, c)
  PROVE  y \in [0..n -> Byte] /\ y[14] = m[14]
<1>1. 14 \in 0..n /\ 14 \notin (u + 10)..(u + 10 + 9) /\ 14 \in 12..25
  BY DEF Headers
<1>2. y \in [0..n -> Byte] /\ y[14] = x[14]
  BY <1>1 DEF HoldsHeader
<1>3. x[14] = m[14]
  BY <1>1 DEF HoldsSwaps
<1> QED
  BY <1>2, <1>3

(* process_dns_packet, a type without a template. *)
LEMMA NotImplementedResponse ==
  ASSUME NEW m, NEW n, NEW l, NEW u, NEW w, Headers(m, n, l, u, w),
         NEW e \in Nat, u + 20 <= e, e <= l,
         NEW r, r = Finish(DnsHeader(SwapHeaders(m), 33796, 0), e)
  PROVE  HoldsResponse(r, n, m, u, w, e, 132, 4, 0) /\ HoldsLengths(r, u, e)
<1> DEFINE x == SwapHeaders(m)
           y == DnsHeader(x, 33796, 0)
<1>1. /\ n \in Nat /\ u \in Nat /\ 34 <= u /\ e <= n + 1 /\ u + 7 <= n /\ e <= 65535
      /\ u <= e /\ w \in Nat /\ 10 <= w /\ w <= 30 /\ u = 14 + 2 * w /\ IpLen(m) = 2 * w
  BY DEF Headers
<1>2. HoldsSwaps(x, n, m, u) /\ HoldsHeader(y, n, x, u + 10, 132, 4, 0)
  <2>1. 132 \in Byte /\ 4 \in Byte /\ 0 \in Byte
    BY DEF Byte
  <2>2. Htons(33796) = <<132, 4>> /\ Htons(0) = <<0, 0>>
    BY DEF Htons
  <2> QED
    BY <2>1, <2>2, HeaderMade
<1>3. r = Finish(y, e)
  OBVIOUS
<1> HIDE DEF x, y
<1>4. y \in [0..n -> Byte] /\ IpLen(y) = 2 * w
  <2>1. y \in [0..n -> Byte] /\ y[14] = m[14]
    BY <1>2, HeaderStays
  <2> QED
    BY <1>1, <2>1 DEF IpLen
<1>5. HoldsFinish(r, n, y, u, w, e)
  <2>1. HoldsFinish(Finish(y, e), n, y, u, w, e)
    BY <1>1, <1>4, FinishIs
  <2> QED
    BY <1>3, <2>1
<1>6. r[u + 6] = 0 /\ r[u + 7] = 0 /\ Verifies(r, w) /\ HoldsLengths(r, u, e)
  BY <1>5 DEF HoldsFinish
<1>7. Elsewhere(r, n, y, u, e)
  <2>1. \A i \in 0..(e - 1) : i \in 0..n
    BY <1>1
  <2> QED
    BY <1>5, <2>1 DEF HoldsFinish, Elsewhere
<1>8. HoldsResponse(r, n, m, u, w, e, 132, 4, 0)
  <2>1. Made(r, n, m, u, w, e, 132, 4, 0, x, y)
    BY <1>2, <1>6, <1>7 DEF Made
  <2> QED
    BY <1>1, <2>1, ResponseIs
<1> QED
  BY <1>6, <1>8

(* process_dns_packet, a type with a template: s is the answer. *)
LEMMA AnswerResponse ==
  ASSUME NEW m, NEW n, NEW l, NEW u, NEW w, Headers(m, n, l, u, w),
         NEW e \in Nat, u + 20 <= e, e <= l,
         NEW s, NEW t, HoldsAnswer(s, t), NEW end, end = e + Len(s),
         NEW r, r = Finish(Put(DnsHeader(SwapHeaders(m), 33792, 1), e, s), end)
  PROVE  /\ HoldsResponse(r, n, m, u, w, e, 132, 0, 1) /\ HoldsLengths(r, u, end)
         /\ \A j \in 1..Len(s) : r[e + j - 1] = s[j]
<1> DEFINE x == SwapHeaders(m)
           y == DnsHeader(x, 33792, 1)
           z == Put(y, e, s)
           k == Len(s)
<1>0. s \in Seq(Byte) /\ k \in Nat /\ k <= 28
  BY DEF HoldsAnswer
<1>e. end = e + k /\ k = Len(s)
  OBVIOUS
<1> HIDE DEF k
<1>1. /\ n \in Nat /\ u \in Nat /\ 34 <= u /\ e <= n + 1 /\ u + 7 <= n /\ end <= 65535
      /\ u <= end /\ end \in Nat /\ e + k <= n
      /\ w \in Nat /\ 10 <= w /\ w <= 30 /\ u = 14 + 2 * w /\ IpLen(m) = 2 * w
  BY <1>0, <1>e DEF Headers
<1>2. HoldsSwaps(x, n, m, u) /\ HoldsHeader(y, n, x, u + 10, 132, 0, 1)
  <2>1. 132 \in Byte /\ 1 \in Byte /\ 0 \in Byte
    BY DEF Byte
  <2>2. Htons(33792) = <<132, 0>> /\ Htons(1) = <<0, 1>>
    BY DEF Htons
  <2> QED
    BY <2>1, <2>2, HeaderMade
<1>3. r = Finish(z, end)
  OBVIOUS
<1> HIDE DEF x, y
<1>4. y \in [0..n -> Byte] /\ y[14] = m[14]
  BY <1>2, HeaderStays
<1>5. PutInto(z, n, y, e, s)
  BY <1>0, <1>1, <1>4, PutIs
<1> HIDE DEF z
<1>6. /\ z \in [0..n -> Byte]
      /\ \A i \in 0..n : i \notin e..(e + k - 1) => z[i] = y[i]
      /\ \A j \in 1..k : e + j - 1 <= n => z[e + j - 1] = s[j]
  BY <1>e, <1>5 DEF PutInto
<1>7. IpLen(z) = 2 * w
  <2>1. 14 \in 0..n /\ 14 \notin e..(e + k - 1)
    BY <1>1
  <2>2. z[14] = m[14]
    BY <1>4, <1>6, <2>1
  <2> QED
    BY <1>1, <2>2 DEF IpLen
<1>8. HoldsFinish(r, n, z, u, w, end)
  <2>0. z \in [0..n -> Byte]
    BY <1>6
  <2>1. HoldsFinish(Finish(z, end), n, z, u, w, end)
    BY <1>1, <1>7, <2>0, FinishIs
  <2> QED
    BY <1>3, <2>1
<1>9. /\ r[u + 6] = 0 /\ r[u + 7] = 0 /\ Verifies(r, w) /\ HoldsLengths(r, u, end)
      /\ r \in [0..n -> Byte]
      /\ \A i \in 0..n : i \notin {16, 17, 24, 25} /\ i \notin (u + 4)..(u + 7) => r[i] = z[i]
  BY <1>8 DEF HoldsFinish
<1>10. Elsewhere(r, n, y, u, e)
  <2> SUFFICES ASSUME NEW i \in 0..(e - 1), i \notin {16, 17, 24, 25}, i \notin (u + 4)..(u + 7)
               PROVE  r[i] = y[i]
    BY <1>9 DEF Elsewhere
  <2>1. i \in 0..n /\ i \notin e..(e + k - 1)
    BY <1>0, <1>1
  <2> QED
    BY <1>6, <1>9, <2>1
<1>11. HoldsResponse(r, n, m, u, w, e, 132, 0, 1)
  <2>1. Made(r, n, m, u, w, e, 132, 0, 1, x, y)
    BY <1>2, <1>9, <1>10 DEF Made
  <2> QED
    BY <1>1, <2>1, ResponseIs
<1>12. ASSUME NEW j \in 1..k PROVE r[e + j - 1] = s[j]
  <2> DEFINE i == e + j - 1
  <2>1. i \in 0..n /\ i \notin {16, 17, 24, 25} /\ i \notin (u + 4)..(u + 7) /\ e + j - 1 <= n
    BY <1>0, <1>1
  <2>2. z[i] = s[j]
    BY <1>6, <2>1
  <2> HIDE DEF i
  <2>3. r[i] = z[i]
    BY <1>9, <2>1
  <2> QED
    BY <2>2, <2>3 DEF i
<1> QED
  BY <1>e, <1>9, <1>11, <1>12

(* A header keeps its checksum when only bytes after it change. *)
LEMMA VerifiesStill ==
  ASSUME NEW r, NEW q, NEW w \in Nat, \A i \in 14..(13 + 2 * w) : r[i] = q[i], Verifies(q, w)
  PROVE  Verifies(r, w)
<1>1. ASSUME NEW i \in 1..w PROVE Word(r, 14 + 2 * (i - 1)) = Word(q, 14 + 2 * (i - 1))
  <2> DEFINE o == 14 + 2 * (i - 1)
  <2>1. o \in 14..(13 + 2 * w) /\ o + 1 \in 14..(13 + 2 * w)
    OBVIOUS
  <2> HIDE DEF o
  <2>2. r[o] = q[o] /\ r[o + 1] = q[o + 1]
    BY <2>1
  <2> QED
    BY <2>2 DEF Word, o
<1>2. WordsOf(r, w) = WordsOf(q, w)
  BY <1>1 DEF WordsOf
<1> QED
  BY <1>2 DEF Verifies

(* process_nxdomain_packet: the lengths are those of the query. *)
LEMMA NxDomainResponse ==
  ASSUME NEW m, NEW n, NEW l, NEW u, NEW w, Headers(m, n, l, u, w),
         NEW r, r = Put(IpChecksum(DnsHeader(SwapHeaders(m), 33795, 0)), u + 6, <<0, 0>>)
  PROVE  /\ HoldsResponse(r, n, m, u, w, u + 20, 132, 3, 0)
         /\ r[16] = m[16] /\ r[17] = m[17] /\ r[u + 4] = m[u + 4] /\ r[u + 5] = m[u + 5]
<1> DEFINE x == SwapHeaders(m)
           y == DnsHeader(x, 33795, 0)
           z == IpChecksum(y)
           k == 2 * w
           o == u + 6
<1>1. /\ n \in Nat /\ u \in Nat /\ 34 <= u /\ u + 20 <= n + 1 /\ u + 7 <= n
      /\ w \in Nat /\ 10 <= w /\ w <= 30 /\ u = 14 + k /\ IpLen(m) = k
      /\ k \in Nat /\ k = 2 * w /\ 13 + 2 * w <= n
  BY DEF Headers
<1>2. HoldsSwaps(x, n, m, u) /\ HoldsHeader(y, n, x, u + 10, 132, 3, 0)
  <2>1. 132 \in Byte /\ 3 \in Byte /\ 0 \in Byte
    BY DEF Byte
  <2>2. Htons(33795) = <<132, 3>> /\ Htons(0) = <<0, 0>>
    BY DEF Htons
  <2> QED
    BY <2>1, <2>2, HeaderMade
<1>3. r = Put(z, o, <<0, 0>>)
  OBVIOUS
<1>o. o \in Nat /\ o + 1 <= n /\ o = u + 6
  BY <1>1
<1> HIDE DEF x, y, k, o
<1>4. y \in [0..n -> Byte] /\ IpLen(y) = k
  <2>1. y \in [0..n -> Byte] /\ y[14] = m[14]
    BY <1>2, HeaderStays
  <2> QED
    BY <1>1, <2>1 DEF IpLen
<1>5. HoldsChecksum(z, n, y, w)
  <2>1. HoldsChecksum(ChecksumOver(y, k), n, y, w)
    BY <1>1, <1>4, ChecksumIs
  <2> QED
    BY <1>4, <2>1 DEF IpChecksum
<1> HIDE DEF z
<1>6. /\ z \in [0..n -> Byte] /\ Verifies(z, w)
      /\ \A i \in 0..n : i \notin {24, 25} => z[i] = y[i]
  BY <1>5 DEF HoldsChecksum
<1>7. HoldsTwo(r, n, z, o, 0, 0)
  <2>1. 0 \in Byte /\ z \in [0..n -> Byte]
    BY <1>6 DEF Byte
  <2>2. HoldsTwo(Put(z, o, <<0, 0>>), n, z, o, 0, 0)
    BY <1>1, <1>o, <2>1, TwoBytesPut
  <2> QED
    BY <1>3, <2>2
<1>8. /\ r \in [0..n -> Byte] /\ r[u + 6] = 0 /\ r[u + 7] = 0
      /\ \A i \in 0..n : i \notin {u + 6, u + 7} => r[i] = z[i]
  <2>1. o + 1 = u + 7
    BY <1>1, <1>o
  <2> QED
    BY <1>o, <1>7, <2>1 DEF HoldsTwo
<1>9. Verifies(r, w)
  <2>1. \A i \in 14..(13 + 2 * w) : i \in 0..n /\ i \notin {u + 6, u + 7}
    BY <1>1
  <2>2. \A i \in 14..(13 + 2 * w) : r[i] = z[i]
    BY <1>8, <2>1
  <2> QED
    BY <1>1, <1>6, <2>2, VerifiesStill
<1> DEFINE e == u + 20
<1>e. e \in Nat /\ u + 20 <= e /\ e <= n + 1
  BY <1>1
<1> HIDE DEF e
<1>10. Elsewhere(r, n, y, u, e)
  <2> SUFFICES ASSUME NEW i \in 0..(e - 1), i \notin {16, 17, 24, 25}, i \notin (u + 4)..(u + 7)
               PROVE  r[i] = y[i]
    BY <1>8 DEF Elsewhere
  <2>1. i \in 0..n /\ i \notin {u + 6, u + 7} /\ i \notin {24, 25}
    BY <1>1, <1>e
  <2> QED
    BY <1>6, <1>8, <2>1
<1>11. HoldsResponse(r, n, m, u, w, e, 132, 3, 0)
  <2>1. Made(r, n, m, u, w, e, 132, 3, 0, x, y)
    BY <1>2, <1>8, <1>9, <1>10 DEF Made
  <2> QED
    BY <1>1, <1>e, <2>1, ResponseIs
<1>12. ASSUME NEW i \in {16, 17, u + 4, u + 5} PROVE r[i] = m[i]
  <2>1. /\ i \in 0..n /\ i \notin {u + 6, u + 7} /\ i \notin {24, 25}
        /\ i \notin (u + 10)..(u + 10 + 9)
    BY <1>1
  <2>2. r[i] = z[i] /\ z[i] = y[i]
    BY <1>6, <1>8, <2>1
  <2>3. y[i] = x[i]
    BY <1>2, <2>1 DEF HoldsHeader
  <2>4. i \in 12..25 \/ i \in (u + 4)..n
    BY <1>1
  <2>5. x[i] = m[i]
    <3>1. /\ \A j \in 12..25 : x[j] = m[j]
          /\ \A j \in (u + 4)..n : x[j] = m[j]
      BY <1>2 DEF HoldsSwaps
    <3> QED
      BY <2>4, <3>1
  <2> QED
    BY <2>2, <2>3, <2>5
<1> QED
  BY <1>11, <1>12 DEF e

-----------------------------------------------------------------------------
(* What has been exchanged. *)

(* r has the w bytes at o and at p of m exchanged.                          *)
Exchanged(r, m, o, p, w) ==
  \A k \in 0..(w - 1) : r[o + k] = m[p + k] /\ r[p + k] = m[o + k]

(* The adjacent fields at o and p are v bytes of r, in the other order.     *)
SwapSeen(r, m, o, p, w, v) == Get(r, o, v) = Get(m, p, w) \o Get(m, o, w)

(* Two adjacent fields that were exchanged, read as one.                    *)
LEMMA GetSwapped ==
  ASSUME NEW n \in Nat, NEW m \in [0..n -> Byte], NEW r \in [0..n -> Byte],
         NEW o \in Nat, NEW p \in Nat, NEW w \in Nat, NEW v \in Nat,
         p = o + w, v = 2 * w, o + v <= n + 1,
         Exchanged(r, m, o, p, w)
  PROVE  SwapSeen(r, m, o, p, w, v)
<1> DEFINE x == Get(m, p, w)
           y == Get(m, o, w)
           g == Get(r, o, v)
           s == x \o y
<1>1. p + w <= n + 1 /\ o + w <= n + 1
  OBVIOUS
<1>2. /\ x \in Seq(Byte) /\ Len(x) = w /\ \A k \in 0..(w - 1) : x[k + 1] = m[p + k]
      /\ y \in Seq(Byte) /\ Len(y) = w /\ \A k \in 0..(w - 1) : y[k + 1] = m[o + k]
  <2>1. /\ x \in Seq(Byte) /\ Len(x) = w /\ \A k \in 0..(w - 1) : x[k + 1] = m[p + k]
    <3>1. HoldsGet(x, m, p, w)
      BY <1>1, GetIs
    <3> HIDE DEF x
    <3> QED
      BY <3>1 DEF HoldsGet
  <2>2. /\ y \in Seq(Byte) /\ Len(y) = w /\ \A k \in 0..(w - 1) : y[k + 1] = m[o + k]
    <3>1. HoldsGet(y, m, o, w)
      BY <1>1, GetIs
    <3> HIDE DEF y
    <3> QED
      BY <3>1 DEF HoldsGet
  <2> QED
    BY <2>1, <2>2
<1>3. g \in Seq(Byte) /\ Len(g) = v /\ \A k \in 0..(v - 1) : g[k + 1] = r[o + k]
  <2>1. HoldsGet(g, r, o, v)
    BY GetIs
  <2> HIDE DEF g
  <2> QED
    BY <2>1 DEF HoldsGet
<1> HIDE DEF x, y, g
<1>4. Joins(s, x, y)
  BY <1>2, ConcatJoins
<1> HIDE DEF s
<1>5. /\ s \in Seq(Byte) /\ Len(s) = v
      /\ \A i \in 1..w : s[i] = x[i]
      /\ \A i \in 1..w : s[w + i] = y[i]
  <2>1. Len(x) = w /\ Len(y) = w
    BY <1>2
  <2>2. s \in Seq(Byte) /\ Len(s) = Len(x) + Len(y)
    BY <1>4 DEF Joins
  <2>3. (\A i \in 1..Len(x) : s[i] = x[i]) /\ \A i \in 1..Len(y) : s[Len(x) + i] = y[i]
    BY <1>4 DEF Joins
  <2>4. Len(x) + Len(y) = v
    BY <2>1
  <2> QED
    BY <2>1, <2>2, <2>3, <2>4
<1>6. ASSUME NEW k \in 0..(w - 1) PROVE g[k + 1] = s[k + 1] /\ g[w + k + 1] = s[w + k + 1]
  <2>1. /\ k + 1 \in 1..w /\ k \in 0..(v - 1) /\ w + k \in 0..(v - 1)
        /\ w + k + 1 = w + (k + 1) /\ o + (w + k) = p + k
    OBVIOUS
  <2>2. g[k + 1] = r[o + k] /\ g[w + k + 1] = r[o + (w + k)]
    BY <1>3, <2>1
  <2>3. s[k + 1] = x[k + 1] /\ s[w + (k + 1)] = y[k + 1]
    BY <1>5, <2>1
  <2>4. x[k + 1] = m[p + k] /\ y[k + 1] = m[o + k]
    BY <1>2
  <2>5. r[o + k] = m[p + k] /\ r[p + k] = m[o + k]
    BY DEF Exchanged
  <2> QED
    BY <2>1, <2>2, <2>3, <2>4, <2>5
<1>7. ASSUME NEW i \in 1..v PROVE g[i] = s[i]
  <2>1. CASE i <= w
    <3>1. i - 1 \in 0..(w - 1) /\ i - 1 + 1 = i
      BY <2>1
    <3> QED
      BY <1>6, <3>1
  <2>2. CASE i > w
    <3>1. i - w - 1 \in 0..(w - 1) /\ w + (i - w - 1) + 1 = i
      BY <2>2
    <3> QED
      BY <1>6, <3>1
  <2> QED
    BY <2>1, <2>2
<1>8. g = s
  <2>1. g \in [1..v -> Byte] /\ s \in [1..v -> Byte]
    BY <1>3, <1>5
  <2> QED
    BY <1>7, <2>1
<1> QED
  BY <1>8 DEF SwapSeen, g, s, x, y

(* ReplyDelivered, of the response r of length k to m. *)
Delivered(m, r, k) ==
  /\ Get(r, 0, 12) = Get(m, 6, 6) \o Get(m, 0, 6)
  /\ Get(r, 26, 8) = Get(m, 30, 4) \o Get(m, 26, 4)
  /\ Get(r, Udp(r), 4) = Get(m, Udp(m) + 2, 2) \o Get(m, Udp(m), 2)
  /\ IpEnd(r) <= k
  /\ Ntohs(r, Udp(r) + 4) = IpEnd(r) - Udp(r)
  /\ Ntohs(r, Udp(r) + 6) = 0
  /\ ReceiverAccepts(r)

(* A response that states its lengths reaches the client and verifies.      *)
LEMMA ResponseDelivered ==
  ASSUME NEW m, NEW n, NEW l, NEW u, NEW w, Headers(m, n, l, u, w),
         NEW r, NEW e, NEW a, NEW b, NEW c, HoldsResponse(r, n, m, u, w, e, a, b, c),
         NEW end \in Nat, NEW k \in Nat, end <= k, HoldsLengths(r, u, end)
  PROVE  Delivered(m, r, k) /\ IpEnd(r) = end
<1>1. /\ n \in Nat /\ m \in [0..n -> Byte] /\ 145 <= n
      /\ w \in Nat /\ 10 <= w /\ w <= 30 /\ u \in Nat /\ u = 14 + 2 * w /\ Udp(m) = u
      /\ IpLen(m) = 2 * w
  BY DEF Headers
<1>2. r \in [0..n -> Byte] /\ r[14] = m[14] /\ Verifies(r, w) /\ r[u + 6] = 0 /\ r[u + 7] = 0
  BY DEF HoldsResponse
<1>3. IpLen(r) = 2 * w /\ Udp(r) = u
  <2>1. IpLen(r) = IpLen(m)
    BY <1>2 DEF IpLen
  <2> QED
    BY <1>1, <2>1 DEF Udp
<1>4. Get(r, 0, 12) = Get(m, 6, 6) \o Get(m, 0, 6)
  <2> DEFINE oo == 0
             pp == 6
             ww == 6
             vv == 12
  <2>1. \A j \in 0..5 : r[j] = m[6 + j] /\ r[6 + j] = m[j]
    BY DEF HoldsResponse
  <2>2. Exchanged(r, m, oo, pp, ww)
    <3>1. \A j \in 0..(6 - 1) : j \in 0..5 /\ 0 + j = j
      OBVIOUS
    <3> QED
      BY <2>1, <3>1 DEF Exchanged
  <2>3. /\ oo \in Nat /\ pp \in Nat /\ ww \in Nat /\ vv \in Nat
        /\ pp = oo + ww /\ vv = 2 * ww /\ oo + vv <= n + 1
    BY <1>1
  <2> HIDE DEF oo, pp, ww, vv
  <2>4. SwapSeen(r, m, oo, pp, ww, vv)
    BY <1>1, <1>2, <2>2, <2>3, GetSwapped
  <2> QED
    BY <2>4 DEF SwapSeen, oo, pp, ww, vv
<1>5. Get(r, 26, 8) = Get(m, 30, 4) \o Get(m, 26, 4)
  <2> DEFINE oo == 26
             pp == 30
             ww == 4
             vv == 8
  <2>1. \A j \in 0..3 : r[26 + j] = m[30 + j] /\ r[30 + j] = m[26 + j]
    BY DEF HoldsResponse
  <2>2. Exchanged(r, m, oo, pp, ww)
    <3>1. \A j \in 0..(4 - 1) : j \in 0..3
      OBVIOUS
    <3> QED
      BY <2>1, <3>1 DEF Exchanged
  <2>3. /\ oo \in Nat /\ pp \in Nat /\ ww \in Nat /\ vv \in Nat
        /\ pp = oo + ww /\ vv = 2 * ww /\ oo + vv <= n + 1
    BY <1>1
  <2> HIDE DEF oo, pp, ww, vv
  <2>4. SwapSeen(r, m, oo, pp, ww, vv)
    BY <1>1, <1>2, <2>2, <2>3, GetSwapped
  <2> QED
    BY <2>4 DEF SwapSeen, oo, pp, ww, vv
<1>6. Get(r, u, 4) = Get(m, u + 2, 2) \o Get(m, u, 2)
  <2> DEFINE oo == u
             pp == u + 2
             ww == 2
             vv == 4
  <2>1. \A j \in 0..1 : r[u + j] = m[u + 2 + j] /\ r[u + 2 + j] = m[u + j]
    BY DEF HoldsResponse
  <2>2. Exchanged(r, m, oo, pp, ww)
    <3>1. \A j \in 0..(2 - 1) : j \in 0..1
      OBVIOUS
    <3> QED
      BY <2>1, <3>1 DEF Exchanged
  <2>3. /\ oo \in Nat /\ pp \in Nat /\ ww \in Nat /\ vv \in Nat
        /\ pp = oo + ww /\ vv = 2 * ww /\ oo + vv <= n + 1
    BY <1>1
  <2> HIDE DEF oo, pp, ww, vv
  <2>4. SwapSeen(r, m, oo, pp, ww, vv)
    BY <1>1, <1>2, <2>2, <2>3, GetSwapped
  <2> QED
    BY <2>4 DEF SwapSeen, oo, pp, ww, vv
<1>7. IpEnd(r) = end /\ Ntohs(r, u + 4) = end - u
  <2>1. 256 * r[16] + r[17] = end - 14 /\ 256 * r[u + 4] + r[u + 5] = end - u
    BY DEF HoldsLengths
  <2>2. u + 4 + 1 = u + 5 /\ 16 + 1 = 17
    BY <1>1
  <2>3. Ntohs(r, 16) = end - 14 /\ Ntohs(r, u + 4) = end - u
    BY <2>1, <2>2 DEF Ntohs
  <2> QED
    BY <2>3 DEF IpEnd
<1>8. Ntohs(r, u + 6) = 0
  <2>1. u + 6 + 1 = u + 7
    BY <1>1
  <2> QED
    BY <1>2, <2>1 DEF Ntohs
<1>9. ReceiverAccepts(r)
  <2>1. w = IpLen(r) \div 2 /\ 13 + 2 * w <= n
    BY <1>1, <1>3
  <2> QED
    BY <1>1, <1>2, <2>1, ReceiverVerifies
<1>10. Get(r, Udp(r), 4) = Get(m, Udp(m) + 2, 2) \o Get(m, Udp(m), 2)
  BY <1>1, <1>3, <1>6
<1>11. Ntohs(r, Udp(r) + 4) = IpEnd(r) - Udp(r) /\ Ntohs(r, Udp(r) + 6) = 0
  BY <1>3, <1>7, <1>8
<1>12. IpEnd(r) <= k
  BY <1>7
<1> QED
  BY <1>4, <1>5, <1>7, <1>9, <1>10, <1>11, <1>12 DEF Delivered

-----------------------------------------------------------------------------
(* The question of a response. *)

(* A copy of a name is a name. *)
LEMMA SameName ==
  ASSUME NEW m, NEW r, NEW p \in Nat, NEW z \in Nat, p <= z,
         \A i \in p..z : r[i] = m[i], IsName(m, p, z)
  PROVE  IsName(r, p, z)
<1>1. PICK S : Labels(m, p, z, S)
  BY NameIs
<1>2. m[z] = 0
  BY NameIs
<1>3. z \in p..z /\ r[z] = 0
  <2>1. z \in p..z
    OBVIOUS
  <2> QED
    BY <1>2, <2>1
<1>4. \A i \in S : i \in p..z /\ r[i] = m[i]
  <2>1. \A i \in S : i \in p..(z - 1)
    BY <1>1 DEF Labels
  <2> QED
    BY <2>1
<1>5. Labels(r, p, z, S)
  <2>1. S \subseteq {i \in p..(z - 1) : r[i] \in 1..63}
    <3>1. \A i \in S : i \in p..(z - 1) /\ m[i] \in 1..63
      BY <1>1 DEF Labels
    <3> QED
      BY <1>4, <3>1
  <2>2. p \in S \union {z}
    BY <1>1 DEF Labels
  <2>3. \A i \in S : i + 1 + r[i] \in S \union {z}
    <3>1. \A i \in S : i + 1 + m[i] \in S \union {z}
      BY <1>1 DEF Labels
    <3> QED
      BY <1>4, <3>1
  <2>4. \A j \in (S \union {z}) \ {p} : \E i \in S : i + 1 + r[i] = j
    <3>1. \A j \in (S \union {z}) \ {p} : \E i \in S : i + 1 + m[i] = j
      BY <1>1 DEF Labels
    <3> QED
      BY <1>4, <3>1
  <2> QED
    BY <2>1, <2>2, <2>3, <2>4 DEF Labels
<1> QED
  BY <1>3, <1>5, NameIs

(* The end of a question whose name ends at z. *)
LEMMA QuestionEnds ==
  ASSUME NEW m, NEW d \in Nat, NEW q \in Nat, q = d + 12, NEW k \in Nat,
         BytesIn(m, q, k), NEW z \in q..(k - 5), IsName(m, q, z)
  PROVE  QuestionEnd(m, d, k) = z + 5
<1> DEFINE s == ScanQname(m, q, k)
<1>0. q <= k /\ z \in q..(k - 1)
  OBVIOUS
<1>1. \A y \in q..(k - 1) : IsName(m, q, y) <=> s = y + 1 - q
  <2>1. IsNameLength(s, m, q, k)
    BY <1>0, ScanFinds
  <2> HIDE DEF s
  <2> QED
    BY <2>1 DEF IsNameLength
<1>2. s = z + 1 - q
  BY <1>0, <1>1
<1> HIDE DEF s
<1>3. NameEnds(m, q, k) = {y \in q..(k - 5) : IsName(m, q, y)}
  BY DEF NameEnds
<1>4. ASSUME NEW y \in q..(k - 5), IsName(m, q, y) PROVE y = z
  <2>1. y \in q..(k - 1)
    OBVIOUS
  <2>2. s = y + 1 - q
    BY <1>1, <1>4, <2>1
  <2> QED
    BY <1>2, <2>2
<1>5. NameEnds(m, q, k) = {z}
  BY <1>3, <1>4
<1>6. (CHOOSE y \in NameEnds(m, q, k) : TRUE) = z
  BY <1>5
<1> QED
  BY <1>6 DEF QuestionEnd

(* The end of the question of a packet that fits, and its type. *)
EndOf(m, l)  == Question(m) + ScanQname(m, Question(m), l) + 4
TypeOf(m, l) == Ntohs(m, Question(m) + ScanQname(m, Question(m), l))

(* m has its question at q, up to e, after a UDP header at u.               *)
HasQuestion(m, l, u, q, e) ==
  /\ q \in Nat /\ q = u + 20 /\ e \in Nat /\ e >= q + 5 /\ e <= l
  /\ e - 5 \in Nat /\ IsName(m, q, e - 5) /\ TypeOf(m, l) = Ntohs(m, e - 4)
  /\ QuestionEnd(m, Dns(m), l) = e /\ Dns(m) = u + 8

(* The question that the scan found is the one the packet has.              *)
LEMMA QuestionFound ==
  ASSUME NEW m, NEW l, Received(m, l), IsIpv4(m), Fits(m, l), NEW u, u = Udp(m),
         NEW e, e = EndOf(m, l)
  PROVE  HasQuestion(m, l, u, Question(m), e)
<1> DEFINE q == Question(m)
           n == ScanQname(m, q, l)
           d == Dns(m)
<1>1. q \in Nat /\ q = d + 12 /\ q >= 54 /\ l \in Nat /\ BytesIn(m, q, l)
  BY QuestionIs
<1>2. q < l /\ n > 0 /\ q + n + 4 <= l
  BY DEF Fits
<1>3. e = q + n + 4 /\ TypeOf(m, l) = Ntohs(m, q + n) /\ d = u + 8
  BY DEF EndOf, TypeOf, Dns
<1>4. u \in Nat
  BY DEF Udp, Received
<1> HIDE DEF q, d
<1>5. /\ n = 0 \/ \E z \in q..(l - 1) : n = z + 1 - q
      /\ \A z \in q..(l - 1) : IsName(m, q, z) <=> n = z + 1 - q
  <2>1. IsNameLength(n, m, q, l)
    BY <1>1, <1>2, ScanFinds
  <2> HIDE DEF n
  <2> QED
    BY <2>1 DEF IsNameLength
<1> HIDE DEF n
<1>6. PICK z \in q..(l - 1) : n = z + 1 - q
  BY <1>2, <1>5
<1>7. IsName(m, q, z)
  BY <1>5, <1>6
<1>8. e = z + 5 /\ z \in q..(l - 5) /\ z = e - 5 /\ q + n = e - 4 /\ z \in Nat
  BY <1>1, <1>2, <1>3, <1>6
<1>9. d \in Nat
  BY <1>3, <1>4
<1>10. QuestionEnd(m, d, l) = e
  <2>1. QuestionEnd(m, d, l) = z + 5
    BY <1>1, <1>7, <1>8, <1>9, QuestionEnds
  <2> QED
    BY <1>8, <2>1
<1>11. q = u + 20
  BY <1>1, <1>3, <1>4
<1>12. e \in Nat /\ e >= q + 5 /\ e <= l
  BY <1>1, <1>2, <1>3, <1>8
<1>13. TypeOf(m, l) = Ntohs(m, e - 4) /\ IsName(m, q, e - 5) /\ e - 5 \in Nat
  BY <1>3, <1>7, <1>8
<1>14. HasQuestion(m, l, u, q, e)
  <2>1. QuestionEnd(m, Dns(m), l) = e /\ Dns(m) = u + 8
    BY <1>3, <1>10 DEF d
  <2> QED
    BY <1>1, <1>11, <1>12, <1>13, <2>1 DEF HasQuestion
<1> QED
  BY <1>14 DEF q

(* The response r of length k has the ID and the question of m, the flags a *)
(* and b and c answers.                                                     *)
AnswersTo(m, r, e, k, a, b, c) ==
  LET d == Dns(m)
  IN  /\ Get(r, d, 2) = Get(m, d, 2)
      /\ QuestionEnd(r, d, k) = e
      /\ Get(r, d + 12, e - d - 12) = Get(m, d + 12, e - d - 12)
      /\ r[d + 2] = a /\ r[d + 3] = b /\ Ntohs(r, d + 6) = c
      /\ Get(r, d + 4, 2) = <<0, 1>> /\ Get(r, d + 8, 4) = <<0, 0, 0, 0>>

(* A response has the ID, the question and the counts of its query.         *)
LEMMA ResponseAnswers ==
  ASSUME NEW m, NEW n, NEW l, NEW u, NEW w, Headers(m, n, l, u, w),
         NEW q, NEW e, HasQuestion(m, l, u, q, e),
         NEW r, NEW a, NEW b, NEW c \in Nat, HoldsResponse(r, n, m, u, w, e, a, b, c),
         NEW k \in Nat, e <= k, k <= n + 1
  PROVE  AnswersTo(m, r, e, k, a, b, c)
<1> DEFINE d == Dns(m)
<1>1. /\ n \in Nat /\ u \in Nat /\ l \in Nat
      /\ q \in Nat /\ q = u + 20 /\ e \in Nat /\ e >= q + 5 /\ e <= l
      /\ e - 5 \in Nat /\ IsName(m, q, e - 5) /\ d = u + 8
  <2>1. n \in Nat /\ u \in Nat /\ l \in Nat
    BY DEF Headers
  <2>2. /\ q \in Nat /\ q = u + 20 /\ e \in Nat /\ e >= q + 5 /\ e <= l
        /\ e - 5 \in Nat /\ IsName(m, q, e - 5) /\ d = u + 8
    BY Zenon DEF HasQuestion
  <2> QED
    BY <2>1, <2>2
<1> HIDE DEF d
<1>2. /\ r \in [0..n -> Byte] /\ r[u + 8] = m[u + 8] /\ r[u + 9] = m[u + 9]
      /\ r[u + 10] = a /\ r[u + 11] = b /\ r[u + 12] = 0 /\ r[u + 13] = 1
      /\ r[u + 14] = 0 /\ r[u + 15] = c
      /\ r[u + 16] = 0 /\ r[u + 17] = 0 /\ r[u + 18] = 0 /\ r[u + 19] = 0
      /\ \A i \in (u + 20)..(e - 1) : r[i] = m[i]
  BY DEF HoldsResponse
<1>3. /\ u + 8 = d /\ u + 9 = d + 1 /\ u + 10 = d + 2 /\ u + 11 = d + 3
      /\ u + 12 = d + 4 /\ u + 13 = d + 5 /\ u + 14 = d + 6 /\ u + 15 = d + 7
      /\ u + 16 = d + 8 /\ u + 17 = d + 9 /\ u + 18 = d + 10 /\ u + 19 = d + 11
      /\ u + 20 = q /\ q = d + 12 /\ d \in Nat
  BY <1>1
<1>4. /\ r[d] = m[d] /\ r[d + 1] = m[d + 1] /\ r[d + 2] = a /\ r[d + 3] = b
      /\ r[d + 4] = 0 /\ r[d + 5] = 1 /\ r[d + 6] = 0 /\ r[d + 7] = c
      /\ r[d + 8] = 0 /\ r[d + 9] = 0 /\ r[d + 10] = 0 /\ r[d + 11] = 0
      /\ \A i \in q..(e - 1) : r[i] = m[i]
  BY <1>2, <1>3
<1>5. Get(r, d, 2) = Get(m, d, 2)
  <2>1. ASSUME NEW i \in 1..2 PROVE r[d + i - 1] = m[d + i - 1]
    <3>1. d + i - 1 = d \/ d + i - 1 = d + 1
      BY <1>3
    <3> QED
      BY <1>4, <3>1
  <2> QED
    BY <2>1 DEF Get
<1>6. Get(r, d + 12, e - d - 12) = Get(m, d + 12, e - d - 12)
  <2>1. ASSUME NEW i \in 1..(e - d - 12) PROVE r[d + 12 + i - 1] = m[d + 12 + i - 1]
    <3>1. d + 12 + i - 1 \in q..(e - 1)
      BY <1>1, <1>3
    <3> QED
      BY <1>4, <3>1
  <2> QED
    BY <2>1 DEF Get
<1>7. QuestionEnd(r, d, k) = e
  <2> DEFINE z == e - 5
  <2>1. z \in Nat /\ q <= z /\ z \in q..(k - 5) /\ z + 5 = e /\ IsName(m, q, z)
    BY <1>1
  <2>2. \A i \in q..z : r[i] = m[i]
    <3>1. \A i \in q..z : i \in q..(e - 1)
      BY <1>1, <2>1
    <3> QED
      BY <1>4, <3>1
  <2> HIDE DEF z
  <2>3. IsName(r, q, z)
    BY <1>1, <2>1, <2>2, SameName
  <2>4. BytesIn(r, q, k)
    <3>1. \A i \in q..(k - 1) : i \in 0..n
      BY <1>1
    <3> QED
      BY <1>2, <3>1 DEF BytesIn
  <2>5. QuestionEnd(r, d, k) = z + 5
    <3>1. d \in Nat /\ q \in Nat /\ q = d + 12 /\ z \in q..(k - 5)
      BY <1>1, <1>3, <2>1
    <3> QED
      BY <2>3, <2>4, <3>1, QuestionEnds
  <2> QED
    BY <2>1, <2>5
<1>8. Ntohs(r, d + 6) = c
  <2>1. d + 6 + 1 = d + 7
    BY <1>3
  <2> QED
    BY <1>4, <2>1 DEF Ntohs
<1>9. Get(r, d + 4, 2) = <<0, 1>>
  BY <1>3, <1>4 DEF Get
<1>10. Get(r, d + 8, 4) = <<0, 0, 0, 0>>
  <2> DEFINE o == d + 8
  <2>1. /\ o \in Nat /\ r[o] = 0 /\ r[o + 1] = 0 /\ r[o + 2] = 0 /\ r[o + 3] = 0
    BY <1>3, <1>4
  <2> HIDE DEF o
  <2>2. Get(r, o, 4) = <<0, 0, 0, 0>>
    BY <2>1 DEF Get
  <2> QED
    BY <2>2 DEF o
<1> QED
  BY <1>4, <1>5, <1>6, <1>7, <1>8, <1>9, <1>10 DEF AnswersTo, d

(* What the worker makes of the packet m of length l. *)
NxReply(m) ==
  Put(IpChecksum(DnsHeader(SwapHeaders(m), 33795, 0)), Udp(m) + 6, <<0, 0>>)

AnswerReply(m, e, s) ==
  Finish(Put(DnsHeader(SwapHeaders(m), 33792, 1), e, s), e + Len(s))

NotImplementedReply(m, e) == Finish(DnsHeader(SwapHeaders(m), 33796, 0), e)

(* What a worker has sent is the reply of its function to the packet asked. *)
RepliedInv ==
  LET e == EndOf(asked, query.len)
      t == TypeOf(asked, query.len)
  IN  at = "sent" =>
        /\ fn = "nxdomain" => pkt = NxReply(asked) /\ len = query.len
        /\ fn = "dns" /\ HasTemplate(t) =>
             pkt = AnswerReply(asked, e, Answer(t)) /\ len = e + Len(Answer(t))
        /\ fn = "dns" /\ ~HasTemplate(t) =>
             pkt = NotImplementedReply(asked, e) /\ len = e

(* RepliedInv is an invariant.                                              *)
LEMMA RepliedHolds == Spec => []RepliedInv
<1>1. Init => RepliedInv
  BY DEF Init, RepliedInv
<1>2. AskedInv /\ RepliedInv /\ [Next]_vars => RepliedInv'
  <2> SUFFICES ASSUME AskedInv, RepliedInv, [Next]_vars PROVE RepliedInv'
    OBVIOUS
  <2>1. CASE UNCHANGED vars
    BY <2>1 DEF vars, asked, RepliedInv
  <2>2. at = "worker" =>
          /\ pkt = asked /\ len = query.len
          /\ NextPart = EndOf(asked, query.len) /\ Qtype = TypeOf(asked, query.len)
    <3>1. at = "worker" => pkt = asked /\ len = query.len
      BY DEF AskedInv
    <3> QED
      BY <3>1 DEF NextPart, Qtype, QnameLen, EndOf, TypeOf
  <2>3. CASE Filter
    BY <2>3 DEF Filter, RepliedInv
  <2>4. CASE Reject
    BY <2>4 DEF Reject, RepliedInv
  <2>5. CASE AnswerQuery
    BY <2>2, <2>5 DEF AnswerQuery, Send, RepliedInv, asked, AnswerReply
  <2>6. CASE NotImplemented
    BY <2>2, <2>6 DEF NotImplemented, Send, RepliedInv, asked, NotImplementedReply
  <2>7. CASE RejectShort
    BY <2>7 DEF RejectShort, RepliedInv
  <2>8. CASE NxDomain
    BY <2>2, <2>8 DEF NxDomain, Send, RepliedInv, asked, NxReply
  <2> QED
    BY <2>1, <2>3, <2>4, <2>5, <2>6, <2>7, <2>8 DEF Next
<1> QED
  BY <1>1, <1>2, AskedHolds, PTL DEF Spec

(* The response to an IPv4 query, by what it is. *)
LEMMA DnsReplyIs ==
  ASSUME NEW m, NEW n, NEW l, NEW u, NEW w, Headers(m, n, l, u, w),
         NEW q, NEW e, HasQuestion(m, l, u, q, e)
  PROVE  /\ HoldsResponse(NotImplementedReply(m, e), n, m, u, w, e, 132, 4, 0)
         /\ HoldsLengths(NotImplementedReply(m, e), u, e)
         /\ \A s, t : HoldsAnswer(s, t) =>
              /\ HoldsResponse(AnswerReply(m, e, s), n, m, u, w, e, 132, 0, 1)
              /\ HoldsLengths(AnswerReply(m, e, s), u, e + Len(s))
              /\ \A j \in 1..Len(s) : AnswerReply(m, e, s)[e + j - 1] = s[j]
<1>1. e \in Nat /\ u + 20 <= e /\ e <= l
  <2>1. q \in Nat /\ q = u + 20 /\ e \in Nat /\ e >= q + 5 /\ e <= l
    BY DEF HasQuestion
  <2> QED
    BY <2>1
<1>2. /\ HoldsResponse(NotImplementedReply(m, e), n, m, u, w, e, 132, 4, 0)
      /\ HoldsLengths(NotImplementedReply(m, e), u, e)
  BY <1>1, NotImplementedResponse DEF NotImplementedReply
<1>3. ASSUME NEW s, NEW t, HoldsAnswer(s, t)
      PROVE  /\ HoldsResponse(AnswerReply(m, e, s), n, m, u, w, e, 132, 0, 1)
             /\ HoldsLengths(AnswerReply(m, e, s), u, e + Len(s))
             /\ \A j \in 1..Len(s) : AnswerReply(m, e, s)[e + j - 1] = s[j]
  BY <1>1, <1>3, AnswerResponse DEF AnswerReply
<1> QED
  BY <1>2, <1>3

(* Delivered, of the packet at hand, is the property.                       *)
LEMMA DeliveredIs ==
  ASSUME Delivered(asked, pkt, len)
  PROVE  ReplyDelivered
<1> DEFINE A == Get(pkt, 0, 12) = Get(asked, 6, 6) \o Get(asked, 0, 6)
           B == Get(pkt, 26, 8) = Get(asked, 30, 4) \o Get(asked, 26, 4)
           C == Get(pkt, Udp(pkt), 4)
                  = Get(asked, Udp(asked) + 2, 2) \o Get(asked, Udp(asked), 2)
           D == IpEnd(pkt) <= len
           E == Ntohs(pkt, Udp(pkt) + 4) = IpEnd(pkt) - Udp(pkt)
           F == Ntohs(pkt, Udp(pkt) + 6) = 0
           G == VerifyingSum(pkt) > 0
           H == VerifyingSum(pkt) % 65535 = 0
<1>1. ReplyDelivered <=> (at = "sent" /\ IsIpv4(asked) =>
                            A /\ B /\ C /\ D /\ E /\ F /\ G /\ H)
  BY DEF ReplyDelivered
<1>2. A /\ B /\ C
  BY DEF Delivered
<1>3. D /\ E /\ F
  BY DEF Delivered
<1>4. G /\ H
  BY DEF Delivered, ReceiverAccepts
<1> HIDE DEF A, B, C, D, E, F, G, H
<1> QED
  BY <1>1, <1>2, <1>3, <1>4

(* A response to an IPv4 query reaches the socket that asked. *)
THEOREM DeliveredHolds == Spec => []ReplyDelivered
<1>1. AskedInv /\ RepliedInv => ReplyDelivered
  <2> SUFFICES ASSUME AskedInv, RepliedInv, at = "sent", IsIpv4(asked)
               PROVE  Delivered(asked, pkt, len)
    <3>1. ~(at = "sent" /\ IsIpv4(asked)) => ReplyDelivered
      BY DEF ReplyDelivered
    <3> QED
      BY <3>1, DeliveredIs
  <2> DEFINE m == asked
             l == query.len
             n == FrameSize - 1
             u == Udp(m)
             w == IpLen(m) \div 2
             e == EndOf(m, l)
             t == TypeOf(m, l)
             s == Answer(t)
  <2>1. fn \in {"dns", "nxdomain"} /\ Received(m, l)
    BY DEF AskedInv
  <2>2. Headers(m, n, l, u, w)
    BY <2>1, HeadersFound
  <2>u. u = Udp(m) /\ e = EndOf(m, l)
    OBVIOUS
  <2>3. /\ fn = "nxdomain" => pkt = NxReply(m) /\ len = l
        /\ fn = "dns" /\ HasTemplate(t) => pkt = AnswerReply(m, e, s) /\ len = e + Len(s)
        /\ fn = "dns" /\ ~HasTemplate(t) => pkt = NotImplementedReply(m, e) /\ len = e
    BY DEF RepliedInv
  <2>4. fn = "dns" => Fits(m, l)
    BY DEF AskedInv
  <2>5. IsIpv4(m)
    OBVIOUS
  <2>s. HasTemplate(t) => HoldsAnswer(s, t)
    BY AnswerIs
  <2> HIDE DEF m, l, n, u, w, e, t, s
  <2>6. CASE fn = "nxdomain"
    <3> DEFINE end == IpEnd(m)
               r == NxReply(m)
    <3>1. /\ HoldsResponse(r, n, m, u, w, u + 20, 132, 3, 0)
          /\ r[16] = m[16] /\ r[17] = m[17] /\ r[u + 4] = m[u + 4] /\ r[u + 5] = m[u + 5]
      BY <2>2, <2>u, NxDomainResponse DEF NxReply
    <3> HIDE DEF r
    <3>2. /\ Ntohs(m, 16) \in Nat /\ end <= l /\ l \in Nat
          /\ Ntohs(m, u + 4) = end - u
      BY <2>1, <2>5, <2>u DEF Received
    <3>3. end = 14 + Ntohs(m, 16)
      BY DEF IpEnd
    <3>4. u \in Nat
      BY <2>2 DEF Headers
    <3>5. HoldsLengths(r, u, end)
      <4>1. u + 4 + 1 = u + 5 /\ 16 + 1 = 17
        BY <3>4
      <4>2. Ntohs(m, 16) = 256 * m[16] + m[17] /\ Ntohs(m, u + 4) = 256 * m[u + 4] + m[u + 5]
        BY <4>1 DEF Ntohs
      <4> HIDE DEF end
      <4>3. 256 * m[16] + m[17] = end - 14
        BY <3>2, <3>3, <4>2
      <4> QED
        BY <3>1, <3>2, <4>2, <4>3 DEF HoldsLengths
    <3>6. end \in Nat
      BY <3>2, <3>3
    <3> HIDE DEF end
    <3>7. Delivered(m, r, l)
      BY <2>2, <3>1, <3>2, <3>5, <3>6, ResponseDelivered
    <3> QED
      BY <2>3, <2>6, <3>7 DEF m, r
  <2>7. CASE fn = "dns"
    <3>1. HasQuestion(m, l, u, Question(m), e)
      BY <2>1, <2>4, <2>5, <2>7, <2>u, QuestionFound
    <3>2. e \in Nat /\ e <= e
      BY <3>1 DEF HasQuestion
    <3>3. CASE HasTemplate(t)
      <4>1. HoldsAnswer(s, t)
        BY <2>s, <3>3
      <4>2. /\ HoldsResponse(AnswerReply(m, e, s), n, m, u, w, e, 132, 0, 1)
            /\ HoldsLengths(AnswerReply(m, e, s), u, e + Len(s))
        BY <2>2, <3>1, <4>1, DnsReplyIs
      <4> DEFINE k == e + Len(s)
      <4>3. k \in Nat /\ k <= k
        BY <3>2, <4>1 DEF HoldsAnswer
      <4> HIDE DEF k
      <4>4. Delivered(m, AnswerReply(m, e, s), k)
        BY <2>2, <4>2, <4>3, ResponseDelivered DEF k
      <4> QED
        BY <2>3, <2>7, <3>3, <4>4 DEF m, k
    <3>4. CASE ~HasTemplate(t)
      <4>1. /\ HoldsResponse(NotImplementedReply(m, e), n, m, u, w, e, 132, 4, 0)
            /\ HoldsLengths(NotImplementedReply(m, e), u, e)
        BY <2>2, <3>1, DnsReplyIs
      <4>2. Delivered(m, NotImplementedReply(m, e), e)
        BY <2>2, <3>2, <4>1, ResponseDelivered
      <4> QED
        BY <2>3, <2>7, <3>4, <4>2 DEF m
    <3> QED
      BY <3>3, <3>4
  <2> QED
    BY <2>1, <2>6, <2>7
<1> QED
  BY <1>1, AskedHolds, RepliedHolds, PTL

(* A response of the DNS mode answers the question that was asked. *)
THEOREM MatchesHolds == Spec => []ReplyMatchesQuestion
<1>1. AskedInv /\ RepliedInv => ReplyMatchesQuestion
  <2> SUFFICES ASSUME AskedInv, RepliedInv, at = "sent", fn = "dns", IsIpv4(asked)
               PROVE  ReplyMatchesQuestion
    BY DEF ReplyMatchesQuestion
  <2> DEFINE m == asked
             l == query.len
             n == FrameSize - 1
             u == Udp(m)
             w == IpLen(m) \div 2
             d == Dns(m)
             e == EndOf(m, l)
             t == TypeOf(m, l)
             s == Answer(t)
             r == pkt
             k == len
  <2>1. Received(m, l) /\ Fits(m, l)
    BY DEF AskedInv
  <2>2. Headers(m, n, l, u, w)
    BY <2>1, HeadersFound
  <2>u. u = Udp(m) /\ e = EndOf(m, l)
    OBVIOUS
  <2>3. /\ HasTemplate(t) => r = AnswerReply(m, e, s) /\ k = e + Len(s)
        /\ ~HasTemplate(t) => r = NotImplementedReply(m, e) /\ k = e
    BY DEF RepliedInv
  <2>5. IsIpv4(m)
    OBVIOUS
  <2>s. HasTemplate(t) => HoldsAnswer(s, t)
    BY AnswerIs
  <2>g. (/\ QuestionEnd(m, d, l) = e
         /\ Get(r, d, 2) = Get(m, d, 2)
         /\ QuestionEnd(r, d, k) = e
         /\ Get(r, d + 12, e - d - 12) = Get(m, d + 12, e - d - 12)
         /\ r[d + 2] \div 128 = 1
         /\ <<r[d + 3] % 16, Ntohs(r, d + 6)>> = IF HasTemplate(Ntohs(m, e - 4)) THEN <<0, 1>> ELSE <<4, 0>>
         /\ Get(r, d + 4, 2) = <<0, 1>> /\ Get(r, d + 8, 4) = <<0, 0, 0, 0>>
         /\ Ntohs(r, d + 6) = 0 => IpEnd(r) = e
         /\ Ntohs(r, d + 6) = 1 =>
              /\ Get(r, e, 2) = <<192, 12>>
              /\ Ntohs(r, e + 2) = Ntohs(m, e - 4)
              /\ IpEnd(r) = e + 12 + Ntohs(r, e + 10))
        => ReplyMatchesQuestion
    BY DEF ReplyMatchesQuestion
  <2> HIDE DEF m, l, n, u, w, d, e, t, s, r, k
  <2>6. HasQuestion(m, l, u, Question(m), e)
    BY <2>1, <2>5, <2>u, QuestionFound
  <2>7. /\ QuestionEnd(m, d, l) = e /\ t = Ntohs(m, e - 4) /\ e \in Nat /\ e <= l
    BY <2>6 DEF HasQuestion, d, t
  <2>8. l \in Nat /\ l + 63 <= n /\ n \in Nat
    BY <2>2 DEF Headers
  <2>9. CASE HasTemplate(t)
    <3>1. HoldsAnswer(s, t)
      BY <2>s, <2>9
    <3>2. r = AnswerReply(m, e, s) /\ k = e + Len(s)
      BY <2>3, <2>9
    <3>3. /\ HoldsResponse(r, n, m, u, w, e, 132, 0, 1) /\ HoldsLengths(r, u, k)
          /\ \A j \in 1..Len(s) : r[e + j - 1] = s[j]
      BY <2>2, <2>6, <3>1, <3>2, DnsReplyIs
    <3> DEFINE x == RdLength[t]
    <3>4. /\ Len(s) = 12 + x /\ x \in Nat /\ x <= 16
          /\ s[1] = 192 /\ s[2] = 12 /\ 256 * s[3] + s[4] = t /\ 256 * s[11] + s[12] = x
      BY <3>1 DEF HoldsAnswer
    <3> HIDE DEF x
    <3>5. k \in Nat /\ e <= k /\ k <= n + 1 /\ k <= k /\ k = e + 12 + x
      BY <2>7, <2>8, <3>2, <3>4
    <3>6. AnswersTo(m, r, e, k, 132, 0, 1)
      <4>1. 1 \in Nat
        OBVIOUS
      <4> QED
        BY <2>2, <2>6, <3>3, <3>5, <4>1, ResponseAnswers
    <3>7. IpEnd(r) = k
      BY <2>2, <3>3, <3>5, ResponseDelivered
    <3>8. r[e] = 192 /\ r[e + 1] = 12 /\ 256 * r[e + 2] + r[e + 3] = t /\ 256 * r[e + 10] + r[e + 11] = x
      <4>1. /\ 1 \in 1..Len(s) /\ 2 \in 1..Len(s) /\ 3 \in 1..Len(s) /\ 4 \in 1..Len(s)
            /\ 11 \in 1..Len(s) /\ 12 \in 1..Len(s)
            /\ e + 1 - 1 = e /\ e + 2 - 1 = e + 1 /\ e + 3 - 1 = e + 2 /\ e + 4 - 1 = e + 3
            /\ e + 11 - 1 = e + 10 /\ e + 12 - 1 = e + 11
        BY <2>7, <3>4
      <4>2. /\ r[e + 1 - 1] = s[1] /\ r[e + 2 - 1] = s[2] /\ r[e + 3 - 1] = s[3]
            /\ r[e + 4 - 1] = s[4] /\ r[e + 11 - 1] = s[11] /\ r[e + 12 - 1] = s[12]
        BY <3>3, <4>1
      <4>3. /\ r[e] = s[1] /\ r[e + 1] = s[2] /\ r[e + 2] = s[3]
            /\ r[e + 3] = s[4] /\ r[e + 10] = s[11] /\ r[e + 11] = s[12]
        BY <4>1, <4>2
      <4> QED
        BY <3>4, <4>3
    <3>9. Get(r, e, 2) = <<192, 12>>
      BY <2>7, <3>8 DEF Get
    <3>10. Ntohs(r, e + 2) = t /\ Ntohs(r, e + 10) = x
      <4>1. e + 2 + 1 = e + 3 /\ e + 10 + 1 = e + 11
        BY <2>7
      <4> QED
        BY <3>8, <4>1 DEF Ntohs
    <3>11. /\ Get(r, d, 2) = Get(m, d, 2)
           /\ QuestionEnd(r, d, k) = e
           /\ Get(r, d + 12, e - d - 12) = Get(m, d + 12, e - d - 12)
           /\ r[d + 2] = 132 /\ r[d + 3] = 0 /\ Ntohs(r, d + 6) = 1
           /\ Get(r, d + 4, 2) = <<0, 1>> /\ Get(r, d + 8, 4) = <<0, 0, 0, 0>>
      BY <3>6 DEF AnswersTo, d
    <3>12. r[d + 2] \div 128 = 1 /\ r[d + 3] % 16 = 0
      BY <3>11
    <3>13. <<r[d + 3] % 16, Ntohs(r, d + 6)>> = IF HasTemplate(Ntohs(m, e - 4)) THEN <<0, 1>> ELSE <<4, 0>>
      BY <2>7, <2>9, <3>11, <3>12
    <3> QED
      BY <2>g, <2>7, <3>5, <3>7, <3>9, <3>10, <3>11, <3>12, <3>13
  <2>10. CASE ~HasTemplate(t)
    <3>2. r = NotImplementedReply(m, e) /\ k = e
      BY <2>3, <2>10
    <3>3. HoldsResponse(r, n, m, u, w, e, 132, 4, 0) /\ HoldsLengths(r, u, k)
      BY <2>2, <2>6, <3>2, DnsReplyIs
    <3>5. k \in Nat /\ e <= k /\ k <= n + 1 /\ k <= k
      BY <2>7, <2>8, <3>2
    <3>6. AnswersTo(m, r, e, k, 132, 4, 0)
      <4>1. 0 \in Nat
        OBVIOUS
      <4> QED
        BY <2>2, <2>6, <3>3, <3>5, <4>1, ResponseAnswers
    <3>7. IpEnd(r) = e
      BY <2>2, <3>2, <3>3, <3>5, ResponseDelivered
    <3>11. /\ Get(r, d, 2) = Get(m, d, 2)
           /\ QuestionEnd(r, d, k) = e
           /\ Get(r, d + 12, e - d - 12) = Get(m, d + 12, e - d - 12)
           /\ r[d + 2] = 132 /\ r[d + 3] = 4 /\ Ntohs(r, d + 6) = 0
           /\ Get(r, d + 4, 2) = <<0, 1>> /\ Get(r, d + 8, 4) = <<0, 0, 0, 0>>
      BY <3>6 DEF AnswersTo, d
    <3>12. r[d + 2] \div 128 = 1 /\ r[d + 3] % 16 = 4
      BY <3>11
    <3>13. <<r[d + 3] % 16, Ntohs(r, d + 6)>> = IF HasTemplate(Ntohs(m, e - 4)) THEN <<0, 1>> ELSE <<4, 0>>
      BY <2>7, <2>10, <3>11, <3>12
    <3>14. ~(Ntohs(r, d + 6) = 1)
      BY <3>11
    <3> QED
      BY <2>g, <2>7, <3>7, <3>11, <3>12, <3>13, <3>14
  <2> QED
    BY <2>9, <2>10
<1> QED
  BY <1>1, AskedHolds, RepliedHolds, PTL

-----------------------------------------------------------------------------
(* The state of the log. *)

LogType ==
  /\ thread_fn \in {"dns", "nxdomain", "count"} /\ record_ts \in {1, 2}
  /\ clock \in Times
  /\ launched \subseteq Queues
  /\ recording \in [Queues -> {-1, 0, 1, 2}]
  /\ handled \in [Queues -> Seq(Times)]
  /\ data \in [Queues -> Seq(Times)]
  /\ capacity \in [Queues -> Nat]
  /\ tsMin \in [Queues -> 0..Never]
  /\ tsMax \in [Queues -> Times]
  /\ phase \in {"run", "merge", "done", "failed"}
  /\ cursor \in [Queues -> Nat]
  /\ out \in Seq(Times)

(* What a worker has recorded of the packets it has handled.                *)
KeptMinMax(q) ==
  /\ handled[q] = << >> => tsMin[q] = Never /\ tsMax[q] = 0
  /\ \A i \in 1..Len(handled[q]) : tsMin[q] <= handled[q][i] /\ handled[q][i] <= tsMax[q]
  /\ handled[q] # << >> => /\ \E i \in 1..Len(handled[q]) : handled[q][i] = tsMin[q]
                           /\ \E i \in 1..Len(handled[q]) : handled[q][i] = tsMax[q]

MinMaxInv ==
  \A q \in Queues : record_ts = 2 =>
    IF thread_fn = "nxdomain" \/ recording[q] = -1
    THEN tsMin[q] = 0 /\ tsMax[q] = 0 /\ (recording[q] = -1 => handled[q] = << >>)
    ELSE KeptMinMax(q)

WorkerInv ==
  /\ \A q \in Queues : recording[q] \in {-1, record_ts} \/ (recording[q] = 0 /\ Logging)
  /\ phase # "run" => \A q \in launched : recording[q] # -1

(* A log is in chronological order and not ahead of the clock. *)
DataInv ==
  /\ \A q \in Queues : \A i \in 1..Len(data[q]) : data[q][i] <= clock
  /\ \A q \in Queues : \A j \in 1..Len(data[q]) : \A i \in 1..j : data[q][i] <= data[q][j]

(* The lines that the merge has taken of each log are those of the file.    *)
Taken(t) == [q \in Queues |-> Cardinality({i \in 1..cursor[q] : data[q][i] = t})]

SumOf(d) ==
  LET s[k \in 0..NumQueues] == IF k = 0 THEN 0 ELSE s[k - 1] + d[k]
  IN  s[NumQueues]

CursorInv ==
  /\ phase = "run" => out = << >> /\ \A q \in Queues : cursor[q] = 0
  /\ \A q \in Queues : cursor[q] <= Len(data[q])
  /\ phase = "done" => \A q \in Queues : cursor[q] = Len(data[q])

LinesInv ==
  /\ Len(out) = SumOf(cursor)
  /\ \A t \in Times : Occurrences(out, t) = SumOf(Taken(t))

LogInv == /\ LogType /\ MinMaxInv /\ WorkerInv
          /\ DataInv /\ CursorInv /\ OutSorted /\ LinesInv

-----------------------------------------------------------------------------
(* Extremes *)

(* An element that is nowhere exceeded is the one CHOOSE takes.             *)
LEMMA LowestIs ==
  ASSUME NEW S, S \subseteq Int, NEW x \in S, \A y \in S : x <= y
  PROVE  Lowest(S) = x
<1>1. PICK z \in S : z = Lowest(S) /\ \A y \in S : z <= y
  BY DEF Lowest
<1>2. z <= x /\ x <= z /\ z \in Int /\ x \in Int
  BY <1>1
<1> QED
  BY <1>1, <1>2

(* The same for the greatest.                                               *)
LEMMA HighestIs ==
  ASSUME NEW S, S \subseteq Int, NEW x \in S, \A y \in S : x >= y
  PROVE  Highest(S) = x
<1>1. PICK z \in S : z = Highest(S) /\ \A y \in S : z >= y
  BY DEF Highest
<1>2. z <= x /\ x <= z /\ z \in Int /\ x \in Int
  BY <1>1
<1> QED
  BY <1>1, <1>2

(* A set of times has a first and a last one.                               *)
LEMMA Extremes ==
  ASSUME NEW b \in Nat, NEW S, S \subseteq 0..b, S # {}
  PROVE  /\ Lowest(S) \in S /\ \A y \in S : Lowest(S) <= y
         /\ Highest(S) \in S /\ \A y \in S : Highest(S) >= y
<1>1. S \subseteq Nat
  OBVIOUS
<1>2. \E n \in S : \A k \in S : n <= k
  BY <1>1, LeastElement
<1>3. \E n \in S : \A k \in S : k <= n
  BY GreatestElement
<1>4. \E n \in S : \A k \in S : n >= k
  BY <1>1, <1>3
<1> QED
  BY <1>2, <1>4 DEF Lowest, Highest

(* Of two times.                                                            *)
LEMMA OfTwo ==
  ASSUME NEW a \in Int, NEW b \in Int
  PROVE  /\ Lowest({a, b}) = IF a <= b THEN a ELSE b
         /\ Highest({a, b}) = IF a >= b THEN a ELSE b
<1> DEFINE S == {a, b}
<1>1. S \subseteq Int /\ a \in S /\ b \in S /\ \A y \in S : y = a \/ y = b
  OBVIOUS
<1> HIDE DEF S
<1>2. CASE a <= b
  <2>1. (\A y \in S : a <= y) /\ (\A y \in S : b >= y)
    BY <1>1, <1>2
  <2>2. Lowest(S) = a
    BY <1>1, <2>1, LowestIs
  <2>3. Highest(S) = b
    BY <1>1, <2>1, HighestIs
  <2> QED
    BY <1>2, <2>2, <2>3 DEF S
<1>3. CASE ~(a <= b)
  <2>1. (\A y \in S : b <= y) /\ (\A y \in S : a >= y)
    BY <1>1, <1>3
  <2>2. Lowest(S) = b
    BY <1>1, <2>1, LowestIs
  <2>3. Highest(S) = a
    BY <1>1, <2>1, HighestIs
  <2> QED
    BY <1>3, <2>2, <2>3 DEF S
<1> QED
  BY <1>2, <1>3

-----------------------------------------------------------------------------
(* Sums over the queues *)

(* SumOf is the last of the running sums.                                   *)
LEMMA SumOfIs ==
  ASSUME NEW d
  PROVE  \E s : IsSums(s, d, NumQueues) /\ SumOf(d) = s[NumQueues]
<1>1. NumQueues \in Nat
  BY LogAssumption
<1>2. \E s : s = [k \in 0..NumQueues |-> IF k = 0 THEN 0 ELSE s[k - 1] + d[k]]
  BY <1>1, SumsExist DEF IsSums
<1> DEFINE r == CHOOSE s : s = [k \in 0..NumQueues |-> IF k = 0 THEN 0 ELSE s[k - 1] + d[k]]
<1>3. IsSums(r, d, NumQueues)
  BY <1>2 DEF IsSums
<1>4. SumOf(d) = r[NumQueues]
  BY DEF SumOf
<1> QED
  BY <1>3, <1>4

(* So is the total of the code, of the lengths of the logs.                 *)
LEMMA TotalIs == TotalUpTo[NumQueues] = SumOf([q \in Queues |-> Len(data[q])])
<1> DEFINE d == [q \in Queues |-> Len(data[q])]
<1>1. NumQueues \in Nat
  BY LogAssumption
<1>2. \A k \in 1..NumQueues : d[k] = Len(data[k])
  BY DEF Queues
<1>3. PICK s : s = [k \in 0..NumQueues |-> IF k = 0 THEN 0 ELSE s[k - 1] + d[k]]
  BY <1>1, SumsExist DEF IsSums
<1> HIDE DEF d
<1>4. \A r : [k \in 0..NumQueues |-> IF k = 0 THEN 0 ELSE r[k - 1] + d[k]]
               = [k \in 0..NumQueues |-> IF k = 0 THEN 0 ELSE r[k - 1] + Len(data[k])]
  <2> SUFFICES ASSUME NEW r, NEW k \in 0..NumQueues, k # 0
               PROVE  r[k - 1] + d[k] = r[k - 1] + Len(data[k])
    OBVIOUS
  <2>1. k \in 1..NumQueues
    BY <1>1
  <2> QED
    BY <1>2, <2>1
<1>5. SumOf(d) = (CHOOSE r : r = [k \in 0..NumQueues |->
                                    IF k = 0 THEN 0 ELSE r[k - 1] + Len(data[k])])[NumQueues]
  BY <1>4 DEF SumOf
<1> QED
  BY <1>5 DEF TotalUpTo, d

(* And the occurrences of a time in all the logs.                           *)
LEMMA OccurrencesIs ==
  ASSUME NEW t
  PROVE  OccurrencesUpTo(t) = SumOf([q \in Queues |-> Occurrences(data[q], t)])
<1> DEFINE d == [q \in Queues |-> Occurrences(data[q], t)]
<1>1. NumQueues \in Nat
  BY LogAssumption
<1>2. \A k \in 1..NumQueues : d[k] = Occurrences(data[k], t)
  BY DEF Queues
<1> HIDE DEF d
<1>4. \A r : [k \in 0..NumQueues |-> IF k = 0 THEN 0 ELSE r[k - 1] + d[k]]
               = [k \in 0..NumQueues |->
                    IF k = 0 THEN 0 ELSE r[k - 1] + Occurrences(data[k], t)]
  <2> SUFFICES ASSUME NEW r, NEW k \in 0..NumQueues, k # 0
               PROVE  r[k - 1] + d[k] = r[k - 1] + Occurrences(data[k], t)
    OBVIOUS
  <2>1. k \in 1..NumQueues
    BY <1>1
  <2> QED
    BY <1>2, <2>1
<1>5. SumOf(d) = (CHOOSE r : r = [k \in 0..NumQueues |->
                       IF k = 0 THEN 0 ELSE r[k - 1] + Occurrences(data[k], t)])[NumQueues]
  BY <1>4 DEF SumOf
<1> QED
  BY <1>5 DEF OccurrencesUpTo, d

(* The properties of sums, of SumOf.                                        *)
LEMMA SumOfProperties ==
  ASSUME NEW d \in [Queues -> Nat], NEW e \in [Queues -> Nat]
  PROVE  /\ SumOf(d) \in Nat
         /\ (\A q \in Queues : d[q] = 0) => SumOf(d) = 0
         /\ (\A q \in Queues : d[q] <= e[q]) /\ SumOf(d) >= SumOf(e) => d = e
         /\ \A q \in Queues, a \in Nat :
              e[q] = d[q] + a /\ (\A k \in Queues : k # q => e[k] = d[k])
                => SumOf(e) = SumOf(d) + a
<1>1. NumQueues \in Nat /\ Queues = 1..NumQueues
  BY LogAssumption DEF Queues
<1>2. d \in [1..NumQueues -> Nat] /\ e \in [1..NumQueues -> Nat]
  BY <1>1
<1>3. PICK s : IsSums(s, d, NumQueues) /\ SumOf(d) = s[NumQueues]
  BY SumOfIs
<1>4. PICK r : IsSums(r, e, NumQueues) /\ SumOf(e) = r[NumQueues]
  BY SumOfIs
<1>5. SumOf(d) \in Nat
  <2>1. \A k \in 0..NumQueues : s[k] \in Nat
    BY <1>1, <1>2, <1>3, SumsType
  <2> QED
    BY <1>1, <1>3, <2>1
<1>6. ASSUME \A q \in Queues : d[q] = 0 PROVE SumOf(d) = 0
  BY <1>1, <1>3, <1>6, SumsZero
<1>7. ASSUME \A q \in Queues : d[q] <= e[q], SumOf(d) >= SumOf(e) PROVE d = e
  <2>1. s[NumQueues] >= r[NumQueues]
    BY <1>3, <1>4, <1>7
  <2>2. \A k \in 1..NumQueues : d[k] <= e[k]
    BY <1>1, <1>7
  <2>3. \A k \in 1..NumQueues : d[k] = e[k]
    BY <1>1, <1>2, <1>3, <1>4, <2>1, <2>2, SumsEqual
  <2>4. d = [k \in 1..NumQueues |-> d[k]] /\ e = [k \in 1..NumQueues |-> e[k]]
    BY <1>2
  <2> QED
    BY <2>3, <2>4
<1>8. ASSUME NEW q \in Queues, NEW a \in Nat,
             e[q] = d[q] + a, \A k \in Queues : k # q => e[k] = d[k]
      PROVE  SumOf(e) = SumOf(d) + a
  <2>1. IsSums(s, d, NumQueues) /\ IsSums(r, e, NumQueues)
    BY <1>3, <1>4
  <2>2. Grows(d, e, NumQueues, s[NumQueues], r[NumQueues])
    BY <1>1, <1>2, <2>1, SumsGrow
  <2>3. r[NumQueues] = s[NumQueues] + a
    BY <1>1, <1>8, <2>2 DEF Grows
  <2> QED
    BY <1>3, <1>4, <2>3
<1> QED
  BY <1>5, <1>6, <1>7, <1>8

(* How often a time occurs in a sequence, and what one more line adds.      *)
LEMMA OccurrencesAppend ==
  ASSUME NEW s \in Seq(Times), NEW x \in Times, NEW t \in Times
  PROVE  /\ Occurrences(s, t) \in Nat
         /\ Occurrences(Append(s, x), t) = Occurrences(s, t) + IF x = t THEN 1 ELSE 0
<1> DEFINE A == {i \in 1..Len(s) : s[i] = t}
           B == {i \in 1..Len(Append(s, x)) : Append(s, x)[i] = t}
<1>1. /\ Len(s) \in Nat /\ Len(Append(s, x)) = Len(s) + 1
      /\ \A i \in 1..Len(s) : Append(s, x)[i] = s[i]
      /\ Append(s, x)[Len(s) + 1] = x
  OBVIOUS
<1>2. IsFiniteSet(A) /\ Cardinality(A) \in Nat
  <2>1. IsFiniteSet(1..Len(s)) /\ A \subseteq 1..Len(s)
    BY <1>1, FS_Interval
  <2> QED
    BY <2>1, FS_Subset, FS_CardinalityType
<1>3. Occurrences(s, t) = Cardinality(A) /\ Occurrences(Append(s, x), t) = Cardinality(B)
  BY DEF Occurrences
<1>4. CASE x = t
  <2>1. B = A \cup {Len(s) + 1} /\ Len(s) + 1 \notin A
    BY <1>1, <1>4
  <2> HIDE DEF A, B
  <2>2. Cardinality(B) = Cardinality(A) + 1
    BY <1>2, <2>1, FS_AddElement
  <2> QED
    BY <1>2, <1>3, <1>4, <2>2
<1>5. CASE x # t
  <2>1. B = A
    BY <1>1, <1>5
  <2> HIDE DEF A, B
  <2> QED
    BY <1>2, <1>3, <1>5, <2>1
<1> QED
  BY <1>4, <1>5

-----------------------------------------------------------------------------
(* The invariant *)

(* Every variable keeps its type: no step of a worker or of the merge       *)
(* leaves the logs or the cursors outside their sets.                       *)
LEMMA LogTypeHolds == LogSpec => []LogType
<1>0. /\ MaxClock \in Nat /\ Capacity \in Nat
      /\ WorkerFns \subseteq {"dns", "nxdomain", "count"} /\ Records \subseteq {1, 2}
      /\ 0 \in Times /\ 0 \in 0..Never /\ Never \in 0..Never
      /\ Times \subseteq 0..Never /\ Times \subseteq Int /\ 0..Never \subseteq Int
  BY LogAssumption DEF Times, Never
<1>1. LogInit => LogType
  <2> SUFFICES ASSUME LogInit PROVE LogType
    OBVIOUS
  <2>1. launched \subseteq Queues
    <3>1. NumQueues \in Nat /\ \A k \in 0..NumQueues : 1..k \subseteq 1..NumQueues
      BY LogAssumption
    <3>2. \A k \in 0..NumQueues : launched = 1..k => launched \subseteq Queues
      BY <3>1 DEF Queues
    <3>3. launched = Queues \/ \E k \in 0..NumQueues : launched = 1..k
      BY DEF LogInit
    <3> QED
      BY <3>2, <3>3
  <2>2. << >> \in Seq(Times)
    BY EmptySeq
  <2> QED
    BY <1>0, <2>1, <2>2 DEF LogInit, LogType
<1>2. LogType /\ [LogNext]_logVars => LogType'
  <2> SUFFICES ASSUME LogType, [LogNext]_logVars PROVE LogType'
    OBVIOUS
  <2> USE DEF LogType
  <2>1. CASE Tick
    <3>1. clock' \in Times
      BY <1>0, <2>1 DEF Tick, Times
    <3> QED
      BY <2>1, <3>1 DEF Tick, options, workers
  <2>2. ASSUME NEW q \in Queues, StartWorker(q) PROVE LogType'
    <3>1. recording' \in [Queues -> {-1, 0, 1, 2}]
      BY <2>2 DEF StartWorker
    <3>2. capacity' \in [Queues -> Nat]
      BY <1>0, <2>2, ZenonT(30) DEF StartWorker
    <3>3. tsMin' \in [Queues -> 0..Never]
      BY <1>0, <2>2 DEF StartWorker
    <3> QED
      BY <2>2, <3>1, <3>2, <3>3 DEF StartWorker, options
  <2>3. ASSUME NEW q \in Queues, HandlePacket(q) PROVE LogType'
    <3>1. tsMin' \in [Queues -> 0..Never] /\ tsMax' \in [Queues -> Times]
      <4>1. CASE KeepMinMax(q)
        <5>1. tsMin[q] \in 0..Never /\ tsMax[q] \in Times /\ clock \in Times
          OBVIOUS
        <5>a. tsMin[q] \in Int /\ tsMax[q] \in Int /\ clock \in Int
          BY <1>0, <5>1
        <5>2. /\ Lowest({tsMin[q], clock}) = IF tsMin[q] <= clock THEN tsMin[q] ELSE clock
              /\ Highest({tsMax[q], clock}) = IF tsMax[q] >= clock THEN tsMax[q] ELSE clock
          BY <5>a, OfTwo
        <5>3. Lowest({tsMin[q], clock}) \in 0..Never
          BY <1>0, <5>1, <5>2
        <5>4. Highest({tsMax[q], clock}) \in Times
          BY <1>0, <5>1, <5>2
        <5> QED
          BY <4>1, <5>3, <5>4 DEF KeepMinMax
      <4>2. CASE UNCHANGED <<tsMin, tsMax>>
        BY <4>2
      <4> QED
        BY <2>3, <4>1, <4>2 DEF HandlePacket
    <3>2. handled' \in [Queues -> Seq(Times)]
      BY <2>3 DEF HandlePacket
    <3>3. data' \in [Queues -> Seq(Times)]
      <4>1. Append(data[q], clock) \in Seq(Times)
        OBVIOUS
      <4>2. data' = data \/ data' = [data EXCEPT ![q] = Append(@, clock)]
        BY <2>3 DEF HandlePacket, Log
      <4> QED
        BY <4>1, <4>2
    <3>4. capacity' \in [Queues -> Nat]
      <4>1. capacity[q] \in Nat /\ 2 * capacity[q] \in Nat
        OBVIOUS
      <4>2. capacity' = capacity \/ capacity' = [capacity EXCEPT ![q] = 2 * @]
        BY <2>3 DEF HandlePacket, Log
      <4> QED
        BY <4>1, <4>2
    <3> QED
      BY <2>3, <3>1, <3>2, <3>3, <3>4 DEF HandlePacket, options
  <2>4. CASE Join
    BY <2>4 DEF Join, options, workers
  <2>5. CASE MergeOne
    <3>1. PICK q \in Queues : /\ Best(q)
                              /\ out' = Append(out, data[q][cursor[q] + 1])
                              /\ cursor' = [cursor EXCEPT ![q] = @ + 1]
      BY <2>5 DEF MergeOne
    <3>2. cursor[q] \in Nat /\ cursor[q] < Len(data[q]) /\ data[q] \in Seq(Times)
      BY <3>1 DEF Best
    <3>3. data[q][cursor[q] + 1] \in Times
      <4>1. cursor[q] + 1 \in 1..Len(data[q])
        BY <3>2
      <4> QED
        BY <3>2, <4>1, ElementOfSeq
    <3>4. out' \in Seq(Times)
      BY <3>1, <3>3
    <3>5. cursor' \in [Queues -> Nat]
      BY <3>1, <3>2
    <3> QED
      BY <2>5, <3>4, <3>5 DEF MergeOne, options, workers
  <2>6. CASE Close
    BY <2>6 DEF Close, options, workers
  <2>7. CASE NoCursors
    BY <2>7 DEF NoCursors, options, workers
  <2>8. CASE UNCHANGED logVars
    BY <2>8 DEF logVars, options, workers
  <2> QED
    BY <2>1, <2>2, <2>3, <2>4, <2>5, <2>6, <2>7, <2>8 DEF LogNext
<1> QED
  BY <1>1, <1>2, PTL DEF LogSpec

(* A worker's minimum and maximum are those of the packets it has handled,  *)
(* and the main thread merges only what workers that have started left.     *)
LEMMA RecordedHolds == LogSpec => [](MinMaxInv /\ WorkerInv)
<1>0. 0..Never \subseteq Int /\ Times \subseteq Int
      /\ \A c \in Times : c <= Never /\ 0 <= c
  BY LogAssumption DEF Times, Never
<1>1. LogInit => MinMaxInv /\ WorkerInv
  BY DEF LogInit, MinMaxInv, WorkerInv
<1>2. LogType /\ MinMaxInv /\ WorkerInv /\ [LogNext]_logVars => (MinMaxInv /\ WorkerInv)'
  <2> SUFFICES ASSUME LogType, MinMaxInv, WorkerInv, [LogNext]_logVars
               PROVE  MinMaxInv' /\ WorkerInv'
    OBVIOUS
  <2>0. /\ recording \in [Queues -> {-1, 0, 1, 2}] /\ handled \in [Queues -> Seq(Times)]
        /\ tsMin \in [Queues -> 0..Never] /\ tsMax \in [Queues -> Times]
        /\ clock \in Times /\ record_ts \in {1, 2} /\ launched \subseteq Queues
    BY DEF LogType
  <2>1. CASE UNCHANGED <<options, launched, recording, handled, tsMin, tsMax>>
             /\ (phase' = phase \/ phase # "run")
    BY <2>1 DEF MinMaxInv, WorkerInv, KeptMinMax, options, Logging
  <2>2. ASSUME NEW q \in Queues, StartWorker(q) PROVE MinMaxInv' /\ WorkerInv'
    <3>1. WorkerInv'
      BY <2>0, <2>2 DEF WorkerInv, StartWorker, options, Logging
    <3>2. ASSUME NEW k \in Queues, record_ts = 2
          PROVE  IF thread_fn = "nxdomain" \/ recording'[k] = -1
                 THEN tsMin'[k] = 0 /\ tsMax'[k] = 0 /\ (recording'[k] = -1 => handled'[k] = << >>)
                 ELSE KeptMinMax(k)'
      <4>1. CASE k # q
        <5>1. /\ recording'[k] = recording[k] /\ tsMin'[k] = tsMin[k] /\ tsMax'[k] = tsMax[k]
              /\ handled'[k] = handled[k]
          BY <2>0, <2>2, <4>1 DEF StartWorker
        <5> QED
          BY <3>2, <5>1 DEF MinMaxInv, KeptMinMax
      <4>2. CASE k = q
        <5>1. tsMin[q] = 0 /\ tsMax[q] = 0 /\ handled[q] = << >>
          BY <2>2, <3>2 DEF StartWorker, MinMaxInv
        <5>2. /\ tsMax'[q] = 0 /\ handled'[q] = << >> /\ recording'[q] # -1
              /\ tsMin'[q] = IF thread_fn # "nxdomain" THEN Never ELSE 0
          BY <2>0, <2>2, <3>2, <5>1 DEF StartWorker, Logging
        <5> QED
          BY <4>2, <5>2 DEF KeptMinMax
      <4> QED
        BY <4>1, <4>2
    <3>3. thread_fn' = thread_fn /\ record_ts' = record_ts
      BY <2>2 DEF StartWorker, options
    <3>4. MinMaxInv'
      BY <3>2, <3>3 DEF MinMaxInv
    <3> QED
      BY <3>1, <3>4
  <2>3. ASSUME NEW q \in Queues, HandlePacket(q) PROVE MinMaxInv' /\ WorkerInv'
    <3>0. /\ thread_fn' = thread_fn /\ record_ts' = record_ts /\ recording' = recording
          /\ phase' = phase /\ launched' = launched /\ recording[q] # -1
          /\ handled' = [handled EXCEPT ![q] = Append(@, clock)]
          /\ (thread_fn # "nxdomain" /\ recording[q] = 2) => KeepMinMax(q)
          /\ ~(thread_fn # "nxdomain" /\ recording[q] = 2) => UNCHANGED <<tsMin, tsMax>>
      BY <2>3 DEF HandlePacket, options
    <3>1. WorkerInv'
      BY <3>0 DEF WorkerInv, Logging
    <3>2. ASSUME NEW k \in Queues, record_ts = 2
          PROVE  IF thread_fn = "nxdomain" \/ recording[k] = -1
                 THEN tsMin'[k] = 0 /\ tsMax'[k] = 0 /\ (recording[k] = -1 => handled'[k] = << >>)
                 ELSE KeptMinMax(k)'
      <4>1. CASE k # q
        <5>1. handled'[k] = handled[k]
          BY <2>0, <3>0, <4>1
        <5>2. tsMin'[k] = tsMin[k] /\ tsMax'[k] = tsMax[k]
          BY <2>0, <3>0, <4>1 DEF KeepMinMax
        <5> QED
          BY <3>2, <5>1, <5>2 DEF MinMaxInv, KeptMinMax
      <4>2. CASE k = q /\ thread_fn = "nxdomain"
        BY <2>0, <3>0, <3>2, <4>2 DEF MinMaxInv
      <4>3. CASE k = q /\ thread_fn # "nxdomain"
        <5>1. recording[q] = 2
          BY <3>0, <3>2 DEF WorkerInv, Logging
        <5>2. KeptMinMax(q)
          BY <3>2, <4>3, <5>1 DEF MinMaxInv
        <5>3. /\ tsMin[q] \in 0..Never /\ tsMax[q] \in Times
              /\ tsMin[q] \in Int /\ tsMax[q] \in Int /\ clock \in Int
          BY <1>0, <2>0
        <5>4. /\ tsMin'[q] = IF tsMin[q] <= clock THEN tsMin[q] ELSE clock
              /\ tsMax'[q] = IF tsMax[q] >= clock THEN tsMax[q] ELSE clock
          <6>1. /\ tsMin'[q] = Lowest({tsMin[q], clock})
                /\ tsMax'[q] = Highest({tsMax[q], clock})
            BY <2>0, <3>0, <4>3, <5>1 DEF KeepMinMax
          <6> QED
            BY <5>3, <6>1, OfTwo
        <5>5. /\ handled[q] \in Seq(Times) /\ Len(handled[q]) \in Nat
              /\ handled'[q] = Append(handled[q], clock)
              /\ Len(handled'[q]) = Len(handled[q]) + 1
              /\ handled'[q] # << >>
              /\ handled'[q][Len(handled[q]) + 1] = clock
              /\ \A i \in 1..Len(handled[q]) : /\ handled'[q][i] = handled[q][i]
                                               /\ handled[q][i] \in Times
          BY <2>0, <3>0
        <5>6. \A i \in 1..Len(handled'[q]) : i \in 1..Len(handled[q]) \/ i = Len(handled[q]) + 1
          BY <5>5
        <5>7. /\ tsMin'[q] <= clock /\ tsMin'[q] <= tsMin[q]
              /\ tsMax'[q] >= clock /\ tsMax'[q] >= tsMax[q]
              /\ tsMin'[q] \in Int /\ tsMax'[q] \in Int
          BY <5>3, <5>4
        <5>8. ASSUME NEW i \in 1..Len(handled'[q])
              PROVE  tsMin'[q] <= handled'[q][i] /\ handled'[q][i] <= tsMax'[q]
          <6>1. CASE i = Len(handled[q]) + 1
            BY <5>5, <5>7, <6>1
          <6>2. CASE i \in 1..Len(handled[q])
            <7>1. /\ handled'[q][i] = handled[q][i] /\ handled[q][i] \in Int
                  /\ tsMin[q] <= handled[q][i] /\ handled[q][i] <= tsMax[q]
              BY <1>0, <5>2, <5>5, <6>2 DEF KeptMinMax
            <7> QED
              BY <5>3, <5>7, <7>1
          <6> QED
            BY <5>6, <6>1, <6>2
        <5>9. (\E i \in 1..Len(handled'[q]) : handled'[q][i] = tsMin'[q])
              /\ \E i \in 1..Len(handled'[q]) : handled'[q][i] = tsMax'[q]
          <6>1. Len(handled[q]) + 1 \in 1..Len(handled'[q])
            BY <5>5
          <6>2. \A i \in 1..Len(handled[q]) : i \in 1..Len(handled'[q])
            BY <5>5
          <6>3. CASE handled[q] = << >>
            <7>1. tsMin[q] = Never /\ tsMax[q] = 0
              BY <5>2, <6>3 DEF KeptMinMax
            <7>2. clock <= Never /\ 0 <= clock /\ clock \in Int
              BY <1>0, <2>0
            <7>3. tsMin'[q] = clock /\ tsMax'[q] = clock
              BY <5>3, <5>4, <7>1, <7>2
            <7> QED
              BY <5>5, <6>1, <7>3
          <6>4. CASE handled[q] # << >>
            <7>1. PICK i \in 1..Len(handled[q]) : handled[q][i] = tsMin[q]
              BY <5>2, <6>4 DEF KeptMinMax
            <7>2. PICK j \in 1..Len(handled[q]) : handled[q][j] = tsMax[q]
              BY <5>2, <6>4 DEF KeptMinMax
            <7>3. tsMin'[q] = tsMin[q] \/ tsMin'[q] = clock
              BY <5>4
            <7>4. tsMax'[q] = tsMax[q] \/ tsMax'[q] = clock
              BY <5>4
            <7> QED
              BY <5>5, <6>1, <6>2, <7>1, <7>2, <7>3, <7>4
          <6> QED
            BY <6>3, <6>4
        <5>10. KeptMinMax(q)'
          BY <5>5, <5>8, <5>9 DEF KeptMinMax
        <5> QED
          BY <3>0, <4>3, <5>10
      <4> QED
        BY <4>1, <4>2, <4>3
    <3>3. MinMaxInv'
      BY <3>0, <3>2 DEF MinMaxInv
    <3> QED
      BY <3>1, <3>3
  <2>4. CASE Join
    BY <2>4 DEF Join, MinMaxInv, WorkerInv, KeptMinMax, options, workers, Logging
  <2>5. CASE Tick \/ MergeOne \/ Close \/ NoCursors \/ UNCHANGED logVars
    <3>1. UNCHANGED <<options, launched, recording, handled, tsMin, tsMax>>
             /\ (phase' = phase \/ phase # "run")
      BY <2>5 DEF Tick, MergeOne, Close, NoCursors, logVars, workers
    <3> QED
      BY <2>1, <3>1
  <2> QED
    BY <2>2, <2>3, <2>4, <2>5 DEF LogNext
<1> QED
  BY <1>1, <1>2, LogTypeHolds, PTL DEF LogSpec

(* A log is written in the order of the clock, and the merge takes its      *)
(* entries in that order.                                                   *)
LEMMA OrderHolds == LogSpec => [](DataInv /\ OutSorted /\ (phase = "run" => out = << >>))
<1> DEFINE Inv == DataInv /\ OutSorted /\ (phase = "run" => out = << >>)
<1>0. Times \subseteq Int
  BY DEF Times
<1>1. LogInit => Inv
  BY DEF LogInit, DataInv, OutSorted
<1>2. LogType /\ Inv /\ [LogNext]_logVars => Inv'
  <2> SUFFICES ASSUME LogType, Inv, [LogNext]_logVars PROVE Inv'
    OBVIOUS
  <2>0. /\ data \in [Queues -> Seq(Times)] /\ cursor \in [Queues -> Nat] /\ out \in Seq(Times)
        /\ clock \in Int
        /\ \A q \in Queues : /\ data[q] \in Seq(Times) /\ Len(data[q]) \in Nat
                             /\ \A i \in 1..Len(data[q]) : data[q][i] \in Int
    <3>1. \A q \in Queues : data[q] \in Seq(Times)
      BY DEF LogType
    <3>2. \A q \in Queues : \A i \in 1..Len(data[q]) : data[q][i] \in Times
      BY <3>1, ElementOfSeq
    <3>3. \A q \in Queues : \A i \in 1..Len(data[q]) : data[q][i] \in Int
      BY <1>0, <3>2
    <3>4. \A q \in Queues : Len(data[q]) \in Nat
      BY <3>1
    <3>5. clock \in Int
      BY <1>0 DEF LogType
    <3> QED
      BY <3>1, <3>3, <3>4, <3>5 DEF LogType
  <2>1. ASSUME UNCHANGED <<data, cursor, out>>, phase' = phase \/ phase' # "run",
               clock' = clock \/ clock' = clock + 1
        PROVE  Inv'
    <3>1. DataInv'
      <4>1. clock' >= clock /\ clock' \in Int
        BY <2>0, <2>1
      <4>2. \A q \in Queues : \A i \in 1..Len(data[q]) : data[q][i] <= clock'
        <5> SUFFICES ASSUME NEW q \in Queues, NEW i \in 1..Len(data[q])
                     PROVE  data[q][i] <= clock'
          OBVIOUS
        <5>1. data[q][i] <= clock /\ data[q][i] \in Int
          BY <2>0 DEF DataInv
        <5> QED
          BY <2>0, <4>1, <5>1
      <4> QED
        BY <2>1, <4>2 DEF DataInv
    <3> QED
      BY <2>1, <3>1 DEF OutSorted
  <2>2. ASSUME NEW q \in Queues, StartWorker(q) PROVE Inv'
    BY <2>1, <2>2 DEF StartWorker
  <2>3. ASSUME NEW q \in Queues, HandlePacket(q) PROVE Inv'
    <3>0. /\ phase = "run" /\ phase' = phase /\ out = << >> /\ out' = out /\ clock' = clock
          /\ (data' = data \/ data' = [data EXCEPT ![q] = Append(@, clock)])
      BY <2>3 DEF HandlePacket, Log
    <3>1. OutSorted'
      BY <3>0 DEF OutSorted
    <3>2. DataInv'
      <4>1. ASSUME NEW k \in Queues
            PROVE  /\ \A i \in 1..Len(data'[k]) : data'[k][i] <= clock
                   /\ \A j \in 1..Len(data'[k]) : \A i \in 1..j : data'[k][i] <= data'[k][j]
        <5>1. CASE data'[k] = data[k]
          BY <5>1 DEF DataInv
        <5>2. CASE data'[k] # data[k]
          <6>1. data'[k] = Append(data[k], clock)
            BY <2>0, <3>0, <5>2
          <6>2. /\ Len(data'[k]) = Len(data[k]) + 1 /\ data'[k][Len(data[k]) + 1] = clock
                /\ \A i \in 1..Len(data[k]) : data'[k][i] = data[k][i]
            BY <2>0, <6>1
          <6>3. \A i \in 1..Len(data'[k]) : i \in 1..Len(data[k]) \/ i = Len(data[k]) + 1
            BY <2>0, <6>2
          <6>4. ASSUME NEW i \in 1..Len(data'[k]) PROVE data'[k][i] <= clock
            <7>1. CASE i = Len(data[k]) + 1
              BY <2>0, <6>2, <7>1
            <7>2. CASE i \in 1..Len(data[k])
              BY <6>2, <7>2 DEF DataInv
            <7> QED
              BY <6>3, <7>1, <7>2
          <6>5. ASSUME NEW j \in 1..Len(data'[k]), NEW i \in 1..j
                PROVE  data'[k][i] <= data'[k][j]
            <7>1. CASE j = Len(data[k]) + 1
              <8>1. i \in 1..Len(data'[k]) /\ data'[k][j] = clock
                BY <2>0, <6>2, <7>1
              <8> QED
                BY <6>4, <8>1
            <7>2. CASE j \in 1..Len(data[k])
              <8>1. i \in 1..Len(data[k])
                BY <2>0, <7>2
              <8> QED
                BY <6>2, <7>2, <8>1 DEF DataInv
            <7> QED
              BY <6>3, <7>1, <7>2
          <6> QED
            BY <6>4, <6>5
        <5> QED
          BY <5>1, <5>2
      <4> QED
        BY <3>0, <4>1 DEF DataInv
    <3> QED
      BY <3>0, <3>1, <3>2
  <2>4. CASE MergeOne
    <3>1. PICK q \in Queues : /\ Best(q)
                              /\ out' = Append(out, data[q][cursor[q] + 1])
                              /\ cursor' = [cursor EXCEPT ![q] = @ + 1]
      BY <2>4 DEF MergeOne
    <3> DEFINE x == data[q][cursor[q] + 1]
    <3>2. data' = data /\ phase' = phase /\ phase # "run" /\ clock' = clock
      BY <2>4 DEF MergeOne, workers
    <3>3. cursor[q] \in Nat /\ cursor[q] + 1 \in 1..Len(data[q]) /\ x \in Int /\ x \in Times
      BY <2>0, <3>1, ElementOfSeq DEF Best
    <3>4. /\ Len(out) \in Nat /\ Len(out') = Len(out) + 1 /\ out'[Len(out) + 1] = x
          /\ \A i \in 1..Len(out) : out'[i] = out[i]
      BY <2>0, <3>1, <3>3
    <3>5. \A i \in 1..Len(out') - 1 : out'[i] <= out'[i + 1]
      <4> SUFFICES ASSUME NEW i \in 1..Len(out') - 1 PROVE out'[i] <= out'[i + 1]
        OBVIOUS
      <4>1. CASE i = Len(out)
        <5>1. out # << >> /\ out'[i] = out[Len(out)] /\ out'[i + 1] = x
          BY <2>0, <3>4, <4>1
        <5>2. cursor[q] + 1 \in cursor[q] + 1 .. Len(data[q])
          BY <2>0, <3>3
        <5> QED
          BY <5>1, <5>2 DEF OutSorted
      <4>2. CASE i # Len(out)
        <5>1. i \in 1..Len(out) - 1 /\ out'[i] = out[i] /\ out'[i + 1] = out[i + 1]
          BY <3>4, <4>2
        <5> QED
          BY <5>1 DEF OutSorted
      <4> QED
        BY <4>1, <4>2
    <3>6. ASSUME NEW k \in Queues, NEW i \in cursor'[k] + 1 .. Len(data[k])
          PROVE  x <= data[k][i]
      <4>1. CASE k = q
        <5>1. i \in 1..Len(data[q]) /\ cursor[q] + 1 \in 1..i
          BY <2>0, <3>1, <3>3, <4>1
        <5> QED
          BY <4>1, <5>1 DEF DataInv
      <4>2. CASE k # q
        <5>1. cursor[k] \in Nat /\ cursor'[k] = cursor[k]
          BY <2>0, <3>1, <4>2
        <5>2. i \in 1..Len(data[k]) /\ cursor[k] + 1 \in 1..i /\ cursor[k] < Len(data[k])
              /\ cursor[k] + 1 \in 1..Len(data[k])
          BY <2>0, <5>1
        <5>3. x < data[k][cursor[k] + 1] \/ x = data[k][cursor[k] + 1]
          BY <3>1, <5>2 DEF Best
        <5>4. data[k][cursor[k] + 1] <= data[k][i]
          BY <5>2 DEF DataInv
        <5>5. data[k][cursor[k] + 1] \in Int /\ data[k][i] \in Int
          BY <2>0, <5>2
        <5> QED
          BY <3>3, <5>3, <5>4, <5>5
      <4> QED
        BY <4>1, <4>2
    <3>7. out'[Len(out')] = x
      BY <3>4
    <3> HIDE DEF x
    <3>8. OutSorted'
      BY <3>2, <3>5, <3>6, <3>7 DEF OutSorted
    <3>9. DataInv'
      BY <3>2 DEF DataInv
    <3> QED
      BY <3>2, <3>8, <3>9
  <2>5. CASE Tick
    BY <2>1, <2>5 DEF Tick, workers
  <2>6. CASE Join \/ Close \/ NoCursors \/ UNCHANGED logVars
    BY <2>1, <2>6 DEF Join, Close, NoCursors, logVars, workers
  <2> QED
    BY <2>2, <2>3, <2>4, <2>5, <2>6 DEF LogNext
<1> QED
  BY <1>1, <1>2, LogTypeHolds, PTL DEF LogSpec

(* The types, as the sums need them.                                        *)
SumTypes ==
  /\ cursor \in [Queues -> Nat]
  /\ \A t \in Times : Taken(t) \in [Queues -> Nat]
  /\ \A q \in Queues : data[q] \in Seq(Times) /\ Len(data[q]) \in Nat /\ cursor[q] \in Nat
  /\ out \in Seq(Times) /\ Len(out) \in Nat

(* They follow from those of the variables.                                 *)
LEMMA SumTypesHold == LogType => SumTypes
<1> SUFFICES ASSUME LogType PROVE SumTypes
  OBVIOUS
<1>1. /\ \A q \in Queues : data[q] \in Seq(Times) /\ Len(data[q]) \in Nat /\ cursor[q] \in Nat
      /\ cursor \in [Queues -> Nat] /\ out \in Seq(Times) /\ Len(out) \in Nat
  BY DEF LogType
<1>2. ASSUME NEW t \in Times, NEW q \in Queues
      PROVE  Cardinality({i \in 1..cursor[q] : data[q][i] = t}) \in Nat
  <2>1. IsFiniteSet(1..cursor[q])
    BY <1>1, FS_Interval
  <2> QED
    BY <2>1, FS_Subset, FS_CardinalityType
<1>3. \A t \in Times : Taken(t) \in [Queues -> Nat]
  BY <1>2 DEF Taken
<1> QED
  BY <1>1, <1>3 DEF SumTypes

Unmerged == out = << >> /\ \A q \in Queues : cursor[q] = 0

(* Nothing is taken before the merge.                                       *)
LEMMA NothingTaken == LogType /\ Unmerged => LinesInv
<1> SUFFICES ASSUME LogType, Unmerged PROVE LinesInv
  OBVIOUS
<1>1. SumOf(cursor) = 0
  BY SumTypesHold, SumOfProperties DEF SumTypes, Unmerged
<1>2. ASSUME NEW t \in Times PROVE Occurrences(out, t) = SumOf(Taken(t))
  <2>1. \A q \in Queues : Taken(t)[q] = 0
    <3>1. \A q \in Queues : {i \in 1..cursor[q] : data[q][i] = t} = {}
      BY DEF Unmerged
    <3> QED
      BY <3>1, FS_EmptySet DEF Taken
  <2>2. SumOf(Taken(t)) = 0
    <3>1. Taken(t) \in [Queues -> Nat]
      BY SumTypesHold DEF SumTypes
    <3> QED
      BY <2>1, <3>1, SumOfProperties
  <2>3. {i \in 1..Len(out) : out[i] = t} = {}
    BY DEF Unmerged
  <2> QED
    BY <2>2, <2>3, FS_EmptySet DEF Occurrences
<1> QED
  BY <1>1, <1>2 DEF LinesInv, Unmerged

(* What the cursors have passed is what the file holds, time by time, and   *)
(* the merge closes the file only when all of them have passed everything.  *)
LEMMA LinesHold == LogSpec => [](CursorInv /\ LinesInv)
<1>b. ASSUME Len(out') = SumOf(cursor'),
             \A t \in Times : Occurrences(out', t) = SumOf(Taken(t)')
      PROVE  LinesInv'
  BY <1>b DEF LinesInv, SumOf
<1>c. ASSUME UNCHANGED <<data, cursor, out>>, LinesInv PROVE LinesInv'
  <2>1. \A t \in Times : Taken(t)' = Taken(t)
    BY <1>c DEF Taken
  <2> QED
    BY <1>b, <1>c, <2>1 DEF LinesInv
<1>1. LogInit /\ LogType => CursorInv /\ LinesInv
  <2> SUFFICES ASSUME LogInit, LogType PROVE CursorInv /\ LinesInv
    OBVIOUS
  <2>1. out = << >> /\ \A q \in Queues : cursor[q] = 0
    BY DEF LogInit
  <2>2. phase = "run" /\ \A q \in Queues : cursor[q] <= Len(data[q])
    BY DEF LogInit
  <2> QED
    BY <2>1, <2>2, NothingTaken DEF CursorInv, Unmerged
<1>2. LogType /\ LogType' /\ CursorInv /\ LinesInv /\ [LogNext]_logVars
        => (CursorInv /\ LinesInv)'
  <2> SUFFICES ASSUME LogType, LogType', CursorInv, LinesInv, [LogNext]_logVars
               PROVE  CursorInv' /\ LinesInv'
    OBVIOUS
  <2>0. SumTypes /\ SumTypes'
    BY SumTypesHold, PTL
  <2> USE DEF SumTypes
  <2>1. ASSUME UNCHANGED <<data, cursor, out>>, phase' = phase \/ phase' \in {"merge", "failed"}
        PROVE  CursorInv' /\ LinesInv'
    <3>1. CursorInv'
      BY <2>1 DEF CursorInv
    <3> QED
      BY <1>c, <2>1, <3>1
  <2>2. ASSUME NEW q \in Queues, StartWorker(q) PROVE CursorInv' /\ LinesInv'
    BY <2>1, <2>2 DEF StartWorker
  <2>3. ASSUME NEW q \in Queues, HandlePacket(q) PROVE CursorInv' /\ LinesInv'
    <3>1. /\ phase = "run" /\ phase' = phase /\ out' = << >> /\ cursor' = cursor
          /\ \A k \in Queues : cursor'[k] = 0
      BY <2>3 DEF HandlePacket, CursorInv
    <3>2. CursorInv'
      <4>1. \A k \in Queues : data'[k] \in Seq(Times)
        BY DEF LogType
      <4>2. \A k \in Queues : 0 <= Len(data'[k])
        BY <4>1
      <4> QED
        BY <3>1, <4>2 DEF CursorInv
    <3>3. LinesInv'
      <4>1. Unmerged'
        BY <3>1 DEF Unmerged
      <4>2. LogType'
        OBVIOUS
      <4> QED
        BY <4>1, <4>2, NothingTaken, PTL
    <3> QED
      BY <3>2, <3>3
  <2>4. CASE MergeOne
    <3>1. PICK q \in Queues : /\ Best(q)
                              /\ out' = Append(out, data[q][cursor[q] + 1])
                              /\ cursor' = [cursor EXCEPT ![q] = @ + 1]
      BY <2>4 DEF MergeOne
    <3> DEFINE x == data[q][cursor[q] + 1]
    <3>2. data' = data /\ phase' = phase /\ phase = "merge"
      BY <2>4 DEF MergeOne, workers
    <3>3. cursor[q] \in Nat /\ cursor[q] + 1 \in 1..Len(data[q]) /\ x \in Times
      <4>1. cursor[q] \in Nat /\ cursor[q] + 1 \in 1..Len(data[q]) /\ data[q] \in Seq(Times)
        BY <2>0, <3>1 DEF Best
      <4> QED
        BY <4>1, ElementOfSeq
    <3>4. /\ cursor' \in [Queues -> Nat] /\ cursor'[q] = cursor[q] + 1
          /\ \A k \in Queues : k # q => cursor'[k] = cursor[k]
      BY <2>0, <3>1
    <3>5. CursorInv'
      <4>1. \A k \in Queues : cursor'[k] <= Len(data[k])
        <5> TAKE k \in Queues
        <5>1. CASE k = q
          BY <2>0, <3>3, <3>4, <5>1
        <5>2. CASE k # q
          BY <3>4, <5>2 DEF CursorInv
        <5> QED
          BY <5>1, <5>2
      <4> QED
        BY <3>2, <4>1 DEF CursorInv
    <3>6. SumOf(cursor') = SumOf(cursor) + 1 /\ SumOf(cursor) \in Nat
      <4>1. cursor \in [Queues -> Nat]
        BY <2>0
      <4>2. /\ SumOf(cursor) \in Nat
            /\ \A k \in Queues, a \in Nat :
                 cursor'[k] = cursor[k] + a /\ (\A j \in Queues : j # k => cursor'[j] = cursor[j])
                   => SumOf(cursor') = SumOf(cursor) + a
        BY <3>4, <4>1, SumOfProperties
      <4> QED
        BY <3>4, <4>2
    <3>7. Len(out') = Len(out) + 1
      BY <2>0, <3>1, <3>3
    <3>8. ASSUME NEW t \in Times PROVE Occurrences(out', t) = SumOf(Taken(t)')
      <4> DEFINE A(k) == {i \in 1..cursor[k] : data[k][i] = t}
                 B(k) == {i \in 1..cursor'[k] : data[k][i] = t}
                 a == IF x = t THEN 1 ELSE 0
                 d == Taken(t)
                 e == [k \in Queues |-> Cardinality(B(k))]
      <4>1. e = Taken(t)' /\ d = [k \in Queues |-> Cardinality(A(k))]
        BY <3>2 DEF Taken
      <4>2. d \in [Queues -> Nat]
        BY <2>0
      <4>3. Cardinality(B(q)) = Cardinality(A(q)) + a
        <5>1. IsFiniteSet(A(q)) /\ Cardinality(A(q)) \in Nat
          <6>1. IsFiniteSet(1..cursor[q])
            BY <3>3, FS_Interval
          <6>2. A(q) \subseteq 1..cursor[q]
            OBVIOUS
          <6> QED
            BY <6>1, <6>2, FS_Subset, FS_CardinalityType
        <5>2. CASE x = t
          <6>1. B(q) = A(q) \cup {cursor[q] + 1} /\ cursor[q] + 1 \notin A(q)
            BY <3>3, <3>4, <5>2
          <6> HIDE DEF A, B
          <6>2. Cardinality(B(q)) = Cardinality(A(q)) + 1
            BY <5>1, <6>1, FS_AddElement
          <6> QED
            BY <5>2, <6>2
        <5>3. CASE x # t
          <6>1. B(q) = A(q)
            BY <3>3, <3>4, <5>3
          <6> HIDE DEF A, B
          <6> QED
            BY <5>1, <5>3, <6>1
        <5> QED
          BY <5>2, <5>3
      <4>4. \A k \in Queues : k # q => B(k) = A(k)
        BY <3>4
      <4>5. Taken(t)' \in [Queues -> Nat]
        BY <2>0
      <4>6. a \in Nat /\ Occurrences(out', t) = Occurrences(out, t) + a
            /\ Occurrences(out, t) \in Nat
        BY <2>0, <3>1, <3>3, OccurrencesAppend, ZenonT(30)
      <4> HIDE DEF A, B, x, a
      <4>7. e[q] = d[q] + a /\ \A k \in Queues : k # q => e[k] = d[k]
        BY <4>1, <4>3, <4>4
      <4> HIDE DEF d, e
      <4>8. SumOf(e) = SumOf(d) + a
        BY <4>1, <4>2, <4>5, <4>6, <4>7, SumOfProperties
      <4>9. Occurrences(out, t) = SumOf(d)
        BY DEF LinesInv, d
      <4> QED
        BY <4>1, <4>6, <4>8, <4>9
    <3>9. LinesInv'
      <4>1. Len(out') = SumOf(cursor')
        BY <3>6, <3>7 DEF LinesInv
      <4>2. \A t \in Times : Occurrences(out', t) = SumOf(Taken(t)')
        BY <3>8
      <4> QED
        BY <1>b, <4>1, <4>2
    <3> QED
      BY <3>5, <3>9
  <2>5. CASE Close
    <3> DEFINE d == [q \in Queues |-> Len(data[q])]
    <3>1. d \in [Queues -> Nat] /\ \A q \in Queues : cursor[q] <= d[q]
      BY <2>0 DEF CursorInv
    <3>2. SumOf(cursor) >= SumOf(d)
      BY <2>5, TotalIs DEF Close, Written, LinesInv
    <3> HIDE DEF d
    <3>3. cursor = d
      BY <2>0, <3>1, <3>2, SumOfProperties
    <3>4. \A q \in Queues : cursor[q] = Len(data[q])
      BY <3>3 DEF d
    <3>5. UNCHANGED <<data, cursor, out>> /\ phase' = "done"
      BY <2>5 DEF Close, workers
    <3>6. CursorInv'
      BY <3>4, <3>5 DEF CursorInv
    <3>7. LinesInv'
      BY <1>c, <3>5
    <3> QED
      BY <3>6, <3>7
  <2>6. CASE Tick \/ Join \/ NoCursors \/ UNCHANGED logVars
    <3>1. UNCHANGED <<data, cursor, out>> /\ (phase' = phase \/ phase' \in {"merge", "failed"})
      BY <2>6 DEF Tick, Join, NoCursors, logVars, workers
    <3> QED
      BY <2>1, <3>1
  <2> QED
    BY <2>2, <2>3, <2>4, <2>5, <2>6 DEF LogNext
<1> QED
  BY <1>1, <1>2, LogTypeHolds, PTL DEF LogSpec

(* The timestamps file is the chronological merge of the workers' logs: no  *)
(* line is older than the one before it or than one still to come, and the  *)
(* finished file holds every logged time as often as it was logged, for any *)
(* number of queues and packets and whatever allocations fail.              *)
THEOREM MergeExactHolds == LogSpec => []MergeExact
<1>1. CursorInv /\ LinesInv /\ OutSorted => MergeExact
  <2> SUFFICES ASSUME CursorInv, LinesInv, phase = "done", NEW t \in Times
               PROVE  Occurrences(out, t) = OccurrencesUpTo(t)
    BY DEF MergeExact, OutComplete
  <2>1. Taken(t) = [q \in Queues |-> Occurrences(data[q], t)]
    BY DEF CursorInv, Taken, Occurrences
  <2> QED
    BY <2>1, OccurrencesIs DEF LinesInv
<1> QED
  BY <1>1, LinesHold, OrderHolds, PTL

-----------------------------------------------------------------------------
(* The window of the report *)

(* The window from the extremes over the queues.                            *)
LEMMA WindowIs ==
  ASSUME NEW a \in 0..Never, NEW b \in Times, a <= b \/ b = 0,
         \A q \in Queues : StatMin(q) \in Int /\ a <= StatMin(q),
         \A q \in Queues : StatMax(q) \in Int /\ b >= StatMax(q),
         \E q \in Queues : StatMin(q) = a,
         \E q \in Queues : StatMax(q) = b
  PROVE  Window = IF a < b THEN b - a ELSE 0
<1> DEFINE S == {StatMin(q) : q \in Queues} \union {Never}
           T == {StatMax(q) : q \in Queues} \union {0}
<1>0. a \in Int /\ b \in Int /\ a <= Never /\ b >= 0 /\ Never \in Int
  BY LogAssumption DEF Never, Times
<1>1. S \subseteq Int /\ a \in S /\ \A y \in S : a <= y
  BY <1>0
<1>2. T \subseteq Int /\ b \in T /\ \A y \in T : b >= y
  BY <1>0
<1>3. Window = IF Lowest(S) < Highest(T) THEN Highest(T) - Lowest(S) ELSE 0
  BY DEF Window
<1> HIDE DEF S, T
<1>4. Lowest(S) = a
  BY <1>1, LowestIs
<1>5. Highest(T) = b
  BY <1>2, HighestIs
<1> QED
  BY <1>3, <1>4, <1>5

(* With -T the report shows the time from the first to the last packet over *)
(* all queues, and nothing for the NXDOMAIN worker; with -t that of the     *)
(* logged packets, if every queue has logged one.                           *)
THEOREM WindowExactHolds == LogSpec => []WindowExact
<1>1. LogType /\ MinMaxInv /\ WorkerInv /\ DataInv => WindowExact
  <2> SUFFICES ASSUME LogType, MinMaxInv, WorkerInv, DataInv, Joined PROVE WindowExact
    BY DEF WindowExact
  <2>0. /\ Times \subseteq Int /\ Times \subseteq 0..Never /\ 0 \in Times /\ Never \in 0..Never
        /\ Never \in Int /\ MaxClock \in Nat /\ Times = 0..MaxClock /\ Queues # {}
        /\ 0 \in 0..Never /\ \A x \in Times : x <= Never /\ 0 <= x
    BY LogAssumption DEF Times, Never, Queues
  <2>1. \A q \in Queues : /\ data[q] \in Seq(Times) /\ Len(data[q]) \in Nat
                          /\ handled[q] \in Seq(Times) /\ Len(handled[q]) \in Nat
                          /\ tsMin[q] \in 0..Never /\ tsMax[q] \in Times
    BY DEF LogType
  <2>2. record_ts \in {1, 2} /\ thread_fn \in {"dns", "nxdomain", "count"}
    BY DEF LogType
  <2>3. \A q \in Queues : recording[q] # -1
    BY DEF Joined, WorkerInv
  <2>4. CASE record_ts = 2 /\ thread_fn = "nxdomain"
    <3>1. \A q \in Queues : StatMin(q) = 0 /\ StatMax(q) = 0
      BY <2>4 DEF MinMaxInv, StatMin, StatMax
    <3>2. Window = IF 0 < 0 THEN 0 - 0 ELSE 0
      BY <2>0, <3>1, WindowIs
    <3> QED
      BY <2>4, <3>2 DEF WindowExact
  <2>5. CASE record_ts = 2 /\ thread_fn # "nxdomain"
    <3>1. \A q \in Queues : /\ StatMin(q) = tsMin[q] /\ StatMax(q) = tsMax[q]
                            /\ KeptMinMax(q)
      BY <2>3, <2>5 DEF MinMaxInv, StatMin, StatMax
    <3>2. AllHandled \subseteq Times
      <4>1. \A q \in Queues : \A i \in 1..Len(handled[q]) : handled[q][i] \in Times
        BY <2>1, ElementOfSeq
      <4> QED
        BY <4>1 DEF AllHandled
    <3>3. CASE AllHandled = {}
      <4>1. \A q \in Queues : handled[q] = << >>
        <5> SUFFICES ASSUME NEW q \in Queues, handled[q] # << >> PROVE FALSE
          OBVIOUS
        <5>1. 1 \in 1..Len(handled[q])
          BY <2>1
        <5>2. handled[q][1] \in {handled[q][i] : i \in 1..Len(handled[q])}
          BY <5>1
        <5>3. handled[q][1] \in AllHandled
          BY <5>2 DEF AllHandled
        <5> QED
          BY <3>3, <5>3
      <4>2. \A q \in Queues : StatMin(q) = Never /\ StatMax(q) = 0
        BY <3>1, <4>1 DEF KeptMinMax
      <4>3. Window = IF Never < 0 THEN 0 - Never ELSE 0
        BY <2>0, <4>2, WindowIs
      <4>4. ~(Never < 0)
        BY <2>0
      <4> QED
        BY <2>5, <3>3, <4>3, <4>4 DEF WindowExact, TrueWindow
    <3>4. CASE AllHandled # {}
      <4> DEFINE a == Lowest(AllHandled)
                 b == Highest(AllHandled)
      <4>1. /\ a \in AllHandled /\ \A y \in AllHandled : a <= y
            /\ b \in AllHandled /\ \A y \in AllHandled : b >= y
        BY <2>0, <3>2, <3>4, Extremes
      <4> HIDE DEF a, b
      <4>2. a \in Times /\ b \in Times /\ a \in Int /\ b \in Int /\ a <= b
            /\ a \in 0..Never
        BY <2>0, <3>2, <4>1
      <4>3. \A q \in Queues : handled[q] # << >> => tsMin[q] \in AllHandled /\ tsMax[q] \in AllHandled
        BY <3>1 DEF KeptMinMax, AllHandled
      <4>4. \A q \in Queues : handled[q] = << >> => tsMin[q] = Never /\ tsMax[q] = 0
        BY <3>1 DEF KeptMinMax
      <4>5. \A q \in Queues : /\ StatMin(q) \in Int /\ a <= StatMin(q)
                              /\ StatMax(q) \in Int /\ b >= StatMax(q)
        <5> TAKE q \in Queues
        <5>1. tsMin[q] \in Int /\ tsMax[q] \in Int
          BY <2>0, <2>1
        <5>2. CASE handled[q] = << >>
          BY <2>0, <3>1, <4>2, <4>4, <5>1, <5>2
        <5>3. CASE handled[q] # << >>
          BY <3>1, <4>1, <4>3, <5>1, <5>3
        <5> QED
          BY <5>2, <5>3
      <4>6. \E q \in Queues : StatMin(q) = a
        <5>1. PICK q \in Queues : \E i \in 1..Len(handled[q]) : handled[q][i] = a
          BY <4>1 DEF AllHandled
        <5>2. PICK i \in 1..Len(handled[q]) : handled[q][i] = a
          BY <5>1
        <5>3. tsMin[q] <= a /\ handled[q] # << >> /\ tsMin[q] \in Int
          BY <2>0, <2>1, <3>1, <5>2 DEF KeptMinMax
        <5>4. a <= tsMin[q]
          BY <4>1, <4>3, <5>3
        <5> QED
          BY <3>1, <4>2, <5>3, <5>4
      <4>7. \E q \in Queues : StatMax(q) = b
        <5>1. PICK q \in Queues : \E i \in 1..Len(handled[q]) : handled[q][i] = b
          BY <4>1 DEF AllHandled
        <5>2. PICK i \in 1..Len(handled[q]) : handled[q][i] = b
          BY <5>1
        <5>3. b <= tsMax[q] /\ handled[q] # << >> /\ tsMax[q] \in Int
          BY <2>0, <2>1, <3>1, <5>2 DEF KeptMinMax
        <5>4. b >= tsMax[q]
          BY <4>1, <4>3, <5>3
        <5> QED
          BY <3>1, <4>2, <5>3, <5>4
      <4>8. Window = IF a < b THEN b - a ELSE 0
        BY <4>2, <4>5, <4>6, <4>7, WindowIs
      <4>9. Window = b - a
        BY <4>2, <4>8
      <4> QED
        BY <2>5, <3>4, <4>9 DEF WindowExact, TrueWindow, a, b
    <3> QED
      BY <3>3, <3>4
  <2>6. CASE record_ts = 1 /\ \E q \in Queues : data[q] = << >>
    BY <2>6 DEF WindowExact
  <2>7. CASE record_ts = 1 /\ \A q \in Queues : data[q] # << >>
    <3> DEFINE first == Lowest(Logged)
               b == Highest(Logged)
    <3>1. \A q \in Queues : \A i \in 1..Len(data[q]) : data[q][i] \in Times
      BY <2>1, ElementOfSeq
    <3>2. Logged \subseteq Times
      BY <3>1 DEF Logged
    <3>a. PICK q \in Queues : TRUE
      BY <2>0
    <3>b. 1 \in 1..Len(data[q])
      BY <2>1, <2>7, <3>a
    <3>c. data[q][1] \in Logged
      BY <3>a, <3>b DEF Logged
    <3>d. Logged # {}
      BY <3>c
    <3>3. /\ first \in Logged /\ \A y \in Logged : first <= y
          /\ b \in Logged /\ \A y \in Logged : b >= y
      BY <2>0, <3>2, <3>d, Extremes
    <3> HIDE DEF first, b
    <3>4. first \in Times /\ b \in Times /\ first \in Int /\ b \in Int /\ first <= b /\ 0 <= b
          /\ first \in 0..Never /\ 0 <= first
      BY <2>0, <3>2, <3>3
    <3>5. ASSUME NEW r \in Queues
          PROVE  /\ 1 \in 1..Len(data[r]) /\ Len(data[r]) \in 1..Len(data[r])
                 /\ StatMin(r) = data[r][1] /\ StatMax(r) = data[r][Len(data[r])]
                 /\ StatMin(r) \in Logged /\ StatMax(r) \in Logged
      <4>1. 1 \in 1..Len(data[r]) /\ Len(data[r]) \in 1..Len(data[r])
        BY <2>1, <2>7
      <4> QED
        BY <2>7, <4>1 DEF StatMin, StatMax, Logged
    <3>6. \A r \in Queues : /\ StatMin(r) \in Int /\ first <= StatMin(r)
                            /\ StatMax(r) \in Int /\ b >= StatMax(r)
      BY <2>0, <3>2, <3>3, <3>5
    <3>7. \E r \in Queues : StatMax(r) = b
      <4>1. PICK r \in Queues : \E i \in 1..Len(data[r]) : data[r][i] = b
        BY <3>3 DEF Logged
      <4>2. PICK i \in 1..Len(data[r]) : data[r][i] = b
        BY <4>1
      <4>3. Len(data[r]) \in 1..Len(data[r]) /\ i \in 1..Len(data[r]) /\ Len(data[r]) \in Nat
        BY <2>1, <3>5, <4>2
      <4>4. b <= data[r][Len(data[r])]
        BY <4>2, <4>3 DEF DataInv
      <4> QED
        BY <3>4, <3>5, <3>6, <4>4
    <3>8. \E r \in Queues : StatMin(r) = first
      <4>1. PICK r \in Queues : \E i \in 1..Len(data[r]) : data[r][i] = first
        BY <3>3 DEF Logged
      <4>2. PICK i \in 1..Len(data[r]) : data[r][i] = first
        BY <4>1
      <4>3. 1 \in 1..i
        BY <2>1, <4>2
      <4>4. data[r][1] <= first
        BY <4>2, <4>3 DEF DataInv
      <4> QED
        BY <3>4, <3>5, <3>6, <4>4
    <3>9. Window = IF first < b THEN b - first ELSE 0
      BY <3>4, <3>6, <3>7, <3>8, WindowIs
    <3>10. Window = b - first
      BY <3>4, <3>9
    <3> QED
      BY <2>7, <3>10 DEF WindowExact, b, first
  <2> QED
    BY <2>2, <2>4, <2>5, <2>6, <2>7
<1> QED
  BY <1>1, LogTypeHolds, RecordedHolds, OrderHolds, PTL
=============================================================================
