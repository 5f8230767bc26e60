------------------------ MODULE PacketCaptureProofs ------------------------
(***************************************************************************)
(* Proofs about the capture, for any number of CPUs and queries and any    *)
(* size of the ring buffer: every packet is accounted for once, and the    *)
(* event of a query stands before that of its response.                    *)
(*                                                                         *)
(* Both are about file \o ring, which a poll does not change.              *)
(***************************************************************************)
EXTENDS PacketCapture, SequenceTheorems, TLAPS

Event == [pkt : Packets, ts : Nat]

(* The packets the CPUs hold are different ones, and are held. *)
HeldApart ==
  /\ \A c \in Cpus : cpu[c] # Idle => stage[cpu[c]] = "held"
  /\ \A c, d \in Cpus : cpu[c] # Idle /\ cpu[c] = cpu[d] => c = d

(* An event without its time belongs to a packet that is held, and is not   *)
(* in the file; no time is ahead of the clock.                              *)
Stamps ==
  /\ \A i \in Events : Ts(i) <= clock
  /\ \A i \in Events : Ts(i) = 0 => stage[Pkt(i)] = "held"
  /\ \A i \in 1..Len(file) : file[i].ts > 0

(* A response comes after its query. *)
ResponseLater ==
  \A k \in Queries : stage[<<k, 1>>] # "ahead" => stage[<<k, 0>>] = "passed"

(* The inductive invariant: the two properties, and what the steps need to  *)
(* keep them. *)
Inv == TypeOK /\ HeldApart /\ Stamps /\ ResponseLater /\ EachEventOnce /\ CausalOrder

-----------------------------------------------------------------------------
(* Sequences, here file \o ring. *)

(* A function on 1..n is a sequence of length n. *)
LEMMA SeqOfFunction ==
  ASSUME NEW S, NEW n \in Nat, NEW f \in [1..n -> S]
  PROVE  f \in Seq(S) /\ Len(f) = n
OBVIOUS

(* Moving the head of the second to the end of the first changes nothing.   *)
LEMMA MoveHead ==
  ASSUME NEW S, NEW s \in Seq(S), NEW t \in Seq(S), t # << >>
  PROVE  Append(s, Head(t)) \o Tail(t) = s \o t
<1> DEFINE s2 == Append(s, Head(t))
           t2 == Tail(t)
<1>1. Len(t) > 0 /\ Head(t) = t[1] /\ Head(t) \in S
  OBVIOUS
<1>2. s2 \in Seq(S) /\ Len(s2) = Len(s) + 1
      /\ \A i \in 1..Len(s2) : s2[i] = IF i <= Len(s) THEN s[i] ELSE Head(t)
  BY <1>1
<1>3. t2 \in Seq(S) /\ Len(t2) = Len(t) - 1
      /\ \A i \in 1..Len(t2) : t2[i] = t[i + 1]
  BY <1>1
<1> HIDE DEF s2, t2
<1>4. s2 \o t2 \in Seq(S) /\ s \o t \in Seq(S) /\ Len(s2 \o t2) = Len(s \o t)
  <2>1. s2 \o t2 \in Seq(S) /\ Len(s2 \o t2) = Len(s2) + Len(t2)
    BY <1>2, <1>3, ConcatProperties
  <2>2. s \o t \in Seq(S) /\ Len(s \o t) = Len(s) + Len(t)
    BY ConcatProperties
  <2>3. Len(s) \in Nat /\ Len(t) \in Nat
    OBVIOUS
  <2> QED
    BY <1>2, <1>3, <2>1, <2>2, <2>3
<1>5. \A i \in 1..Len(s \o t) : (s2 \o t2)[i] = (s \o t)[i]
  <2>1. SUFFICES ASSUME NEW i \in 1..(Len(s) + Len(t))
                 PROVE (s2 \o t2)[i] = (s \o t)[i]
    BY ConcatProperties
  <2>2. (s \o t)[i] = IF i <= Len(s) THEN s[i] ELSE t[i - Len(s)]
    BY ConcatProperties
  <2>3. (s2 \o t2)[i] = IF i <= Len(s2) THEN s2[i] ELSE t2[i - Len(s2)]
    BY <1>2, <1>3, ConcatProperties
  <2> QED
    BY <1>1, <1>2, <1>3, <2>2, <2>3
<1> QED
  BY <1>4, <1>5 DEF s2, t2

(* What Captured holds, place by place. *)
LEMMA CapturedAt ==
  ASSUME TypeOK
  PROVE  /\ Captured \in Seq(Event)
         /\ Events = 1..(Len(file) + Len(ring))
         /\ Len(file) \in Nat /\ Len(ring) \in Nat
         /\ \A i \in Events : Captured[i] =
              IF i <= Len(file) THEN file[i] ELSE ring[i - Len(file)]
         /\ \A i \in Events : Pkt(i) \in Packets /\ Ts(i) \in Nat
<1>1. file \in Seq(Event) /\ ring \in Seq(Event)
  BY DEF TypeOK, Event
<1>2. Captured \in Seq(Event)
  BY <1>1, ConcatProperties DEF Captured
<1>3. \A i \in Events : Captured[i] \in Event
  BY <1>2 DEF Events
<1>4. \A i \in Events : Pkt(i) \in Packets /\ Ts(i) \in Nat
  BY <1>3 DEF Event, Pkt, Ts
<1> QED
  BY <1>1, <1>2, <1>4, ConcatProperties DEF Captured, Events
-----------------------------------------------------------------------------
(* Init and the types. *)

(* The invariant holds before the capture begins. *)
LEMMA InitInv == Init => Inv
<1> SUFFICES ASSUME Init PROVE Inv
  OBVIOUS
<1> USE DEF Init
<1>1. TypeOK
  <2>1. ring \in Seq(Event) /\ file \in Seq(Event) /\ Len(ring) <= RingSize
    BY CaptureAssumption
  <2>2. stage \in [Packets -> {"ahead", "held", "passed", "gone"}]
        /\ cpu \in [Cpus -> Packets \union {Idle}]
    OBVIOUS
  <2> QED
    BY <2>1, <2>2 DEF TypeOK, Setup, Event
<1>2. HeldApart
  BY DEF HeldApart
<1>3. Captured = << >> /\ Events = {}
  BY DEF Captured, Events
<1>4. Stamps /\ ResponseLater
  BY <1>3 DEF Stamps, ResponseLater, Packets
<1>5. EachEventOnce
  BY <1>3 DEF EachEventOnce, Seen
<1>6. CausalOrder
  BY <1>3 DEF CausalOrder
<1> QED
  BY <1>1, <1>2, <1>4, <1>5, <1>6 DEF Inv

(* A ring with one of its times filled in is a ring of the same length.     *)
LEMMA StampedType ==
  ASSUME TypeOK, NEW p \in Packets
  PROVE  Stamped(p) \in Seq(Event) /\ Len(Stamped(p)) = Len(ring)
<1>1. ring \in Seq(Event) /\ clock \in Nat
  BY DEF TypeOK, Event
<1>2. Len(ring) \in Nat /\ \A i \in 1..Len(ring) : ring[i] \in Event
  BY <1>1, LenProperties, ElementOfSeq
<1>3. [pkt |-> p, ts |-> clock + 1] \in Event
  BY <1>1 DEF Event
<1>4. Stamped(p) \in [1..Len(ring) -> Event]
  BY <1>2, <1>3 DEF Stamped
<1> QED
  BY <1>2, <1>4, SeqOfFunction

(* Taking an event out of the ring keeps the types. *)
LEMMA ConsumeType == TypeOK /\ Consume => TypeOK'
<1> SUFFICES ASSUME TypeOK, Consume PROVE TypeOK'
  OBVIOUS
<1>1. ring \in Seq(Event) /\ file \in Seq(Event) /\ ring # << >>
  BY DEF TypeOK, Event, Consume
<1>2. Head(ring) \in Event /\ Tail(ring) \in Seq(Event) /\ Len(Tail(ring)) = Len(ring) - 1
  BY <1>1, HeadTailProperties
<1>3. Len(ring) \in Nat /\ Len(ring) <= RingSize
  BY <1>1, LenProperties DEF TypeOK
<1>4. file' \in Seq(Event) /\ ring' \in Seq(Event) /\ Len(ring') <= RingSize
  BY <1>1, <1>2, <1>3, CaptureAssumption DEF Consume
<1> QED
  BY <1>4 DEF TypeOK, Event, Consume, reader, kernel

(* So does taking one out and losing it. *)
LEMMA WriteFailsType == TypeOK /\ WriteFails => TypeOK'
<1> SUFFICES ASSUME TypeOK, WriteFails PROVE TypeOK'
  OBVIOUS
<1>1. ring \in Seq(Event) /\ ring # << >>
  BY DEF TypeOK, Event, WriteFails
<1>2. Head(ring) \in Event /\ Tail(ring) \in Seq(Event) /\ Len(Tail(ring)) = Len(ring) - 1
  BY <1>1, HeadTailProperties
<1>3. Len(ring) \in Nat /\ Len(ring) <= RingSize
  BY <1>1, LenProperties DEF TypeOK
<1>4. ring' \in Seq(Event) /\ Len(ring') <= RingSize
  BY <1>1, <1>2, <1>3, CaptureAssumption DEF WriteFails
<1>5. lost' \subseteq Packets
  BY <1>2 DEF WriteFails, TypeOK, Event
<1> QED
  BY <1>4, <1>5 DEF TypeOK, Event, WriteFails, reader

(* No step of the programs or the reader leaves the types. *)
LEMMA TypeStep == TypeOK /\ [Next]_vars => TypeOK'
<1> SUFFICES ASSUME TypeOK, [Next]_vars PROVE TypeOK'
  OBVIOUS
<1> USE DEF TypeOK, Setup, Over, Goto, reader, kernel
<1>1. CASE Reader
  <2>1. CASE AttachXdp   BY <2>1 DEF AttachXdp
  <2>2. CASE AttachTc    BY <2>2 DEF AttachTc
  <2>3. CASE OpenOutput  BY <2>3 DEF OpenOutput
  <2>4. CASE While       BY <2>4 DEF While
  <2>5. CASE Consume     BY <2>5, ConsumeType
  <2>6. CASE EndPoll     BY <2>6 DEF EndPoll
  <2>7. CASE CheckDuration BY <2>7 DEF CheckDuration
  <2>8. CASE CloseFile   BY <2>8 DEF CloseFile
  <2>9. CASE RemoveXdp   BY <2>9 DEF RemoveXdp
  <2>10. CASE CleanupTc  BY <2>10 DEF CleanupTc
  <2> QED
    BY <1>1, <2>1, <2>2, <2>3, <2>4, <2>5, <2>6, <2>7, <2>8, <2>9, <2>10 DEF Reader
<1>2. CASE Signal
  BY <1>2 DEF Signal
<1>10. CASE WriteFails
  BY <1>10, WriteFailsType
<1>11. CASE PollRaises
  BY <1>11 DEF PollRaises
<1>12. CASE Traffic
  BY <1>12 DEF Traffic
<1>3. CASE Expire
  BY <1>3 DEF Expire
<1>4. ASSUME NEW c \in Cpus, Submit(c) PROVE TypeOK'
  <2>1. cpu[c] \in Packets
    BY <1>4 DEF Submit
  <2>2. ring' \in Seq([pkt : Packets, ts : Nat]) /\ Len(ring') = Len(ring)
    BY <1>4, <2>1, StampedType DEF Submit, Event
  <2> QED
    BY <1>4, <2>1, <2>2 DEF Submit
<1>5. ASSUME NEW c \in Cpus, NEW p \in Packets, Reserve(c, p) PROVE TypeOK'
  <2>1. ring' \in Seq([pkt : Packets, ts : Nat]) /\ Len(ring') <= RingSize
    BY <1>5, CaptureAssumption DEF Reserve
  <2> QED
    BY <1>5, <2>1 DEF Reserve
<1>6. ASSUME NEW c \in Cpus, NEW p \in Packets, Lose(c, p) PROVE TypeOK'
  BY <1>6 DEF Lose
<1>7. ASSUME NEW p \in Packets, Miss(p) PROVE TypeOK'
  BY <1>7 DEF Miss
<1>8. ASSUME NEW p \in Packets, Drop(p) PROVE TypeOK'
  BY <1>8 DEF Drop
<1>9. CASE UNCHANGED vars
  BY <1>9 DEF vars
<1> QED
  BY <1>1, <1>2, <1>3, <1>4, <1>5, <1>6, <1>7, <1>8, <1>9, <1>10, <1>11, <1>12
     DEF Next, Program, Raises

-----------------------------------------------------------------------------
(* What the steps do to file \o ring. *)

(* A poll only moves the border between the file and the ring. *)
LEMMA ConsumeEvents ==
  ASSUME TypeOK, Consume
  PROVE  Captured' = Captured /\ Events' = Events
<1>1. file \in Seq(Event) /\ ring \in Seq(Event) /\ ring # << >>
  BY DEF TypeOK, Event, Consume
<1>2. Append(file, Head(ring)) \o Tail(ring) = file \o ring
  BY <1>1, MoveHead
<1> QED
  BY <1>2 DEF Captured, Events, Consume

(* A reservation adds an event without a time at the end. *)
LEMMA ReserveEvents ==
  ASSUME TypeOK, NEW c \in Cpus, NEW p \in Packets, Reserve(c, p)
  PROVE  \E n \in Nat :
           /\ Events = 1..n /\ Events' = 1..(n + 1)
           /\ \A i \in Events : Pkt(i)' = Pkt(i) /\ Ts(i)' = Ts(i)
           /\ Pkt(n + 1)' = p /\ Ts(n + 1)' = 0
<1> DEFINE n == Len(file) + Len(ring)
           e == [pkt |-> p, ts |-> 0]
<1>1. file \in Seq(Event) /\ ring \in Seq(Event) /\ e \in Event
  BY DEF TypeOK, Event
<1>2. file' = file /\ ring' = Append(ring, e)
  BY DEF Reserve
<1>3. e.pkt = p /\ e.ts = 0
  OBVIOUS
<1> HIDE DEF e
<1>4. ring' \in Seq(Event) /\ Len(ring') = Len(ring) + 1
      /\ \A i \in 1..Len(ring) + 1 : ring'[i] = IF i <= Len(ring) THEN ring[i] ELSE e
  BY <1>1, <1>2
<1>5. Len(file) \in Nat /\ Len(ring) \in Nat
  BY <1>1, LenProperties
<1>6. /\ Captured' = file \o ring' /\ Len(Captured') = n + 1
      /\ Captured' \in Seq(Event)
      /\ \A i \in 1..(n + 1) : Captured'[i] = IF i <= Len(file) THEN file[i]
                                             ELSE ring'[i - Len(file)]
  <2>1. Captured' = file \o ring'
    BY <1>2 DEF Captured
  <2>2. /\ file \o ring' \in Seq(Event) /\ Len(file \o ring') = Len(file) + Len(ring')
        /\ \A i \in 1..(Len(file) + Len(ring')) :
             (file \o ring')[i] = IF i <= Len(file) THEN file[i] ELSE ring'[i - Len(file)]
    BY <1>1, <1>4, ConcatProperties
  <2> QED
    BY <1>4, <1>5, <2>1, <2>2
<1>7. Events' = 1..(n + 1)
  BY <1>6, LenProperties DEF Events
<1>8. Events = 1..n /\ \A i \in Events : Captured'[i] = Captured[i]
  <2>1. Events = 1..n
    BY CapturedAt
  <2>2. ASSUME NEW i \in 1..n PROVE Captured'[i] = Captured[i]
    <3>1. Captured[i] = IF i <= Len(file) THEN file[i] ELSE ring[i - Len(file)]
      BY <2>1, CapturedAt
    <3>2. Captured'[i] = IF i <= Len(file) THEN file[i] ELSE ring'[i - Len(file)]
      BY <1>5, <1>6
    <3>3. i > Len(file) => ring'[i - Len(file)] = ring[i - Len(file)]
      BY <1>4, <1>5
    <3> QED
      BY <1>5, <3>1, <3>2, <3>3
  <2> QED
    BY <2>1, <2>2
<1>9. Captured'[n + 1] = e
  BY <1>4, <1>5, <1>6
<1>10. n \in Nat
  BY <1>5
<1> HIDE DEF n
<1>11. \A i \in Events : Pkt(i)' = Pkt(i) /\ Ts(i)' = Ts(i)
  BY <1>8 DEF Pkt, Ts
<1>12. Captured'[n + 1].pkt = p /\ Captured'[n + 1].ts = 0
  BY <1>3, <1>9
<1> QED
  BY <1>7, <1>8, <1>10, <1>11, <1>12 DEF Pkt, Ts

(* A submit fills in the time of its packet's event, which is in the ring.  *)
LEMMA SubmitEvents ==
  ASSUME TypeOK, NEW c \in Cpus, Submit(c)
  PROVE  /\ Events' = Events
         /\ \A i \in Events :
              /\ Pkt(i)' = Pkt(i)
              /\ Ts(i)' = IF i > Len(file) /\ Pkt(i) = cpu[c] THEN clock + 1 ELSE Ts(i)
<1>1. cpu[c] \in Packets /\ file' = file /\ ring' = Stamped(cpu[c])
  BY DEF TypeOK, Submit
<1>2. file \in Seq(Event) /\ ring \in Seq(Event)
      /\ ring' \in Seq(Event) /\ Len(ring') = Len(ring)
  BY <1>1, StampedType DEF TypeOK, Event
<1>3. Len(file) \in Nat /\ Len(ring) \in Nat
  BY <1>2, LenProperties
<1>4. Captured' \in Seq(Event) /\ Len(Captured') = Len(file) + Len(ring)
      /\ \A i \in 1..(Len(file) + Len(ring)) :
           Captured'[i] = IF i <= Len(file) THEN file[i] ELSE ring'[i - Len(file)]
  <2>1. Captured' = file \o ring'
    BY <1>1 DEF Captured
  <2>2. /\ file \o ring' \in Seq(Event) /\ Len(file \o ring') = Len(file) + Len(ring')
        /\ \A i \in 1..(Len(file) + Len(ring')) :
             (file \o ring')[i] = IF i <= Len(file) THEN file[i] ELSE ring'[i - Len(file)]
    BY <1>2, ConcatProperties
  <2> QED
    BY <1>2, <2>1, <2>2
<1>5. Events' = Events
  BY <1>4, LenProperties, CapturedAt DEF Events
<1>6. ASSUME NEW i \in Events
      PROVE  /\ Pkt(i)' = Pkt(i)
             /\ Ts(i)' = IF i > Len(file) /\ Pkt(i) = cpu[c] THEN clock + 1 ELSE Ts(i)
  <2>1. CASE i <= Len(file)
    BY <1>3, <1>4, <2>1, CapturedAt DEF Pkt, Ts
  <2>2. CASE i > Len(file)
    <3> DEFINE j == i - Len(file)
    <3>1. j \in 1..Len(ring) /\ Captured[i] = ring[j] /\ Captured'[i] = ring'[j]
      BY <1>3, <1>4, <2>2, CapturedAt
    <3>2. ring'[j] = IF ring[j].pkt = cpu[c] THEN [pkt |-> cpu[c], ts |-> clock + 1]
                                             ELSE ring[j]
      BY <1>1, <3>1 DEF Stamped
    <3> HIDE DEF j
    <3> QED
      BY <2>2, <3>1, <3>2 DEF Pkt, Ts
  <2> QED
    BY <1>3, <2>1, <2>2, CapturedAt
<1> QED
  BY <1>5, <1>6

-----------------------------------------------------------------------------
(* The steps of the reader, signals and time: the kernel's side stays.      *)

(* A step that leaves packets and events alone keeps the invariant.         *)
LEMMA QuietStep ==
  ASSUME Inv, TypeOK', UNCHANGED <<stage, cpu, clock, lost, missed>>, cfg' = cfg,
         Captured' = Captured, Events' = Events,
         \A i \in 1..Len(file') : file'[i].ts > 0
  PROVE  Inv'
<1>1. \A i \in Events : Pkt(i)' = Pkt(i) /\ Ts(i)' = Ts(i)
  BY DEF Pkt, Ts
<1>2. HeldApart'
  BY DEF Inv, HeldApart
<1>3. Stamps'
  BY <1>1 DEF Inv, Stamps
<1>4. ResponseLater'
  BY DEF Inv, ResponseLater
<1>5. \A p \in Packets : Seen(p)' <=> Seen(p)
  BY DEF Seen, Direction
<1>6. EachEventOnce'
  BY <1>1, <1>5 DEF Inv, EachEventOnce
<1>7. CausalOrder'
  BY <1>1 DEF Inv, CausalOrder
<1> QED
  BY <1>2, <1>3, <1>4, <1>6, <1>7 DEF Inv

(* A poll's event keeps the invariant: what is written has its time.        *)
LEMMA ConsumeStep == Inv /\ Consume => Inv'
<1> SUFFICES ASSUME Inv, Consume PROVE Inv'
  OBVIOUS
<1>1. TypeOK /\ Stamps
  BY DEF Inv
<1>2. file \in Seq(Event) /\ ring \in Seq(Event) /\ Head(ring) \in Event
  BY <1>1, HeadTailProperties DEF TypeOK, Event, Consume
<1>3. Len(file') = Len(file) + 1
      /\ \A i \in 1..Len(file) + 1 : file'[i] = IF i <= Len(file) THEN file[i] ELSE Head(ring)
  BY <1>2 DEF Consume
<1>4. Head(ring).ts > 0
  BY DEF Consume, Submitted
<1>5. \A i \in 1..Len(file') : file'[i].ts > 0
  BY <1>1, <1>2, <1>3, <1>4, LenProperties DEF Stamps
<1>6. TypeOK' /\ Captured' = Captured /\ Events' = Events
  BY <1>1, ConsumeType, ConsumeEvents
<1> QED
  BY <1>5, <1>6, QuietStep DEF Consume, reader, kernel

(* The steps beside a poll and those of the programs. *)
Aside == Reader \/ PollRaises \/ Signal \/ Expire \/ Traffic

(* Every step of the reader, and a signal, keeps the invariant. *)
LEMMA OtherReaderStep == Inv /\ [Aside]_vars => Inv'
<1> SUFFICES ASSUME Inv, [Aside]_vars, ~Consume PROVE Inv'
  BY ConsumeStep DEF Aside
<1>1. UNCHANGED <<stage, cpu, clock, lost, missed, cfg, ring, file>>
  BY DEF Aside, Reader, AttachXdp, AttachTc, OpenOutput, While, EndPoll, CheckDuration,
         CloseFile, RemoveXdp, CleanupTc, PollRaises, Signal, Expire, Traffic, vars,
         reader, kernel
<1>2. TypeOK'
  BY TypeStep DEF Inv, Next, Aside, Raises
<1>3. Captured' = Captured /\ Events' = Events
  BY <1>1 DEF Captured, Events
<1> QED
  BY <1>1, <1>2, <1>3, QuietStep DEF Inv, Stamps

(* An event that is taken out of the ring and not written leaves those      *)
(* before it and those behind it as they were.                              *)
LEMMA WriteFailsEvents ==
  ASSUME TypeOK, WriteFails
  PROVE  /\ Len(file) + 1 \in Events
         /\ Pkt(Len(file) + 1) = Head(ring).pkt
         /\ \A i \in Events' : LET j == IF i <= Len(file) THEN i ELSE i + 1
                             IN  /\ j \in Events /\ j # Len(file) + 1
                                 /\ Pkt(i)' = Pkt(j) /\ Ts(i)' = Ts(j)
         /\ \A j \in Events : j # Len(file) + 1 =>
              \E i \in Events' : j = IF i <= Len(file) THEN i ELSE i + 1
         /\ Events' \subseteq Nat
<1> DEFINE m == Len(file)
           t == Tail(ring)
<1>1. file \in Seq(Event) /\ ring \in Seq(Event) /\ ring # << >>
  BY DEF TypeOK, Event, WriteFails
<1>2. Len(ring) > 0 /\ m \in Nat /\ Len(ring) \in Nat /\ Head(ring) = ring[1]
  BY <1>1, LenProperties, EmptySeq
<1>3. t \in Seq(Event) /\ Len(t) = Len(ring) - 1 /\ \A i \in 1..Len(t) : t[i] = ring[i + 1]
  BY <1>1
<1>4. Captured' = file \o t
  BY DEF Captured, WriteFails
<1> HIDE DEF t
<1>5. /\ Events = 1..(m + Len(ring))
      /\ \A i \in Events : Captured[i] = IF i <= m THEN file[i] ELSE ring[i - m]
  BY CapturedAt
<1>6. /\ Events' = 1..(m + Len(t))
      /\ \A i \in Events' : Captured'[i] = IF i <= m THEN file[i] ELSE t[i - m]
  BY <1>1, <1>3, <1>4, ConcatProperties DEF Events
<1> HIDE DEF m
<1>7. ASSUME NEW i \in Events', NEW j, j = IF i <= m THEN i ELSE i + 1
      PROVE  j \in Events /\ j # m + 1 /\ Captured'[i] = Captured[j]
  <2>1. i \in 1..(m + Len(t))
    BY <1>6
  <2>2. CASE i <= m
    BY <1>2, <1>3, <1>5, <1>6, <1>7, <2>1, <2>2
  <2>3. CASE i > m
    <3>1. j = i + 1 /\ i - m \in 1..Len(t) /\ j - m = (i - m) + 1 /\ j > m + 1
      BY <1>2, <1>3, <1>7, <2>1, <2>3
    <3>2. j \in Events
      BY <1>2, <1>3, <1>5, <2>1, <3>1
    <3>3. Captured'[i] = t[i - m] /\ Captured[j] = ring[j - m]
      BY <1>2, <1>5, <1>6, <2>1, <2>3, <3>1, <3>2
    <3> QED
      BY <1>2, <1>3, <3>1, <3>2, <3>3
  <2> QED
    BY <1>2, <2>1, <2>2, <2>3
<1>8. m + 1 \in Events /\ Captured[m + 1] = Head(ring)
  <2>1. m + 1 \in Events /\ ~(m + 1 <= m) /\ (m + 1) - m = 1
    BY <1>2, <1>5
  <2>2. Captured[m + 1] = ring[(m + 1) - m]
    BY <1>5, <2>1
  <2> QED
    BY <1>2, <2>1, <2>2
<1>9. ASSUME NEW j \in Events, j # m + 1
      PROVE  \E i \in Events' : j = IF i <= m THEN i ELSE i + 1
  <2>1. j \in 1..(m + Len(ring))
    BY <1>5
  <2>2. CASE j <= m
    <3>1. j \in Events'
      BY <1>2, <1>3, <1>6, <2>1, <2>2
    <3> QED
      BY <2>2, <3>1
  <2>3. CASE j > m
    <3>1. j - 1 \in Events' /\ ~(j - 1 <= m) /\ j = (j - 1) + 1
      BY <1>2, <1>3, <1>6, <1>9, <2>1, <2>3
    <3> QED
      BY <3>1
  <2> QED
    BY <1>2, <2>1, <2>2, <2>3
<1>10. Events' \subseteq Nat
  BY <1>6
<1> QED
  BY <1>7, <1>8, <1>9, <1>10 DEF Pkt, Ts, m

(* A write that fails keeps the invariant: its packet goes from the events  *)
(* to the losses.                                                           *)
LEMMA WriteFailsStep == Inv /\ WriteFails => Inv'
<1> SUFFICES ASSUME Inv, WriteFails PROVE Inv'
  OBVIOUS
<1> DEFINE m == Len(file) + 1
           p == Head(ring).pkt
           from(i) == IF i <= Len(file) THEN i ELSE i + 1
<1>1. TypeOK /\ TypeOK'
  BY WriteFailsType DEF Inv
<1>2. /\ UNCHANGED <<cfg, stage, cpu, clock, missed, file>>
      /\ lost' = lost \union {p}
  BY DEF WriteFails, reader
<1>3. /\ m \in Events /\ Pkt(m) = p
      /\ \A i \in Events' : /\ from(i) \in Events /\ from(i) # m
                           /\ Pkt(i)' = Pkt(from(i)) /\ Ts(i)' = Ts(from(i))
      /\ \A j \in Events : j # m => \E i \in Events' : j = from(i)
  BY <1>1, WriteFailsEvents
<1>4. Len(file) \in Nat /\ Events' \subseteq Nat
  BY <1>1, CapturedAt, WriteFailsEvents
<1>5. \A i, j \in Events' : from(i) < from(j) => i < j
  BY <1>4
<1>6. \A i \in Events' : i = IF from(i) <= Len(file) THEN from(i) ELSE from(i) - 1
  BY <1>4
<1> HIDE DEF m, p, from
<1>7. HeldApart' /\ ResponseLater'
  BY <1>2 DEF Inv, HeldApart, ResponseLater
<1>8. Stamps'
  BY <1>2, <1>3 DEF Inv, Stamps
<1>9. \A q \in Packets : Seen(q)' <=> Seen(q)
  BY <1>2 DEF Seen, Direction
<1>10. p \in Packets /\ p \notin lost \union missed
  BY <1>1, <1>3, CapturedAt DEF Inv, EachEventOnce
<1>11. \A i \in Events' : Pkt(i)' # p
  BY <1>3 DEF Inv, EachEventOnce
<1>12. EachEventOnce'
  <2>1. ASSUME NEW i \in Events', NEW j \in Events', Pkt(i)' = Pkt(j)'
        PROVE  i = j
    <3>1. from(i) \in Events /\ from(j) \in Events /\ Pkt(from(i)) = Pkt(from(j))
      BY <1>3, <2>1
    <3>2. from(i) = from(j)
      BY <3>1 DEF Inv, EachEventOnce
    <3>3. /\ i = IF from(i) <= Len(file) THEN from(i) ELSE from(i) - 1
          /\ j = IF from(j) <= Len(file) THEN from(j) ELSE from(j) - 1
      BY <1>6
    <3> QED
      BY <3>2, <3>3
  <2>2. \A i \in Events' : Pkt(i)' \notin lost' \union missed'
    BY <1>2, <1>3, <1>11 DEF Inv, EachEventOnce
  <2>3. lost' \intersect missed' = {}
    BY <1>2, <1>10 DEF Inv, EachEventOnce
  <2>4. ASSUME NEW q \in Packets
        PROVE  Seen(q)' <=> q \in lost' \union missed' \/ \E i \in Events' : Pkt(i)' = q
    <3>1. Seen(q) <=> q \in lost \union missed \/ \E i \in Events : Pkt(i) = q
      BY DEF Inv, EachEventOnce
    <3>2. (\E i \in Events' : Pkt(i)' = q) => \E i \in Events : Pkt(i) = q
      BY <1>3
    <3>3. (\E i \in Events : Pkt(i) = q) => q = p \/ \E i \in Events' : Pkt(i)' = q
      BY <1>3
    <3>4. q = p => \E i \in Events : Pkt(i) = q
      BY <1>3
    <3> QED
      BY <1>2, <1>9, <3>1, <3>2, <3>3, <3>4
  <2> QED
    BY <2>1, <2>2, <2>3, <2>4 DEF EachEventOnce
<1>13. CausalOrder'
  <2> SUFFICES ASSUME NEW i \in Events', NEW j \in Events',
                      Pkt(i)'[2] = 0, Pkt(j)' = <<Pkt(i)'[1], 1>>
               PROVE  i < j /\ 0 < Ts(i)' /\ (Ts(j)' > 0 => Ts(i)' < Ts(j)')
    BY DEF CausalOrder
  <2>1. /\ from(i) \in Events /\ from(j) \in Events
        /\ Pkt(i)' = Pkt(from(i)) /\ Ts(i)' = Ts(from(i))
        /\ Pkt(j)' = Pkt(from(j)) /\ Ts(j)' = Ts(from(j))
    BY <1>3
  <2>2. from(i) < from(j) /\ 0 < Ts(from(i)) /\ (Ts(from(j)) > 0 => Ts(from(i)) < Ts(from(j)))
    BY <2>1 DEF Inv, CausalOrder
  <2> QED
    BY <1>5, <2>1, <2>2
<1> QED
  BY <1>1, <1>7, <1>8, <1>12, <1>13 DEF Inv

-----------------------------------------------------------------------------
(* Packets that pass without an event, or are lost on the network. *)

(* What becomes of p at a step that no event is about. *)
Becomes(p, s) == stage' = [stage EXCEPT ![p] = s]
RingStays     == UNCHANGED <<cfg, cpu, clock, ring, file>>

(* A packet that no program holds passes or is lost: no event changes.      *)
LEMMA PassedBy ==
  ASSUME Inv, TypeOK', NEW p \in Packets,
         RingStays, stage[p] # "held",
         Becomes(p, "passed") \/ Becomes(p, "gone")
  PROVE  HeldApart' /\ Stamps' /\ CausalOrder'
         /\ \A i \in Events : Pkt(i)' = Pkt(i)
<1> USE DEF Inv, RingStays, Becomes
<1>1. Captured' = Captured /\ Events' = Events
  BY DEF Captured, Events
<1>2. \A i \in Events : Pkt(i)' = Pkt(i) /\ Ts(i)' = Ts(i) /\ Pkt(i) \in Packets
  BY <1>1, CapturedAt DEF Pkt, Ts
<1>3. HeldApart'
  BY DEF HeldApart, TypeOK
<1>4. Stamps'
  BY <1>1, <1>2 DEF Stamps, TypeOK
<1>5. CausalOrder'
  BY <1>1, <1>2 DEF CausalOrder
<1> QED
  BY <1>1, <1>2, <1>3, <1>4, <1>5

(* Lose and Miss: the packet is entered in one of the two books. *)
LEMMA BookedStep ==
  ASSUME Inv, TypeOK', NEW p \in Packets, Due(p),
         UNCHANGED <<cfg, cpu, clock, ring, file>>,
         stage' = [stage EXCEPT ![p] = "passed"],
         \/ lost' = lost \union {p} /\ missed' = missed
         \/ missed' = missed \union {p} /\ lost' = lost
  PROVE  Inv'
<1>1. stage[p] = "ahead"
  BY DEF Due
<1>2. HeldApart' /\ Stamps' /\ CausalOrder' /\ Events' = Events
      /\ \A i \in Events : Pkt(i)' = Pkt(i)
  <2>1. stage[p] # "held" /\ RingStays /\ Becomes(p, "passed")
    BY <1>1 DEF RingStays, Becomes
  <2>2. Events' = Events
    BY <2>1 DEF RingStays, Events, Captured
  <2> QED
    BY <2>1, <2>2, PassedBy
<1> USE DEF Inv
<1>3. stage \in [Packets -> {"ahead", "held", "passed", "gone"}]
  BY DEF TypeOK
<1>4. ResponseLater'
  <2> SUFFICES ASSUME NEW k \in Queries, stage'[<<k, 1>>] # "ahead"
               PROVE  stage'[<<k, 0>>] = "passed"
    BY DEF ResponseLater
  <2>1. <<k, 0>> \in Packets /\ <<k, 1>> \in Packets /\ <<k, 0>> # <<k, 1>>
    BY DEF Packets
  <2>2. CASE p = <<k, 1>>
    BY <1>3, <2>1, <2>2 DEF Due
  <2>3. CASE p # <<k, 1>>
    BY <1>3, <2>1, <2>3 DEF ResponseLater
  <2> QED
    BY <2>2, <2>3
<1>5. Seen(p)' /\ ~Seen(p)
  BY <1>1, <1>3 DEF Seen
<1>6. \A r \in Packets : r # p => (Seen(r)' <=> Seen(r))
  BY <1>3 DEF Seen, Direction
<1>7. p \notin lost \union missed /\ \A i \in Events : Pkt(i) # p
  BY <1>5 DEF EachEventOnce
<1>8. EachEventOnce'
  <2>1. \A i, j \in Events' : Pkt(i)' = Pkt(j)' => i = j
    BY <1>2 DEF EachEventOnce
  <2>2. \A i \in Events' : Pkt(i)' \notin lost' \union missed'
    BY <1>2, <1>7 DEF EachEventOnce
  <2>3. lost' \intersect missed' = {}
    BY <1>7 DEF EachEventOnce
  <2>4. ASSUME NEW r \in Packets
        PROVE  Seen(r)' <=> r \in lost' \union missed' \/ \E i \in Events' : Pkt(i)' = r
    BY <1>2, <1>5, <1>6, <1>7 DEF EachEventOnce
  <2> QED
    BY <2>1, <2>2, <2>3, <2>4 DEF EachEventOnce
<1> QED
  BY <1>2, <1>4, <1>8

(* A loss on the network keeps the invariant: what this host has not seen   *)
(* stays unseen, what it has sent stays sent. *)
LEMMA DropStep ==
  ASSUME Inv, TypeOK', NEW p \in Packets, Drop(p)
  PROVE  Inv'
<1>1. /\ UNCHANGED <<cfg, cpu, clock, ring, file, lost, missed>>
      /\ stage' = [stage EXCEPT ![p] = "gone"]
      /\ stage[p] \in {"ahead", "passed"}
  BY DEF Drop, Due, reader
<1>2. HeldApart' /\ Stamps' /\ CausalOrder' /\ Events' = Events
      /\ \A i \in Events : Pkt(i)' = Pkt(i)
  <2>1. stage[p] # "held" /\ RingStays /\ Becomes(p, "gone")
    BY <1>1 DEF RingStays, Becomes
  <2>2. Events' = Events
    BY <2>1 DEF RingStays, Events, Captured
  <2> QED
    BY <2>1, <2>2, PassedBy
<1> USE DEF Inv
<1>3. stage \in [Packets -> {"ahead", "held", "passed", "gone"}]
  BY DEF TypeOK
<1>4. ResponseLater'
  <2> SUFFICES ASSUME NEW k \in Queries, stage'[<<k, 1>>] # "ahead"
               PROVE  stage'[<<k, 0>>] = "passed"
    BY DEF ResponseLater
  <2>1. <<k, 0>> \in Packets /\ <<k, 1>> \in Packets /\ <<k, 0>> # <<k, 1>>
    BY DEF Packets
  <2>2. CASE p = <<k, 1>>
    <3>1. stage[<<k, 0>>] = "passed"
      BY <2>2 DEF Drop, Due, ResponseLater
    <3> QED
      BY <1>1, <1>3, <2>1, <2>2, <3>1
  <2>3. CASE p = <<k, 0>>
    <3>1. stage[<<k, 1>>] # "ahead"
      BY <1>1, <1>3, <2>1, <2>3
    <3>2. stage[p] = "passed"
      BY <2>3, <3>1 DEF ResponseLater
    <3>3. stage[<<k, 1>>] = "ahead"
      BY <2>3, <3>2 DEF Drop, Due
    <3> QED
      BY <3>1, <3>3
  <2>4. CASE p # <<k, 1>> /\ p # <<k, 0>>
    BY <1>1, <1>3, <2>1, <2>4 DEF ResponseLater
  <2> QED
    BY <2>2, <2>3, <2>4
<1>5. Seen(p)' <=> Seen(p)
  BY <1>1, <1>3 DEF Seen, Direction, Drop, Due
<1>6. \A r \in Packets : Seen(r)' <=> Seen(r)
  BY <1>1, <1>3, <1>5 DEF Seen, Direction
<1>7. EachEventOnce'
  BY <1>1, <1>2, <1>6 DEF EachEventOnce
<1> QED
  BY <1>2, <1>4, <1>7

-----------------------------------------------------------------------------
(* The capture programs. *)

(* A reservation keeps the invariant: its packet had no event, and a        *)
(* response is reserved when its query's event has got its time. *)
LEMMA ReserveStep ==
  ASSUME Inv, TypeOK', NEW c \in Cpus, NEW p \in Packets, Reserve(c, p)
  PROVE  Inv'
<1> USE DEF Inv
<1>1. /\ UNCHANGED <<cfg, clock, file, lost, missed>>
      /\ stage' = [stage EXCEPT ![p] = "held"] /\ cpu' = [cpu EXCEPT ![c] = p]
      /\ stage[p] = "ahead" /\ cpu[c] = Idle
  BY DEF Reserve, Due, reader
<1>2. stage \in [Packets -> {"ahead", "held", "passed", "gone"}]
      /\ cpu \in [Cpus -> Packets \union {Idle}] /\ clock \in Nat
  BY DEF TypeOK
<1>3. PICK n \in Nat :
        /\ Events = 1..n /\ Events' = 1..(n + 1)
        /\ \A i \in Events : Pkt(i)' = Pkt(i) /\ Ts(i)' = Ts(i)
        /\ Pkt(n + 1)' = p /\ Ts(n + 1)' = 0
  BY ReserveEvents
<1>4. \A i \in Events : Pkt(i) \in Packets /\ Ts(i) \in Nat
  BY CapturedAt
<1>5. ~Seen(p) /\ Seen(p)' /\ \A r \in Packets : r # p => (Seen(r)' <=> Seen(r))
  BY <1>1, <1>2 DEF Seen, Direction
<1>6. p \notin lost \union missed /\ \A i \in Events : Pkt(i) # p
  BY <1>5 DEF EachEventOnce
<1>7. HeldApart'
  BY <1>1, <1>2 DEF HeldApart
<1>8. Stamps'
  <2>1. \A i \in 1..(n + 1) : i \in 1..n \/ i = n + 1
    BY <1>3
  <2>2. \A i \in Events' : Ts(i)' <= clock'
    BY <1>1, <1>2, <1>3, <2>1 DEF Stamps
  <2>3. \A i \in Events' : Ts(i)' = 0 => stage'[Pkt(i)'] = "held"
    BY <1>1, <1>2, <1>3, <1>4, <2>1 DEF Stamps
  <2> QED
    BY <1>1, <2>2, <2>3 DEF Stamps
<1>9. ResponseLater'
  <2> SUFFICES ASSUME NEW k \in Queries, stage'[<<k, 1>>] # "ahead"
               PROVE  stage'[<<k, 0>>] = "passed"
    BY DEF ResponseLater
  <2>1. <<k, 0>> \in Packets /\ <<k, 1>> \in Packets /\ <<k, 0>> # <<k, 1>>
    BY DEF Packets
  <2>2. CASE p = <<k, 1>>
    BY <1>1, <1>2, <2>1, <2>2 DEF Reserve, Due
  <2>3. CASE p # <<k, 1>>
    BY <1>1, <1>2, <2>1, <2>3 DEF ResponseLater
  <2> QED
    BY <2>2, <2>3
<1>10. EachEventOnce'
  <2>1. \A i \in 1..(n + 1) : i \in 1..n \/ i = n + 1
    BY <1>3
  <2>2. \A i, j \in Events' : Pkt(i)' = Pkt(j)' => i = j
    BY <1>3, <1>6, <2>1 DEF EachEventOnce
  <2>3. \A i \in Events' : Pkt(i)' \notin lost' \union missed'
    BY <1>1, <1>3, <1>6, <2>1 DEF EachEventOnce
  <2>4. ASSUME NEW r \in Packets
        PROVE  Seen(r)' <=> r \in lost' \union missed' \/ \E i \in Events' : Pkt(i)' = r
    <3>1. CASE r = p
      BY <1>3, <1>5, <3>1
    <3>2. CASE r # p
      BY <1>1, <1>3, <1>5, <2>1, <3>2 DEF EachEventOnce
    <3> QED
      BY <3>1, <3>2
  <2> QED
    BY <1>1, <2>2, <2>3, <2>4 DEF EachEventOnce
<1>11. CausalOrder'
  <2> SUFFICES ASSUME NEW i \in 1..(n + 1), NEW j \in 1..(n + 1),
                      Pkt(i)'[2] = 0, Pkt(j)' = <<Pkt(i)'[1], 1>>
               PROVE  i < j /\ 0 < Ts(i)' /\ (Ts(j)' > 0 => Ts(i)' < Ts(j)')
    BY <1>3 DEF CausalOrder
  <2>1. CASE i \in 1..n /\ j \in 1..n
    BY <1>3, <2>1 DEF CausalOrder
  <2>2. CASE j = n + 1
    <3>1. p = <<Pkt(i)'[1], 1>>
      BY <1>3, <2>2
    <3>2. i # n + 1
      BY <1>3, <3>1
    <3>3. i \in 1..n /\ Pkt(i) \in Packets /\ Pkt(i)' = Pkt(i) /\ Ts(i)' = Ts(i)
      BY <1>3, <1>4, <3>2
    <3>4. Pkt(i) = <<Pkt(i)[1], 0>> /\ Pkt(i)[1] \in Queries
      BY <3>3 DEF Packets
    <3>5. stage[Pkt(i)] = "passed"
      BY <3>1, <3>3, <3>4 DEF Reserve, Due
    <3>6. Ts(i) # 0
      BY <1>3, <3>3, <3>5 DEF Stamps
    <3> QED
      BY <1>3, <1>4, <2>2, <3>3, <3>6
  <2>3. CASE i = n + 1 /\ j \in 1..n
    <3>1. Pkt(j) = <<p[1], 1>> /\ Pkt(j) \in Packets /\ p[2] = 0
      BY <1>3, <1>4, <2>3
    <3>2. p = <<p[1], 0>> /\ p[1] \in Queries
      BY <3>1 DEF Packets
    <3>3. Seen(Pkt(j))
      BY <1>3, <2>3, <3>1 DEF EachEventOnce
    <3>4. stage[<<p[1], 0>>] = "passed"
      BY <3>1, <3>2, <3>3 DEF Seen, ResponseLater
    <3> QED
      BY <1>1, <3>2, <3>4
  <2> QED
    BY <2>1, <2>2, <2>3
<1> QED
  BY <1>7, <1>8, <1>9, <1>10, <1>11

(* A submit keeps the invariant: the time it fills in is later than all     *)
(* others, and of a query it is in place before the response is due.        *)
LEMMA SubmitStep ==
  ASSUME Inv, TypeOK', NEW c \in Cpus, Submit(c)
  PROVE  Inv'
<1> DEFINE p == cpu[c]
<1>1. TypeOK
  BY DEF Inv
<1>2. /\ stage \in [Packets -> {"ahead", "held", "passed", "gone"}]
      /\ cpu \in [Cpus -> Packets \union {Idle}] /\ clock \in Nat
  BY <1>1 DEF TypeOK
<1>3. /\ UNCHANGED <<cfg, file, lost, missed>>
      /\ p # Idle /\ p \in Packets
      /\ clock' = clock + 1
      /\ stage' = [stage EXCEPT ![p] = "passed"] /\ cpu' = [cpu EXCEPT ![c] = Idle]
  BY <1>2 DEF Submit, reader
<1>4. /\ Events' = Events
      /\ \A i \in Events :
           /\ Pkt(i)' = Pkt(i)
           /\ Ts(i)' = IF i > Len(file) /\ Pkt(i) = p THEN clock + 1 ELSE Ts(i)
  BY <1>1, SubmitEvents
<1>5. /\ Events = 1..(Len(file) + Len(ring)) /\ Len(file) \in Nat /\ Len(ring) \in Nat
      /\ \A i \in Events : Pkt(i) \in Packets /\ Ts(i) \in Nat
      /\ \A i \in Events : i <= Len(file) => Ts(i) = file[i].ts
  BY <1>1, CapturedAt DEF Ts
<1>6. stage[p] = "held" /\ \A d \in Cpus : d # c => cpu[d] # p
  BY <1>3 DEF Inv, HeldApart
<1> HIDE DEF p
<1>7. HeldApart'
  BY <1>2, <1>3, <1>6 DEF Inv, HeldApart
<1>8. \A i \in Events : Ts(i) <= clock
  BY DEF Inv, Stamps
<1>9. Stamps'
  <2>1. ASSUME NEW i \in Events PROVE Ts(i)' <= clock'
    BY <1>2, <1>3, <1>4, <1>5, <1>8
  <2>2. ASSUME NEW i \in Events, Ts(i)' = 0 PROVE stage'[Pkt(i)'] = "held"
    <3>1. Ts(i) = 0 /\ ~(i > Len(file) /\ Pkt(i) = p)
      BY <1>2, <1>4, <2>2
    <3>2. i > Len(file)
      <4>1. CASE i <= Len(file)
        <5>1. file[i].ts > 0
          BY <1>5, <4>1 DEF Inv, Stamps
        <5> QED
          BY <1>5, <3>1, <4>1, <5>1
      <4> QED
        BY <1>5, <4>1
    <3>3. stage[Pkt(i)] = "held"
      BY <3>1 DEF Inv, Stamps
    <3> QED
      BY <1>2, <1>3, <1>4, <1>5, <3>1, <3>2, <3>3
  <2>3. \A i \in 1..Len(file') : file'[i].ts > 0
    BY <1>3 DEF Inv, Stamps
  <2> QED
    BY <1>4, <2>1, <2>2, <2>3 DEF Stamps
<1>10. ResponseLater'
  BY <1>2, <1>3, <1>6 DEF Inv, ResponseLater, Packets
<1>11. \A r \in Packets : Seen(r)' <=> Seen(r)
  BY <1>2, <1>3, <1>6 DEF Seen, Direction
<1>12. EachEventOnce'
  <2>1. EachEventOnce
    BY DEF Inv
  <2> QED
    BY <1>3, <1>4, <1>11, <2>1 DEF EachEventOnce
<1>13. CausalOrder'
  <2> SUFFICES ASSUME NEW i \in Events, NEW j \in Events,
                      Pkt(i)[2] = 0, Pkt(j) = <<Pkt(i)[1], 1>>
               PROVE  i < j /\ 0 < Ts(i)' /\ (Ts(j)' > 0 => Ts(i)' < Ts(j)')
    BY <1>4 DEF CausalOrder
  <2>1. i < j /\ 0 < Ts(i) /\ (Ts(j) > 0 => Ts(i) < Ts(j))
    BY DEF Inv, CausalOrder
  <2>2. Pkt(i) # p
    <3> SUFFICES ASSUME Pkt(i) = p PROVE FALSE
      OBVIOUS
    <3>1. p = <<p[1], 0>> /\ p[1] \in Queries
      BY <1>3 DEF Packets
    <3>2. Seen(Pkt(j))
      BY <1>5 DEF Inv, EachEventOnce
    <3>3. stage[<<p[1], 1>>] # "ahead"
      BY <3>2 DEF Seen
    <3> QED
      BY <1>6, <3>1, <3>3 DEF Inv, ResponseLater
  <2>3. Ts(i)' = Ts(i)
    BY <1>4, <2>2
  <2> QED
    BY <1>2, <1>4, <1>5, <1>8, <2>1, <2>3
<1> QED
  BY <1>7, <1>9, <1>10, <1>12, <1>13 DEF Inv

(* Every step of the capture keeps the invariant. *)
LEMMA InvStep == Inv /\ [Next]_vars => Inv'
<1> SUFFICES ASSUME Inv, [Next]_vars PROVE Inv'
  OBVIOUS
<1>1. TypeOK'
  BY TypeStep DEF Inv
<1>2. CASE [Aside]_vars
  BY <1>2, OtherReaderStep
<1>3. ASSUME NEW c \in Cpus, Submit(c) PROVE Inv'
  BY <1>1, <1>3, SubmitStep
<1>4. ASSUME NEW c \in Cpus, NEW p \in Packets, Reserve(c, p) PROVE Inv'
  BY <1>1, <1>4, ReserveStep
<1>5. ASSUME NEW c \in Cpus, NEW p \in Packets, Lose(c, p) PROVE Inv'
  BY <1>1, <1>5, BookedStep DEF Lose, reader
<1>6. ASSUME NEW p \in Packets, Miss(p) PROVE Inv'
  BY <1>1, <1>6, BookedStep DEF Miss, reader
<1>7. ASSUME NEW p \in Packets, Drop(p) PROVE Inv'
  BY <1>1, <1>7, DropStep
<1>8. CASE WriteFails
  BY <1>8, WriteFailsStep
<1> QED
  BY <1>2, <1>3, <1>4, <1>5, <1>6, <1>7, <1>8 DEF Next, Program, Aside, Raises

(* Every packet of the capturing host is in the file, in the ring, among    *)
(* the failed reservations and writes or among those that passed unwatched, *)
(* and in one place only.                                                   *)
THEOREM EventsAccounted == Spec => []EachEventOnce
<1>1. Inv => EachEventOnce
  BY DEF Inv
<1> QED
  BY <1>1, InitInv, InvStep, PTL DEF Spec

(* On every CPU schedule the event of a query stands before the event of    *)
(* its response, with a smaller time. *)
THEOREM EventsCausal == Spec => []CausalOrder
<1>1. Inv => CausalOrder
  BY DEF Inv
<1> QED
  BY <1>1, InitInv, InvStep, PTL DEF Spec

=============================================================================
