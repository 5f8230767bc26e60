--------------------------- MODULE XskWorkerProofs ---------------------------
(***************************************************************************)
(* Proofs about the queue of module XskWorker, for every number of frames, *)
(* ring size, batch size and number of packets.                            *)
(***************************************************************************)
EXTENDS XskWorkerProps, TLAPS

(* Taking the head of a sequence. *)
LEMMA TakeHead ==
  ASSUME NEW S, NEW s \in Seq(S), s # << >>
  PROVE  /\ Head(s) \in S
         /\ Head(s) = s[1]
         /\ Tail(s) \in Seq(S)
         /\ Len(s) \in Nat \ {0}
         /\ Len(Tail(s)) = Len(s) - 1
         /\ \A i \in 1..Len(s) - 1 : Tail(s)[i] = s[i + 1]
  OBVIOUS

(* Adding an element at the end. *)
LEMMA AddLast ==
  ASSUME NEW S, NEW s \in Seq(S), NEW e \in S
  PROVE  /\ Append(s, e) \in Seq(S)
         /\ Len(Append(s, e)) = Len(s) + 1
         /\ \A i \in 1..Len(s) : Append(s, e)[i] = s[i]
         /\ Append(s, e)[Len(s) + 1] = e
  OBVIOUS

(* The stack: an element on top of the others.                             *)
LEMMA AddTop ==
  ASSUME NEW S, NEW s \in Seq(S), NEW e \in S
  PROVE  /\ <<e>> \o s \in Seq(S)
         /\ Len(<<e>> \o s) = Len(s) + 1
         /\ (<<e>> \o s)[1] = e
         /\ \A i \in 2..Len(s) + 1 : (<<e>> \o s)[i] = s[i - 1]
  <1>1. <<e>> \in Seq(S) /\ Len(<<e>>) = 1
    OBVIOUS
  <1> QED
    BY <1>1

(* A step that moves the head of p to the tail of q. *)
LEMMA MoveStep ==
  ASSUME at \in [Places -> Seq(Frames)],
         NEW p \in Places, NEW q \in Places, p # q, Len(at[p]) > 0, Move(p, q)
  PROVE  /\ at' \in [Places -> Seq(Frames)]
         /\ Len(at'[p]) = Len(at[p]) - 1
         /\ Len(at'[q]) = Len(at[q]) + 1
         /\ \A r \in Places \ {p, q} : at'[r] = at[r]
  <1>1. at[p] \in Seq(Frames) /\ at[q] \in Seq(Frames) /\ at[p] # << >>
    OBVIOUS
  <1>2. at'[p] = Tail(at[p]) /\ at'[q] = Append(at[q], Head(at[p]))
    BY DEF Move
  <1>3. \A r \in Places \ {p, q} : at'[r] = at[r]
    BY DEF Move
  <1>4. /\ Head(at[p]) \in Frames /\ Tail(at[p]) \in Seq(Frames)
        /\ Len(Tail(at[p])) = Len(at[p]) - 1
    BY <1>1, TakeHead
  <1>5. /\ Append(at[q], Head(at[p])) \in Seq(Frames)
        /\ Len(Append(at[q], Head(at[p]))) = Len(at[q]) + 1
    BY <1>1, <1>4, AddLast
  <1>6. at' \in [Places -> Seq(Frames)]
    BY <1>4, <1>5 DEF Move
  <1> QED
    BY <1>2, <1>3, <1>4, <1>5, <1>6

(* A step that pushes the head of p on the free stack. *)
LEMMA FreeStep ==
  ASSUME at \in [Places -> Seq(Frames)],
         NEW p \in Places, p # "free", Len(at[p]) > 0, Free(p)
  PROVE  /\ at' \in [Places -> Seq(Frames)]
         /\ Len(at'[p]) = Len(at[p]) - 1
         /\ Len(at'["free"]) = Len(at["free"]) + 1
         /\ \A r \in Places \ {p, "free"} : at'[r] = at[r]
  <1>0. "free" \in Places
    BY DEF Places
  <1>1. at[p] \in Seq(Frames) /\ at["free"] \in Seq(Frames) /\ at[p] # << >>
    BY <1>0
  <1>2. at'[p] = Tail(at[p]) /\ at'["free"] = <<Head(at[p])>> \o at["free"]
    BY <1>0 DEF Free
  <1>3. \A r \in Places \ {p, "free"} : at'[r] = at[r]
    BY DEF Free
  <1>4. /\ Head(at[p]) \in Frames /\ Tail(at[p]) \in Seq(Frames)
        /\ Len(Tail(at[p])) = Len(at[p]) - 1
    BY <1>1, TakeHead
  <1>5. /\ <<Head(at[p])>> \o at["free"] \in Seq(Frames)
        /\ Len(<<Head(at[p])>> \o at["free"]) = Len(at["free"]) + 1
    BY <1>1, <1>4, AddTop
  <1>6. at' \in [Places -> Seq(Frames)]
    BY <1>0, <1>4, <1>5 DEF Free
  <1> QED
    BY <1>2, <1>3, <1>4, <1>5, <1>6


-----------------------------------------------------------------------------
(* The inductive invariant behind the counting properties: beside the type  *)
(* and the capacity of the rings it says, for each label, how the loop      *)
(* counter relates to the ring the loop works on, and which of the batch,   *)
(* the unpublished entries and the unreleased slots may exist there.        *)
LoopOK ==
  /\ pc = "populate" => n + InFill = RingSize /\ fillVis = 0
  /\ pc = "refill" => n + InFill <= RingSize
  /\ pc \notin {"populate", "refill"} => fillVis = InFill
  /\ pc \in {"reclaim", "spin"} => n <= InComp
  /\ pc \notin {"reclaim", "spin"} => compHeld = 0
  /\ pc = "process" => /\ n <= InRx
                       /\ InBatch + n <= BatchSize
  /\ pc # "process" => rxHeld = 0
  /\ pc \notin {"process", "reserveTx", "spinPeek", "spin", "writeTx"} =>
        InBatch = 0
  /\ pc = "writeTx" => /\ TxHasRoom
                       /\ n + txVis = InBatch + InTx
  /\ pc # "writeTx" => txVis = InTx

CountInv == TypeOK /\ NoLeak /\ RingsFit /\ LoopOK

(* What the assumption on the constants says of them one by one.            *)
LEMMA Consts ==
  /\ FrameCount \in Nat \ {0} /\ RingSize \in Nat /\ RingSize >= 2
  /\ DefaultBatchSize \in Nat /\ DefaultBatchSize <= RingSize
  /\ BatchSize \in Nat /\ BatchSize <= DefaultBatchSize /\ BatchSize >= 1
  /\ RingSize \div 2 \in Nat /\ RingSize \div 2 <= RingSize
  BY WorkerAssumption

(* Enough frames for the first fill: with fewer, xsk_populate_fill_ring     *)
(* submits slots it never wrote (run xsk_small_umem).                       *)
LEMMA CountInit ==
  ASSUME FrameCount >= RingSize, Init
  PROVE  CountInv
  <1>1. [i \in 1..FrameCount |-> FrameCount - i] \in Seq(Frames)
    BY Consts DEF Frames
  <1>2. Len([i \in 1..FrameCount |-> FrameCount - i]) = FrameCount
    BY Consts
  <1>3. at \in [Places -> Seq(Frames)]
    <2>1. << >> \in Seq(Frames)
      OBVIOUS
    <2> QED
      BY <1>1, <2>1 DEF Init
  <1>4. /\ InPool = FrameCount
        /\ InFill = 0 /\ InRx = 0 /\ InBatch = 0
        /\ InTx = 0 /\ InNic = 0 /\ InComp = 0
    BY <1>2 DEF Init, Places, InPool, InFill, InRx, InBatch, InTx, InNic,
                     InComp
  <1>5. TypeOK
    <2>1. stats \in Stats
      BY DEF Init, Stats
    <2>2. wire \in [delivered : Nat, sent : Nat]
      BY DEF Init
    <2>3. fillVis \in 0..InFill /\ txVis \in 0..InTx
      BY <1>4 DEF Init
    <2>4. /\ mode \in Modes /\ rxHeld \in Nat /\ compHeld \in Nat
          /\ pc \in Labels /\ n \in Nat
          /\ running \in BOOLEAN /\ kicked \in BOOLEAN
      BY Consts DEF Init, Labels
    <2> QED
      BY <1>3, <2>1, <2>2, <2>3, <2>4 DEF TypeOK
  <1>6. NoLeak /\ RingsFit /\ LoopOK
    <2>1. /\ fillVis = 0 /\ txVis = 0 /\ rxHeld = 0 /\ compHeld = 0
          /\ pc = "populate" /\ n = RingSize
      BY DEF Init
    <2>2. NoLeak
      BY <1>4, Consts DEF NoLeak, Held
    <2>3. RingsFit
      BY <1>4, <2>1, Consts DEF RingsFit
    <2>4. LoopOK
      BY <1>4, <2>1, Consts DEF LoopOK
    <2> QED
      BY <2>2, <2>3, <2>4
  <1> QED
    BY <1>5, <1>6 DEF CountInv

(* Two counters bumped at once. *)
LEMMA CountAnswer ==
  ASSUME NEW s \in Stats, NEW x \in Nat, NEW y \in Nat
  PROVE  [s EXCEPT !.rx_packets = x, !.typed = y] \in Stats
  BY DEF Stats

(* The same for the two counters of a rejected packet. *)
LEMMA CountDiscard ==
  ASSUME NEW s \in Stats, NEW x \in Nat, NEW y \in Nat
  PROVE  [s EXCEPT !.rx_packets = x, !.parse_errors = y] \in Stats
  BY DEF Stats

(* The numbers of frames are numbers. *)
LEMMA Counts ==
  ASSUME at \in [Places -> Seq(Frames)]
  PROVE  /\ InPool \in Nat /\ InFill \in Nat /\ InRx \in Nat /\ InBatch \in Nat
         /\ InTx \in Nat /\ InNic \in Nat /\ InComp \in Nat
  BY DEF Places, InPool, InFill, InRx, InBatch, InTx, InNic, InComp

(* Every step keeps the counting invariant: one step per action, and under  *)
(* it the new numbers of frames and the four conjuncts.                     *)
LEMMA CountStep ==
  ASSUME CountInv, [Next]_vars
  PROVE  CountInv'
  <1>a. TypeOK /\ NoLeak /\ RingsFit /\ LoopOK
    BY DEF CountInv
  <1>b. at \in [Places -> Seq(Frames)]
    BY <1>a DEF TypeOK
  <1>c. /\ InPool \in Nat /\ InFill \in Nat /\ InRx \in Nat /\ InBatch \in Nat
        /\ InTx \in Nat /\ InNic \in Nat /\ InComp \in Nat
    BY <1>b, Counts
  <1>1. CASE CheckRunning
    <2>1. at' = at
      BY <1>1 DEF CheckRunning, rings
    <2>2. /\ InPool' = InPool /\ InFill' = InFill /\ InRx' = InRx
          /\ InBatch' = InBatch /\ InTx' = InTx /\ InNic' = InNic
          /\ InComp' = InComp
      BY <2>1 DEF InPool, InFill, InRx, InBatch, InTx, InNic, InComp
    <2>3. TypeOK'
      BY <1>1, <1>a, <1>c, <2>1, <2>2, Consts
      DEF CheckRunning, Goto, Iterate, rings, driver, TypeOK, Labels, LoopOK
    <2>4. NoLeak'
      BY <1>1, <1>a, <1>c, <2>1, <2>2, Consts DEF NoLeak, Held
    <2>5. RingsFit'
      BY <1>1, <1>a, <1>c, <2>1, <2>2, Consts
      DEF CheckRunning, Goto, Iterate, rings, driver, TypeOK, RingsFit, LoopOK, TxHasRoom
    <2>6. LoopOK'
      BY <1>1, <1>a, <1>c, <2>1, <2>2, Consts
      DEF CheckRunning, Goto, Iterate, rings, driver, TypeOK, RingsFit, LoopOK, TxHasRoom
    <2> QED
      BY <2>3, <2>4, <2>5, <2>6 DEF CountInv
  <1>2. CASE PeekComp
    <2>1. at' = at
      BY <1>2 DEF PeekComp, rings
    <2>2. /\ InPool' = InPool /\ InFill' = InFill /\ InRx' = InRx
          /\ InBatch' = InBatch /\ InTx' = InTx /\ InNic' = InNic
          /\ InComp' = InComp
      BY <2>1 DEF InPool, InFill, InRx, InBatch, InTx, InNic, InComp
    <2>3. TypeOK'
      BY <1>2, <1>a, <1>c, <2>1, <2>2, Consts
      DEF PeekComp, Goto, Iterate, rings, driver, TypeOK, Labels, LoopOK, AtMost
    <2>4. NoLeak'
      BY <1>2, <1>a, <1>c, <2>1, <2>2, Consts DEF NoLeak, Held
    <2>5. RingsFit'
      BY <1>2, <1>a, <1>c, <2>1, <2>2, Consts
      DEF PeekComp, Goto, Iterate, rings, driver, TypeOK, RingsFit, LoopOK, TxHasRoom, AtMost
    <2>6. LoopOK'
      BY <1>2, <1>a, <1>c, <2>1, <2>2, Consts
      DEF PeekComp, Goto, Iterate, rings, driver, TypeOK, RingsFit, LoopOK, TxHasRoom, AtMost
    <2> QED
      BY <2>3, <2>4, <2>5, <2>6 DEF CountInv
  <1>3. CASE ReleaseComp
    <2>1. at' = at
      BY <1>3 DEF ReleaseComp, rings
    <2>2. /\ InPool' = InPool /\ InFill' = InFill /\ InRx' = InRx
          /\ InBatch' = InBatch /\ InTx' = InTx /\ InNic' = InNic
          /\ InComp' = InComp
      BY <2>1 DEF InPool, InFill, InRx, InBatch, InTx, InNic, InComp
    <2>3. TypeOK'
      BY <1>3, <1>a, <1>c, <2>1, <2>2, Consts
      DEF ReleaseComp, Goto, Iterate, rings, driver, TypeOK, Labels, LoopOK
    <2>4. NoLeak'
      BY <1>3, <1>a, <1>c, <2>1, <2>2, Consts DEF NoLeak, Held
    <2>5. RingsFit'
      BY <1>3, <1>a, <1>c, <2>1, <2>2, Consts
      DEF ReleaseComp, Goto, Iterate, rings, driver, TypeOK, RingsFit, LoopOK, TxHasRoom
    <2>6. LoopOK'
      BY <1>3, <1>a, <1>c, <2>1, <2>2, Consts
      DEF ReleaseComp, Goto, Iterate, rings, driver, TypeOK, RingsFit, LoopOK, TxHasRoom
    <2> QED
      BY <2>3, <2>4, <2>5, <2>6 DEF CountInv
  <1>4. CASE ReserveFill
    <2>1. at' = at
      BY <1>4 DEF ReserveFill, rings
    <2>2. /\ InPool' = InPool /\ InFill' = InFill /\ InRx' = InRx
          /\ InBatch' = InBatch /\ InTx' = InTx /\ InNic' = InNic
          /\ InComp' = InComp
      BY <2>1 DEF InPool, InFill, InRx, InBatch, InTx, InNic, InComp
    <2>3. TypeOK'
      BY <1>4, <1>a, <1>c, <2>1, <2>2, Consts
      DEF ReserveFill, Goto, Iterate, rings, driver, TypeOK, Labels, LoopOK, ToFill, AtMost
    <2>4. NoLeak'
      BY <1>4, <1>a, <1>c, <2>1, <2>2, Consts DEF NoLeak, Held
    <2>5. RingsFit'
      BY <1>4, <1>a, <1>c, <2>1, <2>2, Consts
      DEF ReserveFill, Goto, Iterate, rings, driver, TypeOK, RingsFit, LoopOK, TxHasRoom, ToFill, AtMost
    <2>6. LoopOK'
      BY <1>4, <1>a, <1>c, <2>1, <2>2, Consts
      DEF ReserveFill, Goto, Iterate, rings, driver, TypeOK, RingsFit, LoopOK, TxHasRoom, ToFill, AtMost
    <2> QED
      BY <2>3, <2>4, <2>5, <2>6 DEF CountInv
  <1>5. CASE PeekRx
    <2>1. at' = at
      BY <1>5 DEF PeekRx, rings
    <2>2. /\ InPool' = InPool /\ InFill' = InFill /\ InRx' = InRx
          /\ InBatch' = InBatch /\ InTx' = InTx /\ InNic' = InNic
          /\ InComp' = InComp
      BY <2>1 DEF InPool, InFill, InRx, InBatch, InTx, InNic, InComp
    <2>3. TypeOK'
      BY <1>5, <1>a, <1>c, <2>1, <2>2, Consts
      DEF PeekRx, Goto, Iterate, rings, driver, TypeOK, Labels, LoopOK, AtMost
    <2>4. NoLeak'
      BY <1>5, <1>a, <1>c, <2>1, <2>2, Consts DEF NoLeak, Held
    <2>5. RingsFit'
      BY <1>5, <1>a, <1>c, <2>1, <2>2, Consts
      DEF PeekRx, Goto, Iterate, rings, driver, TypeOK, RingsFit, LoopOK, TxHasRoom, AtMost
    <2>6. LoopOK'
      BY <1>5, <1>a, <1>c, <2>1, <2>2, Consts
      DEF PeekRx, Goto, Iterate, rings, driver, TypeOK, RingsFit, LoopOK, TxHasRoom, AtMost
    <2> QED
      BY <2>3, <2>4, <2>5, <2>6 DEF CountInv
  <1>6. CASE ReleaseRx
    <2>1. at' = at
      BY <1>6 DEF ReleaseRx, rings
    <2>2. /\ InPool' = InPool /\ InFill' = InFill /\ InRx' = InRx
          /\ InBatch' = InBatch /\ InTx' = InTx /\ InNic' = InNic
          /\ InComp' = InComp
      BY <2>1 DEF InPool, InFill, InRx, InBatch, InTx, InNic, InComp
    <2>3. TypeOK'
      BY <1>6, <1>a, <1>c, <2>1, <2>2, Consts
      DEF ReleaseRx, Goto, Iterate, rings, driver, TypeOK, Labels, LoopOK
    <2>4. NoLeak'
      BY <1>6, <1>a, <1>c, <2>1, <2>2, Consts DEF NoLeak, Held
    <2>5. RingsFit'
      BY <1>6, <1>a, <1>c, <2>1, <2>2, Consts
      DEF ReleaseRx, Goto, Iterate, rings, driver, TypeOK, RingsFit, LoopOK, TxHasRoom
    <2>6. LoopOK'
      BY <1>6, <1>a, <1>c, <2>1, <2>2, Consts
      DEF ReleaseRx, Goto, Iterate, rings, driver, TypeOK, RingsFit, LoopOK, TxHasRoom
    <2> QED
      BY <2>3, <2>4, <2>5, <2>6 DEF CountInv
  <1>7. CASE ReserveTx
    <2>1. at' = at
      BY <1>7 DEF ReserveTx, rings
    <2>2. /\ InPool' = InPool /\ InFill' = InFill /\ InRx' = InRx
          /\ InBatch' = InBatch /\ InTx' = InTx /\ InNic' = InNic
          /\ InComp' = InComp
      BY <2>1 DEF InPool, InFill, InRx, InBatch, InTx, InNic, InComp
    <2>3. TypeOK'
      BY <1>7, <1>a, <1>c, <2>1, <2>2, Consts
      DEF ReserveTx, Goto, Iterate, rings, driver, TypeOK, Labels, LoopOK
    <2>4. NoLeak'
      BY <1>7, <1>a, <1>c, <2>1, <2>2, Consts DEF NoLeak, Held
    <2>5. RingsFit'
      BY <1>7, <1>a, <1>c, <2>1, <2>2, Consts
      DEF ReserveTx, Goto, Iterate, rings, driver, TypeOK, RingsFit, LoopOK, TxHasRoom
    <2>6. LoopOK'
      BY <1>7, <1>a, <1>c, <2>1, <2>2, Consts
      DEF ReserveTx, Goto, Iterate, rings, driver, TypeOK, RingsFit, LoopOK, TxHasRoom
    <2> QED
      BY <2>3, <2>4, <2>5, <2>6 DEF CountInv
  <1>8. CASE SpinKick
    <2>1. at' = at
      BY <1>8 DEF SpinKick, rings
    <2>2. /\ InPool' = InPool /\ InFill' = InFill /\ InRx' = InRx
          /\ InBatch' = InBatch /\ InTx' = InTx /\ InNic' = InNic
          /\ InComp' = InComp
      BY <2>1 DEF InPool, InFill, InRx, InBatch, InTx, InNic, InComp
    <2>3. TypeOK'
      BY <1>8, <1>a, <1>c, <2>1, <2>2, Consts
      DEF SpinKick, Goto, Iterate, rings, driver, TypeOK, Labels, LoopOK
    <2>4. NoLeak'
      BY <1>8, <1>a, <1>c, <2>1, <2>2, Consts DEF NoLeak, Held
    <2>5. RingsFit'
      BY <1>8, <1>a, <1>c, <2>1, <2>2, Consts
      DEF SpinKick, Goto, Iterate, rings, driver, TypeOK, RingsFit, LoopOK, TxHasRoom
    <2>6. LoopOK'
      BY <1>8, <1>a, <1>c, <2>1, <2>2, Consts
      DEF SpinKick, Goto, Iterate, rings, driver, TypeOK, RingsFit, LoopOK, TxHasRoom
    <2> QED
      BY <2>3, <2>4, <2>5, <2>6 DEF CountInv
  <1>9. CASE SubmitTx
    <2>1. at' = at
      BY <1>9 DEF SubmitTx, rings
    <2>2. /\ InPool' = InPool /\ InFill' = InFill /\ InRx' = InRx
          /\ InBatch' = InBatch /\ InTx' = InTx /\ InNic' = InNic
          /\ InComp' = InComp
      BY <2>1 DEF InPool, InFill, InRx, InBatch, InTx, InNic, InComp
    <2>f. /\ pc = "writeTx" /\ InBatch = 0 /\ txVis' = InTx /\ pc' = "top"
          /\ n' = 0 /\ UNCHANGED <<mode, fillVis, rxHeld, compHeld>>
          /\ kicked' \in BOOLEAN /\ UNCHANGED <<running, wire>>
      BY <1>9 DEF SubmitTx, Goto, Iterate, rings, driver
    <2>n. n \in Nat
      BY <1>a DEF TypeOK
    <2>r. stats' \in Stats
      <3>1. stats' = [stats EXCEPT !.tx_packets =
                                      IF mode = "dns" THEN @ + n ELSE @]
        BY <1>9 DEF SubmitTx
      <3>2. stats \in Stats
        BY <1>a DEF TypeOK
      <3> QED
        BY <3>1, <3>2, <2>n DEF Stats
    <2>3. TypeOK'
      BY <2>f, <2>r, <1>a, <1>c, <2>1, <2>2, Consts
      DEF TypeOK, LoopOK, Labels
    <2>4. NoLeak'
      BY <1>a, <1>c, <2>1, <2>2, Consts DEF NoLeak, Held
    <2>5. RingsFit'
      BY <2>f, <1>a, <1>c, <2>1, <2>2, Consts
      DEF TypeOK, RingsFit, LoopOK, TxHasRoom
    <2>6. LoopOK'
      BY <2>f, <1>a, <1>c, <2>1, <2>2, Consts
      DEF TypeOK, RingsFit, LoopOK, TxHasRoom
    <2> QED
      BY <2>3, <2>4, <2>5, <2>6 DEF CountInv
  <1>11. CASE GiveUp
    <2>1. at' = at
      BY <1>11 DEF GiveUp, rings
    <2>2. /\ InPool' = InPool /\ InFill' = InFill /\ InRx' = InRx
          /\ InBatch' = InBatch /\ InTx' = InTx /\ InNic' = InNic
          /\ InComp' = InComp
      BY <2>1 DEF InPool, InFill, InRx, InBatch, InTx, InNic, InComp
    <2>3. TypeOK'
      BY <1>11, <1>a, <1>c, <2>1, <2>2, Consts
      DEF GiveUp, Goto, Iterate, rings, driver, TypeOK, Labels, LoopOK
    <2>4. NoLeak'
      BY <1>11, <1>a, <1>c, <2>1, <2>2, Consts DEF NoLeak, Held
    <2>5. RingsFit'
      BY <1>11, <1>a, <1>c, <2>1, <2>2, Consts
      DEF GiveUp, Goto, Iterate, rings, driver, TypeOK, RingsFit, LoopOK, TxHasRoom
    <2>6. LoopOK'
      BY <1>11, <1>a, <1>c, <2>1, <2>2, Consts
      DEF GiveUp, Goto, Iterate, rings, driver, TypeOK, RingsFit, LoopOK, TxHasRoom
    <2> QED
      BY <2>3, <2>4, <2>5, <2>6 DEF CountInv
  <1>12. CASE Stop
    <2>1. at' = at
      BY <1>12 DEF Stop, rings
    <2>2. /\ InPool' = InPool /\ InFill' = InFill /\ InRx' = InRx
          /\ InBatch' = InBatch /\ InTx' = InTx /\ InNic' = InNic
          /\ InComp' = InComp
      BY <2>1 DEF InPool, InFill, InRx, InBatch, InTx, InNic, InComp
    <2>3. TypeOK'
      BY <1>12, <1>a, <1>c, <2>1, <2>2, Consts
      DEF Stop, Goto, Iterate, rings, driver, TypeOK, Labels, LoopOK
    <2>4. NoLeak'
      BY <1>12, <1>a, <1>c, <2>1, <2>2, Consts DEF NoLeak, Held
    <2>5. RingsFit'
      BY <1>12, <1>a, <1>c, <2>1, <2>2, Consts
      DEF Stop, Goto, Iterate, rings, driver, TypeOK, RingsFit, LoopOK, TxHasRoom
    <2>6. LoopOK'
      BY <1>12, <1>a, <1>c, <2>1, <2>2, Consts
      DEF Stop, Goto, Iterate, rings, driver, TypeOK, RingsFit, LoopOK, TxHasRoom
    <2> QED
      BY <2>3, <2>4, <2>5, <2>6 DEF CountInv
  <1>13. CASE FillOne
    <2>1. InPool > 0 /\ Move("free", "fill")
      BY <1>13, <1>a, <1>c DEF FillOne, Iterate, TypeOK, LoopOK
    <2>2. /\ at' \in [Places -> Seq(Frames)]
          /\ InPool' = InPool - 1 /\ InFill' = InFill + 1
          /\ InRx' = InRx /\ InBatch' = InBatch /\ InTx' = InTx
          /\ InNic' = InNic /\ InComp' = InComp
      <3>1. "free" \in Places /\ "fill" \in Places
        BY DEF Places
      <3>2. Len(at["free"]) > 0
        BY <2>1 DEF InPool
      <3>3. /\ at' \in [Places -> Seq(Frames)]
            /\ Len(at'["free"]) = Len(at["free"]) - 1
            /\ Len(at'["fill"]) = Len(at["fill"]) + 1
            /\ \A r \in Places \ {"free", "fill"} : at'[r] = at[r]
        BY <1>b, <2>1, <3>1, <3>2, MoveStep
      <3> QED
        BY <3>3 DEF Places, InPool, InFill, InRx, InBatch, InTx, InNic, InComp
    <2>3. TypeOK'
      BY <1>13, <1>a, <1>c, <2>1, <2>2, Consts
      DEF FillOne, Goto, Iterate, rings, driver, TypeOK, Labels, LoopOK
    <2>4. NoLeak'
      BY <1>13, <1>a, <1>c, <2>1, <2>2, Consts DEF NoLeak, Held
    <2>5. RingsFit'
      BY <1>13, <1>a, <1>c, <2>1, <2>2, Consts
      DEF FillOne, Goto, Iterate, rings, driver, TypeOK, RingsFit, LoopOK, TxHasRoom
    <2>6. LoopOK'
      BY <1>13, <1>a, <1>c, <2>1, <2>2, Consts
      DEF FillOne, Goto, Iterate, rings, driver, TypeOK, RingsFit, LoopOK, TxHasRoom
    <2> QED
      BY <2>3, <2>4, <2>5, <2>6 DEF CountInv
  <1>14. CASE AnswerOne
    <2>1. InRx > 0 /\ Move("rx", "batch")
      BY <1>14, <1>a, <1>c DEF AnswerOne, Answers, Iterate, TypeOK, LoopOK
    <2>2. /\ at' \in [Places -> Seq(Frames)]
          /\ InRx' = InRx - 1 /\ InBatch' = InBatch + 1
          /\ InPool' = InPool /\ InFill' = InFill /\ InTx' = InTx
          /\ InNic' = InNic /\ InComp' = InComp
      <3>1. "rx" \in Places /\ "batch" \in Places
        BY DEF Places
      <3>2. Len(at["rx"]) > 0
        BY <2>1 DEF InRx
      <3>3. /\ at' \in [Places -> Seq(Frames)]
            /\ Len(at'["rx"]) = Len(at["rx"]) - 1
            /\ Len(at'["batch"]) = Len(at["batch"]) + 1
            /\ \A r \in Places \ {"rx", "batch"} : at'[r] = at[r]
        BY <1>b, <2>1, <3>1, <3>2, MoveStep
      <3> QED
        BY <3>3 DEF Places, InPool, InFill, InRx, InBatch, InTx, InNic, InComp
    <2>f. /\ pc = "process" /\ n > 0 /\ n' = n - 1 /\ rxHeld' = rxHeld + 1
          /\ UNCHANGED <<mode, fillVis, txVis, compHeld, pc>>
          /\ UNCHANGED <<running, kicked, wire>>
      BY <1>14 DEF AnswerOne, Answers, Goto, Iterate, rings, driver
    <2>r. stats' \in Stats
      <3>1. stats' = [stats EXCEPT
                            !.rx_packets = @ + 1,
                            !.typed = IF mode = "dns" THEN @ + 1 ELSE @]
        BY <1>14 DEF AnswerOne, Answers
      <3>2. stats \in Stats
        BY <1>a DEF TypeOK
      <3>3. stats.rx_packets + 1 \in Nat
            /\ (IF mode = "dns" THEN stats.typed + 1 ELSE stats.typed) \in Nat
        BY <3>2 DEF Stats
      <3> QED
        BY <3>1, <3>2, <3>3, CountAnswer
    <2>3. TypeOK'
      BY <2>f, <2>r, <1>a, <1>c, <2>1, <2>2, Consts
      DEF TypeOK, LoopOK, Labels
    <2>4. NoLeak'
      BY <1>a, <1>c, <2>1, <2>2, Consts DEF NoLeak, Held
    <2>5. RingsFit'
      BY <2>f, <1>a, <1>c, <2>1, <2>2, Consts
      DEF TypeOK, RingsFit, LoopOK, TxHasRoom
    <2>6. LoopOK'
      BY <2>f, <1>a, <1>c, <2>1, <2>2, Consts
      DEF TypeOK, RingsFit, LoopOK, TxHasRoom
    <2> QED
      BY <2>3, <2>4, <2>5, <2>6 DEF CountInv
  <1>15. CASE WriteOne
    <2>1. InBatch > 0 /\ Move("batch", "tx")
      BY <1>15, <1>a, <1>c DEF WriteOne, Iterate, TypeOK, LoopOK
    <2>2. /\ at' \in [Places -> Seq(Frames)]
          /\ InBatch' = InBatch - 1 /\ InTx' = InTx + 1
          /\ InPool' = InPool /\ InFill' = InFill /\ InRx' = InRx
          /\ InNic' = InNic /\ InComp' = InComp
      <3>1. "batch" \in Places /\ "tx" \in Places
        BY DEF Places
      <3>2. Len(at["batch"]) > 0
        BY <2>1 DEF InBatch
      <3>3. /\ at' \in [Places -> Seq(Frames)]
            /\ Len(at'["batch"]) = Len(at["batch"]) - 1
            /\ Len(at'["tx"]) = Len(at["tx"]) + 1
            /\ \A r \in Places \ {"batch", "tx"} : at'[r] = at[r]
        BY <1>b, <2>1, <3>1, <3>2, MoveStep
      <3> QED
        BY <3>3 DEF Places, InPool, InFill, InRx, InBatch, InTx, InNic, InComp
    <2>3. TypeOK'
      BY <1>15, <1>a, <1>c, <2>1, <2>2, Consts
      DEF WriteOne, Goto, Iterate, rings, driver, TypeOK, Labels, LoopOK
    <2>4. NoLeak'
      BY <1>15, <1>a, <1>c, <2>1, <2>2, Consts DEF NoLeak, Held
    <2>5. RingsFit'
      BY <1>15, <1>a, <1>c, <2>1, <2>2, Consts
      DEF WriteOne, Goto, Iterate, rings, driver, TypeOK, RingsFit, LoopOK, TxHasRoom
    <2>6. LoopOK'
      BY <1>15, <1>a, <1>c, <2>1, <2>2, Consts
      DEF WriteOne, Goto, Iterate, rings, driver, TypeOK, RingsFit, LoopOK, TxHasRoom
    <2> QED
      BY <2>3, <2>4, <2>5, <2>6 DEF CountInv
  <1>16. CASE Receive
    <2>1. InFill > 0 /\ Move("fill", "rx")
      BY <1>16, <1>a, <1>c DEF Receive, Iterate, TypeOK, LoopOK, CanReceive
    <2>2. /\ at' \in [Places -> Seq(Frames)]
          /\ InFill' = InFill - 1 /\ InRx' = InRx + 1
          /\ InPool' = InPool /\ InBatch' = InBatch /\ InTx' = InTx
          /\ InNic' = InNic /\ InComp' = InComp
      <3>1. "fill" \in Places /\ "rx" \in Places
        BY DEF Places
      <3>2. Len(at["fill"]) > 0
        BY <2>1 DEF InFill
      <3>3. /\ at' \in [Places -> Seq(Frames)]
            /\ Len(at'["fill"]) = Len(at["fill"]) - 1
            /\ Len(at'["rx"]) = Len(at["rx"]) + 1
            /\ \A r \in Places \ {"fill", "rx"} : at'[r] = at[r]
        BY <1>b, <2>1, <3>1, <3>2, MoveStep
      <3> QED
        BY <3>3 DEF Places, InPool, InFill, InRx, InBatch, InTx, InNic, InComp
    <2>f. /\ fillVis > 0 /\ fillVis' = fillVis - 1 /\ InRx + rxHeld < RingSize
          /\ UNCHANGED <<mode, txVis, rxHeld, compHeld, pc, n>>
          /\ UNCHANGED <<stats, running, kicked>>
      BY <1>16 DEF Receive, Goto, Iterate, rings, driver, CanReceive
    <2>r. wire' \in [delivered : Nat, sent : Nat]
      <3>1. wire' = [wire EXCEPT !.delivered = @ + 1]
        BY <1>16 DEF Receive
      <3>2. wire \in [delivered : Nat, sent : Nat]
        BY <1>a DEF TypeOK
      <3> QED
        BY <3>1, <3>2
    <2>3. TypeOK'
      BY <2>f, <2>r, <1>a, <1>c, <2>1, <2>2, Consts
      DEF TypeOK, LoopOK, Labels
    <2>4. NoLeak'
      BY <1>a, <1>c, <2>1, <2>2, Consts DEF NoLeak, Held
    <2>5. RingsFit'
      BY <2>f, <1>a, <1>c, <2>1, <2>2, Consts
      DEF TypeOK, RingsFit, LoopOK, TxHasRoom
    <2>6. LoopOK'
      BY <2>f, <1>a, <1>c, <2>1, <2>2, Consts
      DEF TypeOK, RingsFit, LoopOK, TxHasRoom
    <2> QED
      BY <2>3, <2>4, <2>5, <2>6 DEF CountInv
  <1>17. CASE Transmit
    <2>1. InTx > 0 /\ Move("tx", "nic")
      BY <1>17, <1>a, <1>c DEF Transmit, Iterate, TypeOK, LoopOK
    <2>2. /\ at' \in [Places -> Seq(Frames)]
          /\ InTx' = InTx - 1 /\ InNic' = InNic + 1
          /\ InPool' = InPool /\ InFill' = InFill /\ InRx' = InRx
          /\ InBatch' = InBatch /\ InComp' = InComp
      <3>1. "tx" \in Places /\ "nic" \in Places
        BY DEF Places
      <3>2. Len(at["tx"]) > 0
        BY <2>1 DEF InTx
      <3>3. /\ at' \in [Places -> Seq(Frames)]
            /\ Len(at'["tx"]) = Len(at["tx"]) - 1
            /\ Len(at'["nic"]) = Len(at["nic"]) + 1
            /\ \A r \in Places \ {"tx", "nic"} : at'[r] = at[r]
        BY <1>b, <2>1, <3>1, <3>2, MoveStep
      <3> QED
        BY <3>3 DEF Places, InPool, InFill, InRx, InBatch, InTx, InNic, InComp
    <2>f. /\ txVis > 0 /\ txVis' = txVis - 1
          /\ InNic + InComp + compHeld < RingSize
          /\ UNCHANGED <<mode, fillVis, rxHeld, compHeld, pc, n>>
          /\ kicked' \in BOOLEAN /\ UNCHANGED <<stats, running>>
      BY <1>17 DEF Transmit, Goto, Iterate, rings, driver
    <2>r. wire' \in [delivered : Nat, sent : Nat]
      <3>1. wire' = [wire EXCEPT !.sent = @ + 1]
        BY <1>17 DEF Transmit
      <3>2. wire \in [delivered : Nat, sent : Nat]
        BY <1>a DEF TypeOK
      <3> QED
        BY <3>1, <3>2
    <2>3. TypeOK'
      BY <2>f, <2>r, <1>a, <1>c, <2>1, <2>2, Consts
      DEF TypeOK, LoopOK, Labels
    <2>4. NoLeak'
      BY <1>a, <1>c, <2>1, <2>2, Consts DEF NoLeak, Held
    <2>5. RingsFit'
      BY <2>f, <1>a, <1>c, <2>1, <2>2, Consts
      DEF TypeOK, RingsFit, LoopOK, TxHasRoom
    <2>6. LoopOK'
      BY <2>f, <1>a, <1>c, <2>1, <2>2, Consts
      DEF TypeOK, RingsFit, LoopOK, TxHasRoom
    <2> QED
      BY <2>3, <2>4, <2>5, <2>6 DEF CountInv
  <1>18. CASE Complete
    <2>1. InNic > 0 /\ Move("nic", "comp")
      BY <1>18, <1>a, <1>c DEF Complete, Iterate, TypeOK, LoopOK
    <2>2. /\ at' \in [Places -> Seq(Frames)]
          /\ InNic' = InNic - 1 /\ InComp' = InComp + 1
          /\ InPool' = InPool /\ InFill' = InFill /\ InRx' = InRx
          /\ InBatch' = InBatch /\ InTx' = InTx
      <3>1. "nic" \in Places /\ "comp" \in Places
        BY DEF Places
      <3>2. Len(at["nic"]) > 0
        BY <2>1 DEF InNic
      <3>3. /\ at' \in [Places -> Seq(Frames)]
            /\ Len(at'["nic"]) = Len(at["nic"]) - 1
            /\ Len(at'["comp"]) = Len(at["comp"]) + 1
            /\ \A r \in Places \ {"nic", "comp"} : at'[r] = at[r]
        BY <1>b, <2>1, <3>1, <3>2, MoveStep
      <3> QED
        BY <3>3 DEF Places, InPool, InFill, InRx, InBatch, InTx, InNic, InComp
    <2>3. TypeOK'
      BY <1>18, <1>a, <1>c, <2>1, <2>2, Consts
      DEF Complete, Goto, Iterate, rings, driver, TypeOK, Labels, LoopOK
    <2>4. NoLeak'
      BY <1>18, <1>a, <1>c, <2>1, <2>2, Consts DEF NoLeak, Held
    <2>5. RingsFit'
      BY <1>18, <1>a, <1>c, <2>1, <2>2, Consts
      DEF Complete, Goto, Iterate, rings, driver, TypeOK, RingsFit, LoopOK, TxHasRoom
    <2>6. LoopOK'
      BY <1>18, <1>a, <1>c, <2>1, <2>2, Consts
      DEF Complete, Goto, Iterate, rings, driver, TypeOK, RingsFit, LoopOK, TxHasRoom
    <2> QED
      BY <2>3, <2>4, <2>5, <2>6 DEF CountInv
  <1>19. CASE ReclaimOne
    <2>1. InComp > 0 /\ Free("comp")
      BY <1>19, <1>a, <1>c DEF ReclaimOne, Iterate, TypeOK, LoopOK
    <2>2. /\ at' \in [Places -> Seq(Frames)]
          /\ InComp' = InComp - 1 /\ InPool' = InPool + 1
          /\ InFill' = InFill /\ InRx' = InRx /\ InBatch' = InBatch
          /\ InTx' = InTx /\ InNic' = InNic
      <3>1. "comp" \in Places /\ "free" \in Places
        BY DEF Places
      <3>2. Len(at["comp"]) > 0
        BY <2>1 DEF InComp
      <3>3. /\ at' \in [Places -> Seq(Frames)]
            /\ Len(at'["comp"]) = Len(at["comp"]) - 1
            /\ Len(at'["free"]) = Len(at["free"]) + 1
            /\ \A r \in Places \ {"comp", "free"} : at'[r] = at[r]
        BY <1>b, <2>1, <3>1, <3>2, FreeStep
      <3> QED
        BY <3>3 DEF Places, InPool, InFill, InRx, InBatch, InTx, InNic, InComp
    <2>3. TypeOK'
      BY <1>19, <1>a, <1>c, <2>1, <2>2, Consts
      DEF ReclaimOne, Goto, Iterate, rings, driver, TypeOK, Labels, LoopOK
    <2>4. NoLeak'
      BY <1>19, <1>a, <1>c, <2>1, <2>2, Consts DEF NoLeak, Held
    <2>5. RingsFit'
      BY <1>19, <1>a, <1>c, <2>1, <2>2, Consts
      DEF ReclaimOne, Goto, Iterate, rings, driver, TypeOK, RingsFit, LoopOK, TxHasRoom
    <2>6. LoopOK'
      BY <1>19, <1>a, <1>c, <2>1, <2>2, Consts
      DEF ReclaimOne, Goto, Iterate, rings, driver, TypeOK, RingsFit, LoopOK, TxHasRoom
    <2> QED
      BY <2>3, <2>4, <2>5, <2>6 DEF CountInv
  <1>20. CASE DiscardOne
    <2>1. InRx > 0 /\ Free("rx")
      BY <1>20, <1>a, <1>c DEF DiscardOne, CountsRejected, Iterate, TypeOK, LoopOK
    <2>2. /\ at' \in [Places -> Seq(Frames)]
          /\ InRx' = InRx - 1 /\ InPool' = InPool + 1
          /\ InFill' = InFill /\ InBatch' = InBatch /\ InTx' = InTx
          /\ InNic' = InNic /\ InComp' = InComp
      <3>1. "rx" \in Places /\ "free" \in Places
        BY DEF Places
      <3>2. Len(at["rx"]) > 0
        BY <2>1 DEF InRx
      <3>3. /\ at' \in [Places -> Seq(Frames)]
            /\ Len(at'["rx"]) = Len(at["rx"]) - 1
            /\ Len(at'["free"]) = Len(at["free"]) + 1
            /\ \A r \in Places \ {"rx", "free"} : at'[r] = at[r]
        BY <1>b, <2>1, <3>1, <3>2, FreeStep
      <3> QED
        BY <3>3 DEF Places, InPool, InFill, InRx, InBatch, InTx, InNic, InComp
    <2>f. /\ pc = "process" /\ n > 0 /\ n' = n - 1 /\ rxHeld' = rxHeld + 1
          /\ UNCHANGED <<mode, fillVis, txVis, compHeld, pc>>
          /\ UNCHANGED <<running, kicked, wire>>
      BY <1>20 DEF DiscardOne, CountsRejected, Goto, Iterate, rings, driver
    <2>r. stats' \in Stats
      <3>1. stats' = [stats EXCEPT
                 !.rx_packets = IF mode = "nxdomain" THEN @ ELSE @ + 1,
                 !.parse_errors = IF mode = "dns" THEN @ + 1 ELSE @]
        BY <1>20 DEF DiscardOne, CountsRejected
      <3>2. stats \in Stats
        BY <1>a DEF TypeOK
      <3>3. (IF mode = "nxdomain" THEN stats.rx_packets
                                  ELSE stats.rx_packets + 1) \in Nat
            /\ (IF mode = "dns" THEN stats.parse_errors + 1
                                ELSE stats.parse_errors) \in Nat
        BY <3>2 DEF Stats
      <3> QED
        BY <3>1, <3>2, <3>3, CountDiscard
    <2>3. TypeOK'
      BY <2>f, <2>r, <1>a, <1>c, <2>1, <2>2, Consts
      DEF TypeOK, LoopOK, Labels
    <2>4. NoLeak'
      BY <1>a, <1>c, <2>1, <2>2, Consts DEF NoLeak, Held
    <2>5. RingsFit'
      BY <2>f, <1>a, <1>c, <2>1, <2>2, Consts
      DEF TypeOK, RingsFit, LoopOK, TxHasRoom
    <2>6. LoopOK'
      BY <2>f, <1>a, <1>c, <2>1, <2>2, Consts
      DEF TypeOK, RingsFit, LoopOK, TxHasRoom
    <2> QED
      BY <2>3, <2>4, <2>5, <2>6 DEF CountInv
  <1>21. CASE SubmitFill
    <2>0. n = 0
      BY <1>21, <1>a, <1>c DEF SubmitFill, RingsFit, TypeOK
    <2>1. at' = at
      <3>1. PICK stale \in [1..n -> Frames \union {0}] :
               at' = [at EXCEPT !["fill"] = @ \o stale]
        BY <1>21 DEF SubmitFill
      <3>2. stale = << >>
        BY <2>0, <3>1
      <3> QED
        BY <1>b, <3>1, <3>2 DEF Places
    <2>2. /\ InPool' = InPool /\ InFill' = InFill /\ InRx' = InRx
          /\ InBatch' = InBatch /\ InTx' = InTx /\ InNic' = InNic
          /\ InComp' = InComp
      BY <2>1 DEF InPool, InFill, InRx, InBatch, InTx, InNic, InComp
    <2>f. /\ pc \in {"populate", "refill"} /\ fillVis' = InFill + n
          /\ pc' = (IF pc = "populate" THEN "top" ELSE "peekRx") /\ n' = 0
          /\ UNCHANGED <<mode, txVis, rxHeld, compHeld>>
          /\ UNCHANGED <<stats, running, kicked, wire>>
      BY <1>21 DEF SubmitFill, Goto, driver
    <2>3. TypeOK'
      BY <2>f, <1>a, <1>b, <1>c, <2>0, <2>1, <2>2, Consts
      DEF TypeOK, LoopOK, Labels
    <2>4. NoLeak'
      BY <1>21, <1>a, <1>c, <2>0, <2>1, <2>2, Consts DEF NoLeak, Held
    <2>5. RingsFit'
      BY <1>21, <1>a, <1>c, <2>0, <2>1, <2>2, Consts
      DEF SubmitFill, Goto, Iterate, rings, driver, TypeOK, RingsFit, LoopOK, TxHasRoom
    <2>6. LoopOK'
      BY <1>21, <1>a, <1>c, <2>0, <2>1, <2>2, Consts
      DEF SubmitFill, Goto, Iterate, rings, driver, TypeOK, RingsFit, LoopOK, TxHasRoom
    <2> QED
      BY <2>3, <2>4, <2>5, <2>6 DEF CountInv
  <1>22. CASE UNCHANGED vars
    BY <1>22, <1>a
    DEF vars, Goto, Iterate, rings, driver, CountInv, TypeOK, NoLeak, Held, RingsFit, LoopOK,
        TxHasRoom, InPool, InFill, InRx, InBatch, InTx, InNic, InComp
  <1> QED
    BY <1>1, <1>2, <1>3, <1>4, <1>5, <1>6, <1>7, <1>8, <1>9, <1>11, <1>12, <1>13, <1>14, <1>15, <1>16, <1>17, <1>18, <1>19, <1>20, <1>21, <1>22 DEF Next, Worker, Kernel

-----------------------------------------------------------------------------
(* The counting properties hold in every reachable state, provided the UMEM *)
(* has a frame for every slot of the fill ring: no frame is lost, no ring   *)
(* or batch overrun, no unwritten slot submitted, nothing left behind.      *)
THEOREM Counting ==
  ASSUME FrameCount >= RingSize
  PROVE  Spec => [](TypeOK /\ NoLeak /\ RingsFit /\ CleanExit)
  <1>1. Init => CountInv
    BY CountInit
  <1>2. CountInv /\ [Next]_vars => CountInv'
    BY CountStep
  <1>3. CountInv => TypeOK /\ NoLeak /\ RingsFit /\ CleanExit
    BY DEF CountInv, LoopOK, CleanExit
  <1> QED
    BY <1>1, <1>2, <1>3, PTL DEF Spec

-----------------------------------------------------------------------------
(* Moving a frame keeps every frame with one owner: from(r, i) and index(r, i)
   say where entry i of place r was before the step. *)
LEMMA MoveOwner ==
  ASSUME at \in [Places -> Seq(Frames)], OneOwner,
         NEW p \in Places, NEW q \in Places, p # q, Len(at[p]) > 0, Move(p, q)
  PROVE  OneOwner'
  <1> DEFINE from(r, i)  == IF r = q /\ i = Len(at[q]) + 1 THEN p ELSE r
             index(r, i) == IF r = q /\ i = Len(at[q]) + 1 THEN 1
                            ELSE IF r = p THEN i + 1 ELSE i
  <1>1. at[p] \in Seq(Frames) /\ at[q] \in Seq(Frames) /\ at[p] # << >>
    OBVIOUS
  <1>2. at'[p] = Tail(at[p]) /\ at'[q] = Append(at[q], Head(at[p]))
    BY <1>1 DEF Move
  <1>3. \A r \in Places \ {p, q} : at'[r] = at[r]
    BY <1>1 DEF Move
  <1>4. /\ Len(at'[p]) = Len(at[p]) - 1 /\ Len(at[p]) \in Nat
        /\ \A i \in 1..Len(at[p]) - 1 : at'[p][i] = at[p][i + 1]
        /\ Head(at[p]) \in Frames /\ Head(at[p]) = at[p][1]
    BY <1>1, <1>2, TakeHead
  <1>5. /\ Len(at'[q]) = Len(at[q]) + 1 /\ Len(at[q]) \in Nat
        /\ \A i \in 1..Len(at[q]) : at'[q][i] = at[q][i]
        /\ at'[q][Len(at[q]) + 1] = at[p][1]
    BY <1>1, <1>2, <1>4, AddLast
  <1>6. ASSUME NEW r \in Places, NEW i \in 1..Len(at'[r])
        PROVE  /\ i \in Nat \ {0}
               /\ from(r, i) \in Places
               /\ index(r, i) \in 1..Len(at[from(r, i)])
               /\ at'[r][i] = at[from(r, i)][index(r, i)]
    <2>1. CASE r = p
      BY <2>1, <1>4
    <2>2. CASE r = q
      BY <2>2, <1>1, <1>4, <1>5
    <2>3. CASE r # p /\ r # q
      BY <2>3, <1>3
    <2> QED
      BY <2>1, <2>2, <2>3
  <1>7. SUFFICES ASSUME NEW r \in Places, NEW t \in Places,
                        NEW i \in 1..Len(at'[r]), NEW j \in 1..Len(at'[t]),
                        at'[r][i] = at'[t][j]
                 PROVE  r = t /\ i = j
    BY DEF OneOwner
  <1>8. from(r, i) = from(t, j) /\ index(r, i) = index(t, j)
    <2>1. /\ from(r, i) \in Places /\ index(r, i) \in 1..Len(at[from(r, i)])
          /\ from(t, j) \in Places /\ index(t, j) \in 1..Len(at[from(t, j)])
          /\ at[from(r, i)][index(r, i)] = at[from(t, j)][index(t, j)]
      BY <1>6, <1>7
    <2> HIDE DEF from, index
    <2> QED
      BY <2>1 DEF OneOwner
  <1>9. i \in Nat \ {0} /\ j \in Nat \ {0} /\ Len(at[q]) \in Nat
    BY <1>5, <1>6
  <1> QED
    BY <1>8, <1>9

(* So does pushing it on the free stack. *)
LEMMA FreeOwner ==
  ASSUME at \in [Places -> Seq(Frames)], OneOwner,
         NEW p \in Places, p # "free", Len(at[p]) > 0, Free(p)
  PROVE  OneOwner'
  <1> DEFINE from(r, i)  == IF r = "free" /\ i = 1 THEN p ELSE r
             index(r, i) == IF r = "free" /\ i = 1 THEN 1
                            ELSE IF r = "free" THEN i - 1
                            ELSE IF r = p THEN i + 1 ELSE i
  <1>1. at[p] \in Seq(Frames) /\ at["free"] \in Seq(Frames) /\ at[p] # << >>
        /\ "free" \in Places
    BY DEF Places
  <1>2. at'[p] = Tail(at[p]) /\ at'["free"] = <<Head(at[p])>> \o at["free"]
    BY <1>1 DEF Free
  <1>3. \A r \in Places \ {p, "free"} : at'[r] = at[r]
    BY <1>1 DEF Free
  <1>4. /\ Len(at'[p]) = Len(at[p]) - 1 /\ Len(at[p]) \in Nat
        /\ \A i \in 1..Len(at[p]) - 1 : at'[p][i] = at[p][i + 1]
        /\ Head(at[p]) \in Frames /\ Head(at[p]) = at[p][1]
    BY <1>1, <1>2, TakeHead
  <1>5. /\ Len(at'["free"]) = Len(at["free"]) + 1 /\ Len(at["free"]) \in Nat
        /\ \A i \in 2..Len(at["free"]) + 1 : at'["free"][i] = at["free"][i - 1]
        /\ at'["free"][1] = at[p][1]
    BY <1>1, <1>2, <1>4, AddTop
  <1>6. ASSUME NEW r \in Places, NEW i \in 1..Len(at'[r])
        PROVE  /\ i \in Nat \ {0}
               /\ from(r, i) \in Places
               /\ index(r, i) \in 1..Len(at[from(r, i)])
               /\ at'[r][i] = at[from(r, i)][index(r, i)]
    <2>1. CASE r = p
      BY <2>1, <1>4
    <2>2. CASE r = "free"
      BY <2>2, <1>1, <1>4, <1>5
    <2>3. CASE r # p /\ r # "free"
      BY <2>3, <1>3
    <2> QED
      BY <2>1, <2>2, <2>3
  <1>7. SUFFICES ASSUME NEW r \in Places, NEW t \in Places,
                        NEW i \in 1..Len(at'[r]), NEW j \in 1..Len(at'[t]),
                        at'[r][i] = at'[t][j]
                 PROVE  r = t /\ i = j
    BY DEF OneOwner
  <1>8. from(r, i) = from(t, j) /\ index(r, i) = index(t, j)
    <2>1. /\ from(r, i) \in Places /\ index(r, i) \in 1..Len(at[from(r, i)])
          /\ from(t, j) \in Places /\ index(t, j) \in 1..Len(at[from(t, j)])
          /\ at[from(r, i)][index(r, i)] = at[from(t, j)][index(t, j)]
      BY <1>6, <1>7
    <2> HIDE DEF from, index
    <2> QED
      BY <2>1 DEF OneOwner
  <1>9. i \in Nat \ {0} /\ j \in Nat \ {0} /\ Len(at["free"]) \in Nat
    BY <1>5, <1>6
  <1> QED
    BY <1>8, <1>9

(* A step moves one frame along one of eight edges, or none. *)
LEMMA StepShape ==
  ASSUME CountInv, [Next]_vars
  PROVE  \/ at' = at
         \/ Len(at["free"]) > 0 /\ Move("free", "fill")
         \/ Len(at["rx"]) > 0 /\ Move("rx", "batch")
         \/ Len(at["batch"]) > 0 /\ Move("batch", "tx")
         \/ Len(at["fill"]) > 0 /\ Move("fill", "rx")
         \/ Len(at["tx"]) > 0 /\ Move("tx", "nic")
         \/ Len(at["nic"]) > 0 /\ Move("nic", "comp")
         \/ Len(at["comp"]) > 0 /\ Free("comp")
         \/ Len(at["rx"]) > 0 /\ Free("rx")
  <1>a. TypeOK /\ RingsFit /\ LoopOK /\ at \in [Places -> Seq(Frames)]
    BY DEF CountInv, TypeOK
  <1>b. /\ InPool \in Nat /\ InFill \in Nat /\ InRx \in Nat /\ InBatch \in Nat
        /\ InTx \in Nat /\ InNic \in Nat /\ InComp \in Nat
    BY <1>a, Counts
  <1>1. CASE FillOne
    <2>1. InPool > 0 /\ Move("free", "fill")
      BY <1>1, <1>a, <1>b DEF FillOne, Iterate, TypeOK, LoopOK
    <2> QED
      BY <2>1 DEF InPool
  <1>2. CASE AnswerOne
    <2>1. InRx > 0 /\ Move("rx", "batch")
      BY <1>2, <1>a, <1>b DEF AnswerOne, Answers, Iterate, TypeOK, LoopOK
    <2> QED
      BY <2>1 DEF InRx
  <1>3. CASE WriteOne
    <2>1. InBatch > 0 /\ Move("batch", "tx")
      BY <1>3, <1>a, <1>b DEF WriteOne, Iterate, TypeOK, LoopOK
    <2> QED
      BY <2>1 DEF InBatch
  <1>4. CASE Receive
    <2>1. InFill > 0 /\ Move("fill", "rx")
      BY <1>4, <1>a, <1>b DEF Receive, Iterate, TypeOK, LoopOK, CanReceive
    <2> QED
      BY <2>1 DEF InFill
  <1>5. CASE Transmit
    <2>1. InTx > 0 /\ Move("tx", "nic")
      BY <1>5, <1>a, <1>b DEF Transmit, Iterate, TypeOK, LoopOK
    <2> QED
      BY <2>1 DEF InTx
  <1>6. CASE Complete
    <2>1. InNic > 0 /\ Move("nic", "comp")
      BY <1>6, <1>a, <1>b DEF Complete, Iterate, TypeOK, LoopOK
    <2> QED
      BY <2>1 DEF InNic
  <1>7. CASE ReclaimOne
    <2>1. InComp > 0 /\ Free("comp")
      BY <1>7, <1>a, <1>b DEF ReclaimOne, Iterate, TypeOK, LoopOK
    <2> QED
      BY <2>1 DEF InComp
  <1>8. CASE DiscardOne
    <2>1. InRx > 0 /\ Free("rx")
      BY <1>8, <1>a, <1>b DEF DiscardOne, CountsRejected, Iterate, TypeOK, LoopOK
    <2> QED
      BY <2>1 DEF InRx
  <1>9. CASE SubmitFill
    <2>1. n = 0
      BY <1>9, <1>a, <1>b DEF SubmitFill, RingsFit, TypeOK
    <2>2. PICK stale \in [1..n -> Frames \union {0}] :
             at' = [at EXCEPT !["fill"] = @ \o stale]
      BY <1>9 DEF SubmitFill
    <2>3. stale = << >>
      BY <2>1, <2>2
    <2> QED
      BY <1>a, <2>2, <2>3 DEF Places
  <1>10. CASE \/ CheckRunning \/ PeekComp \/ ReleaseComp \/ ReserveFill
             \/ PeekRx \/ ReleaseRx \/ ReserveTx \/ SpinKick
             \/ SubmitTx \/ GiveUp \/ Stop \/ UNCHANGED vars
    BY <1>10 DEF CheckRunning, PeekComp, ReleaseComp, ReserveFill, PeekRx, ReleaseRx,
                ReserveTx, SpinKick, SubmitTx, GiveUp, Stop, vars, rings
  <1> QED
    BY <1>1, <1>2, <1>3, <1>4, <1>5, <1>6, <1>7, <1>8, <1>9, <1>10 DEF Next, Worker, Kernel

(* The inductive invariant of the queue. *)
QueueInv == CountInv /\ OneOwner

(* The stack starts with every frame once. *)
LEMMA QueueInit ==
  ASSUME FrameCount >= RingSize, Init
  PROVE  QueueInv
  <1>1. CountInv
    BY CountInit
  <1>2. \A p \in Places \ {"free"} : Len(at[p]) = 0
    BY DEF Init
  <1>3. at["free"] = [i \in 1..FrameCount |-> FrameCount - i]
    BY DEF Init, Places
  <1>4. Len(at["free"]) = FrameCount
    BY <1>3, Consts
  <1>5. \A i, j \in 1..FrameCount : at["free"][i] = at["free"][j] => i = j
    BY <1>3, Consts
  <1>6. OneOwner
    BY <1>2, <1>4, <1>5 DEF OneOwner
  <1> QED
    BY <1>1, <1>6 DEF QueueInv

(* Whatever edge the frame of a step goes along, it keeps one owner. *)
LEMMA QueueStep ==
  ASSUME QueueInv, [Next]_vars
  PROVE  QueueInv'
  <1>1. CountInv'
    BY CountStep DEF QueueInv
  <1>2. at \in [Places -> Seq(Frames)] /\ CountInv /\ OneOwner
    BY DEF QueueInv, CountInv, TypeOK
  <1>3. {"free", "fill", "rx", "batch", "tx", "nic", "comp"} \subseteq Places
    BY DEF Places
  <1>4. OneOwner'
    <2>1. CASE at' = at
      BY <2>1, <1>2 DEF OneOwner
    <2>2. CASE Len(at["free"]) > 0 /\ Move("free", "fill")
      BY <2>2, <1>2, <1>3, MoveOwner
    <2>3. CASE Len(at["rx"]) > 0 /\ Move("rx", "batch")
      BY <2>3, <1>2, <1>3, MoveOwner
    <2>4. CASE Len(at["batch"]) > 0 /\ Move("batch", "tx")
      BY <2>4, <1>2, <1>3, MoveOwner
    <2>5. CASE Len(at["fill"]) > 0 /\ Move("fill", "rx")
      BY <2>5, <1>2, <1>3, MoveOwner
    <2>6. CASE Len(at["tx"]) > 0 /\ Move("tx", "nic")
      BY <2>6, <1>2, <1>3, MoveOwner
    <2>7. CASE Len(at["nic"]) > 0 /\ Move("nic", "comp")
      BY <2>7, <1>2, <1>3, MoveOwner
    <2>8. CASE Len(at["comp"]) > 0 /\ Free("comp")
      BY <2>8, <1>2, <1>3, FreeOwner
    <2>9. CASE Len(at["rx"]) > 0 /\ Free("rx")
      BY <2>9, <1>2, <1>3, FreeOwner
    <2> QED
      BY <1>2, StepShape, <2>1, <2>2, <2>3, <2>4, <2>5, <2>6, <2>7, <2>8, <2>9
  <1> QED
    BY <1>1, <1>4 DEF QueueInv

(* Every frame address is in at most one place at a time: no packet buffer  *)
(* is freed twice, or received into while it waits for transmission.        *)
THEOREM Ownership ==
  ASSUME FrameCount >= RingSize
  PROVE  Spec => []OneOwner
  <1>1. Init => QueueInv
    BY QueueInit
  <1>2. QueueInv /\ [Next]_vars => QueueInv'
    BY QueueStep
  <1>3. QueueInv => OneOwner
    BY DEF QueueInv
  <1> QED
    BY <1>1, <1>2, <1>3, PTL DEF Spec

-----------------------------------------------------------------------------
(* The accounts of the queue: what its counters say of the packets it       *)
(* received, rejected, answered and transmitted.                            *)

(* The two accounting properties are inductive once the loops are known to  *)
(* count what they say they count.                                          *)
Accounts == BooksBalance /\ OneResponsePerQuery

(* The frames in each place that the accounts mention are numbers.          *)
LEMMA AccountNumbers ==
  ASSUME CountInv
  PROVE  /\ InRx \in Nat /\ InBatch \in Nat /\ InTx \in Nat /\ n \in Nat
         /\ stats.rx_packets \in Nat /\ stats.tx_packets \in Nat
         /\ stats.parse_errors \in Nat /\ stats.typed \in Nat
         /\ wire.delivered \in Nat /\ wire.sent \in Nat
         /\ mode \in {"dns", "nxdomain", "count"}
  <1>1. /\ at \in [Places -> Seq(Frames)] /\ stats \in Stats /\ n \in Nat
        /\ wire \in [delivered : Nat, sent : Nat]
        /\ mode \in Modes
    BY DEF CountInv, TypeOK
  <1>2. InRx \in Nat /\ InBatch \in Nat /\ InTx \in Nat
    BY <1>1, Counts
  <1>3. mode \in {"dns", "nxdomain", "count"}
    BY <1>1, WorkerAssumption
  <1> QED
    BY <1>1, <1>2, <1>3 DEF Stats

(* What a step that moves the head of p to q does to the three numbers.     *)
LEMMA MoveNumbers ==
  ASSUME CountInv, NEW p \in Places, NEW q \in Places, p # q,
         Len(at[p]) > 0, Move(p, q)
  PROVE  /\ p = "rx" => InRx' = InRx - 1
         /\ q = "rx" => InRx' = InRx + 1
         /\ p # "rx" /\ q # "rx" => InRx' = InRx
         /\ p = "batch" => InBatch' = InBatch - 1
         /\ q = "batch" => InBatch' = InBatch + 1
         /\ p # "batch" /\ q # "batch" => InBatch' = InBatch
         /\ p = "tx" => InTx' = InTx - 1
         /\ q = "tx" => InTx' = InTx + 1
         /\ p # "tx" /\ q # "tx" => InTx' = InTx
  <1>1. at \in [Places -> Seq(Frames)]
    BY DEF CountInv, TypeOK
  <1>2. /\ Len(at'[p]) = Len(at[p]) - 1
        /\ Len(at'[q]) = Len(at[q]) + 1
        /\ \A r \in Places \ {p, q} : at'[r] = at[r]
    BY <1>1, MoveStep
  <1>3. InRx \in Nat /\ InBatch \in Nat /\ InTx \in Nat
    BY <1>1, Counts
  <1>4. "rx" \in Places /\ "batch" \in Places /\ "tx" \in Places
    BY DEF Places
  <1> QED
    BY <1>2, <1>3, <1>4 DEF InRx, InBatch, InTx

(* The same for a push on the free stack.                                   *)
LEMMA FreeNumbers ==
  ASSUME CountInv, NEW p \in Places, p # "free", Len(at[p]) > 0, Free(p)
  PROVE  /\ p = "rx" => InRx' = InRx - 1
         /\ p # "rx" => InRx' = InRx
         /\ p = "batch" => InBatch' = InBatch - 1
         /\ p # "batch" => InBatch' = InBatch
         /\ p = "tx" => InTx' = InTx - 1
         /\ p # "tx" => InTx' = InTx
  <1>1. at \in [Places -> Seq(Frames)]
    BY DEF CountInv, TypeOK
  <1>2. /\ Len(at'[p]) = Len(at[p]) - 1
        /\ \A r \in Places \ {p, "free"} : at'[r] = at[r]
    BY <1>1, FreeStep
  <1>3. InRx \in Nat /\ InBatch \in Nat /\ InTx \in Nat
    BY <1>1, Counts
  <1>4. "rx" \in Places /\ "batch" \in Places /\ "tx" \in Places
    BY DEF Places
  <1> QED
    BY <1>2, <1>3, <1>4 DEF InRx, InBatch, InTx

(* Nothing has been received at the start.                                  *)
LEMMA AccountsInit ==
  ASSUME Init
  PROVE  Accounts
  <1>1. at["rx"] = << >> /\ at["batch"] = << >> /\ at["tx"] = << >>
    BY DEF Init, Places
  <1>2. InRx = 0 /\ InBatch = 0 /\ InTx = 0
    BY <1>1 DEF InRx, InBatch, InTx
  <1>3. /\ stats.rx_packets = 0 /\ stats.tx_packets = 0
        /\ stats.parse_errors = 0 /\ stats.typed = 0
        /\ wire.delivered = 0 /\ wire.sent = 0 /\ pc = "populate"
        /\ mode \in {"dns", "nxdomain", "count"}
    BY WorkerAssumption DEF Init
  <1>4. BooksBalance
    BY <1>2, <1>3 DEF BooksBalance, Uncounted
  <1>5. wire.sent + InTx + InBatch = 0
    BY <1>2, <1>3
  <1>6. OneResponsePerQuery
    BY <1>3, <1>5 DEF OneResponsePerQuery
  <1> QED
    BY <1>4, <1>6 DEF Accounts

(* Every step keeps the accounts: one step per action that moves a frame or *)
(* counts, with the new numbers first.                                      *)
LEMMA AccountsStep ==
  ASSUME CountInv, Accounts, [Next]_vars
  PROVE  Accounts'
  <1>a. TypeOK /\ RingsFit /\ LoopOK
    BY DEF CountInv
  <1>b. /\ InRx \in Nat /\ InBatch \in Nat /\ InTx \in Nat /\ n \in Nat
        /\ stats.rx_packets \in Nat /\ stats.tx_packets \in Nat
        /\ stats.parse_errors \in Nat /\ stats.typed \in Nat
        /\ wire.delivered \in Nat /\ wire.sent \in Nat
        /\ mode \in {"dns", "nxdomain", "count"}
    BY AccountNumbers
  <1>c. /\ InPool \in Nat /\ InFill \in Nat /\ InNic \in Nat /\ InComp \in Nat
    BY <1>a, Counts DEF TypeOK
  <1>d. /\ stats \in Stats
        /\ wire \in [delivered : Nat, sent : Nat]
    BY <1>a DEF TypeOK
  <1>e. {"free", "fill", "rx", "batch", "tx", "nic", "comp"} \subseteq Places
    BY DEF Places
  <1>1. CASE FillOne
    <2>1. InPool > 0 /\ Move("free", "fill")
      BY <1>1, <1>a, <1>b, <1>c
      DEF FillOne, Iterate, TypeOK, LoopOK
    <2>2. InRx' = InRx /\ InBatch' = InBatch /\ InTx' = InTx
      <3>1. Len(at["free"]) > 0 /\ Move("free", "fill")
        BY <2>1 DEF InPool
      <3> QED
        BY <3>1, <1>e, MoveNumbers
    <2>3. /\ mode' = mode /\ pc' = pc /\ pc # "writeTx"
          /\ stats' = stats /\ wire' = wire
      BY <1>1, <1>d DEF FillOne, Iterate, Stats, driver
    <2> QED
      <3>1. CASE mode = "dns"
        <4>1. BooksBalance'
          BY <3>1, <2>2, <2>3, <1>b DEF Accounts, BooksBalance, Uncounted
        <4>2. OneResponsePerQuery'
          BY <3>1, <2>2, <2>3, <1>b DEF Accounts, OneResponsePerQuery
        <4> QED
          BY <4>1, <4>2 DEF Accounts
      <3>2. CASE mode = "nxdomain"
        BY <3>2, <2>2, <2>3, <1>b DEF Accounts, BooksBalance, OneResponsePerQuery
      <3>3. CASE mode = "count"
        BY <3>3, <2>2, <2>3, <1>b DEF Accounts, BooksBalance, OneResponsePerQuery
      <3> QED
        BY <3>1, <3>2, <3>3, <1>b
  <1>2. CASE AnswerOne
    <2>1. InRx > 0 /\ Move("rx", "batch")
      BY <1>2, <1>a, <1>b, <1>c
      DEF AnswerOne, Answers, Iterate, TypeOK, LoopOK
    <2>2. InRx' = InRx - 1 /\ InBatch' = InBatch + 1 /\ InTx' = InTx
      <3>1. Len(at["rx"]) > 0 /\ Move("rx", "batch")
        BY <2>1 DEF InRx
      <3> QED
        BY <3>1, <1>e, MoveNumbers
    <2>3. /\ mode' = mode /\ pc' = pc /\ pc = "process" /\ mode # "count"
          /\ stats'.rx_packets = stats.rx_packets + 1
          /\ (mode = "dns" => stats'.typed = stats.typed + 1)
          /\ stats'.tx_packets = stats.tx_packets
          /\ stats'.parse_errors = stats.parse_errors
          /\ wire' = wire
      BY <1>2, <1>d DEF AnswerOne, Answers, Iterate, Stats, driver
    <2> QED
      <3>1. CASE mode = "dns"
        <4>1. BooksBalance'
          BY <3>1, <2>2, <2>3, <1>b DEF Accounts, BooksBalance, Uncounted
        <4>2. OneResponsePerQuery'
          BY <3>1, <2>2, <2>3, <1>b DEF Accounts, OneResponsePerQuery
        <4> QED
          BY <4>1, <4>2 DEF Accounts
      <3>2. CASE mode = "nxdomain"
        BY <3>2, <2>2, <2>3, <1>b DEF Accounts, BooksBalance, OneResponsePerQuery
      <3>3. CASE mode = "count"
        BY <3>3, <2>2, <2>3, <1>b DEF Accounts, BooksBalance, OneResponsePerQuery
      <3> QED
        BY <3>1, <3>2, <3>3, <1>b
  <1>3. CASE WriteOne
    <2>1. InBatch > 0 /\ Move("batch", "tx")
      BY <1>3, <1>a, <1>b, <1>c
      DEF WriteOne, Iterate, TypeOK, LoopOK
    <2>2. InRx' = InRx /\ InBatch' = InBatch - 1 /\ InTx' = InTx + 1
      <3>1. Len(at["batch"]) > 0 /\ Move("batch", "tx")
        BY <2>1 DEF InBatch
      <3> QED
        BY <3>1, <1>e, MoveNumbers
    <2>3. /\ mode' = mode /\ pc' = pc /\ pc = "writeTx" /\ n' = n
          /\ stats' = stats /\ wire' = wire
      BY <1>3, <1>d DEF WriteOne, Iterate, Stats, driver
    <2> QED
      <3>1. CASE mode = "dns"
        <4>1. BooksBalance'
          BY <3>1, <2>2, <2>3, <1>b DEF Accounts, BooksBalance, Uncounted
        <4>2. OneResponsePerQuery'
          BY <3>1, <2>2, <2>3, <1>b DEF Accounts, OneResponsePerQuery
        <4> QED
          BY <4>1, <4>2 DEF Accounts
      <3>2. CASE mode = "nxdomain"
        BY <3>2, <2>2, <2>3, <1>b DEF Accounts, BooksBalance, OneResponsePerQuery
      <3>3. CASE mode = "count"
        BY <3>3, <2>2, <2>3, <1>b DEF Accounts, BooksBalance, OneResponsePerQuery
      <3> QED
        BY <3>1, <3>2, <3>3, <1>b
  <1>4. CASE Receive
    <2>1. InFill > 0 /\ Move("fill", "rx")
      BY <1>4, <1>a, <1>b, <1>c
      DEF Receive, Iterate, TypeOK, LoopOK, CanReceive
    <2>2. InRx' = InRx + 1 /\ InBatch' = InBatch /\ InTx' = InTx
      <3>1. Len(at["fill"]) > 0 /\ Move("fill", "rx")
        BY <2>1 DEF InFill
      <3> QED
        BY <3>1, <1>e, MoveNumbers
    <2>3. /\ mode' = mode /\ pc' = pc /\ n' = n
          /\ stats' = stats
          /\ wire'.delivered = wire.delivered + 1 /\ wire'.sent = wire.sent
      BY <1>4, <1>d DEF Receive, Iterate, Stats, driver
    <2> QED
      <3>1. CASE mode = "dns"
        <4>1. BooksBalance'
          BY <3>1, <2>2, <2>3, <1>b DEF Accounts, BooksBalance, Uncounted
        <4>2. OneResponsePerQuery'
          BY <3>1, <2>2, <2>3, <1>b DEF Accounts, OneResponsePerQuery
        <4> QED
          BY <4>1, <4>2 DEF Accounts
      <3>2. CASE mode = "nxdomain"
        BY <3>2, <2>2, <2>3, <1>b DEF Accounts, BooksBalance, OneResponsePerQuery
      <3>3. CASE mode = "count"
        BY <3>3, <2>2, <2>3, <1>b DEF Accounts, BooksBalance, OneResponsePerQuery
      <3> QED
        BY <3>1, <3>2, <3>3, <1>b
  <1>5. CASE Transmit
    <2>1. InTx > 0 /\ Move("tx", "nic")
      BY <1>5, <1>a, <1>b, <1>c
      DEF Transmit, Iterate, TypeOK, LoopOK
    <2>2. InRx' = InRx /\ InBatch' = InBatch /\ InTx' = InTx - 1
      <3>1. Len(at["tx"]) > 0 /\ Move("tx", "nic")
        BY <2>1 DEF InTx
      <3> QED
        BY <3>1, <1>e, MoveNumbers
    <2>3. /\ mode' = mode /\ pc' = pc /\ n' = n
          /\ stats' = stats
          /\ wire'.delivered = wire.delivered /\ wire'.sent = wire.sent + 1
      BY <1>5, <1>d DEF Transmit, Iterate, Stats, driver
    <2> QED
      <3>1. CASE mode = "dns"
        <4>1. BooksBalance'
          BY <3>1, <2>2, <2>3, <1>b DEF Accounts, BooksBalance, Uncounted
        <4>2. OneResponsePerQuery'
          BY <3>1, <2>2, <2>3, <1>b DEF Accounts, OneResponsePerQuery
        <4> QED
          BY <4>1, <4>2 DEF Accounts
      <3>2. CASE mode = "nxdomain"
        BY <3>2, <2>2, <2>3, <1>b DEF Accounts, BooksBalance, OneResponsePerQuery
      <3>3. CASE mode = "count"
        BY <3>3, <2>2, <2>3, <1>b DEF Accounts, BooksBalance, OneResponsePerQuery
      <3> QED
        BY <3>1, <3>2, <3>3, <1>b
  <1>6. CASE Complete
    <2>1. InNic > 0 /\ Move("nic", "comp")
      BY <1>6, <1>a, <1>b, <1>c
      DEF Complete, Iterate, TypeOK, LoopOK
    <2>2. InRx' = InRx /\ InBatch' = InBatch /\ InTx' = InTx
      <3>1. Len(at["nic"]) > 0 /\ Move("nic", "comp")
        BY <2>1 DEF InNic
      <3> QED
        BY <3>1, <1>e, MoveNumbers
    <2>3. /\ mode' = mode /\ pc' = pc /\ n' = n
          /\ stats' = stats /\ wire' = wire
      BY <1>6, <1>d DEF Complete, Iterate, Stats, driver
    <2> QED
      <3>1. CASE mode = "dns"
        <4>1. BooksBalance'
          BY <3>1, <2>2, <2>3, <1>b DEF Accounts, BooksBalance, Uncounted
        <4>2. OneResponsePerQuery'
          BY <3>1, <2>2, <2>3, <1>b DEF Accounts, OneResponsePerQuery
        <4> QED
          BY <4>1, <4>2 DEF Accounts
      <3>2. CASE mode = "nxdomain"
        BY <3>2, <2>2, <2>3, <1>b DEF Accounts, BooksBalance, OneResponsePerQuery
      <3>3. CASE mode = "count"
        BY <3>3, <2>2, <2>3, <1>b DEF Accounts, BooksBalance, OneResponsePerQuery
      <3> QED
        BY <3>1, <3>2, <3>3, <1>b
  <1>7. CASE ReclaimOne
    <2>1. InComp > 0 /\ Free("comp")
      BY <1>7, <1>a, <1>b, <1>c
      DEF ReclaimOne, Iterate, TypeOK, LoopOK
    <2>2. InRx' = InRx /\ InBatch' = InBatch /\ InTx' = InTx
      <3>1. Len(at["comp"]) > 0 /\ Free("comp")
        BY <2>1 DEF InComp
      <3> QED
        BY <3>1, <1>e, FreeNumbers
    <2>3. /\ mode' = mode /\ pc' = pc /\ pc # "writeTx"
          /\ stats' = stats /\ wire' = wire
      BY <1>7, <1>d DEF ReclaimOne, Iterate, Stats, driver
    <2> QED
      <3>1. CASE mode = "dns"
        <4>1. BooksBalance'
          BY <3>1, <2>2, <2>3, <1>b DEF Accounts, BooksBalance, Uncounted
        <4>2. OneResponsePerQuery'
          BY <3>1, <2>2, <2>3, <1>b DEF Accounts, OneResponsePerQuery
        <4> QED
          BY <4>1, <4>2 DEF Accounts
      <3>2. CASE mode = "nxdomain"
        BY <3>2, <2>2, <2>3, <1>b DEF Accounts, BooksBalance, OneResponsePerQuery
      <3>3. CASE mode = "count"
        BY <3>3, <2>2, <2>3, <1>b DEF Accounts, BooksBalance, OneResponsePerQuery
      <3> QED
        BY <3>1, <3>2, <3>3, <1>b
  <1>8. CASE DiscardOne
    <2>1. InRx > 0 /\ Free("rx")
      BY <1>8, <1>a, <1>b, <1>c
      DEF DiscardOne, CountsRejected, Iterate, TypeOK, LoopOK
    <2>2. InRx' = InRx - 1 /\ InBatch' = InBatch /\ InTx' = InTx
      <3>1. Len(at["rx"]) > 0 /\ Free("rx")
        BY <2>1 DEF InRx
      <3> QED
        BY <3>1, <1>e, FreeNumbers
    <2>3. /\ mode' = mode /\ pc' = pc /\ pc = "process"
          /\ mode = "nxdomain" => stats'.rx_packets = stats.rx_packets
          /\ mode # "nxdomain" => stats'.rx_packets = stats.rx_packets + 1
          /\ mode = "dns" => stats'.parse_errors = stats.parse_errors + 1
          /\ stats'.tx_packets = stats.tx_packets
          /\ stats'.typed = stats.typed
          /\ wire' = wire
      BY <1>8, <1>d DEF DiscardOne, CountsRejected, Iterate, Stats, driver
    <2> QED
      <3>1. CASE mode = "dns"
        <4>1. BooksBalance'
          BY <3>1, <2>2, <2>3, <1>b DEF Accounts, BooksBalance, Uncounted
        <4>2. OneResponsePerQuery'
          BY <3>1, <2>2, <2>3, <1>b DEF Accounts, OneResponsePerQuery
        <4> QED
          BY <4>1, <4>2 DEF Accounts
      <3>2. CASE mode = "nxdomain"
        BY <3>2, <2>2, <2>3, <1>b DEF Accounts, BooksBalance, OneResponsePerQuery
      <3>3. CASE mode = "count"
        BY <3>3, <2>2, <2>3, <1>b DEF Accounts, BooksBalance, OneResponsePerQuery
      <3> QED
        BY <3>1, <3>2, <3>3, <1>b
  <1>9. CASE SubmitFill
    <2>1. at'["rx"] = at["rx"] /\ at'["batch"] = at["batch"] /\ at'["tx"] = at["tx"]
      BY <1>9, <1>a, <1>e DEF SubmitFill, TypeOK
    <2>2. InRx' = InRx /\ InBatch' = InBatch /\ InTx' = InTx
      BY <2>1 DEF InRx, InBatch, InTx
    <2>3. /\ mode' = mode /\ stats' = stats /\ wire' = wire
          /\ pc # "writeTx" /\ pc' # "writeTx"
      BY <1>9 DEF SubmitFill, Goto, driver
    <2> QED
      <3>1. CASE mode = "dns"
        <4>1. BooksBalance'
          BY <3>1, <2>2, <2>3, <1>b DEF Accounts, BooksBalance, Uncounted
        <4>2. OneResponsePerQuery'
          BY <3>1, <2>2, <2>3, <1>b DEF Accounts, OneResponsePerQuery
        <4> QED
          BY <4>1, <4>2 DEF Accounts
      <3>2. CASE mode = "nxdomain"
        BY <3>2, <2>2, <2>3, <1>b DEF Accounts, BooksBalance, OneResponsePerQuery
      <3>3. CASE mode = "count"
        BY <3>3, <2>2, <2>3, <1>b DEF Accounts, BooksBalance, OneResponsePerQuery
      <3> QED
        BY <3>1, <3>2, <3>3, <1>b
  <1>10. CASE SubmitTx
    <2>1. at' = at
      BY <1>10 DEF SubmitTx
    <2>2. InRx' = InRx /\ InBatch' = InBatch /\ InTx' = InTx /\ InBatch = 0
      BY <1>10, <2>1 DEF SubmitTx, InRx, InBatch, InTx
    <2>3. /\ mode' = mode /\ wire' = wire /\ pc = "writeTx" /\ pc' = "top"
          /\ (mode = "dns" => stats'.tx_packets = stats.tx_packets + n)
          /\ stats'.rx_packets = stats.rx_packets
          /\ stats'.parse_errors = stats.parse_errors
          /\ stats'.typed = stats.typed
      BY <1>10, <1>b, <1>d DEF SubmitTx, Goto, Stats
    <2> QED
      <3>1. CASE mode = "dns"
        <4>1. BooksBalance'
          BY <3>1, <2>2, <2>3, <1>b DEF Accounts, BooksBalance, Uncounted
        <4>2. OneResponsePerQuery'
          BY <3>1, <2>2, <2>3, <1>b DEF Accounts, OneResponsePerQuery
        <4> QED
          BY <4>1, <4>2 DEF Accounts
      <3>2. CASE mode = "nxdomain"
        BY <3>2, <2>2, <2>3, <1>b DEF Accounts, BooksBalance, OneResponsePerQuery
      <3>3. CASE mode = "count"
        BY <3>3, <2>2, <2>3, <1>b DEF Accounts, BooksBalance, OneResponsePerQuery
      <3> QED
        BY <3>1, <3>2, <3>3, <1>b
  <1>11. CASE ReserveTx
    <2>1. at' = at
      BY <1>11 DEF ReserveTx, rings
    <2>2. InRx' = InRx /\ InBatch' = InBatch /\ InTx' = InTx
      BY <2>1 DEF InRx, InBatch, InTx
    <2>3. /\ mode' = mode /\ stats' = stats /\ wire' = wire
          /\ pc = "reserveTx" /\ pc' = "writeTx" /\ n' = InBatch
      BY <1>11 DEF ReserveTx, Goto, driver
    <2> QED
      <3>1. CASE mode = "dns"
        <4>1. BooksBalance'
          BY <3>1, <2>2, <2>3, <1>b DEF Accounts, BooksBalance, Uncounted
        <4>2. OneResponsePerQuery'
          BY <3>1, <2>2, <2>3, <1>b DEF Accounts, OneResponsePerQuery
        <4> QED
          BY <4>1, <4>2 DEF Accounts
      <3>2. CASE mode = "nxdomain"
        BY <3>2, <2>2, <2>3, <1>b DEF Accounts, BooksBalance, OneResponsePerQuery
      <3>3. CASE mode = "count"
        BY <3>3, <2>2, <2>3, <1>b DEF Accounts, BooksBalance, OneResponsePerQuery
      <3> QED
        BY <3>1, <3>2, <3>3, <1>b
  <1>12. CASE \/ CheckRunning \/ PeekComp \/ ReleaseComp \/ ReserveFill
             \/ PeekRx \/ ReleaseRx \/ SpinKick
    <2>1. at' = at
      BY <1>12 DEF CheckRunning, PeekComp, ReleaseComp, ReserveFill, PeekRx, ReleaseRx,
                   SpinKick, rings
    <2>2. InRx' = InRx /\ InBatch' = InBatch /\ InTx' = InTx
      BY <2>1 DEF InRx, InBatch, InTx
    <2>3. /\ mode' = mode /\ stats' = stats /\ wire' = wire
          /\ pc # "writeTx" /\ pc' # "writeTx"
      BY <1>12 DEF CheckRunning, PeekComp, ReleaseComp, ReserveFill, PeekRx, ReleaseRx,
                   SpinKick, Goto, driver
    <2> QED
      <3>1. CASE mode = "dns"
        <4>1. BooksBalance'
          BY <3>1, <2>2, <2>3, <1>b DEF Accounts, BooksBalance, Uncounted
        <4>2. OneResponsePerQuery'
          BY <3>1, <2>2, <2>3, <1>b DEF Accounts, OneResponsePerQuery
        <4> QED
          BY <4>1, <4>2 DEF Accounts
      <3>2. CASE mode = "nxdomain"
        BY <3>2, <2>2, <2>3, <1>b DEF Accounts, BooksBalance, OneResponsePerQuery
      <3>3. CASE mode = "count"
        BY <3>3, <2>2, <2>3, <1>b DEF Accounts, BooksBalance, OneResponsePerQuery
      <3> QED
        BY <3>1, <3>2, <3>3, <1>b
  <1>13. CASE \/ GiveUp \/ Stop \/ UNCHANGED vars
    <2>1. at' = at
      BY <1>13 DEF GiveUp, Stop, vars, rings
    <2>2. InRx' = InRx /\ InBatch' = InBatch /\ InTx' = InTx
      BY <2>1 DEF InRx, InBatch, InTx
    <2>3. /\ mode' = mode /\ stats' = stats /\ pc' = pc /\ n' = n
          /\ wire'.delivered = wire.delivered /\ wire'.sent = wire.sent
      BY <1>13, <1>d DEF GiveUp, Stop, vars, driver
    <2> QED
      <3>1. CASE mode = "dns"
        <4>1. BooksBalance'
          BY <3>1, <2>2, <2>3, <1>b DEF Accounts, BooksBalance, Uncounted
        <4>2. OneResponsePerQuery'
          BY <3>1, <2>2, <2>3, <1>b DEF Accounts, OneResponsePerQuery
        <4> QED
          BY <4>1, <4>2 DEF Accounts
      <3>2. CASE mode = "nxdomain"
        BY <3>2, <2>2, <2>3, <1>b DEF Accounts, BooksBalance, OneResponsePerQuery
      <3>3. CASE mode = "count"
        BY <3>3, <2>2, <2>3, <1>b DEF Accounts, BooksBalance, OneResponsePerQuery
      <3> QED
        BY <3>1, <3>2, <3>3, <1>b
  <1> QED
    BY <1>1, <1>2, <1>3, <1>4, <1>5, <1>6, <1>7, <1>8, <1>9, <1>10, <1>11, <1>12, <1>13
    DEF Next, Worker, Kernel

(* The counters of the report are right at every step: in DNS mode every    *)
(* packet received is a parse error, handed to the TX ring or in the batch, *)
(* and in every mode each accepted query has exactly one response.          *)
THEOREM Accounting ==
  ASSUME FrameCount >= RingSize
  PROVE  Spec => [](BooksBalance /\ OneResponsePerQuery)
  <1>1. Init => CountInv /\ Accounts
    BY CountInit, AccountsInit
  <1>2. CountInv /\ Accounts /\ [Next]_vars => CountInv' /\ Accounts'
    BY CountStep, AccountsStep
  <1>3. Accounts => BooksBalance /\ OneResponsePerQuery
    BY DEF Accounts
  <1> QED
    BY <1>1, <1>2, <1>3, PTL DEF Spec

(* Every answer is sent or on its way, once, and in every mode: af_xdp.c's  *)
(* three worker functions lose no accepted query and send nothing twice.    *)
COROLLARY Responses ==
  ASSUME FrameCount >= RingSize
  PROVE  Spec => []OneResponsePerQuery
  <1>1. Spec => [](BooksBalance /\ OneResponsePerQuery)
    BY Accounting
  <1> QED
    BY <1>1, PTL

(* No ring and no batch array is overrun, and a fill never runs dry midway. *)
COROLLARY Capacities ==
  ASSUME FrameCount >= RingSize
  PROVE  Spec => []RingsFit
  <1>1. Spec => [](TypeOK /\ NoLeak /\ RingsFit /\ CleanExit)
    BY Counting
  <1> QED
    BY <1>1, PTL

(* A worker that has returned has left nothing unsubmitted or unreleased.   *)
COROLLARY WorkerExit ==
  ASSUME FrameCount >= RingSize
  PROVE  Spec => []CleanExit
  <1>1. Spec => [](TypeOK /\ NoLeak /\ RingsFit /\ CleanExit)
    BY Counting
  <1> QED
    BY <1>1, PTL

-----------------------------------------------------------------------------
(* The queue implements the frame lease of module FrameLease, for every     *)
(* number of frames, ring size and batch size.                              *)

(* The holder of the frames in each place. *)
ClassOf(p) == IF p = "free" THEN "pool"
              ELSE IF p = "fill" THEN "driver_rx"
              ELSE IF p \in {"rx", "batch"} THEN "app"
              ELSE IF p = "comp" THEN "completed"
              ELSE "driver_tx"

holderMap == [f \in Frames |-> HolderOf(f)]

(* After a move the head of p is in q, and no other frame has moved.        *)
LEMMA MoveIn ==
  ASSUME at \in [Places -> Seq(Frames)],
         NEW p \in Places, NEW q \in Places, p # q, Len(at[p]) > 0, Move(p, q)
  PROVE  \E f \in Frames :
           /\ In(f, p) /\ In(f, q)'
           /\ \A g \in Frames \ {f}, r \in Places : In(g, r)' <=> In(g, r)
  <1>a. at[p] \in Seq(Frames) /\ at[p] # << >>
    OBVIOUS
  <1>f. PICK f \in Frames : f = Head(at[p])
    BY <1>a, TakeHead
  <1>1. at[q] \in Seq(Frames)
    OBVIOUS
  <1>2. at'[p] = Tail(at[p]) /\ at'[q] = Append(at[q], f)
    BY <1>1, <1>f DEF Move
  <1>3. \A r \in Places \ {p, q} : at'[r] = at[r]
    BY <1>1 DEF Move
  <1>4. /\ Len(at'[p]) = Len(at[p]) - 1 /\ Len(at[p]) \in Nat \ {0}
        /\ \A i \in 1..Len(at[p]) - 1 : at'[p][i] = at[p][i + 1]
        /\ f = at[p][1]
    BY <1>a, <1>f, <1>2, TakeHead
  <1>5. /\ Len(at'[q]) = Len(at[q]) + 1 /\ Len(at[q]) \in Nat
        /\ \A i \in 1..Len(at[q]) : at'[q][i] = at[q][i]
        /\ at'[q][Len(at[q]) + 1] = f
    BY <1>1, <1>2, AddLast
  <1>6. In(f, p)
    BY <1>4 DEF In
  <1>7. In(f, q)'
    BY <1>5 DEF In
  <1>8. ASSUME NEW g \in Frames \ {f}, NEW r \in Places
        PROVE  In(g, r)' <=> In(g, r)
    <2>1. CASE r = p
      <3>1. In(g, p)' => In(g, p)
        <4>1. \A i \in 1..Len(at[p]) - 1 : i + 1 \in 1..Len(at[p])
          BY <1>4
        <4> QED
          BY <4>1, <1>4 DEF In
      <3>2. In(g, p) => In(g, p)'
        <4>1. ASSUME NEW i \in 1..Len(at[p]), at[p][i] = g
              PROVE  i - 1 \in 1..Len(at'[p]) /\ at'[p][i - 1] = g
          BY <4>1, <1>4, <1>8
        <4> QED
          BY <4>1 DEF In
      <3> QED
        BY <2>1, <3>1, <3>2
    <2>2. CASE r = q
      <3>1. In(g, q)' => In(g, q)
        BY <1>5, <1>8 DEF In
      <3>2. In(g, q) => In(g, q)'
        BY <1>5 DEF In
      <3> QED
        BY <2>2, <3>1, <3>2
    <2>3. CASE r # p /\ r # q
      BY <2>3, <1>3 DEF In
    <2> QED
      BY <2>1, <2>2, <2>3
  <1> QED
    BY <1>6, <1>7, <1>8

(* The same for a frame pushed on the free stack.                           *)
LEMMA FreeIn ==
  ASSUME at \in [Places -> Seq(Frames)],
         NEW p \in Places, p # "free", Len(at[p]) > 0, Free(p)
  PROVE  \E f \in Frames :
           /\ In(f, p) /\ In(f, "free")'
           /\ \A g \in Frames \ {f}, r \in Places : In(g, r)' <=> In(g, r)
  <1>a. at[p] \in Seq(Frames) /\ at[p] # << >>
    OBVIOUS
  <1>f. PICK f \in Frames : f = Head(at[p])
    BY <1>a, TakeHead
  <1>1. "free" \in Places /\ at["free"] \in Seq(Frames)
    BY DEF Places
  <1>2. at'[p] = Tail(at[p]) /\ at'["free"] = <<f>> \o at["free"]
    BY <1>1, <1>f DEF Free
  <1>3. \A r \in Places \ {p, "free"} : at'[r] = at[r]
    BY <1>1 DEF Free
  <1>4. /\ Len(at'[p]) = Len(at[p]) - 1 /\ Len(at[p]) \in Nat \ {0}
        /\ \A i \in 1..Len(at[p]) - 1 : at'[p][i] = at[p][i + 1]
        /\ f = at[p][1]
    BY <1>a, <1>f, <1>2, TakeHead
  <1>5. /\ Len(at'["free"]) = Len(at["free"]) + 1 /\ Len(at["free"]) \in Nat
        /\ \A i \in 2..Len(at["free"]) + 1 : at'["free"][i] = at["free"][i - 1]
        /\ at'["free"][1] = f
    BY <1>1, <1>2, AddTop
  <1>6. In(f, p)
    BY <1>4 DEF In
  <1>7. In(f, "free")'
    BY <1>5 DEF In
  <1>8. ASSUME NEW g \in Frames \ {f}, NEW r \in Places
        PROVE  In(g, r)' <=> In(g, r)
    <2>1. CASE r = p
      <3>1. In(g, p)' => In(g, p)
        <4>1. \A i \in 1..Len(at[p]) - 1 : i + 1 \in 1..Len(at[p])
          BY <1>4
        <4> QED
          BY <4>1, <1>4 DEF In
      <3>2. In(g, p) => In(g, p)'
        <4>1. ASSUME NEW i \in 1..Len(at[p]), at[p][i] = g
              PROVE  i - 1 \in 1..Len(at'[p]) /\ at'[p][i - 1] = g
          BY <4>1, <1>4, <1>8
        <4> QED
          BY <4>1 DEF In
      <3> QED
        BY <2>1, <3>1, <3>2
    <2>2. CASE r = "free"
      <3>1. In(g, "free")' => In(g, "free")
        <4>1. ASSUME NEW i \in 1..Len(at'["free"]), at'["free"][i] = g
              PROVE  i - 1 \in 1..Len(at["free"]) /\ at["free"][i - 1] = g
          BY <4>1, <1>5, <1>8
        <4> QED
          BY <4>1 DEF In
      <3>2. In(g, "free") => In(g, "free")'
        <4>1. ASSUME NEW i \in 1..Len(at["free"]), at["free"][i] = g
              PROVE  i + 1 \in 1..Len(at'["free"]) /\ at'["free"][i + 1] = g
          BY <4>1, <1>5
        <4> QED
          BY <4>1 DEF In
      <3> QED
        BY <2>2, <3>1, <3>2
    <2>3. CASE r # p /\ r # "free"
      BY <2>3, <1>3 DEF In
    <2> QED
      BY <2>1, <2>2, <2>3
  <1> QED
    BY <1>6, <1>7, <1>8

(* When one frame goes from p to q, its holder changes from that of p to    *)
(* that of q and no other holder changes.                                   *)
LEMMA PassStep ==
  ASSUME OneOwner, OneOwner',
         NEW p \in Places, NEW q \in Places, NEW f \in Frames,
         In(f, p), In(f, q)',
         \A g \in Frames \ {f}, r \in Places : In(g, r)' <=> In(g, r)
  PROVE  Lease!Pass(f, ClassOf(p), ClassOf(q))
  <1>1. HolderOf(f) = ClassOf(p)
    <2>1. \A r \in Places : In(f, r) => r = p
      BY DEF OneOwner, In
    <2> QED
      BY <2>1 DEF HolderOf, ClassOf, Places
  <1>2. HolderOf(f)' = ClassOf(q)
    <2>1. \A r \in Places : In(f, r)' => r = q
      BY DEF OneOwner, In
    <2>2. /\ In(f, "free")' <=> q = "free"
          /\ In(f, "fill")' <=> q = "fill"
          /\ In(f, "rx")' <=> q = "rx"
          /\ In(f, "batch")' <=> q = "batch"
          /\ In(f, "comp")' <=> q = "comp"
      BY <2>1 DEF Places
    <2> QED
      BY <2>2 DEF HolderOf, ClassOf
  <1>3. \A g \in Frames \ {f} : HolderOf(g)' = HolderOf(g)
    BY DEF HolderOf, Places
  <1>4. holderMap[f] = ClassOf(p)
    BY <1>1 DEF holderMap
  <1>5. holderMap' = [holderMap EXCEPT ![f] = ClassOf(q)]
    BY <1>2, <1>3 DEF holderMap, Frames
  <1> QED
    BY <1>4, <1>5 DEF Lease!Pass, holderMap

(* A frame that stays with its holder is not a step of the lease.           *)
LEMMA StayStep ==
  ASSUME NEW f \in Frames, NEW h, Lease!Pass(f, h, h)
  PROVE  UNCHANGED holderMap
  BY DEF Lease!Pass, holderMap

(* Every frame starts in the pool, and every step hands at most one frame   *)
(* on, along one of the six edges of the lease.                             *)
LEMMA LeaseInitOK ==
  ASSUME FrameCount >= RingSize, Init
  PROVE  Lease!LeaseInit
  <1>1. at["free"] = [i \in 1..FrameCount |-> FrameCount - i]
    BY DEF Init, Places
  <1>2. Len(at["free"]) = FrameCount
    BY <1>1, Consts
  <1>3. ASSUME NEW f \in Frames
        PROVE  In(f, "free")
    <2>1. FrameCount - f \in 1..FrameCount /\ FrameCount - (FrameCount - f) = f
      BY Consts DEF Frames
    <2> QED
      BY <1>1, <1>2, <2>1 DEF In
  <1>4. \A f \in Frames : HolderOf(f) = "pool"
    BY <1>3 DEF HolderOf
  <1> QED
    BY <1>4 DEF Lease!LeaseInit

(* Every step of the queue is a step of the lease, or leaves every holder.  *)
LEMMA LeaseStep ==
  ASSUME QueueInv, QueueInv', [Next]_vars
  PROVE  [Lease!LeaseNext]_holderMap
  <1>1. /\ at \in [Places -> Seq(Frames)] /\ CountInv
        /\ OneOwner /\ OneOwner'
    BY DEF QueueInv, CountInv, TypeOK
  <1>2. {"free", "fill", "rx", "batch", "tx", "nic", "comp"} \subseteq Places
    BY DEF Places
  <1>3. CASE at' = at
    <2>1. \A f \in Frames : HolderOf(f)' = HolderOf(f)
      BY <1>3 DEF HolderOf, In
    <2> QED
      BY <2>1 DEF holderMap, Frames
  <1>4. CASE Len(at["free"]) > 0 /\ Move("free", "fill")
    <2>1. \E f \in Frames : Lease!Pass(f, ClassOf("free"), ClassOf("fill"))
      BY <1>1, <1>2, <1>4, MoveIn, PassStep
    <2> QED
      BY <2>1 DEF ClassOf, Lease!LeaseNext, Lease!Fill
  <1>5. CASE Len(at["rx"]) > 0 /\ Move("rx", "batch")
    <2>1. \E f \in Frames : Lease!Pass(f, ClassOf("rx"), ClassOf("batch"))
      BY <1>1, <1>2, <1>5, MoveIn, PassStep
    <2> QED
      BY <2>1, StayStep DEF ClassOf
  <1>6. CASE Len(at["batch"]) > 0 /\ Move("batch", "tx")
    <2>1. \E f \in Frames : Lease!Pass(f, ClassOf("batch"), ClassOf("tx"))
      BY <1>1, <1>2, <1>6, MoveIn, PassStep
    <2> QED
      BY <2>1 DEF ClassOf, Lease!LeaseNext, Lease!Answer
  <1>7. CASE Len(at["fill"]) > 0 /\ Move("fill", "rx")
    <2>1. \E f \in Frames : Lease!Pass(f, ClassOf("fill"), ClassOf("rx"))
      BY <1>1, <1>2, <1>7, MoveIn, PassStep
    <2> QED
      BY <2>1 DEF ClassOf, Lease!LeaseNext, Lease!Deliver
  <1>8. CASE Len(at["tx"]) > 0 /\ Move("tx", "nic")
    <2>1. \E f \in Frames : Lease!Pass(f, ClassOf("tx"), ClassOf("nic"))
      BY <1>1, <1>2, <1>8, MoveIn, PassStep
    <2> QED
      BY <2>1, StayStep DEF ClassOf
  <1>9. CASE Len(at["nic"]) > 0 /\ Move("nic", "comp")
    <2>1. \E f \in Frames : Lease!Pass(f, ClassOf("nic"), ClassOf("comp"))
      BY <1>1, <1>2, <1>9, MoveIn, PassStep
    <2> QED
      BY <2>1 DEF ClassOf, Lease!LeaseNext, Lease!Complete
  <1>10. CASE Len(at["comp"]) > 0 /\ Free("comp")
    <2>1. \E f \in Frames : Lease!Pass(f, ClassOf("comp"), ClassOf("free"))
      BY <1>1, <1>2, <1>10, FreeIn, PassStep
    <2> QED
      BY <2>1 DEF ClassOf, Lease!LeaseNext, Lease!Reclaim
  <1>11. CASE Len(at["rx"]) > 0 /\ Free("rx")
    <2>1. \E f \in Frames : Lease!Pass(f, ClassOf("rx"), ClassOf("free"))
      BY <1>1, <1>2, <1>11, FreeIn, PassStep
    <2> QED
      BY <2>1 DEF ClassOf, Lease!LeaseNext, Lease!Discard
  <1> QED
    BY <1>1, StepShape, <1>3, <1>4, <1>5, <1>6, <1>7, <1>8, <1>9, <1>10, <1>11

(* The queue implements the frame lease: a frame is answered or discarded   *)
(* once per delivery, and reused only after its transmission completed.     *)
THEOREM Refinement ==
  ASSUME FrameCount >= RingSize
  PROVE  Spec => LeaseSpec
  <1>1. Init => QueueInv /\ Lease!LeaseInit
    BY QueueInit, LeaseInitOK
  <1>2. QueueInv /\ [Next]_vars => QueueInv'
    BY QueueStep
  <1>3. QueueInv /\ QueueInv' /\ [Next]_vars => [Lease!LeaseNext]_holderMap
    BY LeaseStep
  <1> QED
    BY <1>1, <1>2, <1>3, PTL DEF Spec, LeaseSpec, Lease!LeaseSpec, holderMap
=============================================================================
