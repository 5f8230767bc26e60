------------------------------ MODULE XskWorker ------------------------------
(***************************************************************************)
(* One queue of the DNS responder: the UMEM with its free-frame stack, the *)
(* four AF_XDP rings, the worker thread that drives them                   *)
(* (dns_responder/src/af_xdp.c) and, as the environment, the kernel at the *)
(* other end of the rings and the signal that clears `running'.            *)
(*                                                                         *)
(* A frame address i * frame_size is the number i.  Every iteration of a   *)
(* loop over frames is one step, so the kernel interleaves with the middle *)
(* of every batch.  An entry the worker has reserved and written becomes   *)
(* visible to the kernel at the submit (fillVis, txVis); a slot it has     *)
(* peeked and read goes back to the kernel at the release (rxHeld,         *)
(* compHeld).                                                              *)
(***************************************************************************)
EXTENDS Integers, Sequences

CONSTANTS
  FrameCount,        \* -f: frames of the UMEM (frame_count)
  RingSize,          \* DEFAULT_RING_SIZE, the size of each of the four rings
  BatchSize,         \* -b: RX batch (batch_size)
  DefaultBatchSize,  \* DEFAULT_BATCH_SIZE: tx_addrs[] and the reclaim batch
  Modes,             \* the worker functions main() may start
  MaxArrivals,       \* bound: packets the queue receives in one run, in each mode
  KernelGivesUp      \* modes in which a kick may end before the TX ring is drained

ASSUME WorkerAssumption ==
  /\ FrameCount \in Nat \ {0}
  /\ RingSize \in Nat /\ RingSize >= 2
  /\ DefaultBatchSize \in 1..RingSize
  /\ BatchSize \in 1..DefaultBatchSize
  /\ Modes \subseteq {"dns", "nxdomain", "count"}
  /\ MaxArrivals \in [Modes -> Nat]
  /\ KernelGivesUp \subseteq Modes

VARIABLES
  mode,      \* which worker function runs
  at,        \* the frames in each place, oldest first (the stack: top first)
  fillVis,   \* entries of the fill ring submitted to the kernel
  txVis,     \* entries of the TX ring submitted to the kernel
  rxHeld,    \* RX slots read by the worker and not yet released
  compHeld,  \* completion slots read by the worker and not yet released
  pc,        \* where the worker is
  n,         \* frames left in the loop the worker is in; tx_count at writeTx
  stats,     \* thread_stats
  running,   \* what ctx->running points to
  kicked,    \* the kernel is transmitting on behalf of a kick_tx
  wire       \* packets delivered and transmitted by the kernel

rings  == <<at, fillVis, txVis, rxHeld, compHeld>>
driver == <<kicked, wire>>
vars   == <<mode, rings, pc, n, stats, running, driver>>

Frames == 0 .. FrameCount - 1

(* batch is tx_addrs[0..tx_count-1]; nic is the descriptors the driver has  *)
(* taken from the TX ring and not completed.                                *)
Places == {"free", "fill", "rx", "batch", "tx", "nic", "comp"}

Labels == {"populate", "top", "peekComp", "reclaim", "reserveFill", "refill",
           "peekRx", "process", "reserveTx", "spinPeek", "spin", "writeTx",
           "done"}

(* How many frames are in each place. *)
InPool  == Len(at["free"])     \* free_count
InFill  == Len(at["fill"])
InRx    == Len(at["rx"])
InBatch == Len(at["batch"])    \* tx_count
InTx    == Len(at["tx"])
InNic   == Len(at["nic"])
InComp  == Len(at["comp"])

AtMost(a, b) == IF a <= b THEN a ELSE b

(* The head of place p becomes the newest entry of place q. *)
Move(p, q) == at' = [at EXCEPT ![p] = Tail(@), ![q] = Append(@, Head(at[p]))]

(* free_frame() of the head of place p. *)
Free(p) == at' = [at EXCEPT ![p] = Tail(@),
                            !["free"] = <<Head(at[p])>> \o @]

(* Goto: the worker moves to another label, its loop counter set to k. *)
Goto(label, k) == pc' = label /\ n' = k

(* One iteration of a loop over n frames. *)
Iterate == n > 0 /\ n' = n - 1 /\ UNCHANGED pc

TxHasRoom == InTx + InBatch <= RingSize

Init ==
  /\ mode \in Modes
  /\ at = [p \in Places |->
             IF p = "free" THEN [i \in 1..FrameCount |-> FrameCount - i]
                           ELSE << >>]
  /\ fillVis = 0 /\ txVis = 0 /\ rxHeld = 0 /\ compHeld = 0
  /\ pc = "populate" /\ n = RingSize
  /\ stats = [rx_packets |-> 0, tx_packets |-> 0, parse_errors |-> 0,
              typed |-> 0, rx_drops |-> 0]
  /\ running = TRUE
  /\ kicked = FALSE
  /\ wire = [delivered |-> 0, sent |-> 0]

-----------------------------------------------------------------------------
(* Mistakes the properties must notice: each takes the place of the         *)
(* definition it is named after.                                            *)

ToFillUnclamped == InPool                \* no "don't overfill"
ToFillBlind     == RingSize \div 2        \* free_count is not consulted
DiscardTo(places, as) ==                 \* the frame goes to these places,
  /\ pc = "process" /\ Iterate           \* counted as in mode `as'
  /\ at' = [p \in Places |->
              IF p = "rx" THEN Tail(at[p])
              ELSE IF p \in places THEN Append(at[p], Head(at["rx"]))
              ELSE at[p]]
  /\ stats' = [stats EXCEPT
                 !.rx_packets = IF as = "nxdomain" THEN @ ELSE @ + 1,
                 !.parse_errors = IF as = "dns" THEN @ + 1 ELSE @]
  /\ rxHeld' = rxHeld + 1
  /\ UNCHANGED <<mode, fillVis, txVis, compHeld, running, driver>>

DiscardOneNoContinue == DiscardTo({"free", "batch"}, mode)
DiscardOneLeaks      == DiscardTo({}, mode)
DiscardOneToFill     == DiscardTo({"fill"}, mode)
DiscardOneCounted    == DiscardTo({"free"}, "count")

SpinStep(label, kick) ==
  /\ pc = "reserveTx" /\ ~TxHasRoom
  /\ Goto(label, 0)
  /\ kicked' = (kick \/ kicked)
  /\ UNCHANGED <<mode, rings, stats, running, wire>>

SpinKickQuits     == SpinStep(IF running THEN "spinPeek" ELSE "top", TRUE)
SpinKickNoReclaim == SpinStep("reserveTx", TRUE)
SpinKickNoKick    == SpinStep("spinPeek", FALSE)

SubmitStep(count, kick) ==
  /\ pc = "writeTx" /\ InBatch = 0
  /\ txVis' = InTx
  /\ kicked' = (kick \/ kicked)
  /\ stats' = [stats EXCEPT
                 !.tx_packets = IF mode = "dns" THEN @ + count ELSE @]
  /\ Goto("top", 0)
  /\ UNCHANGED <<mode, at, fillVis, rxHeld, compHeld, running, wire>>

SubmitTxCountsBatch == SubmitStep(BatchSize, TRUE)
SubmitTxNoKick      == SubmitStep(n, FALSE)

-----------------------------------------------------------------------------
(* The worker (and, for "populate", the main thread before it). *)

(* One iteration of the loops that move frames from the stack to the fill   *)
(* ring.                                                                    *)
FillOne ==
  /\ pc \in {"populate", "refill"} /\ InPool > 0
  /\ Iterate
  /\ Move("free", "fill")
  /\ UNCHANGED <<mode, fillVis, txVis, rxHeld, compHeld, stats, running, driver>>

(* The submit after those loops.  A loop that broke out on an empty stack   *)
(* leaves n reserved slots unwritten, and they are submitted all the same:  *)
(* the fresh ring of xsk_populate_fill_ring holds address 0 there, a used   *)
(* one any old address.                                                     *)
SubmitFill ==
  /\ pc \in {"populate", "refill"}
  /\ (n = 0 \/ InPool = 0)
  /\ \E stale \in [1..n -> IF pc = "populate" THEN {0} ELSE Frames] :
        at' = [at EXCEPT !["fill"] = @ \o stale]
  /\ fillVis' = InFill + n
  /\ Goto(IF pc = "populate" THEN "top" ELSE "peekRx", 0)
  /\ UNCHANGED <<mode, txVis, rxHeld, compHeld, stats, running, driver>>

(* The test of the worker loop, on ctx->running. *)
CheckRunning ==
  /\ pc = "top"
  /\ Goto(IF running THEN "peekComp" ELSE "done", 0)
  /\ UNCHANGED <<mode, rings, stats, running, driver>>

(* reclaim_completion, called at the top of the loop and while spinning for *)
(* TX slots: the peek, one completed frame, the release.                    *)
PeekComp ==
  /\ pc \in {"peekComp", "spinPeek"}
  /\ Goto(IF pc = "peekComp" THEN "reclaim" ELSE "spin",
          AtMost(DefaultBatchSize, InComp))
  /\ UNCHANGED <<mode, rings, stats, running, driver>>

ReclaimOne ==
  /\ pc \in {"reclaim", "spin"}
  /\ Iterate
  /\ Free("comp")
  /\ compHeld' = compHeld + 1
  /\ UNCHANGED <<mode, fillVis, txVis, rxHeld, stats, running, driver>>

ReleaseComp ==
  /\ pc \in {"reclaim", "spin"} /\ n = 0
  /\ compHeld' = 0
  /\ Goto(IF pc = "reclaim" THEN "reserveFill" ELSE "reserveTx", 0)
  /\ UNCHANGED <<mode, at, fillVis, txVis, rxHeld, stats, running, driver>>

(* refill_fill_ring up to its loop: half a ring at most, all or nothing. *)
ToFill == AtMost(InPool, RingSize \div 2)

ReserveFill ==
  /\ pc = "reserveFill"
  /\ IF ToFill > 0 /\ InFill + ToFill <= RingSize
     THEN Goto("refill", ToFill)
     ELSE Goto("peekRx", 0)
  /\ UNCHANGED <<mode, rings, stats, running, driver>>

(* The peek of the RX ring; an empty ring polls for 10 ms and starts over. *)
PeekRx ==
  /\ pc = "peekRx"
  /\ Goto(IF InRx = 0 THEN "top" ELSE "process",
          AtMost(BatchSize, InRx))
  /\ UNCHANGED <<mode, rings, stats, running, driver>>

(* What the other two worker functions do differently.  The NXDOMAIN worker *)
(* does not count the packets it rejects; the count-only worker has no TX   *)
(* half at all and frees every packet it counts.                            *)
CountsRejected == mode # "nxdomain"
Answers        == mode # "count"

(* A packet without an answer goes back to the pool: one that               *)
(* process_*_packet rejects, and every packet in count-only mode.           *)
DiscardOne ==
  /\ pc = "process"
  /\ Iterate
  /\ Free("rx")
  /\ stats' = [stats EXCEPT
                 !.rx_packets = IF CountsRejected THEN @ + 1 ELSE @,
                 !.parse_errors = IF mode = "dns" THEN @ + 1 ELSE @]
  /\ rxHeld' = rxHeld + 1
  /\ UNCHANGED <<mode, fillVis, txVis, compHeld, running, driver>>

(* A packet turned into its response in place is collected for TX; the DNS  *)
(* worker counts it under exactly one query type (typed is their sum).      *)
AnswerOne ==
  /\ pc = "process" /\ Answers
  /\ Iterate
  /\ Move("rx", "batch")
  /\ stats' = [stats EXCEPT !.rx_packets = @ + 1,
                            !.typed = IF mode = "dns" THEN @ + 1 ELSE @]
  /\ rxHeld' = rxHeld + 1
  /\ UNCHANGED <<mode, fillVis, txVis, compHeld, running, driver>>

ReleaseRx ==
  /\ pc = "process" /\ n = 0
  /\ rxHeld' = 0
  /\ Goto(IF InBatch = 0 THEN "top" ELSE "reserveTx", 0)
  /\ UNCHANGED <<mode, at, fillVis, txVis, compHeld, stats, running, driver>>

(* The loop that waits for tx_count TX slots: reserve all of them, or kick  *)
(* the kernel, reclaim and try again.  It does not look at running.         *)
ReserveTx ==
  /\ pc = "reserveTx" /\ TxHasRoom
  /\ Goto("writeTx", InBatch)
  /\ UNCHANGED <<mode, rings, stats, running, driver>>

SpinKick ==
  /\ pc = "reserveTx" /\ ~TxHasRoom
  /\ Goto("spinPeek", 0)
  /\ kicked' = TRUE
  /\ UNCHANGED <<mode, rings, stats, running, wire>>

WriteOne ==
  /\ pc = "writeTx" /\ InBatch > 0
  /\ Move("batch", "tx")
  /\ UNCHANGED <<mode, fillVis, txVis, rxHeld, compHeld, pc, n, stats, running,
                 driver>>

(* Submit, kick_tx, and the DNS worker's TX counter. *)
SubmitTx ==
  /\ pc = "writeTx" /\ InBatch = 0
  /\ txVis' = InTx
  /\ kicked' = TRUE
  /\ stats' = [stats EXCEPT !.tx_packets = IF mode = "dns" THEN @ + n ELSE @]
  /\ Goto("top", 0)
  /\ UNCHANGED <<mode, at, fillVis, rxHeld, compHeld, running, wire>>

Worker == \/ FillOne    \/ SubmitFill  \/ CheckRunning \/ PeekComp
          \/ ReclaimOne \/ ReleaseComp \/ ReserveFill  \/ PeekRx
          \/ DiscardOne \/ AnswerOne   \/ ReleaseRx    \/ ReserveTx
          \/ SpinKick   \/ WriteOne    \/ SubmitTx

-----------------------------------------------------------------------------
(* The kernel and the rest of the environment. *)

(* A packet needs a frame from the fill ring and a slot of the RX ring. The *)
(* kernel drops any other one, which changes nothing in the queue.         *)
CanReceive == fillVis > 0 /\ InRx + rxHeld < RingSize

Receive ==
  /\ wire.delivered < MaxArrivals[mode] /\ CanReceive
  /\ Move("fill", "rx")
  /\ fillVis' = fillVis - 1
  /\ wire' = [wire EXCEPT !.delivered = @ + 1]
  /\ UNCHANGED <<mode, txVis, rxHeld, compHeld, pc, n, stats, running, kicked>>

(* The driver takes a descriptor only with a completion slot set aside. *)
Transmit ==
  /\ kicked /\ txVis > 0
  /\ InNic + InComp + compHeld < RingSize
  /\ Move("tx", "nic")
  /\ txVis' = txVis - 1
  /\ kicked' = (txVis > 1)
  /\ wire' = [wire EXCEPT !.sent = @ + 1]
  /\ UNCHANGED <<mode, fillVis, rxHeld, compHeld, pc, n, stats, running>>

(* sendto(MSG_DONTWAIT), whose result kick_tx ignores, may stop early. *)
GiveUp ==
  /\ mode \in KernelGivesUp /\ kicked
  /\ kicked' = FALSE
  /\ UNCHANGED <<mode, rings, pc, n, stats, running, wire>>

Complete ==
  /\ InNic > 0
  /\ Move("nic", "comp")
  /\ UNCHANGED <<mode, fillVis, txVis, rxHeld, compHeld, pc, n, stats, running,
                 driver>>

(* SIGINT, SIGTERM or the end of the duration, in the main thread. *)
Stop ==
  /\ running
  /\ running' = FALSE
  /\ UNCHANGED <<mode, rings, pc, n, stats, driver>>

Kernel == Receive \/ Transmit \/ GiveUp \/ Complete

Next == Worker \/ Kernel \/ Stop

Spec == Init /\ [][Next]_vars

(* The worker is a running thread; the driver completes what it took, and   *)
(* one that is kicked again and again transmits.                            *)
WorkerFairness == WF_vars(Worker)
KernelFairness == SF_vars(Transmit) /\ WF_vars(Complete)

FairSpec == Spec /\ WorkerFairness /\ KernelFairness
=============================================================================
