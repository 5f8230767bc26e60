--------------------------- MODULE XskWorkerProps ---------------------------
(***************************************************************************)
(* What the queue of module XskWorker must guarantee.                      *)
(***************************************************************************)
EXTENDS XskWorker

Stats == [rx_packets : Nat, tx_packets : Nat, parse_errors : Nat,
          typed : Nat, rx_drops : Nat]

(* Type correctness: every place holds frames of the UMEM, and the counters *)
(* of published and held slots stay within their rings.                     *)
TypeOK ==
  /\ mode \in Modes
  /\ at \in [Places -> Seq(Frames)]
  /\ fillVis \in 0 .. InFill
  /\ txVis \in 0 .. InTx
  /\ rxHeld \in Nat /\ compHeld \in Nat
  /\ pc \in Labels
  /\ n \in Nat
  /\ stats \in Stats
  /\ running \in BOOLEAN
  /\ kicked \in BOOLEAN
  /\ wire \in [delivered : Nat, sent : Nat]

(* One owner: no frame address is in two places, nor twice in one.  Two     *)
(* packets would otherwise share the bytes of one frame (free_frame called  *)
(* twice, a slot submitted that was never written, a batch transmitted and  *)
(* freed).                                                                  *)
OneOwner ==
  \A p, q \in Places : \A i \in 1..Len(at[p]), j \in 1..Len(at[q]) :
     at[p][i] = at[q][j] => p = q /\ i = j

(* No leak: the frames in the seven places are exactly as many as the UMEM  *)
(* has, so none is lost on an error path or between a peek and a release    *)
(* and free_frame never writes past free_stack[frame_count - 1].            *)
Held == InPool + InFill + InRx + InBatch + InTx + InNic + InComp

NoLeak == Held = FrameCount

(* The producers never write over entries the consumer has not taken, and   *)
(* tx_addrs[] is never overrun: the reservations the worker makes are large *)
(* enough for every entry it writes; and alloc_frame never comes back       *)
(* empty-handed in the middle of a fill, the case in which unwritten slots  *)
(* would be submitted (af_xdp.c:167).                                       *)
RingsFit == /\ InFill <= RingSize
            /\ InRx + rxHeld <= RingSize
            /\ InTx <= RingSize
            /\ InNic + InComp + compHeld <= RingSize
            /\ InBatch <= DefaultBatchSize
            /\ pc \in {"populate", "refill"} => n <= InPool

(* Packets answered but not yet in the worker's TX counter. *)
Uncounted == IF pc = "writeTx" THEN n ELSE InBatch

(* The books of the DNS worker balance at every step: each packet it        *)
(* received is a parse error, has been handed to the TX ring, or is in the  *)
(* batch it is working on; and each answer has exactly one query type.      *)
BooksBalance ==
  mode = "dns" =>
    /\ stats.rx_packets = stats.parse_errors + stats.tx_packets + Uncounted
    /\ stats.rx_packets = stats.parse_errors + stats.typed
    /\ wire.delivered = stats.rx_packets + InRx

(* One response per query, in every mode: what the driver sent and what is  *)
(* on its way to it is what the worker accepted, and count-only mode never  *)
(* transmits.                                                               *)
OneResponsePerQuery ==
  LET responses == wire.sent + InTx + InBatch
  IN  CASE mode = "dns"      -> responses = stats.typed
        [] mode = "nxdomain" -> responses = stats.rx_packets
        [] mode = "count"    -> responses = 0

(* A worker that has returned has finished its batch: nothing answered is   *)
(* left behind unsubmitted, and every RX and completion slot is released.   *)
CleanExit ==
  pc = "done" => /\ InBatch = 0
                 /\ txVis = InTx
                 /\ fillVis = InFill
                 /\ rxHeld = 0 /\ compHeld = 0

-----------------------------------------------------------------------------
(* A worker told to stop returns (af_xdp.h:81), even from the loop that     *)
(* waits for TX slots.                                                      *)
StopTerminates == ~running ~> pc = "done"

(* The wait for TX slots always ends: kicking and reclaiming inside it is   *)
(* enough, however full the TX and completion rings are.                    *)
SpinEnds == pc = "reserveTx" ~> pc = "writeTx"

(* An empty fill ring is refilled as long as the worker runs, so reception  *)
(* never dies out while the pool or the TX path still has frames.           *)
FillReplenished == fillVis = 0 /\ running ~> fillVis > 0 \/ ~running

(* With a driver that drains the TX ring once kicked (zero-copy), every     *)
(* response submitted is sent unless the run is stopped first.              *)
AnswersSent == txVis > 0 /\ mode \notin KernelGivesUp ~> txVis = 0 \/ ~running

-----------------------------------------------------------------------------
(* Refinement: who holds a frame is where its address is. *)
In(f, p) == \E i \in 1..Len(at[p]) : at[p][i] = f

HolderOf(f) == IF In(f, "free") THEN "pool"
               ELSE IF In(f, "fill") THEN "driver_rx"
               ELSE IF In(f, "rx") \/ In(f, "batch") THEN "app"
               ELSE IF In(f, "comp") THEN "completed"
               ELSE "driver_tx"

Lease == INSTANCE FrameLease WITH
           Frame  <- Frames,
           holder <- [f \in Frames |-> HolderOf(f)]

(* The queue implements the lease: a frame passes from the pool to the      *)
(* driver, to the worker, and back to the pool directly or through the      *)
(* driver's TX side, one frame at a time and never by another way.          *)
LeaseSpec == Lease!LeaseSpec
=============================================================================
