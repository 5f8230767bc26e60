----------------------------- MODULE FrameLease -----------------------------
(***************************************************************************)
(* What one AF_XDP queue of the DNS responder promises about its UMEM.     *)
(* Every frame has exactly one holder at any time, and changes hands only  *)
(* along the cycle the rings define:                                       *)
(*                                                                         *)
(*  pool --Fill--> driver_rx --Deliver--> app --Answer--> driver_tx        *)
(*   ^                                     |                  |            *)
(*   +-------------- Discard --------------+               Complete        *)
(*   |                                                        |            *)
(*   +------------------------ Reclaim -------------------- completed      *)
(*                                                                         *)
(* So a frame is answered or discarded exactly once per delivery, and no   *)
(* frame is reused before the driver has completed its transmission.       *)
(* XskWorker implements this specification.                                *)
(***************************************************************************)
EXTENDS Integers

CONSTANT Frame            \* the frames of the UMEM

VARIABLE holder           \* who may touch the bytes of each frame

Holder == {"pool", "driver_rx", "app", "driver_tx", "completed"}

LeaseInit == holder = [f \in Frame |-> "pool"]

Pass(f, from, to) == /\ holder[f] = from
                     /\ holder' = [holder EXCEPT ![f] = to]

Fill(f)     == Pass(f, "pool", "driver_rx")
Deliver(f)  == Pass(f, "driver_rx", "app")
Discard(f)  == Pass(f, "app", "pool")
Answer(f)   == Pass(f, "app", "driver_tx")
Complete(f) == Pass(f, "driver_tx", "completed")
Reclaim(f)  == Pass(f, "completed", "pool")

LeaseNext == \E f \in Frame :
                \/ Fill(f)
                \/ Deliver(f)
                \/ Discard(f)
                \/ Answer(f)
                \/ Complete(f)
                \/ Reclaim(f)

LeaseSpec == LeaseInit /\ [][LeaseNext]_holder
=============================================================================
