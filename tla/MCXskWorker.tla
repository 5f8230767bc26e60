----------------------------- MODULE MCXskWorker -----------------------------
(* A small instance of XskWorker.  The TX wait meets a full completion ring *)
(* from the fifth packet on, without kicks cut short.                       *)
EXTENDS XskWorkerProps

MCMaxArrivals == [dns |-> 4, nxdomain |-> 5, count |-> 4]
=============================================================================
