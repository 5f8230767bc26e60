----------------------------- MODULE Responder -----------------------------
(***************************************************************************)
(* The life of one dns_responder process (dns_responder/src/main.c): the   *)
(* XDP program, the UMEM and socket of every queue, the worker threads,    *)
(* the wait for the duration or a signal, the join, the collection of the  *)
(* per-thread counters and the release of everything.                      *)
(*                                                                         *)
(* The main thread is sequential; the workers and the signals interleave   *)
(* with it.  A worker is reduced to what main relies on: it counts packets *)
(* while it runs and returns some time after `running' is cleared, which   *)
(* module XskWorker establishes (StopTerminates).                          *)
(***************************************************************************)
EXTENDS Integers, FiniteSets

CONSTANTS
  NumQueues,     \* -q, or the queues detected
  Durations,     \* the values of -d: 0 means until a signal
  ZeroCopy,      \* the values of cfg.zerocopy: 0 off, 1 preferred, 2 forced
  MaxPackets,    \* bound: packets one worker counts
  MaxSignals     \* bound: signals sent to the process

ASSUME ResponderAssumption ==
  /\ NumQueues \in 1..64                   \* MAX_QUEUES
  /\ Durations \subseteq Nat
  /\ ZeroCopy \subseteq 0..2
  /\ MaxPackets \in Nat /\ MaxSignals \in Nat

VARIABLES
  cfg,        \* [duration, zerocopy]
  pc,         \* where the main thread is
  q,          \* the queue its current loop is at
  xdp,        \* the mode our XDP program is attached in, or "none"
  bind,       \* bind_flags
  umem,       \* the UMEM object of each queue
  area,       \* its memory
  sock,       \* its socket: the mode it is bound in, "none" or "closed"
  filled,     \* queues registered in the XSKMAP, with a populated fill ring
  handle,     \* threads[]
  thread,     \* what the worker threads do
  seen,       \* their rx_packets
  reported,   \* all_stats[], -1 where it has not been copied
  remaining,  \* seconds left
  running,    \* the flag every worker polls
  signals,    \* signals sent so far
  ret         \* the exit status

queues  == <<umem, area, sock, filled>>
workers == <<handle, thread, seen>>
flags   == <<running, signals>>
vars    == <<cfg, pc, q, xdp, bind, queues, workers, reported, remaining, flags, ret>>

Queues == 1..NumQueues

Over == {"exit", "crashed"}

Goto(label, k) == pc' = label /\ q' = k

(* The next queue of the loop the main thread is in, or what follows it. *)
NextQueue(label, after) ==
  IF q < NumQueues THEN Goto(label, q + 1) ELSE Goto(after, 1)

Init ==
  /\ cfg \in [duration : Durations, zerocopy : ZeroCopy]
  /\ pc = "load" /\ q = 1
  /\ xdp = "none" /\ bind = "none"
  /\ umem = [k \in Queues |-> "none"]
  /\ area = [k \in Queues |-> "none"]
  /\ sock = [k \in Queues |-> "none"]
  /\ filled = {}
  /\ handle = [k \in Queues |-> "none"]
  /\ thread = [k \in Queues |-> "none"]
  /\ seen = [k \in Queues |-> 0]
  /\ reported = [k \in Queues |-> -1]
  /\ remaining = cfg.duration
  /\ running = TRUE /\ signals = 0
  /\ ret = 1

-----------------------------------------------------------------------------
(* Mistakes the properties must notice. *)

BindModeForced == IF cfg.zerocopy = 0 THEN "copy" ELSE "zerocopy"

CreateFailsNoJoin ==
  /\ pc = "launch"
  /\ \E h \in {"none", "undefined"} : handle' = [handle EXCEPT ![q] = h]
  /\ running' = FALSE
  /\ Goto("release", 1)
  /\ UNCHANGED <<cfg, xdp, bind, queues, thread, seen, reported, remaining,
                 signals, ret>>

CreateFailsNoStop ==                        \* `running = 0' forgotten
  /\ pc = "launch"
  /\ \E h \in {"none", "undefined"} : handle' = [handle EXCEPT ![q] = h]
  /\ Goto("join", 1)
  /\ UNCHANGED <<cfg, xdp, bind, queues, thread, seen, reported, remaining,
                 flags, ret>>

DurationOverNoJoin ==                       \* counters read without the join
  /\ pc = "wait" /\ cfg.duration > 0 /\ (~running \/ remaining = 0)
  /\ running' = FALSE
  /\ Goto("collect", 1)
  /\ UNCHANGED <<cfg, xdp, bind, queues, workers, reported, remaining, signals,
                 ret>>

ReleaseNoSocket ==                          \* the socket is not deleted
  /\ pc = "release"
  /\ umem' = [umem EXCEPT ![q] = IF @ = "none" THEN @ ELSE "freed"]
  /\ area' = [area EXCEPT ![q] = IF @ \in {"none", "failed"} THEN @ ELSE "freed"]
  /\ NextQueue("release", "detach")
  /\ UNCHANGED <<cfg, xdp, bind, sock, filled, workers, reported, remaining,
                 flags, ret>>

-----------------------------------------------------------------------------
(* Setup. *)

(* load_xdp_program: native mode if the driver has it, SKB mode if not.     *)
LoadXdp ==
  /\ pc = "load"
  /\ xdp' \in {"drv", "skb"}
  /\ Goto("bind", 1)
  /\ UNCHANGED <<cfg, bind, queues, workers, reported, remaining, flags, ret>>

LoadFails ==
  /\ pc = "load"
  /\ Goto("detach", 1)                      \* workers is still NULL
  /\ UNCHANGED <<cfg, xdp, bind, queues, workers, reported, remaining, flags, ret>>

BindMode == IF xdp = "skb" \/ cfg.zerocopy = 0 THEN "copy" ELSE "zerocopy"

ChooseBind ==
  /\ pc = "bind"
  /\ ~(xdp = "skb" /\ cfg.zerocopy = 2)
  /\ bind' = BindMode
  /\ Goto("umem", 1)
  /\ UNCHANGED <<cfg, xdp, queues, workers, reported, remaining, flags, ret>>

(* Zero-copy forced in SKB mode, or calloc failed. *)
BindFails ==
  /\ pc = "bind"
  /\ Goto("release", 1)
  /\ UNCHANGED <<cfg, xdp, bind, queues, workers, reported, remaining, flags, ret>>

UmemInit ==
  /\ pc = "umem"
  /\ umem' = [umem EXCEPT ![q] = "live"]
  /\ area' = [area EXCEPT ![q] = "live"]
  /\ Goto("socket", q)
  /\ UNCHANGED <<cfg, xdp, bind, sock, filled, workers, reported, remaining,
                 flags, ret>>

(* The three failures of xsk_umem_init: mmap, xsk_umem__create, malloc.     *)
(* The last two release what was there and leave the pointers standing, the *)
(* first one leaves MAP_FAILED in the pointer.                              *)
UmemInitFails ==
  /\ pc = "umem"
  /\ \E failed \in {"mmap", "create", "malloc"} :
       /\ area' = [area EXCEPT ![q] = IF failed = "mmap" THEN "failed" ELSE "freed"]
       /\ umem' = [umem EXCEPT ![q] = IF failed = "malloc" THEN "freed" ELSE "none"]
  /\ Goto("release", 1)
  /\ UNCHANGED <<cfg, xdp, bind, sock, filled, workers, reported, remaining,
                 flags, ret>>

SocketInit ==
  /\ pc = "socket"
  /\ sock' = [sock EXCEPT ![q] = bind]
  /\ Goto("register", q)
  /\ UNCHANGED <<cfg, xdp, bind, umem, area, filled, workers, reported, remaining,
                 flags, ret>>

(* Zero-copy preferred and refused: this queue and every later one copies.  *)
FallBack ==
  /\ pc = "socket" /\ cfg.zerocopy = 1 /\ bind = "zerocopy"
  /\ bind' = "copy"
  /\ UNCHANGED <<cfg, pc, q, xdp, queues, workers, reported, remaining, flags, ret>>

SocketFails ==
  /\ pc = "socket" /\ ~(cfg.zerocopy = 1 /\ bind = "zerocopy")
  /\ Goto("release", 1)
  /\ UNCHANGED <<cfg, xdp, bind, queues, workers, reported, remaining, flags, ret>>

(* bpf_map_update_elem and xsk_populate_fill_ring. *)
Register ==
  /\ pc = "register"
  /\ filled' = filled \union {q}
  /\ NextQueue("umem", "launch")
  /\ UNCHANGED <<cfg, xdp, bind, umem, area, sock, workers, reported, remaining,
                 flags, ret>>

RegisterFails ==
  /\ pc = "register"
  /\ Goto("release", 1)
  /\ UNCHANGED <<cfg, xdp, bind, queues, workers, reported, remaining, flags, ret>>

-----------------------------------------------------------------------------
(* The run. *)

CreateThread ==
  /\ pc = "launch"
  /\ handle' = [handle EXCEPT ![q] = "thread"]
  /\ thread' = [thread EXCEPT ![q] = "running"]
  /\ NextQueue("launch", "wait")
  /\ UNCHANGED <<cfg, xdp, bind, queues, seen, reported, remaining, flags, ret>>

(* A failed pthread_create leaves threads[q] undefined. *)
CreateFails ==
  /\ pc = "launch"
  /\ \E h \in {"none", "undefined"} : handle' = [handle EXCEPT ![q] = h]
  /\ running' = FALSE
  /\ Goto("join", 1)
  /\ UNCHANGED <<cfg, xdp, bind, queues, thread, seen, reported, remaining,
                 signals, ret>>

(* The wait loop with a duration: nanosleep(1 s) as long as running holds   *)
(* and seconds remain; a signal cuts a second short.                        *)
Sleep ==
  /\ pc = "wait" /\ cfg.duration > 0
  /\ running /\ remaining > 0
  /\ remaining' = remaining - 1
  /\ UNCHANGED <<cfg, pc, q, xdp, bind, queues, workers, reported, flags, ret>>

DurationOver ==
  /\ pc = "wait" /\ cfg.duration > 0
  /\ (~running \/ remaining = 0)
  /\ running' = FALSE
  /\ Goto("join", 1)
  /\ UNCHANGED <<cfg, xdp, bind, queues, workers, reported, remaining, signals,
                 ret>>

(* The wait loop without one: the test of running, then pause(), which only *)
(* a signal that arrives while it sleeps can end.                           *)
TestRunning ==
  /\ pc = "wait" /\ cfg.duration = 0
  /\ Goto(IF running THEN "pause" ELSE "join", 1)
  /\ UNCHANGED <<cfg, xdp, bind, queues, workers, reported, remaining, flags, ret>>

Pause ==
  /\ pc = "pause"
  /\ Goto("paused", 1)
  /\ UNCHANGED <<cfg, xdp, bind, queues, workers, reported, remaining, flags, ret>>

(* pthread_join of every handle that is not zero. *)
Join ==
  /\ pc = "join"
  /\ handle[q] = "thread" => thread[q] = "returned"
  /\ NextQueue("join", "collect")
  /\ UNCHANGED <<cfg, xdp, bind, queues, workers, reported, remaining, flags, ret>>

(* Joining an undefined handle may end the process there and then. *)
JoinCrashes ==
  /\ pc = "join" /\ handle[q] = "undefined"
  /\ Goto("crashed", q)
  /\ UNCHANGED <<cfg, xdp, bind, queues, workers, reported, remaining, flags, ret>>

Collect ==
  /\ pc = "collect"
  /\ reported' = [reported EXCEPT ![q] = seen[q]]
  /\ NextQueue("collect", "release")
  /\ ret' = IF q = NumQueues THEN 0 ELSE ret
  /\ UNCHANGED <<cfg, xdp, bind, queues, workers, remaining, flags>>

(* malloc of all_stats failed: no report, and still exit status 0. *)
CollectFails ==
  /\ pc = "collect" /\ q = 1
  /\ Goto("release", 1)
  /\ ret' = 0
  /\ UNCHANGED <<cfg, xdp, bind, queues, workers, reported, remaining, flags>>

(* xsk_cleanup: whatever pointer is set is released, once more if need be;  *)
(* munmap refuses MAP_FAILED.                                               *)
ReleaseOf(resource) == IF resource \in {"none", "failed"} THEN resource ELSE "freed"

Release ==
  /\ pc = "release"
  /\ sock' = [sock EXCEPT ![q] = IF @ = "none" THEN "none" ELSE "closed"]
  /\ umem' = [umem EXCEPT ![q] = ReleaseOf(@)]
  /\ area' = [area EXCEPT ![q] = ReleaseOf(@)]
  /\ NextQueue("release", "detach")
  /\ UNCHANGED <<cfg, xdp, bind, filled, workers, reported, remaining, flags, ret>>

Detach ==
  /\ pc = "detach"
  /\ xdp' = "none"
  /\ Goto("exit", 1)
  /\ UNCHANGED <<cfg, bind, queues, workers, reported, remaining, flags, ret>>

Main == \/ LoadXdp  \/ LoadFails  \/ ChooseBind    \/ BindFails   \/ UmemInit
        \/ UmemInitFails          \/ SocketInit    \/ FallBack    \/ SocketFails
        \/ Register \/ RegisterFails               \/ CreateThread
        \/ CreateFails            \/ Sleep         \/ DurationOver
        \/ TestRunning            \/ Pause         \/ Join        \/ JoinCrashes
        \/ Collect  \/ CollectFails                \/ Release     \/ Detach

-----------------------------------------------------------------------------
(* The worker of queue k, and the signals. *)

Count(k) ==
  /\ thread[k] = "running" /\ pc \notin Over
  /\ seen[k] < MaxPackets
  /\ seen' = [seen EXCEPT ![k] = @ + 1]
  /\ UNCHANGED <<cfg, pc, q, xdp, bind, queues, handle, thread, reported,
                 remaining, flags, ret>>

Return(k) ==
  /\ thread[k] = "running" /\ pc \notin Over
  /\ ~running
  /\ thread' = [thread EXCEPT ![k] = "returned"]
  /\ UNCHANGED <<cfg, pc, q, xdp, bind, queues, handle, seen, reported, remaining,
                 flags, ret>>

(* signal_handler, run by the main thread; it ends a pause() in progress.   *)
Signal ==
  /\ pc \notin Over /\ signals < MaxSignals
  /\ signals' = signals + 1
  /\ running' = FALSE
  /\ pc' = IF pc = "paused" THEN "wait" ELSE pc
  /\ UNCHANGED <<cfg, q, xdp, bind, queues, workers, reported, remaining, ret>>

Next == Main \/ Signal \/ \E k \in Queues : Count(k) \/ Return(k)

Spec == Init /\ [][Next]_vars

(* Threads are scheduled; no signal is ever obliged to come. *)
FairSpec == Spec /\ WF_vars(Main) /\ \A k \in Queues : WF_vars(Return(k))

-----------------------------------------------------------------------------
TypeOK ==
  /\ cfg \in [duration : Durations, zerocopy : ZeroCopy]
  /\ pc \in Over \union {"load", "bind", "umem", "socket", "register", "launch",
                         "wait", "pause", "paused", "join", "collect", "release",
                         "detach"}
  /\ q \in Queues
  /\ xdp \in {"none", "drv", "skb"}
  /\ bind \in {"none", "copy", "zerocopy"}
  /\ umem \in [Queues -> {"none", "live", "freed"}]
  /\ area \in [Queues -> {"none", "failed", "live", "freed"}]
  /\ sock \in [Queues -> {"none", "copy", "zerocopy", "closed"}]
  /\ filled \subseteq Queues
  /\ handle \in [Queues -> {"none", "thread", "undefined"}]
  /\ thread \in [Queues -> {"none", "running", "returned"}]
  /\ seen \in [Queues -> Nat]
  /\ reported \in [Queues -> Nat \union {-1}]
  /\ remaining \in Nat
  /\ running \in BOOLEAN
  /\ signals \in 0..MaxSignals
  /\ ret \in {0, 1}

(* A worker thread only ever runs on a queue that is completely set up and  *)
(* not yet released: no goto of main() leads to xsk_cleanup past a thread   *)
(* that is still using the rings.                                           *)
WorkersOwnLiveQueues ==
  \A k \in Queues : thread[k] = "running" =>
     /\ umem[k] = "live" /\ area[k] = "live"
     /\ sock[k] \in {"copy", "zerocopy"}
     /\ k \in filled

(* The counters in the report are final although no lock or atomic protects *)
(* them: every one was copied after its thread had been joined (README      *)
(* "Aggregated after threads join"), also when not all threads started.     *)
ReportIsFinal ==
  \A k \in Queues : reported[k] # -1 =>
     thread[k] # "running" /\ reported[k] = seen[k]

(* Whatever failed on the way, a process that exits has returned its        *)
(* threads, closed its sockets, freed its memory and detached its program.  *)
NothingLeftBehind ==
  pc = "exit" =>
    /\ xdp = "none"
    /\ \A k \in Queues : /\ thread[k] # "running"
                         /\ sock[k] \in {"none", "closed"}
                         /\ umem[k] # "live" /\ area[k] # "live"

(* Forced zero-copy never degrades silently, SKB mode never binds a         *)
(* zero-copy socket, and after one queue has fallen back no later queue is  *)
(* zero-copy: the queues of a run are a zero-copy prefix and a copy suffix. *)
ZeroCopyHonoured ==
  /\ cfg.zerocopy = 2 => \A k \in Queues : sock[k] # "copy"
  /\ xdp = "skb" => \A k \in Queues : sock[k] # "zerocopy"
  /\ \A j, k \in Queues : j < k /\ sock[j] = "copy" => sock[k] # "zerocopy"

(* With -d the process always ends, with or without signals, and whichever  *)
(* call fails: the workers are told, joined and the rest released.          *)
DurationEnds == cfg.duration > 0 ~> pc \in Over

(* The join never blocks for good: whatever led to it, a thread that could  *)
(* not be created among the causes, every thread it waits for was told to   *)
(* stop.                                                                    *)
JoinEnds == pc = "join" ~> pc \in Over

(* A process with a duration ends, and so does every join. *)
ProcessEnds == DurationEnds /\ JoinEnds

(* README: with -d 0 the run lasts until SIGINT.  A signal ends it.         *)
SignalEnds == signals > 0 ~> pc \in Over
=============================================================================
