----------------------------- MODULE TrafficLog -----------------------------
(***************************************************************************)
(* The RX timestamps of dns_responder: what each worker records (af_xdp.c  *)
(* ts_record, ts_record_minmax and the batch record of count-only mode),   *)
(* the traffic window main() and stats.c compute from it after the join,   *)
(* and the merge of the per-worker logs into one file (main.c).            *)
(*                                                                         *)
(* Times are CLOCK_MONOTONIC relative to start_time, in ticks; Never       *)
(* stands for UINT64_MAX.  Packets handled in one tick share a timestamp.  *)
(***************************************************************************)
EXTENDS Integers, Sequences

CONSTANTS
  NumQueues,
  Records,        \* record_timestamps: 1 every packet (-t), 2 min/max (-T)
  WorkerFns,      \* the worker functions main() may start
  MaxClock,       \* bound: ticks in one run
  MaxPackets,     \* bound: packets one worker handles
  Capacity,       \* TS_INITIAL_CAPACITY
  AllocFails      \* may malloc, realloc and pthread_create fail?

ASSUME LogAssumption ==
  /\ NumQueues \in Nat \ {0}
  /\ Records \subseteq {1, 2}
  /\ WorkerFns \subseteq {"dns", "nxdomain", "count"}
  /\ MaxClock \in Nat /\ MaxPackets \in Nat
  /\ Capacity \in Nat \ {0}
  /\ AllocFails \in BOOLEAN

VARIABLES
  thread_fn, record_ts,  \* as in main()
  clock,
  launched,       \* workers whose thread was created
  recording,      \* each worker's record_timestamps, -1 before it starts
  handled,        \* the times at which each worker handled its packets
  data,           \* ts.data[0 .. ts.count - 1] of each worker
  capacity,       \* ts.capacity
  tsMin, tsMax,   \* ts_min_ns, ts_max_ns
  phase,          \* "run", "merge" (all joined), then "done" or "failed"
  cursor,         \* the merge's cursors[]
  out             \* the lines of the timestamps file

options == <<thread_fn, record_ts>>
workers == <<handled, data, capacity, tsMin, tsMax>>
logVars == <<options, clock, launched, recording, workers, phase, cursor, out>>

Queues == 1..NumQueues
Never  == MaxClock + 1

LogInit ==
  /\ thread_fn \in WorkerFns /\ record_ts \in Records
  /\ clock = 0
  /\ launched \in IF AllocFails THEN {1..k : k \in 0..NumQueues} ELSE {Queues}
  /\ recording = [q \in Queues |-> -1]
  /\ handled = [q \in Queues |-> << >>]
  /\ data = [q \in Queues |-> << >>]
  /\ capacity = [q \in Queues |-> 0]
  /\ tsMin = [q \in Queues |-> 0] /\ tsMax = [q \in Queues |-> 0]
  /\ phase = "run"
  /\ cursor = [q \in Queues |-> 0]
  /\ out = << >>

Lowest(S)  == CHOOSE x \in S : \A y \in S : x <= y
Highest(S) == CHOOSE x \in S : \A y \in S : x >= y

-----------------------------------------------------------------------------
(* Mistakes the properties must notice. *)

StartMinAtZero(q) ==            \* ts_min_ns left as calloc made it
  /\ phase = "run" /\ q \in launched /\ recording[q] = -1
  /\ recording' = [recording EXCEPT ![q] = record_ts]
  /\ capacity' = [capacity EXCEPT ![q] = Capacity]
  /\ UNCHANGED <<options, clock, launched, handled, data, tsMin, tsMax,
                 phase, cursor, out>>

MergeOneInQueueOrder ==         \* the first queue that is not exhausted
  /\ phase = "merge"
  /\ \E q \in Queues :
       /\ cursor[q] < Len(data[q])
       /\ \A k \in 1 .. q - 1 : cursor[k] = Len(data[k])
       /\ out' = Append(out, data[q][cursor[q] + 1])
       /\ cursor' = [cursor EXCEPT ![q] = @ + 1]
  /\ UNCHANGED <<options, clock, launched, recording, workers, phase>>

-----------------------------------------------------------------------------
(* The workers. *)

Tick ==
  /\ phase = "run" /\ clock < MaxClock
  /\ clock' = clock + 1
  /\ UNCHANGED <<options, launched, recording, workers, phase, cursor, out>>

Logging == thread_fn = "dns" /\ record_ts = 1

(* The head of a worker function.  Only the DNS worker allocates a log,     *)
(* and a failed malloc turns its recording off.                             *)
StartWorker(q) ==
  /\ phase = "run" /\ q \in launched /\ recording[q] = -1
  /\ \/ /\ recording' = [recording EXCEPT ![q] = record_ts]
        /\ capacity' = [capacity EXCEPT ![q] =
                          IF Logging THEN Capacity ELSE @]
     \/ /\ AllocFails /\ Logging
        /\ recording' = [recording EXCEPT ![q] = 0]
        /\ UNCHANGED capacity
  /\ tsMin' = [tsMin EXCEPT ![q] =
                 IF thread_fn # "nxdomain" /\ record_ts = 2 THEN Never ELSE @]
  /\ UNCHANGED <<options, clock, launched, handled, data, tsMax, phase,
                 cursor, out>>

(* ts_record: the log doubles when it is full; without memory for that the  *)
(* timestamp is dropped.                                                    *)
Full(q) == Len(data[q]) = capacity[q]

Log(q) ==
  \/ /\ ~Full(q)
     /\ data' = [data EXCEPT ![q] = Append(@, clock)]
     /\ UNCHANGED capacity
  \/ /\ Full(q)
     /\ data' = [data EXCEPT ![q] = Append(@, clock)]
     /\ capacity' = [capacity EXCEPT ![q] = 2 * @]
  \/ /\ Full(q) /\ AllocFails
     /\ UNCHANGED <<data, capacity>>

(* ts_record_minmax, and the same update once per batch in count-only mode. *)
KeepMinMax(q) ==
  /\ tsMin' = [tsMin EXCEPT ![q] = Lowest({@, clock})]
  /\ tsMax' = [tsMax EXCEPT ![q] = Highest({@, clock})]

(* The worker handles one packet; in count-only mode the packets of a batch *)
(* are handled within the tick of its one clock reading.                    *)
HandlePacket(q) ==
  /\ phase = "run" /\ recording[q] # -1 /\ Len(handled[q]) < MaxPackets
  /\ handled' = [handled EXCEPT ![q] = Append(@, clock)]
  /\ IF thread_fn = "dns" /\ recording[q] = 1
     THEN Log(q) ELSE UNCHANGED <<data, capacity>>
  /\ IF thread_fn # "nxdomain" /\ recording[q] = 2
     THEN KeepMinMax(q) ELSE UNCHANGED <<tsMin, tsMax>>
  /\ UNCHANGED <<options, clock, launched, recording, phase, cursor, out>>

-----------------------------------------------------------------------------
(* The main thread, once the workers are joined. *)

Join ==
  /\ phase = "run" /\ \A q \in launched : recording[q] # -1
  /\ phase' = "merge"
  /\ UNCHANGED <<options, clock, launched, recording, workers, cursor, out>>

(* all_stats[q].ts_min_ns and ts_max_ns: the thread's own are zero.         *)
StatMin(q) == IF record_ts = 2 THEN tsMin[q]
              ELSE IF data[q] # << >> THEN data[q][1] ELSE 0
StatMax(q) == IF record_ts = 2 THEN tsMax[q]
              ELSE IF data[q] # << >> THEN data[q][Len(data[q])] ELSE 0

(* actual_duration_secs; zero when the report shows no window. *)
Window ==
  LET global_min == Lowest({StatMin(q) : q \in Queues} \union {Never})
      global_max == Highest({StatMax(q) : q \in Queues} \union {0})
  IN  IF global_min < global_max THEN global_max - global_min ELSE 0

(* One line of the file: the least timestamp under any cursor, the first    *)
(* queue that has it.                                                       *)
Best(q) ==
  /\ cursor[q] < Len(data[q])
  /\ \A k \in Queues : cursor[k] < Len(data[k]) =>
       \/ data[q][cursor[q] + 1] < data[k][cursor[k] + 1]
       \/ data[q][cursor[q] + 1] = data[k][cursor[k] + 1] /\ q <= k

MergeOne ==
  /\ phase = "merge"
  /\ \E q \in Queues :
       /\ Best(q)
       /\ out' = Append(out, data[q][cursor[q] + 1])
       /\ cursor' = [cursor EXCEPT ![q] = @ + 1]
  /\ UNCHANGED <<options, clock, launched, recording, workers, phase>>

(* total_ts is the sum of the counts; `written' is the length of out. *)
TotalUpTo[q \in 0..NumQueues] ==
  IF q = 0 THEN 0 ELSE TotalUpTo[q - 1] + Len(data[q])

Written == Len(out)

Close ==
  /\ phase = "merge" /\ Written >= TotalUpTo[NumQueues]
  /\ phase' = "done"
  /\ UNCHANGED <<options, clock, launched, recording, workers, cursor, out>>

(* calloc of the cursors failed: the file stays without lines. *)
NoCursors ==
  /\ phase = "merge" /\ AllocFails /\ out = << >>
  /\ phase' = "failed"
  /\ UNCHANGED <<options, clock, launched, recording, workers, cursor, out>>

LogNext ==
  \/ Tick
  \/ \E q \in Queues : StartWorker(q) \/ HandlePacket(q)
  \/ Join
  \/ MergeOne
  \/ Close
  \/ NoCursors

LogSpec == LogInit /\ [][LogNext]_logVars

=============================================================================
