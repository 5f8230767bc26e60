--------------------------- MODULE TrafficLogProps ---------------------------
(***************************************************************************)
(* What the traffic window and the timestamps file must say.               *)
(***************************************************************************)
EXTENDS TrafficLog, FiniteSets

Times == 0..MaxClock

(* The lines of the file are in chronological order as they are written     *)
(* (README "sorted in chronological order"), and none that is still to come *)
(* is older than the last one, whatever the interleaving of the workers.    *)
OutSorted ==
  /\ \A i \in 1 .. Len(out) - 1 : out[i] <= out[i + 1]
  /\ \A q \in Queues : \A i \in cursor[q] + 1 .. Len(data[q]) :
        out # << >> => out[Len(out)] <= data[q][i]

Occurrences(s, t) == Cardinality({i \in 1..Len(s) : s[i] = t})

OccurrencesUpTo(t) ==
  LET sum[q \in 0..NumQueues] ==
        IF q = 0 THEN 0 ELSE sum[q - 1] + Occurrences(data[q], t)
  IN  sum[NumQueues]

(* The finished file holds every recorded timestamp, as often as it was     *)
(* recorded and nothing else: ties between queues lose or repeat none, and  *)
(* the sentinel of the minimum search never ends the merge early.           *)
OutComplete ==
  phase = "done" => \A t \in Times : Occurrences(out, t) = OccurrencesUpTo(t)

(* The timestamps file is the chronological merge of the workers' logs. *)
MergeExact == OutSorted /\ OutComplete

(* The time from the first to the last packet of the whole run. *)
AllHandled == UNION {{handled[q][i] : i \in 1..Len(handled[q])} : q \in Queues}

TrueWindow == IF AllHandled = {} THEN 0
              ELSE Highest(AllHandled) - Lowest(AllHandled)

Joined == phase # "run" /\ launched = Queues

Logged == UNION {{data[q][i] : i \in 1..Len(data[q])} : q \in Queues}

(* With -T the window reported is the one from the first to the last packet *)
(* over all queues (README "Actual traffic window"), also when some queues  *)
(* saw no packet at all; the NXDOMAIN worker records none and the report    *)
(* shows none.  With -t it is the one of the packets logged, if every queue *)
(* has logged one.                                                          *)
WindowExact ==
  Joined =>
    /\ record_ts = 2 => Window = IF thread_fn = "nxdomain" THEN 0 ELSE TrueWindow
    /\ record_ts = 1 /\ (\A q \in Queues : data[q] # << >>) =>
         Window = Highest(Logged) - Lowest(Logged)

(* The same of -t when a queue was idle: its ts_min_ns should not take part *)
(* (stats.h:21: "earliest RX timestamp (ns), UINT64_MAX if none"), so the   *)
(* window begins with the first packet logged, not with the run.            *)
IdleQueueIgnored ==
  Joined /\ record_ts = 1 /\ Logged # {} =>
    Window = Highest(Logged) - Lowest(Logged)
=============================================================================
