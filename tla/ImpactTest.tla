---------------------------- MODULE ImpactTest -----------------------------
(***************************************************************************)
(* One test of the load-impact campaign: run_impact_test of                *)
(* load_impact.py, with collectl sampling the DNS server in the background *)
(* (collectl.py) while the tools of all clients put it under load.         *)
(* ImpactCampaign has the test as its step RunTest.                        *)
(*                                                                         *)
(* Time passes in ticks of one sample.  A sample is TRUE when it was taken *)
(* with every tool running.                                                *)
(***************************************************************************)
EXTENDS Integers, Sequences, FiniteSets

CONSTANTS
  NumClients,
  Runtime,    \* config["runtime"]
  Margins,    \* the values of collectl_margin
  Extra,      \* the 120 s a tool may take beyond runtime and margins
  Grace,      \* the 30 s collectl may take beyond its margin
  Skew        \* bound: ticks until a process that was launched runs

ASSUME TestAssumption ==
  /\ NumClients \in Nat \ {0} /\ Runtime \in Nat
  /\ Margins \subseteq Nat /\ Extra \in Nat /\ Grace \in Nat /\ Skew \in Nat

VARIABLES
  cfg,       \* [dry, collectl, margin]
  phase, now,
  since,     \* when the current phase began
  session,   \* collectl_session is not None
  coll,      \* the collectl process
  begun,     \* history: when collectl took its first sample
  trail,     \* the trail file on the server: [of, rows]
  tool,      \* the tool of each client
  began,     \* history: when each tool began to send
  perHost,   \* the results parsed so far
  metrics,   \* what collectl adds to the ALL row: [kind, rows]
  rows       \* the rows added to the store

server == <<coll, begun, trail>>
load   == <<tool, began>>
output == <<perHost, metrics, rows>>
testVars   == <<cfg, phase, now, since, session, server, load, output>>

Clients == 1..NumClients
M       == cfg.margin
Samples == Runtime + 2 * M      \* the count collectl is given
NoRows  == [kind |-> "none", rows |-> << >>]

TestInit ==
  /\ cfg \in [dry : BOOLEAN, collectl : BOOLEAN, margin : Margins]
  /\ phase = "start" /\ now = 0 /\ since = 0
  /\ session = FALSE /\ coll = "none" /\ begun = 0
  /\ trail \in {[of |-> "nobody", rows |-> << >>],
                [of |-> "earlier campaign", rows |-> << FALSE >>]}
  /\ tool = [h \in Clients |-> "idle"] /\ began = [h \in Clients |-> 0]
  /\ perHost = << >> /\ metrics = NoRows /\ rows = << >>

Proceed(label) == phase' = label
Enter(label) == phase' = label /\ since' = now

-----------------------------------------------------------------------------
(* Mistakes the properties must notice: the crop forgets the end of the     *)
(* trail, the wait counts from the end of the load only, rows are stored    *)
(* before all hosts are through.                                            *)
CropFront(samples) ==
  IF M > 0 /\ Len(samples) > 2 * M THEN SubSeq(samples, M + 1, Len(samples)) ELSE samples

WaitTimesOutAtGrace ==
  /\ phase = "wait" /\ coll \in {"connecting", "running", "hung"}
  /\ now = since + Grace
  /\ metrics' = [kind |-> "timeout", rows |-> << >>]
  /\ Proceed("rows")
  /\ UNCHANGED <<cfg, now, since, session, server, load, perHost, rows>>

SaveHostAtOnce ==
  /\ phase = "save" /\ Len(perHost) < NumClients
  /\ \E n \in 0..1 :
       /\ perHost' = Append(perHost, n)
       /\ rows' = Append(rows, [host |-> Len(perHost) + 1, n |-> n])
  /\ UNCHANGED <<cfg, phase, now, since, session, server, load, metrics>>

-----------------------------------------------------------------------------
(* run_impact_test up to the load. *)

(* A tool refuses its parameters, which the caller handles. *)
Refuse ==
  /\ phase = "start"
  /\ Proceed("raised")
  /\ UNCHANGED <<cfg, now, since, session, server, load, output>>

DryRun ==
  /\ phase = "start" /\ cfg.dry
  /\ Proceed("none")
  /\ UNCHANGED <<cfg, now, since, session, server, load, output>>

StartTools ==
  /\ tool' = [h \in Clients |-> "connecting"]
  /\ Enter("tools")

WithoutCollectl ==
  /\ phase = "start" /\ ~cfg.dry /\ ~cfg.collectl
  /\ StartTools
  /\ UNCHANGED <<cfg, now, session, server, began, output>>

(* run_collectl_session; the process cannot be launched.                    *)
CollectlRefused ==
  /\ phase = "start" /\ ~cfg.dry /\ cfg.collectl
  /\ StartTools
  /\ UNCHANGED <<cfg, now, session, server, began, output>>

LaunchCollectl ==
  /\ phase = "start" /\ ~cfg.dry /\ cfg.collectl
  /\ coll' = "connecting"
  /\ Enter("margin")
  /\ UNCHANGED <<cfg, now, session, begun, trail, load, output>>

(* The margin is over; without a directory for the trail the session is     *)
(* given up, and collectl goes on unattended.                               *)
EndMargin ==
  /\ phase = "margin" /\ now = since + M
  /\ session' \in BOOLEAN
  /\ StartTools
  /\ UNCHANGED <<cfg, now, server, began, output>>

-----------------------------------------------------------------------------
(* collectl on the server. *)

(* The shell opens the trail anew, and the first sample is due. *)
CollectlRuns ==
  /\ coll = "connecting" /\ now <= Skew
  /\ coll' = "running" /\ begun' = now
  /\ trail' = [of |-> "this test", rows |-> << >>]
  /\ UNCHANGED <<cfg, phase, now, since, session, load, output>>

(* ssh fails, and the trail of an earlier campaign stays where it is. *)
CollectlUnreachable ==
  /\ coll = "connecting"
  /\ coll' = "ended"
  /\ UNCHANGED <<cfg, phase, now, since, session, begun, trail, load, output>>

(* Its count is reached, or it dies before. *)
CollectlEnds ==
  /\ coll = "running"
  /\ coll' = "ended"
  /\ UNCHANGED <<cfg, phase, now, since, session, begun, trail, load, output>>

CollectlHangs ==
  /\ coll \in {"connecting", "running"}
  /\ coll' = "hung"
  /\ UNCHANGED <<cfg, phase, now, since, session, begun, trail, load, output>>

Collectl == CollectlRuns \/ CollectlUnreachable \/ CollectlEnds \/ CollectlHangs

-----------------------------------------------------------------------------
(* ssh_run_many: the tools run beside each other. *)

ToolTimeout == Runtime + 2 * M + Extra

ToolStarts(h) ==
  /\ tool[h] = "connecting"
  /\ now <= since + Skew
  /\ tool' = [tool EXCEPT ![h] = "running"]
  /\ began' = [began EXCEPT ![h] = now]
  /\ UNCHANGED <<cfg, phase, now, since, session, server, output>>

ToolEnds(h) ==
  /\ tool[h] = "running" /\ now >= began[h] + Runtime
  /\ tool' = [tool EXCEPT ![h] = "ok"]
  /\ UNCHANGED <<cfg, phase, now, since, session, server, began, output>>

ToolFails(h) ==
  /\ tool[h] \in {"connecting", "running"}
  /\ tool' = [tool EXCEPT ![h] = "failed"]
  /\ UNCHANGED <<cfg, phase, now, since, session, server, began, output>>

ToolTimesOut(h) ==
  /\ tool[h] \in {"connecting", "running"} /\ now = since + ToolTimeout
  /\ tool' = [tool EXCEPT ![h] = "timedout"]
  /\ UNCHANGED <<cfg, phase, now, since, session, server, began, output>>

Tool(h) == ToolStarts(h) \/ ToolEnds(h) \/ ToolFails(h) \/ ToolTimesOut(h)

Busy == \A h \in Clients : tool[h] = "running"

JoinTools ==
  /\ phase = "tools"
  /\ \A h \in Clients : tool[h] \in {"ok", "failed", "timedout"}
  /\ Proceed("save")
  /\ UNCHANGED <<cfg, now, since, session, server, load, output>>

-----------------------------------------------------------------------------
(* run_impact_test after the load. *)

(* The output of the next client is saved and parsed; a tool that failed    *)
(* or was killed may have printed nothing that parses.                      *)
SaveHost ==
  /\ phase = "save" /\ Len(perHost) < NumClients
  /\ \E n \in 0..1 : /\ tool[Len(perHost) + 1] = "ok" => n = 1
                     /\ perHost' = Append(perHost, n)
  /\ UNCHANGED <<cfg, phase, now, since, session, server, load, metrics, rows>>

(* store.save_raw_output fails: the whole test is given up. *)
SaveFails ==
  /\ phase = "save" /\ Len(perHost) < NumClients
  /\ Proceed("none")
  /\ UNCHANGED <<cfg, now, since, session, server, load, output>>

HostsSaved ==
  /\ phase = "save" /\ Len(perHost) = NumClients
  /\ IF session THEN Enter("wait") ELSE Proceed("rows") /\ UNCHANGED since
  /\ UNCHANGED <<cfg, now, session, server, load, output>>

(* wait_collectl; nobody looks at the exit status. *)
CollectlDone ==
  /\ phase = "wait" /\ coll = "ended"
  /\ Proceed("copy")
  /\ UNCHANGED <<cfg, now, since, session, server, load, output>>

WaitTimesOut ==
  /\ phase = "wait" /\ coll \in {"connecting", "running", "hung"}
  /\ now = since + M + Grace
  /\ metrics' = [kind |-> "timeout", rows |-> << >>]
  /\ Proceed("rows")
  /\ UNCHANGED <<cfg, now, since, session, server, load, perHost, rows>>

(* parse_collectl_file: the first and the last margin of samples go, unless *)
(* nothing would be left.                                                   *)
Crop(samples) ==
  IF M > 0 /\ Len(samples) > 2 * M THEN SubSeq(samples, M + 1, Len(samples) - M)
                                   ELSE samples

CopyTrail ==
  /\ phase = "copy" /\ trail.of # "nobody"
  /\ metrics' = [kind |-> trail.of, rows |-> Crop(trail.rows)]
  /\ Proceed("rows")
  /\ UNCHANGED <<cfg, now, since, session, server, load, perHost, rows>>

CopyFails ==
  /\ phase = "copy"
  /\ metrics' = [kind |-> "not copied", rows |-> << >>]
  /\ Proceed("rows")
  /\ UNCHANGED <<cfg, now, since, session, server, load, perHost, rows>>

(* aggregate_tool_results. *)
SumTo[k \in 0..NumClients] == IF k = 0 THEN 0 ELSE SumTo[k - 1] + perHost[k]

AddRows ==
  /\ phase = "rows"
  /\ rows' = rows \o << [host |-> 0, n |-> SumTo[NumClients]] >>
                  \o [h \in Clients |-> [host |-> h, n |-> perHost[h]]]
  /\ Proceed("done")
  /\ UNCHANGED <<cfg, now, since, session, server, load, perHost, metrics>>

-----------------------------------------------------------------------------
(* Time.  It does not pass what is due now. *)

Due == \/ coll = "running" /\ Len(trail.rows) = Samples
       \/ phase = "margin" /\ now = since + M
       \/ phase = "tools" /\ now = since + ToolTimeout
       \/ phase = "wait" /\ now = since + M + Grace

Tick ==
  /\ phase \in {"margin", "tools", "wait"} /\ ~Due
  /\ now' = now + 1
  /\ trail' = IF coll = "running" THEN [trail EXCEPT !.rows = Append(@, Busy)] ELSE trail
  /\ UNCHANGED <<cfg, phase, since, session, coll, begun, load, output>>

-----------------------------------------------------------------------------
Script == \/ Refuse       \/ DryRun       \/ WithoutCollectl \/ CollectlRefused
          \/ LaunchCollectl \/ EndMargin  \/ JoinTools       \/ SaveHost
          \/ SaveFails    \/ HostsSaved   \/ CollectlDone    \/ WaitTimesOut
          \/ CopyTrail    \/ CopyFails    \/ AddRows

TestNext == Script \/ Collectl \/ (\E h \in Clients : Tool(h)) \/ Tick

TestSpec == TestInit /\ [][TestNext]_testVars

-----------------------------------------------------------------------------
Delays == {begun} \union {began[h] - M : h \in Clients}
Spread == CHOOSE d \in 0..(2 * Skew) :
            /\ \E a, b \in Delays : d = a - b
            /\ \A a, b \in Delays : a - b <= d

NumberOf(samples, value) == Cardinality({i \in DOMAIN samples : samples[i] = value})

(* The resource figures of a row come from the load of that row: when the   *)
(* tools succeeded and collectl ran to its end, the samples kept were taken *)
(* under load, save as many as collectl and the tools began apart.  (Not so *)
(* when collectl died before twice the margin: then nothing is cropped.)    *)
SamplesFromLoad ==
  (/\ phase = "done" /\ metrics.kind = "this test"
   /\ Len(trail.rows) = Samples
   /\ \A h \in Clients : tool[h] = "ok") =>
     /\ Len(metrics.rows) = Runtime
     /\ NumberOf(metrics.rows, FALSE) <= Spread

(* A test adds nothing, or the ALL row and one row of each client, the      *)
(* first the sum of the others; a test that failed half way leaves nothing. *)
RowsWhole ==
  IF phase # "done" THEN rows = << >>
  ELSE /\ Len(rows) = NumClients + 1
       /\ rows[1].host = 0
       /\ \A h \in Clients : rows[h + 1].host = h
       /\ rows[1].n = Cardinality({h \in Clients : rows[h + 1].n = 1})

(* The wait for collectl is long enough: it gives up only when collectl     *)
(* hangs or has not even begun, or the tools took so much less than the     *)
(* runtime that Grace does not make up for it.                              *)
PatienceEnough ==
  [][metrics'.kind = "timeout" /\ metrics.kind # "timeout" =>
       \/ coll \in {"hung", "connecting"}
       \/ since - M + Grace <= Runtime + begun]_testVars
=============================================================================
