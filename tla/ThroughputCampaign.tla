------------------------- MODULE ThroughputCampaign -------------------------
(***************************************************************************)
(* The measurement campaigns against dns_responder                         *)
(* (load_testing_benchmark/scripts/max_throughput.py and qps_accuracy.py): *)
(* for every run a responder started over SSH, the load tool on all        *)
(* clients at once (benchmark/remote.py), the wait for the responder, the  *)
(* copy of the files it wrote and the result rows                          *)
(* (benchmark/dns_responder.py).  A throughput run reads the statistics    *)
(* the responder wrote, an accuracy run its packet timestamps too.         *)
(*                                                                         *)
(* The runs share the server: its interface, whose queues one responder at *)
(* a time can bind, and the two files every responder writes at its end.   *)
(***************************************************************************)
EXTENDS Integers

CONSTANTS
  Hosts,        \* hosts.clients
  LocalHosts,   \* those that are localhost, where ssh_run starts a shell
  NumRuns       \* QPS levels x trials x tools

ASSUME ThroughputAssumption == NumRuns \in Nat \ {0} /\ LocalHosts \subseteq Hosts

VARIABLES
  pc, run,      \* where the campaign is, and in which run
  accuracy,     \* whether it is the accuracy campaign
  resp,         \* the responder process of each run
  file,         \* for each file on the server, the run whose responder wrote it
  wrote,        \* the files that the responder of each run got written
  copy,         \* for each file, the run whose contents were copied
  client,       \* the load tool on each client
  abandoned,    \* runs that ended without their responder having ended
  rows          \* the ALL rows of the result store

server == <<resp, file, wrote>>
vars   == <<pc, run, accuracy, server, copy, client, abandoned, rows>>

Runs    == 1..NumRuns
NoRun   == 0
Exited  == {"done", "failed"}

(* /tmp/dns_responder_output.txt and /tmp/dns_responder_timestamps.txt, and *)
(* those a run of this campaign needs.                                      *)
Files  == {"output", "timestamps"}
Needed == IF accuracy THEN Files ELSE {"output"}

Init ==
  /\ pc = "start" /\ run = 1
  /\ accuracy \in BOOLEAN
  /\ resp = [r \in Runs |-> "none"]
  /\ file = [f \in Files |-> NoRun] /\ copy = [f \in Files |-> NoRun]
  /\ wrote = [r \in Runs |-> {}]
  /\ client = [h \in Hosts |-> "idle"]
  /\ abandoned = {}
  /\ rows = {}

Goto(label) == pc' = label /\ UNCHANGED <<run, accuracy>>

(* A tool whose ssh_run has not returned. *)
Unreturned == {"running", "killed"}

-----------------------------------------------------------------------------
(* Mistakes the properties must notice. *)

CollectWithoutWait ==            \* the statistics are read straight away
  /\ pc = "wait"
  /\ Goto("scp")
  /\ UNCHANGED <<server, copy, client, abandoned, rows>>

WaitForEver == FALSE /\ UNCHANGED vars     \* communicate() without a timeout

SaveOutputsFirst ==              \* the first tool to end ends them all
  /\ pc = "collect" /\ \E h \in Hosts : client[h] \notin Unreturned
  /\ Goto("wait")
  /\ UNCHANGED <<server, copy, client, abandoned, rows>>

-----------------------------------------------------------------------------
(* One run.  An exception ends it without a row; the next run follows. *)

(* run_dns_responder_session: ssh in the background, and a pause. *)
StartSession ==
  /\ pc = "start"
  /\ resp' = [resp EXCEPT ![run] = "starting"]
  /\ Goto("tools")
  /\ UNCHANGED <<file, wrote, copy, client, abandoned, rows>>

SessionFails ==
  /\ pc = "start"
  /\ Goto("pause")
  /\ UNCHANGED <<server, copy, client, abandoned, rows>>

(* ssh_run_many submits one command per client. *)
StartTools ==
  /\ pc = "tools"
  /\ client' = [h \in Hosts |-> "running"]
  /\ Goto("collect")
  /\ UNCHANGED <<server, copy, abandoned, rows>>

(* ssh_run in the thread of a host; one host failing does not abort the     *)
(* others.  The tool ends by itself or fails.                               *)
ToolEnds(h) ==
  /\ client[h] = "running"
  /\ \E outcome \in {"ended", "failed"} : client' = [client EXCEPT ![h] = outcome]
  /\ UNCHANGED <<pc, run, accuracy, server, copy, abandoned, rows>>

(* After the timeout of the tool ssh_run kills what it started: the ssh, or *)
(* on a local host the shell, and not the tool that the shell started.      *)
ToolTimesOut(h) ==
  /\ client[h] = "running"
  /\ client' = [client EXCEPT ![h] = "killed"]
  /\ UNCHANGED <<pc, run, accuracy, server, copy, abandoned, rows>>

(* The second communicate() is over: no one has the pipes open any more.    *)
(* For a remote host the commands that kill the tool there follow.          *)
KilledReturns(h) ==
  /\ client[h] = "killed"
  /\ client' = [client EXCEPT ![h] = "timed out"]
  /\ UNCHANGED <<pc, run, accuracy, server, copy, abandoned, rows>>

Tool(h) == ToolEnds(h) \/ ToolTimesOut(h) \/ KilledReturns(h)

(* All futures are done; the outputs are saved, which may fail: the         *)
(* exception leaves the responder to itself.                                *)
SaveOutputs ==
  /\ pc = "collect" /\ \A h \in Hosts : client[h] \notin Unreturned
  /\ \/ Goto("wait") /\ UNCHANGED abandoned
     \/ Goto("pause") /\ abandoned' = abandoned \union {run}
  /\ UNCHANGED <<server, copy, client, rows>>

(* wait_dns_responder; the exit status is not looked at. *)
WaitResponder ==
  /\ pc = "wait" /\ resp[run] \in Exited
  /\ Goto("scp")
  /\ UNCHANGED <<server, copy, client, abandoned, rows>>

(* TimeoutExpired, two minutes after the responder should have ended.  The  *)
(* process is not killed.                                                   *)
WaitTimesOut ==
  /\ pc = "wait" /\ resp[run] \notin Exited
  /\ abandoned' = abandoned \union {run}
  /\ Goto("pause")
  /\ UNCHANGED <<server, copy, client, rows>>

(* collect_dns_responder_output: scp, without a timeout, of whatever is in  *)
(* a file.                                                                  *)
Copy(f, next) ==
  /\ file[f] # NoRun
  /\ copy' = [copy EXCEPT ![f] = file[f]]
  /\ Goto(next)
  /\ UNCHANGED <<server, client, abandoned, rows>>

CopyOutput == pc = "scp" /\ Copy("output", IF accuracy THEN "stamps" ELSE "rows")

CopyTimestamps == pc = "stamps" /\ Copy("timestamps", "rows")

CopyFails ==
  /\ pc \in {"scp", "stamps"}
  /\ Goto("pause")
  /\ UNCHANGED <<server, copy, client, abandoned, rows>>

(* The accuracy campaign removes its copy of the timestamps once read. *)
TimestampsRead == copy' = [copy EXCEPT !["timestamps"] = NoRun]

AddRows ==
  /\ pc = "rows"
  /\ rows' = rows \union {[run |-> run, source |-> copy, clients |-> client]}
  /\ IF accuracy THEN TimestampsRead ELSE UNCHANGED copy
  /\ Goto("pause")
  /\ UNCHANGED <<server, client, abandoned>>

(* A copy cannot be read, or not be made sense of. *)
RowsFail ==
  /\ pc = "rows"
  /\ UNCHANGED copy \/ (accuracy /\ TimestampsRead)
  /\ Goto("pause")
  /\ UNCHANGED <<server, client, abandoned, rows>>

NextRun ==
  /\ pc = "pause"
  /\ IF run < NumRuns
     THEN pc' = "start" /\ run' = run + 1 /\ UNCHANGED accuracy
     ELSE Goto("finished")
  /\ UNCHANGED <<server, copy, client, abandoned, rows>>

Copying == CopyOutput \/ CopyTimestamps \/ CopyFails

Working == \/ StartSession  \/ SessionFails \/ StartTools \/ SaveOutputs
           \/ WaitResponder \/ WaitTimesOut \/ AddRows    \/ RowsFail
           \/ NextRun

Script == Working \/ Copying

-----------------------------------------------------------------------------
(* The responder of run r on the server.  Its sockets cannot be bound while *)
(* another responder holds the queues, which it does until it has written   *)
(* its files.                                                               *)
ResponderStarts(r) ==
  /\ resp[r] = "starting"
  /\ \A k \in Runs : resp[k] \notin {"running", "reported"}
  /\ resp' = [resp EXCEPT ![r] = "running"]
  /\ UNCHANGED <<pc, run, accuracy, file, wrote, copy, client, abandoned, rows>>

ResponderFails(r) ==
  /\ resp[r] \in {"starting", "running", "reported"}
  /\ resp' = [resp EXCEPT ![r] = "failed"]
  /\ UNCHANGED <<pc, run, accuracy, file, wrote, copy, client, abandoned, rows>>

(* File f is written, or cannot be opened, which is only a warning. *)
Writes(r, f) ==
  \/ /\ file' = [file EXCEPT ![f] = r]
     /\ wrote' = [wrote EXCEPT ![r] = @ \union {f}]
  \/ UNCHANGED <<file, wrote>>

(* -o: the statistics, when the workers are joined. *)
ResponderReports(r) ==
  /\ resp[r] = "running"
  /\ Writes(r, "output")
  /\ resp' = [resp EXCEPT ![r] = "reported"]
  /\ UNCHANGED <<pc, run, accuracy, copy, client, abandoned, rows>>

(* -t: the merged timestamps; the accuracy campaign asks for them. *)
ResponderEnds(r) ==
  /\ resp[r] = "reported"
  /\ IF accuracy THEN Writes(r, "timestamps") ELSE UNCHANGED <<file, wrote>>
  /\ resp' = [resp EXCEPT ![r] = "done"]
  /\ UNCHANGED <<pc, run, accuracy, copy, client, abandoned, rows>>

Responder(r) == \/ ResponderStarts(r)  \/ ResponderFails(r)
                \/ ResponderReports(r) \/ ResponderEnds(r)

Next == \/ Script
        \/ \E h \in Hosts : Tool(h)
        \/ \E r \in Runs : Responder(r)

Spec == Init /\ [][Next]_vars

(* The script runs on, and ssh_run kills a tool at its timeout; over SSH it *)
(* returns then.  Nothing obliges a responder or a tool to end, a local     *)
(* ssh_run to return while its tool runs on, or a copy, which has no        *)
(* timeout, to come to an end.                                              *)
FairSpec ==
  /\ Spec /\ WF_vars(Working)
  /\ \A h \in Hosts : WF_vars(ToolTimesOut(h))
  /\ \A h \in Hosts \ LocalHosts : WF_vars(KilledReturns(h))

-----------------------------------------------------------------------------
Outcomes == Unreturned \union {"idle", "ended", "failed", "timed out"}

Row == [run : Runs, source : [Files -> Runs \union {NoRun}],
        clients : [Hosts -> Outcomes]]

TypeOK ==
  /\ pc \in {"start", "tools", "collect", "wait", "scp", "stamps", "rows",
             "pause", "finished"}
  /\ run \in Runs
  /\ accuracy \in BOOLEAN
  /\ resp \in [Runs -> {"none", "starting", "running", "reported"} \union Exited]
  /\ file \in [Files -> Runs \union {NoRun}]
  /\ copy \in [Files -> Runs \union {NoRun}]
  /\ wrote \in [Runs -> SUBSET Files]
  /\ client \in [Hosts -> Outcomes]
  /\ abandoned \subseteq Runs
  /\ rows \subseteq Row

(* What a row is computed from, statistics and timestamps, is what its own  *)
(* run's responder wrote if that one got it written, although all runs      *)
(* share the files: only a responder that an earlier run left to itself,    *)
(* and that ends late, can come in between.                                 *)
FreshIfServed ==
  \A row \in rows : \A f \in Needed :
    \/ row.source[f] = row.run
    \/ f \notin wrote[row.run]
    \/ row.source[f] \in abandoned

(* A row is only written when the tool of every client has come to an end,  *)
(* by itself, with an error or at its timeout: one client that fails early  *)
(* does not cut the others short (ssh_run_many).                            *)
RowsComplete ==
  \A row \in rows : \A h \in Hosts : row.clients[h] \notin Unreturned \union {"idle"}

(* What the campaign waits for without a limit: a copy, and a tool on a     *)
(* local host whose shell was killed.                                       *)
HeldUp ==
  \/ pc \in {"scp", "stamps"}
  \/ pc = "collect" /\ \E h \in LocalHosts : client[h] = "killed"

(* The campaign gets to its end and its export whatever responders and      *)
(* tools do, unless it is held up for ever by a copy or by a tool on a      *)
(* local host that outlives its shell.                                      *)
Terminates == <>(pc = "finished") \/ <>[]HeldUp
=============================================================================
