--------------------------- MODULE ImpactCampaign ---------------------------
(***************************************************************************)
(* The load-impact campaign (load_testing_benchmark/scripts/load_impact.py *)
(* main) and the DNS services it drives over SSH (benchmark/dns_servers.py *)
(* and the start, stop and clear-cache scripts of the server host).        *)
(*                                                                         *)
(* For every service in turn: stop whatever runs, start the service, probe *)
(* it until it answers, run every test (clearing the cache and probing     *)
(* again before each one if so configured) and stop it.  A command may     *)
(* fail, or time out with its effect still to come; a service may crash,   *)
(* hang or be slow to stop at any time.                                    *)
(***************************************************************************)
EXTENDS Integers

CONSTANTS
  NumServices,   \* dns_services, in the order of the list
  NumTests,      \* tests of one service: QPS levels x trials x tools
  ClearCache,    \* the values of script3.clear_cache
  Restarting,    \* services whose clear-cache script restarts the daemon
  StopFailures   \* may a stop command fail, or take longer than its 30 s?

ASSUME CampaignAssumption ==
  /\ NumServices \in Nat \ {0} /\ NumTests \in Nat
  /\ ClearCache \subseteq BOOLEAN
  /\ Restarting \subseteq 1..NumServices
  /\ StopFailures \in BOOLEAN

VARIABLES
  clear_cache,   \* the configuration
  pc, svc,       \* where the campaign is, and with which service
  t,             \* tests of the service dealt with
  proc,          \* the daemon of each service on the server host
  answered,      \* who answered the last probe since a start or a clear
  astray,        \* a command was lost sight of: a start or a clear that timed
                 \* out and may still take effect, a first stop that failed
                 \* quietly
  clearing,      \* services whose clear-cache command was given up and may
                 \* still restart the daemon
  setUp,         \* services whose setup succeeded
  stopped,       \* services whose own stop command was issued
  ran, skipped, over   \* tests run, skipped on an error, above the tool limit

tests == <<t, ran, skipped, over>>
vars  == <<clear_cache, pc, svc, tests, proc, answered, astray, clearing,
           setUp, stopped>>

Services == 1..NumServices
Nobody   == 0

Init ==
  /\ clear_cache \in ClearCache
  /\ pc = "stopAll" /\ svc = 1 /\ t = 0
  /\ proc \in [Services -> {"down", "up"}]       \* left by whoever was here
  /\ answered = Nobody
  /\ astray = FALSE /\ clearing = {}
  /\ setUp = {} /\ stopped = {}
  /\ ran = [v \in Services |-> 0]
  /\ skipped = [v \in Services |-> 0]
  /\ over = [v \in Services |-> 0]

(* Commands see a daemon that is up or hung; one that is still starting is  *)
(* not yet active to systemctl or pgrep.                                    *)
Active    == {v \in Services : proc[v] \in {"up", "hung"}}
Answering == {v \in Services : proc[v] \in {"up", "stopping"}}
OnPort53  == {v \in Services : proc[v] \in {"up", "hung", "stopping"}}

Stopping(S) == proc' = [v \in Services |-> IF v \in S THEN "stopping" ELSE proc[v]]

Goto(label) == pc' = label /\ UNCHANGED svc

Count(counter) == [counter EXCEPT ![svc] = @ + 1]

-----------------------------------------------------------------------------
(* Mistakes the properties must notice. *)

StopAllNothing ==                   \* the first stop is left out
  /\ pc = "stopAll"
  /\ Goto("sleep")
  /\ UNCHANGED <<clear_cache, tests, proc, answered, astray, clearing, setUp, stopped>>

SkipTestBreaks ==                   \* `break' for `continue'
  /\ Goto("stop")
  /\ skipped' = Count(skipped)
  /\ UNCHANGED <<t, ran, over>>

TestsDoneNoFinally ==
  /\ pc = "tests" /\ t = NumTests
  /\ Goto("next")
  /\ UNCHANGED <<clear_cache, tests, proc, answered, astray, clearing, setUp, stopped>>

ProbeAgainForever ==                \* ensure_dns_running in a loop
  /\ pc \in {"ready", "ensure", "ensure2"} /\ Answering = {}
  /\ Goto(IF pc = "ready" THEN "next" ELSE "restart")
  /\ UNCHANGED <<clear_cache, tests, proc, answered, astray, clearing, setUp, stopped>>

-----------------------------------------------------------------------------
(* `continue' in the loop over the tests. *)
SkipTest ==
  /\ Goto("tests") /\ t' = t + 1
  /\ skipped' = Count(skipped)
  /\ UNCHANGED <<ran, over>>

(* Setup of one service.  An exception skips the service. *)

(* stop_dns_service of all services: a failure is only logged, and the      *)
(* script on the server ends with `exit 0' whatever its parts do.           *)
StopAll ==
  /\ pc = "stopAll"
  /\ \E S \in IF StopFailures THEN SUBSET Active ELSE {Active} :
       /\ Stopping(S)
       /\ astray' = (astray \/ S # Active)
  /\ Goto("sleep")
  /\ UNCHANGED <<clear_cache, tests, answered, clearing, setUp, stopped>>

StopAllTimesOut ==
  /\ pc = "stopAll" /\ StopFailures
  /\ \E S \in SUBSET Active : Stopping(S)
  /\ Goto("next")
  /\ UNCHANGED <<clear_cache, tests, answered, astray, clearing, setUp, stopped>>

(* The 2 seconds the code gives a stopped daemon to release port 53 are     *)
(* taken to be enough.                                                      *)
Sleep ==
  /\ pc = "sleep"
  /\ \A v \in Services : proc[v] # "stopping"
  /\ Goto("start")
  /\ UNCHANGED <<clear_cache, tests, proc, answered, astray, clearing, setUp, stopped>>

(* start_dns_service, in the setup and in ensure_dns_running.  A daemon     *)
(* that finds the port taken does not come up, which the exit status need   *)
(* not show; one that is active already is left alone.                      *)
StartService ==
  /\ pc \in {"start", "restart"}
  /\ proc' = IF OnPort53 = {} THEN [proc EXCEPT ![svc] = "up"] ELSE proc
  /\ answered' = Nobody
  /\ Goto(IF pc = "start" THEN "ready" ELSE "ensure2")
  /\ UNCHANGED <<clear_cache, tests, astray, clearing, setUp, stopped>>

(* A non-zero exit status, or 30 s without one. *)
StartFails ==
  /\ pc \in {"start", "restart"}
  /\ \/ UNCHANGED <<proc, astray>>
     \/ /\ proc[svc] = "down"
        /\ proc' = [proc EXCEPT ![svc] = "starting"]
        /\ astray' = TRUE
  /\ answered' = Nobody
  /\ IF pc = "start" THEN Goto("next") /\ UNCHANGED tests ELSE SkipTest
  /\ UNCHANGED <<clear_cache, clearing, setUp, stopped>>

(* wait_for_dns_ready: whoever answers on the address of the server will do *)
ProbeAnswered ==
  /\ pc \in {"ready", "ensure", "ensure2"}
  /\ answered' \in Answering
  /\ setUp' = IF pc = "ready" THEN setUp \union {svc} ELSE setUp
  /\ Goto(IF pc = "ready" THEN "tests" ELSE "run")
  /\ UNCHANGED <<clear_cache, tests, proc, astray, clearing, stopped>>

(* Nobody answers within the deadline: TimeoutError, which                  *)
(* ensure_dns_running meets with a restart, once.                           *)
ProbeDeadline ==
  /\ pc \in {"ready", "ensure", "ensure2"} /\ Answering = {}
  /\ CASE pc = "ready"   -> Goto("next") /\ UNCHANGED tests
       [] pc = "ensure"  -> Goto("restart") /\ UNCHANGED tests
       [] pc = "ensure2" -> SkipTest
  /\ UNCHANGED <<clear_cache, proc, answered, astray, clearing, setUp, stopped>>

(* dig waits for a daemon that does not answer for longer than its own 5 s: *)
(* subprocess.TimeoutExpired, which no one below main() catches.            *)
ProbeHangs ==
  /\ pc \in {"ready", "ensure", "ensure2"}
  /\ \E v \in Services : proc[v] = "hung"
  /\ IF pc = "ready" THEN Goto("next") /\ UNCHANGED tests ELSE SkipTest
  /\ UNCHANGED <<clear_cache, proc, answered, astray, clearing, setUp, stopped>>

-----------------------------------------------------------------------------
(* The tests of one service. *)

NextTest ==
  /\ pc = "tests" /\ t < NumTests
  /\ Goto(IF clear_cache THEN "clear" ELSE "run")
  /\ UNCHANGED <<clear_cache, tests, proc, answered, astray, clearing, setUp, stopped>>

(* The QPS level is above the limit of the tool. *)
OverLimit ==
  /\ pc = "tests" /\ t < NumTests
  /\ t' = t + 1 /\ over' = Count(over)
  /\ Goto("tests")
  /\ UNCHANGED <<clear_cache, ran, skipped, proc, answered, astray, clearing, setUp, stopped>>

(* clear_dns_cache, whatever its exit status; some scripts restart the      *)
(* daemon, without waiting for the old one or without coming back.          *)
Clear ==
  /\ pc = "clear"
  /\ IF svc \in Restarting
     THEN \E outcome \in {"up", "stopping", "down"} :
            /\ outcome = "up" => OnPort53 \subseteq {svc}
            /\ proc' = [proc EXCEPT ![svc] = outcome]
     ELSE UNCHANGED proc
  /\ answered' = Nobody
  /\ Goto("ensure")
  /\ UNCHANGED <<clear_cache, tests, astray, clearing, setUp, stopped>>

(* 30 s without an end: the ssh client is killed and the test skipped, but  *)
(* the script may go on at the server, where only its name is looked for    *)
(* (pkill -f, if the host can be reached).                                  *)
ClearTimesOut ==
  /\ pc = "clear"
  /\ answered' = Nobody
  /\ clearing' = clearing \union ({svc} \intersect Restarting)
  /\ astray' = (astray \/ svc \in Restarting)
  /\ SkipTest
  /\ UNCHANGED <<clear_cache, proc, setUp, stopped>>

(* run_impact_test, whatever becomes of it. *)
RunTest ==
  /\ pc = "run"
  /\ t' = t + 1 /\ ran' = Count(ran)
  /\ Goto("tests")
  /\ UNCHANGED <<clear_cache, skipped, over, proc, answered, astray, clearing, setUp, stopped>>

TestsDone ==
  /\ pc = "tests" /\ t = NumTests
  /\ Goto("stop")
  /\ UNCHANGED <<clear_cache, tests, proc, answered, astray, clearing, setUp, stopped>>

(* The finally clause; its failure is only logged. *)
StopService ==
  /\ pc = "stop"
  /\ \/ Stopping(Active \intersect {svc})
     \/ StopFailures /\ UNCHANGED proc
  /\ stopped' = stopped \union {svc}
  /\ Goto("next")
  /\ UNCHANGED <<clear_cache, tests, answered, astray, clearing, setUp>>

NextService ==
  /\ pc = "next"
  /\ IF svc < NumServices
     THEN pc' = "stopAll" /\ svc' = svc + 1 /\ t' = 0
     ELSE pc' = "done" /\ UNCHANGED <<svc, t>>
  /\ UNCHANGED <<clear_cache, ran, skipped, over, proc, answered, astray, clearing,
                 setUp, stopped>>

Main == \/ StopAll       \/ StopAllTimesOut \/ Sleep      \/ StartService
        \/ StartFails    \/ ProbeAnswered   \/ ProbeDeadline
        \/ ProbeHangs    \/ NextTest        \/ OverLimit  \/ Clear
        \/ ClearTimesOut \/ RunTest         \/ TestsDone  \/ StopService
        \/ NextService

-----------------------------------------------------------------------------
(* The daemons on the server host. *)

Becomes(v, from, to) ==
  /\ pc # "done" /\ proc[v] = from
  /\ proc' = [proc EXCEPT ![v] = to]
  /\ UNCHANGED <<clear_cache, pc, svc, tests, answered, astray, clearing, setUp, stopped>>

Dies(v) == Becomes(v, "stopping", "down")

Daemon(v) ==
  \/ OnPort53 = {} /\ Becomes(v, "starting", "up")
  \/ Becomes(v, "starting", "down")
  \/ Becomes(v, "up", "down")
  \/ Becomes(v, "up", "hung")
  \/ Becomes(v, "hung", "up")
  \/ Dies(v)

(* A clear given up restarts the daemon after all: it stops one it finds    *)
(* active, and starts it.                                                   *)
LateClear(v) ==
  /\ pc # "done" /\ v \in clearing
  /\ \/ /\ v \in Active
        /\ proc' = [proc EXCEPT ![v] = "stopping"]
        /\ UNCHANGED clearing
     \/ /\ proc[v] = "down"
        /\ proc' = [proc EXCEPT ![v] = "starting"]
        /\ clearing' = clearing \ {v}
  /\ UNCHANGED <<clear_cache, pc, svc, tests, answered, astray, setUp, stopped>>

Next == Main \/ \E v \in Services : Daemon(v) \/ LateClear(v)

Spec == Init /\ [][Next]_vars

(* The script runs on, and a daemon that was told to stop does.  The        *)
(* commands of this script go through ssh_run with a timeout, after which a *)
(* remote one is given up; a local one is killed and then waited for        *)
(* (remote.py:30), which is taken to end.                                   *)
FairSpec == Spec /\ WF_vars(Main) /\ \A v \in Services : WF_vars(Dies(v))

-----------------------------------------------------------------------------
TypeOK ==
  /\ clear_cache \in ClearCache
  /\ pc \in {"stopAll", "sleep", "start", "ready", "tests", "clear", "ensure",
             "restart", "ensure2", "run", "stop", "next", "done"}
  /\ svc \in Services
  /\ t \in 0..NumTests
  /\ proc \in [Services -> {"down", "starting", "up", "hung", "stopping"}]
  /\ answered \in Services \union {Nobody}
  /\ astray \in BOOLEAN /\ clearing \subseteq Services
  /\ setUp \subseteq Services /\ stopped \subseteq Services
  /\ ran \in [Services -> Nat]
  /\ skipped \in [Services -> Nat]
  /\ over \in [Services -> Nat]

(* A test measures the service it is filed under: between the last start or *)
(* cache clear and the test a probe was answered, and by that service, not  *)
(* by one that was left running.  It takes a command the campaign lost      *)
(* sight of to break this.                                                  *)
MeasuresNamedService == pc = "run" => answered = svc \/ (astray /\ answered # Nobody)

(* One failing test or service takes no other with it: at the end every     *)
(* planned test of every service that was set up was run, was above the     *)
(* tool's limit or failed on its own, and the others have none.             *)
EveryTestAccounted ==
  pc = "done" =>
    \A v \in Services :
       ran[v] + skipped[v] + over[v] = IF v \in setUp THEN NumTests ELSE 0

(* Every service that was tested gets its own stop command before the next  *)
(* one is dealt with, even when its tests raised.                           *)
StoppedAfterTests ==
  \A v \in setUp : v < svc \/ pc = "done" => v \in stopped

(* The campaign ends: no restart, probe or skip goes on for ever. *)
Terminates == <>(pc = "done")
=============================================================================
