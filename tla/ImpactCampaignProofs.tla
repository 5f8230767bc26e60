------------------------ MODULE ImpactCampaignProofs ------------------------
(***************************************************************************)
(* Proofs about the load-impact campaign, for any number of services and   *)
(* tests, and whatever fails: a test measures the service it is filed      *)
(* under, every planned test is accounted for, and a tested service gets   *)
(* its stop command.                                                       *)
(***************************************************************************)
EXTENDS ImpactCampaign, ImpactTest, Induction, SequenceTheorems, TLAPS

Testing == {"clear", "ensure", "restart", "ensure2", "run"}

(* As long as no command was lost sight of, only the service dealt with can *)
(* run, once the others have been stopped.  A clear that may still restart  *)
(* its daemon is one.                                                       *)
Alone ==
  /\ clearing # {} => astray
  /\ ~astray =>
       /\ \A v \in Services : proc[v] # "starting"
       /\ pc = "sleep" => \A v \in Services : proc[v] \in {"down", "stopping"}
       /\ pc \in {"start", "ready", "tests", "stop"} \union Testing =>
            \A v \in Services : v # svc => proc[v] = "down"

(* Whose answer a test may start from. *)
Trusted == answered = svc \/ (astray /\ answered # Nobody)

(* A cache clear forgets the answer until a new probe; without clears that  *)
(* of the setup stands.                                                     *)
AnswerKept ==
  /\ pc \in Testing \ {"run"} => clear_cache
  /\ pc = "tests" /\ ~clear_cache => Trusted
  /\ pc = "run" => Trusted

Tests(v) == ran[v] + skipped[v] + over[v]

(* The counts of the services done, of the one dealt with, and of the rest. *)
Counted ==
  /\ \A v \in Services :
       /\ v < svc => Tests(v) = IF v \in setUp THEN NumTests ELSE 0
       /\ v > svc => Tests(v) = 0 /\ v \notin setUp
  /\ pc \in {"stopAll", "sleep", "start", "ready"} =>
       Tests(svc) = 0 /\ t = 0 /\ svc \notin setUp
  /\ pc \in {"tests"} \union Testing => Tests(svc) = t /\ svc \in setUp
  /\ pc \in Testing => t < NumTests
  /\ pc = "stop" => Tests(svc) = NumTests /\ svc \in setUp
  /\ pc \in {"next", "done"} =>
       /\ Tests(svc) = IF svc \in setUp THEN NumTests ELSE 0
       /\ svc \in setUp => svc \in stopped
  /\ pc = "done" => svc = NumServices

(* The inductive invariant. *)
Inv == TypeOK /\ Alone /\ AnswerKept /\ Counted /\ StoppedAfterTests

-----------------------------------------------------------------------------
(* The invariant holds when the campaign starts. *)
LEMMA InitInv == Init => Inv
<1> SUFFICES ASSUME Init PROVE Inv
  OBVIOUS
<1> USE CampaignAssumption DEF Init, Services
<1>1. TypeOK
  <2>1. proc \in [Services -> {"down", "starting", "up", "hung", "stopping"}]
    OBVIOUS
  <2>2. astray \in BOOLEAN
    BY Zenon
  <2> QED
    BY <2>1, <2>2 DEF TypeOK, Nobody
<1>2. Alone /\ AnswerKept
  BY DEF Alone, AnswerKept, Testing
<1>3. \A v \in Services : Tests(v) = 0 /\ v \notin setUp
  BY DEF Tests
<1>4. Counted /\ StoppedAfterTests
  BY <1>3 DEF Counted, StoppedAfterTests, Testing
<1> QED
  BY <1>1, <1>2, <1>4 DEF Inv

(* What counting does to a counter. *)
LEMMA CountOne ==
  ASSUME NEW f \in [Services -> Nat], svc \in Services
  PROVE  /\ Count(f) \in [Services -> Nat]
         /\ Count(f)[svc] = f[svc] + 1
         /\ \A v \in Services : v # svc => Count(f)[v] = f[v]
  BY DEF Count

(* The end of a test, whether it was run, skipped or above the limit. *)
OneMore ==
  /\ pc \in Testing \/ (pc = "tests" /\ t < NumTests)
  /\ pc' = "tests" /\ t' = t + 1
  /\ UNCHANGED <<svc, setUp, stopped>>
  /\ \/ ran' = Count(ran) /\ UNCHANGED <<skipped, over>>
     \/ skipped' = Count(skipped) /\ UNCHANGED <<ran, over>>
     \/ over' = Count(over) /\ UNCHANGED <<ran, skipped>>

(* Either no test ends at a step of the campaign, or one does. *)
LEMMA StepKinds ==
  ASSUME Inv, [Next]_vars
  PROVE  UNCHANGED tests \/ OneMore \/ NextService
<1> USE DEF tests, OneMore, SkipTest, Goto, Testing
<1>1. CASE StartFails    BY <1>1 DEF StartFails
<1>2. CASE ProbeDeadline BY <1>2 DEF ProbeDeadline
<1>3. CASE ProbeHangs    BY <1>3 DEF ProbeHangs
<1>4. CASE OverLimit     BY <1>4 DEF OverLimit
<1>5. CASE ClearTimesOut BY <1>5 DEF ClearTimesOut
<1>6. CASE RunTest       BY <1>6 DEF RunTest
<1>7. CASE \/ StopAll   \/ StopAllTimesOut \/ Sleep     \/ StartService
           \/ ProbeAnswered \/ NextTest    \/ Clear     \/ TestsDone
           \/ StopService
  BY <1>7 DEF StopAll, StopAllTimesOut, Sleep, StartService, ProbeAnswered, NextTest,
              Clear, TestsDone, StopService
<1>8. ASSUME NEW v \in Services, Daemon(v) \/ LateClear(v) PROVE UNCHANGED tests
  BY <1>8 DEF Daemon, Dies, Becomes, LateClear
<1>9. CASE UNCHANGED vars
  BY <1>9 DEF vars
<1> QED
  BY <1>1, <1>2, <1>3, <1>4, <1>5, <1>6, <1>7, <1>8, <1>9 DEF Next, Main

(* The end of a test counts it for its service and for no other. *)
LEMMA TestsCounted ==
  ASSUME Inv, OneMore
  PROVE  /\ ran' \in [Services -> Nat] /\ skipped' \in [Services -> Nat]
         /\ over' \in [Services -> Nat] /\ t' \in 0..NumTests
         /\ Tests(svc)' = Tests(svc) + 1
         /\ \A v \in Services : v # svc => Tests(v)' = Tests(v)
<1>1. /\ ran \in [Services -> Nat] /\ skipped \in [Services -> Nat]
      /\ over \in [Services -> Nat] /\ svc \in Services /\ t \in 0..NumTests
  BY DEF Inv, TypeOK
<1>2. t < NumTests
  BY DEF Inv, OneMore, Counted
<1>3. t' \in 0..NumTests
  BY <1>1, <1>2, CampaignAssumption DEF OneMore
<1>4. CASE ran' = Count(ran) /\ UNCHANGED <<skipped, over>>
  <2>1. /\ ran' \in [Services -> Nat] /\ ran'[svc] = ran[svc] + 1
        /\ \A v \in Services : v # svc => ran'[v] = ran[v]
    BY <1>1, <1>4, CountOne
  <2>2. svc' = svc
    BY DEF OneMore
  <2> QED
    BY <1>1, <1>3, <1>4, <2>1, <2>2 DEF Tests
<1>5. CASE skipped' = Count(skipped) /\ UNCHANGED <<ran, over>>
  BY <1>1, <1>3, <1>5, CountOne DEF OneMore, Tests
<1>6. CASE over' = Count(over) /\ UNCHANGED <<ran, skipped>>
  BY <1>1, <1>3, <1>6, CountOne DEF OneMore, Tests
<1> QED
  BY <1>4, <1>5, <1>6 DEF OneMore

(* No step leaves the types. *)
LEMMA TypeStep == Inv /\ [Next]_vars => TypeOK'
<1> SUFFICES ASSUME Inv, [Next]_vars PROVE TypeOK'
  OBVIOUS
<1>0. /\ t' \in 0..NumTests /\ ran' \in [Services -> Nat]
      /\ skipped' \in [Services -> Nat] /\ over' \in [Services -> Nat]
  <2>1. CASE UNCHANGED tests
    BY <2>1 DEF Inv, TypeOK, tests
  <2>2. CASE OneMore
    BY <2>2, TestsCounted
  <2>3. CASE NextService
    BY <2>3, CampaignAssumption DEF NextService, Inv, TypeOK
  <2> QED
    BY <2>1, <2>2, <2>3, StepKinds
<1> DEFINE Rest ==
      /\ clear_cache \in ClearCache
      /\ pc \in {"stopAll", "sleep", "start", "ready", "tests", "clear", "ensure",
                 "restart", "ensure2", "run", "stop", "next", "done"}
      /\ svc \in Services
      /\ proc \in [Services -> {"down", "starting", "up", "hung", "stopping"}]
      /\ answered \in Services \union {Nobody}
      /\ astray \in BOOLEAN /\ clearing \subseteq Services
      /\ setUp \subseteq Services /\ stopped \subseteq Services
<1>17. Rest
  BY DEF Inv, TypeOK
<1>18. Rest'
  <2> USE <1>17 DEF Goto
  <2>1. CASE StopAll
    BY <2>1 DEF StopAll, Stopping, Active
  <2>2. CASE StopAllTimesOut
    BY <2>2 DEF StopAllTimesOut, Stopping, Active
  <2>3. CASE Sleep
    BY <2>3 DEF Sleep
  <2>4. CASE StartService
    BY <2>4 DEF StartService, OnPort53
  <2>5. CASE StartFails
    BY <2>5 DEF StartFails, SkipTest
  <2>6. CASE ProbeAnswered
    BY <2>6 DEF ProbeAnswered, Answering
  <2>7. CASE ProbeDeadline
    BY <2>7 DEF ProbeDeadline, SkipTest, Answering
  <2>8. CASE ProbeHangs
    BY <2>8 DEF ProbeHangs, SkipTest
  <2>9. CASE NextTest
    BY <2>9 DEF NextTest
  <2>10. CASE OverLimit
    BY <2>10 DEF OverLimit
  <2>11. CASE Clear
    BY <2>11 DEF Clear, OnPort53
  <2>12. CASE ClearTimesOut
    BY <2>12 DEF ClearTimesOut, SkipTest
  <2>13. CASE RunTest
    BY <2>13 DEF RunTest
  <2>14. CASE TestsDone
    BY <2>14 DEF TestsDone
  <2>15. CASE StopService
    BY <2>15 DEF StopService, Stopping, Active
  <2>16. CASE NextService
    BY <2>16, CampaignAssumption DEF NextService, Services
  <2>17. ASSUME NEW v \in Services, Daemon(v) \/ LateClear(v) PROVE Rest'
    BY <2>17 DEF Daemon, Dies, Becomes, LateClear, Active
  <2>18. CASE UNCHANGED vars
    BY <2>18 DEF vars
  <2> QED
    BY <2>1, <2>2, <2>3, <2>4, <2>5, <2>6, <2>7, <2>8, <2>9, <2>10, <2>11, <2>12, <2>13,
       <2>14, <2>15, <2>16, <2>17, <2>18 DEF Next, Main
<1> QED
  BY <1>0, <1>18 DEF TypeOK

(* Nobody but the service dealt with comes up. *)
LEMMA AloneStep == Inv /\ [Next]_vars => Alone'
<1> SUFFICES ASSUME Inv, [Next]_vars PROVE Alone'
  OBVIOUS
<1> USE DEF Inv, TypeOK, Alone, Testing, Goto, tests
<1>1. CASE StopAll
  BY <1>1 DEF StopAll, Stopping, Active
<1>2. CASE StopAllTimesOut
  BY <1>2 DEF StopAllTimesOut, Stopping, Active
<1>3. CASE Sleep
  BY <1>3 DEF Sleep
<1>4. CASE StartService
  BY <1>4 DEF StartService, OnPort53
<1>5. CASE StartFails
  BY <1>5 DEF StartFails, SkipTest, Count
<1>6. CASE ProbeAnswered
  BY <1>6 DEF ProbeAnswered, Answering
<1>7. CASE ProbeDeadline
  BY <1>7 DEF ProbeDeadline, SkipTest, Count, Answering
<1>8. CASE ProbeHangs
  BY <1>8 DEF ProbeHangs, SkipTest, Count
<1>9. CASE NextTest
  BY <1>9 DEF NextTest
<1>10. CASE OverLimit
  BY <1>10 DEF OverLimit, Count
<1>11. CASE Clear
  BY <1>11 DEF Clear, OnPort53
<1>12. CASE ClearTimesOut
  BY <1>12 DEF ClearTimesOut, SkipTest, Count
<1>13. CASE RunTest
  BY <1>13 DEF RunTest, Count
<1>14. CASE TestsDone
  BY <1>14 DEF TestsDone
<1>15. CASE StopService
  BY <1>15 DEF StopService, Stopping, Active
<1>16. CASE NextService
  BY <1>16 DEF NextService
<1>17. ASSUME NEW v \in Services, Daemon(v) \/ LateClear(v) PROVE Alone'
  BY <1>17 DEF Daemon, Dies, Becomes, LateClear, Active
<1>18. CASE UNCHANGED vars
  BY <1>18 DEF vars
<1> QED
  BY <1>1, <1>2, <1>3, <1>4, <1>5, <1>6, <1>7, <1>8, <1>9, <1>10, <1>11, <1>12, <1>13, <1>14, <1>15, <1>16, <1>17, <1>18
     DEF Next, Main

(* Only a probe the right service answered leads to a test. *)
LEMMA AnswerStep == Inv /\ [Next]_vars => AnswerKept'
<1> SUFFICES ASSUME Inv, [Next]_vars PROVE AnswerKept'
  OBVIOUS
<1> USE DEF Inv, TypeOK, Alone, AnswerKept, Trusted, Testing, Services, Nobody, Goto, tests
<1>1. CASE StopAll
  BY <1>1 DEF StopAll, Stopping, Active
<1>2. CASE StopAllTimesOut
  BY <1>2 DEF StopAllTimesOut, Stopping, Active
<1>3. CASE Sleep
  BY <1>3 DEF Sleep
<1>4. CASE StartService
  BY <1>4 DEF StartService, OnPort53
<1>5. CASE StartFails
  BY <1>5 DEF StartFails, SkipTest, Count
<1>6. CASE ProbeAnswered
  BY <1>6 DEF ProbeAnswered, Answering
<1>7. CASE ProbeDeadline
  BY <1>7 DEF ProbeDeadline, SkipTest, Count, Answering
<1>8. CASE ProbeHangs
  BY <1>8 DEF ProbeHangs, SkipTest, Count
<1>9. CASE NextTest
  BY <1>9 DEF NextTest
<1>10. CASE OverLimit
  BY <1>10 DEF OverLimit, Count
<1>11. CASE Clear
  BY <1>11 DEF Clear, OnPort53
<1>12. CASE ClearTimesOut
  BY <1>12 DEF ClearTimesOut, SkipTest, Count
<1>13. CASE RunTest
  BY <1>13 DEF RunTest, Count
<1>14. CASE TestsDone
  BY <1>14 DEF TestsDone
<1>15. CASE StopService
  BY <1>15 DEF StopService, Stopping, Active
<1>16. CASE NextService
  BY <1>16 DEF NextService
<1>17. ASSUME NEW v \in Services, Daemon(v) \/ LateClear(v) PROVE AnswerKept'
  BY <1>17 DEF Daemon, Dies, Becomes, LateClear, Active
<1>18. CASE UNCHANGED vars
  BY <1>18 DEF vars
<1> QED
  BY <1>1, <1>2, <1>3, <1>4, <1>5, <1>6, <1>7, <1>8, <1>9, <1>10, <1>11, <1>12, <1>13, <1>14, <1>15, <1>16, <1>17, <1>18
     DEF Next, Main

(* Every test is counted once, for the service dealt with. *)
LEMMA CountStep == Inv /\ [Next]_vars => Counted' /\ StoppedAfterTests'
<1> SUFFICES ASSUME Inv, [Next]_vars PROVE Counted' /\ StoppedAfterTests'
  OBVIOUS
<1>0. svc \in Services /\ t \in 0..NumTests /\ Counted /\ StoppedAfterTests
  BY DEF Inv, TypeOK
<1>1. CASE OneMore
  <2>1. Tests(svc)' = Tests(svc) + 1
        /\ \A v \in Services : v # svc => Tests(v)' = Tests(v)
    BY <1>1, TestsCounted
  <2> QED
    BY <1>0, <1>1, <2>1, CampaignAssumption
       DEF OneMore, Counted, StoppedAfterTests, Testing, Services
<1>2. CASE NextService
  <2>1. \A v \in Services : Tests(v)' = Tests(v)
    BY <1>2 DEF NextService, Tests
  <2>2. /\ pc = "next" /\ UNCHANGED <<setUp, stopped>> /\ svc \in 1..NumServices
        /\ \/ svc < NumServices /\ pc' = "stopAll" /\ svc' = svc + 1 /\ t' = 0
           \/ svc = NumServices /\ pc' = "done" /\ svc' = svc
    BY <1>0, <1>2, CampaignAssumption DEF NextService, Services
  <2>3. \A v \in Services : v < svc' => v < svc \/ v = svc
    BY <2>2, CampaignAssumption DEF Services
  <2>4. StoppedAfterTests'
    <3>1. setUp \subseteq Services
      BY DEF Inv, TypeOK
    <3> SUFFICES ASSUME NEW v \in setUp, v < svc' \/ pc' = "done" PROVE v \in stopped
      BY <2>2 DEF StoppedAfterTests
    <3>2. v < svc \/ v = svc
      BY <2>2, <2>3, <3>1, CampaignAssumption DEF Services
    <3> QED
      BY <1>0, <2>2, <3>2 DEF Counted, StoppedAfterTests
  <2>5. svc' \in Services
    BY <2>2, CampaignAssumption DEF Services
  <2>6. ASSUME NEW v \in Services
        PROVE  /\ v < svc' => Tests(v)' = IF v \in setUp' THEN NumTests ELSE 0
               /\ v > svc' => Tests(v)' = 0 /\ v \notin setUp'
    BY <1>0, <2>1, <2>2, CampaignAssumption DEF Counted, Services
  <2>7. CASE pc' = "stopAll"
    <3>1. PICK w \in Services : w = svc' /\ w > svc
      BY <2>2, <2>5, <2>7 DEF Services
    <3>2. Tests(w)' = 0 /\ w \notin setUp'
      BY <1>0, <2>1, <2>2, <3>1 DEF Counted
    <3>3. Tests(svc)' = 0 /\ svc' \notin setUp'
      BY <3>1, <3>2 DEF Tests
    <3>4. t' = 0
      BY <2>2, <2>7
    <3> QED
      BY <2>4, <2>6, <2>7, <3>3, <3>4 DEF Counted, Testing
  <2>8. CASE pc' = "done"
    BY <1>0, <2>1, <2>2, <2>4, <2>6, <2>8 DEF Counted, Testing
  <2> QED
    BY <2>2, <2>7, <2>8
<1>3. CASE UNCHANGED tests
  <2>1. \A v \in Services : Tests(v)' = Tests(v)
    BY <1>3 DEF tests, Tests
  <2> USE <1>0, <1>3, <2>1, CampaignAssumption
      DEF Counted, StoppedAfterTests, Testing, Services, Goto, tests
  <2>2. CASE StopAll
    BY <2>2 DEF StopAll
  <2>3. CASE StopAllTimesOut
    BY <2>3 DEF StopAllTimesOut
  <2>4. CASE Sleep
    BY <2>4 DEF Sleep
  <2>5. CASE StartService
    BY <2>5 DEF StartService
  <2>6. CASE StartFails
    BY <2>6 DEF StartFails, SkipTest
  <2>7. CASE ProbeAnswered
    BY <2>7 DEF ProbeAnswered
  <2>8. CASE ProbeDeadline
    BY <2>8 DEF ProbeDeadline, SkipTest
  <2>9. CASE ProbeHangs
    BY <2>9 DEF ProbeHangs, SkipTest
  <2>10. CASE NextTest
    BY <2>10 DEF NextTest
  <2>11. CASE OverLimit
    BY <2>11 DEF OverLimit
  <2>12. CASE Clear
    BY <2>12 DEF Clear
  <2>13. CASE ClearTimesOut
    BY <2>13 DEF ClearTimesOut, SkipTest
  <2>14. CASE RunTest
    BY <2>14 DEF RunTest
  <2>15. CASE TestsDone
    BY <2>15 DEF TestsDone
  <2>16. CASE StopService
    BY <2>16 DEF StopService
  <2>17. ASSUME NEW v \in Services, Daemon(v) \/ LateClear(v) PROVE Counted' /\ StoppedAfterTests'
    BY <2>17 DEF Daemon, Dies, Becomes, LateClear, Active
  <2>18. CASE UNCHANGED vars
    BY <2>18 DEF vars
  <2> QED
    BY <1>2, <2>2, <2>3, <2>4, <2>5, <2>6, <2>7, <2>8, <2>9, <2>10, <2>11, <2>12, <2>13,
       <2>14, <2>15, <2>16, <2>17, <2>18 DEF Next, Main
<1> QED
  BY <1>1, <1>2, <1>3, StepKinds

(* Every step keeps the invariant. *)
LEMMA InvAlways == Spec => []Inv
<1>1. Inv /\ [Next]_vars => Inv'
  BY TypeStep, AloneStep, AnswerStep, CountStep DEF Inv
<1> QED
  BY <1>1, InitInv, PTL DEF Spec

(* A test is filed under the service that answered before it. *)
THEOREM MeasuresRight == Spec => []MeasuresNamedService
<1>1. Inv => MeasuresNamedService
  BY DEF Inv, AnswerKept, Trusted, MeasuresNamedService
<1> QED
  BY <1>1, InvAlways, PTL

(* At the end each planned test was run, failed alone or was over a limit.  *)
THEOREM TestsAccounted == Spec => []EveryTestAccounted
<1>1. Inv => EveryTestAccounted
  BY CampaignAssumption DEF Inv, TypeOK, Counted, Tests, EveryTestAccounted, Services
<1> QED
  BY <1>1, InvAlways, PTL

(* A service that was tested has been told to stop before the next one.     *)
THEOREM TestedStopped == Spec => []StoppedAfterTests
<1>1. Inv => StoppedAfterTests
  BY DEF Inv
<1> QED
  BY <1>1, InvAlways, PTL

-----------------------------------------------------------------------------
(* The campaign ends, as far as safety goes: a bound on the steps that the  *)
(* script has left.                                                         *)

(* The setup of a service, its end, and six steps of each test at most.     *)
StepsOfService == 6 * NumTests + 7

(* The steps left with the service dealt with, r being six for each of its  *)
(* tests that are not over.                                                 *)
StepsFrom(label, r) ==
  CASE label = "stopAll" -> r + 7
    [] label = "sleep"   -> r + 6
    [] label = "start"   -> r + 5
    [] label = "ready"   -> r + 4
    [] label = "tests"   -> r + 3
    [] label = "clear"   -> r + 2
    [] label = "ensure"  -> r + 1
    [] label = "restart" -> r
    [] label = "ensure2" -> r - 1
    [] label = "run"     -> r - 2
    [] label = "stop"    -> 2
    [] label = "next"    -> 1
    [] label = "done"    -> 0

StepsHere == StepsFrom(pc, 6 * (NumTests - t))

StepsLeft == (NumServices - svc) * StepsOfService + StepsHere

(* Where the script goes within a service and a test.                       *)
Onward ==
  /\ UNCHANGED <<svc, t>>
  /\ \/ pc = "stopAll" /\ pc' \in {"sleep", "next"}
     \/ pc = "sleep"   /\ pc' = "start"
     \/ pc = "start"   /\ pc' \in {"ready", "next"}
     \/ pc = "ready"   /\ pc' \in {"tests", "next"}
     \/ pc = "tests"   /\ pc' \in {"clear", "run"} /\ t < NumTests
     \/ pc = "tests"   /\ pc' = "stop"
     \/ pc = "clear"   /\ pc' = "ensure"
     \/ pc = "ensure"  /\ pc' \in {"restart", "run"}
     \/ pc = "restart" /\ pc' = "ensure2"
     \/ pc = "ensure2" /\ pc' = "run"
     \/ pc = "stop"    /\ pc' = "next"

(* A step of the script goes on in the test, ends the test or the service.  *)
LEMMA MainMoves == Main => Onward \/ OneMore \/ NextService
<1> SUFFICES ASSUME Main PROVE Onward \/ OneMore \/ NextService
  OBVIOUS
<1> USE DEF Onward, OneMore, Testing, Goto, tests, SkipTest
<1>1. CASE StopAll         BY <1>1 DEF StopAll
<1>2. CASE StopAllTimesOut BY <1>2 DEF StopAllTimesOut
<1>3. CASE Sleep           BY <1>3 DEF Sleep
<1>4. CASE StartService    BY <1>4 DEF StartService
<1>5. CASE StartFails      BY <1>5 DEF StartFails
<1>6. CASE ProbeAnswered   BY <1>6 DEF ProbeAnswered
<1>7. CASE ProbeDeadline   BY <1>7 DEF ProbeDeadline
<1>8. CASE ProbeHangs      BY <1>8 DEF ProbeHangs
<1>9. CASE NextTest        BY <1>9 DEF NextTest
<1>10. CASE OverLimit      BY <1>10 DEF OverLimit
<1>11. CASE Clear          BY <1>11 DEF Clear
<1>12. CASE ClearTimesOut  BY <1>12 DEF ClearTimesOut
<1>13. CASE RunTest        BY <1>13 DEF RunTest
<1>14. CASE TestsDone      BY <1>14 DEF TestsDone
<1>15. CASE StopService    BY <1>15 DEF StopService
<1> QED
  BY <1>1, <1>2, <1>3, <1>4, <1>5, <1>6, <1>7, <1>8, <1>9, <1>10, <1>11, <1>12, <1>13,
     <1>14, <1>15 DEF Main

(* The steps left here are none, or fewer than those of a service.          *)
LEMMA StepsFromAre ==
  ASSUME NEW label \in {"stopAll", "sleep", "start", "ready", "tests", "clear", "ensure",
                         "restart", "ensure2", "run", "stop", "next", "done"},
         NEW n \in Nat, n <= NumTests, label \in Testing => n < NumTests
  PROVE  /\ StepsFrom(label, 6 * (NumTests - n)) \in Nat
         /\ StepsFrom(label, 6 * (NumTests - n)) <= StepsOfService
<1> DEFINE r == 6 * (NumTests - n)
<1>1. /\ r \in Nat /\ r <= 6 * NumTests /\ NumTests \in Nat
      /\ label \in Testing => r >= 6
  BY CampaignAssumption
<1> HIDE DEF r
<1>2. StepsFrom(label, r) \in Nat /\ StepsFrom(label, r) <= 6 * NumTests + 7
  BY <1>1 DEF StepsFrom, Testing
<1> QED
  BY <1>2 DEF r, StepsOfService

(* The sum for one service fewer. *)
LEMMA LessByRound ==
  ASSUME NEW a \in Nat, NEW b \in Nat, NEW u \in Nat, NEW h \in Nat, a = b + u, h <= u
  PROVE  b + h < a + 1
  OBVIOUS

(* One service fewer is a whole round of its steps fewer.                   *)
LEMMA RoundLess ==
  ASSUME NEW k \in Nat, k > 0, NEW u \in Nat
  PROVE  k * u = (k - 1) * u + u /\ (k - 1) * u \in Nat /\ k * u \in Nat
  OBVIOUS

(* Going on in a test or a service leaves fewer steps there. *)
LEMMA OnwardFewer ==
  ASSUME NEW r \in Nat, Onward, pc \in Testing => r >= 6
  PROVE  StepsFrom(pc', r) < StepsFrom(pc, r)
<1> USE DEF StepsFrom, Testing
<1>1. CASE pc = "stopAll" /\ pc' \in {"sleep", "next"}   BY <1>1
<1>2. CASE pc = "sleep" /\ pc' = "start"                BY <1>2
<1>3. CASE pc = "start" /\ pc' \in {"ready", "next"}    BY <1>3
<1>4. CASE pc = "ready" /\ pc' \in {"tests", "next"}    BY <1>4
<1>5. CASE pc = "tests" /\ pc' \in {"clear", "run"}     BY <1>5
<1>6. CASE pc = "tests" /\ pc' = "stop"                 BY <1>6
<1>7. CASE pc = "clear" /\ pc' = "ensure"               BY <1>7
<1>8. CASE pc = "ensure" /\ pc' \in {"restart", "run"}  BY <1>8
<1>9. CASE pc = "restart" /\ pc' = "ensure2"            BY <1>9
<1>10. CASE pc = "ensure2" /\ pc' = "run"               BY <1>10
<1>11. CASE pc = "stop" /\ pc' = "next"                 BY <1>11
<1> QED
  BY <1>1, <1>2, <1>3, <1>4, <1>5, <1>6, <1>7, <1>8, <1>9, <1>10, <1>11 DEF Onward

(* Services fewer are at least a round of their steps fewer.                *)
LEMMA RoundsLess ==
  ASSUME NEW k \in Nat, NEW n \in Nat, k + 1 <= n, NEW u \in Nat
  PROVE  k * u \in Nat /\ n * u \in Nat /\ k * u + u <= n * u
<1>1. n * u = k * u + u + (n - k - 1) * u
  OBVIOUS
<1>2. (n - k - 1) * u \in Nat /\ k * u \in Nat /\ n * u \in Nat
  OBVIOUS
<1> QED
  BY <1>1, <1>2

(* Every step of the script leaves fewer.                                   *)
LEMMA StepsFewer ==
  ASSUME Inv, Inv', Main
  PROVE  StepsLeft' < StepsLeft
<1> DEFINE r  == 6 * (NumTests - t)
           r1 == 6 * (NumTests - t')
<1>1. /\ NumTests \in Nat /\ t \in Nat /\ t <= NumTests
      /\ svc \in Nat /\ svc <= NumServices /\ NumServices \in Nat
  BY CampaignAssumption DEF Inv, TypeOK, Services
<1>2. /\ StepsHere \in Nat /\ StepsOfService \in Nat /\ NumServices - svc \in Nat
      /\ StepsHere' \in Nat /\ StepsHere' <= StepsOfService
  <2>1. StepsOfService \in Nat /\ NumServices - svc \in Nat
    BY <1>1 DEF StepsOfService
  <2>2. StepsHere \in Nat
    BY <1>1, StepsFromAre DEF StepsHere, Inv, TypeOK, Counted
  <2>3. /\ t' \in Nat /\ t' <= NumTests /\ (pc' \in Testing => t' < NumTests)
        /\ pc' \in {"stopAll", "sleep", "start", "ready", "tests", "clear", "ensure",
                   "restart", "ensure2", "run", "stop", "next", "done"}
    BY <1>1 DEF Inv, TypeOK, Counted
  <2>4. StepsHere' \in Nat /\ StepsHere' <= StepsOfService
    <3>1. /\ StepsFrom(pc', 6 * (NumTests - t')) \in Nat
          /\ StepsFrom(pc', 6 * (NumTests - t')) <= StepsOfService
      BY <2>3, StepsFromAre
    <3> QED
      BY <3>1 DEF StepsHere
  <2> QED
    BY <2>1, <2>2, <2>4
<1>3. r \in Nat /\ (pc \in Testing => r >= 6)
  BY <1>1 DEF Inv, Counted
<1>4. StepsHere = StepsFrom(pc, r) /\ StepsHere' = StepsFrom(pc', r1)
  BY DEF StepsHere
<1>5. (NumServices - svc) * StepsOfService \in Nat
  BY <1>2
<1>6. CASE svc' = svc /\ StepsHere' < StepsHere
  BY <1>2, <1>5, <1>6 DEF StepsLeft, StepsOfService
<1>7. CASE Onward
  <2>1. r1 = r
    BY <1>7 DEF Onward
  <2> HIDE DEF r, r1
  <2>2. StepsFrom(pc', r) < StepsFrom(pc, r)
    BY <1>3, <1>7, OnwardFewer
  <2> QED
    BY <1>4, <1>6, <1>7, <2>1, <2>2 DEF Onward
<1>8. CASE OneMore
  <2>1. r1 = r - 6
    BY <1>1, <1>8 DEF OneMore
  <2> HIDE DEF r, r1
  <2>2. StepsHere' = r - 3
    BY <1>3, <1>4, <1>8, <2>1 DEF OneMore, StepsFrom
  <2>3. StepsHere > r - 3
    BY <1>3, <1>4, <1>8 DEF OneMore, StepsFrom, Testing
  <2> QED
    BY <1>2, <1>3, <1>6, <1>8, <2>2, <2>3 DEF OneMore
<1>9. CASE NextService
  <2>1. StepsHere = 1
    BY <1>4, <1>9 DEF NextService, StepsFrom
  <2>2. CASE svc < NumServices /\ svc' = svc + 1
    <3> DEFINE k == NumServices - svc
               u == StepsOfService
    <3>1. k \in Nat /\ k > 0 /\ u \in Nat
      BY <1>1, <1>2, <2>2
    <3>2. StepsLeft = k * u + 1 /\ StepsLeft' = (NumServices - svc') * u' + StepsHere'
      BY <2>1 DEF StepsLeft
    <3>3. u' = u /\ NumServices - svc' = k - 1
      BY <1>1, <2>2 DEF StepsOfService
    <3> HIDE DEF k, u
    <3>4. k * u = (k - 1) * u + u /\ (k - 1) * u \in Nat /\ k * u \in Nat
      BY <3>1, RoundLess
    <3>5. StepsHere' <= u /\ StepsHere' \in Nat
      BY <1>2 DEF u
    <3>6. StepsLeft' = (k - 1) * u + StepsHere'
      BY <3>2, <3>3
    <3> QED
      <4> DEFINE a == k * u
                 b == (k - 1) * u
      <4>1. a \in Nat /\ b \in Nat /\ a = b + u
        BY <3>4
      <4>2. StepsLeft = a + 1 /\ StepsLeft' = b + StepsHere'
        BY <3>2, <3>6
      <4> HIDE DEF a, b
      <4>3. b + StepsHere' < a + 1
        BY <3>1, <3>5, <4>1, LessByRound
      <4> QED
        BY <4>2, <4>3
  <2>3. CASE pc' = "done" /\ svc' = svc
    <3>1. StepsHere' = 0
      BY <1>4, <2>3 DEF StepsFrom
    <3> QED
      BY <1>6, <2>1, <2>3, <3>1
  <2> QED
    BY <1>9, <2>2, <2>3 DEF NextService
<1> QED
  BY <1>7, <1>8, <1>9, MainMoves

(* Where it stands in a service is all that the steps left depend on.       *)
LEMMA StepsKept ==
  ASSUME UNCHANGED <<pc, svc, t>>
  PROVE  StepsLeft' = StepsLeft
  BY DEF StepsLeft, StepsHere, StepsOfService

(* There is a step left unless the campaign is done.                        *)
LEMMA StepsLeftAre ==
  ASSUME Inv
  PROVE  /\ StepsLeft \in 0..(NumServices * StepsOfService)
         /\ StepsLeft = 0 => pc = "done"
<1> DEFINE r == 6 * (NumTests - t)
           u == StepsOfService
           a == (NumServices - svc) * u
           b == NumServices * u
<1>1. /\ NumTests \in Nat /\ t \in Nat /\ t <= NumTests
      /\ svc \in Nat /\ svc > 0 /\ svc <= NumServices /\ NumServices \in Nat
  BY CampaignAssumption DEF Inv, TypeOK, Services
<1>2. StepsHere \in Nat /\ StepsHere <= u
  BY <1>1, StepsFromAre DEF StepsHere, Inv, TypeOK, Counted
<1>3. u \in Nat
  BY <1>1 DEF StepsOfService
<1>4. r \in Nat /\ (pc \in Testing => r >= 6)
  BY <1>1 DEF Inv, Counted
<1>5. StepsHere = StepsFrom(pc, r)
  BY DEF StepsHere
<1>6. StepsLeft = a + StepsHere
  BY DEF StepsLeft
<1>7. StepsHere = 0 => pc = "done"
  <2> HIDE DEF r
  <2> QED
    BY <1>4, <1>5 DEF StepsFrom, Testing, Inv, TypeOK
<1>8. a \in Nat /\ b \in Nat /\ a + u <= b
  <2> HIDE DEF u
  <2>1. /\ NumServices - svc \in Nat /\ NumServices \in Nat
        /\ NumServices - svc + 1 <= NumServices
    BY <1>1
  <2> QED
    BY <1>3, <2>1, RoundsLess
<1> HIDE DEF a, b, u
<1>9. StepsLeft \in Nat /\ StepsLeft <= b /\ (StepsLeft = 0 => StepsHere = 0)
  BY <1>2, <1>3, <1>6, <1>8
<1> QED
  BY <1>7, <1>9 DEF b, u

(* The campaign is over after NumServices * (6 * NumTests + 7) steps of the *)
(* script at most, whatever fails, times out or crashes, and however often. *)
(* Each step leaves fewer, the daemons take none away, and none is left     *)
(* only when it is done: no restart, probe or skip goes on for ever.        *)
THEOREM CampaignBounded ==
  Spec => /\ [](StepsLeft \in 0..(NumServices * StepsOfService))
          /\ [](StepsLeft = 0 => pc = "done")
          /\ [][IF Main THEN StepsLeft' < StepsLeft ELSE StepsLeft' = StepsLeft]_vars
<1>1. Inv => StepsLeft \in 0..(NumServices * StepsOfService) /\ (StepsLeft = 0 => pc = "done")
  BY StepsLeftAre
<1>2. Inv /\ Inv' /\ [Next]_vars =>
        [IF Main THEN StepsLeft' < StepsLeft ELSE StepsLeft' = StepsLeft]_vars
  <2> SUFFICES ASSUME Inv, Inv', [Next]_vars
               PROVE  \/ IF Main THEN StepsLeft' < StepsLeft ELSE StepsLeft' = StepsLeft
                      \/ UNCHANGED vars
    OBVIOUS
  <2>1. CASE Main
    BY <2>1, StepsFewer
  <2>2. ASSUME ~Main, NEW v \in Services, Daemon(v) \/ LateClear(v)
        PROVE  StepsLeft' = StepsLeft
    <3>1. UNCHANGED <<pc, svc, t>>
      BY <2>2 DEF Daemon, Dies, Becomes, LateClear, tests
    <3> QED
      BY <3>1, StepsKept
  <2> QED
    BY <2>1, <2>2 DEF Next
<1> QED
  BY <1>1, <1>2, InvAlways, PTL DEF Spec

-----------------------------------------------------------------------------
(* One test: its invariant *)

TestType ==
  /\ cfg \in [dry : BOOLEAN, collectl : BOOLEAN, margin : Nat]
  /\ now \in Nat /\ since \in Nat
  /\ session \in BOOLEAN
  /\ coll \in {"none", "connecting", "running", "ended", "hung"}
  /\ begun \in 0..Skew
  /\ trail \in [of : {"nobody", "earlier campaign", "this test"}, rows : Seq(BOOLEAN)]
  /\ tool \in [Clients -> {"idle", "connecting", "running", "ok", "failed", "timedout"}]
  /\ began \in [Clients -> Nat]
  /\ perHost \in Seq(0..1)
  /\ metrics \in [kind : {"none", "timeout", "not copied", "nobody", "earlier campaign",
                          "this test"},
                  rows : Seq(BOOLEAN)]

(* The rows are those of all hosts, or none. *)
RowsInv ==
  /\ phase \in {"start", "margin", "tools", "save"} => Len(perHost) <= NumClients
  /\ phase \in {"wait", "copy", "rows", "done"} => Len(perHost) = NumClients
  /\ phase # "done" => rows = << >>
  /\ phase = "done" => rows = << [host |-> 0, n |-> SumTo[NumClients]] >>
                                \o [h \in Clients |-> [host |-> h, n |-> perHost[h]]]

(* With collectl the tools are started one margin after it.                 *)
TimeInv ==
  /\ phase = "start" => now = 0 /\ coll = "none"
  /\ phase \in {"start", "margin"} => \A h \in Clients : tool[h] = "idle"
  /\ phase = "margin" => since = 0
  /\ phase = "tools" => since <= now /\ (coll # "none" => since = M)
  /\ \A h \in Clients : tool[h] \in {"connecting", "running"} => phase = "tools"
  /\ \A h \in Clients : tool[h] \in {"running", "ok"} /\ coll # "none" =>
                           M <= began[h] /\ began[h] <= M + Skew
  /\ \A h \in Clients : tool[h] = "ok" => began[h] + Runtime <= now

(* A tool that does not run at a time. *)
Absent(h, time) ==
  tool[h] \in {"running", "ok"} => time < began[h] \/ time >= began[h] + Runtime

(* The trail holds one sample of each tick since collectl began, and one    *)
(* that was not taken under load was taken while some tool was absent.      *)
TrailInv ==
  /\ coll = "running" => /\ trail.of = "this test"
                         /\ begun + Len(trail.rows) = now
                         /\ Len(trail.rows) <= Samples
  /\ trail.of = "this test" => /\ coll \notin {"none", "connecting"}
                               /\ begun + Len(trail.rows) <= now
                               /\ \A i \in 1..Len(trail.rows) :
                                    \/ trail.rows[i]
                                    \/ \E h \in Clients : Absent(h, begun + i - 1)

(* Metrics of this test are cropped from a trail that is complete. *)
MetricsInv ==
  /\ phase = "copy" => coll = "ended"
  /\ metrics.kind = "this test" => /\ coll = "ended" /\ trail.of = "this test"
                                   /\ metrics.rows = Crop(trail.rows)

TestInv == TestType /\ RowsInv /\ TimeInv /\ TrailInv /\ MetricsInv

(* Every variable keeps its type.                                           *)
LEMMA TestTypeHolds == TestSpec => []TestType
<1>0. Runtime \in Nat /\ Margins \subseteq Nat /\ Skew \in Nat /\ 0 \in 0..Skew
  BY TestAssumption
<1>1. TestInit => TestType
  <2> SUFFICES ASSUME TestInit PROVE TestType
    OBVIOUS
  <2>1. << >> \in Seq(BOOLEAN) /\ << >> \in Seq(0..1) /\ << FALSE >> \in Seq(BOOLEAN)
    OBVIOUS
  <2>2. trail \in [of : {"nobody", "earlier campaign", "this test"}, rows : Seq(BOOLEAN)]
    <3>1. CASE trail = [of |-> "nobody", rows |-> << >>]
      BY <2>1, <3>1
    <3>2. CASE trail = [of |-> "earlier campaign", rows |-> << FALSE >>]
      BY <2>1, <3>2
    <3> QED
      BY <3>1, <3>2 DEF TestInit
  <2> QED
    BY <1>0, <2>1, <2>2 DEF TestInit, TestType, NoRows
<1>2. TestType /\ [TestNext]_testVars => TestType'
  <2> SUFFICES ASSUME TestType, [TestNext]_testVars PROVE TestType'
    OBVIOUS
  <2>a. M \in Nat
    BY DEF TestType, M
  <2>b. trail.rows \in Seq(BOOLEAN) /\ trail.of \in {"nobody", "earlier campaign", "this test"}
    BY DEF TestType
  <2>d. now \in Nat
    BY DEF TestType
  <2>c. trail = [of |-> trail.of, rows |-> trail.rows]
    BY DEF TestType
  <2>1. CASE Refuse \/ DryRun \/ JoinTools \/ SaveFails \/ HostsSaved \/ CollectlDone \/ AddRows
    BY <2>1 DEF Refuse, DryRun, JoinTools, SaveFails, HostsSaved, CollectlDone, AddRows,
                TestType, Proceed, Enter, server, load, output
  <2>2. CASE WithoutCollectl \/ CollectlRefused \/ EndMargin
    BY <2>2 DEF WithoutCollectl, CollectlRefused, EndMargin, StartTools, Enter,
                TestType, server, output
  <2>3. CASE LaunchCollectl
    BY <2>3 DEF LaunchCollectl, Enter, TestType, load, output
  <2>4. CASE CollectlRuns
    <3>1. now \in 0..Skew
      <4>1. now <= Skew
        BY <2>4 DEF CollectlRuns
      <4> QED
        BY <1>0, <2>d, <4>1
    <3>2. << >> \in Seq(BOOLEAN)
      OBVIOUS
    <3> QED
      BY <2>4, <3>1, <3>2 DEF CollectlRuns, TestType, load, output
  <2>5. CASE CollectlUnreachable \/ CollectlEnds \/ CollectlHangs
    BY <2>5 DEF CollectlUnreachable, CollectlEnds, CollectlHangs, TestType, load, output
  <2>6. ASSUME NEW h \in Clients, Tool(h) PROVE TestType'
    <3>1. /\ tool' = [tool EXCEPT ![h] = "running"] \/ tool' = [tool EXCEPT ![h] = "ok"]
               \/ tool' = [tool EXCEPT ![h] = "failed"] \/ tool' = [tool EXCEPT ![h] = "timedout"]
          /\ began' = began \/ began' = [began EXCEPT ![h] = now]
          /\ UNCHANGED <<cfg, phase, now, since, session, server, output>>
      BY <2>6 DEF Tool, ToolStarts, ToolEnds, ToolFails, ToolTimesOut
    <3>2. tool' \in [Clients -> {"idle", "connecting", "running", "ok", "failed", "timedout"}]
      BY <3>1 DEF TestType
    <3>3. began' \in [Clients -> Nat]
      BY <2>b, <3>1 DEF TestType
    <3> QED
      BY <3>1, <3>2, <3>3 DEF TestType, server, output
  <2>7. CASE SaveHost
    <3>1. perHost' \in Seq(0..1)
      <4>1. PICK n \in 0..1 : perHost' = Append(perHost, n)
        BY <2>7 DEF SaveHost
      <4>2. perHost \in Seq(0..1)
        BY DEF TestType
      <4> QED
        BY <4>1, <4>2, AppendProperties
    <3> QED
      BY <2>7, <3>1 DEF SaveHost, TestType, server, load
  <2>8. CASE WaitTimesOut \/ CopyFails
    <3>1. << >> \in Seq(BOOLEAN)
      OBVIOUS
    <3>2. \/ metrics' = [kind |-> "timeout", rows |-> << >>]
          \/ metrics' = [kind |-> "not copied", rows |-> << >>]
      BY <2>8 DEF WaitTimesOut, CopyFails
    <3>3. metrics' \in [kind : {"none", "timeout", "not copied", "nobody", "earlier campaign",
                                "this test"}, rows : Seq(BOOLEAN)]
      <4>1. CASE metrics' = [kind |-> "timeout", rows |-> << >>]
        BY <3>1, <4>1
      <4>2. CASE metrics' = [kind |-> "not copied", rows |-> << >>]
        BY <3>1, <4>2
      <4> QED
        BY <3>2, <4>1, <4>2
    <3> QED
      BY <2>8, <3>3 DEF WaitTimesOut, CopyFails, Proceed, TestType, server, load
  <2>9. CASE CopyTrail
    <3>1. Crop(trail.rows) \in Seq(BOOLEAN)
      <4>1. CASE M > 0 /\ Len(trail.rows) > 2 * M
        <5>0. Len(trail.rows) \in Nat /\ \A i \in 1..Len(trail.rows) : trail.rows[i] \in BOOLEAN
          BY <2>b, LenProperties, ElementOfSeq
        <5>1. \A i \in M + 1 .. Len(trail.rows) - M : trail.rows[i] \in BOOLEAN
          <6>1. \A i \in M + 1 .. Len(trail.rows) - M : i \in 1..Len(trail.rows)
            BY <2>a, <5>0
          <6> QED
            BY <5>0, <6>1
        <5>2. M + 1 \in Int /\ Len(trail.rows) - M \in Int
          BY <2>a, <5>0
        <5>3. SubSeq(trail.rows, M + 1, Len(trail.rows) - M) \in Seq(BOOLEAN)
          BY <5>1, <5>2, SubSeqProperties
        <5> QED
          BY <4>1, <5>3 DEF Crop
      <4>2. CASE ~(M > 0 /\ Len(trail.rows) > 2 * M)
        BY <2>b, <4>2 DEF Crop
      <4> QED
        BY <4>1, <4>2
    <3> QED
      BY <2>b, <2>9, <3>1 DEF CopyTrail, Proceed, TestType, server, load
  <2>10. CASE Tick
    <3>1. Append(trail.rows, Busy) \in Seq(BOOLEAN)
      <4>1. Busy \in BOOLEAN
        BY DEF Busy
      <4> QED
        BY <2>b, <4>1, AppendProperties
    <3>2. trail' \in [of : {"nobody", "earlier campaign", "this test"}, rows : Seq(BOOLEAN)]
      <4>1. trail' = trail \/ trail' = [trail EXCEPT !.rows = Append(@, Busy)]
        BY <2>10 DEF Tick
      <4>2. CASE trail' = trail
        BY <4>2 DEF TestType
      <4>3. CASE trail' = [trail EXCEPT !.rows = Append(@, Busy)]
        <5> HIDE DEF Busy
        <5> QED
          BY <3>1, <4>3 DEF TestType
      <4> QED
        BY <4>1, <4>2, <4>3
    <3>3. now' \in Nat
      <4>1. now' = now + 1
        BY <2>10 DEF Tick
      <4> QED
        BY <2>d, <4>1
    <3> QED
      BY <2>10, <3>2, <3>3 DEF Tick, TestType, load, output
  <2>11. CASE UNCHANGED testVars
    BY <2>11 DEF testVars, TestType, server, load, output
  <2> QED
    BY <2>1, <2>2, <2>3, <2>4, <2>5, <2>6, <2>7, <2>8, <2>9, <2>10, <2>11
       DEF TestNext, Script, Collectl
<1> QED
  BY <1>1, <1>2, PTL DEF TestSpec

(* What the types say of the numbers and of the trail.                      *)
LEMMA TestNumbers ==
  ASSUME TestType
  PROVE  /\ M \in Nat /\ Runtime \in Nat /\ Skew \in Nat /\ Samples \in Nat
         /\ now \in Nat /\ since \in Nat /\ begun \in Nat /\ begun <= Skew
         /\ trail.rows \in Seq(BOOLEAN) /\ Len(trail.rows) \in Nat
         /\ tool \in [Clients -> {"idle", "connecting", "running", "ok", "failed", "timedout"}]
         /\ began \in [Clients -> Nat] /\ Clients # {} /\ NumClients \in Nat
<1>1. Runtime \in Nat /\ Skew \in Nat /\ NumClients \in Nat \ {0}
  BY TestAssumption
<1>2. cfg \in [dry : BOOLEAN, collectl : BOOLEAN, margin : Nat]
  BY DEF TestType
<1>3. M \in Nat
  BY <1>2 DEF M
<1>4. Samples \in Nat
  BY <1>1, <1>3 DEF Samples
<1>5. now \in Nat /\ since \in Nat /\ begun \in 0..Skew
  BY DEF TestType
<1>6. begun \in Nat /\ begun <= Skew
  BY <1>1, <1>5
<1>7. trail.rows \in Seq(BOOLEAN)
  BY DEF TestType
<1>8. Len(trail.rows) \in Nat
  BY <1>7, LenProperties
<1>9. tool \in [Clients -> {"idle", "connecting", "running", "ok", "failed", "timedout"}]
      /\ began \in [Clients -> Nat]
  BY DEF TestType
<1>10. Clients # {} /\ NumClients \in Nat
  BY <1>1 DEF Clients
<1> QED
  BY <1>1, <1>3, <1>4, <1>5, <1>6, <1>7, <1>8, <1>9, <1>10

(* The rows are added once, when the results of all hosts are there.        *)
LEMMA RowsHold == TestSpec => []RowsInv
<1>1. TestInit => RowsInv
  <2>1. Len(<< >>) = 0 /\ 0 <= NumClients
    BY TestAssumption
  <2> QED
    BY <2>1 DEF TestInit, RowsInv
<1>2. TestType /\ RowsInv /\ [TestNext]_testVars => RowsInv'
  <2> SUFFICES ASSUME TestType, RowsInv, [TestNext]_testVars PROVE RowsInv'
    OBVIOUS
  <2> USE DEF RowsInv
  <2>1. ASSUME UNCHANGED <<perHost, rows>>, phase # "done",
               phase' \in {"none", "raised"}
                 \/ {phase, phase'} \subseteq {"start", "margin", "tools", "save"}
                 \/ {phase, phase'} \subseteq {"wait", "copy", "rows"}
        PROVE  RowsInv'
    BY <2>1
  <2>2. CASE Refuse \/ DryRun \/ JoinTools \/ SaveFails
    BY <2>1, <2>2 DEF Refuse, DryRun, JoinTools, SaveFails, Proceed, output
  <2>3. CASE WithoutCollectl \/ CollectlRefused \/ EndMargin \/ LaunchCollectl
    BY <2>1, <2>3 DEF WithoutCollectl, CollectlRefused, EndMargin, LaunchCollectl, StartTools,
                      Enter, output
  <2>4. CASE CollectlDone \/ WaitTimesOut \/ CopyTrail \/ CopyFails
    BY <2>1, <2>4 DEF CollectlDone, WaitTimesOut, CopyTrail, CopyFails, Proceed, output
  <2>5. CASE HostsSaved
    BY <2>5 DEF HostsSaved, Proceed, Enter, output
  <2>6. CASE SaveHost
    <3>1. PICK n \in 0..1 : perHost' = Append(perHost, n)
      BY <2>6 DEF SaveHost
    <3>2. perHost \in Seq(0..1) /\ Len(perHost) < NumClients
      BY <2>6 DEF SaveHost, TestType
    <3>3. Len(perHost') <= NumClients
      BY <3>1, <3>2, TestAssumption
    <3> QED
      BY <2>6, <3>3 DEF SaveHost
  <2>7. CASE AddRows
    <3>1. rows = << >> /\ perHost' = perHost /\ phase = "rows" /\ phase' = "done"
      BY <2>7 DEF AddRows, Proceed
    <3> DEFINE all  == << [host |-> 0, n |-> SumTo[NumClients]] >>
               each == [h \in Clients |-> [host |-> h, n |-> perHost[h]]]
    <3>2. rows' = rows \o all \o each
      BY <2>7 DEF AddRows
    <3>3. rows \o all = all
      BY <3>1
    <3>4. all' = all /\ each' = each
      BY <3>1 DEF SumTo
    <3> HIDE DEF all, each
    <3>5. rows' = all' \o each'
      BY <3>2, <3>3, <3>4
    <3> QED
      BY <3>1, <3>5 DEF all, each
  <2>8. CASE UNCHANGED <<perHost, rows, phase>>
    BY <2>8 DEF SumTo
  <2>9. CASE Collectl \/ (\E h \in Clients : Tool(h)) \/ Tick \/ UNCHANGED testVars
    <3>1. UNCHANGED <<perHost, rows, phase>>
      BY <2>9 DEF Collectl, CollectlRuns, CollectlUnreachable, CollectlEnds, CollectlHangs,
                  Tool, ToolStarts, ToolEnds, ToolFails, ToolTimesOut, Tick, testVars, output
    <3> QED
      BY <2>8, <3>1
  <2> QED
    BY <2>2, <2>3, <2>4, <2>5, <2>6, <2>7, <2>9 DEF TestNext, Script
<1> QED
  BY <1>1, <1>2, TestTypeHolds, PTL DEF TestSpec

(* The tools begin one margin after collectl, give or take the skew of a    *)
(* launch, and a tool that succeeds has run for the runtime.                *)
LEMMA TimeHolds == TestSpec => []TimeInv
<1>1. TestInit => TimeInv
  BY DEF TestInit, TimeInv
<1>2. TestType /\ TimeInv /\ [TestNext]_testVars => TimeInv'
  <2> SUFFICES ASSUME TestType, TimeInv, [TestNext]_testVars PROVE TimeInv'
    OBVIOUS
  <2>a. M \in Nat /\ now \in Nat /\ since \in Nat /\ Runtime \in Nat /\ Skew \in Nat
        /\ tool \in [Clients -> {"idle", "connecting", "running", "ok", "failed", "timedout"}]
        /\ began \in [Clients -> Nat]
    BY TestAssumption DEF TestType, M
  <2>b. cfg' = cfg => M' = M
    BY DEF M
  <2> USE DEF TimeInv
  \* Steps that leave the tools alone.
  <2>1. ASSUME UNCHANGED <<cfg, now, tool, began>>, phase' = phase => since' = since,
               phase' \in {"save", "wait", "copy", "rows", "done", "none", "raised"}
                 \/ phase' = phase,
               \A h \in Clients : tool[h] \in {"connecting", "running"} => phase' = phase,
               coll' = coll \/ (coll # "none" /\ coll' # "none")
        PROVE  TimeInv'
    BY <2>1, <2>a, <2>b
  <2>2. CASE Refuse \/ DryRun \/ JoinTools \/ SaveFails \/ HostsSaved \/ CollectlDone
             \/ WaitTimesOut \/ CopyTrail \/ CopyFails \/ AddRows
    <3>1. UNCHANGED <<cfg, now, tool, began, coll>>
      BY <2>2 DEF Refuse, DryRun, JoinTools, SaveFails, HostsSaved, CollectlDone, WaitTimesOut,
                  CopyTrail, CopyFails, AddRows, server, load
    <3>2. phase' \in {"save", "wait", "copy", "rows", "done", "none", "raised"} /\ phase' # phase
      BY <2>2 DEF Refuse, DryRun, JoinTools, SaveFails, HostsSaved, CollectlDone, WaitTimesOut,
                  CopyTrail, CopyFails, AddRows, Proceed, Enter
    <3>3. \A h \in Clients : tool[h] \notin {"connecting", "running"}
      BY <2>2 DEF Refuse, DryRun, JoinTools, SaveFails, HostsSaved, CollectlDone, WaitTimesOut,
                  CopyTrail, CopyFails, AddRows
    <3> QED
      BY <2>1, <3>1, <3>2, <3>3
  <2>3. CASE Collectl
    <3>1. UNCHANGED <<cfg, now, tool, began, phase, since>> /\ coll # "none" /\ coll' # "none"
      BY <2>3 DEF Collectl, CollectlRuns, CollectlUnreachable, CollectlEnds, CollectlHangs, load
    <3> QED
      BY <2>1, <3>1
  <2>4. CASE SaveHost \/ UNCHANGED testVars
    <3>1. UNCHANGED <<cfg, now, tool, began, phase, since, coll>>
      BY <2>4 DEF SaveHost, testVars, server, load
    <3> QED
      BY <2>1, <3>1
  <2>5. CASE WithoutCollectl \/ CollectlRefused
    BY <2>5 DEF WithoutCollectl, CollectlRefused, StartTools, Enter, server
  <2>6. CASE LaunchCollectl
    BY <2>6 DEF LaunchCollectl, Enter, load
  <2>7. CASE EndMargin
    <3>1. since' = M /\ since' = now' /\ now' = now /\ M' = M /\ phase' = "tools" /\ \A h \in Clients : tool'[h] = "connecting"
      BY <2>7, <2>a, <2>b DEF EndMargin, StartTools, Enter
    <3> QED
      <4>1. since' <= now'
        BY <2>a, <3>1
      <4> QED
        BY <3>1, <4>1
  <2>8. ASSUME NEW h \in Clients, Tool(h) PROVE TimeInv'
    <3>1. UNCHANGED <<cfg, phase, now, since, coll>> /\ phase = "tools" /\ M' = M
      BY <2>8, <2>b DEF Tool, ToolStarts, ToolEnds, ToolFails, ToolTimesOut, server
    <3>2. ASSUME NEW k \in Clients
          PROVE  /\ tool'[k] \in {"running", "ok"} /\ coll # "none" =>
                       M <= began'[k] /\ began'[k] <= M + Skew
                 /\ tool'[k] = "ok" => began'[k] + Runtime <= now
      <4>1. CASE k # h
        <5>1. tool'[k] = tool[k] /\ began'[k] = began[k]
          BY <2>a, <2>8, <4>1 DEF Tool, ToolStarts, ToolEnds, ToolFails, ToolTimesOut
        <5> QED
          BY <5>1
      <4>2. CASE k = h /\ ToolStarts(h)
        <5>1. tool'[h] = "running" /\ began'[h] = now /\ now <= since + Skew
          BY <2>a, <4>2 DEF ToolStarts
        <5>2. coll # "none" => since = M
          BY <3>1
        <5>3. coll # "none" => M <= now
          BY <3>1
        <5> QED
          BY <2>a, <4>2, <5>1, <5>2, <5>3
      <4>3. CASE k = h /\ ToolEnds(h)
        <5>1. tool[h] = "running" /\ tool'[h] = "ok" /\ began'[h] = began[h]
              /\ now >= began[h] + Runtime
          BY <2>a, <4>3 DEF ToolEnds
        <5> QED
          BY <2>a, <4>3, <5>1
      <4>4. CASE k = h /\ (ToolFails(h) \/ ToolTimesOut(h))
        <5>1. tool'[h] \in {"failed", "timedout"}
          BY <2>a, <4>4 DEF ToolFails, ToolTimesOut
        <5> QED
          BY <4>4, <5>1
      <4> QED
        BY <2>8, <4>1, <4>2, <4>3, <4>4 DEF Tool
    <3> QED
      BY <3>1, <3>2
  <2>9. CASE Tick
    BY <2>9, <2>a, <2>b DEF Tick, load
  <2> QED
    BY <2>2, <2>3, <2>4, <2>5, <2>6, <2>7, <2>8, <2>9 DEF TestNext, Script
<1> QED
  BY <1>1, <1>2, TestTypeHolds, PTL DEF TestSpec

(* Arithmetic of the ticks.                                                 *)
LEMMA PlusZero == \A k \in Nat : k + 0 = k /\ k + 0 \in Int
  OBVIOUS

(* The same, one tick later.                                                *)
LEMMA OneTickLater == \A a, n, k \in Nat : a + n <= k => a + n <= k + 1
  OBVIOUS

(* The trail has a sample of every tick since collectl began, up to the     *)
(* count it was given, and a sample without load has an absent tool.        *)
LEMMA TrailHolds == TestSpec => []TrailInv
<1>1. TestInit => TrailInv
  <2> SUFFICES ASSUME TestInit PROVE TrailInv
    OBVIOUS
  <2>1. coll = "none"
    BY DEF TestInit
  <2>2. trail.of # "this test"
    <3>1. CASE trail = [of |-> "nobody", rows |-> << >>]
      BY <3>1
    <3>2. CASE trail = [of |-> "earlier campaign", rows |-> << FALSE >>]
      BY <3>2
    <3> QED
      BY <3>1, <3>2 DEF TestInit
  <2> QED
    BY <2>1, <2>2 DEF TrailInv
<1>2. TestType /\ TimeInv /\ TrailInv /\ [TestNext]_testVars => TrailInv'
  <2> SUFFICES ASSUME TestType, TimeInv, TrailInv, [TestNext]_testVars PROVE TrailInv'
    OBVIOUS
  <2>a. Clients # {} /\ Runtime \in Nat /\ Samples \in Nat
    BY TestNumbers
  <2>b. now \in Nat /\ begun \in Nat
    BY TestNumbers
  <2>c. trail.rows \in Seq(BOOLEAN) /\ Len(trail.rows) \in Nat
    BY TestNumbers
  <2>f. Len(trail.rows) \in Nat
    BY TestNumbers
  <2>d. tool \in [Clients -> {"idle", "connecting", "running", "ok", "failed", "timedout"}]
        /\ began \in [Clients -> Nat]
    BY DEF TestType
  <2>e. cfg' = cfg => Samples' = Samples
    BY DEF Samples, M
  \* Steps that leave the trail alone; a tool absent before is absent after.
  <2>1. ASSUME UNCHANGED <<begun, trail, now, cfg>>,
               coll' = coll
                 \/ (coll' \in {"ended", "hung"} /\ (coll = "connecting" \/ coll = "running"))
                 \/ (coll = "none" /\ coll' = "connecting"),
               \A h \in Clients : \A i \in 1..Len(trail.rows) :
                 trail.of = "this test" /\ Absent(h, begun + i - 1) => Absent(h, begun + i - 1)'
        PROVE  TrailInv'
    <3>1. trail.of = "this test" => \A i \in 1..Len(trail.rows) :
             trail.rows[i] \/ \E h \in Clients : Absent(h, begun + i - 1)'
      BY <2>1 DEF TrailInv
    <3>2. begun' + Len(trail'.rows) = begun + Len(trail.rows) /\ trail' = trail /\ now' = now
      BY <2>1
    <3>3. coll' = "running" => coll = "running"
      BY <2>1
    <3>4. coll' = "running" => /\ trail'.of = "this test" /\ begun' + Len(trail'.rows) = now'
                               /\ Len(trail'.rows) <= Samples'
      BY <2>1, <2>e, <3>2, <3>3 DEF TrailInv
    <3>5. trail'.of = "this test" => /\ coll' \notin {"none", "connecting"}
                                     /\ begun' + Len(trail'.rows) <= now'
      BY <2>1, <3>2 DEF TrailInv
    <3>6. trail'.of = "this test" => \A i \in 1..Len(trail'.rows) :
             trail'.rows[i] \/ \E h \in Clients : Absent(h, begun + i - 1)'
      BY <3>1, <3>2
    <3> QED
      BY <3>4, <3>5, <3>6 DEF TrailInv
  <2>2. CASE Refuse \/ DryRun \/ JoinTools \/ SaveHost \/ SaveFails \/ HostsSaved \/ CollectlDone
             \/ WaitTimesOut \/ CopyTrail \/ CopyFails \/ AddRows \/ LaunchCollectl
             \/ CollectlUnreachable \/ CollectlEnds \/ CollectlHangs \/ UNCHANGED testVars
    <3>1. UNCHANGED <<begun, trail, now, cfg, tool, began>>
      BY <2>2 DEF Refuse, DryRun, JoinTools, SaveHost, SaveFails, HostsSaved, CollectlDone,
                  WaitTimesOut, CopyTrail, CopyFails, AddRows, LaunchCollectl,
                  CollectlUnreachable, CollectlEnds, CollectlHangs, testVars, server, load
    <3>2. coll' = coll
            \/ (coll' \in {"ended", "hung"} /\ (coll = "connecting" \/ coll = "running"))
            \/ (coll = "none" /\ coll' = "connecting")
      BY <2>2 DEF Refuse, DryRun, JoinTools, SaveHost, SaveFails, HostsSaved, CollectlDone,
                  WaitTimesOut, CopyTrail, CopyFails, AddRows, LaunchCollectl, TimeInv,
                  CollectlUnreachable, CollectlEnds, CollectlHangs, testVars, server
    <3>3. \A h \in Clients : \A i \in 1..Len(trail.rows) :
             Absent(h, begun + i - 1) => Absent(h, begun + i - 1)'
      BY <3>1 DEF Absent
    <3> QED
      BY <2>1, <3>1, <3>2, <3>3
  <2>3. CASE WithoutCollectl \/ CollectlRefused \/ EndMargin
    <3>1. UNCHANGED <<begun, trail, now, cfg, coll>> /\ \A h \in Clients : tool'[h] = "connecting"
      BY <2>3 DEF WithoutCollectl, CollectlRefused, EndMargin, StartTools, server
    <3>2. \A h \in Clients : \A i \in 1..Len(trail.rows) : Absent(h, begun + i - 1)'
      BY <3>1 DEF Absent
    <3> QED
      BY <2>1, <3>1, <3>2
  <2>4. CASE CollectlRuns
    <3>1. /\ coll' = "running" /\ begun' = now /\ now' = now /\ cfg' = cfg
          /\ trail'.of = "this test" /\ trail'.rows = << >>
      BY <2>4 DEF CollectlRuns
    <3>2. Len(trail'.rows) = 0 /\ Samples' \in Nat
      BY <2>a, <2>e, <3>1
    <3>3. begun' + Len(trail'.rows) = now' /\ begun' + Len(trail'.rows) \in Int
      <4>1. begun' \in Nat /\ begun' = now'
        BY <2>b, <3>1
      <4>2. begun' + 0 = begun' /\ begun' + 0 \in Int
        BY <4>1, PlusZero
      <4>3. Len(trail'.rows) = 0
        BY <3>2
      <4> QED
        BY <4>1, <4>2, <4>3
    <3>4. \A i \in 1..Len(trail'.rows) : FALSE
      BY <3>2
    <3>5. begun' + Len(trail'.rows) <= now'
      BY <3>3
    <3>6. Len(trail'.rows) <= Samples'
      BY <3>2
    <3> QED
      BY <3>1, <3>3, <3>4, <3>5, <3>6 DEF TrailInv
  <2>5. ASSUME NEW h \in Clients, Tool(h) PROVE TrailInv'
    <3>1. UNCHANGED <<begun, trail, now, cfg, coll>>
      BY <2>5 DEF Tool, ToolStarts, ToolEnds, ToolFails, ToolTimesOut, server
    <3>2. ASSUME NEW k \in Clients, NEW i \in 1..Len(trail.rows), trail.of = "this test",
                 Absent(k, begun + i - 1)
          PROVE  Absent(k, begun + i - 1)'
      <4>1. CASE k # h
        <5>1. tool'[k] = tool[k] /\ began'[k] = began[k]
          BY <2>5, <2>d, <4>1 DEF Tool, ToolStarts, ToolEnds, ToolFails, ToolTimesOut
        <5> QED
          BY <3>1, <3>2, <5>1 DEF Absent
      <4>2. CASE k = h /\ ToolStarts(h)
        <5>1. began'[h] = now
          BY <2>d, <4>2 DEF ToolStarts
        <5>2. begun + Len(trail.rows) <= now
          BY <3>2 DEF TrailInv
        <5>3. begun + i - 1 < now
          BY <2>b, <2>c, <5>2
        <5> QED
          BY <3>1, <4>2, <5>1, <5>3 DEF Absent
      <4>3. CASE k = h /\ ToolEnds(h)
        <5>1. tool[h] = "running" /\ began'[h] = began[h]
          BY <2>d, <4>3 DEF ToolEnds
        <5> QED
          BY <3>1, <3>2, <4>3, <5>1 DEF Absent
      <4>4. CASE k = h /\ (ToolFails(h) \/ ToolTimesOut(h))
        <5>1. tool'[h] \in {"failed", "timedout"}
          BY <2>d, <4>4 DEF ToolFails, ToolTimesOut
        <5> QED
          BY <4>4, <5>1 DEF Absent
      <4> QED
        BY <2>5, <4>1, <4>2, <4>3, <4>4 DEF Tool
    <3> QED
      BY <2>1, <3>1, <3>2
  <2>6. CASE Tick
    <3>0. UNCHANGED <<begun, cfg, coll, tool, began>> /\ now' = now + 1 /\ ~Due
      BY <2>6 DEF Tick, load
    <3>1. \A k \in Clients : \A i : Absent(k, begun + i - 1)' <=> Absent(k, begun + i - 1)
      BY <3>0 DEF Absent
    <3>2. CASE coll # "running"
      <4>1. trail' = trail
        BY <2>6, <3>2 DEF Tick
      <4>a. trail.of = "this test" => begun + Len(trail.rows) <= now
        BY DEF TrailInv
      <4>b. begun' = begun /\ now' = now + 1
        BY <3>0
      <4>2. trail.of = "this test" => begun' + Len(trail'.rows) <= now'
        <5>1. begun + Len(trail.rows) <= now => begun + Len(trail.rows) <= now + 1
          BY <2>b, <2>f, OneTickLater
        <5> QED
          BY <4>1, <4>a, <4>b, <5>1
      <4>4. trail.of = "this test" => \A i \in 1..Len(trail.rows) :
               trail.rows[i] \/ \E k \in Clients : Absent(k, begun + i - 1)'
        BY <3>1 DEF TrailInv
      <4> QED
        BY <3>0, <3>2, <4>1, <4>2, <4>4 DEF TrailInv
    <3>3. CASE coll = "running"
      <4>1. trail'.rows = Append(trail.rows, Busy) /\ trail'.of = trail.of
        BY <2>6, <3>3 DEF Tick, TestType
      <4>2. /\ trail.of = "this test" /\ begun + Len(trail.rows) = now
            /\ Len(trail.rows) <= Samples /\ Len(trail.rows) # Samples
        BY <3>0, <3>3 DEF TrailInv, Due
      <4>a. Busy \in BOOLEAN
        BY DEF Busy
      <4>3. /\ Len(trail'.rows) = Len(trail.rows) + 1 /\ trail'.rows[Len(trail.rows) + 1] = Busy
            /\ \A i \in 1..Len(trail.rows) : trail'.rows[i] = trail.rows[i]
        BY <2>c, <4>1, <4>a, AppendProperties
      <4>4. /\ begun' + Len(trail'.rows) = now' /\ Len(trail'.rows) <= Samples'
        <5>1. begun' = begun /\ now' = now + 1 /\ Samples' = Samples
          BY <2>e, <3>0
        <5>2. begun' + Len(trail'.rows) = now'
          <6>1. begun + Len(trail.rows) = now
            BY <4>2
          <6>2. Len(trail'.rows) = Len(trail.rows) + 1
            BY <4>3
          <6> QED
            BY <2>b, <2>f, <5>1, <6>1, <6>2
        <5>3. Len(trail'.rows) <= Samples
          <6>1. Len(trail.rows) <= Samples /\ Len(trail.rows) # Samples
            BY <4>2
          <6>2. Len(trail'.rows) = Len(trail.rows) + 1
            BY <4>3
          <6> QED
            BY <2>a, <2>f, <6>1, <6>2
        <5> QED
          BY <5>1, <5>2, <5>3
      <4>5. ASSUME NEW i \in 1..Len(trail'.rows)
            PROVE  trail'.rows[i] \/ \E k \in Clients : Absent(k, begun + i - 1)'
        <5>1. CASE i \in 1..Len(trail.rows)
          <6>1. trail.rows[i] \/ \E k \in Clients : Absent(k, begun + i - 1)
            BY <4>2, <5>1 DEF TrailInv
          <6> QED
            BY <3>1, <4>3, <5>1, <6>1
        <5>2. CASE i = Len(trail.rows) + 1
          <6>0. begun + Len(trail.rows) = now
            BY <4>2
          <6>1. begun + i - 1 = now
            BY <2>b, <2>c, <5>2, <6>0
          <6>2. ASSUME ~Busy PROVE \E k \in Clients : Absent(k, now)
            <7>1. PICK k \in Clients : tool[k] # "running"
              BY <6>2 DEF Busy
            <7>2. tool[k] = "ok" => now >= began[k] + Runtime
              BY <2>a, <2>b, <2>d DEF TimeInv
            <7> QED
              BY <7>1, <7>2 DEF Absent
          <6>3. Busy \/ \E k \in Clients : Absent(k, begun + i - 1)'
            BY <3>1, <6>1, <6>2
          <6> QED
            BY <4>3, <5>2, <6>3
        <5>3. i \in 1..Len(trail.rows) \/ i = Len(trail.rows) + 1
          BY <2>c, <4>3
        <5> QED
          BY <5>1, <5>2, <5>3
      <4>6. begun' + Len(trail'.rows) <= now'
        BY <2>b, <3>0, <4>4
      <4> QED
        BY <3>0, <3>3, <4>1, <4>2, <4>4, <4>5, <4>6 DEF TrailInv
    <3> QED
      BY <3>2, <3>3
  <2> QED
    BY <2>2, <2>3, <2>4, <2>5, <2>6 DEF TestNext, Script, Collectl
<1> QED
  BY <1>1, <1>2, TestTypeHolds, TimeHolds, PTL DEF TestSpec

(* The trail that is copied is complete, and does not change any more.      *)
LEMMA MetricsHold == TestSpec => []MetricsInv
<1>1. TestInit => MetricsInv
  <2> SUFFICES ASSUME TestInit PROVE MetricsInv
    OBVIOUS
  <2>1. phase = "start" /\ metrics.kind = "none"
    BY DEF TestInit, NoRows
  <2> QED
    BY <2>1 DEF MetricsInv
<1>2. TimeInv /\ MetricsInv /\ [TestNext]_testVars => MetricsInv'
  <2> SUFFICES ASSUME TimeInv, MetricsInv, [TestNext]_testVars PROVE MetricsInv'
    OBVIOUS
  <2>1. ASSUME coll = "ended" => UNCHANGED <<coll, trail, cfg>>,
               metrics' = metrics \/ metrics'.kind # "this test",
               phase' = "copy" => phase = "copy" \/ coll = "ended"
        PROVE  MetricsInv'
    BY <2>1 DEF MetricsInv, Crop, M
  <2>2. CASE Refuse \/ DryRun \/ WithoutCollectl \/ CollectlRefused \/ LaunchCollectl \/ EndMargin
    <3>1. metrics' = metrics /\ phase' # "copy"
      BY <2>2 DEF Refuse, DryRun, WithoutCollectl, CollectlRefused, LaunchCollectl, EndMargin,
                  StartTools, Proceed, Enter, output
    <3>2. UNCHANGED <<trail, cfg>> /\ (coll' = coll \/ coll = "none")
      BY <2>2 DEF Refuse, DryRun, WithoutCollectl, CollectlRefused, LaunchCollectl, EndMargin,
                  server, TimeInv
    <3> QED
      BY <2>1, <3>1, <3>2
  <2>3. CASE JoinTools \/ SaveHost \/ SaveFails \/ HostsSaved \/ AddRows \/ UNCHANGED testVars
    <3>1. metrics' = metrics /\ (phase' # "copy" \/ phase' = phase) /\ UNCHANGED <<coll, trail, cfg>>
      BY <2>3 DEF JoinTools, SaveHost, SaveFails, HostsSaved, AddRows, testVars,
                  Proceed, Enter, output, server
    <3> QED
      BY <2>1, <3>1
  <2>4. CASE CollectlDone
    <3>1. metrics' = metrics /\ coll = "ended" /\ UNCHANGED <<coll, trail, cfg>>
      BY <2>4 DEF CollectlDone, output, server
    <3> QED
      BY <2>1, <3>1
  <2>5. CASE WaitTimesOut \/ CopyFails
    <3>1. \/ metrics' = [kind |-> "timeout", rows |-> << >>]
          \/ metrics' = [kind |-> "not copied", rows |-> << >>]
      BY <2>5 DEF WaitTimesOut, CopyFails
    <3>2. metrics'.kind # "this test"
      <4>1. CASE metrics' = [kind |-> "timeout", rows |-> << >>]
        BY <4>1
      <4>2. CASE metrics' = [kind |-> "not copied", rows |-> << >>]
        BY <4>2
      <4> QED
        BY <3>1, <4>1, <4>2
    <3>3. phase' = "rows" /\ UNCHANGED <<coll, trail, cfg>>
      BY <2>5 DEF WaitTimesOut, CopyFails, Proceed, server
    <3> QED
      BY <2>1, <3>2, <3>3
  <2>6. CASE CopyTrail
    <3>1. /\ metrics'.kind = trail.of /\ metrics'.rows = Crop(trail.rows) /\ coll = "ended"
          /\ phase' = "rows" /\ UNCHANGED <<coll, trail, cfg>>
      BY <2>6 DEF CopyTrail, Proceed, server, MetricsInv
    <3>2. Crop(trail.rows)' = Crop(trail.rows)
      BY <3>1 DEF Crop, M
    <3> QED
      BY <3>1, <3>2 DEF MetricsInv
  <2>7. CASE Collectl
    <3>1. coll # "ended" /\ UNCHANGED <<metrics, phase>>
      BY <2>7 DEF Collectl, CollectlRuns, CollectlUnreachable, CollectlEnds, CollectlHangs,
                  output
    <3> QED
      BY <2>1, <3>1
  <2>8. ASSUME NEW h \in Clients, Tool(h) PROVE MetricsInv'
    <3>1. UNCHANGED <<metrics, phase, coll, trail, cfg>>
      BY <2>8 DEF Tool, ToolStarts, ToolEnds, ToolFails, ToolTimesOut, output, server
    <3> QED
      BY <2>1, <3>1
  <2>9. CASE Tick
    <3>1. UNCHANGED <<metrics, phase, coll, cfg>> /\ (coll = "ended" => trail' = trail)
      BY <2>9 DEF Tick, output
    <3> QED
      BY <2>1, <3>1
  <2> QED
    BY <2>2, <2>3, <2>4, <2>5, <2>6, <2>7, <2>8, <2>9 DEF TestNext, Script
<1> QED
  BY <1>1, <1>2, TimeHolds, PTL DEF TestSpec

-----------------------------------------------------------------------------
(* One test: its properties *)

(* aggregate_tool_results counts the hosts with a result.                   *)
LEMMA SumToCounts ==
  ASSUME NumClients \in Nat, perHost \in [1..NumClients -> 0..1]
  PROVE  SumTo[NumClients] = Cardinality({h \in 1..NumClients : perHost[h] = 1})
<1>1. \E s : s = [k \in 0..NumClients |-> IF k = 0 THEN 0 ELSE s[k - 1] + perHost[k]]
  BY SumsExist DEF IsSums
<1> DEFINE r == CHOOSE s : s = [k \in 0..NumClients |->
                                 IF k = 0 THEN 0 ELSE s[k - 1] + perHost[k]]
<1>2. IsSums(r, perHost, NumClients)
  BY <1>1 DEF IsSums
<1>3. SumTo = r
  BY DEF SumTo
<1> HIDE DEF r
<1> QED
  BY <1>2, <1>3, SumsCount

(* A test adds no row until its end, and then the ALL row, with the sum of  *)
(* the others, and one row of each client.                                  *)
THEOREM RowsWholeHolds == TestSpec => []RowsWhole
<1>1. TestType /\ RowsInv => RowsWhole
  <2> SUFFICES ASSUME TestType, RowsInv, phase = "done"
               PROVE  /\ Len(rows) = NumClients + 1
                      /\ rows[1].host = 0
                      /\ \A h \in Clients : rows[h + 1].host = h
                      /\ rows[1].n = Cardinality({h \in Clients : rows[h + 1].n = 1})
    BY DEF RowsWhole, RowsInv
  <2> DEFINE all  == [host |-> 0, n |-> SumTo[NumClients]]
             each == [h \in Clients |-> [host |-> h, n |-> perHost[h]]]
             S    == {all} \union {each[h] : h \in Clients}
  <2>1. NumClients \in Nat /\ Clients = 1..NumClients
    BY TestNumbers DEF Clients
  <2>2. rows = << all >> \o each
    BY DEF RowsInv
  <2>3. << all >> \in Seq(S) /\ Len(<< all >>) = 1 /\ << all >>[1] = all
    OBVIOUS
  <2>4. each \in Seq(S) /\ Len(each) = NumClients
    <3>1. each \in [1..NumClients -> S]
      BY <2>1
    <3> HIDE DEF each, S
    <3>2. each \in Seq(S)
      BY <2>1, <3>1, SeqDef
    <3> QED
      BY <2>1, <3>1, <3>2
  <2>5. all.host = 0 /\ all.n = SumTo[NumClients]
    OBVIOUS
  <2>6. \A h \in Clients : each[h].host = h /\ each[h].n = perHost[h]
    OBVIOUS
  <2> HIDE DEF all, each, S
  <2>7. /\ Len(rows) = 1 + NumClients
        /\ \A i \in 1 .. 1 + NumClients : rows[i] = IF i <= 1 THEN << all >>[i] ELSE each[i - 1]
    BY <2>2, <2>3, <2>4, ConcatProperties
  <2>8. rows[1] = all
    BY <2>1, <2>3, <2>7
  <2>9. \A h \in Clients : rows[h + 1] = each[h]
    <3> TAKE h \in Clients
    <3>1. h + 1 \in 1 .. 1 + NumClients /\ ~(h + 1 <= 1) /\ (h + 1) - 1 = h
      BY <2>1
    <3> QED
      BY <2>7, <3>1
  <2>10. perHost \in [1..NumClients -> 0..1]
    <3>1. perHost \in Seq(0..1) /\ Len(perHost) = NumClients
      BY DEF TestType, RowsInv
    <3> QED
      BY <3>1, LenProperties
  <2>11. {h \in Clients : rows[h + 1].n = 1} = {h \in 1..NumClients : perHost[h] = 1}
    BY <2>1, <2>6, <2>9
  <2>12. rows[1].n = Cardinality({h \in Clients : rows[h + 1].n = 1})
    BY <2>1, <2>5, <2>8, <2>10, <2>11, SumToCounts
  <2>13. Len(rows) = NumClients + 1
    BY <2>1, <2>7
  <2>14. rows[1].host = 0
    BY <2>5, <2>8
  <2>15. \A h \in Clients : rows[h + 1].host = h
    BY <2>6, <2>9
  <2> QED
    BY <2>12, <2>13, <2>14, <2>15
<1> QED
  BY <1>1, TestTypeHolds, RowsHold, PTL

(* collectl cannot be running when the wait for it is given up, unless the  *)
(* tools were done earlier than the grace makes up for.                     *)
LEMMA EndsInTime ==
  ASSUME NEW n \in Nat, NEW b \in Nat, NEW s \in Nat, NEW m \in Nat, NEW g \in Nat,
         NEW k \in Nat, NEW r \in Nat, b + k = n, k <= r + 2 * m, n = s + m + g
  PROVE  s - m + g <= r + b
  OBVIOUS

(* wait_collectl gives up only on a collectl that hangs or never began, or  *)
(* after tools that took so much less than the runtime that the grace does  *)
(* not make up for it.                                                      *)
THEOREM PatienceHolds == TestSpec => PatienceEnough
<1>1. TestType /\ TrailInv /\ [TestNext]_testVars =>
        (metrics'.kind = "timeout" /\ metrics.kind # "timeout" =>
           \/ coll \in {"hung", "connecting"}
           \/ since - M + Grace <= Runtime + begun)
  <2> SUFFICES ASSUME TestType, TrailInv, [TestNext]_testVars,
                      metrics'.kind = "timeout", metrics.kind # "timeout",
                      coll \notin {"hung", "connecting"}
               PROVE  since - M + Grace <= Runtime + begun
    OBVIOUS
  <2>1. CASE WaitTimesOut
    <3>1. coll = "running" /\ now = since + M + Grace
      BY <2>1 DEF WaitTimesOut
    <3>2. begun + Len(trail.rows) = now /\ Len(trail.rows) <= Runtime + 2 * M
      BY <3>1 DEF TrailInv, Samples
    <3>3. Grace \in Nat
      BY TestAssumption
    <3>4. now \in Nat /\ begun \in Nat /\ since \in Nat /\ M \in Nat /\ Runtime \in Nat
      BY TestNumbers
    <3>5. Len(trail.rows) \in Nat
      BY TestNumbers
    <3> QED
      BY <3>1, <3>2, <3>3, <3>4, <3>5, EndsInTime
  <2>2. CASE CopyTrail
    <3>1. metrics'.kind = trail.of
      BY <2>2 DEF CopyTrail
    <3>2. trail.of \in {"nobody", "earlier campaign", "this test"}
      BY DEF TestType
    <3> QED
      BY <3>1, <3>2
  <2>3. CASE CopyFails
    BY <2>3 DEF CopyFails
  <2>4. CASE Refuse \/ DryRun \/ WithoutCollectl \/ CollectlRefused \/ LaunchCollectl
             \/ EndMargin \/ JoinTools \/ SaveHost \/ SaveFails \/ HostsSaved \/ CollectlDone
             \/ AddRows \/ Collectl \/ (\E h \in Clients : Tool(h)) \/ Tick \/ UNCHANGED testVars
    <3>1. metrics' = metrics
      BY <2>4 DEF Refuse, DryRun, WithoutCollectl, CollectlRefused, LaunchCollectl, EndMargin,
                  JoinTools, SaveHost, SaveFails, HostsSaved, CollectlDone, AddRows, Collectl,
                  CollectlRuns, CollectlUnreachable, CollectlEnds, CollectlHangs, Tool,
                  ToolStarts, ToolEnds, ToolFails, ToolTimesOut, Tick, testVars, output
    <3> QED
      BY <3>1
  <2> QED
    BY <2>1, <2>2, <2>3, <2>4 DEF TestNext, Script
<1> QED
  BY <1>1, TestTypeHolds, TrailHolds, PTL DEF TestSpec, PatienceEnough

(* What lies outside the load at both of its ends, when the latest delay is *)
(* hi, the least lo and that of collectl b.                                 *)
Outside(F, r, lo, b, hi) == F \subseteq 1..r /\ \A j \in F : j <= hi - b \/ j > lo - b + r

(* It is as much as the two ends together.                                  *)
LEMMA OutsideLoad ==
  ASSUME NEW r \in Nat, NEW lo \in Int, NEW b \in Int, NEW hi \in Int, lo <= b, b <= hi,
         NEW F, Outside(F, r, lo, b, hi)
  PROVE  IsFiniteSet(F) /\ Cardinality(F) <= hi - lo
<1> DEFINE early == 1..(hi - b)
           late  == (lo - b + r + 1)..r
<1>1. IsFiniteSet(early) /\ Cardinality(early) = hi - b
  <2>1. IsFiniteSet(early) /\ Cardinality(early) = IF 1 > hi - b THEN 0 ELSE (hi - b) - 1 + 1
    BY FS_Interval
  <2> QED
    BY <2>1
<1>2. IsFiniteSet(late) /\ Cardinality(late) = b - lo
  <2>1. lo - b + r + 1 \in Int
    OBVIOUS
  <2>2. IsFiniteSet(late)
        /\ Cardinality(late) = IF lo - b + r + 1 > r THEN 0 ELSE r - (lo - b + r + 1) + 1
    BY <2>1, FS_Interval
  <2> QED
    BY <2>2
<1>3. F \subseteq early \union late
  BY DEF Outside
<1> HIDE DEF early, late
<1>4. /\ IsFiniteSet(early \union late)
      /\ Cardinality(early \union late)
           = Cardinality(early) + Cardinality(late) - Cardinality(early \cap late)
  BY <1>1, <1>2, FS_Union
<1>5. Cardinality(early \cap late) \in Nat
  <2>1. IsFiniteSet(early \cap late)
    BY <1>1, FS_Subset
  <2> QED
    BY <2>1, FS_CardinalityType
<1>6. IsFiniteSet(F) /\ Cardinality(F) <= Cardinality(early \union late)
  BY <1>3, <1>4, FS_Subset
<1>7. Cardinality(F) \in Nat
  BY <1>6, FS_CardinalityType
<1> QED
  BY <1>1, <1>2, <1>4, <1>5, <1>6, <1>7

(* Spread is the distance from the least delay to the latest.               *)
LEMMA SpreadIs ==
  ASSUME NEW lo \in Delays, NEW hi \in Delays, Skew \in Nat, Delays \subseteq 0..Skew,
         \A a \in Delays : lo <= a /\ a <= hi
  PROVE  Spread = hi - lo
<1> DEFINE P(d) == /\ \E a, b \in Delays : d = a - b
                   /\ \A a, b \in Delays : a - b <= d
<1>1. hi - lo \in 0..(2 * Skew) /\ P(hi - lo)
  <2>1. lo \in 0..Skew /\ hi \in 0..Skew /\ lo <= hi
    OBVIOUS
  <2>2. \A a, b \in Delays : a - b <= hi - lo
    <3> TAKE a, b \in Delays
    <3>1. a \in 0..Skew /\ b \in 0..Skew /\ a <= hi /\ lo <= b
      OBVIOUS
    <3> QED
      BY <2>1, <3>1
  <2> QED
    BY <2>1, <2>2
<1>2. Spread \in 0..(2 * Skew) /\ P(Spread)
  <2>1. Spread = CHOOSE d \in 0..(2 * Skew) : P(d)
    BY DEF Spread
  <2> HIDE DEF P
  <2> QED
    BY <1>1, <2>1
<1>3. PICK a \in Delays, b \in Delays : Spread = a - b
  BY <1>2
<1>4. hi - lo <= Spread
  BY <1>2
<1>5. a \in 0..Skew /\ b \in 0..Skew /\ lo \in 0..Skew /\ hi \in 0..Skew /\ a <= hi /\ lo <= b
  OBVIOUS
<1> QED
  BY <1>3, <1>4, <1>5

(* The crop leaves as many samples as the runtime has, from the end of the  *)
(* first margin on.                                                         *)
LEMMA CropIs ==
  ASSUME NEW s \in Seq(BOOLEAN), Len(s) = Samples, M \in Nat, Runtime \in Nat, Runtime > 0
  PROVE  Len(Crop(s)) = Runtime /\ DOMAIN Crop(s) = 1..Runtime
         /\ \A j \in 1..Runtime : Crop(s)[j] = s[j + M]
<1>1. Len(s) = Runtime + 2 * M
  BY DEF Samples
<1>2. CASE M > 0
  <2>1. Crop(s) = SubSeq(s, M + 1, Len(s) - M)
    BY <1>1, <1>2 DEF Crop
  <2>2. \A i \in M + 1 .. Len(s) - M : s[i] \in BOOLEAN
    <3>1. \A i \in M + 1 .. Len(s) - M : i \in 1..Len(s)
      BY <1>1
    <3> QED
      BY <3>1, ElementOfSeq
  <2>3. M + 1 \in Int /\ Len(s) - M \in Int /\ M + 1 <= Len(s) - M
        /\ (Len(s) - M) - (M + 1) + 1 = Runtime
    BY <1>1
  <2>4. /\ SubSeq(s, M + 1, Len(s) - M) \in Seq(BOOLEAN)
        /\ Len(SubSeq(s, M + 1, Len(s) - M)) = Runtime
        /\ \A j \in 1..Runtime : SubSeq(s, M + 1, Len(s) - M)[j] = s[M + 1 + j - 1]
    <3> DEFINE a == M + 1
               z == Len(s) - M
    <3>1. /\ SubSeq(s, a, z) \in Seq(BOOLEAN)
          /\ Len(SubSeq(s, a, z)) = IF a <= z THEN z - a + 1 ELSE 0
          /\ \A j \in 1 .. z - a + 1 : SubSeq(s, a, z)[j] = s[a + j - 1]
      BY <2>2, <2>3, SubSeqProperties
    <3> QED
      BY <2>3, <3>1
  <2>5. \A j \in 1..Runtime : M + 1 + j - 1 = j + M
    OBVIOUS
  <2> QED
    BY <2>1, <2>4, <2>5, LenProperties
<1>3. CASE M = 0
  <2>1. Crop(s) = s /\ Len(s) = Runtime
    BY <1>1, <1>3 DEF Crop
  <2>2. \A j \in 1..Runtime : j + M = j
    BY <1>3
  <2> QED
    BY <2>1, <2>2, LenProperties
<1> QED
  BY <1>2, <1>3

(* For one tool that begins at g, with a margin m.                          *)
LEMMA OutsideOne ==
  ASSUME NEW j \in Int, NEW b \in Int, NEW m \in Int, NEW g \in Int, NEW r \in Int,
         NEW lo \in Int, NEW hi \in Int, lo <= g - m, g - m <= hi,
         b + (j + m) - 1 < g \/ b + (j + m) - 1 >= g + r
  PROVE  j <= hi - b \/ j > lo - b + r
  OBVIOUS

(* Samples that were taken while a tool was absent are outside the load.    *)
LEMMA AbsentOutside ==
  ASSUME M \in Nat, Runtime \in Nat, Runtime > 0, Skew \in Nat, begun \in Nat, begun <= Skew,
         trail.rows \in Seq(BOOLEAN), Len(trail.rows) = Samples,
         metrics.rows = Crop(trail.rows),
         \A h \in Clients : began[h] \in Nat /\ M <= began[h] /\ began[h] <= M + Skew,
         \A i \in 1..Len(trail.rows) :
           \/ trail.rows[i]
           \/ \E h \in Clients : \/ begun + i - 1 < began[h]
                                 \/ begun + i - 1 >= began[h] + Runtime
  PROVE  Len(metrics.rows) = Runtime /\ NumberOf(metrics.rows, FALSE) <= Spread
<1>1. M \in Nat /\ Runtime \in Nat /\ Skew \in Nat /\ begun \in Nat /\ begun <= Skew
  OBVIOUS
<1>4. /\ Len(metrics.rows) = Runtime /\ DOMAIN metrics.rows = 1..Runtime
      /\ \A j \in 1..Runtime : metrics.rows[j] = trail.rows[j + M]
  BY <1>1, CropIs
<1>5. \A h \in Clients : /\ began[h] \in Nat /\ M <= began[h] /\ began[h] <= M + Skew
  BY <1>1
<1>6. Delays \subseteq 0..Skew /\ Delays # {} /\ begun \in Delays
      /\ \A h \in Clients : began[h] - M \in Delays
  <2>1. begun \in 0..Skew
    BY <1>1
  <2>2. \A h \in Clients : began[h] - M \in 0..Skew
    BY <1>1, <1>5
  <2> QED
    BY <2>1, <2>2 DEF Delays
<1>7. PICK lo \in Delays : \A a \in Delays : lo <= a
  <2>1. Delays \subseteq Nat
    BY <1>1, <1>6
  <2> QED
    BY <1>6, <2>1, LeastElement
<1>8. PICK hi \in Delays : \A a \in Delays : a <= hi
  BY <1>1, <1>6, GreatestElement
<1>9. Spread = hi - lo
  BY <1>1, <1>6, <1>7, <1>8, SpreadIs
<1> DEFINE F == {j \in 1..Runtime : metrics.rows[j] = FALSE}
<1>10. ASSUME NEW j \in F PROVE j <= hi - begun \/ j > lo - begun + Runtime
  <2>1. j \in 1..Runtime /\ trail.rows[j + M] = FALSE
    BY <1>4
  <2>2. j + M \in 1..Len(trail.rows)
    <3>1. Len(trail.rows) = Runtime + 2 * M
      BY DEF Samples
    <3> QED
      BY <1>1, <2>1, <3>1
  <2>3. PICK h \in Clients : \/ begun + (j + M) - 1 < began[h]
                             \/ begun + (j + M) - 1 >= began[h] + Runtime
    BY <2>1, <2>2
  <2>5. lo <= began[h] - M /\ began[h] - M <= hi
    BY <1>6, <1>7, <1>8
  <2>6. lo \in Int /\ hi \in Int /\ began[h] \in Int
    BY <1>5, <1>6
  <2> QED
    <3>1. j \in Int
      BY <1>1, <2>1
    <3> QED
      BY <1>1, <2>3, <2>5, <2>6, <3>1, OutsideOne
<1>11. lo \in Int /\ hi \in Int /\ lo <= begun /\ begun <= hi
  BY <1>6, <1>7, <1>8
<1>12. F \subseteq 1..Runtime
  OBVIOUS
<1>13. NumberOf(metrics.rows, FALSE) = Cardinality(F)
  BY <1>4 DEF NumberOf
<1> HIDE DEF F
<1>14. Outside(F, Runtime, lo, begun, hi)
  BY <1>10, <1>12 DEF Outside
<1>15. IsFiniteSet(F) /\ Cardinality(F) <= hi - lo
  <2>1. begun \in Int
    BY <1>1
  <2> QED
    BY <1>1, <1>11, <1>14, <2>1, OutsideLoad
<1> QED
  BY <1>4, <1>9, <1>13, <1>15

(* The resource figures of a row come from the load of that row: of the     *)
(* samples kept, as many as the runtime has, only those were not taken      *)
(* under load by which collectl and the tools began apart.                  *)
THEOREM SamplesFromLoadHolds ==
  ASSUME Runtime > 0
  PROVE  TestSpec => []SamplesFromLoad
<1>1. TestType /\ TimeInv /\ TrailInv /\ MetricsInv => SamplesFromLoad
  <2> SUFFICES ASSUME TestType, TimeInv, TrailInv, MetricsInv,
                      phase = "done", metrics.kind = "this test", Len(trail.rows) = Samples,
                      \A h \in Clients : tool[h] = "ok"
               PROVE  Len(metrics.rows) = Runtime /\ NumberOf(metrics.rows, FALSE) <= Spread
    BY DEF SamplesFromLoad
  <2>1. M \in Nat /\ Runtime \in Nat /\ Skew \in Nat /\ begun \in Nat /\ begun <= Skew
    BY TestNumbers
  <2>2. trail.rows \in Seq(BOOLEAN) /\ began \in [Clients -> Nat]
    BY TestNumbers
  <2>3. coll = "ended" /\ trail.of = "this test" /\ metrics.rows = Crop(trail.rows)
    BY DEF MetricsInv
  <2>4. \A h \in Clients : began[h] \in Nat /\ M <= began[h] /\ began[h] <= M + Skew
    BY <2>2, <2>3 DEF TimeInv
  <2>5. \A i \in 1..Len(trail.rows) :
          \/ trail.rows[i]
          \/ \E h \in Clients : \/ begun + i - 1 < began[h]
                                \/ begun + i - 1 >= began[h] + Runtime
    <3>1. \A i \in 1..Len(trail.rows) :
            trail.rows[i] \/ \E h \in Clients : Absent(h, begun + i - 1)
      BY <2>3 DEF TrailInv
    <3> QED
      BY <3>1 DEF Absent
  <2>6. metrics.rows = Crop(trail.rows) /\ trail.rows \in Seq(BOOLEAN)
    BY <2>2, <2>3
  <2> QED
    BY <2>1, <2>4, <2>5, <2>6, AbsentOutside
<1> QED
  BY <1>1, TestTypeHolds, TimeHolds, TrailHolds, MetricsHold, PTL
=============================================================================
