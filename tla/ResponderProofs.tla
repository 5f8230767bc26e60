--------------------------- MODULE ResponderProofs ---------------------------
(***************************************************************************)
(* Proofs about the life of a dns_responder process, for any number of     *)
(* queues, any duration, and whichever call fails: no queue is released    *)
(* under a running thread, the reported counters are final, an exit leaves *)
(* nothing behind, zero-copy is honoured and the main thread's steps are   *)
(* bounded.                                                                *)
(***************************************************************************)
EXTENDS Responder, TLAPS

Building == {"umem", "socket", "register"}
Early    == {"load", "bind"} \union Building

Ready(k) == /\ umem[k] = "live" /\ area[k] = "live"
            /\ sock[k] \in {"copy", "zerocopy"}
            /\ k \in filled

Released(k) == /\ sock[k] \in {"none", "closed"}
               /\ umem[k] # "live" /\ area[k] # "live"

(* The setup loop: the queues before q are complete, those after it have no *)
(* socket, and q is as far as the main thread has come with it.             *)
SetUpInOrder ==
  /\ pc \in {"load", "bind"} =>
       \A k \in Queues : umem[k] = "none" /\ area[k] = "none" /\ sock[k] = "none"
  /\ pc \in Building => \A k \in Queues : /\ k < q => Ready(k)
                                          /\ k > q => sock[k] = "none"
  /\ pc \in {"umem", "socket"} => sock[q] = "none"
  /\ pc \in {"socket", "register"} => umem[q] = "live" /\ area[q] = "live"
  /\ pc = "register" => sock[q] \in {"copy", "zerocopy"}
  /\ pc = "launch" => \A k \in Queues : Ready(k)

(* bind_flags while sockets are made. *)
BindRight ==
  pc \in Building =>
    /\ bind \in {"copy", "zerocopy"}
    /\ cfg.zerocopy = 2 => bind = "zerocopy"
    /\ xdp = "skb" => bind = "copy"
    /\ \A k \in Queues : sock[k] = "copy" => bind = "copy"

(* A thread has its handle; none runs before the launch loop reaches its    *)
(* queue, nor after the join loop has passed it.                            *)
ThreadsInOrder ==
  /\ \A k \in Queues : thread[k] # "none" => handle[k] = "thread"
  /\ pc \in Early => \A k \in Queues : thread[k] = "none"
  /\ pc = "launch" => \A k \in Queues : k >= q => thread[k] = "none"
  /\ pc = "join" => \A k \in Queues : k < q => thread[k] # "running"
  /\ pc \in {"collect", "release", "detach", "exit"} =>
       \A k \in Queues : thread[k] # "running"

(* Nothing is reported before the threads run. *)
NoReportYet ==
  pc \in Early \union {"launch"} => \A k \in Queues : reported[k] = -1

(* The release loop. *)
ReleasedInOrder ==
  /\ pc = "release" => \A k \in Queues : k < q => Released(k)
  /\ pc \in {"detach", "exit"} => \A k \in Queues : Released(k)
  /\ pc = "exit" => xdp = "none"

(* The inductive invariant. *)
Inv == /\ TypeOK /\ SetUpInOrder /\ BindRight /\ ThreadsInOrder /\ NoReportYet
       /\ ReleasedInOrder
       /\ WorkersOwnLiveQueues /\ ReportIsFinal /\ ZeroCopyHonoured

-----------------------------------------------------------------------------
(* The invariant holds when the process starts. *)
LEMMA InitInv == Init => Inv
<1> SUFFICES ASSUME Init PROVE Inv
  OBVIOUS
<1> USE ResponderAssumption DEF Init
<1>1. TypeOK
  BY DEF TypeOK, Queues, Over
<1>2. SetUpInOrder /\ BindRight /\ ThreadsInOrder /\ NoReportYet /\ ReleasedInOrder
  BY DEF SetUpInOrder, BindRight, ThreadsInOrder, NoReportYet, ReleasedInOrder,
         Building, Early
<1>3. WorkersOwnLiveQueues /\ ReportIsFinal /\ ZeroCopyHonoured
  BY DEF WorkersOwnLiveQueues, ReportIsFinal, ZeroCopyHonoured
<1> QED
  BY <1>1, <1>2, <1>3 DEF Inv

(* No step leaves the types. *)
LEMMA TypeStep == TypeOK /\ [Next]_vars => TypeOK'
<1> SUFFICES ASSUME TypeOK, [Next]_vars PROVE TypeOK'
  OBVIOUS
<1> USE ResponderAssumption
    DEF TypeOK, Queues, Over, Goto, queues, workers, flags
<1>1. CASE LoadXdp
  BY <1>1 DEF LoadXdp
<1>2. CASE LoadFails
  BY <1>2 DEF LoadFails
<1>3. CASE ChooseBind
  BY <1>3 DEF ChooseBind, BindMode
<1>4. CASE BindFails
  BY <1>4 DEF BindFails
<1>5. CASE UmemInit
  BY <1>5 DEF UmemInit
<1>6. CASE UmemInitFails
  BY <1>6 DEF UmemInitFails
<1>7. CASE SocketInit
  BY <1>7 DEF SocketInit
<1>8. CASE FallBack
  BY <1>8 DEF FallBack
<1>9. CASE SocketFails
  BY <1>9 DEF SocketFails
<1>10. CASE Register
  BY <1>10 DEF Register, NextQueue
<1>11. CASE RegisterFails
  BY <1>11 DEF RegisterFails
<1>12. CASE CreateThread
  BY <1>12 DEF CreateThread, NextQueue
<1>13. CASE CreateFails
  <2>1. running' \in BOOLEAN
    BY <1>13, Zenon DEF CreateFails
  <2> QED
    BY <1>13, <2>1 DEF CreateFails
<1>14. CASE Sleep
  BY <1>14 DEF Sleep
<1>15. CASE DurationOver
  <2>1. running' \in BOOLEAN
    BY <1>15, Zenon DEF DurationOver
  <2> QED
    BY <1>15, <2>1 DEF DurationOver
<1>16. CASE TestRunning
  BY <1>16 DEF TestRunning
<1>17. CASE Pause
  BY <1>17 DEF Pause
<1>18. CASE Join
  BY <1>18 DEF Join, NextQueue
<1>19. CASE JoinCrashes
  BY <1>19 DEF JoinCrashes
<1>20. CASE Collect
  BY <1>20 DEF Collect, NextQueue
<1>21. CASE CollectFails
  BY <1>21 DEF CollectFails
<1>22. CASE Release
  BY <1>22 DEF Release, NextQueue, ReleaseOf
<1>23. CASE Detach
  BY <1>23 DEF Detach
<1>24. ASSUME NEW k \in Queues, Count(k) PROVE TypeOK'
  BY <1>24 DEF Count
<1>27. ASSUME NEW k \in Queues, Return(k) PROVE TypeOK'
  BY <1>27 DEF Return
<1>25. CASE Signal
  <2>1. running' \in BOOLEAN
    BY <1>25, Zenon DEF Signal
  <2> QED
    BY <1>25, <2>1 DEF Signal
<1>26. CASE UNCHANGED vars
  BY <1>26 DEF vars
<1> QED
  BY <1>1, <1>2, <1>3, <1>4, <1>5, <1>6, <1>7, <1>8, <1>9, <1>10, <1>11, <1>12, <1>13, <1>14, <1>15, <1>16, <1>17, <1>18, <1>19, <1>20, <1>21, <1>22, <1>23, <1>24, <1>25, <1>26, <1>27 DEF Next, Main

(* Every step keeps the invariant. *)
LEMMA InvStep == Inv /\ [Next]_vars => Inv'
<1> SUFFICES ASSUME Inv, [Next]_vars PROVE Inv'
  OBVIOUS
<1>0. TypeOK /\ TypeOK'
  BY TypeStep DEF Inv
<1> USE <1>0, ResponderAssumption
    DEF Inv, SetUpInOrder, BindRight, ThreadsInOrder, NoReportYet, ReleasedInOrder,
        WorkersOwnLiveQueues, ReportIsFinal, ZeroCopyHonoured, TypeOK,
        Building, Early, Ready, Released, Queues, Over, Goto, queues, workers, flags
<1>1. CASE LoadXdp
  BY <1>1 DEF LoadXdp
<1>2. CASE LoadFails
  BY <1>2 DEF LoadFails
<1>3. CASE ChooseBind
  BY <1>3 DEF ChooseBind, BindMode
<1>4. CASE BindFails
  BY <1>4 DEF BindFails
<1>5. CASE UmemInit
  BY <1>5 DEF UmemInit
<1>6. CASE UmemInitFails
  BY <1>6 DEF UmemInitFails
<1>7. CASE SocketInit
  <2>1. SetUpInOrder' /\ BindRight'
    BY <1>7 DEF SocketInit
  <2>2. ThreadsInOrder' /\ NoReportYet' /\ ReleasedInOrder'
    BY <1>7 DEF SocketInit
  <2>3. WorkersOwnLiveQueues' /\ ReportIsFinal'
    BY <1>7 DEF SocketInit
  <2>4. ZeroCopyHonoured'
    BY <1>7 DEF SocketInit
  <2> QED
    BY <2>1, <2>2, <2>3, <2>4
<1>8. CASE FallBack
  BY <1>8 DEF FallBack
<1>9. CASE SocketFails
  BY <1>9 DEF SocketFails
<1>10. CASE Register
  BY <1>10 DEF Register, NextQueue
<1>11. CASE RegisterFails
  BY <1>11 DEF RegisterFails
<1>12. CASE CreateThread
  BY <1>12 DEF CreateThread, NextQueue
<1>13. CASE CreateFails
  BY <1>13 DEF CreateFails
<1>14. CASE Sleep
  BY <1>14 DEF Sleep
<1>15. CASE DurationOver
  BY <1>15 DEF DurationOver
<1>16. CASE TestRunning
  BY <1>16 DEF TestRunning
<1>17. CASE Pause
  BY <1>17 DEF Pause
<1>18. CASE Join
  BY <1>18 DEF Join, NextQueue
<1>19. CASE JoinCrashes
  BY <1>19 DEF JoinCrashes
<1>20. CASE Collect
  BY <1>20 DEF Collect, NextQueue
<1>21. CASE CollectFails
  BY <1>21 DEF CollectFails
<1>22. CASE Release
  BY <1>22 DEF Release, NextQueue, ReleaseOf
<1>23. CASE Detach
  BY <1>23 DEF Detach
<1>24. ASSUME NEW k \in Queues, Count(k) PROVE Inv'
  <2>1. reported[k] = -1 /\ UNCHANGED <<thread, reported>>
    BY <1>24 DEF Count
  <2>2. \A j \in Queues : j # k => seen'[j] = seen[j]
    BY <1>24 DEF Count
  <2>3. ReportIsFinal'
    BY <2>1, <2>2
  <2>4. SetUpInOrder' /\ BindRight' /\ ThreadsInOrder' /\ NoReportYet' /\ ReleasedInOrder'
    BY <1>24 DEF Count
  <2>5. WorkersOwnLiveQueues' /\ ZeroCopyHonoured'
    BY <1>24 DEF Count
  <2> QED
    BY <2>3, <2>4, <2>5
<1>27. ASSUME NEW k \in Queues, Return(k) PROVE Inv'
  BY <1>27 DEF Return
<1>25. CASE Signal
  BY <1>25 DEF Signal
<1>26. CASE UNCHANGED vars
  BY <1>26 DEF vars
<1> QED
  BY <1>1, <1>2, <1>3, <1>4, <1>5, <1>6, <1>7, <1>8, <1>9, <1>10, <1>11, <1>12, <1>13, <1>14, <1>15, <1>16, <1>17, <1>18, <1>19, <1>20, <1>21, <1>22, <1>23, <1>24, <1>25, <1>26, <1>27 DEF Next, Main

(* Spec keeps the invariant. *)
LEMMA InvAlways == Spec => []Inv
  BY InitInv, InvStep, PTL DEF Spec

(* No thread is left running on a queue that is not set up, or is released. *)
THEOREM WorkersSafe == Spec => []WorkersOwnLiveQueues
<1>1. Inv => WorkersOwnLiveQueues
  BY DEF Inv
<1> QED
  BY <1>1, InvAlways, PTL

(* A reported counter is the last value of a thread that no longer runs.    *)
THEOREM ReportSafe == Spec => []ReportIsFinal
<1>1. Inv => ReportIsFinal
  BY DEF Inv
<1> QED
  BY <1>1, InvAlways, PTL

(* A process that exits has released every queue, thread and program.       *)
THEOREM ExitClean == Spec => []NothingLeftBehind
<1>1. Inv => NothingLeftBehind
  BY DEF Inv, ThreadsInOrder, ReleasedInOrder, Released, NothingLeftBehind
<1> QED
  BY <1>1, InvAlways, PTL

(* Forced zero-copy is never given up, and sockets fall back in a suffix.   *)
THEOREM ZeroCopySafe == Spec => []ZeroCopyHonoured
<1>1. Inv => ZeroCopyHonoured
  BY DEF Inv
<1> QED
  BY <1>1, InvAlways, PTL

-----------------------------------------------------------------------------
(* The process ends, as far as safety goes: a bound on the steps that the   *)
(* main thread has left.                                                    *)

(* From the join on; from the launch of the threads on.                     *)
FromJoin   == 3 * NumQueues + 1
FromLaunch == FromJoin + NumQueues + remaining + 5

(* A socket that is refused zero-copy is tried once more. *)
Retries == IF bind = "zerocopy" THEN 1 ELSE 0

(* The steps left, with k more queues after the one the loop is at. *)
StepsFrom(label, k) ==
  CASE label = "load"     -> FromLaunch + 3 * NumQueues + 2
    [] label = "bind"     -> FromLaunch + 3 * NumQueues + 1
    [] label = "umem"     -> FromLaunch + 3 * k + 2 + Retries
    [] label = "socket"   -> FromLaunch + 3 * k + 1 + Retries
    [] label = "register" -> FromLaunch + 3 * k + Retries
    [] label = "launch"   -> FromLaunch - NumQueues + k
    [] label = "wait"     -> FromJoin + (IF running THEN remaining + 4 ELSE 1)
    [] label = "pause"    -> FromJoin + 3
    [] label = "paused"   -> FromJoin + 2
    [] label = "join"     -> 2 * NumQueues + 2 + k
    [] label = "collect"  -> NumQueues + 2 + k
    [] label = "release"  -> 2 + k
    [] label = "detach"   -> 1
    [] label \in Over     -> 0

StepsLeft == StepsFrom(pc, NumQueues - q)

(* What the bounds speak of. *)
LEMMA Numbers ==
  ASSUME TypeOK
  PROVE  /\ NumQueues \in Nat /\ q \in Nat /\ q > 0 /\ q <= NumQueues
         /\ remaining \in Nat /\ Retries \in 0..1
  BY ResponderAssumption DEF TypeOK, Queues, Retries

(* There is a step left unless the process is over. *)
LEMMA StepsLeftAre ==
  ASSUME TypeOK
  PROVE  StepsLeft \in Nat /\ (StepsLeft = 0 => pc \in Over)
<1> DEFINE k == NumQueues - q
<1>1. k \in Nat /\ NumQueues \in Nat /\ remaining \in Nat /\ Retries \in 0..1
  BY Numbers
<1> HIDE DEF k
<1>2. StepsFrom(pc, k) \in Nat /\ (StepsFrom(pc, k) = 0 => pc \in Over)
  BY <1>1 DEF StepsFrom, FromLaunch, FromJoin, TypeOK, Over
<1> QED
  BY <1>2 DEF StepsLeft, k

(* Every step of the main thread leaves fewer. *)
LEMMA StepsFewer ==
  ASSUME TypeOK, TypeOK', Main
  PROVE  StepsLeft' < StepsLeft
<1> USE DEF StepsLeft, StepsFrom, FromLaunch, FromJoin, Over, Goto, NextQueue
<1>0. /\ NumQueues \in Nat /\ q \in Nat /\ q > 0 /\ q <= NumQueues
      /\ remaining \in Nat /\ Retries \in 0..1 /\ Retries' \in 0..1
  BY Numbers DEF Retries
<1>1. CASE LoadXdp        BY <1>0, <1>1 DEF LoadXdp
<1>2. CASE LoadFails      BY <1>0, <1>2 DEF LoadFails
<1>3. CASE ChooseBind     BY <1>0, <1>3 DEF ChooseBind
<1>4. CASE BindFails      BY <1>0, <1>4 DEF BindFails
<1>5. CASE UmemInit       BY <1>0, <1>5 DEF UmemInit, Retries
<1>6. CASE UmemInitFails  BY <1>0, <1>6 DEF UmemInitFails
<1>7. CASE SocketInit     BY <1>0, <1>7 DEF SocketInit, Retries
<1>8. CASE FallBack       BY <1>0, <1>8 DEF FallBack, Retries
<1>9. CASE SocketFails    BY <1>0, <1>9 DEF SocketFails
<1>10. CASE Register      BY <1>0, <1>10 DEF Register, Retries
<1>11. CASE RegisterFails BY <1>0, <1>11 DEF RegisterFails
<1>12. CASE CreateThread  BY <1>0, <1>12 DEF CreateThread
<1>13. CASE CreateFails   BY <1>0, <1>13 DEF CreateFails
<1>14. CASE Sleep         BY <1>0, <1>14 DEF Sleep, flags
<1>15. CASE DurationOver  BY <1>0, <1>15 DEF DurationOver
<1>16. CASE TestRunning   BY <1>0, <1>16 DEF TestRunning
<1>17. CASE Pause         BY <1>0, <1>17 DEF Pause
<1>18. CASE Join          BY <1>0, <1>18 DEF Join
<1>19. CASE JoinCrashes   BY <1>0, <1>19 DEF JoinCrashes
<1>20. CASE Collect       BY <1>0, <1>20 DEF Collect
<1>21. CASE CollectFails  BY <1>0, <1>21 DEF CollectFails
<1>22. CASE Release       BY <1>0, <1>22 DEF Release
<1>23. CASE Detach        BY <1>0, <1>23 DEF Detach
<1> QED
  BY <1>1, <1>2, <1>3, <1>4, <1>5, <1>6, <1>7, <1>8, <1>9, <1>10, <1>11, <1>12, <1>13,
     <1>14, <1>15, <1>16, <1>17, <1>18, <1>19, <1>20, <1>21, <1>22, <1>23 DEF Main

(* A signal and the workers never leave more. *)
LEMMA OthersFewer ==
  ASSUME TypeOK, Signal \/ \E k \in Queues : Count(k) \/ Return(k)
  PROVE  StepsLeft' <= StepsLeft
<1>1. /\ NumQueues \in Nat /\ q \in Nat /\ q > 0 /\ q <= NumQueues
      /\ remaining \in Nat /\ Retries \in 0..1 /\ StepsLeft \in Nat
  BY Numbers, StepsLeftAre
<1>2. CASE Signal
  <2>1. UNCHANGED <<q, bind, remaining>> /\ ~running'
    BY <1>2 DEF Signal
  <2>2. CASE pc = "paused" /\ pc' = "wait"
    BY <1>1, <2>1, <2>2 DEF StepsLeft, StepsFrom, FromJoin, Over
  <2>3. CASE pc = "wait" /\ pc' = "wait"
    BY <1>1, <2>1, <2>3 DEF StepsLeft, StepsFrom, FromJoin, Over
  <2>4. CASE pc # "wait" /\ pc' = pc
    <3>1. StepsLeft' = StepsLeft
      BY <2>1, <2>4 DEF StepsLeft, StepsFrom, FromLaunch, FromJoin, Retries
    <3> QED
      BY <1>1, <3>1
  <2> QED
    BY <1>2, <2>2, <2>3, <2>4 DEF Signal
<1>3. ASSUME NEW k \in Queues, Count(k) \/ Return(k)
      PROVE  StepsLeft' <= StepsLeft
  <2>1. UNCHANGED <<pc, q, bind, remaining, running>>
    BY <1>3 DEF Count, Return, flags
  <2>2. StepsLeft' = StepsLeft
    BY <2>1 DEF StepsLeft, StepsFrom, FromLaunch, FromJoin, Retries
  <2> QED
    BY <1>1, <2>2
<1> QED
  BY <1>2, <1>3

(* The main thread takes 7 * NumQueues + 8 steps and one for each second of *)
(* the duration at most, whichever call fails and whenever a signal comes:  *)
(* each leaves fewer, workers and signals never leave more, and none is     *)
(* left only when the process is over.  No retry of a socket, no wake-up    *)
(* from a pause and no error path goes round for ever.                      *)
THEOREM ProcessBounded ==
  Spec => /\ StepsLeft = 7 * NumQueues + cfg.duration + 8
          /\ [](StepsLeft \in Nat /\ (StepsLeft = 0 => pc \in Over))
          /\ [][IF Main THEN StepsLeft' < StepsLeft ELSE StepsLeft' <= StepsLeft]_vars
<1>1. Init => StepsLeft = 7 * NumQueues + cfg.duration + 8
  <2> SUFFICES ASSUME Init PROVE StepsLeft = 7 * NumQueues + cfg.duration + 8
    OBVIOUS
  <2>1. cfg.duration \in Nat /\ NumQueues \in Nat
    BY ResponderAssumption DEF Init
  <2>2. pc = "load" /\ remaining = cfg.duration
    BY DEF Init
  <2> QED
    BY <2>1, <2>2 DEF StepsLeft, StepsFrom, FromLaunch, FromJoin, Over
<1>2. Inv => StepsLeft \in Nat /\ (StepsLeft = 0 => pc \in Over)
  BY StepsLeftAre DEF Inv
<1>3. Inv /\ Inv' /\ [Next]_vars =>
        [IF Main THEN StepsLeft' < StepsLeft ELSE StepsLeft' <= StepsLeft]_vars
  BY StepsFewer, OthersFewer DEF Inv, Next
<1> QED
  BY <1>1, <1>2, <1>3, InvAlways, PTL DEF Spec

=============================================================================
