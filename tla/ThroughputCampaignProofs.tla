---------------------- MODULE ThroughputCampaignProofs ----------------------
(***************************************************************************)
(* Proofs about the throughput campaigns, for any clients and any number   *)
(* of runs: whose statistics a row holds although all runs share one file, *)
(* that a row waits for the tool of every client, and a bound on the steps *)
(* of the script.                                                          *)
(***************************************************************************)
EXTENDS ThroughputCampaign, TLAPS

(* No responder before its run; after it, one that may still end was left   *)
(* to itself.                                                               *)
RespondersInOrder ==
  /\ \A r \in Runs : r > run => resp[r] = "none"
  /\ \A r \in Runs : r < run => resp[r] \in {"none"} \union Exited \/ r \in abandoned
  /\ pc = "start" => resp[run] = "none"
  /\ pc \in {"scp", "stamps", "rows"} => resp[run] \in Exited
  /\ pc \in {"pause", "finished"} =>
       resp[run] \in {"none"} \union Exited \/ run \in abandoned

(* A copy is what the run's responder wrote, unless one left to itself came *)
(* in between.                                                              *)
CopyKnown(f) ==
  /\ copy[f] \in Runs
  /\ copy[f] = run \/ f \notin wrote[run] \/ copy[f] \in abandoned

(* A file that the run's responder has written is its own, unless one left  *)
(* to itself has written it since.                                          *)
FileKnown ==
  /\ \A r \in Runs : resp[r] = "none" => wrote[r] = {}
  /\ \A f \in wrote[run] : file[f] = run \/ file[f] \in abandoned
  /\ pc = "stamps" => accuracy /\ CopyKnown("output")
  /\ pc = "rows" => \A f \in Needed : CopyKnown(f)

(* The tools of a run that goes on to its rows have all ended. *)
ToolsOver ==
  /\ pc = "collect" => \A h \in Hosts : client[h] # "idle"
  /\ pc \in {"wait", "scp", "stamps", "rows"} =>
       \A h \in Hosts : client[h] \notin Unreturned \union {"idle"}

(* The responder of a run with a row has ended. *)
RowsOver == \A row \in rows : resp[row.run] \in Exited

(* The inductive invariant. *)
Inv == /\ TypeOK /\ RespondersInOrder /\ FileKnown /\ ToolsOver /\ RowsOver
       /\ FreshIfServed /\ RowsComplete

-----------------------------------------------------------------------------
(* The invariant holds when the campaign starts. *)
LEMMA InitInv == Init => Inv
  BY ThroughputAssumption
     DEF Init, Inv, TypeOK, RespondersInOrder, FileKnown, ToolsOver, RowsOver,
         FreshIfServed, RowsComplete, Runs, NoRun, Exited, Files, Outcomes, Unreturned

(* Rows are those of runs. *)
LEMMA RowRuns == TypeOK => \A row \in rows : row.run \in Runs
  BY DEF TypeOK, Row

(* Runs are numbers, one before the other. *)
LEMMA RunsOrdered ==
  ASSUME run \in Runs
  PROVE  \A r \in Runs : /\ r > run \/ r < run => r # run
                         /\ r = run \/ r < run \/ r > run
  BY ThroughputAssumption DEF Runs

(* What comes before and after the next run. *)
OrderKept == \A r \in Runs : /\ r > run' => r > run
                             /\ r < run' => r < run \/ r = run
                             /\ r = run' /\ pc' = "start" => r > run

(* The next run stands behind the last one and all before it. *)
LEMMA NextRunOrder ==
  ASSUME run \in Runs,
         \/ pc' = "start" /\ run' = run + 1 /\ run < NumRuns
         \/ pc' = "finished" /\ run' = run
  PROVE  run' \in Runs /\ OrderKept
  BY ThroughputAssumption DEF Runs, OrderKept

(* A step of the script keeps the invariant. *)
LEMMA ScriptStep == Inv /\ Script => Inv'
<1> SUFFICES ASSUME Inv, Script PROVE Inv'
  OBVIOUS
<1> USE DEF Inv, TypeOK, RespondersInOrder, FileKnown, CopyKnown, ToolsOver, RowsOver,
            FreshIfServed, RowsComplete, Exited, Goto, server
<1>1. CASE StartSession
  <2>1. TypeOK'
    BY <1>1 DEF StartSession, Runs
  <2>2. /\ \A r \in Runs : r # run => resp'[r] = resp[r]
        /\ run' = run /\ pc' = "tools" /\ resp[run] = "none"
        /\ UNCHANGED <<accuracy, file, wrote, copy, client, abandoned, rows>>
        /\ run \in 1..NumRuns
    BY <1>1 DEF StartSession, Runs
  <2>3. RespondersInOrder'
    <3>1. \A r \in Runs : r > run \/ r < run => r # run
      BY RunsOrdered
    <3> QED
      BY <2>2, <3>1
  <2>4. FileKnown'
    <3>1. \A r \in Runs : resp'[r] = "none" => resp[r] = "none"
      BY <2>2
    <3> QED
      BY <2>2, <3>1
  <2>5. ToolsOver' /\ FreshIfServed' /\ RowsComplete'
    BY <2>2 DEF Needed
  <2>6. RowsOver'
    BY <2>2, RowRuns
  <2> QED
    BY <2>1, <2>3, <2>4, <2>5, <2>6
<1>2. CASE SessionFails
  BY <1>2 DEF SessionFails, Needed
<1>3. CASE StartTools
  BY <1>3 DEF StartTools, Needed, Outcomes, Unreturned
<1>4. CASE SaveOutputs
  BY <1>4 DEF SaveOutputs, Needed, Unreturned
<1>5. CASE WaitResponder
  BY <1>5 DEF WaitResponder, Needed
<1>6. CASE WaitTimesOut
  BY <1>6 DEF WaitTimesOut, Needed
<1>7. ASSUME NEW f \in Files, file[f] # NoRun, copy' = [copy EXCEPT ![f] = file[f]]
      PROVE  /\ copy' \in [Files -> Runs \union {NoRun}]
             /\ copy'[f] \in Runs
             /\ copy'[f] = run \/ f \notin wrote[run] \/ copy'[f] \in abandoned
             /\ \A g \in Files : g # f => copy'[g] = copy[g]
  BY <1>7
<1>8. CASE CopyOutput
  <2>1. /\ pc = "scp" /\ pc' = (IF accuracy THEN "stamps" ELSE "rows")
        /\ "output" \in Files /\ file["output"] # NoRun
        /\ copy' = [copy EXCEPT !["output"] = file["output"]]
        /\ UNCHANGED <<run, accuracy, resp, file, wrote, client, abandoned, rows>>
    BY <1>8 DEF CopyOutput, Copy, Files
  <2>2. TypeOK' /\ CopyKnown("output")'
    BY <2>1, <1>7
  <2>3. FileKnown'
    BY <2>1, <2>2 DEF Needed
  <2> QED
    BY <2>1, <2>2, <2>3 DEF Needed
<1>9. CASE CopyTimestamps
  <2>1. /\ pc = "stamps" /\ pc' = "rows"
        /\ "timestamps" \in Files /\ "output" \in Files /\ file["timestamps"] # NoRun
        /\ copy' = [copy EXCEPT !["timestamps"] = file["timestamps"]]
        /\ UNCHANGED <<run, accuracy, resp, file, wrote, client, abandoned, rows>>
    BY <1>9 DEF CopyTimestamps, Copy, Files
  <2>2. TypeOK' /\ CopyKnown("timestamps")'
    BY <2>1, <1>7
  <2>3. CopyKnown("output")'
    <3>1. copy'["output"] = copy["output"]
      BY <2>1, <1>7
    <3> QED
      BY <2>1, <3>1
  <2>4. FileKnown'
    BY <2>1, <2>2, <2>3 DEF Needed, Files
  <2> QED
    BY <2>1, <2>2, <2>4 DEF Needed
<1>10. CASE CopyFails
  BY <1>10 DEF CopyFails, Needed
<1>11. CASE AddRows
  <2> DEFINE new == [run |-> run, source |-> copy, clients |-> client]
  <2>1. /\ rows' = rows \union {new} /\ pc = "rows" /\ pc' = "pause"
        /\ UNCHANGED <<run, accuracy, resp, file, wrote, client, abandoned>>
        /\ copy' \in [Files -> Runs \union {NoRun}]
    BY <1>11 DEF AddRows, TimestampsRead, Files
  <2>2. new \in Row
    BY <2>1 DEF Row
  <2>3. new.run = run /\ new.source = copy /\ new.clients = client
    OBVIOUS
  <2> HIDE DEF new
  <2>4. TypeOK' /\ RespondersInOrder' /\ FileKnown' /\ ToolsOver' /\ RowsOver'
    BY <2>1, <2>2, <2>3
  <2>5. FreshIfServed'
    BY <2>1, <2>3 DEF Needed
  <2>6. RowsComplete'
    BY <2>1, <2>3
  <2> QED
    BY <2>4, <2>5, <2>6
<1>12. CASE RowsFail
  <2>1. /\ pc = "rows" /\ pc' = "pause"
        /\ UNCHANGED <<run, accuracy, resp, file, wrote, client, abandoned, rows>>
        /\ copy' \in [Files -> Runs \union {NoRun}]
    BY <1>12 DEF RowsFail, TimestampsRead, Files
  <2> QED
    BY <2>1 DEF Needed
<1>13. CASE NextRun
  <2>1. run \in Runs
    OBVIOUS
  <2>2. /\ pc = "pause"
        /\ UNCHANGED <<accuracy, resp, file, wrote, copy, client, abandoned, rows>>
        /\ \/ pc' = "start" /\ run' = run + 1 /\ run < NumRuns
           \/ pc' = "finished" /\ run' = run
    BY <1>13 DEF NextRun
  <2>3. run' \in Runs
    BY <2>1, <2>2, NextRunOrder
  <2>4. TypeOK'
    BY <2>2, <2>3
  <2>5. OrderKept
    BY <2>1, <2>2, NextRunOrder
  <2>6. RespondersInOrder'
    BY <2>2, <2>3, <2>5 DEF OrderKept
  <2>7. pc' = "start" => resp'[run'] = "none"
    BY <2>2, <2>3, <2>5 DEF OrderKept
  <2>8. FileKnown' /\ ToolsOver' /\ RowsOver'
    BY <2>2, <2>3, <2>7
  <2>9. FreshIfServed' /\ RowsComplete'
    BY <2>2 DEF Needed
  <2> QED
    BY <2>4, <2>6, <2>8, <2>9
<1> QED
  BY <1>1, <1>2, <1>3, <1>4, <1>5, <1>6, <1>8, <1>9, <1>10, <1>11, <1>12, <1>13
     DEF Script, Working, Copying

(* A file written, or not, by a responder that has not ended keeps what is  *)
(* known of the files, the copies and the rows.                             *)
LEMMA WritingKnown ==
  ASSUME Inv, NEW r \in Runs, NEW f \in Files, Writes(r, f),
         resp[r] \in {"running", "reported"},
         UNCHANGED <<pc, run, accuracy, copy, client, abandoned, rows>>,
         NEW after \in {"reported", "done"}, resp' = [resp EXCEPT ![r] = after]
  PROVE  FileKnown' /\ FreshIfServed'
<1>1. /\ \A q \in Runs : q # r => wrote'[q] = wrote[q] /\ resp'[q] = resp[q]
      /\ resp'[r] # "none"
      /\ \A g \in wrote'[r] : g \in wrote[r] \/ (g = f /\ file'[f] = r)
      /\ \A g \in Files : file'[g] = file[g] \/ file'[g] = r
  <2>1. \A q \in Runs : q # r => resp'[q] = resp[q]
    BY DEF Inv, TypeOK
  <2>2. resp'[r] # "none"
    BY DEF Inv, TypeOK
  <2>3. CASE file' = file /\ wrote' = wrote
    BY <2>1, <2>2, <2>3
  <2>4. CASE file' = [file EXCEPT ![f] = r] /\ wrote' = [wrote EXCEPT ![r] = @ \union {f}]
    BY <2>1, <2>2, <2>4 DEF Inv, TypeOK
  <2> QED
    BY <2>3, <2>4 DEF Writes
<1> USE DEF Inv, TypeOK, RespondersInOrder, FileKnown, CopyKnown, RowsOver, FreshIfServed,
            Exited
<1>2. r = run \/ r \in abandoned
  BY RunsOrdered
<1>3. wrote[run] \subseteq Files /\ wrote'[run] \subseteq Files
  BY DEF Writes
<1>4. pc \in {"stamps", "rows"} => r # run
  OBVIOUS
<1>5. FileKnown'
  <2>1. \A q \in Runs : resp'[q] = "none" => wrote'[q] = {}
    BY <1>1
  <2>2. \A g \in wrote'[run] : file'[g] = run \/ file'[g] \in abandoned
    BY <1>1, <1>2, <1>3
  <2>3. pc = "stamps" => accuracy /\ CopyKnown("output")'
    BY <1>1, <1>4
  <2>4. pc = "rows" => \A g \in Needed : CopyKnown(g)'
    BY <1>1, <1>4
  <2> QED
    BY <2>1, <2>2, <2>3, <2>4 DEF Needed
<1>6. \A row \in rows : row.run \in Runs /\ row.run # r
  BY RowRuns
<1>7. FreshIfServed'
  BY <1>1, <1>6 DEF Needed
<1> QED
  BY <1>5, <1>7

(* A step of a client's tool or of a responder keeps the invariant: one     *)
(* that ends after its run was left to itself.                              *)
LEMMA OtherStep ==
  ASSUME Inv, \/ \E h \in Hosts : Tool(h)
              \/ \E r \in Runs : Responder(r)
              \/ UNCHANGED vars
  PROVE  Inv'
<1> USE DEF Inv, TypeOK, RespondersInOrder, FileKnown, CopyKnown, ToolsOver, RowsOver,
            FreshIfServed, RowsComplete, Exited, server
<1>1. ASSUME NEW h \in Hosts, Tool(h) PROVE Inv'
  <2>1. /\ UNCHANGED <<pc, run, accuracy, resp, file, wrote, copy, abandoned, rows>>
        /\ client[h] \in Unreturned
        /\ \E outcome \in {"ended", "failed", "killed", "timed out"} :
              client' = [client EXCEPT ![h] = outcome]
    BY <1>1 DEF Tool, ToolEnds, ToolTimesOut, KilledReturns, Unreturned
  <2>2. TypeOK'
    BY <2>1 DEF Outcomes, Unreturned
  <2>3. ToolsOver'
    <3>1. pc \notin {"wait", "scp", "stamps", "rows"}
      BY <2>1
    <3>2. \A g \in Hosts : client[g] # "idle" => client'[g] # "idle"
      BY <2>1
    <3> QED
      BY <2>1, <3>1, <3>2
  <2>4. RespondersInOrder' /\ RowsOver' /\ RowsComplete'
    BY <2>1
  <2>5. FileKnown' /\ FreshIfServed'
    BY <2>1 DEF Needed
  <2> QED
    BY <2>2, <2>3, <2>4, <2>5
<1>2. ASSUME NEW r \in Runs,
             \/ /\ resp[r] \in {"starting", "running", "reported"}
                /\ \E after \in {"running", "failed", "done"} : resp' = [resp EXCEPT ![r] = after]
             \/ resp[r] = "running" /\ resp' = [resp EXCEPT ![r] = "reported"],
             UNCHANGED <<pc, run, accuracy, copy, client, abandoned, rows>>
      PROVE  RespondersInOrder' /\ ToolsOver' /\ RowsOver' /\ RowsComplete'
             /\ resp' \in [Runs -> {"none", "starting", "running", "reported"} \union Exited]
             /\ \A q \in Runs : resp'[q] = "none" => resp[q] = "none"
  <2>1. /\ resp' \in [Runs -> {"none", "starting", "running", "reported"} \union Exited]
        /\ \A q \in Runs : q # r => resp'[q] = resp[q]
        /\ resp[r] \notin {"none"} \union Exited /\ resp'[r] # "none"
    BY <1>2
  <2>2. RespondersInOrder'
    BY <1>2, <2>1 DEF Runs
  <2>3. RowsOver'
    BY <1>2, <2>1, RowRuns
  <2> QED
    BY <1>2, <2>1, <2>2, <2>3
<1>3. ASSUME NEW r \in Runs, ResponderStarts(r) \/ ResponderFails(r) PROVE Inv'
  <2>1. /\ UNCHANGED <<pc, run, accuracy, file, wrote, copy, client, abandoned, rows>>
        /\ resp[r] \in {"starting", "running", "reported"}
        /\ \E after \in {"running", "failed", "done"} : resp' = [resp EXCEPT ![r] = after]
    BY <1>3 DEF ResponderStarts, ResponderFails
  <2>2. /\ RespondersInOrder' /\ ToolsOver' /\ RowsOver' /\ RowsComplete'
        /\ resp' \in [Runs -> {"none", "starting", "running", "reported"} \union Exited]
        /\ \A q \in Runs : resp'[q] = "none" => resp[q] = "none"
    BY <2>1, <1>2
  <2>3. FileKnown' /\ FreshIfServed'
    BY <2>1, <2>2 DEF Needed
  <2> QED
    BY <2>1, <2>2, <2>3
<1>4. ASSUME NEW r \in Runs, NEW f \in Files, Writes(r, f) \/ UNCHANGED <<file, wrote>>
      PROVE  /\ file' \in [Files -> Runs \union {NoRun}]
             /\ wrote' \in [Runs -> SUBSET Files]
             /\ Writes(r, f)
  BY <1>4 DEF Writes
<1>5. ASSUME NEW r \in Runs, ResponderReports(r) \/ ResponderEnds(r) PROVE Inv'
  <2>1. \E f \in Files : Writes(r, f) \/ UNCHANGED <<file, wrote>>
    BY <1>5 DEF ResponderReports, ResponderEnds, Files
  <2>2. PICK f \in Files : Writes(r, f)
    BY <2>1, <1>4
  <2>3. /\ UNCHANGED <<pc, run, accuracy, copy, client, abandoned, rows>>
        /\ \/ resp[r] = "running"  /\ resp' = [resp EXCEPT ![r] = "reported"]
           \/ resp[r] = "reported" /\ resp' = [resp EXCEPT ![r] = "done"]
    BY <1>5 DEF ResponderReports, ResponderEnds
  <2>4. FileKnown' /\ FreshIfServed'
    BY <2>2, <2>3, WritingKnown
  <2>5. /\ RespondersInOrder' /\ ToolsOver' /\ RowsOver' /\ RowsComplete'
        /\ resp' \in [Runs -> {"none", "starting", "running", "reported"} \union Exited]
    BY <2>3, <1>2
  <2>6. /\ file' \in [Files -> Runs \union {NoRun}]
        /\ wrote' \in [Runs -> SUBSET Files]
    BY <2>2, <1>4
  <2>7. TypeOK'
    BY <2>3, <2>5, <2>6
  <2> QED
    BY <2>4, <2>5, <2>7
<1>6. CASE UNCHANGED vars
  BY <1>6 DEF vars, Needed
<1> QED
  BY <1>1, <1>3, <1>5, <1>6 DEF Responder

(* Spec keeps the invariant. *)
LEMMA InvAlways == Spec => []Inv
<1>1. Inv /\ [Next]_vars => Inv'
  BY ScriptStep, OtherStep DEF Next
<1> QED
  BY <1>1, InitInv, PTL DEF Spec

(* What a row is computed from is what its own run's responder wrote, or    *)
(* that one wrote nothing, or it is from a responder left to itself.        *)
THEOREM RowsFresh == Spec => []FreshIfServed
<1>1. Inv => FreshIfServed
  BY DEF Inv
<1> QED
  BY <1>1, InvAlways, PTL

(* A row is written when the tools of all clients have ended. *)
THEOREM RowsWaitForAll == Spec => []RowsComplete
<1>1. Inv => RowsComplete
  BY DEF Inv
<1> QED
  BY <1>1, InvAlways, PTL

-----------------------------------------------------------------------------
(* The campaign ends, as far as safety goes: a bound on the steps that the  *)
(* script has left.                                                         *)

(* The steps left in a run. *)
StepsHere ==
  CASE pc = "start"     -> 8
    [] pc = "tools"     -> 7
    [] pc = "collect"   -> 6
    [] pc = "wait"      -> 5
    [] pc = "scp"       -> 4
    [] pc = "stamps" -> 3
    [] pc = "rows"      -> 2
    [] pc = "pause"     -> 1
    [] pc = "finished"  -> 0

StepsLeft == (NumRuns - run) * 8 + StepsHere

(* Every step of the script leaves fewer. *)
LEMMA StepsFewer ==
  ASSUME Inv, Script
  PROVE  StepsLeft' < StepsLeft
<1>1. NumRuns \in Nat /\ run \in Nat /\ run <= NumRuns
  BY ThroughputAssumption DEF Inv, TypeOK, Runs
<1>2. CASE NextRun
  BY <1>1, <1>2 DEF NextRun, Goto, StepsLeft, StepsHere
<1>3. CASE \/ StartSession  \/ SessionFails \/ StartTools \/ SaveOutputs
           \/ WaitResponder \/ WaitTimesOut \/ AddRows    \/ RowsFail
           \/ Copying
  <2>1. /\ run' = run
        /\ \/ pc = "start"   /\ pc' \in {"tools", "pause"}
           \/ pc = "tools"   /\ pc' = "collect"
           \/ pc = "collect" /\ pc' \in {"wait", "pause"}
           \/ pc = "wait"    /\ pc' \in {"scp", "pause"}
           \/ pc = "scp"     /\ pc' \in {"stamps", "rows", "pause"}
           \/ pc = "stamps" /\ pc' \in {"rows", "pause"}
           \/ pc = "rows"    /\ pc' = "pause"
    BY <1>3 DEF StartSession, SessionFails, StartTools, SaveOutputs, WaitResponder,
                WaitTimesOut, Copying, CopyOutput, CopyTimestamps, Copy, CopyFails,
                AddRows, RowsFail, Goto
  <2> QED
    BY <1>1, <2>1 DEF StepsLeft, StepsHere
<1> QED
  BY <1>2, <1>3 DEF Script, Working

(* There is a step left unless the campaign is over. *)
LEMMA StepsLeftAre ==
  ASSUME Inv
  PROVE  StepsLeft \in 0..(8 * NumRuns) /\ (StepsLeft = 0 => pc = "finished")
<1>1. NumRuns \in Nat /\ run \in Nat /\ run > 0 /\ run <= NumRuns
  BY ThroughputAssumption DEF Inv, TypeOK, Runs
<1>2. StepsHere \in 0..8 /\ (StepsHere = 0 => pc = "finished")
  <2>1. pc \in {"start", "tools", "collect", "wait", "scp", "stamps", "rows",
               "pause", "finished"}
    BY DEF Inv, TypeOK
  <2>2. CASE pc = "start"
    BY <2>2 DEF StepsHere
  <2>3. CASE pc = "tools"
    BY <2>3 DEF StepsHere
  <2>4. CASE pc = "collect"
    BY <2>4 DEF StepsHere
  <2>5. CASE pc = "wait"
    BY <2>5 DEF StepsHere
  <2>6. CASE pc = "scp"
    BY <2>6 DEF StepsHere
  <2>7. CASE pc = "stamps"
    BY <2>7 DEF StepsHere
  <2>8. CASE pc = "rows"
    BY <2>8 DEF StepsHere
  <2>9. CASE pc = "pause"
    BY <2>9 DEF StepsHere
  <2>10. CASE pc = "finished"
    BY <2>10 DEF StepsHere
  <2> QED
    BY <2>1, <2>2, <2>3, <2>4, <2>5, <2>6, <2>7, <2>8, <2>9, <2>10
<1> QED
  BY <1>1, <1>2 DEF StepsLeft

(* The campaign is over after 8 * NumRuns steps of the script at most,      *)
(* whatever fails or times out.  Each step leaves fewer, tools and          *)
(* responders take none away, and none is left only when it is over.        *)
THEOREM CampaignBounded ==
  Spec => /\ [](StepsLeft \in 0..(8 * NumRuns))
          /\ [](StepsLeft = 0 => pc = "finished")
          /\ [][IF Script THEN StepsLeft' < StepsLeft ELSE StepsLeft' = StepsLeft]_vars
<1>1. Inv => StepsLeft \in 0..(8 * NumRuns) /\ (StepsLeft = 0 => pc = "finished")
  BY StepsLeftAre
<1>2. Inv /\ [Next]_vars =>
        [IF Script THEN StepsLeft' < StepsLeft ELSE StepsLeft' = StepsLeft]_vars
  <2> SUFFICES ASSUME Inv, [Next]_vars
               PROVE  \/ IF Script THEN StepsLeft' < StepsLeft ELSE StepsLeft' = StepsLeft
                      \/ UNCHANGED vars
    OBVIOUS
  <2>1. CASE Script
    BY <2>1, StepsFewer
  <2>2. ASSUME ~Script, \/ \E h \in Hosts : Tool(h)
                        \/ \E r \in Runs : Responder(r)
        PROVE  StepsLeft' = StepsLeft
    BY <2>2 DEF Tool, ToolEnds, ToolTimesOut, KilledReturns, Responder, ResponderStarts,
                ResponderFails, ResponderReports, ResponderEnds, StepsLeft, StepsHere
  <2> QED
    BY <2>1, <2>2 DEF Next
<1> QED
  BY <1>1, <1>2, InvAlways, PTL DEF Spec

=============================================================================
