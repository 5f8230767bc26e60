--------------------------- MODULE ZoneGenerator ---------------------------
(***************************************************************************)
(* The generator of zone files and query files                             *)
(* (zone_generation/zone_generator.py): records of weighted types, one for *)
(* each address in turn, spread over part files that the main zone file    *)
(* includes, and a query for each record.                                  *)
(*                                                                         *)
(* A record is [i, name, type]: its number, the number of the address that *)
(* makes its name, and the type it is stored as.                           *)
(***************************************************************************)
EXTENDS Integers, Sequences, FiniteSets

CONSTANTS
  TypesOrder,   \* the types of record_weights, in their order: the keys of a dict
  Stored,       \* the types that have an entry of their own in a zone file
  Weights,      \* the values of record_weights
  Sizes,        \* the values of num_records
  FileSizes,    \* the values of max_records_per_file
  NumsIps       \* the values of num_ips

Types == {TypesOrder[k] : k \in DOMAIN TypesOrder}

ASSUME ZoneAssumption ==
  /\ TypesOrder \in Seq(Types)
  /\ \A j, k \in DOMAIN TypesOrder : TypesOrder[j] = TypesOrder[k] => j = k
  /\ "A" \in Stored /\ "ANY" \notin Stored
  /\ Weights \subseteq [Types -> Nat]
  /\ Sizes \subseteq Nat
  /\ FileSizes \subseteq Nat \ {0} /\ NumsIps \subseteq Nat \ {0}

VARIABLES
  cfg,        \* [weights, records, perFile, ips, short]
  pc, i,      \* where the loop is
  pattern,    \* cur_pattern: "primary" or "remaining"
  patternIdx,
  fileIdx, fileCount,
  parts,      \* the part files; the only one is the main zone file itself
  includes,   \* the parts the main zone file includes
  queries     \* the dnsperf file

vars == <<cfg, pc, i, pattern, patternIdx, fileIdx, fileCount, parts, includes, queries>>

-----------------------------------------------------------------------------
(* The record types. *)

SumOver(f) ==
  LET upTo[k \in 0..Len(TypesOrder)] ==
        IF k = 0 THEN 0 ELSE upTo[k - 1] + f[TypesOrder[k]]
  IN  upTo[Len(TypesOrder)]

Total     == SumOver(cfg.weights)
Rest      == cfg.records % Total
Product(t) == cfg.weights[t] * Rest

(* max(record_weights, key=record_weights.get): the first of the heaviest.  *)
MostCommon ==
  TypesOrder[CHOOSE k \in DOMAIN TypesOrder :
    /\ \A t \in Types : cfg.weights[t] <= cfg.weights[TypesOrder[k]]
    /\ \A j \in 1..(k - 1) : cfg.weights[TypesOrder[j]] < cfg.weights[TypesOrder[k]]]

(* The quotient is computed with floats before it is cut to an integer, so  *)
(* one that is exact may come out one less (cfg.short).                     *)
Shares ==
  [t \in Types |-> (Product(t) \div Total) - (IF t \in cfg.short THEN 1 ELSE 0)]

RemainingCounts == [Shares EXCEPT ![MostCommon] = @ + Rest - SumOver(Shares)]

(* generate_interleaved_record_types_pattern: rounds through all types,     *)
(* each of which is taken in as many rounds as it has records.              *)
TypeAt(k)  == TypesOrder[((k - 1) % Len(TypesOrder)) + 1]
RoundOf(k) == ((k - 1) \div Len(TypesOrder)) + 1

Interleaved(counts) ==
  LET upTo[k \in 0..(SumOver(counts) * Len(TypesOrder))] ==
        IF k = 0 THEN << >>
        ELSE IF counts[TypeAt(k)] >= RoundOf(k) THEN Append(upTo[k - 1], TypeAt(k))
        ELSE upTo[k - 1]
  IN  upTo[SumOver(counts) * Len(TypesOrder)]

PatternOf(which) == Interleaved(IF which = "primary" THEN cfg.weights ELSE RemainingCounts)

-----------------------------------------------------------------------------
(* Mistakes the properties must notice: a part takes one record too many,   *)
(* the remainder begins one record late, the type of a query is left to its *)
(* default.                                                                 *)
PartFullLate(count) == count > cfg.perFile
MainCountLate       == (cfg.records \div Total) * Total + 1
QueryOfDefault(rec, t) == [name |-> rec.name, type |-> "A"]

MainCount   == (cfg.records \div Total) * Total
NumFiles    == (cfg.records + cfg.perFile - 1) \div cfg.perFile
IpIndex(k)  == (k % cfg.ips) + 1
StoredAs(t) == IF t \in Stored THEN t ELSE "A"

QueryOf(rec, t) == [name |-> rec.name, type |-> t]
PartFull(count) == count >= cfg.perFile

Init ==
  /\ cfg \in [weights : Weights, records : Sizes, perFile : FileSizes, ips : NumsIps,
              short : SUBSET Types]
  /\ Total > 0
  /\ \A t \in cfg.short : Product(t) > 0 /\ Product(t) % Total = 0
  /\ pc = "loop" /\ i = 0
  /\ pattern = "primary" /\ patternIdx = 0
  /\ fileIdx = 0 /\ fileCount = 0
  /\ parts = [k \in 1..NumFiles |-> << >>]
  /\ includes = << >> /\ queries = << >>

(* The pattern and the place in it for record i. *)
Switches == i = MainCount
PatternNow == IF Switches THEN "remaining" ELSE pattern
IdxNow     == IF Switches \/ patternIdx >= Len(PatternOf(pattern)) THEN 0 ELSE patternIdx

(* One turn of the loop.  A part is opened, and emptied, for its first      *)
(* record.                                                                  *)
WriteRecord ==
  /\ pc = "loop" /\ i < cfg.records
  /\ LET t    == PatternOf(PatternNow)[IdxNow + 1]
         rec  == [i |-> i, name |-> IpIndex(i), type |-> StoredAs(t)]
         part == fileIdx + 1
         next == PartFull(fileCount + 1) /\ fileIdx < NumFiles - 1
     IN  /\ parts' = [parts EXCEPT ![part] = IF fileCount = 0 THEN << rec >>
                                             ELSE Append(@, rec)]
         /\ queries' = Append(queries, QueryOf(rec, t))
         /\ fileIdx' = IF next THEN fileIdx + 1 ELSE fileIdx
         /\ fileCount' = IF next THEN 0 ELSE fileCount + 1
  /\ pattern' = PatternNow
  /\ patternIdx' = IdxNow + 1
  /\ i' = i + 1
  /\ UNCHANGED <<cfg, pc, includes>>

(* A write fails: the files are closed as they are, and no main zone file   *)
(* is written over several parts.                                           *)
WriteFails ==
  /\ pc = "loop" /\ i < cfg.records
  /\ pc' = "failed"
  /\ UNCHANGED <<cfg, i, pattern, patternIdx, fileIdx, fileCount, parts, includes, queries>>

WriteMain ==
  /\ pc = "loop" /\ i = cfg.records
  /\ includes' = IF NumFiles = 1 THEN << >> ELSE [k \in 1..NumFiles |-> k]
  /\ pc' = "done"
  /\ UNCHANGED <<cfg, i, pattern, patternIdx, fileIdx, fileCount, parts, queries>>

(* Closing the last part raises, or opening or writing the main zone file:  *)
(* what it includes may then be short of the parts.                         *)
MainFails ==
  /\ pc = "loop" /\ i = cfg.records
  /\ \E n \in 0..(IF NumFiles = 1 THEN 0 ELSE NumFiles) : includes' = [k \in 1..n |-> k]
  /\ pc' = "failed"
  /\ UNCHANGED <<cfg, i, pattern, patternIdx, fileIdx, fileCount, parts, queries>>

Next == WriteRecord \/ WriteFails \/ WriteMain \/ MainFails

Spec == Init /\ [][Next]_vars

-----------------------------------------------------------------------------
(* The zone is every record once and in order: part k holds the records     *)
(* from (k - 1) * max_records_per_file on, every part but the last is full, *)
(* and the main file includes each of them, or holds the only one itself.   *)
PartsExact ==
  pc = "done" =>
    /\ \A k \in 1..NumFiles :
         /\ Len(parts[k]) = IF k < NumFiles THEN cfg.perFile
                            ELSE cfg.records - (NumFiles - 1) * cfg.perFile
         /\ \A j \in 1..Len(parts[k]) : parts[k][j].i = (k - 1) * cfg.perFile + j - 1
    /\ includes = IF NumFiles = 1 THEN << >> ELSE [k \in 1..NumFiles |-> k]

Places     == UNION {{<<k, j>> : j \in 1..Len(parts[k])} : k \in 1..NumFiles}
RecordAt(p) == parts[p[1]][p[2]]
AtName(name) == {p \in Places : RecordAt(p).name = name}

(* Every query of a type that zone files can hold has its record; and with  *)
(* as many addresses as records the name has no other one, so that no CNAME *)
(* stands beside other data.  (With fewer addresses names repeat, and it    *)
(* may.)                                                                    *)
QueriesAnswerable ==
  pc = "done" =>
    \A k \in DOMAIN queries :
      LET at == AtName(queries[k].name)
      IN  /\ queries[k].type \in Stored =>
               \E p \in at : RecordAt(p).type = queries[k].type
          /\ cfg.records <= cfg.ips => Cardinality(at) = 1

(* The types keep their weights: each has its share of the records, rounded *)
(* down, or one less where a float fell short; the most common one has what *)
(* is left over.                                                            *)
SharesKept ==
  pc = "done" =>
    \A t \in Types :
      LET number == Cardinality({k \in DOMAIN queries : queries[k].type = t})
          share  == (cfg.weights[t] * cfg.records) \div Total
      IN  IF t = MostCommon THEN number >= share - 1
          ELSE number = share - (IF t \in cfg.short THEN 1 ELSE 0)
=============================================================================
