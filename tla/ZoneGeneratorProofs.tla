------------------------ MODULE ZoneGeneratorProofs ------------------------
(***************************************************************************)
(* Proofs, for any types, weights, number of records, size of a part and   *)
(* rounding, that a finished zone holds every record once and in order,    *)
(* that every query of it can be answered, and that the types keep their   *)
(* shares of the records.                                                  *)
(***************************************************************************)
EXTENDS ZoneGenerator, Induction, SequenceTheorems, TLAPS

Record == [i : Nat, name : Int, type : Stored]

TypeOK ==
  /\ cfg.records \in Nat /\ cfg.perFile \in Nat \ {0} /\ cfg.ips \in Nat \ {0}
  /\ i \in 0..cfg.records
  /\ fileIdx \in Nat /\ fileCount \in 0..cfg.perFile
  /\ parts \in [1..NumFiles -> Seq(Record)]

(* Where the loop is: fileIdx parts are full, and there is a place for the  *)
(* next record.                                                             *)
PlaceOK ==
  /\ i = fileIdx * cfg.perFile + fileCount
  /\ i < cfg.records => fileIdx < NumFiles /\ fileCount < cfg.perFile
  /\ NumFiles > 0 => fileIdx < NumFiles

(* What the parts hold: those before the open one are full, those after it  *)
(* empty, and each record is where its number says.                         *)
LengthsOK ==
  \A k \in 1..NumFiles :
    Len(parts[k]) = IF k <= fileIdx THEN cfg.perFile
                    ELSE IF k = fileIdx + 1 THEN fileCount ELSE 0

RecordsOK ==
  \A k \in 1..NumFiles : \A j \in 1..Len(parts[k]) :
    parts[k][j].i = (k - 1) * cfg.perFile + j - 1

(* The main zone file is written behind the last record. *)
MainOK ==
  pc = "done" => /\ i = cfg.records
                 /\ includes = IF NumFiles = 1 THEN << >> ELSE [k \in 1..NumFiles |-> k]

(* The inductive invariant. *)
Inv == TypeOK /\ PlaceOK /\ LengthsOK /\ RecordsOK /\ MainOK

-----------------------------------------------------------------------------
(* Arithmetic of the part files. *)

(* Division rounds down. *)
LEMMA Division ==
  ASSUME NEW a \in Nat, NEW p \in Nat \ {0}
  PROVE  a \div p \in Nat /\ (a \div p) * p <= a /\ a < (a \div p) * p + p
  BY SMTT(30)

(* One part more is perFile records more. *)
LEMMA OnePart ==
  ASSUME NEW n \in Nat, NEW p \in Nat
  PROVE  (n + 1) * p = n * p + p /\ n * p \in Nat
  BY SMTT(30)

(* A smaller number of parts ends at least one part earlier. *)
LEMMA FewerParts ==
  ASSUME NEW n \in Nat, NEW m \in Nat, NEW p \in Nat, n < m
  PROVE  n * p + p <= m * p
  BY SMTT(30)

(* num_files parts are enough for the records, and one less is too few.     *)
LEMMA EnoughParts ==
  ASSUME cfg.records \in Nat, cfg.perFile \in Nat \ {0}
  PROVE  /\ NumFiles \in Nat
         /\ cfg.records <= NumFiles * cfg.perFile
         /\ cfg.records = 0 => NumFiles = 0
         /\ cfg.records > 0 => /\ NumFiles > 0
                               /\ (NumFiles - 1) * cfg.perFile < cfg.records
<1> DEFINE r == cfg.records
           p == cfg.perFile
           n == NumFiles
<1>1. r \in Nat /\ p \in Nat \ {0} /\ r + p - 1 \in Nat /\ n = (r + p - 1) \div p
  BY DEF NumFiles
<1> HIDE DEF r, p, n
<1>2. n \in Nat /\ n * p <= r + p - 1 /\ r + p - 1 < n * p + p
  BY <1>1, Division
<1>3. r <= n * p /\ n * p \in Nat
  BY <1>1, <1>2, OnePart
<1>4. r = 0 => n = 0
  <2> SUFFICES ASSUME r = 0, 0 < n PROVE FALSE
    BY <1>2
  <2>1. 0 * p + p <= n * p
    BY <1>1, <1>2, FewerParts
  <2> QED
    BY <1>1, <1>2, <1>3, <2>1
<1>5. r > 0 => n > 0
  <2> SUFFICES ASSUME n = 0 PROVE r = 0
    BY <1>1, <1>2
  <2> QED
    BY <1>1, <1>3
<1>6. r > 0 => (n - 1) * p < r
  <2> SUFFICES ASSUME r > 0 PROVE (n - 1) * p < r
    OBVIOUS
  <2>1. n - 1 \in Nat /\ (n - 1) + 1 = n
    BY <1>2, <1>5
  <2>2. n * p = (n - 1) * p + p /\ (n - 1) * p \in Nat
    BY <1>1, <2>1, OnePart
  <2> QED
    BY <1>1, <1>2, <1>3, <2>2
<1> QED
  BY <1>2, <1>3, <1>4, <1>5, <1>6 DEF r, p, n

-----------------------------------------------------------------------------
(* Before the first record all parts are empty. *)
LEMMA InitInv == Init => Inv
<1> SUFFICES ASSUME Init PROVE Inv
  OBVIOUS
<1>1. /\ cfg.records \in Nat /\ cfg.perFile \in Nat \ {0} /\ cfg.ips \in Nat \ {0}
      /\ pc = "loop" /\ i = 0 /\ fileIdx = 0 /\ fileCount = 0
      /\ parts = [k \in 1..NumFiles |-> << >>]
  BY ZoneAssumption DEF Init
<1>2. NumFiles \in Nat /\ (cfg.records > 0 => NumFiles > 0)
  BY <1>1, EnoughParts
<1>3. TypeOK
  BY <1>1 DEF TypeOK
<1>4. PlaceOK
  BY <1>1, <1>2 DEF PlaceOK
<1>5. LengthsOK /\ RecordsOK
  BY <1>1 DEF LengthsOK, RecordsOK
<1>6. MainOK
  BY <1>1 DEF MainOK
<1> QED
  BY <1>3, <1>4, <1>5, <1>6 DEF Inv

(* The record of this turn. *)
NewRecord ==
  [i |-> i, name |-> IpIndex(i), type |-> StoredAs(PatternOf(PatternNow)[IdxNow + 1])]

(* What one turn of the loop does: a record with number i goes to the end   *)
(* of the open part, and the next one may open a new part.                  *)
Turn ==
  /\ i < cfg.records /\ pc = "loop"
  /\ i' = i + 1 /\ pc' = pc /\ cfg' = cfg
  /\ fileIdx + 1 \in 1..NumFiles
  /\ NewRecord \in Record /\ NewRecord.i = i
  /\ parts' = [parts EXCEPT ![fileIdx + 1] =
                 IF fileCount = 0 THEN << NewRecord >> ELSE Append(@, NewRecord)]
  /\ IF fileCount + 1 >= cfg.perFile /\ fileIdx < NumFiles - 1
     THEN fileIdx' = fileIdx + 1 /\ fileCount' = 0
     ELSE fileIdx' = fileIdx /\ fileCount' = fileCount + 1

(* The number of a record and of its address are numbers, and its type is   *)
(* one that zone files hold.                                                *)
LEMMA WriteTurn ==
  ASSUME Inv, WriteRecord
  PROVE  Turn
<1> DEFINE t   == PatternOf(PatternNow)[IdxNow + 1]
           rec == NewRecord
<1>1. /\ i \in Nat /\ i < cfg.records /\ cfg.records \in Nat /\ cfg.ips \in Nat \ {0}
      /\ cfg.perFile \in Nat \ {0} /\ fileIdx \in Nat /\ fileIdx < NumFiles
  BY DEF Inv, TypeOK, PlaceOK, WriteRecord
<1>2. NumFiles \in Nat
  BY <1>1, EnoughParts
<1>3. rec \in Record /\ rec.i = i
  <2>1. IpIndex(i) \in Int
    BY <1>1 DEF IpIndex
  <2>2. StoredAs(t) \in Stored
    BY ZoneAssumption DEF StoredAs
  <2> QED
    BY <1>1, <2>1, <2>2 DEF Record, NewRecord
<1>4. parts' = [parts EXCEPT ![fileIdx + 1] =
                  IF fileCount = 0 THEN << rec >> ELSE Append(@, rec)]
  BY DEF WriteRecord, NewRecord
<1>5. IF fileCount + 1 >= cfg.perFile /\ fileIdx < NumFiles - 1
      THEN fileIdx' = fileIdx + 1 /\ fileCount' = 0
      ELSE fileIdx' = fileIdx /\ fileCount' = fileCount + 1
  BY DEF WriteRecord, PartFull
<1>6. i' = i + 1 /\ pc = "loop" /\ pc' = pc /\ cfg' = cfg
  BY DEF WriteRecord
<1> HIDE DEF rec
<1>7. fileIdx + 1 \in 1..NumFiles
  BY <1>1, <1>2
<1> QED
  BY <1>1, <1>3, <1>4, <1>5, <1>6, <1>7 DEF Turn, rec

(* The open part grows by the record, at its end; the others stay.          *)
LEMMA PartGrows ==
  ASSUME Inv, Turn
  PROVE  /\ parts' \in [1..NumFiles -> Seq(Record)]
         /\ Len(parts'[fileIdx + 1]) = fileCount + 1
         /\ parts'[fileIdx + 1][fileCount + 1] = NewRecord /\ NewRecord.i = i
         /\ \A j \in 1..fileCount : parts'[fileIdx + 1][j] = parts[fileIdx + 1][j]
         /\ \A k \in 1..NumFiles : k # fileIdx + 1 => parts'[k] = parts[k]
<1> DEFINE rec  == NewRecord
<1>1. /\ rec \in Record /\ rec.i = i
      /\ parts' = [parts EXCEPT ![fileIdx + 1] =
                     IF fileCount = 0 THEN << rec >> ELSE Append(@, rec)]
  BY DEF Turn
<1> DEFINE part == fileIdx + 1
           old  == parts[part]
           new  == IF fileCount = 0 THEN << rec >> ELSE Append(old, rec)
<1>2. part \in 1..NumFiles /\ parts \in [1..NumFiles -> Seq(Record)]
      /\ fileIdx \in Nat /\ fileCount \in Nat
  BY DEF Inv, TypeOK, Turn
<1>3. old \in Seq(Record) /\ Len(old) = fileCount
  BY <1>2 DEF Inv, LengthsOK
<1>4. parts' = [parts EXCEPT ![part] = new]
  BY <1>1
<1> HIDE DEF part, old, rec
<1>5. new \in Seq(Record) /\ Len(new) = fileCount + 1 /\ new[fileCount + 1] = rec
      /\ \A j \in 1..fileCount : new[j] = old[j]
  <2>1. CASE fileCount = 0
    BY <1>1, <2>1
  <2>2. CASE fileCount # 0
    BY <1>1, <1>2, <1>3, <2>2, AppendProperties
  <2> QED
    BY <2>1, <2>2
<1> HIDE DEF new
<1>6. parts' \in [1..NumFiles -> Seq(Record)] /\ parts'[part] = new
      /\ \A k \in 1..NumFiles : k # part => parts'[k] = parts[k]
  BY <1>2, <1>4, <1>5
<1> QED
  BY <1>1, <1>5, <1>6 DEF part, old, rec

(* The place for the next record: the next one of the open part, or the     *)
(* first of a new part.                                                     *)
LEMMA NextPlace ==
  ASSUME NEW r \in Nat, NEW p \in Nat \ {0}, NEW n \in Nat, NEW f \in Nat, NEW c \in Nat,
         f * p + c < r, f < n, c < p, r <= n * p,
         NEW f2, NEW c2,
         \/ c + 1 = p /\ f < n - 1 /\ f2 = f + 1 /\ c2 = 0
         \/ (c + 1 < p \/ ~(f < n - 1)) /\ f2 = f /\ c2 = c + 1
  PROVE  /\ f2 \in Nat /\ c2 \in 0..p /\ f2 < n
         /\ f * p + c + 1 = f2 * p + c2
         /\ f * p + c + 1 < r => c2 < p
<1>1. (f + 1) * p = f * p + p /\ f * p \in Nat
  BY OnePart
<1>2. CASE c + 1 = p /\ f < n - 1 /\ f2 = f + 1 /\ c2 = 0
  <2>1. f2 * p = f * p + p
    BY <1>1, <1>2
  <2> QED
    BY <1>1, <1>2, <2>1
<1>3. CASE (c + 1 < p \/ ~(f < n - 1)) /\ f2 = f /\ c2 = c + 1
  <2>1. ~(f < n - 1) => n * p = f * p + p
    <3>1. ~(f < n - 1) => n = f + 1
      OBVIOUS
    <3> QED
      BY <1>1, <3>1
  <2>2. f2 * p = f * p
    BY <1>3
  <2>3. f2 \in Nat /\ f2 < n /\ c2 = c + 1 /\ c2 \in 0..p
    BY <1>3
  <2>4. c + 1 < p \/ ~(f < n - 1)
    BY <1>3
  <2>5. f * p + c + 1 = f2 * p + c2
    BY <1>1, <2>2, <2>3
  <2>6. ASSUME f * p + c + 1 < r PROVE c2 < p
    <3> DEFINE x == f * p
               y == n * p
    <3>1. x \in Nat /\ x + c + 1 < r /\ r <= y /\ (c + 1 < p \/ y = x + p)
      BY <1>1, <2>1, <2>4, <2>6
    <3> HIDE DEF x, y
    <3> QED
      BY <2>3, <3>1
  <2> QED
    BY <2>3, <2>5, <2>6
<1> QED
  BY <1>2, <1>3

(* One turn of the loop keeps the invariant. *)
LEMMA TurnStep ==
  ASSUME Inv, Turn
  PROVE  Inv'
<1> DEFINE r == cfg.records
           p == cfg.perFile
           n == NumFiles
<1>1. /\ r \in Nat /\ p \in Nat \ {0} /\ cfg.ips \in Nat \ {0}
      /\ i \in 0..r /\ fileIdx \in Nat /\ fileCount \in 0..p
      /\ i = fileIdx * p + fileCount /\ i < r /\ fileIdx < n /\ fileCount < p
      /\ cfg' = cfg /\ i' = i + 1 /\ pc = "loop" /\ pc' = pc
  BY DEF Inv, TypeOK, PlaceOK, Turn
<1>2. n' = n
  BY <1>1 DEF NumFiles
<1>3. n \in Nat /\ r <= n * p
  BY <1>1, EnoughParts
<1>4. \/ fileCount + 1 = p /\ fileIdx < n - 1 /\ fileIdx' = fileIdx + 1 /\ fileCount' = 0
      \/ /\ fileCount + 1 < p \/ ~(fileIdx < n - 1)
         /\ fileIdx' = fileIdx /\ fileCount' = fileCount + 1
  BY <1>1, <1>3 DEF Turn
<1>5. /\ fileIdx' \in Nat /\ fileCount' \in 0..p /\ fileIdx' < n
      /\ i + 1 = fileIdx' * p + fileCount'
      /\ i + 1 < r => fileCount' < p
  <2> HIDE DEF r, p, n
  <2> QED
    BY <1>1, <1>3, <1>4, NextPlace
<1>6. /\ parts' \in [1..n -> Seq(Record)]
      /\ Len(parts'[fileIdx + 1]) = fileCount + 1
      /\ parts'[fileIdx + 1][fileCount + 1].i = i
      /\ \A j \in 1..fileCount : parts'[fileIdx + 1][j] = parts[fileIdx + 1][j]
      /\ \A k \in 1..n : k # fileIdx + 1 => parts'[k] = parts[k]
  BY PartGrows
<1>7. TypeOK'
  <2>1. cfg'.records \in Nat /\ cfg'.perFile \in Nat \ {0} /\ cfg'.ips \in Nat \ {0}
    BY <1>1
  <2>2. i' \in 0..cfg'.records
    BY <1>1
  <2>3. fileIdx' \in Nat /\ fileCount' \in 0..cfg'.perFile
    BY <1>1, <1>5
  <2>4. parts' \in [1..NumFiles' -> Seq(Record)]
    BY <1>2, <1>6
  <2>5. Record' = Record
    BY DEF Record
  <2> QED
    BY <2>1, <2>2, <2>3, <2>4, <2>5 DEF TypeOK
<1>8. PlaceOK'
  BY <1>1, <1>2, <1>5 DEF PlaceOK
<1>9. LengthsOK'
  <2>1. \A k \in 1..n :
          Len(parts[k]) = IF k <= fileIdx THEN p ELSE IF k = fileIdx + 1 THEN fileCount ELSE 0
    BY DEF Inv, LengthsOK
  <2> SUFFICES ASSUME NEW k \in 1..n
               PROVE  Len(parts'[k]) = IF k <= fileIdx' THEN p
                                       ELSE IF k = fileIdx' + 1 THEN fileCount' ELSE 0
    BY <1>1, <1>2 DEF LengthsOK
  <2> HIDE DEF r, p, n
  <2>2. CASE k = fileIdx + 1
    <3>1. Len(parts'[k]) = fileCount + 1
      BY <1>6, <2>2
    <3>2. CASE fileCount + 1 = p /\ fileIdx' = fileIdx + 1
      BY <1>1, <2>2, <3>1, <3>2
    <3>3. CASE fileIdx' = fileIdx /\ fileCount' = fileCount + 1
      BY <1>1, <2>2, <3>1, <3>3
    <3> QED
      BY <1>4, <3>2, <3>3
  <2>3. CASE k # fileIdx + 1
    <3>1. Len(parts'[k]) = IF k <= fileIdx THEN p ELSE 0
      BY <1>6, <2>1, <2>3
    <3>2. CASE fileIdx' = fileIdx + 1 /\ fileCount' = 0
      BY <1>1, <1>3, <2>3, <3>1, <3>2
    <3>3. CASE fileIdx' = fileIdx
      BY <1>1, <1>3, <2>3, <3>1, <3>3
    <3> QED
      BY <1>4, <3>2, <3>3
  <2> QED
    BY <2>2, <2>3
<1>10. RecordsOK'
  <2>1. \A k \in 1..n : \A j \in 1..Len(parts[k]) : parts[k][j].i = (k - 1) * p + j - 1
    BY DEF Inv, RecordsOK
  <2>2. Len(parts[fileIdx + 1]) = fileCount
    BY <1>1, <1>3 DEF Inv, LengthsOK
  <2> SUFFICES ASSUME NEW k \in 1..n, NEW j \in 1..Len(parts'[k])
               PROVE  parts'[k][j].i = (k - 1) * p + j - 1
    BY <1>1, <1>2 DEF RecordsOK
  <2> HIDE DEF r, p, n
  <2>3. CASE k # fileIdx + 1
    <3>1. parts'[k] = parts[k]
      BY <1>6, <2>3
    <3> QED
      BY <2>1, <3>1
  <2>4. CASE k = fileIdx + 1 /\ j = fileCount + 1
    <3>1. parts'[k][j].i = i
      BY <1>6, <2>4
    <3>2. k - 1 = fileIdx
      BY <1>1, <2>4
    <3>3. (k - 1) * p = fileIdx * p /\ fileIdx * p \in Nat
      BY <1>1, <3>2, OnePart
    <3> QED
      BY <1>1, <2>4, <3>1, <3>3
  <2>5. CASE k = fileIdx + 1 /\ j # fileCount + 1
    <3>1. j \in 1..fileCount
      BY <1>1, <1>6, <2>5
    <3>2. parts'[k][j] = parts[k][j]
      BY <1>6, <2>5, <3>1
    <3>3. j \in 1..Len(parts[k])
      BY <2>2, <2>5, <3>1
    <3> QED
      BY <2>1, <3>2, <3>3
  <2> QED
    BY <2>3, <2>4, <2>5
<1>11. MainOK'
  BY <1>1 DEF MainOK
<1> QED
  BY <1>7, <1>8, <1>9, <1>10, <1>11 DEF Inv

(* Every step keeps the invariant. *)
LEMMA NextStep ==
  ASSUME Inv, [Next]_vars
  PROVE  Inv'
<1>1. CASE WriteRecord
  BY <1>1, WriteTurn, TurnStep
<1>2. CASE WriteFails \/ MainFails
  <2>1. /\ pc' = "failed" /\ cfg' = cfg /\ i' = i /\ fileIdx' = fileIdx
        /\ fileCount' = fileCount /\ parts' = parts
    BY <1>2 DEF WriteFails, MainFails
  <2>2. NumFiles' = NumFiles
    BY <2>1 DEF NumFiles
  <2> QED
    BY <2>1, <2>2 DEF Inv, TypeOK, PlaceOK, LengthsOK, RecordsOK, MainOK
<1>3. CASE WriteMain
  <2>1. /\ i = cfg.records /\ cfg' = cfg /\ i' = i /\ fileIdx' = fileIdx
        /\ fileCount' = fileCount /\ parts' = parts
        /\ includes' = IF NumFiles = 1 THEN << >> ELSE [k \in 1..NumFiles |-> k]
    BY <1>3 DEF WriteMain
  <2>2. NumFiles' = NumFiles
    BY <2>1 DEF NumFiles
  <2>3. MainOK'
    BY <2>1, <2>2 DEF MainOK
  <2> QED
    BY <2>1, <2>2, <2>3 DEF Inv, TypeOK, PlaceOK, LengthsOK, RecordsOK
<1>4. CASE UNCHANGED vars
  <2>1. /\ pc' = pc /\ cfg' = cfg /\ i' = i /\ fileIdx' = fileIdx
        /\ fileCount' = fileCount /\ parts' = parts /\ includes' = includes
    BY <1>4 DEF vars
  <2>2. NumFiles' = NumFiles
    BY <2>1 DEF NumFiles
  <2> QED
    BY <2>1, <2>2 DEF Inv, TypeOK, PlaceOK, LengthsOK, RecordsOK, MainOK
<1> QED
  BY <1>1, <1>2, <1>3, <1>4 DEF Next

(* When all records are written the last part is the open one, since fewer  *)
(* parts could not hold them.                                               *)
LEMMA DoneExact ==
  ASSUME Inv
  PROVE  PartsExact
<1> DEFINE r == cfg.records
           p == cfg.perFile
           n == NumFiles
<1> SUFFICES ASSUME pc = "done" PROVE PartsExact
  BY DEF PartsExact
<1>1. /\ r \in Nat /\ p \in Nat \ {0} /\ fileIdx \in Nat /\ fileCount \in 0..p
      /\ i = r /\ i = fileIdx * p + fileCount /\ (n > 0 => fileIdx < n)
      /\ includes = IF n = 1 THEN << >> ELSE [k \in 1..n |-> k]
  BY DEF Inv, TypeOK, PlaceOK, MainOK
<1>2. n \in Nat /\ (r = 0 => n = 0) /\ (r > 0 => n > 0 /\ (n - 1) * p < r)
  BY <1>1, EnoughParts
<1>3. n > 0 => fileIdx = n - 1 /\ fileCount = r - (n - 1) * p
  <2> HIDE DEF r, p, n
  <2> SUFFICES ASSUME n > 0 PROVE fileIdx = n - 1 /\ fileCount = r - (n - 1) * p
    OBVIOUS
  <2>1. n - 1 \in Nat /\ (n - 1) * p \in Nat /\ fileIdx * p \in Nat /\ r > 0
    BY <1>1, <1>2, OnePart
  <2>2. ASSUME fileIdx < n - 1 PROVE FALSE
    <3>1. fileIdx * p + p <= (n - 1) * p
      BY <1>1, <2>1, <2>2, FewerParts
    <3> QED
      BY <1>1, <1>2, <2>1, <3>1
  <2>3. fileIdx = n - 1
    BY <1>1, <1>2, <2>2
  <2> QED
    BY <1>1, <2>1, <2>3
<1>4. ASSUME NEW k \in 1..n
      PROVE  /\ Len(parts[k]) = IF k < n THEN p ELSE r - (n - 1) * p
             /\ \A j \in 1..Len(parts[k]) : parts[k][j].i = (k - 1) * p + j - 1
  <2>1. /\ Len(parts[k]) = IF k <= fileIdx THEN p ELSE IF k = fileIdx + 1 THEN fileCount ELSE 0
        /\ \A j \in 1..Len(parts[k]) : parts[k][j].i = (k - 1) * p + j - 1
    BY <1>4 DEF Inv, LengthsOK, RecordsOK
  <2> HIDE DEF r, p, n
  <2>2. n > 0 /\ fileIdx = n - 1 /\ fileCount = r - (n - 1) * p
    BY <1>2, <1>3
  <2>3. (k <= fileIdx <=> k < n) /\ (k >= n => k = fileIdx + 1)
    BY <1>2, <2>2
  <2>4. Len(parts[k]) = IF k < n THEN p ELSE r - (n - 1) * p
    BY <1>2, <2>1, <2>2, <2>3
  <2> QED
    BY <2>1, <2>4
<1> QED
  BY <1>1, <1>4 DEF PartsExact

(* A finished zone holds every record once and in order, in parts of        *)
(* max_records_per_file, and the main file includes each part: the loop of  *)
(* zone_generator.py, for every number of records and size of a part.       *)
THEOREM PartsAlwaysExact == Spec => []PartsExact
<1>1. Spec => []Inv
  BY InitInv, NextStep, PTL DEF Spec
<1> QED
  BY <1>1, DoneExact, PTL

-----------------------------------------------------------------------------
(* The queries: one for each record, in the order of the records.           *)

QueriesOK ==
  /\ \E S : queries \in Seq(S)
  /\ Len(queries) = i
  /\ \A k \in 1..i : queries[k].name = IpIndex(k - 1)

(* A record has a number that was written, the name of its number, and the  *)
(* type that its query asks for, or the one this is stored as.              *)
Faithful(rec) ==
  /\ rec.i \in 0..(i - 1)
  /\ rec.name = IpIndex(rec.i)
  /\ rec.type = StoredAs(queries[rec.i + 1].type)

FaithfulOK == \A k \in 1..NumFiles : \A j \in 1..Len(parts[k]) : Faithful(parts[k][j])

AnswerInv == Inv /\ QueriesOK /\ FaithfulOK

(* There is no query before the first record. *)
LEMMA InitAnswer == Init => AnswerInv
<1> SUFFICES ASSUME Init PROVE AnswerInv
  OBVIOUS
<1>1. Inv
  BY InitInv
<1>2. i = 0 /\ queries = << >> /\ parts = [k \in 1..NumFiles |-> << >>]
  BY DEF Init
<1>3. queries \in Seq({}) /\ Len(queries) = 0
  BY <1>2
<1>4. QueriesOK
  BY <1>2, <1>3 DEF QueriesOK
<1>5. FaithfulOK
  BY <1>2 DEF FaithfulOK
<1> QED
  BY <1>1, <1>4, <1>5 DEF AnswerInv

(* An element more at the end of a sequence, of whatever kind.              *)
LEMMA OneMore ==
  ASSUME NEW S, NEW s \in Seq(S), NEW e
  PROVE  /\ Append(s, e) \in Seq(S \cup {e})
         /\ Len(Append(s, e)) = Len(s) + 1
         /\ Append(s, e)[Len(s) + 1] = e
         /\ \A k \in 1..Len(s) : Append(s, e)[k] = s[k]
<1>1. s \in Seq(S \cup {e})
  <2>1. s \in [1..Len(s) -> S] /\ Len(s) \in Nat
    BY LenProperties
  <2>2. s \in [1..Len(s) -> S \cup {e}]
    BY <2>1
  <2> QED
    BY <2>1, <2>2, SeqDef
<1> QED
  BY <1>1, AppendProperties

(* A turn of the loop appends the query of its record.                      *)
LEMMA TurnAnswer ==
  ASSUME AnswerInv, WriteRecord
  PROVE  QueriesOK' /\ FaithfulOK'
<1> DEFINE t == PatternOf(PatternNow)[IdxNow + 1]
           q == [name |-> IpIndex(i), type |-> t]
<1>1. Inv /\ Turn
  BY WriteTurn DEF AnswerInv
<1>2. i \in Nat /\ i' = i + 1 /\ cfg' = cfg /\ NumFiles' = NumFiles
      /\ NumFiles \in Nat /\ fileIdx + 1 \in 1..NumFiles /\ fileCount \in Nat
  BY <1>1, EnoughParts DEF Inv, TypeOK, Turn, NumFiles
<1>3. queries' = Append(queries, q)
  BY DEF WriteRecord, QueryOf
<1>4. NewRecord.i = i /\ NewRecord.name = IpIndex(i) /\ NewRecord.type = StoredAs(q.type)
  BY DEF NewRecord
<1>5. q.name = IpIndex(i)
  OBVIOUS
<1> HIDE DEF q
<1>6. PICK S : queries \in Seq(S)
  BY DEF AnswerInv, QueriesOK
<1>7. Len(queries) = i /\ \A k \in 1..i : queries[k].name = IpIndex(k - 1)
  BY DEF AnswerInv, QueriesOK
<1>8. /\ queries' \in Seq(S \cup {q}) /\ Len(queries') = i + 1
      /\ queries'[i + 1] = q /\ \A k \in 1..i : queries'[k] = queries[k]
  BY <1>3, <1>6, <1>7, OneMore
<1>9. \A n : IpIndex(n)' = IpIndex(n)
  BY <1>2 DEF IpIndex
<1>10. QueriesOK'
  <2>1. ASSUME NEW k \in 1..(i + 1)
        PROVE  queries'[k].name = IpIndex(k - 1)
    <3>1. CASE k = i + 1
      <4>1. k - 1 = i
        BY <1>2, <3>1
      <4> QED
        BY <1>5, <1>8, <3>1, <4>1
    <3>2. CASE k \in 1..i
      BY <1>7, <1>8, <3>2
    <3> QED
      BY <1>2, <3>1, <3>2
  <2> QED
    BY <1>2, <1>8, <1>9, <2>1 DEF QueriesOK
<1>11. ASSUME NEW rec, Faithful(rec)
       PROVE  Faithful(rec)'
  <2>1. rec.i \in 0..(i - 1) /\ rec.i + 1 \in 1..i /\ rec.i \in 0..i
    BY <1>2, <1>11 DEF Faithful
  <2>2. queries'[rec.i + 1] = queries[rec.i + 1]
    BY <1>8, <2>1
  <2>3. rec.name = IpIndex(rec.i)' /\ rec.type = StoredAs(queries'[rec.i + 1].type)
    BY <1>9, <1>11, <2>2 DEF Faithful
  <2>4. rec.i \in 0..(i' - 1)
    BY <1>2, <2>1
  <2> QED
    BY <2>3, <2>4 DEF Faithful
<1>12. ASSUME NEW rec, rec = NewRecord
       PROVE  Faithful(rec)'
  <2>1. rec.i = i /\ rec.name = IpIndex(i) /\ rec.type = StoredAs(q.type)
    BY <1>4, <1>12
  <2>2. rec.name = IpIndex(rec.i)'
    BY <1>9, <2>1
  <2>3. rec.type = StoredAs(queries'[rec.i + 1].type)
    BY <1>8, <2>1
  <2>4. rec.i \in 0..(i' - 1)
    BY <1>2, <2>1
  <2> QED
    BY <2>2, <2>3, <2>4 DEF Faithful
<1>13. FaithfulOK'
  <2> SUFFICES ASSUME NEW k \in 1..NumFiles, NEW j \in 1..Len(parts'[k])
               PROVE  Faithful(parts[k][j])'
    BY <1>2 DEF FaithfulOK
  <2>1. /\ Len(parts'[fileIdx + 1]) = fileCount + 1
        /\ parts'[fileIdx + 1][fileCount + 1] = NewRecord
        /\ \A m \in 1..fileCount : parts'[fileIdx + 1][m] = parts[fileIdx + 1][m]
        /\ \A m \in 1..NumFiles : m # fileIdx + 1 => parts'[m] = parts[m]
    BY <1>1, PartGrows
  <2>2. Len(parts[fileIdx + 1]) = fileCount
    BY <1>1, <1>2 DEF Inv, LengthsOK, TypeOK
  <2>3. \A m \in 1..NumFiles : \A n \in 1..Len(parts[m]) : Faithful(parts[m][n])
    BY DEF AnswerInv, FaithfulOK
  <2>4. PICK rec : rec = parts'[k][j]
    OBVIOUS
  <2>5. Faithful(rec) \/ rec = NewRecord
    <3>1. CASE k # fileIdx + 1
      BY <2>1, <2>3, <2>4, <3>1
    <3>2. CASE k = fileIdx + 1 /\ j = fileCount + 1
      BY <2>1, <2>4, <3>2
    <3>3. CASE k = fileIdx + 1 /\ j # fileCount + 1
      <4>1. j \in 1..fileCount
        BY <1>2, <2>1, <3>3
      <4>2. rec = parts[k][j] /\ j \in 1..Len(parts[k])
        BY <2>1, <2>2, <2>4, <3>3, <4>1
      <4> QED
        BY <2>3, <4>2
    <3> QED
      BY <3>1, <3>2, <3>3
  <2>6. Faithful(rec)'
    BY <1>11, <1>12, <2>5
  <2> QED
    BY <2>4, <2>6 DEF Faithful
<1> QED
  BY <1>10, <1>13

(* Every step keeps the queries in line with the records. *)
LEMMA AnswerStep ==
  ASSUME AnswerInv, [Next]_vars
  PROVE  AnswerInv'
<1>1. Inv'
  BY NextStep DEF AnswerInv
<1>2. CASE WriteRecord
  BY <1>1, <1>2, TurnAnswer DEF AnswerInv
<1>3. CASE WriteFails \/ WriteMain \/ MainFails \/ UNCHANGED vars
  <2>1. cfg' = cfg /\ i' = i /\ parts' = parts /\ queries' = queries
    BY <1>3 DEF WriteFails, WriteMain, MainFails, vars
  <2>2. NumFiles' = NumFiles /\ \A n : IpIndex(n)' = IpIndex(n)
    BY <2>1 DEF NumFiles, IpIndex
  <2>3. QueriesOK'
    BY <2>1, <2>2 DEF AnswerInv, QueriesOK
  <2>4. FaithfulOK'
    BY <2>1, <2>2 DEF AnswerInv, FaithfulOK, Faithful
  <2> QED
    BY <1>1, <2>3, <2>4 DEF AnswerInv
<1> QED
  BY <1>2, <1>3 DEF Next

(* Quotient and remainder are unique: a record number has one place.        *)
LEMMA SamePlace ==
  ASSUME NEW p \in Nat \ {0}, NEW a \in Nat, NEW b \in Nat,
         NEW x \in 0..(p - 1), NEW y \in 0..(p - 1), a * p + x = b * p + y
  PROVE  a = b /\ x = y
<1>1. a * p \in Nat /\ b * p \in Nat
  BY OnePart
<1>2. ~(a < b)
  <2> SUFFICES ASSUME a < b PROVE FALSE
    OBVIOUS
  <2>1. a * p + p <= b * p
    BY FewerParts
  <2> QED
    BY <1>1, <2>1
<1>3. ~(b < a)
  <2> SUFFICES ASSUME b < a PROVE FALSE
    OBVIOUS
  <2>1. b * p + p <= a * p
    BY FewerParts
  <2> QED
    BY <1>1, <2>1
<1>4. a = b
  BY <1>2, <1>3
<1> QED
  BY <1>1, <1>4

(* In a finished zone the record with number n is in its part, and nowhere  *)
(* else.                                                                    *)
LEMMA PlaceOfNumber ==
  ASSUME Inv, pc = "done", NEW n \in 0..(cfg.records - 1)
  PROVE  \E p \in Places : /\ RecordAt(p).i = n
                           /\ \A o \in Places : RecordAt(o).i = n => o = p
<1> DEFINE r == cfg.records
           f == cfg.perFile
           m == NumFiles
           d == n \div f
<1>1. r \in Nat /\ f \in Nat \ {0} /\ n \in Nat /\ n < r
  BY DEF Inv, TypeOK
<1>2. m \in Nat /\ r <= m * f
  BY <1>1, EnoughParts
<1>3. \A k \in 1..m :
        /\ Len(parts[k]) = IF k < m THEN f ELSE r - (m - 1) * f
        /\ \A j \in 1..Len(parts[k]) : parts[k][j].i = (k - 1) * f + j - 1
  BY DoneExact DEF PartsExact
<1>4. d \in Nat /\ d * f <= n /\ n < d * f + f
  BY <1>1, Division
<1>p. \A p : p \in Places <=> \E k \in 1..m : \E j \in 1..Len(parts[k]) : p = <<k, j>>
  BY DEF Places
<1>s. \A k \in 1..m : \A j \in 1..Len(parts[k]) : RecordAt(<<k, j>>).i = (k - 1) * f + (j - 1)
  <2> SUFFICES ASSUME NEW k \in 1..m, NEW j \in 1..Len(parts[k])
               PROVE  parts[k][j].i = (k - 1) * f + (j - 1)
    BY DEF RecordAt
  <2>1. parts[k][j].i = (k - 1) * f + j - 1
    BY <1>3
  <2>2. (k - 1) * f \in Nat /\ k - 1 \in Nat
    BY <1>1, OnePart
  <2>3. parts[k] \in Seq(Record)
    BY DEF Inv, TypeOK
  <2>4. j \in Nat
    BY <2>3
  <2> QED
    BY <2>1, <2>2, <2>4
<1> HIDE DEF r, f, m, d
<1>5. d < m
  <2> SUFFICES ASSUME m <= d PROVE FALSE
    BY <1>2, <1>4
  <2>1. m * f <= d * f
    <3>1. CASE m = d
      BY <1>1, <1>2, <3>1, OnePart
    <3>2. CASE m < d
      BY <1>1, <1>2, <1>4, <3>2, FewerParts, OnePart
    <3> QED
      BY <1>2, <1>4, <3>1, <3>2
  <2>2. m * f \in Nat /\ d * f \in Nat
    BY <1>1, <1>2, <1>4, OnePart
  <2> QED
    BY <1>1, <1>2, <1>4, <2>1, <2>2
<1> DEFINE k0 == d + 1
           j0 == n - d * f + 1
<1>6. k0 \in 1..m /\ k0 - 1 = d /\ d * f \in Nat /\ j0 \in 1..f
  BY <1>1, <1>2, <1>4, <1>5, OnePart
<1>7. j0 \in 1..Len(parts[k0])
  <2>1. CASE k0 < m
    BY <1>3, <1>6, <2>1
  <2>2. CASE ~(k0 < m)
    <3>1. k0 = m /\ m - 1 = d
      BY <1>2, <1>6, <2>2
    <3>2. Len(parts[k0]) = r - d * f
      BY <1>3, <1>6, <2>2, <3>1
    <3> QED
      BY <1>1, <1>6, <3>2
  <2> QED
    BY <2>1, <2>2
<1>8. <<k0, j0>> \in Places /\ RecordAt(<<k0, j0>>).i = n
  <2>1. RecordAt(<<k0, j0>>).i = d * f + (j0 - 1)
    BY <1>s, <1>6, <1>7
  <2>2. d * f + (j0 - 1) = n
    BY <1>1, <1>6
  <2> QED
    BY <1>p, <1>6, <1>7, <2>1, <2>2
<1>9. ASSUME NEW o \in Places, RecordAt(o).i = n
      PROVE  o = <<k0, j0>>
  <2>1. PICK k \in 1..m : \E j \in 1..Len(parts[k]) : o = <<k, j>>
    BY <1>p
  <2>2. PICK j \in 1..Len(parts[k]) : o = <<k, j>>
    BY <2>1
  <2>3. (k - 1) * f + (j - 1) = n
    BY <1>s, <1>9, <2>2
  <2>4. k - 1 \in Nat /\ j - 1 \in 0..(f - 1)
    <3>1. Len(parts[k]) <= f /\ Len(parts[k]) \in Int
      <4>1. CASE k < m
        BY <1>1, <1>3, <4>1
      <4>2. CASE ~(k < m)
        <5>1. k = m /\ m - 1 \in Nat /\ m = (m - 1) + 1
          BY <1>2, <4>2
        <5>2. m * f = (m - 1) * f + f /\ (m - 1) * f \in Nat
          BY <1>1, <5>1, OnePart
        <5>3. Len(parts[k]) = r - (m - 1) * f
          BY <1>3, <4>2
        <5> QED
          BY <1>1, <1>2, <5>2, <5>3
      <4> QED
        BY <4>1, <4>2
    <3> QED
      BY <1>1, <1>2, <3>1
  <2>5. d \in Nat /\ j0 - 1 \in 0..(f - 1) /\ d * f + (j0 - 1) = n
    BY <1>1, <1>4, <1>6
  <2>6. k - 1 = d /\ j - 1 = j0 - 1
    <3> DEFINE a == k - 1
               x == j - 1
               y == j0 - 1
    <3>1. /\ a \in Nat /\ x \in 0..(f - 1) /\ y \in 0..(f - 1)
          /\ a * f + x = d * f + y
      BY <2>3, <2>4, <2>5
    <3> HIDE DEF a, x, y
    <3>2. a = d /\ x = y
      BY <1>1, <1>4, <3>1, SamePlace
    <3> QED
      BY <3>2 DEF a, x, y
  <2>7. k = k0 /\ j = j0
    BY <1>2, <1>6, <2>4, <2>6
  <2> QED
    BY <2>2, <2>7
<1> QED
  BY <1>8, <1>9

(* A record of the type and with the name of each query; and no other one   *)
(* of that name while there are addresses enough.                           *)
LEMMA DoneAnswerable ==
  ASSUME AnswerInv
  PROVE  QueriesAnswerable
<1> SUFFICES ASSUME pc = "done", NEW k \in DOMAIN queries
             PROVE  LET at == AtName(queries[k].name)
                    IN  /\ queries[k].type \in Stored =>
                             \E p \in at : RecordAt(p).type = queries[k].type
                        /\ cfg.records <= cfg.ips => Cardinality(at) = 1
  BY DEF QueriesAnswerable
<1> DEFINE at == AtName(queries[k].name)
           n  == k - 1
<1>1. /\ Inv /\ cfg.records \in Nat /\ cfg.ips \in Nat \ {0} /\ i = cfg.records
  BY DEF AnswerInv, Inv, TypeOK, MainOK
<1>2. k \in 1..cfg.records /\ queries[k].name = IpIndex(n)
  <2>1. DOMAIN queries = 1..Len(queries)
    BY LenProperties DEF AnswerInv, QueriesOK
  <2> QED
    BY <1>1, <2>1 DEF AnswerInv, QueriesOK
<1>3. n \in 0..(cfg.records - 1) /\ n + 1 = k
  BY <1>1, <1>2
<1>4. PICK p \in Places : /\ RecordAt(p).i = n
                          /\ \A o \in Places : RecordAt(o).i = n => o = p
  BY <1>1, <1>3, PlaceOfNumber
<1>5. \A o \in Places : Faithful(RecordAt(o))
  <2> SUFFICES ASSUME NEW o \in Places PROVE Faithful(RecordAt(o))
    OBVIOUS
  <2>1. PICK m \in 1..NumFiles : \E j \in 1..Len(parts[m]) : o = <<m, j>>
    BY DEF Places
  <2>2. PICK j \in 1..Len(parts[m]) : o = <<m, j>>
    BY <2>1
  <2> QED
    BY <2>2 DEF AnswerInv, FaithfulOK, RecordAt
<1>6. RecordAt(p).name = queries[k].name /\ RecordAt(p).type = StoredAs(queries[k].type)
  <2>1. Faithful(RecordAt(p))
    BY <1>5
  <2> QED
    BY <1>2, <1>3, <1>4, <2>1 DEF Faithful
<1>7. p \in at
  BY <1>6 DEF AtName
<1>8. queries[k].type \in Stored => RecordAt(p).type = queries[k].type
  BY <1>6 DEF StoredAs
<1>9. ASSUME cfg.records <= cfg.ips
      PROVE  Cardinality(at) = 1
  <2>1. ASSUME NEW o \in at PROVE o = p
    <3>1. o \in Places /\ RecordAt(o).name = IpIndex(n)
      BY <1>2 DEF AtName
    <3>2. RecordAt(o).i \in 0..(cfg.records - 1) /\ IpIndex(RecordAt(o).i) = IpIndex(n)
      BY <1>1, <1>5, <3>1 DEF Faithful
    <3>3. ASSUME NEW a \in 0..(cfg.records - 1)
          PROVE  IpIndex(a) = a + 1
      BY <1>1, <1>9 DEF IpIndex
    <3>4. RecordAt(o).i = n
      BY <1>1, <1>3, <3>2, <3>3
    <3> QED
      BY <1>4, <3>1, <3>4
  <2>2. at = {p}
    BY <1>7, <2>1
  <2> QED
    BY <2>2, FS_Singleton
<1> QED
  BY <1>7, <1>8, <1>9

(* Each query of a finished zone has a record to answer it, of its name and *)
(* of its type when zone files can hold that; and when there are as many    *)
(* addresses as records no other record has that name.                      *)
THEOREM QueriesAlwaysAnswerable == Spec => []QueriesAnswerable
<1>1. Spec => []AnswerInv
  BY InitAnswer, AnswerStep, PTL DEF Spec
<1> QED
  BY <1>1, DoneAnswerable, PTL

-----------------------------------------------------------------------------
(* The record types: each has its place in the order, and sums over them.   *)

N == Len(TypesOrder)

Listed(f) == [k \in 1..N |-> f[TypesOrder[k]]]

(* The order lists every type once. *)
LEMMA OrderOfTypes ==
  /\ N \in Nat
  /\ \A k \in 1..N : TypesOrder[k] \in Types
  /\ \A t \in Types : \E k \in 1..N : TypesOrder[k] = t
  /\ \A j, k \in 1..N : TypesOrder[j] = TypesOrder[k] => j = k
<1>1. TypesOrder \in Seq(Types) /\ \A j, k \in DOMAIN TypesOrder : TypesOrder[j] = TypesOrder[k] => j = k
  BY ZoneAssumption
<1>2. N \in Nat /\ DOMAIN TypesOrder = 1..N
  BY <1>1, LenProperties DEF N
<1> QED
  BY <1>1, <1>2 DEF Types

(* SumOver is the last of the running sums.                                 *)
LEMMA SumOverIs ==
  ASSUME NEW f
  PROVE  \E s : IsSums(s, Listed(f), N) /\ SumOver(f) = s[N]
<1> DEFINE d == Listed(f)
<1>1. N \in Nat
  BY OrderOfTypes
<1>2. \A k \in 1..N : d[k] = f[TypesOrder[k]]
  BY DEF Listed
<1> HIDE DEF d
<1>3. \E s : s = [k \in 0..N |-> IF k = 0 THEN 0 ELSE s[k - 1] + d[k]]
  BY <1>1, SumsExist DEF IsSums
<1>4. \A r : [k \in 0..N |-> IF k = 0 THEN 0 ELSE r[k - 1] + d[k]]
               = [k \in 0..N |-> IF k = 0 THEN 0 ELSE r[k - 1] + f[TypesOrder[k]]]
  <2> SUFFICES ASSUME NEW r, NEW k \in 0..N, k # 0
               PROVE  r[k - 1] + d[k] = r[k - 1] + f[TypesOrder[k]]
    OBVIOUS
  <2>1. k \in 1..N
    BY <1>1
  <2> QED
    BY <1>2, <2>1
<1> DEFINE s == CHOOSE r : r = [k \in 0..N |-> IF k = 0 THEN 0 ELSE r[k - 1] + d[k]]
<1>5. IsSums(s, d, N)
  BY <1>3 DEF IsSums
<1>6. s = CHOOSE r : r = [k \in 0..N |-> IF k = 0 THEN 0 ELSE r[k - 1] + f[TypesOrder[k]]]
  BY <1>4
<1>7. SumOver(f) = s[N]
  BY <1>6 DEF SumOver, N
<1> QED
  BY <1>5, <1>7 DEF d

(* A sum of numbers is a number, and no smaller than one of them; it grows  *)
(* by what one of them grows by.                                            *)
LEMMA SumOverProperties ==
  ASSUME NEW f \in [Types -> Nat], NEW t \in Types, NEW a \in Nat
  PROVE  /\ SumOver(f) \in Nat
         /\ SumOver([f EXCEPT ![t] = f[t] + a]) = SumOver(f) + a
         /\ f[t] <= SumOver(f)
<1>1. N \in Nat /\ (\A k \in 1..N : TypesOrder[k] \in Types)
      /\ (\A j, k \in 1..N : TypesOrder[j] = TypesOrder[k] => j = k)
  BY OrderOfTypes
<1>2. PICK p \in 1..N : TypesOrder[p] = t
  BY OrderOfTypes
<1>3. ASSUME NEW g \in [Types -> Nat]
      PROVE  Listed(g) \in [1..N -> Nat] /\ \A k \in 1..N : Listed(g)[k] = g[TypesOrder[k]]
  BY <1>1 DEF Listed
<1>4. ASSUME NEW g \in [Types -> Nat]
      PROVE  SumOver(g) \in Nat
  <2>1. PICK s : IsSums(s, Listed(g), N) /\ SumOver(g) = s[N]
    BY SumOverIs
  <2>2. \A k \in 0..N : s[k] \in Nat
    BY <1>1, <1>3, <2>1, SumsType
  <2> QED
    BY <1>1, <2>1, <2>2
<1>5. ASSUME NEW g \in [Types -> Nat], NEW b \in Nat
      PROVE  SumOver([g EXCEPT ![t] = g[t] + b]) = SumOver(g) + b
  <2> DEFINE h == [g EXCEPT ![t] = g[t] + b]
  <2>1. h \in [Types -> Nat] /\ h[t] = g[t] + b /\ \A v \in Types : v # t => h[v] = g[v]
    OBVIOUS
  <2> HIDE DEF h
  <2>2. PICK s : IsSums(s, Listed(g), N) /\ SumOver(g) = s[N]
    BY SumOverIs
  <2>3. PICK r : IsSums(r, Listed(h), N) /\ SumOver(h) = r[N]
    BY SumOverIs
  <2>4. Listed(g) \in [1..N -> Nat] /\ Listed(h) \in [1..N -> Nat]
    BY <1>3, <2>1
  <2>5. Grows(Listed(g), Listed(h), N, s[N], r[N])
    BY <1>1, <2>2, <2>3, <2>4, SumsGrow
  <2>6. Listed(h)[p] = Listed(g)[p] + b
    BY <1>2, <1>3, <2>1
  <2>8. \A k \in 1..N : k # p => Listed(h)[k] = Listed(g)[k]
    <3> SUFFICES ASSUME NEW k \in 1..N, k # p PROVE Listed(h)[k] = Listed(g)[k]
      OBVIOUS
    <3>1. TypesOrder[k] \in Types /\ TypesOrder[k] # t
      BY <1>1, <1>2
    <3> QED
      BY <1>3, <2>1, <3>1
  <2>7. r[N] = s[N] + b
    BY <2>5, <2>6, <2>8 DEF Grows
  <2> QED
    BY <2>2, <2>3, <2>7 DEF h
<1>6. f[t] <= SumOver(f)
  <2> DEFINE z == [f EXCEPT ![t] = 0]
  <2>1. z \in [Types -> Nat] /\ z[t] = 0 /\ f[t] \in Nat
    OBVIOUS
  <2>2. [z EXCEPT ![t] = z[t] + f[t]] = f
    <3>1. [z EXCEPT ![t] = f[t]] = f
      OBVIOUS
    <3> QED
      BY <2>1, <3>1
  <2> HIDE DEF z
  <2>3. SumOver(f) = SumOver(z) + f[t] /\ SumOver(z) \in Nat
    BY <1>4, <1>5, <2>1, <2>2
  <2> QED
    BY <2>1, <2>3
<1> QED
  BY <1>4, <1>5, <1>6

(* Products distribute over one addition.                                   *)
LEMMA Distribute ==
  ASSUME NEW x \in Nat, NEW y \in Nat, NEW a \in Nat
  PROVE  (x + y) * a = x * a + y * a /\ x * a \in Nat /\ y * a \in Nat
  BY SMTT(30)

(* Two pairs of numbers in the same proportion have sums in it.             *)
LEMMA InProportion ==
  ASSUME NEW x \in Nat, NEW y \in Nat, NEW u \in Nat, NEW v \in Nat,
         NEW a \in Nat, NEW b \in Nat, x * a <= u * b, y * a <= v * b
  PROVE  (x + y) * a <= (u + v) * b
<1>1. (x + y) * a = x * a + y * a /\ x * a \in Nat /\ y * a \in Nat
  BY Distribute
<1>2. (u + v) * b = u * b + v * b /\ u * b \in Nat /\ v * b \in Nat
  BY Distribute
<1> DEFINE x1 == x * a
           y1 == y * a
           u1 == u * b
           v1 == v * b
<1>3. x1 \in Nat /\ y1 \in Nat /\ u1 \in Nat /\ v1 \in Nat /\ x1 <= u1 /\ y1 <= v1
  BY <1>1, <1>2
<1>4. (x + y) * a = x1 + y1 /\ (u + v) * b = u1 + v1
  BY <1>1, <1>2
<1> HIDE DEF x1, y1, u1, v1
<1> QED
  BY <1>3, <1>4

(* Numbers that are in proportion at most as large, and such sums.          *)
Scaled(d, e, n, x, y) ==
  \A a, b \in Nat : (\A k \in 1..n : d[k] * a <= e[k] * b) => x * a <= y * b

(* Sums of numbers that are in proportion at most as large are so too.      *)
LEMMA SumsScaled ==
  ASSUME NEW n \in Nat, NEW d \in [1..n -> Nat], NEW e \in [1..n -> Nat],
         NEW s, NEW r, IsSums(s, d, n), IsSums(r, e, n)
  PROVE  Scaled(d, e, n, s[n], r[n])
<1>1. /\ s[0] = 0 /\ \A k \in 1..n : s[k] = s[k - 1] + d[k]
      /\ r[0] = 0 /\ \A k \in 1..n : r[k] = r[k - 1] + e[k]
      /\ \A k \in 0..n : s[k] \in Nat /\ r[k] \in Nat
  <2>1. s[0] = 0 /\ \A k \in 1..n : s[k] = s[k - 1] + d[k]
    BY SumsStep
  <2>2. r[0] = 0 /\ \A k \in 1..n : r[k] = r[k - 1] + e[k]
    BY SumsStep
  <2>3. \A k \in 0..n : s[k] \in Nat
    BY SumsType
  <2>4. \A k \in 0..n : r[k] \in Nat
    BY SumsType
  <2> QED
    BY <2>1, <2>2, <2>3, <2>4
<1> SUFFICES ASSUME NEW a \in Nat, NEW b \in Nat, \A k \in 1..n : d[k] * a <= e[k] * b
             PROVE  s[n] * a <= r[n] * b
  BY DEF Scaled
<1> DEFINE G == {k \in 0..n : s[k] * a <= r[k] * b}
<1>2. 0 \in G
  BY <1>1
<1>3. ASSUME NEW k \in 0..(n - 1), k \in G PROVE k + 1 \in G
  <2> DEFINE x == s[k]
             y == d[k + 1]
             u == r[k]
             v == e[k + 1]
  <2>1. k + 1 \in 1..n /\ k + 1 \in 0..n
    OBVIOUS
  <2>2. s[k + 1] = x + y /\ r[k + 1] = u + v /\ x \in Nat /\ y \in Nat /\ u \in Nat /\ v \in Nat
    BY <1>1, <2>1
  <2>3. x * a <= u * b /\ y * a <= v * b
    BY <1>3, <2>1
  <2> HIDE DEF x, y, u, v
  <2>4. (x + y) * a <= (u + v) * b
    BY <2>2, <2>3, InProportion
  <2>5. s[k + 1] * a <= r[k + 1] * b
    BY <2>2, <2>4
  <2> QED
    BY <2>1, <2>5
<1> HIDE DEF G
<1>4. n \in G
  <2>1. 0..n \subseteq G
    BY <1>2, <1>3, UpTo
  <2> QED
    BY <2>1
<1> QED
  BY <1>4 DEF G

(* The same of SumOver, and the sum of zeros.                               *)
LEMMA SumOverScaled ==
  ASSUME NEW f \in [Types -> Nat], NEW g \in [Types -> Nat]
  PROVE  \A a, b \in Nat :
           (\A t \in Types : f[t] * a <= g[t] * b) => SumOver(f) * a <= SumOver(g) * b
<1>1. N \in Nat /\ \A k \in 1..N : TypesOrder[k] \in Types
  BY OrderOfTypes
<1>2. Listed(f) \in [1..N -> Nat] /\ Listed(g) \in [1..N -> Nat]
  BY <1>1 DEF Listed
<1>3. PICK s : IsSums(s, Listed(f), N) /\ SumOver(f) = s[N]
  BY SumOverIs
<1>4. PICK r : IsSums(r, Listed(g), N) /\ SumOver(g) = r[N]
  BY SumOverIs
<1>5. Scaled(Listed(f), Listed(g), N, s[N], r[N])
  BY <1>1, <1>2, <1>3, <1>4, SumsScaled
<1> SUFFICES ASSUME NEW a \in Nat, NEW b \in Nat, \A t \in Types : f[t] * a <= g[t] * b
             PROVE  SumOver(f) * a <= SumOver(g) * b
  OBVIOUS
<1>6. \A k \in 1..N : Listed(f)[k] * a <= Listed(g)[k] * b
  <2> SUFFICES ASSUME NEW k \in 1..N PROVE Listed(f)[k] * a <= Listed(g)[k] * b
    OBVIOUS
  <2>1. Listed(f)[k] = f[TypesOrder[k]] /\ Listed(g)[k] = g[TypesOrder[k]]
    BY DEF Listed
  <2> QED
    BY <1>1, <2>1
<1>7. s[N] * a <= r[N] * b
  BY <1>5, <1>6 DEF Scaled
<1> QED
  BY <1>3, <1>4, <1>7

(* A sum of zeros is zero.                                                  *)
LEMMA SumOverZero ==
  ASSUME NEW f, \A t \in Types : f[t] = 0
  PROVE  SumOver(f) = 0
<1>1. N \in Nat /\ \A k \in 1..N : TypesOrder[k] \in Types
  BY OrderOfTypes
<1>2. PICK s : IsSums(s, Listed(f), N) /\ SumOver(f) = s[N]
  BY SumOverIs
<1>3. \A k \in 1..N : Listed(f)[k] = 0
  BY <1>1 DEF Listed
<1> QED
  BY <1>1, <1>2, <1>3, SumsZero

-----------------------------------------------------------------------------
(* The counts of the remainder *)

CfgOK ==
  /\ cfg.weights \in [Types -> Nat] /\ cfg.records \in Nat
  /\ Total \in Nat \ {0}
  /\ \A t \in cfg.short : Product(t) > 0 /\ Product(t) % Total = 0

(* The first of the heaviest types exists.                                  *)
LEMMA MostCommonType ==
  ASSUME CfgOK
  PROVE  MostCommon \in Types
<1> DEFINE w == cfg.weights
           heights == {w[TypesOrder[k]] : k \in 1..N}
<1>1. w \in [Types -> Nat] /\ Total = SumOver(w) /\ Total \in Nat \ {0}
  BY DEF CfgOK, Total
<1> HIDE DEF w
<1>2. /\ N \in Nat
      /\ \A k \in 1..N : TypesOrder[k] \in Types
      /\ \A t \in Types : \E k \in 1..N : TypesOrder[k] = t
  BY OrderOfTypes
<1>3. N > 0
  <2> SUFFICES ASSUME N = 0 PROVE FALSE
    BY <1>2
  <2>1. PICK s : IsSums(s, Listed(w), N) /\ SumOver(w) = s[N]
    BY SumOverIs
  <2>2. s[0] = 0
    BY <1>2, <2>1, SumsStep
  <2> QED
    BY <1>1, <2>1, <2>2
<1>4. heights \subseteq 0..Total /\ heights # {}
  <2>1. \A t \in Types : w[t] \in Nat /\ w[t] <= Total
    <3> SUFFICES ASSUME NEW t \in Types PROVE w[t] \in Nat /\ w[t] <= Total
      OBVIOUS
    <3>1. w[t] <= SumOver(w)
      BY <1>1, SumOverProperties, 0 \in Nat
    <3> QED
      BY <1>1, <3>1
  <2> QED
    BY <1>1, <1>2, <1>3, <2>1
<1>5. PICK top \in heights : \A h \in heights : h <= top
  <2> HIDE DEF heights
  <2> QED
    BY <1>1, <1>4, GreatestElement
<1> DEFINE first == {k \in 1..N : w[TypesOrder[k]] = top}
<1>6. first \subseteq Nat /\ first # {}
  BY <1>5
<1>7. PICK k \in first : \A j \in first : k <= j
  <2> HIDE DEF first
  <2> QED
    BY <1>6, LeastElement
<1>8. k \in 1..N /\ w[TypesOrder[k]] = top
  BY <1>7
<1>9. \A t \in Types : w[t] <= w[TypesOrder[k]]
  BY <1>2, <1>5, <1>8
<1>10. \A j \in 1..(k - 1) : w[TypesOrder[j]] < w[TypesOrder[k]]
  <2> SUFFICES ASSUME NEW j \in 1..(k - 1) PROVE w[TypesOrder[j]] < top
    BY <1>8
  <2>1. j \in 1..N /\ j < k
    BY <1>2, <1>8
  <2>2. j \notin first
    BY <1>2, <1>7, <1>8, <2>1
  <2>3. w[TypesOrder[j]] # top /\ w[TypesOrder[j]] <= top
    BY <1>5, <2>1, <2>2
  <2>4. w[TypesOrder[j]] \in Nat /\ top \in Nat
    BY <1>1, <1>2, <1>8, <2>1
  <2> QED
    BY <2>3, <2>4
<1>11. DOMAIN TypesOrder = 1..N
  BY ZoneAssumption, LenProperties DEF N
<1>12. \E q \in DOMAIN TypesOrder :
         /\ \A t \in Types : cfg.weights[t] <= cfg.weights[TypesOrder[q]]
         /\ \A j \in 1..(q - 1) : cfg.weights[TypesOrder[j]] < cfg.weights[TypesOrder[q]]
  BY <1>8, <1>9, <1>10, <1>11 DEF w
<1>13. \E q \in DOMAIN TypesOrder : MostCommon = TypesOrder[q]
  BY <1>12 DEF MostCommon
<1> QED
  BY <1>2, <1>11, <1>13

(* The quotient of a multiple and a remainder. *)
LEMMA QuotientIs ==
  ASSUME NEW p \in Nat \ {0}, NEW a \in Nat, NEW x \in 0..(p - 1)
  PROVE  (a * p + x) \div p = a /\ (a * p + x) % p = x
<1>1. a * p \in Nat /\ a * p + x \in Nat
  BY OnePart
<1> DEFINE z == a * p + x
           q == z \div p
           y == z % p
<1>2. q \in Nat /\ y \in 0..(p - 1) /\ z = p * q + y
  BY <1>1
<1>3. p * q = q * p
  BY <1>2
<1>4. z = a * p + x
  OBVIOUS
<1> HIDE DEF z, q, y
<1>5. a * p + x = q * p + y
  BY <1>2, <1>3, <1>4
<1>6. a = q /\ x = y
  BY <1>2, <1>5, SamePlace
<1> QED
  BY <1>6 DEF z, q, y

(* A common factor may be taken off. *)
LEMMA TakeFactor ==
  ASSUME NEW p \in Nat \ {0}, NEW a \in Nat, NEW b \in Nat, a * p <= b * p
  PROVE  a <= b
<1> SUFFICES ASSUME b < a PROVE FALSE
  OBVIOUS
<1>1. b * p + p <= a * p /\ b * p \in Nat
  BY FewerParts, OnePart
<1> QED
  BY <1>1

(* Products of numbers are numbers, in either order.                        *)
LEMMA Products ==
  ASSUME NEW x \in Nat, NEW y \in Nat
  PROVE  x * y \in Nat /\ x * y = y * x
  BY SMTT(30)

(* A share of the remainder is a number, and not more than its proportion.  *)
LEMMA SharesAre ==
  ASSUME CfgOK
  PROVE  /\ Rest \in Nat /\ Rest < Total
         /\ Shares \in [Types -> Nat]
         /\ \A t \in Types : Shares[t] * Total <= cfg.weights[t] * Rest
         /\ \A t \in Types :
              Shares[t] = (Product(t) \div Total) - (IF t \in cfg.short THEN 1 ELSE 0)
<1>1. Total \in Nat \ {0} /\ cfg.records \in Nat /\ cfg.weights \in [Types -> Nat]
  BY DEF CfgOK
<1>2. Rest \in Nat /\ Rest < Total
  <2> DEFINE m == Total
  <2>1. m \in Nat \ {0}
    BY <1>1
  <2> HIDE DEF m
  <2>2. cfg.records % m \in Nat /\ cfg.records % m < m
    BY <1>1, <2>1
  <2> QED
    BY <2>2 DEF Rest, m
<1>3. \A t \in Types : Shares[t] = (Product(t) \div Total) - (IF t \in cfg.short THEN 1 ELSE 0)
  BY DEF Shares
<1>4. ASSUME NEW t \in Types
      PROVE  Shares[t] \in Nat /\ Shares[t] * Total <= cfg.weights[t] * Rest
  <2> DEFINE m == Total
             z == Product(t)
             q == z \div m
  <2>1. m \in Nat \ {0} /\ z \in Nat /\ z = cfg.weights[t] * Rest
    <3>1. cfg.weights[t] \in Nat
      BY <1>1
    <3> QED
      BY <1>1, <1>2, <3>1, Products DEF Product
  <2>2. t \in cfg.short => z > 0 /\ z % m = 0
    BY DEF CfgOK
  <2>3. Shares[t] = q - (IF t \in cfg.short THEN 1 ELSE 0)
    BY <1>3
  <2> HIDE DEF m, z
  <2>4. q \in Nat /\ q * m <= z /\ z < q * m + m
    BY <2>1, Division
  <2>5. t \in cfg.short => q > 0
    <3> SUFFICES ASSUME t \in cfg.short, q = 0 PROVE FALSE
      BY <2>4
    <3>1. z < m
      <4> DEFINE y == q * m
      <4>1. y = 0 /\ z < y + m
        BY <2>1, <2>4
      <4> HIDE DEF y
      <4> QED
        BY <2>1, <4>1
    <3>2. z % m = z
      BY <2>1, <3>1
    <3> QED
      BY <2>1, <2>2, <3>2
  <2>6. Shares[t] \in Nat /\ Shares[t] <= q
    BY <2>3, <2>4, <2>5
  <2>7. Shares[t] * m <= q * m
    <3>1. CASE Shares[t] = q
      BY <2>1, <2>4, <3>1, OnePart
    <3>2. CASE Shares[t] < q
      <4>1. Shares[t] * m + m <= q * m /\ Shares[t] * m \in Nat /\ q * m \in Nat
        BY <2>1, <2>4, <2>6, <3>2, FewerParts, OnePart
      <4> QED
        BY <2>1, <4>1
    <3> QED
      BY <2>4, <2>6, <3>1, <3>2
  <2>8. Shares[t] * m \in Nat /\ q * m \in Nat
    BY <2>1, <2>4, <2>6, OnePart
  <2>9. Shares[t] * m <= z
    BY <2>1, <2>4, <2>7, <2>8
  <2> QED
    BY <2>1, <2>6, <2>9 DEF m
<1>5. Shares \in [Types -> Nat]
  BY <1>4 DEF Shares
<1> QED
  BY <1>2, <1>3, <1>4, <1>5

(* The shares leave a number over, which the most common type gets.         *)
LEMMA RemainingAre ==
  ASSUME CfgOK
  PROVE  /\ RemainingCounts \in [Types -> Nat]
         /\ SumOver(RemainingCounts) = Rest
         /\ \A t \in Types : t # MostCommon => RemainingCounts[t] = Shares[t]
         /\ RemainingCounts[MostCommon] >= Shares[MostCommon]
<1> DEFINE S == Shares
           r == Rest
           c == MostCommon
           a == r - SumOver(S)
<1>1. /\ r \in Nat /\ S \in [Types -> Nat]
      /\ \A t \in Types : S[t] * Total <= cfg.weights[t] * r
  BY SharesAre
<1>2. c \in Types
  BY MostCommonType
<1>3. cfg.weights \in [Types -> Nat] /\ Total = SumOver(cfg.weights) /\ Total \in Nat \ {0}
  BY DEF CfgOK, Total
<1>4. RemainingCounts = [S EXCEPT ![c] = S[c] + r - SumOver(S)]
  BY DEF RemainingCounts
<1> HIDE DEF S, r, c
<1>5. SumOver(S) \in Nat
  BY <1>1, <1>2, 0 \in Nat, SumOverProperties
<1>6. SumOver(S) <= r
  <2>1. SumOver(S) * Total <= SumOver(cfg.weights) * r
    BY <1>1, <1>3, SumOverScaled
  <2>2. SumOver(S) * Total <= r * Total
    BY <1>1, <1>3, <2>1, Products
  <2> QED
    BY <1>1, <1>3, <1>5, <2>2, TakeFactor
<1>7. a \in Nat /\ S[c] \in Nat /\ S[c] + r - SumOver(S) = S[c] + a
  BY <1>1, <1>2, <1>5, <1>6
<1>8. RemainingCounts = [S EXCEPT ![c] = S[c] + a]
  BY <1>4, <1>7
<1>9. SumOver(RemainingCounts) = SumOver(S) + a
  <2> HIDE DEF a
  <2> QED
    BY <1>1, <1>2, <1>7, <1>8, SumOverProperties
<1>10. SumOver(S) + a = r
  BY <1>1, <1>5
<1> HIDE DEF a
<1>11. RemainingCounts[c] = S[c] + a /\ \A t \in Types : t # c => RemainingCounts[t] = S[t]
  BY <1>1, <1>2, <1>8
<1>12. RemainingCounts \in [Types -> Nat]
  BY <1>1, <1>2, <1>7, <1>8
<1>13. RemainingCounts[c] >= S[c]
  BY <1>7, <1>11
<1> QED
  BY <1>9, <1>10, <1>11, <1>12, <1>13 DEF S, r, c

-----------------------------------------------------------------------------
(* How often a type occurs among the first n elements.                      *)

Occ(s, n, t) == Cardinality({k \in 1..n : s[k] = t})

(* A set of indices up to n + 1 has one element more when it has n + 1.     *)
LEMMA OneIndexMore ==
  ASSUME NEW n \in Nat, NEW S, NEW R, S \subseteq 1..(n + 1), R = S \ {n + 1}
  PROVE  /\ Cardinality(R) \in Nat
         /\ Cardinality(S) = Cardinality(R) + (IF n + 1 \in S THEN 1 ELSE 0)
<1>1. IsFiniteSet(R)
  <2>1. R \subseteq 1..(n + 1) /\ IsFiniteSet(1..(n + 1))
    BY FS_Interval
  <2> QED
    BY <2>1, FS_Subset
<1>2. Cardinality(R) \in Nat
  BY <1>1, FS_CardinalityType
<1>3. CASE n + 1 \in S
  <2>1. S = R \cup {n + 1} /\ n + 1 \notin R
    BY <1>3
  <2>2. Cardinality(S) = Cardinality(R) + 1
    BY <1>1, <2>1, FS_AddElement
  <2> QED
    BY <1>2, <1>3, <2>2
<1>4. CASE n + 1 \notin S
  <2>1. S = R
    BY <1>4
  <2> QED
    BY <1>2, <1>4, <2>1
<1> QED
  BY <1>3, <1>4, <1>2

(* One element more: a type occurs once more when it is that element.       *)
LEMMA OccNext ==
  ASSUME NEW n \in Nat, NEW s, NEW t
  PROVE  /\ Occ(s, 0, t) = 0
         /\ Occ(s, n, t) \in Nat
         /\ Occ(s, n + 1, t) = Occ(s, n, t) + (IF s[n + 1] = t THEN 1 ELSE 0)
<1>1. Occ(s, 0, t) = 0
  <2>1. {k \in 1..0 : s[k] = t} = {}
    OBVIOUS
  <2> QED
    BY <2>1, FS_EmptySet DEF Occ
<1> DEFINE S == {k \in 1..(n + 1) : s[k] = t}
           R == {k \in 1..n : s[k] = t}
<1>2. S \subseteq 1..(n + 1) /\ R = S \ {n + 1} /\ (n + 1 \in S <=> s[n + 1] = t)
  OBVIOUS
<1>3. Occ(s, n + 1, t) = Cardinality(S) /\ Occ(s, n, t) = Cardinality(R)
  BY DEF Occ
<1> HIDE DEF S, R
<1>4. /\ Cardinality(R) \in Nat
      /\ Cardinality(S) = Cardinality(R) + (IF n + 1 \in S THEN 1 ELSE 0)
  BY <1>2, OneIndexMore
<1> QED
  BY <1>1, <1>2, <1>3, <1>4

(* Only the first n elements count.                                         *)
LEMMA OccSame ==
  ASSUME NEW n, NEW s, NEW r, NEW t, \A k \in 1..n : s[k] = r[k]
  PROVE  Occ(s, n, t) = Occ(r, n, t)
<1>1. {k \in 1..n : s[k] = t} = {k \in 1..n : r[k] = t}
  OBVIOUS
<1> QED
  BY <1>1 DEF Occ

-----------------------------------------------------------------------------
(* The turns of generate_interleaved_record_types_pattern.                  *)

IsTurns(u, counts, b) ==
  u = [k \in 0..b |->
        IF k = 0 THEN << >>
        ELSE IF counts[TypeAt(k)] >= RoundOf(k) THEN Append(u[k - 1], TypeAt(k))
        ELSE u[k - 1]]

(* The recursion of Interleaved has a solution.                             *)
LEMMA TurnsExist ==
  ASSUME NEW b \in Nat, NEW counts
  PROVE  \E u : IsTurns(u, counts, b)
<1> DEFINE Takes(k) == counts[TypeAt(k)] >= RoundOf(k)
           G == {k \in 0..b : \E u : IsTurns(u, counts, k)}
<1>1. 0 \in G
  <2> DEFINE u == [k \in 0..0 |-> << >>]
  <2>1. u = [k \in 0..0 |-> IF k = 0 THEN << >>
                            ELSE IF Takes(k) THEN Append(u[k - 1], TypeAt(k)) ELSE u[k - 1]]
    OBVIOUS
  <2> HIDE DEF u
  <2>2. IsTurns(u, counts, 0)
    BY <2>1 DEF IsTurns
  <2> QED
    BY <2>2
<1>2. ASSUME NEW k \in 0..(b - 1), k \in G PROVE k + 1 \in G
  <2>1. PICK u : IsTurns(u, counts, k)
    BY <1>2
  <2>2. u = [j \in 0..k |-> IF j = 0 THEN << >>
                            ELSE IF Takes(j) THEN Append(u[j - 1], TypeAt(j)) ELSE u[j - 1]]
    BY <2>1 DEF IsTurns
  <2> HIDE DEF Takes
  <2> DEFINE new == IF Takes(k + 1) THEN Append(u[k], TypeAt(k + 1)) ELSE u[k]
             v == [j \in 0..(k + 1) |-> IF j = k + 1 THEN new ELSE u[j]]
  <2>3. /\ \A j \in 0..k : v[j] = u[j]
        /\ v[k + 1] = IF Takes(k + 1) THEN Append(u[k], TypeAt(k + 1)) ELSE u[k]
        /\ v = [j \in 0..(k + 1) |-> v[j]]
    OBVIOUS
  <2>4. \A j \in 0..k : u[j] = IF j = 0 THEN << >>
                               ELSE IF Takes(j) THEN Append(u[j - 1], TypeAt(j)) ELSE u[j - 1]
    BY <2>2
  <2> HIDE DEF v, new
  <2>5. ASSUME NEW j \in 0..(k + 1)
        PROVE  v[j] = IF j = 0 THEN << >>
                      ELSE IF Takes(j) THEN Append(v[j - 1], TypeAt(j)) ELSE v[j - 1]
    <3>1. CASE j = k + 1
      <4>1. j # 0 /\ j - 1 = k /\ k \in 0..k
        BY <3>1
      <4>2. v[j - 1] = u[k]
        BY <2>3, <4>1
      <4> QED
        BY <2>3, <3>1, <4>1, <4>2
    <3>2. CASE j # k + 1
      <4>1. j \in 0..k /\ (j # 0 => j - 1 \in 0..k)
        BY <3>2
      <4> QED
        BY <2>3, <2>4, <4>1
    <3> QED
      BY <3>1, <3>2
  <2>6. v = [j \in 0..(k + 1) |->
               IF j = 0 THEN << >>
               ELSE IF Takes(j) THEN Append(v[j - 1], TypeAt(j)) ELSE v[j - 1]]
    BY <2>3, <2>5
  <2>7. IsTurns(v, counts, k + 1)
    BY <2>6 DEF IsTurns, Takes
  <2> QED
    BY <2>7
<1> HIDE DEF G
<1>3. b \in G
  <2>1. 0..b \subseteq G
    BY <1>1, <1>2, UpTo
  <2> QED
    BY <2>1
<1> QED
  BY <1>3 DEF G

(* Interleaved is what its last turn leaves.                                *)
LEMMA InterleavedIs ==
  ASSUME NEW counts, SumOver(counts) \in Nat
  PROVE  \E u : /\ IsTurns(u, counts, SumOver(counts) * N)
                /\ Interleaved(counts) = u[SumOver(counts) * N]
<1> DEFINE b == SumOver(counts) * N
           u == CHOOSE v : IsTurns(v, counts, b)
<1>1. b \in Nat
  BY OrderOfTypes, Products
<1>2. IsTurns(u, counts, b)
  <2>1. \E v : IsTurns(v, counts, b)
    <3> HIDE DEF b
    <3> QED
      BY <1>1, TurnsExist
  <2> QED
    BY <2>1
<1>3. Interleaved(counts) = u[b]
  BY DEF Interleaved, IsTurns, N
<1> QED
  BY <1>2, <1>3

(* How many rounds have come to a type in the first k turns, and how many   *)
(* records it has had by then.                                              *)
PosOf(t) == CHOOSE p \in 1..N : TypesOrder[p] = t
Passed(t, k) == (k + N - PosOf(t)) \div N
Had(counts, k) ==
  [t \in Types |-> IF Passed(t, k) <= counts[t] THEN Passed(t, k) ELSE counts[t]]

(* Turn k comes to place p, or it does not.                                 *)
LEMMA PassTurn ==
  ASSUME NEW n \in Nat \ {0}, NEW p \in 1..n, NEW k \in Nat \ {0}
  PROVE  IF ((k - 1) % n) + 1 = p
         THEN /\ (k + n - p) \div n = ((k - 1) \div n) + 1
              /\ (k - 1 + n - p) \div n = (k - 1) \div n
         ELSE (k + n - p) \div n = (k - 1 + n - p) \div n
<1> DEFINE a == (k - 1) \div n
           x == (k - 1) % n
<1>1. a \in Nat /\ x \in 0..(n - 1) /\ k - 1 = n * a + x
  BY SMTT(30)
<1>2. n * a = a * n /\ a * n \in Nat /\ (a + 1) * n = a * n + n /\ a + 1 \in Nat
  BY <1>1, Products, OnePart
<1> DEFINE z == a * n
<1>3. z \in Nat /\ k - 1 = z + x /\ (a + 1) * n = z + n
  BY <1>1, <1>2
<1> HIDE DEF a, x, z
<1>4. CASE x + 1 = p
  <2>1. k + n - p = z + n + 0 /\ k - 1 + n - p = z + (n - 1) /\ n - 1 \in 0..(n - 1) /\ 0 \in 0..(n - 1)
    BY <1>1, <1>3, <1>4
  <2>2. k + n - p = (a + 1) * n + 0
    BY <1>2, <1>3, <2>1
  <2>3. k - 1 + n - p = a * n + (n - 1)
    BY <2>1 DEF z
  <2>4. (k + n - p) \div n = a + 1
    BY <1>1, <1>2, <2>1, <2>2, QuotientIs
  <2>5. (k - 1 + n - p) \div n = a
    BY <1>1, <2>1, <2>3, QuotientIs
  <2> QED
    BY <1>4, <2>4, <2>5 DEF a, x
<1>5. CASE x + 1 < p
  <2> DEFINE y == x + 1 + n - p
             w == x + n - p
  <2>1. k + n - p = z + y /\ k - 1 + n - p = z + w /\ y \in 0..(n - 1) /\ w \in 0..(n - 1)
    BY <1>1, <1>3, <1>5
  <2> HIDE DEF y, w
  <2>2. k + n - p = a * n + y /\ k - 1 + n - p = a * n + w
    BY <2>1 DEF z
  <2>3. (k + n - p) \div n = a
    BY <1>1, <2>1, <2>2, QuotientIs
  <2>4. (k - 1 + n - p) \div n = a
    BY <1>1, <2>1, <2>2, QuotientIs
  <2>5. x + 1 # p
    BY <1>1, <1>5
  <2> QED
    BY <2>3, <2>4, <2>5 DEF x
<1>6. CASE x + 1 > p
  <2> DEFINE y == x + 1 - p
             w == x - p
  <2>1. /\ k + n - p = z + n + y /\ k - 1 + n - p = z + n + w
        /\ y \in 0..(n - 1) /\ w \in 0..(n - 1)
    BY <1>1, <1>3, <1>6
  <2> HIDE DEF y, w
  <2>2. k + n - p = (a + 1) * n + y /\ k - 1 + n - p = (a + 1) * n + w
    BY <1>3, <2>1
  <2>3. (k + n - p) \div n = a + 1
    BY <1>2, <2>1, <2>2, QuotientIs
  <2>4. (k - 1 + n - p) \div n = a + 1
    BY <1>2, <2>1, <2>2, QuotientIs
  <2>5. x + 1 # p
    BY <1>1, <1>6
  <2> QED
    BY <2>3, <2>4, <2>5 DEF x
<1>7. x + 1 = p \/ x + 1 < p \/ x + 1 > p
  BY <1>1
<1> QED
  BY <1>4, <1>5, <1>6, <1>7

(* The place of a type. *)
LEMMA PosOfType ==
  ASSUME NEW t \in Types
  PROVE  /\ PosOf(t) \in 1..N /\ TypesOrder[PosOf(t)] = t /\ N \in Nat \ {0}
         /\ \A p \in 1..N : TypesOrder[p] = t => p = PosOf(t)
<1>1. PosOf(t) \in 1..N /\ TypesOrder[PosOf(t)] = t
  BY OrderOfTypes DEF PosOf
<1>2. N \in Nat /\ N # 0
  BY <1>1, OrderOfTypes
<1> QED
  BY <1>1, <1>2, OrderOfTypes

(* Before the first turn no round has come to a type, and after m rounds of *)
(* turns m have.                                                            *)
LEMMA PassedEnds ==
  ASSUME NEW t \in Types
  PROVE  /\ Passed(t, 0) = 0
         /\ \A m \in Nat : Passed(t, m * N) = m
<1>1. PosOf(t) \in 1..N /\ N \in Nat \ {0}
  BY PosOfType
<1>2. ASSUME NEW m \in Nat PROVE Passed(t, m * N) = m
  <2> DEFINE x == N - PosOf(t)
             z == m * N
  <2>1. x \in 0..(N - 1) /\ z \in Nat
    BY <1>1, OnePart
  <2>2. (z + x) \div N = m
    <3> HIDE DEF x
    <3> QED
      BY <1>1, <2>1, QuotientIs
  <2>3. z + N - PosOf(t) = z + x
    <3> HIDE DEF z
    <3> QED
      BY <1>1, <2>1
  <2> QED
    BY <2>2, <2>3 DEF Passed
<1>3. Passed(t, 0 * N) = 0 /\ 0 * N = 0
  BY <1>1, <1>2
<1> QED
  BY <1>2, <1>3

(* A turn gives its type a record more as long as it has one to come.       *)
LEMMA HadNext ==
  ASSUME NEW counts \in [Types -> Nat], NEW k \in Nat \ {0}, N \in Nat \ {0},
         Had(counts, k - 1) \in [Types -> Nat]
  PROVE  /\ TypeAt(k) \in Types
         /\ Had(counts, k) \in [Types -> Nat]
         /\ Had(counts, k) =
              IF counts[TypeAt(k)] >= RoundOf(k)
              THEN [Had(counts, k - 1) EXCEPT ![TypeAt(k)] = Had(counts, k - 1)[TypeAt(k)] + 1]
              ELSE Had(counts, k - 1)
<1> DEFINE p == ((k - 1) % N) + 1
           v == TypeAt(k)
           r == RoundOf(k)
           g == Had(counts, k - 1)
           h == Had(counts, k)
<1>1. p \in 1..N /\ r \in Nat \ {0} /\ v = TypesOrder[p]
  BY DEF RoundOf, TypeAt, N
<1>2. v \in Types
  BY <1>1, OrderOfTypes
<1>3. \A t \in Types : /\ g[t] = IF Passed(t, k - 1) <= counts[t] THEN Passed(t, k - 1) ELSE counts[t]
                       /\ h[t] = IF Passed(t, k) <= counts[t] THEN Passed(t, k) ELSE counts[t]
  BY DEF Had
<1>4. g = [t \in Types |-> g[t]] /\ h = [t \in Types |-> h[t]]
  BY DEF Had
<1>5. Passed(v, k) = r /\ Passed(v, k - 1) = r - 1
  <2>1. PosOf(v) = p
    BY <1>1, <1>2, PosOfType
  <2>2. /\ (k + N - p) \div N = ((k - 1) \div N) + 1
        /\ (k - 1 + N - p) \div N = (k - 1) \div N
    BY <1>1, PassTurn
  <2>3. (k - 1) \div N \in Nat
    BY <1>1
  <2>4. r = ((k - 1) \div N) + 1
    BY DEF RoundOf, N
  <2> HIDE DEF p, r, v
  <2> QED
    BY <2>1, <2>2, <2>3, <2>4 DEF Passed
<1>6. ASSUME NEW t \in Types, t # v
      PROVE  Passed(t, k) = Passed(t, k - 1)
  <2>1. PosOf(t) \in 1..N /\ PosOf(t) # p
    BY <1>1, <1>6, PosOfType
  <2>2. (k + N - PosOf(t)) \div N = (k - 1 + N - PosOf(t)) \div N
    BY <2>1, PassTurn
  <2> QED
    BY <2>2 DEF Passed
<1>7. \A t \in Types : t # v => h[t] = g[t]
  BY <1>3, <1>6
<1>8. counts[v] \in Nat /\ g[v] \in Nat
  BY <1>2
<1> HIDE DEF g, h, v, r, p
<1>9. CASE counts[v] >= r
  <2>1. h[v] = g[v] + 1
    BY <1>1, <1>2, <1>3, <1>5, <1>8, <1>9
  <2>2. \A t \in Types : h[t] = [g EXCEPT ![v] = g[v] + 1][t]
    BY <1>2, <1>4, <1>7, <2>1
  <2>3. h = [g EXCEPT ![v] = g[v] + 1]
    BY <1>4, <2>2
  <2>4. h \in [Types -> Nat]
    BY <1>2, <1>8, <2>3 DEF g
  <2> QED
    BY <1>2, <1>9, <2>3, <2>4 DEF g, h, v, r
<1>10. CASE ~(counts[v] >= r)
  <2>1. h[v] = g[v]
    BY <1>1, <1>2, <1>3, <1>5, <1>8, <1>10
  <2>2. h = g
    BY <1>4, <1>7, <2>1
  <2> QED
    BY <1>2, <1>10, <2>2 DEF g, h, v, r
<1> QED
  BY <1>9, <1>10

(* The pattern after k turns: what each type has had by then.               *)
Spaced(s, counts, k) ==
  /\ s \in Seq(Types)
  /\ Had(counts, k) \in [Types -> Nat]
  /\ Len(s) = SumOver(Had(counts, k))
  /\ \A t \in Types : Occ(s, Len(s), t) = Had(counts, k)[t]

(* Before the first turn the pattern is empty.                              *)
LEMMA SpacedFirst ==
  ASSUME NEW counts \in [Types -> Nat]
  PROVE  Spaced(<< >>, counts, 0)
<1>1. \A t \in Types : counts[t] \in Nat /\ Passed(t, 0) = 0
  BY PassedEnds
<1>2. Had(counts, 0) = [t \in Types |-> 0]
  BY <1>1 DEF Had
<1>3. SumOver(Had(counts, 0)) = 0
  BY <1>2, SumOverZero
<1>4. \A t \in Types : Occ(<< >>, 0, t) = 0
  BY OccNext
<1> QED
  BY <1>2, <1>3, <1>4 DEF Spaced

(* Every turn extends the pattern as it should.                             *)
LEMMA SpacedNext ==
  ASSUME NEW counts \in [Types -> Nat], NEW k \in Nat \ {0}, N \in Nat \ {0},
         NEW s, Spaced(s, counts, k - 1)
  PROVE  Spaced(IF counts[TypeAt(k)] >= RoundOf(k) THEN Append(s, TypeAt(k)) ELSE s, counts, k)
<1> DEFINE v == TypeAt(k)
           g == Had(counts, k - 1)
           h == Had(counts, k)
           takes == counts[v] >= RoundOf(k)
<1>1. /\ s \in Seq(Types) /\ g \in [Types -> Nat]
      /\ Len(s) = SumOver(g) /\ \A t \in Types : Occ(s, Len(s), t) = g[t]
  BY DEF Spaced
<1>2. /\ v \in Types /\ h \in [Types -> Nat]
      /\ h = IF takes THEN [g EXCEPT ![v] = g[v] + 1] ELSE g
  BY <1>1, HadNext
<1> HIDE DEF v, g, h, takes
<1>3. CASE takes
  <2> DEFINE n == Len(s)
             z == Append(s, v)
  <2>1. n \in Nat /\ z \in Seq(Types) /\ Len(z) = n + 1 /\ z[n + 1] = v
        /\ \A j \in 1..n : z[j] = s[j]
    BY <1>1, <1>2, AppendProperties
  <2>2. h = [g EXCEPT ![v] = g[v] + 1]
    BY <1>2, <1>3
  <2>3. SumOver(h) = SumOver(g) + 1
    <3>1. SumOver([g EXCEPT ![v] = g[v] + 1]) = SumOver(g) + 1
      BY <1>1, <1>2, 1 \in Nat, SumOverProperties
    <3> QED
      BY <2>2, <3>1
  <2>4. ASSUME NEW t \in Types PROVE Occ(z, n + 1, t) = h[t]
    <3> HIDE DEF n, z
    <3>8. n \in Nat
      BY <2>1
    <3>7. /\ Occ(z, n, t) \in Nat
          /\ Occ(z, n + 1, t) = Occ(z, n, t) + (IF z[n + 1] = t THEN 1 ELSE 0)
      BY <3>8, OccNext
    <3>1. Occ(z, n + 1, t) = Occ(z, n, t) + (IF v = t THEN 1 ELSE 0) /\ Occ(z, n, t) \in Nat
      BY <2>1, <3>7
    <3>2. Occ(z, n, t) = Occ(s, n, t)
      BY <2>1, OccSame
    <3>3. Occ(s, n, t) = g[t]
      BY <1>1 DEF n
    <3>4. h[t] = IF t = v THEN g[v] + 1 ELSE g[t]
      BY <1>1, <1>2, <2>2
    <3>5. CASE t = v
      BY <3>1, <3>2, <3>3, <3>4, <3>5
    <3>6. CASE t # v
      BY <3>1, <3>2, <3>3, <3>4, <3>6
    <3> QED
      BY <3>5, <3>6
  <2>5. Spaced(z, counts, k)
    BY <1>1, <1>2, <2>1, <2>3, <2>4 DEF Spaced, h
  <2> QED
    BY <1>3, <2>5 DEF takes, v
<1>4. CASE ~takes
  <2>1. h = g
    BY <1>2, <1>4
  <2>2. Spaced(s, counts, k)
    BY <1>1, <2>1 DEF Spaced, h
  <2> QED
    BY <1>4, <2>2 DEF takes, v
<1> QED
  BY <1>3, <1>4

(* A pattern is as long as its counts add up to, and holds each type as     *)
(* often as its count says.                                                 *)
LEMMA InterleavedAre ==
  ASSUME NEW counts \in [Types -> Nat]
  PROVE  /\ Interleaved(counts) \in Seq(Types)
         /\ Len(Interleaved(counts)) = SumOver(counts) /\ SumOver(counts) \in Nat
         /\ \A t \in Types : Occ(Interleaved(counts), SumOver(counts), t) = counts[t]
<1> DEFINE total == SumOver(counts)
           b == total * N
<1>1. N \in Nat /\ (Types = {} \/ N \in Nat \ {0})
  BY OrderOfTypes, PosOfType
<1>2. total \in Nat /\ \A t \in Types : counts[t] <= total
  <2>1. CASE Types = {}
    BY <2>1, SumOverZero
  <2>2. ASSUME NEW t \in Types PROVE total \in Nat /\ counts[t] <= total
    BY 0 \in Nat, SumOverProperties
  <2> QED
    BY <2>1, <2>2
<1>3. PICK u : IsTurns(u, counts, b) /\ Interleaved(counts) = u[b]
  BY <1>2, InterleavedIs
<1>4. b \in Nat
  BY <1>1, <1>2, Products
<1>z. N = 0 => b = 0
  BY <1>2
<1> HIDE DEF b
<1>5. \A k \in 0..b : u[k] = IF k = 0 THEN << >>
                             ELSE IF counts[TypeAt(k)] >= RoundOf(k)
                                  THEN Append(u[k - 1], TypeAt(k)) ELSE u[k - 1]
  BY <1>3 DEF IsTurns
<1> DEFINE G == {k \in 0..b : Spaced(u[k], counts, k)}
<1>6. 0 \in G
  BY <1>4, <1>5, SpacedFirst
<1>7. ASSUME NEW k \in 0..(b - 1), k \in G PROVE k + 1 \in G
  <2>1. Spaced(u[k], counts, k) /\ k + 1 \in 0..b /\ k + 1 \in Nat \ {0} /\ (k + 1) - 1 = k
    BY <1>4, <1>7
  <2>2. u[k + 1] = IF counts[TypeAt(k + 1)] >= RoundOf(k + 1)
                   THEN Append(u[k], TypeAt(k + 1)) ELSE u[k]
    BY <1>5, <2>1
  <2>3. N \in Nat \ {0}
    BY <1>1, <1>z, <2>1
  <2> DEFINE j == k + 1
  <2>4. j \in Nat \ {0} /\ Spaced(u[k], counts, j - 1)
    BY <2>1
  <2> HIDE DEF j
  <2>5. Spaced(IF counts[TypeAt(j)] >= RoundOf(j) THEN Append(u[k], TypeAt(j)) ELSE u[k], counts, j)
    BY <2>3, <2>4, SpacedNext
  <2>6. Spaced(u[k + 1], counts, k + 1)
    BY <2>2, <2>5 DEF j
  <2> QED
    BY <2>1, <2>6
<1>8. Spaced(u[b], counts, b)
  <2>1. 0..b \subseteq G
    <3> HIDE DEF G
    <3> QED
      BY <1>4, <1>6, <1>7, UpTo
  <2> QED
    BY <1>4, <2>1
<1>9. Had(counts, b) = counts
  <2>1. \A t \in Types : Passed(t, b) = total
    BY <1>2, PassedEnds DEF b
  <2>2. \A t \in Types : Had(counts, b)[t] = counts[t]
    <3> SUFFICES ASSUME NEW t \in Types PROVE Had(counts, b)[t] = counts[t]
      OBVIOUS
    <3>1. Passed(t, b) = total /\ counts[t] <= total /\ counts[t] \in Nat
      BY <1>2, <2>1
    <3>2. Had(counts, b)[t] = IF total <= counts[t] THEN total ELSE counts[t]
      BY <3>1 DEF Had
    <3> QED
      BY <1>2, <3>1, <3>2
  <2>3. Had(counts, b) = [t \in Types |-> Had(counts, b)[t]] /\ counts = [t \in Types |-> counts[t]]
    BY DEF Had
  <2> QED
    BY <2>2, <2>3
<1> QED
  BY <1>2, <1>3, <1>8, <1>9 DEF Spaced

-----------------------------------------------------------------------------
(* The shares of the types *)

CountsOf(which) == IF which = "primary" THEN cfg.weights ELSE RemainingCounts
LengthOf(which) == SumOver(CountsOf(which))

(* Both patterns hold what their counts say.                                *)
LEMMA PatternsAre ==
  ASSUME CfgOK
  PROVE  /\ \A which : /\ PatternOf(which) \in Seq(Types)
                       /\ Len(PatternOf(which)) = LengthOf(which)
                       /\ CountsOf(which) \in [Types -> Nat]
                       /\ \A t \in Types : Occ(PatternOf(which), LengthOf(which), t)
                                             = CountsOf(which)[t]
         /\ LengthOf("primary") = Total /\ LengthOf("remaining") = Rest
<1>1. \A which : CountsOf(which) \in [Types -> Nat]
  BY RemainingAre DEF CountsOf, CfgOK
<1>2. \A which : PatternOf(which) = Interleaved(CountsOf(which))
  BY DEF PatternOf, CountsOf
<1>3. \A which : /\ PatternOf(which) \in Seq(Types)
                 /\ Len(PatternOf(which)) = LengthOf(which)
                 /\ \A t \in Types : Occ(PatternOf(which), LengthOf(which), t)
                                       = CountsOf(which)[t]
  BY <1>1, <1>2, InterleavedAre DEF LengthOf
<1>4. LengthOf("primary") = Total
  BY DEF LengthOf, CountsOf, Total
<1>5. LengthOf("remaining") = Rest
  BY RemainingAre DEF LengthOf, CountsOf
<1> QED
  BY <1>1, <1>3, <1>4, <1>5

(* How many queries ask for a type. *)
Asked(t) == Cardinality({k \in 1..Len(queries) : queries[k].type = t})

(* Where the loop is, with pattern p, next place x in it and a rounds of    *)
(* the primary pattern behind it, and what was asked so far.                *)
Rounds == cfg.records \div Total

Turned(a, p, x) ==
  /\ i = a * Total + x
  /\ p = "remaining" => a = Rounds
  /\ \A t \in Types : Asked(t) = a * cfg.weights[t] + Occ(PatternOf(p), x, t)

PatternInv ==
  /\ pattern \in {"primary", "remaining"}
  /\ patternIdx \in 0..LengthOf(pattern)
  /\ pattern = "primary" => i <= MainCount
  /\ pattern = "remaining" => i > MainCount
  /\ \E a \in Nat : Turned(a, pattern, patternIdx)

ShareInv == AnswerInv /\ CfgOK /\ PatternInv

(* A number is its quotient, times the divisor, and its remainder.          *)
LEMMA WithRemainder ==
  ASSUME NEW z \in Nat, NEW p \in Nat \ {0}
  PROVE  /\ z \div p \in Nat /\ (z \div p) * p \in Nat
         /\ z % p \in Nat /\ z % p < p
         /\ z = (z \div p) * p + (z % p)
<1> DEFINE q == z \div p
           y == z % p
<1>1. q \in Nat /\ y \in 0..(p - 1) /\ z = p * q + y
  BY SMTT(30)
<1>2. p * q = q * p /\ q * p \in Nat
  BY <1>1, Products
<1> HIDE DEF q, y
<1>3. y \in Nat /\ y < p /\ z = q * p + y
  BY <1>1, <1>2
<1> QED
  BY <1>1, <1>2, <1>3 DEF q, y

(* The records are the rounds of the primary pattern and the rest.          *)
LEMMA RecordsAre ==
  ASSUME CfgOK
  PROVE  /\ Rounds \in Nat /\ MainCount = Rounds * Total /\ MainCount \in Nat
         /\ cfg.records = MainCount + Rest /\ Rest \in Nat /\ Rest < Total
<1>1. cfg.records \in Nat /\ Total \in Nat \ {0}
  BY DEF CfgOK
<1>2. \A r \in Nat, m \in Nat \ {0} :
        /\ r \div m \in Nat /\ (r \div m) * m \in Nat
        /\ r % m \in Nat /\ r % m < m
        /\ r = (r \div m) * m + (r % m)
  BY WithRemainder
<1> QED
  BY <1>1, <1>2 DEF Rounds, MainCount, Rest

(* The turn of the loop asks for the type at its place in the pattern.      *)
LEMMA AskedNext ==
  ASSUME AnswerInv, WriteRecord
  PROVE  \A t : Asked(t)' = Asked(t) + (IF PatternOf(PatternNow)[IdxNow + 1] = t THEN 1 ELSE 0)
<1> DEFINE v == PatternOf(PatternNow)[IdxNow + 1]
           q == [name |-> IpIndex(i), type |-> v]
<1>1. i \in Nat /\ Len(queries) = i
  BY DEF AnswerInv, Inv, TypeOK, QueriesOK
<1>2. queries' = Append(queries, q)
  BY DEF WriteRecord, QueryOf
<1>3. q.type = v
  OBVIOUS
<1> HIDE DEF q, v
<1>4. PICK S : queries \in Seq(S)
  BY DEF AnswerInv, QueriesOK
<1>5. /\ Len(queries') = i + 1 /\ queries'[i + 1] = q
      /\ \A k \in 1..i : queries'[k] = queries[k]
  BY <1>1, <1>2, <1>4, OneMore
<1> SUFFICES ASSUME NEW t
             PROVE  Asked(t)' = Asked(t) + (IF v = t THEN 1 ELSE 0)
  BY DEF v
<1> DEFINE A == {k \in 1..i : queries[k].type = t}
           B == {k \in 1..(i + 1) : queries'[k].type = t}
<1>6. Asked(t) = Cardinality(A) /\ Asked(t)' = Cardinality(B)
  BY <1>1, <1>5 DEF Asked
<1>7. B \subseteq 1..(i + 1) /\ A = B \ {i + 1} /\ (i + 1 \in B <=> v = t)
  BY <1>1, <1>3, <1>5
<1> HIDE DEF A, B
<1>8. Cardinality(A) \in Nat /\ Cardinality(B) = Cardinality(A) + (IF i + 1 \in B THEN 1 ELSE 0)
  BY <1>1, <1>7, OneIndexMore
<1> QED
  BY <1>6, <1>7, <1>8

(* Where a round ends the next one begins.                                  *)
LEMMA RoundEnds ==
  ASSUME NEW p \in Nat \ {0}, NEW a \in Nat, NEW m \in Nat, NEW x \in 0..p, a * p + x = m * p
  PROVE  (x = 0 /\ a = m) \/ (x = p /\ a + 1 = m)
<1>1. CASE x < p
  <2>1. x \in 0..(p - 1) /\ 0 \in 0..(p - 1)
    BY <1>1
  <2>2. a * p + x = m * p + 0
    <3>1. m * p \in Nat
      BY OnePart
    <3> QED
      BY <3>1
  <2> QED
    BY <2>1, <2>2, SamePlace
<1>2. CASE x = p
  <2>1. (a + 1) * p = a * p + p /\ a + 1 \in Nat
    BY OnePart
  <2>2. (a + 1) * p = m * p /\ (a + 1) * p \in Nat
    BY <1>2, <2>1, OnePart
  <2>3. (a + 1) * p + 0 = m * p + 0 /\ 0 \in 0..(p - 1)
    BY <2>2
  <2>4. a + 1 = m
    BY <2>1, <2>3, SamePlace
  <2> QED
    BY <1>2, <2>4
<1> QED
  BY <1>1, <1>2

(* A whole round asks for each type as often as it weighs.                  *)
LEMMA WholeRound ==
  ASSUME CfgOK, NEW a \in Nat, Turned(a, "primary", Total)
  PROVE  Turned(a + 1, "primary", 0)
<1>1. i = a * Total + Total /\ Total \in Nat /\ cfg.weights \in [Types -> Nat]
  BY DEF Turned, CfgOK
<1>2. i = (a + 1) * Total + 0
  <2>1. (a + 1) * Total = a * Total + Total /\ a * Total \in Nat
    BY <1>1, OnePart
  <2> QED
    BY <1>1, <2>1
<1>3. ASSUME NEW t \in Types
      PROVE  Asked(t) = (a + 1) * cfg.weights[t] + Occ(PatternOf("primary"), 0, t)
  <2> DEFINE w == cfg.weights[t]
  <2>1. w \in Nat
    BY <1>1
  <2>2. Occ(PatternOf("primary"), Total, t) = w
    BY PatternsAre DEF CountsOf
  <2>3. Asked(t) = a * w + w
    BY <2>2 DEF Turned
  <2> HIDE DEF w
  <2>4. (a + 1) * w = a * w + w /\ a * w \in Nat
    BY <2>1, OnePart
  <2>5. Occ(PatternOf("primary"), 0, t) = 0
    BY OccNext
  <2>6. Asked(t) = (a + 1) * w + 0
    BY <2>1, <2>3, <2>4
  <2> QED
    BY <2>5, <2>6 DEF w
<1> QED
  BY <1>2, <1>3 DEF Turned

(* At the switch to the remainder all rounds of the primary pattern are     *)
(* done, and nothing else.                                                  *)
LEMMA AtSwitch ==
  ASSUME CfgOK, i = MainCount, NEW x \in 0..Total, NEW a \in Nat, Turned(a, "primary", x)
  PROVE  Turned(Rounds, "primary", 0)
<1>1. Total \in Nat \ {0} /\ Rounds \in Nat /\ MainCount = Rounds * Total
  BY RecordsAre DEF CfgOK
<1>2. i = a * Total + x
  BY DEF Turned
<1>3. (x = 0 /\ a = Rounds) \/ (x = Total /\ a + 1 = Rounds)
  <2> DEFINE p == Total
             m == Rounds
  <2>1. p \in Nat \ {0} /\ m \in Nat /\ x \in 0..p /\ a * p + x = m * p
    BY <1>1, <1>2
  <2> HIDE DEF p, m
  <2>2. (x = 0 /\ a = m) \/ (x = p /\ a + 1 = m)
    BY <2>1, RoundEnds
  <2> QED
    BY <2>2 DEF p, m
<1>4. CASE x = 0 /\ a = Rounds
  BY <1>4
<1>5. CASE x = Total /\ a + 1 = Rounds
  BY <1>5, WholeRound
<1> QED
  BY <1>3, <1>4, <1>5

(* The pattern and the place in it that the turn uses.                      *)
LEMMA Ready ==
  ASSUME ShareInv, i < cfg.records
  PROVE  \E a \in Nat : /\ Turned(a, PatternNow, IdxNow)
                        /\ PatternNow \in {"primary", "remaining"}
                        /\ IdxNow \in Nat /\ IdxNow < LengthOf(PatternNow)
                        /\ PatternNow = "primary" => i < MainCount
                        /\ PatternNow = "remaining" => i >= MainCount
<1>1. /\ Rounds \in Nat /\ MainCount = Rounds * Total /\ MainCount \in Nat
      /\ cfg.records = MainCount + Rest /\ Rest \in Nat
  BY RecordsAre DEF ShareInv
<1>2. /\ LengthOf("primary") = Total /\ LengthOf("remaining") = Rest
      /\ Len(PatternOf(pattern)) = LengthOf(pattern)
  BY PatternsAre DEF ShareInv
<1>3. /\ pattern \in {"primary", "remaining"} /\ patternIdx \in 0..LengthOf(pattern)
      /\ pattern = "primary" => i <= MainCount
      /\ pattern = "remaining" => i > MainCount
      /\ i \in Nat
  BY DEF ShareInv, PatternInv, AnswerInv, Inv, TypeOK
<1>4. PICK a \in Nat : Turned(a, pattern, patternIdx)
  BY DEF ShareInv, PatternInv
<1>5. Total \in Nat \ {0} /\ CfgOK
  BY DEF ShareInv, CfgOK
<1>6. CASE i = MainCount
  <2>1. pattern = "primary"
    BY <1>1, <1>3, <1>6
  <2>2. Turned(Rounds, "primary", 0)
    BY <1>2, <1>3, <1>4, <1>5, <1>6, <2>1, AtSwitch
  <2>3. PatternNow = "remaining" /\ IdxNow = 0
    BY <1>6 DEF PatternNow, IdxNow, Switches
  <2>4. \A t \in Types : Occ(PatternOf("primary"), 0, t) = Occ(PatternOf("remaining"), 0, t)
    BY OccNext
  <2>5. Turned(Rounds, "remaining", 0)
    BY <2>2, <2>4 DEF Turned
  <2>6. 0 < Rest
    BY <1>1, <1>3, <1>6
  <2>7. IdxNow \in Nat /\ IdxNow < LengthOf(PatternNow) /\ i >= MainCount
    BY <1>1, <1>2, <1>6, <2>3, <2>6
  <2> QED
    BY <1>1, <2>3, <2>5, <2>7
<1>7. CASE i # MainCount /\ patternIdx < LengthOf(pattern)
  <2>1. PatternNow = pattern
    BY <1>7 DEF PatternNow, Switches
  <2>2. LengthOf(pattern) \in Nat /\ patternIdx \in Nat
    <3>1. LengthOf("primary") \in Nat /\ LengthOf("remaining") \in Nat
      BY <1>1, <1>2, <1>5
    <3>2. LengthOf(pattern) \in Nat
      BY <1>3, <3>1
    <3> QED
      BY <1>3, <3>2
  <2>3. IdxNow = patternIdx
    BY <1>2, <1>7, <2>2 DEF IdxNow, Switches
  <2>4. pattern = "primary" => i < MainCount
    BY <1>1, <1>3, <1>7
  <2>5. pattern = "remaining" => i >= MainCount
    BY <1>1, <1>3
  <2> QED
    BY <1>3, <1>4, <1>7, <2>1, <2>2, <2>3, <2>4, <2>5
<1>8. CASE i # MainCount /\ pattern = "primary" /\ ~(patternIdx < LengthOf(pattern))
  <2>1. PatternNow = "primary" /\ i < MainCount
    BY <1>1, <1>3, <1>8 DEF PatternNow, Switches
  <2>2. patternIdx = Total
    BY <1>2, <1>3, <1>5, <1>8
  <2>3. IdxNow = 0
    BY <1>2, <1>5, <1>8, <2>2 DEF IdxNow
  <2>4. Turned(a + 1, "primary", 0)
    BY <1>4, <1>5, <1>8, <2>2, WholeRound
  <2>5. a + 1 \in Nat /\ 0 < LengthOf("primary")
    BY <1>2, <1>5
  <2> QED
    BY <2>1, <2>3, <2>4, <2>5
<1>9. CASE pattern = "remaining" /\ ~(patternIdx < LengthOf(pattern))
  <2>1. patternIdx = Rest
    BY <1>1, <1>2, <1>3, <1>9
  <2>2. i = Rounds * Total + Rest
    BY <1>4, <1>9, <2>1 DEF Turned
  <2>3. i = cfg.records
    BY <1>1, <2>2
  <2> QED
    BY <1>1, <1>3, <2>3
<1> QED
  BY <1>3, <1>6, <1>7, <1>8, <1>9

(* The configuration decides what the patterns are.                         *)
LEMMA SameCfg ==
  ASSUME cfg' = cfg
  PROVE  /\ Total' = Total /\ Rounds' = Rounds /\ MainCount' = MainCount
         /\ \A which : PatternOf(which)' = PatternOf(which)
         /\ \A which : LengthOf(which)' = LengthOf(which)
         /\ CfgOK => CfgOK'
<1>1. Total' = Total
  BY DEF Total
<1>2. Rest' = Rest /\ Rounds' = Rounds /\ MainCount' = MainCount
  BY <1>1 DEF Rest, Rounds, MainCount
<1>3. \A t : Product(t)' = Product(t)
  BY <1>2 DEF Product
<1>4. Shares' = Shares
  BY <1>1, <1>3 DEF Shares
<1>5. MostCommon' = MostCommon
  BY DEF MostCommon
<1>6. RemainingCounts' = RemainingCounts
  BY <1>2, <1>4, <1>5 DEF RemainingCounts
<1>7. \A which : PatternOf(which)' = PatternOf(which) /\ LengthOf(which)' = LengthOf(which)
  BY <1>6 DEF PatternOf, LengthOf, CountsOf
<1>8. CfgOK => CfgOK'
  BY <1>1, <1>3 DEF CfgOK
<1> QED
  BY <1>1, <1>2, <1>7, <1>8

(* A turn of the loop counts for the type at its place.                     *)
LEMMA TurnShares ==
  ASSUME ShareInv, WriteRecord
  PROVE  PatternInv'
<1> DEFINE p == PatternNow
           x == IdxNow
<1>1. i \in Nat /\ i < cfg.records /\ cfg' = cfg /\ i' = i + 1
      /\ pattern' = p /\ patternIdx' = x + 1
  BY DEF WriteRecord, ShareInv, AnswerInv, Inv, TypeOK
<1>2. PICK a \in Nat : /\ Turned(a, p, x)
                       /\ p \in {"primary", "remaining"}
                       /\ x \in Nat /\ x < LengthOf(p)
                       /\ p = "primary" => i < MainCount
                       /\ p = "remaining" => i >= MainCount
  BY <1>1, Ready
<1>3. \A t : Asked(t)' = Asked(t) + (IF PatternOf(p)[x + 1] = t THEN 1 ELSE 0)
  BY AskedNext DEF ShareInv
<1>4. /\ Total' = Total /\ Rounds' = Rounds /\ MainCount' = MainCount
      /\ \A which : PatternOf(which)' = PatternOf(which) /\ LengthOf(which)' = LengthOf(which)
  BY <1>1, SameCfg
<1>5. /\ Total \in Nat \ {0} /\ MainCount \in Nat /\ Rest \in Nat
      /\ cfg.weights \in [Types -> Nat]
      /\ LengthOf("primary") = Total /\ LengthOf("remaining") = Rest
  BY RecordsAre, PatternsAre DEF ShareInv, CfgOK
<1> HIDE DEF p, x
<1>6. LengthOf(p) \in Nat
  <2>1. LengthOf("primary") \in Nat /\ LengthOf("remaining") \in Nat
    BY <1>5
  <2> QED
    BY <1>2, <2>1
<1>7. x + 1 \in 0..LengthOf(p)
  BY <1>2, <1>6
<1>8. i + 1 = a * Total + (x + 1)
  <2>1. i = a * Total + x
    BY <1>2 DEF Turned
  <2>2. a * Total \in Nat
    BY <1>5, Products
  <2> QED
    BY <1>2, <2>1, <2>2
<1>9. ASSUME NEW t \in Types
      PROVE  Asked(t)' = a * cfg.weights[t] + Occ(PatternOf(p), x + 1, t)
  <2> DEFINE w == a * cfg.weights[t]
             n == Occ(PatternOf(p), x, t)
             d == IF PatternOf(p)[x + 1] = t THEN 1 ELSE 0
  <2>1. w \in Nat
    BY <1>5, Products
  <2>2. n \in Nat /\ Occ(PatternOf(p), x + 1, t) = n + d
    <3>1. x \in Nat
      BY <1>2
    <3> QED
      BY <3>1, OccNext
  <2>3. Asked(t) = w + n
    BY <1>2 DEF Turned
  <2>4. Asked(t)' = Asked(t) + d /\ d \in Nat
    BY <1>3
  <2> HIDE DEF w, n, d
  <2>5. Asked(t)' = w + (n + d)
    BY <2>1, <2>2, <2>3, <2>4
  <2> QED
    BY <2>2, <2>5 DEF w
<1>10. p = "remaining" => a = Rounds
  BY <1>2 DEF Turned
<1>11. Turned(a, pattern, patternIdx)'
  BY <1>1, <1>4, <1>8, <1>9, <1>10 DEF Turned
<1>12. (p = "primary" => i + 1 <= MainCount) /\ (p = "remaining" => i + 1 > MainCount)
  BY <1>1, <1>2, <1>5
<1>13. pattern' \in {"primary", "remaining"} /\ patternIdx' \in 0..LengthOf(pattern')
  BY <1>1, <1>2, <1>7
<1>14. LengthOf(pattern)' = LengthOf(pattern')
  BY <1>1, SameCfg DEF LengthOf, CountsOf
<1> QED
  BY <1>1, <1>4, <1>11, <1>12, <1>13, <1>14 DEF PatternInv

(* The sum of the weights is a number. *)
LEMMA InitCfg == Init => CfgOK
<1> SUFFICES ASSUME Init PROVE CfgOK
  OBVIOUS
<1>1. /\ cfg.weights \in [Types -> Nat] /\ cfg.records \in Nat /\ Total > 0
      /\ \A t \in cfg.short : Product(t) > 0 /\ Product(t) % Total = 0
  BY ZoneAssumption DEF Init
<1>2. Total \in Nat
  <2>1. CASE Types = {}
    BY <2>1, SumOverZero DEF Total
  <2>2. ASSUME NEW t \in Types PROVE Total \in Nat
    BY <1>1, 0 \in Nat, SumOverProperties DEF Total
  <2> QED
    BY <2>1, <2>2
<1> QED
  BY <1>1, <1>2 DEF CfgOK

(* No record yet, and nothing asked for.                                    *)
LEMMA InitShares == Init => ShareInv
<1> SUFFICES ASSUME Init PROVE ShareInv
  OBVIOUS
<1>1. AnswerInv /\ CfgOK
  BY InitAnswer, InitCfg
<1>2. pattern = "primary" /\ patternIdx = 0 /\ i = 0 /\ queries = << >>
  BY DEF Init
<1>3. /\ LengthOf("primary") = Total /\ Total \in Nat /\ MainCount \in Nat
      /\ cfg.weights \in [Types -> Nat]
  BY <1>1, PatternsAre, RecordsAre DEF CfgOK
<1>4. Turned(0, "primary", 0)
  <2>1. ASSUME NEW t \in Types
        PROVE  Asked(t) = 0 * cfg.weights[t] + Occ(PatternOf("primary"), 0, t)
    <3>1. {k \in 1..Len(queries) : queries[k].type = t} = {}
      BY <1>2
    <3>2. Asked(t) = 0
      BY <3>1, FS_EmptySet DEF Asked
    <3>3. Occ(PatternOf("primary"), 0, t) = 0
      BY OccNext
    <3>4. 0 * cfg.weights[t] = 0
      BY <1>3
    <3> QED
      BY <3>2, <3>3, <3>4
  <2>2. i = 0 * Total + 0
    BY <1>2, <1>3
  <2> QED
    BY <2>1, <2>2 DEF Turned
<1>5. PatternInv
  BY <1>2, <1>3, <1>4 DEF PatternInv
<1> QED
  BY <1>1, <1>5 DEF ShareInv

(* Every step keeps the counts. *)
LEMMA SharesStep ==
  ASSUME ShareInv, [Next]_vars
  PROVE  ShareInv'
<1>1. AnswerInv'
  BY AnswerStep DEF ShareInv
<1>2. cfg' = cfg
  BY DEF Next, WriteRecord, WriteFails, WriteMain, MainFails, vars
<1>3. CfgOK'
  BY <1>2, SameCfg DEF ShareInv
<1>4. CASE WriteRecord
  BY <1>1, <1>3, <1>4, TurnShares DEF ShareInv
<1>5. CASE WriteFails \/ WriteMain \/ MainFails \/ UNCHANGED vars
  <2>1. i' = i /\ queries' = queries /\ pattern' = pattern /\ patternIdx' = patternIdx
    BY <1>5 DEF WriteFails, WriteMain, MainFails, vars
  <2>2. /\ Total' = Total /\ Rounds' = Rounds /\ MainCount' = MainCount
        /\ \A which : PatternOf(which)' = PatternOf(which) /\ LengthOf(which)' = LengthOf(which)
    BY <1>2, SameCfg
  <2>3. PatternOf(pattern)' = PatternOf(pattern) /\ LengthOf(pattern)' = LengthOf(pattern)
    <3>1. PatternOf(pattern)' = PatternOf(pattern') /\ LengthOf(pattern)' = LengthOf(pattern')
      BY <1>2, <2>1, SameCfg DEF PatternOf, LengthOf, CountsOf
    <3> QED
      BY <2>1, <3>1
  <2>4. \A t : Asked(t)' = Asked(t)
    BY <2>1 DEF Asked
  <2>5. \A a \in Nat : Turned(a, pattern, patternIdx) => Turned(a, pattern, patternIdx)'
    BY <1>2, <2>1, <2>2, <2>3, <2>4 DEF Turned
  <2>6. PatternInv'
    BY <2>1, <2>2, <2>3, <2>5 DEF ShareInv, PatternInv
  <2> QED
    BY <1>1, <1>3, <2>6 DEF ShareInv
<1> QED
  BY <1>4, <1>5 DEF Next

(* When all records are written each type was asked for in every round, as  *)
(* often as it weighs, and then as often as it has records in the rest.     *)
LEMMA AskedAtEnd ==
  ASSUME ShareInv, i = cfg.records, NEW t \in Types
  PROVE  Asked(t) = Rounds * cfg.weights[t] + RemainingCounts[t]
<1>1. /\ Rounds \in Nat /\ MainCount = Rounds * Total /\ MainCount \in Nat
      /\ cfg.records = MainCount + Rest /\ Rest \in Nat
  BY RecordsAre DEF ShareInv
<1>2. LengthOf("primary") = Total /\ LengthOf("remaining") = Rest
  BY PatternsAre DEF ShareInv
<1>3. /\ pattern \in {"primary", "remaining"} /\ patternIdx \in 0..LengthOf(pattern)
      /\ pattern = "primary" => i <= MainCount
  BY DEF ShareInv, PatternInv
<1>4. PICK a \in Nat : Turned(a, pattern, patternIdx)
  BY DEF ShareInv, PatternInv
<1>5. /\ RemainingCounts \in [Types -> Nat] /\ SumOver(RemainingCounts) = Rest
      /\ cfg.weights \in [Types -> Nat] /\ CfgOK
  BY RemainingAre DEF ShareInv, CfgOK
<1>6. CASE pattern = "primary"
  <2>1. i = MainCount /\ Rest = 0
    BY <1>1, <1>3, <1>6
  <2>2. Turned(Rounds, "primary", 0)
    BY <1>2, <1>3, <1>4, <1>5, <1>6, <2>1, AtSwitch
  <2>3. Asked(t) = Rounds * cfg.weights[t] + 0
    BY <2>2, OccNext DEF Turned
  <2>4. RemainingCounts[t] = 0
    <3>1. RemainingCounts[t] \in Nat
      BY <1>5
    <3>2. RemainingCounts[t] <= SumOver(RemainingCounts)
      BY <1>5, 0 \in Nat, SumOverProperties
    <3> QED
      BY <1>5, <2>1, <3>1, <3>2
  <2> QED
    BY <2>3, <2>4
<1>7. CASE pattern = "remaining"
  <2>1. a = Rounds /\ i = a * Total + patternIdx
    BY <1>4, <1>7 DEF Turned
  <2>2. patternIdx = Rest
    <3>1. patternIdx \in Nat
      BY <1>1, <1>2, <1>3, <1>7
    <3> QED
      BY <1>1, <2>1, <3>1
  <2>3. Asked(t) = Rounds * cfg.weights[t] + Occ(PatternOf("remaining"), Rest, t)
    BY <1>4, <1>7, <2>1, <2>2 DEF Turned
  <2>4. Occ(PatternOf("remaining"), Rest, t) = RemainingCounts[t]
    BY <1>2, <1>5, PatternsAre DEF CountsOf
  <2> QED
    BY <2>3, <2>4
<1> QED
  BY <1>3, <1>6, <1>7

(* The share of all records is that of the rounds and that of the rest.     *)
Parted(w, m, r, p) == (w * (m * p + r)) \div p = m * w + ((w * r) \div p)

LEMMA ShareOfAll ==
  ASSUME NEW w \in Nat, NEW m \in Nat, NEW r \in Nat, NEW p \in Nat \ {0}
  PROVE  Parted(w, m, r, p)
<1> DEFINE y == w * r
           q == y \div p
           x == y % p
           z == m * w
<1>1. y \in Nat /\ z \in Nat
  BY Products
<1>2. q \in Nat /\ x \in 0..(p - 1) /\ y = q * p + x
  <2> HIDE DEF y
  <2> QED
    BY <1>1, WithRemainder
<1>3. w * (m * p + r) = z * p + y
  <2>1. m * p \in Nat
    BY Products
  <2>2. w * (m * p + r) = (m * p + r) * w
    BY <2>1, Products, m * p + r \in Nat
  <2>3. (m * p + r) * w = (m * p) * w + r * w
    BY <2>1, Distribute
  <2>4. (m * p) * w = (m * w) * p
    BY SMTT(30)
  <2>5. r * w = w * r
    BY Products
  <2> QED
    BY <2>2, <2>3, <2>4, <2>5
<1> HIDE DEF y, q, x, z
<1>4. (z + q) * p = z * p + q * p /\ z * p \in Nat /\ q * p \in Nat
  BY <1>1, <1>2, Distribute
<1>5. z * p + y = (z + q) * p + x
  <2> DEFINE zp == z * p
             qp == q * p
  <2>1. zp \in Nat /\ qp \in Nat /\ (z + q) * p = zp + qp /\ y = qp + x
    BY <1>2, <1>4
  <2>2. x \in Nat
    BY <1>2
  <2> HIDE DEF zp, qp
  <2>3. zp + y = (z + q) * p + x
    BY <2>1, <2>2
  <2> QED
    BY <2>3 DEF zp
<1>6. z + q \in Nat
  BY <1>1, <1>2
<1>7. (z * p + y) \div p = z + q
  BY <1>2, <1>5, <1>6, QuotientIs
<1> QED
  BY <1>3, <1>7 DEF Parted, y, q, z

(* The counts of a finished zone against the shares of the weights.         *)
LEMMA DoneShares ==
  ASSUME ShareInv
  PROVE  SharesKept
<1> SUFFICES ASSUME pc = "done", NEW t \in Types
             PROVE  LET number == Cardinality({k \in DOMAIN queries : queries[k].type = t})
                        share  == (cfg.weights[t] * cfg.records) \div Total
                    IN  IF t = MostCommon THEN number >= share - 1
                        ELSE number = share - (IF t \in cfg.short THEN 1 ELSE 0)
  BY DEF SharesKept
<1> DEFINE w == cfg.weights[t]
           m == Rounds
           q == (w * Rest) \div Total
           s == IF t \in cfg.short THEN 1 ELSE 0
<1>1. CfgOK /\ i = cfg.records
  BY DEF ShareInv, AnswerInv, Inv, MainOK
<1>2. Cardinality({k \in DOMAIN queries : queries[k].type = t}) = Asked(t)
  <2>1. DOMAIN queries = 1..Len(queries)
    BY LenProperties DEF ShareInv, AnswerInv, QueriesOK
  <2> QED
    BY <2>1 DEF Asked
<1>3. Asked(t) = m * w + RemainingCounts[t]
  BY <1>1, AskedAtEnd
<1>4. /\ m \in Nat /\ Rest \in Nat /\ Total \in Nat \ {0} /\ w \in Nat
      /\ cfg.records = m * Total + Rest
  BY <1>1, RecordsAre DEF CfgOK
<1>5. (w * cfg.records) \div Total = m * w + q
  <2> DEFINE p == Total
             r == Rest
  <2>1. w \in Nat /\ m \in Nat /\ r \in Nat /\ p \in Nat \ {0} /\ cfg.records = m * p + r
    BY <1>4
  <2> HIDE DEF p, r, w, m
  <2>2. Parted(w, m, r, p)
    BY <2>1, ShareOfAll
  <2>3. (w * cfg.records) \div p = m * w + ((w * r) \div p)
    BY <2>1, <2>2 DEF Parted
  <2> QED
    BY <2>3 DEF p, r
<1>6. q \in Nat /\ m * w \in Nat
  BY <1>4, Products, WithRemainder
<1>7. Shares[t] = q - s
  BY <1>1, SharesAre DEF Product
<1>8. t # MostCommon => RemainingCounts[t] = Shares[t]
  BY <1>1, RemainingAre
<1>9. t = MostCommon => RemainingCounts[t] >= Shares[t] /\ RemainingCounts[t] \in Nat
  BY <1>1, RemainingAre
<1> DEFINE all == m * w
<1>10. /\ Asked(t) = all + RemainingCounts[t] /\ all \in Nat
       /\ (w * cfg.records) \div Total = all + q
  BY <1>3, <1>5, <1>6
<1>11. s \in 0..1
  OBVIOUS
<1> HIDE DEF all, q, s, w
<1>12. CASE t = MostCommon
  <2>1. Asked(t) >= ((w * cfg.records) \div Total) - 1
    BY <1>6, <1>7, <1>9, <1>10, <1>11, <1>12
  <2> QED
    BY <1>2, <1>12, <2>1 DEF w
<1>13. CASE t # MostCommon
  <2>1. Asked(t) = ((w * cfg.records) \div Total) - s
    BY <1>6, <1>7, <1>8, <1>10, <1>11, <1>13
  <2> QED
    BY <1>2, <1>13, <2>1 DEF w, s
<1> QED
  BY <1>12, <1>13

(* The types of a finished zone keep their weights: each has its share of   *)
(* the records, rounded down, or one less where the quotient of floats fell *)
(* short, and what is left over goes to the most common type.               *)
THEOREM SharesAlwaysKept == Spec => []SharesKept
<1>1. Spec => []ShareInv
  BY InitShares, SharesStep, PTL DEF Spec
<1> QED
  BY <1>1, DoneShares, PTL
=============================================================================
