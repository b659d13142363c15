------------------------- MODULE ExportDownloadProofs -------------------------
(***************************************************************************)
(* For any number of entries, attempts and writes: an import takes a file  *)
(* that was written during its own wait, or one that its baseline missed,  *)
(* and for an entry with a UUID the file of that entry.                    *)
(*                                                                         *)
(* What a wait relies on is what it took down when it began: as long as a  *)
(* file that it looks at still has the version of the baseline, it was not *)
(* touched, and once it has another, it was written during this wait.  Of  *)
(* files that could not be read then, it knows nothing.                    *)
(* The importer's three looks at the file are in order, and files only     *)
(* grow newer: this is what lets its record tell whether they agree.       *)
(***************************************************************************)
EXTENDS ExportDownload, TLAPS

\* Attempts that began have an entry, later ones do not.
Begun ==
  /\ pc # "idle" => now \in Attempts
  /\ \A i \in Attempts : IF i <= now THEN of[i] \in Entries ELSE of[i] = NoEntry

\* Files that the present wait would look at.
Awaited(i) == of[i] = of[now] \/ of[now] \in Unresolved

\* What makes a file new: it was written during the wait, or the baseline missed it.
IsNew(i) == since[i] = now \/ i \in memory.missed

\* A file that differs from the baseline is new.
ChangedSince ==
  pc = "waiting" \/ pc \in Importing =>
    \A i \in Attempts : Awaited(i) /\ version[i] # memory.baseline[i] => IsNew(i)

\* The file that the importer has in hand is new.
InHand ==
  pc \in Importing =>
    /\ import.file \in Attempts
    /\ IsNew(import.file)
    /\ of[now] \notin Unresolved => of[import.file] = of[now]

\* The importer's looks at the file are in order.
InOrder ==
  /\ pc \in Importing => 0 < import.seen /\ import.seen <= Source
  /\ pc \in {"copying", "recording"} => import.seen <= import.rows /\ import.rows <= Source
  /\ pc = "recording" => import.rows <= import.raw /\ import.raw <= Source

\* A version noted as refused is not newer than what the importer read.
Noted ==
  \A i \in Attempts : remains.file = i /\ memory.failed[i] > 0 =>
    memory.failed[i] <= remains.rows /\ remains.rows <= version[i]

Safe == WrittenDuringWait /\ ResolvedIsOwn /\ RecordTells /\ RecordVouches

IInv == TypeOK /\ Begun /\ ChangedSince /\ InHand /\ InOrder /\ Noted /\ Safe

-----------------------------------------------------------------------------

Memory == [baseline : Versions, missed : SUBSET Attempts, failed : Versions,
           stable : Versions, ripe : SUBSET Attempts]
Imports == [file : 0..MaxAttempts, seen : 0..MaxWrites, rows : 0..MaxWrites,
            raw : 0..MaxWrites]

LEMMA BlankType ==
  /\ Blank \in Memory /\ NoImport \in Imports
  /\ \A i \in Attempts : Blank.failed[i] = 0
  /\ NoRemains \in [files : SUBSET Whole, file : 0..MaxAttempts, seen : 0..MaxWrites,
                   rows : 0..MaxWrites, raw : 0..MaxWrites, stat : 0..MaxWrites]
  /\ NoRemains.files = {} /\ NoRemains.file = 0
BY DownloadAssumption DEF Blank, Nothing, NoImport, NoRemains, Memory, Imports, Versions,
  Attempts, Whole

LEMMA InitIInv == Init => IInv
<1> SUFFICES ASSUME Init PROVE IInv
  OBVIOUS
<1> USE DEF Init
<1>1. TypeOK
  BY DownloadAssumption, BlankType DEF TypeOK, Versions, Memory, Imports, Nothing, Attempts
<1>2. Begun /\ ChangedSince /\ InHand /\ InOrder
  BY DownloadAssumption DEF Begun, ChangedSince, InHand, InOrder, Importing, Attempts
<1>3. Noted /\ Safe
  BY DownloadAssumption, BlankType
     DEF Noted, Safe, WrittenDuringWait, ResolvedIsOwn, RecordTells, RecordVouches, Attempts
<1> QED
  BY <1>1, <1>2, <1>3 DEF IInv

\* What an import leaves when it ends, successfully or not, keeps the promises
\* that are about it.
LEMMA LeaveSafe ==
  ASSUME IInv, pc \in Importing, NEW files \in Left \cup {Whole}, NEW rows,
         files = Whole => pc = "recording",
         rows = (IF pc = "parsing" THEN Source ELSE import.rows), Leave(files, rows)
  PROVE  /\ remains' \in [files : SUBSET Whole, file : 0..MaxAttempts, seen : 0..MaxWrites,
                          rows : 0..MaxWrites, raw : 0..MaxWrites, stat : 0..MaxWrites]
         /\ remains'.file = import.file
         /\ import.seen <= remains'.rows /\ remains'.rows <= Source
         /\ RecordTells' /\ RecordVouches'
<1> USE DEF IInv
<1>1. /\ import \in Imports /\ import.file \in Attempts /\ Source \in 0..MaxWrites
  BY DEF TypeOK, InHand, Imports, Source, Versions
<1>2. remains' = [files |-> files, file |-> import.file, seen |-> import.seen,
                  rows |-> rows, raw |-> import.raw, stat |-> Source]
  BY DEF Leave
<1>3. files \in SUBSET Whole /\ ("provenance" \in files => pc = "recording" /\ files = Whole)
  BY DEF Left, Importing, Whole
<1>4. rows \in 0..MaxWrites /\ import.seen <= rows /\ rows <= Source /\ import.seen > 0
  BY <1>1 DEF InOrder, Importing, Imports
<1>5. pc = "recording" => rows = import.rows /\ rows <= import.raw /\ import.raw <= Source
  BY DEF InOrder
<1>6. RecordTells'
  BY <1>1, <1>2, <1>3, <1>4, <1>5, DownloadAssumption DEF RecordTells, Imports
<1>7. RecordVouches'
  BY <1>1, <1>2, <1>3, <1>4, <1>5, DownloadAssumption DEF RecordVouches, Imports
<1> QED
  BY <1>1, <1>2, <1>3, <1>4, <1>6, <1>7 DEF Imports

LEMMA NextIInv == IInv /\ [Next]_vars => IInv'
<1> SUFFICES ASSUME IInv, [Next]_vars PROVE IInv'
  OBVIOUS
<1> USE DEF IInv
<1>1. ASSUME NEW e \in Entries, Begin(e) PROVE IInv'
  <2> USE <1>1 DEF Begin
  <2>1. now + 1 \in Attempts /\ now' = now + 1
    BY DownloadAssumption DEF TypeOK, Attempts
  <2>9. /\ now' \in 0..MaxAttempts /\ of' \in [Attempts -> Entries \cup {NoEntry}]
        /\ browser' \in [Attempts -> {"none", "exporting", "closed"}]
    BY <2>1, DownloadAssumption DEF TypeOK, Attempts
  <2>2. TypeOK'
    BY <2>9, BlankType DEF TypeOK
  <2>3. Begun'
    BY <2>1, DownloadAssumption DEF TypeOK, Begun, Attempts
  <2>8. ChangedSince' /\ InHand' /\ InOrder'
    BY DEF ChangedSince, InHand, InOrder, Importing
  <2>4. of[now + 1] = NoEntry
    BY <2>1, DownloadAssumption DEF TypeOK, Begun, Attempts
  <2>5. ASSUME NEW r \in receipts, r.entry \notin Unresolved PROVE of'[r.file] = r.entry
    <3>1. r.entry \in Entries /\ r.file \in Attempts /\ of[r.file] = r.entry
      BY <2>5 DEF TypeOK, Safe, ResolvedIsOwn
    <3> QED
      BY <3>1, <2>4, DownloadAssumption DEF TypeOK
  <2>6. Safe'
    BY <2>5, BlankType DEF Safe, WrittenDuringWait, ResolvedIsOwn, RecordTells, RecordVouches
  <2>7. Noted'
    BY BlankType, DownloadAssumption DEF Noted, Attempts
  <2> QED
    BY <2>2, <2>3, <2>6, <2>7, <2>8
<1>2. CASE Baseline
  <2> USE <1>2 DEF Baseline
  <2>0. PICK missed \in SUBSET Candidates(of[now]) :
          memory' = [Blank EXCEPT !.missed = missed, !.baseline =
            [i \in Attempts |-> IF i \in Candidates(of[now]) \ missed THEN version[i] ELSE 0]]
    OBVIOUS
  <2> DEFINE base == [i \in Attempts |->
                       IF i \in Candidates(of[now]) \ missed THEN version[i] ELSE 0]
  <2>9. base \in Versions /\ missed \in SUBSET Attempts
    BY DownloadAssumption DEF TypeOK, Versions, Candidates
  <2>10. memory' = [baseline |-> base, missed |-> missed, failed |-> Nothing,
                    stable |-> Nothing, ripe |-> {}]
    BY <2>0 DEF Blank
  <2> HIDE DEF base
  <2>11. Nothing \in Versions
    BY DownloadAssumption DEF Nothing, Versions
  <2>1. TypeOK'
    BY <2>9, <2>10, <2>11 DEF TypeOK
  <2>2. ASSUME NEW i \in Attempts, Awaited(i)
        PROVE  version[i] = memory'.baseline[i] \/ i \in memory'.missed
    <3>1. /\ memory'.baseline[i] = IF i \in Candidates(of[now]) \ missed THEN version[i] ELSE 0
          /\ memory'.missed = missed
      BY <2>10 DEF base
    <3>2. i \in Candidates(of[now]) \/ version[i] = 0
      BY <2>2, DownloadAssumption DEF Candidates, Awaited, TypeOK, Versions
    <3> QED
      BY <3>1, <3>2
  <2>3. ChangedSince'
    BY <2>2 DEF ChangedSince, Awaited, IsNew
  <2>4. Begun' /\ InHand' /\ InOrder' /\ Safe'
    BY DEF Begun, InHand, InOrder, Importing, Safe, WrittenDuringWait, ResolvedIsOwn,
           RecordTells, RecordVouches
  <2>5. Noted'
    <3>1. \A i \in Attempts : memory'.failed[i] = 0
      BY <2>10 DEF Nothing
    <3> QED
      BY <3>1 DEF Noted
  <2> QED
    BY <2>1, <2>3, <2>4, <2>5
<1>3. ASSUME NEW i \in Attempts, See(i) \/ Ripen(i) PROVE IInv'
  <2>1. /\ UNCHANGED <<now, pc, of, browser, version, since, import, remains, receipts>>
        /\ memory'.baseline = memory.baseline /\ memory'.failed = memory.failed
        /\ memory'.missed = memory.missed
    BY <1>3 DEF See, Ripen, TypeOK
  <2>2. memory' \in Memory
    <3>1. memory \in Memory /\ version[i] \in 0..MaxWrites
      BY DEF TypeOK, Versions, Memory
    <3>2. CASE See(i)
      <4>1. [memory.stable EXCEPT ![i] = version[i]] \in Versions
        BY <3>1 DEF Versions, Memory
      <4> QED
        BY <3>1, <3>2, <4>1 DEF See, Memory
    <3>3. CASE Ripen(i)
      BY <3>1, <3>3 DEF Ripen, Memory
    <3> QED
      BY <1>3, <3>2, <3>3
  <2>3. TypeOK'
    BY <2>1, <2>2 DEF TypeOK, Memory
  <2>4. Begun' /\ ChangedSince' /\ Noted'
    BY <2>1 DEF Begun, ChangedSince, Awaited, IsNew, Noted
  <2>5. InHand' /\ InOrder' /\ Safe'
    BY <2>1 DEF InHand, IsNew, InOrder, Source, Safe, WrittenDuringWait, ResolvedIsOwn, RecordTells,
                RecordVouches
  <2> QED
    BY <2>3, <2>4, <2>5
<1>4. ASSUME NEW i \in Attempts, TakeUp(i) PROVE IInv'
  <2> USE <1>4 DEF TakeUp
  <2>1. pc = "waiting" /\ i \in Candidates(of[now]) /\ version[i] # memory.baseline[i]
    BY DEF Stable, New
  <2>2. /\ version[i] \in 0..MaxWrites /\ version[i] > 0
        /\ IsNew(i) /\ (of[now] \notin Unresolved => of[i] = of[now])
    BY <2>1 DEF Candidates, ChangedSince, Awaited, TypeOK, Versions
  <2>3. import' \in Imports /\ import'.file = i /\ import'.seen = version[i]
    <3>1. import' = [file |-> i, seen |-> version[i], rows |-> 0, raw |-> 0]
      BY DEF NoImport
    <3>2. 0 \in 0..MaxWrites /\ i \in 0..MaxAttempts
      BY DownloadAssumption DEF Attempts
    <3> QED
      BY <3>1, <3>2, <2>2 DEF Imports, NoImport
  <2>4. TypeOK'
    BY <2>3, BlankType DEF TypeOK, Imports, Importing
  <2>5. Begun' /\ ChangedSince'
    BY <2>1 DEF Begun, ChangedSince, Awaited, IsNew
  <2>6. InHand' /\ InOrder'
    BY <2>2, <2>3 DEF InHand, IsNew, InOrder, Source
  <2>7. Noted' /\ Safe'
    BY BlankType, DownloadAssumption
       DEF Noted, Safe, WrittenDuringWait, ResolvedIsOwn, RecordTells, RecordVouches, Attempts
  <2> QED
    BY <2>4, <2>5, <2>6, <2>7
<1>5. CASE Parse \/ CopyAndPublish
  <2> USE <1>5 DEF Parse, CopyAndPublish
  <2>1. pc \in {"parsing", "copying"} /\ pc' \in {"copying", "recording"}
    OBVIOUS
  <2>2. import \in Imports /\ import.file \in Attempts /\ Source \in 0..MaxWrites
    BY <2>1 DEF TypeOK, InHand, Importing, Imports, Source, Versions
  <2>3. import' \in Imports /\ import'.file = import.file /\ Source' = Source
    BY <2>2 DEF Imports, Source
  <2>4. TypeOK'
    BY <2>1, <2>3 DEF TypeOK, Imports, Importing
  <2>5. Begun' /\ ChangedSince' /\ InHand'
    BY <2>1, <2>3 DEF Begun, ChangedSince, Awaited, IsNew, InHand, Importing
  <2>6. InOrder'
    BY <2>2, <2>3 DEF InOrder, Importing, Imports
  <2>7. Noted' /\ Safe'
    BY DEF Noted, Safe, WrittenDuringWait, ResolvedIsOwn, RecordTells, RecordVouches
  <2> QED
    BY <2>4, <2>5, <2>6, <2>7
<1>6. CASE Record
  <2>1. PICK leaves \in BOOLEAN : Over(leaves)
    BY <1>6 DEF Record
  <2> DEFINE new == [entry |-> of[now], attempt |-> now, file |-> import.file,
                     since |-> since[import.file],
                     missed |-> import.file \in memory.missed]
  <2>2. /\ pc = "recording" /\ Leave(Whole, import.rows)
        /\ receipts' = receipts \cup {new} /\ UNCHANGED <<now, of, version, since>>
    BY <1>6 DEF Record
  <2>3. pc \in Importing
    BY <2>2 DEF Importing
  <2>4. now \in Attempts /\ of[now] \in Entries
    BY <2>2, DownloadAssumption DEF Begun, TypeOK, Attempts
  <2>5. /\ import.file \in Attempts /\ IsNew(import.file)
        /\ of[now] \notin Unresolved => of[import.file] = of[now]
    BY <2>3 DEF InHand
  <2>6. /\ remains' \in [files : SUBSET Whole, file : 0..MaxAttempts, seen : 0..MaxWrites,
                         rows : 0..MaxWrites, raw : 0..MaxWrites, stat : 0..MaxWrites]
        /\ RecordTells' /\ RecordVouches'
    BY <2>2, <2>3, LeaveSafe
  <2>11. new \in [entry : Entries, attempt : Attempts, file : Attempts,
                  since : 0..MaxAttempts, missed : BOOLEAN]
    <3>1. since[import.file] \in 0..MaxAttempts
      BY <2>5 DEF TypeOK
    <3>2. (import.file \in memory.missed) \in BOOLEAN
      OBVIOUS
    <3> QED
      BY <2>4, <2>5, <3>1, <3>2, Zenon
  <2>12. /\ new.entry = of[now] /\ new.attempt = now /\ new.file = import.file
         /\ new.since = since[import.file]
    OBVIOUS
  <2>13. new.missed <=> import.file \in memory.missed
    BY Zenon
  <2> HIDE DEF new
  <2>7. TypeOK'
    BY <2>1, <2>2, <2>6, <2>11, BlankType DEF TypeOK, Over, Memory, Imports
  <2>8. Begun' /\ ChangedSince' /\ InHand' /\ InOrder'
    BY <2>1, <2>2 DEF Over, Begun, ChangedSince, InHand, InOrder, Importing
  <2>9. Noted'
    BY <2>1, BlankType DEF Noted, Over
  <2>10. Safe'
    <3>1. new.since = new.attempt \/ new.missed
      BY <2>5, <2>12, <2>13 DEF IsNew
    <3> QED
      BY <2>2, <2>5, <2>6, <2>12, <3>1 DEF Safe, WrittenDuringWait, ResolvedIsOwn
  <2> QED
    BY <2>7, <2>8, <2>9, <2>10
<1>7. CASE Refuse \/ Killed
  <2> DEFINE rows == IF pc = "parsing" THEN Source ELSE import.rows
  <2>1. pc \in Importing /\ UNCHANGED <<now, of, version, since, receipts>>
    BY <1>7 DEF Refuse, Killed
  <2>2. PICK files \in Left : Leave(files, rows)
    BY <1>7 DEF Refuse, Killed, Leftovers
  <2>3. files = Whole => pc = "recording"
    BY <2>1, <2>2 DEF Left, Importing, Whole
  <2>4. /\ remains' \in [files : SUBSET Whole, file : 0..MaxAttempts, seen : 0..MaxWrites,
                         rows : 0..MaxWrites, raw : 0..MaxWrites, stat : 0..MaxWrites]
        /\ remains'.file = import.file
        /\ import.seen <= remains'.rows /\ remains'.rows <= Source
        /\ RecordTells' /\ RecordVouches'
    <3> HIDE DEF rows
    <3>1. rows = IF pc = "parsing" THEN Source ELSE import.rows
      BY DEF rows
    <3> QED
      BY <2>1, <2>2, <2>3, <3>1, LeaveSafe
  <2>5. import \in Imports /\ import.file \in Attempts /\ memory \in Memory
    BY <2>1 DEF TypeOK, InHand, Imports, Memory
  <2>6. Safe'
    BY <2>1, <2>4 DEF Safe, WrittenDuringWait, ResolvedIsOwn
  <2>7. CASE Refuse
    <3>1. /\ pc' = "waiting" /\ import' = NoImport /\ browser' = browser
          /\ memory' = [memory EXCEPT !.failed[import.file] = import.seen]
      BY <2>7 DEF Refuse
    <3>2. [memory.failed EXCEPT ![import.file] = import.seen] \in Versions
      BY <2>5 DEF Memory, Imports, Versions
    <3>3. memory' \in Memory /\ memory'.baseline = memory.baseline
          /\ memory'.missed = memory.missed
          /\ memory'.failed = [memory.failed EXCEPT ![import.file] = import.seen]
      BY <2>5, <3>1, <3>2 DEF Memory
    <3>4. TypeOK'
      BY <2>1, <2>4, <3>1, <3>3, BlankType DEF TypeOK, Memory, Imports
    <3>5. Begun' /\ ChangedSince' /\ InHand' /\ InOrder'
      BY <2>1, <3>1, <3>3
         DEF Begun, ChangedSince, Awaited, IsNew, InHand, InOrder, Importing
    <3>6. memory'.failed[import.file] = import.seen
      BY <2>5, <3>3 DEF Memory, Versions
    <3>7. Noted'
      BY <2>1, <2>4, <2>5, <3>6 DEF Noted, Source
    <3> QED
      BY <2>6, <3>4, <3>5, <3>7
  <2>8. CASE Killed
    <3>1. Over(TRUE)
      BY <2>8 DEF Killed
    <3>2. TypeOK'
      BY <2>1, <2>4, <3>1, BlankType DEF TypeOK, Over, Memory, Imports
    <3>3. Begun' /\ ChangedSince' /\ InHand' /\ InOrder'
      BY <2>1, <3>1 DEF Over, Begun, ChangedSince, InHand, InOrder, Importing
    <3>4. Noted'
      BY <3>1, BlankType DEF Noted, Over
    <3> QED
      BY <2>6, <3>2, <3>3, <3>4
  <2> QED
    BY <1>7, <2>7, <2>8
<1>8. CASE GiveUp \/ DriverFails
  <2>1. PICK leaves \in BOOLEAN : Over(leaves)
    BY <1>8 DEF GiveUp, DriverFails
  <2>2. UNCHANGED <<now, of, version, since, remains, receipts>>
    BY <1>8 DEF GiveUp, DriverFails
  <2>3. TypeOK'
    BY <2>1, <2>2, BlankType DEF TypeOK, Over, Memory, Imports
  <2>4. Begun' /\ ChangedSince' /\ InHand' /\ InOrder'
    BY <2>1, <2>2 DEF Over, Begun, ChangedSince, InHand, InOrder, Importing
  <2>5. Noted' /\ Safe'
    BY <2>1, <2>2, BlankType
       DEF Over, Noted, Safe, WrittenDuringWait, ResolvedIsOwn, RecordTells, RecordVouches
  <2> QED
    BY <2>3, <2>4, <2>5
<1>9. ASSUME NEW i \in Attempts, Download(i) PROVE IInv'
  <2> USE <1>9 DEF Download
  <2>1. TypeOK'
    BY DownloadAssumption DEF TypeOK, Versions
  <2>2. \A k \in Attempts : version[k] <= version'[k] /\ version'[k] \in Nat /\ version[k] \in Nat
    BY DownloadAssumption DEF TypeOK, Versions
  <2>3. ASSUME pc = "waiting" \/ pc \in Importing, NEW k \in Attempts,
               of[k] = of[now] \/ of[now] \in Unresolved, version'[k] # memory.baseline[k]
        PROVE since'[k] = now \/ k \in memory.missed
    BY <2>3 DEF TypeOK, Versions, ChangedSince, Awaited, IsNew
  <2>4. ChangedSince'
    BY <2>3 DEF ChangedSince, Awaited, IsNew
  <2>5. Begun' /\ Safe'
    BY DEF Begun, Safe, WrittenDuringWait, ResolvedIsOwn, RecordTells, RecordVouches
  <2>6. InHand'
    BY DEF InHand, IsNew, TypeOK
  <2>7. InOrder'
    BY <2>2 DEF InOrder, InHand, Source, TypeOK, Importing
  <2>8. Noted'
    BY <2>2 DEF Noted, TypeOK, Versions
  <2> QED
    BY <2>1, <2>4, <2>5, <2>6, <2>7, <2>8
<1>10. CASE UNCHANGED vars
  BY <1>10 DEF vars, TypeOK, Begun, ChangedSince, Awaited, IsNew, InHand, InOrder, Source, Noted,
               Safe, WrittenDuringWait, ResolvedIsOwn, RecordTells, RecordVouches
<1> QED
  BY <1>1, <1>2, <1>3, <1>4, <1>5, <1>6, <1>7, <1>8, <1>9, <1>10 DEF Next, Wait, Importer

-----------------------------------------------------------------------------

\* Every variable keeps its type.
THEOREM TypeCorrect == Spec => []TypeOK
<1>1. IInv => TypeOK
  BY DEF IInv, Safe
<1> QED
  BY InitIInv, NextIInv, <1>1, PTL DEF Spec

\* Whatever earlier attempts, refused files and browsers left behind lie in the
\* worker's directory, _wait_and_import imports only a file that was written
\* during its own wait, or one that it could not stat when it took its baseline.
THEOREM ImportsAreNew == Spec => []WrittenDuringWait
<1>1. IInv => WrittenDuringWait
  BY DEF IInv, Safe
<1> QED
  BY InitIInv, NextIInv, <1>1, PTL DEF Spec

\* The file imported for an entry with a UUID is the export of that entry.
THEOREM ImportsAreOwn == Spec => []ResolvedIsOwn
<1>1. IInv => ResolvedIsOwn
  BY DEF IInv, Safe
<1> QED
  BY InitIInv, NextIInv, <1>1, PTL DEF Spec

\* When the size and time in a provenance record are those of the file that was
\* awaited, the rows and the raw copy are of that very file.
THEOREM RecordsTell == Spec => []RecordTells
<1>1. IInv => RecordTells
  BY DEF IInv, Safe
<1> QED
  BY InitIInv, NextIInv, <1>1, PTL DEF Spec

\* A provenance record speaks of files that are there.
THEOREM RecordsVouch == Spec => []RecordVouches
<1>1. IInv => RecordVouches
  BY DEF IInv, Safe
<1> QED
  BY InitIInv, NextIInv, <1>1, PTL DEF Spec

\* No file is turned away in a version that the importer has not read.
THEOREM RefusedWasRead == Spec => []RefusedAsRead
<1>1. IInv => RefusedAsRead
  BY DEF IInv, Noted, RefusedAsRead, TypeOK, Versions
<1> QED
  BY InitIInv, NextIInv, <1>1, PTL DEF Spec
=============================================================================
