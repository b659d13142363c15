---------------------------- MODULE ExportDownload ----------------------------
(***************************************************************************)
(* How one worker of the parallel exporter gets the CSV of the entry it    *)
(* has claimed (_wait_and_import of o2o_dps/chronicle_parallel_export.py): *)
(* a browser driver exports it, in as many browsers over time as there are *)
(* attempts, all into the worker's one download directory, and the worker  *)
(* tells by name, size and time which file is the answer.  The importer    *)
(* that takes it (o2o_dps/import_chronicle_csv.py) reads it three times,   *)
(* while the browser may still be writing.                                 *)
(*                                                                         *)
(* An attempt has a number, and so has the browser it starts and the file  *)
(* that browser writes.  The version of a file stands for its size and     *)
(* time of change; 0 is no file.                                           *)
(***************************************************************************)
EXTENDS Naturals

CONSTANTS
  Entries,
  NoEntry,
  Unresolved,    \* entries known by slug only (uuid_resolution)
  MaxAttempts,   \* bound
  MaxWrites      \* bound: times that a browser writes to its file

Attempts == 1..MaxAttempts

ASSUME DownloadAssumption ==
  /\ NoEntry \notin Entries /\ Unresolved \subseteq Entries
  /\ MaxAttempts \in Nat /\ MaxWrites \in Nat

VARIABLES
  now,       \* the last attempt begun
  pc,        \* "idle", "starting", "waiting", or the importer's next step
  of,        \* the entry of each attempt
  browser,   \* what became of each browser
  version,   \* the file of each browser, as it is now
  since,     \* the attempt whose wait it was last written during, 0 for none
  memory,    \* what the wait remembers of each file
  import,    \* what the importer has in hand
  remains,   \* what the last import left under the data root, until another begins
  receipts   \* the imports made

vars == <<now, pc, of, browser, version, since, memory, import, remains, receipts>>

Nothing == [i \in Attempts |-> 0]
Blank == [baseline |-> Nothing, missed |-> {}, failed |-> Nothing,
          stable |-> Nothing, ripe |-> {}]
NoImport == [file |-> 0, seen |-> 0, rows |-> 0, raw |-> 0]
NoRemains == [files |-> {}, file |-> 0, seen |-> 0, rows |-> 0, raw |-> 0, stat |-> 0]

Importing == {"parsing", "copying", "recording"}

Init ==
  /\ now = 0 /\ pc = "idle"
  /\ of = [i \in Attempts |-> NoEntry]
  /\ browser = [i \in Attempts |-> "none"]
  /\ version = Nothing /\ since = Nothing
  /\ memory = Blank /\ import = NoImport
  /\ remains = NoRemains /\ receipts = {}

\* Mutant: a file named after any instance will do.
CandidatesAny(e) == {i \in Attempts : version[i] > 0}

\* Files named after the entry; after any instance when its UUID is unknown.
Candidates(e) == {i \in Attempts : version[i] > 0 /\ (of[i] = e \/ e \in Unresolved)}

Begin(e) ==
  /\ pc = "idle" /\ now < MaxAttempts
  /\ \A r \in receipts : r.entry # e
  /\ now' = now + 1 /\ pc' = "starting"
  /\ of' = [of EXCEPT ![now + 1] = e]
  /\ browser' = [browser EXCEPT ![now + 1] = "exporting"]
  /\ remains' = NoRemains
  /\ UNCHANGED <<version, since, memory, import, receipts>>

\* Mutant: files of other attempts are not looked for.
BaselineOwn ==
  /\ pc = "starting" /\ pc' = "waiting"
  /\ memory' = [Blank EXCEPT !.baseline[now] = version[now]]
  /\ UNCHANGED <<now, of, browser, version, since, import, remains, receipts>>

\* The versions that are there before the wait, taken after the driver began.  A
\* file whose stat fails is left out, and counts as new later on.
Baseline ==
  /\ pc = "starting" /\ pc' = "waiting"
  /\ \E missed \in SUBSET Candidates(of[now]) :
       memory' = [Blank EXCEPT !.missed = missed, !.baseline =
         [i \in Attempts |-> IF i \in Candidates(of[now]) \ missed THEN version[i] ELSE 0]]
  /\ UNCHANGED <<now, of, browser, version, since, import, remains, receipts>>

New(i) ==
  /\ pc = "waiting" /\ i \in Candidates(of[now])
  /\ version[i] \notin {memory.baseline[i], memory.failed[i]}

See(i) ==
  /\ New(i) /\ memory.stable[i] # version[i]
  /\ memory' = [memory EXCEPT !.stable[i] = version[i], !.ripe = @ \ {i}]
  /\ UNCHANGED <<now, pc, of, browser, version, since, import, remains, receipts>>

\* Two polls or a second pass since the file was first seen in this version.
Ripen(i) ==
  /\ pc = "waiting" /\ memory.stable[i] > 0 /\ i \notin memory.ripe
  /\ memory' = [memory EXCEPT !.ripe = @ \cup {i}]
  /\ UNCHANGED <<now, pc, of, browser, version, since, import, remains, receipts>>

Stable(i) == New(i) /\ memory.stable[i] = version[i] /\ i \in memory.ripe

\* The attempt is over.  A driver that ends by itself closes its browser; one
\* that is terminated may leave it behind.
Over(leaves) ==
  /\ pc' = "idle" /\ memory' = Blank /\ import' = NoImport
  /\ browser' = IF browser[now] = "exporting" /\ ~leaves
                THEN [browser EXCEPT ![now] = "closed"] ELSE browser

\* The importer gets the file in the version just looked at.
TakeUp(i) ==
  /\ Stable(i)
  /\ pc' = "parsing" /\ import' = [NoImport EXCEPT !.file = i, !.seen = version[i]]
  /\ remains' = NoRemains
  /\ UNCHANGED <<now, of, browser, version, since, memory, receipts>>

-----------------------------------------------------------------------------
(* import_chronicle_csv.                                                   *)

Source == version[import.file]

\* The rows go to a temporary file.
Parse ==
  /\ pc = "parsing" /\ pc' = "copying"
  /\ import' = [import EXCEPT !.rows = Source]
  /\ UNCHANGED <<now, of, browser, version, since, memory, remains, receipts>>

\* The raw copy, then the temporary file gets its name.
CopyAndPublish ==
  /\ pc = "copying" /\ pc' = "recording"
  /\ import' = [import EXCEPT !.raw = Source]
  /\ UNCHANGED <<now, of, browser, version, since, memory, remains, receipts>>

Whole == {"raw", "normalized", "provenance"}

\* Mutant: the record takes size and time from when the rows were read.
LeaveEarly(files, rows) ==
  remains' = [files |-> files, file |-> import.file, seen |-> import.seen,
              rows |-> rows, raw |-> import.raw, stat |-> rows]

Leave(files, rows) ==
  remains' = [files |-> files, file |-> import.file, seen |-> import.seen,
              rows |-> rows, raw |-> import.raw, stat |-> Source]

\* The size and time of the source go to the provenance record.  The driver is
\* waited for and then terminated.
Record ==
  /\ pc = "recording" /\ Leave(Whole, import.rows)
  /\ receipts' = receipts \cup {[entry |-> of[now], attempt |-> now, file |-> import.file,
                                since |-> since[import.file],
                                missed |-> import.file \in memory.missed]}
  /\ \E leaves \in BOOLEAN : Over(leaves)
  /\ UNCHANGED <<now, of, version, since>>

\* What an import that ends before its next step is done leaves: a copy or a
\* record may have been begun.
Left ==
  CASE pc = "parsing"   -> {{}}
    [] pc = "copying"   -> {{}, {"raw"}}
    [] pc = "recording" -> {{"raw", "normalized"}, Whole}

Leftovers ==
  \E files \in Left : Leave(files, IF pc = "parsing" THEN Source ELSE import.rows)

\* Mutant: the version is taken after the import failed.
RefuseLate ==
  /\ pc \in Importing /\ pc' = "waiting"
  /\ memory' = [memory EXCEPT !.failed[import.file] = Source]
  /\ import' = NoImport
  /\ Leftovers
  /\ UNCHANGED <<now, of, browser, version, since, receipts>>

\* The importer refuses the file, or the file system one of its steps; the wait
\* notes the version that it had looked at.
Refuse ==
  /\ pc \in Importing /\ pc' = "waiting"
  /\ memory' = [memory EXCEPT !.failed[import.file] = import.seen]
  /\ import' = NoImport
  /\ Leftovers
  /\ UNCHANGED <<now, of, browser, version, since, receipts>>

\* The worker is killed.
Killed ==
  /\ pc \in Importing /\ Over(TRUE)
  /\ Leftovers
  /\ UNCHANGED <<now, of, version, since, receipts>>

-----------------------------------------------------------------------------
\* The export takes too long, the claim is lost, or a file cannot be read.
GiveUp ==
  /\ pc \in {"starting", "waiting"}
  /\ \E leaves \in BOOLEAN : Over(leaves)
  /\ UNCHANGED <<now, of, version, since, remains, receipts>>

DriverFails ==
  /\ pc = "waiting" /\ Over(FALSE)
  /\ UNCHANGED <<now, of, version, since, remains, receipts>>

\* A browser writes to its file, in one piece or several.
Download(i) ==
  /\ browser[i] = "exporting" /\ version[i] < MaxWrites
  /\ version' = [version EXCEPT ![i] = @ + 1]
  /\ since' = [since EXCEPT ![i] = IF pc \in {"waiting"} \cup Importing THEN now ELSE 0]
  /\ browser' \in {browser, [browser EXCEPT ![i] = "closed"]}
  /\ UNCHANGED <<now, pc, of, memory, import, remains, receipts>>

Wait == \E i \in Attempts : See(i) \/ Ripen(i) \/ TakeUp(i)
Importer == Parse \/ CopyAndPublish \/ Record \/ Refuse \/ Killed

Next ==
  \/ \E e \in Entries : Begin(e)
  \/ Baseline \/ Wait \/ Importer \/ GiveUp \/ DriverFails
  \/ \E i \in Attempts : Download(i)

Spec == Init /\ [][Next]_vars

-----------------------------------------------------------------------------
(* Properties.                                                             *)

Versions == [Attempts -> 0..MaxWrites]

TypeOK ==
  /\ now \in 0..MaxAttempts
  /\ pc \in {"idle", "starting", "waiting"} \cup Importing
  /\ of \in [Attempts -> Entries \cup {NoEntry}]
  /\ browser \in [Attempts -> {"none", "exporting", "closed"}]
  /\ version \in Versions
  /\ since \in [Attempts -> 0..MaxAttempts]
  /\ memory \in [baseline : Versions, missed : SUBSET Attempts, failed : Versions,
                 stable : Versions, ripe : SUBSET Attempts]
  /\ import \in [file : 0..MaxAttempts, seen : 0..MaxWrites, rows : 0..MaxWrites,
                 raw : 0..MaxWrites]
  /\ remains \in [files : SUBSET Whole, file : 0..MaxAttempts, seen : 0..MaxWrites,
                  rows : 0..MaxWrites, raw : 0..MaxWrites, stat : 0..MaxWrites]
  /\ receipts \subseteq [entry : Entries, attempt : Attempts, file : Attempts,
                         since : 0..MaxAttempts, missed : BOOLEAN]

\* An entry is imported only from a file that was written during the wait of
\* the very attempt that imports it, whatever earlier attempts, refused files
\* and browsers left behind lie in the directory, or from one that the baseline
\* of that attempt missed, because its stat failed just then: such a file counts
\* as new however old it is.
WrittenDuringWait == \A r \in receipts : r.since = r.attempt \/ r.missed

\* The CSV imported for an entry whose UUID is known is the export of that
\* entry, although files of other entries may arrive at any time.
ResolvedIsOwn == \A r \in receipts : r.entry \notin Unresolved => of[r.file] = r.entry

\* The rows, the raw copy and the record of an import come from three looks at a
\* file that may change in between.  That they agree can be told from the record:
\* when the size and time in it are those of the file that was awaited, nothing
\* changed on the way.
RecordTells ==
  /\ "provenance" \in remains.files
  /\ remains.stat = remains.seen
  => remains.rows = remains.seen /\ remains.raw = remains.seen

\* A provenance record never speaks of files that are not there, whichever step
\* of an import fails or is the last before the worker is killed.
RecordVouches ==
  "provenance" \in remains.files =>
    remains.files = Whole /\ remains.rows > 0 /\ remains.raw > 0

\* A wait never turns its back on a file that the importer has not judged as it
\* is: one that changes while it is being refused is looked at again.
RefusedAsRead ==
  \A i \in Attempts :
    remains.file = i /\ memory.failed[i] > 0 /\ memory.failed[i] = version[i]
      => remains.rows = version[i]
=============================================================================
