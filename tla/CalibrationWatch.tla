--------------------------- MODULE CalibrationWatch ---------------------------
(***************************************************************************)
(* The watcher of the game's SavedVariables (o2o_dps/calibration_watch.py  *)
(* with o2o_dps/import_savedvariables.py).  It polls the signature of the  *)
(* file, waits until a write has settled and then, once per signature,     *)
(* publishes the Shadow pairs of the file in a journal and imports it when *)
(* it holds a finished campaign without a receipt.  The same pass can be   *)
(* run by hand (--once) at any time, and the launcher may kill the watcher *)
(* and start another.  The game rewrites the file when it likes.           *)
(*                                                                         *)
(* Campaigns and pairs are ordinals.  What the pass derives from an import *)
(* (summaries, profiles, audits) is left out; that it may rewrite the      *)
(* receipts is not.                                                        *)
(***************************************************************************)
EXTENDS Naturals

CONSTANTS
  MaxWrites,     \* bound: writes of the game
  MaxCampaigns,  \* bound: campaigns that finish
  MaxPairs,      \* bound: Shadow pairs that are confirmed
  MaxUpsets      \* bound: passes by hand, processes killed, reads or writes that fail

ASSUME WatchAssumption ==
  {MaxWrites, MaxCampaigns, MaxPairs, MaxUpsets} \subseteq Nat

Processes == {"watch", "once"}
Campaigns == 1..MaxCampaigns
Pairs == 1..MaxPairs

\* The signature: how often the file was touched, odd while a write is not over.
Signatures == 0..(2 * MaxWrites)
None == 2 * MaxWrites + 1

VARIABLES
  file,        \* SavedVariables: signature, finished campaigns, confirmed pairs
  game,        \* campaigns finished and pairs confirmed in the game so far
  journal,     \* the Shadow pairs published, and what is wrong with the journal
  imported,    \* campaigns that some import holds
  state,       \* campaigns with a receipt (processed_campaigns)
  watch,       \* the watcher's memory
  run,         \* the pass that each process is in
  overlapped,  \* two passes were under way at once
  overtaken,   \* campaigns that left the file after a pass had seen them
  budget       \* upsets that are left

vars == <<file, game, journal, imported, state, watch, run, overlapped, overtaken, budget>>
outside == <<file, game, overtaken>>
data == <<journal, imported, state>>

Torn == file.signature % 2 = 1

Idle == [pc |-> "idle", polled |-> None, seen |-> {}, pairs |-> {},
         known |-> {}, loaded |-> {}]

Fresh == [alive |-> TRUE, pending |-> None, handled |-> None, failed |-> FALSE]

Init ==
  /\ file = [signature |-> 0, campaigns |-> {}, pairs |-> {}]
  /\ game = [campaigns |-> 0, pairs |-> 0]
  /\ journal = [pairs |-> {}, torn |-> FALSE, doubled |-> FALSE]
  /\ imported = {} /\ state = {}
  /\ watch = Fresh
  /\ run = [p \in Processes |-> Idle]
  /\ overlapped = FALSE /\ overtaken = {}
  /\ budget = MaxUpsets

----------------------------------------------------------------------------
\* The game, at a reload or a logout: the file is not whole until it ends.

BeginWrite ==
  /\ ~Torn /\ file.signature < 2 * MaxWrites
  /\ file' = [file EXCEPT !.signature = @ + 1]
  /\ UNCHANGED <<game, data, watch, run, overlapped, overtaken, budget>>

\* A campaign may have finished and a pair been confirmed since the last write,
\* and the ring of calibration rows may have been released.
EndWrite ==
  /\ Torn
  /\ \E campaign, pair, release \in BOOLEAN :
       LET c == game.campaigns + 1
           d == game.pairs + 1
           kept == IF release THEN {} ELSE file.campaigns
       IN /\ campaign => c \in Campaigns
          /\ pair => d \in Pairs
          /\ game' = [campaigns |-> IF campaign THEN c ELSE c - 1,
                      pairs |-> IF pair THEN d ELSE d - 1]
          /\ file' = [signature |-> file.signature + 1,
                      campaigns |-> kept \union (IF campaign THEN {c} ELSE {}),
                      pairs |-> 1..game'.pairs]
          /\ overtaken' = overtaken \union
               {x \in file.campaigns \ kept : \E p \in Processes :
                  run[p].pc \in {"publish", "append", "load", "import"} /\ x \in run[p].seen}
  /\ UNCHANGED <<data, watch, run, overlapped, budget>>

----------------------------------------------------------------------------
\* The watcher between its passes.

\* A signature that is new must settle before it is handled.
Notice ==
  /\ watch.alive /\ run["watch"].pc = "idle"
  /\ file.signature # watch.pending
  /\ watch' = [watch EXCEPT !.pending = file.signature]
  /\ UNCHANGED <<outside, data, run, overlapped, budget>>

Start(p) ==
  /\ run[p].pc = "idle"
  /\ run' = [run EXCEPT ![p] = [Idle EXCEPT !.pc = "inspect", !.polled = file.signature]]
  /\ overlapped' = (overlapped \/ \E q \in Processes : run[q].pc # "idle")
  /\ UNCHANGED <<outside, data, watch>>

\* The write has settled: the pass starts, once per signature.
Settled ==
  /\ watch.alive
  /\ file.signature = watch.pending /\ file.signature # watch.handled
  /\ Start("watch")
  /\ UNCHANGED budget

\* --once needs neither a change nor an idle watcher.
Once ==
  /\ budget > 0
  /\ Start("once")
  /\ budget' = budget - 1

\* Mutant: the signature that the file has when the pass ends.
MutantHandledNow(p) == file.signature

\* The signature that a pass was started for.
Handled(p) == run[p].polled

\* The pass is over; the watcher does not repeat it, failed or not.
Finish(p, failed) ==
  /\ run' = [run EXCEPT ![p] = Idle]
  /\ watch' = IF p = "watch"
              THEN [watch EXCEPT !.handled = Handled(p), !.failed = failed]
              ELSE watch

----------------------------------------------------------------------------
\* The pass (process_once).

\* The file is whole and unchanged while it is read and parsed.
Inspect(p) ==
  /\ run[p].pc = "inspect" /\ ~Torn
  /\ run' = [run EXCEPT ![p].pc = "publish",
                        ![p].seen = file.campaigns, ![p].pairs = file.pairs]
  /\ UNCHANGED <<outside, data, watch, overlapped, budget>>

\* It is not: the pass fails, and a later signature is noticed.
InspectUnstable(p) ==
  /\ run[p].pc = "inspect"
  /\ Torn \/ file.signature # run[p].polled
  /\ Finish(p, TRUE)
  /\ UNCHANGED <<outside, data, overlapped, budget>>

Unreadable == journal.torn \/ journal.doubled

\* A journal with a broken line or a pair twice is refused before anything else.
ReadJournal(p) ==
  /\ run[p].pc = "publish" /\ ~Unreadable
  /\ run' = [run EXCEPT ![p].pc = "append", ![p].known = journal.pairs]
  /\ UNCHANGED <<outside, data, watch, overlapped, budget>>

RefuseJournal(p) ==
  /\ run[p].pc = "publish" /\ Unreadable
  /\ Finish(p, TRUE)
  /\ UNCHANGED <<outside, data, overlapped, budget>>

\* Mutant: pairs are appended whether the journal has them or not.
MutantUnseen(p) == run[p].pairs

Unseen(p) == run[p].pairs \ run[p].known

\* The journal after lines were appended, the last of them whole or not.
Appended(lines, broken) ==
  [pairs |-> journal.pairs \union lines,
   torn |-> journal.torn \/ broken,
   doubled |-> journal.doubled \/ lines \intersect journal.pairs # {}]

Append(p) ==
  /\ run[p].pc = "append"
  /\ journal' = Appended(Unseen(p), FALSE)
  /\ run' = [run EXCEPT ![p].pc = "load"]
  /\ UNCHANGED <<outside, imported, state, watch, overlapped, budget>>

\* Mutant: the receipts of campaigns that are not in the file are dropped.
MutantLoad(p) ==
  /\ run[p].pc = "load"
  /\ run' = [run EXCEPT ![p].loaded = state \intersect run[p].seen,
                        ![p].pc = IF run[p].seen \ state # {} THEN "import" ELSE "judge"]
  /\ UNCHANGED <<outside, data, watch, overlapped, budget>>

\* The receipts: is there a campaign without one?
Load(p) ==
  /\ run[p].pc = "load"
  /\ run' = [run EXCEPT ![p].loaded = state,
                        ![p].pc = IF run[p].seen \ state # {} THEN "import" ELSE "judge"]
  /\ UNCHANGED <<outside, data, watch, overlapped, budget>>

\* Nothing is new.  The latest receipt may be completed by a later audit, which
\* rewrites all receipts as they were loaded.
Judge(p) ==
  /\ run[p].pc = "judge"
  /\ Finish(p, FALSE)
  /\ state' = state \/ (run[p].seen # {} /\ state' = run[p].loaded)
  /\ UNCHANGED <<outside, journal, imported, overlapped, budget>>

\* Mutant: a file that the importer cannot read gets its receipt all the same.
MutantImport(p) ==
  /\ run[p].pc = "import"
  /\ imported' = IF Torn THEN imported ELSE imported \union file.campaigns
  /\ run' = [run EXCEPT ![p].pc = "save"]
  /\ UNCHANGED <<outside, journal, state, watch, overlapped, budget>>

\* The importer reads the file again, as it is now.
Import(p) ==
  /\ run[p].pc = "import" /\ ~Torn
  /\ imported' = imported \union file.campaigns
  /\ run' = [run EXCEPT ![p].pc = "save"]
  /\ UNCHANGED <<outside, journal, state, watch, overlapped, budget>>

ImportTorn(p) ==
  /\ run[p].pc = "import" /\ Torn
  /\ Finish(p, TRUE)
  /\ UNCHANGED <<outside, data, overlapped, budget>>

\* A receipt for every campaign that the inspection found and none had.
Save(p) ==
  /\ run[p].pc = "save"
  /\ state' = run[p].loaded \union run[p].seen
  /\ Finish(p, FALSE)
  /\ UNCHANGED <<outside, journal, imported, overlapped, budget>>

----------------------------------------------------------------------------
\* Failures.

\* What is left in the journal when p ends where it stands.
Interrupted(p) ==
  IF run[p].pc = "append" /\ Unseen(p) # {}
  THEN \E lines \in SUBSET Unseen(p), broken \in BOOLEAN : journal' = Appended(lines, broken)
  ELSE UNCHANGED journal

\* An access fails with an error that the pass reports.
Fault(p) ==
  /\ budget > 0
  /\ run[p].pc \in {"inspect", "publish", "append", "load", "import"}
  /\ Finish(p, TRUE)
  /\ Interrupted(p)
  /\ budget' = budget - 1
  /\ UNCHANGED <<outside, imported, state, overlapped>>

\* A process ends where it stands: killed, or with an error it does not catch.
Kill(p) ==
  /\ budget > 0
  /\ IF p = "watch" THEN watch.alive ELSE run[p].pc # "idle"
  /\ run' = [run EXCEPT ![p] = Idle]
  /\ watch' = IF p = "watch" THEN [Fresh EXCEPT !.alive = FALSE] ELSE watch
  /\ Interrupted(p)
  /\ budget' = budget - 1
  /\ UNCHANGED <<outside, imported, state, overlapped>>

\* The launcher starts a watcher where none runs.
Restart ==
  /\ ~watch.alive
  /\ watch' = Fresh
  /\ UNCHANGED <<outside, data, run, overlapped, budget>>

----------------------------------------------------------------------------
Pass(p) ==
  \/ Inspect(p) \/ InspectUnstable(p)
  \/ ReadJournal(p) \/ RefuseJournal(p)
  \/ Append(p)
  \/ Load(p) \/ Judge(p)
  \/ Import(p) \/ ImportTorn(p)
  \/ Save(p)

Poll == Notice \/ Settled

Next ==
  \/ BeginWrite \/ EndWrite
  \/ Poll \/ Once
  \/ \E p \in Processes : Pass(p) \/ Fault(p) \/ Kill(p)
  \/ Restart

\* A write ends, the watcher polls and works, and is started where it is not.
Fairness ==
  /\ WF_vars(EndWrite) /\ WF_vars(Poll) /\ WF_vars(Pass("watch")) /\ WF_vars(Restart)

Spec == Init /\ [][Next]_vars
FairSpec == Spec /\ Fairness

----------------------------------------------------------------------------
\* Every variable has its type.
TypeOK ==
  /\ file \in [signature : Signatures, campaigns : SUBSET Campaigns, pairs : SUBSET Pairs]
  /\ game \in [campaigns : 0..MaxCampaigns, pairs : 0..MaxPairs]
  /\ journal \in [pairs : SUBSET Pairs, torn : BOOLEAN, doubled : BOOLEAN]
  /\ imported \subseteq Campaigns /\ state \subseteq Campaigns
  /\ watch \in [alive : BOOLEAN, pending : Signatures \union {None},
                handled : Signatures \union {None}, failed : BOOLEAN]
  /\ run \in [Processes ->
       [pc : {"idle", "inspect", "publish", "append", "load", "judge", "import", "save"},
        polled : Signatures \union {None}, seen : SUBSET Campaigns, pairs : SUBSET Pairs,
        known : SUBSET Pairs, loaded : SUBSET Campaigns]]
  /\ overlapped \in BOOLEAN /\ overtaken \subseteq Campaigns
  /\ budget \in 0..MaxUpsets

\* No pair is twice in the journal, whatever was killed, failed or repeated,
\* unless a pass by hand overlapped one of the watcher.
JournalDeduplicated == journal.doubled => overlapped

\* A campaign that has a receipt was imported: the importer reads the file
\* again, and only a campaign that the game released between the two looks gets
\* its receipt without an import.
ReceiptMeansImport == state \subseteq imported \union overtaken

\* A receipt is never lost, not even that of a campaign that has left the file,
\* unless two passes overlapped, which write all receipts as each loaded them.
ReceiptsKept == [][overlapped' \/ state \subseteq state']_vars

\* What no later write makes good: an unreadable journal, or a failed pass on
\* what the file now is.
Stuck == Unreadable \/ (watch.failed /\ watch.handled = file.signature)

\* However often the game rewrites the file (a bounded number of times here),
\* the watcher catches up in the end: the pairs of the file are published and
\* its campaigns imported, or the watcher is stuck.
CatchesUp ==
  []<>(Stuck \/ (file.pairs \subseteq journal.pairs /\ file.campaigns \subseteq imported))

============================================================================
