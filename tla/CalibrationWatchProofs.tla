------------------------ MODULE CalibrationWatchProofs ------------------------
(***************************************************************************)
(* Proofs about CalibrationWatch, for any writes of the game and any       *)
(* campaigns, pairs and upsets.                                            *)
(***************************************************************************)
EXTENDS CalibrationWatch, TLAPS

-----------------------------------------------------------------------------
(* The inductive invariant.                                                *)

\* A pass that another one joins is an overlap.
Alone ==
  ~overlapped => \A p, q \in Processes : run[p].pc # "idle" /\ run[q].pc # "idle" => p = q

\* What a pass x knows of the campaigns.  Until the import they are in the
\* file, unless the game has released them; then they are imported.
CampaignsFit(x) ==
  /\ x.pc \in {"publish", "append", "load", "import"} =>
       x.seen \subseteq file.campaigns \union overtaken
  /\ x.pc = "save" => x.seen \subseteq imported \union overtaken
  /\ x.pc \in {"judge", "import", "save"} => x.loaded \subseteq imported \union overtaken

\* A pass that was alone knows all that it is about to rewrite.
Knows(x) ==
  ~overlapped =>
    /\ x.pc = "append" => journal.pairs \subseteq x.known
    /\ x.pc \in {"judge", "import", "save"} => state \subseteq x.loaded

PassesFit == \A p \in Processes : CampaignsFit(run[p]) /\ Knows(run[p])

IInv == TypeOK /\ Alone /\ JournalDeduplicated /\ ReceiptMeansImport /\ PassesFit

-----------------------------------------------------------------------------
(* Types.                                                                  *)

FileType == [signature : Signatures, campaigns : SUBSET Campaigns, pairs : SUBSET Pairs]
JournalType == [pairs : SUBSET Pairs, torn : BOOLEAN, doubled : BOOLEAN]
WatchType ==
  [alive : BOOLEAN, pending : Signatures \union {None},
   handled : Signatures \union {None}, failed : BOOLEAN]
RunType ==
  [pc : {"idle", "inspect", "publish", "append", "load", "judge", "import", "save"},
   polled : Signatures \union {None}, seen : SUBSET Campaigns, pairs : SUBSET Pairs,
   known : SUBSET Pairs, loaded : SUBSET Campaigns]

LEMMA Types ==
  TypeOK <=>
    /\ file \in FileType
    /\ game \in [campaigns : 0..MaxCampaigns, pairs : 0..MaxPairs]
    /\ journal \in JournalType
    /\ imported \subseteq Campaigns /\ state \subseteq Campaigns
    /\ watch \in WatchType
    /\ run \in [Processes -> RunType]
    /\ overlapped \in BOOLEAN /\ overtaken \subseteq Campaigns
    /\ budget \in 0..MaxUpsets
BY DEF TypeOK, FileType, JournalType, WatchType, RunType

LEMMA BoundsAreNumbers ==
  MaxWrites \in Nat /\ MaxCampaigns \in Nat /\ MaxPairs \in Nat /\ MaxUpsets \in Nat
BY WatchAssumption

LEMMA IdleIsPass ==
  Idle \in RunType /\ Idle.pc = "idle"
BY DEF Idle, RunType

LEMMA FreshIsWatch ==
  Fresh \in WatchType /\ [Fresh EXCEPT !.alive = FALSE] \in WatchType
BY DEF Fresh, WatchType

LEMMA InitIInv ==
  Init => IInv
<1> SUFFICES ASSUME Init
             PROVE  IInv
  OBVIOUS
<1>1. file \in FileType /\ journal \in JournalType
  BY BoundsAreNumbers DEF Init, FileType, JournalType, Signatures
<1>2. game \in [campaigns : 0..MaxCampaigns, pairs : 0..MaxPairs] /\ budget \in 0..MaxUpsets
  BY BoundsAreNumbers DEF Init
<1>3. \A p \in Processes : run[p] = Idle
  BY DEF Init
<1>4. run \in [Processes -> RunType] /\ watch \in WatchType
  BY IdleIsPass, FreshIsWatch DEF Init
<1>5. TypeOK
  BY <1>1, <1>2, <1>4, Types DEF Init
<1>6. Alone /\ PassesFit
  BY <1>3, IdleIsPass DEF Alone, PassesFit, CampaignsFit, Knows
<1>7. JournalDeduplicated /\ ReceiptMeansImport
  BY DEF Init, JournalDeduplicated, ReceiptMeansImport
<1>8. QED
  BY <1>5, <1>6, <1>7 DEF IInv

-----------------------------------------------------------------------------
(* A step of one pass.                                                     *)

\* A pass moves on to x, or starts, while the game does nothing.  Only a pass
\* that is under way changes the journal or the receipts, and one that starts
\* while another is under way is an overlap.
LEMMA PassStep ==
  ASSUME IInv, NEW p \in Processes, NEW x \in RunType, run' = [run EXCEPT ![p] = x],
         UNCHANGED <<file, game, overtaken>>,
         watch' \in WatchType, budget' \in 0..MaxUpsets,
         overlapped' \in BOOLEAN, overlapped => overlapped',
         journal' \in JournalType, journal'.doubled => overlapped',
         imported \subseteq imported', imported' \subseteq Campaigns,
         state' \subseteq Campaigns, state' \subseteq imported' \union overtaken,
         run[p].pc = "idle" => journal' = journal /\ state' = state,
         run[p].pc = "idle" /\ x.pc # "idle" =>
           overlapped' \/ \A q \in Processes : run[q].pc = "idle",
         CampaignsFit(x)', Knows(x)'
  PROVE  IInv'
<1>1. TypeOK /\ run \in [Processes -> RunType]
  BY Types DEF IInv
<1>2. /\ run' \in [Processes -> RunType] /\ run'[p] = x
      /\ \A q \in Processes \ {p} : run'[q] = run[q]
  BY <1>1
<1>3. TypeOK'
  BY <1>1, <1>2, Types DEF TypeOK, JournalType, WatchType, RunType
<1>4. \A q \in Processes \ {p} :
        overlapped' \/ run[p].pc = "idle" \/ run[q].pc = "idle"
  BY DEF IInv, Alone
<1>5. Alone'
  <2>1. \A q \in Processes \ {p} : overlapped' \/ x.pc = "idle" \/ run[q].pc = "idle"
    BY <1>4
  <2>2. \A q, r \in Processes \ {p} :
          overlapped' \/ run[q].pc = "idle" \/ run[r].pc = "idle" \/ q = r
    BY DEF IInv, Alone
  <2>3. QED
    BY <1>2, <2>1, <2>2 DEF Alone
<1>6. JournalDeduplicated' /\ ReceiptMeansImport'
  BY DEF JournalDeduplicated, ReceiptMeansImport
<1>7. ASSUME NEW q \in Processes
      PROVE  CampaignsFit(run[q])' /\ Knows(run[q])'
  <2>1. CASE q = p
    BY <1>2, <2>1 DEF CampaignsFit, Knows
  <2>2. CASE q # p
    <3>1. run'[q] = run[q] /\ CampaignsFit(run[q]) /\ Knows(run[q])
      BY <1>2, <2>2 DEF IInv, PassesFit
    <3>2. CampaignsFit(run[q])'
      BY <3>1 DEF CampaignsFit
    <3>3. Knows(run[q])'
      BY <1>4, <2>2, <3>1 DEF Knows
    <3>4. QED
      BY <3>2, <3>3
  <2>3. QED
    BY <2>1, <2>2
<1>8. QED
  BY <1>3, <1>5, <1>6, <1>7 DEF IInv, PassesFit
-----------------------------------------------------------------------------
(* The steps.                                                              *)

\* A pass that is over.
LEMMA FinishResult ==
  ASSUME IInv, NEW p \in Processes, NEW failed \in BOOLEAN, Finish(p, failed)
  PROVE  run' = [run EXCEPT ![p] = Idle] /\ watch' \in WatchType
<1>1. watch \in WatchType /\ run[p] \in RunType
  BY Types DEF IInv
<1>2. run[p].polled \in Signatures \cup {None}
  BY <1>1 DEF RunType
<1>3. QED
  BY <1>1, <1>2 DEF Finish, Handled, WatchType

\* Lines that are appended to the journal, whole or not, by a pass that is alone
\* are not in it yet.
LEMMA AppendedResult ==
  ASSUME IInv, NEW p \in Processes, run[p].pc = "append",
         NEW lines \in SUBSET Unseen(p), NEW broken \in BOOLEAN
  PROVE  /\ Appended(lines, broken) \in JournalType
         /\ Appended(lines, broken).doubled => overlapped
<1>1. journal \in JournalType /\ run[p] \in RunType
  BY Types DEF IInv
<1>2. Knows(run[p])
  BY DEF IInv, PassesFit
<1>3. lines \subseteq Pairs
  BY <1>1 DEF Unseen, RunType
<1>4. ~overlapped => lines \cap journal.pairs = {}
  BY <1>2 DEF Knows, Unseen
<1>5. journal.doubled => overlapped
  BY DEF IInv, JournalDeduplicated
<1>6. Appended(lines, broken).doubled = (journal.doubled \/ lines \cap journal.pairs # {})
  BY DEF Appended
<1>7. Appended(lines, broken) \in JournalType
  <2>1. journal.pairs \cup lines \in SUBSET Pairs
    BY <1>1, <1>3 DEF JournalType
  <2>2. (journal.torn \/ broken) \in BOOLEAN
    OBVIOUS
  <2>3. (journal.doubled \/ lines \cap journal.pairs # {}) \in BOOLEAN
    OBVIOUS
  <2>4. QED
    BY <2>1, <2>2, <2>3 DEF Appended, JournalType
<1>8. QED
  BY <1>4, <1>5, <1>6, <1>7

\* A pass that ends where it stands leaves the journal so.
LEMMA InterruptedResult ==
  ASSUME IInv, NEW p \in Processes, Interrupted(p)
  PROVE  /\ journal' \in JournalType
         /\ journal'.doubled => overlapped
         /\ run[p].pc = "idle" => journal' = journal
<1>1. journal \in JournalType /\ (journal.doubled => overlapped)
  BY Types DEF IInv, JournalDeduplicated
<1>2. CASE run[p].pc = "append" /\ Unseen(p) # {}
  <2>1. PICK lines \in SUBSET Unseen(p), broken \in BOOLEAN : journal' = Appended(lines, broken)
    BY <1>2 DEF Interrupted
  <2>2. QED
    BY <1>2, <2>1, AppendedResult
<1>3. CASE ~(run[p].pc = "append" /\ Unseen(p) # {})
  <2>1. journal' = journal
    BY <1>3 DEF Interrupted
  <2>2. QED
    BY <1>1, <2>1
<1>4. QED
  BY <1>2, <1>3

\* A pass ends, with the receipts as they were or as it leaves them.
LEMMA EndKeepsIInv ==
  ASSUME IInv, NEW p \in Processes, run' = [run EXCEPT ![p] = Idle],
         UNCHANGED <<file, game, overtaken, imported, overlapped>>,
         watch' \in WatchType, budget' \in 0..MaxUpsets,
         journal' \in JournalType, journal'.doubled => overlapped,
         run[p].pc = "idle" => journal' = journal /\ state' = state,
         state' \subseteq imported \cup overtaken
  PROVE  IInv'
<1>1. imported \subseteq Campaigns /\ overtaken \subseteq Campaigns /\ overlapped \in BOOLEAN
  BY Types DEF IInv
<1>2. CampaignsFit(Idle)' /\ Knows(Idle)'
  BY IdleIsPass DEF CampaignsFit, Knows, Idle
<1>3. QED
  BY <1>1, <1>2, IdleIsPass, PassStep

LEMMA StartKeepsIInv ==
  ASSUME IInv, Settled \/ Once
  PROVE  IInv'
<1>1. PICK p \in Processes : Start(p)
  BY DEF Settled, Once, Processes
<1>2. PICK x : x = [Idle EXCEPT !.pc = "inspect", !.polled = file.signature]
  OBVIOUS
<1>3. x \in RunType /\ x.pc = "inspect"
  BY <1>2, IdleIsPass, Types DEF RunType, FileType, IInv
<1>4. /\ run' = [run EXCEPT ![p] = x] /\ run[p].pc = "idle"
      /\ overlapped' = (overlapped \/ \E q \in Processes : run[q].pc # "idle")
      /\ UNCHANGED <<file, game, overtaken, journal, imported, state, watch>>
  BY <1>1, <1>2 DEF Start, outside, data
<1>5. budget' \in 0..MaxUpsets
  BY BoundsAreNumbers, Types DEF Settled, Once, IInv
<1>6. /\ overlapped' \in BOOLEAN /\ (overlapped => overlapped')
      /\ overlapped' \/ \A q \in Processes : run[q].pc = "idle"
  BY <1>4
<1>7. CampaignsFit(x)' /\ Knows(x)'
  BY <1>3 DEF CampaignsFit, Knows
<1>8. /\ watch' \in WatchType /\ journal' \in JournalType
      /\ imported' \subseteq Campaigns /\ state' \subseteq Campaigns
      /\ journal'.doubled => overlapped'
      /\ state' \subseteq imported' \union overtaken
  BY <1>4, <1>6, Types DEF IInv, JournalDeduplicated, ReceiptMeansImport
<1>9. QED
  BY <1>3, <1>4, <1>5, <1>6, <1>7, <1>8, PassStep

\* A pass moves on to x and changes at most what was imported.
LEMMA MoveKeepsIInv ==
  ASSUME IInv, NEW p \in Processes, NEW x \in RunType, run' = [run EXCEPT ![p] = x],
         run[p].pc # "idle",
         UNCHANGED <<file, game, overtaken, state, watch, overlapped, budget>>,
         journal' \in JournalType, journal'.doubled => overlapped,
         imported \subseteq imported', imported' \subseteq Campaigns,
         CampaignsFit(x)', Knows(x)'
  PROVE  IInv'
<1>1. /\ watch' \in WatchType /\ budget' \in 0..MaxUpsets
      /\ overlapped' \in BOOLEAN /\ (overlapped => overlapped')
      /\ state' \subseteq Campaigns
      /\ journal'.doubled => overlapped'
      /\ state' \subseteq imported' \union overtaken
  BY Types DEF IInv, ReceiptMeansImport
<1>2. QED
  BY <1>1, PassStep

LEMMA PassKeepsIInv ==
  ASSUME IInv, NEW p \in Processes, Pass(p)
  PROVE  IInv'
<1>1. /\ run[p] \in RunType /\ journal \in JournalType /\ file \in FileType
      /\ watch \in WatchType /\ budget \in 0..MaxUpsets
      /\ imported \subseteq Campaigns /\ state \subseteq Campaigns
      /\ journal.doubled => overlapped
      /\ state \subseteq imported \cup overtaken
      /\ CampaignsFit(run[p]) /\ Knows(run[p])
  BY Types DEF IInv, JournalDeduplicated, ReceiptMeansImport, PassesFit
<1>2. CASE Inspect(p)
  <2>1. PICK x : x = [run[p] EXCEPT !.pc = "publish", !.seen = file.campaigns,
                                    !.pairs = file.pairs]
    OBVIOUS
  <2>2. x \in RunType /\ x.pc = "publish" /\ x.seen = file.campaigns
    BY <1>1, <2>1 DEF RunType, FileType
  <2>3. /\ run[p].pc = "inspect" /\ run' = [run EXCEPT ![p] = x]
        /\ UNCHANGED <<file, game, overtaken, journal, imported, state, watch, overlapped, budget>>
    BY <1>2, <2>1, Types DEF Inspect, outside, data, IInv
  <2>4. CampaignsFit(x)' /\ Knows(x)'
    BY <2>2, <2>3 DEF CampaignsFit, Knows
  <2>5. QED
    BY <1>1, <2>2, <2>3, <2>4, MoveKeepsIInv
<1>3. CASE ReadJournal(p)
  <2>1. PICK x : x = [run[p] EXCEPT !.pc = "append", !.known = journal.pairs]
    OBVIOUS
  <2>2. x \in RunType /\ x.pc = "append" /\ x.seen = run[p].seen /\ x.known = journal.pairs
    BY <1>1, <2>1 DEF RunType, JournalType
  <2>3. /\ run[p].pc = "publish" /\ run' = [run EXCEPT ![p] = x]
        /\ UNCHANGED <<file, game, overtaken, journal, imported, state, watch, overlapped, budget>>
    BY <1>3, <2>1, Types DEF ReadJournal, outside, data, IInv
  <2>4. CampaignsFit(x)' /\ Knows(x)'
    BY <1>1, <2>2, <2>3 DEF CampaignsFit, Knows
  <2>5. QED
    BY <1>1, <2>2, <2>3, <2>4, MoveKeepsIInv
<1>4. CASE Append(p)
  <2>1. PICK x : x = [run[p] EXCEPT !.pc = "load"]
    OBVIOUS
  <2>2. x \in RunType /\ x.pc = "load" /\ x.seen = run[p].seen
    BY <1>1, <2>1 DEF RunType
  <2>3. /\ run[p].pc = "append" /\ run' = [run EXCEPT ![p] = x]
        /\ journal' = Appended(Unseen(p), FALSE)
        /\ UNCHANGED <<file, game, overtaken, imported, state, watch, overlapped, budget>>
    BY <1>4, <2>1 DEF Append, outside
  <2>4. journal' \in JournalType /\ (journal'.doubled => overlapped)
    BY <2>3, AppendedResult
  <2>5. CampaignsFit(x)' /\ Knows(x)'
    BY <1>1, <2>2, <2>3 DEF CampaignsFit, Knows
  <2>6. QED
    BY <1>1, <2>2, <2>3, <2>4, <2>5, MoveKeepsIInv
<1>5. CASE Load(p)
  <2>1. PICK c \in {"import", "judge"} :
          c = IF run[p].seen \ state # {} THEN "import" ELSE "judge"
    OBVIOUS
  <2>2. PICK x : x = [run[p] EXCEPT !.loaded = state, !.pc = c]
    OBVIOUS
  <2>3. x \in RunType /\ x.pc = c /\ x.seen = run[p].seen /\ x.loaded = state
    BY <1>1, <2>2 DEF RunType
  <2>4. /\ run[p].pc = "load" /\ run' = [run EXCEPT ![p] = x]
        /\ UNCHANGED <<file, game, overtaken, journal, imported, state, watch, overlapped, budget>>
    BY <1>5, <2>1, <2>2, Types DEF Load, outside, data, IInv
  <2>5. CampaignsFit(x)' /\ Knows(x)'
    BY <1>1, <2>1, <2>3, <2>4 DEF CampaignsFit, Knows
  <2>6. QED
    BY <1>1, <2>3, <2>4, <2>5, MoveKeepsIInv
<1>6. CASE Import(p)
  <2>1. PICK x : x = [run[p] EXCEPT !.pc = "save"]
    OBVIOUS
  <2>2. x \in RunType /\ x.pc = "save" /\ x.seen = run[p].seen /\ x.loaded = run[p].loaded
    BY <1>1, <2>1 DEF RunType
  <2>3. /\ run[p].pc = "import" /\ run' = [run EXCEPT ![p] = x]
        /\ imported' = imported \cup file.campaigns
        /\ UNCHANGED <<file, game, overtaken, journal, state, watch, overlapped, budget>>
    BY <1>6, <2>1 DEF Import, outside
  <2>4. imported \subseteq imported' /\ imported' \subseteq Campaigns
    BY <1>1, <2>3 DEF FileType
  <2>5. CampaignsFit(x)' /\ Knows(x)'
    BY <1>1, <2>2, <2>3 DEF CampaignsFit, Knows
  <2>6. QED
    BY <1>1, <2>2, <2>3, <2>4, <2>5, MoveKeepsIInv
<1>7. CASE InspectUnstable(p) \/ RefuseJournal(p) \/ ImportTorn(p)
  <2>1. /\ Finish(p, TRUE) /\ run[p].pc # "idle"
        /\ UNCHANGED <<file, game, overtaken, journal, imported, state, overlapped, budget>>
    BY <1>7 DEF InspectUnstable, RefuseJournal, ImportTorn, outside, data
  <2>2. run' = [run EXCEPT ![p] = Idle] /\ watch' \in WatchType
    BY <2>1, FinishResult
  <2>3. QED
    BY <1>1, <2>1, <2>2, EndKeepsIInv
<1>8. CASE Judge(p) \/ Save(p)
  <2>1. /\ Finish(p, FALSE) /\ run[p].pc \in {"judge", "save"}
        /\ UNCHANGED <<file, game, overtaken, journal, imported, overlapped, budget>>
    BY <1>8 DEF Judge, Save, outside
  <2>2. run' = [run EXCEPT ![p] = Idle] /\ watch' \in WatchType
    BY <2>1, FinishResult
  <2>3. state' \subseteq imported \cup overtaken
    <3>1. CASE Judge(p)
      BY <1>1, <3>1 DEF Judge, CampaignsFit
    <3>2. CASE Save(p)
      BY <1>1, <3>2 DEF Save, CampaignsFit
    <3>3. QED
      BY <1>8, <3>1, <3>2
  <2>4. QED
    BY <1>1, <2>1, <2>2, <2>3, EndKeepsIInv
<1>9. QED
  BY <1>2, <1>3, <1>4, <1>5, <1>6, <1>7, <1>8 DEF Pass

LEMMA UpsetKeepsIInv ==
  ASSUME IInv, NEW p \in Processes, Fault(p) \/ Kill(p)
  PROVE  IInv'
<1>1. /\ Interrupted(p)
      /\ UNCHANGED <<file, game, overtaken, imported, state, overlapped>>
  BY DEF Fault, Kill, outside
<1>2. run' = [run EXCEPT ![p] = Idle] /\ watch' \in WatchType
  <2>1. CASE Fault(p)
    BY <2>1, FinishResult DEF Fault
  <2>2. CASE Kill(p)
    BY <2>2, FreshIsWatch, Types DEF Kill, IInv
  <2>3. QED
    BY <2>1, <2>2
<1>3. budget' \in 0..MaxUpsets
  <2>1. budget \in 0..MaxUpsets /\ budget > 0 /\ budget' = budget - 1
    BY Types DEF Fault, Kill, IInv
  <2>2. QED
    BY <2>1, BoundsAreNumbers
<1>4. /\ journal' \in JournalType
      /\ journal'.doubled => overlapped
      /\ run[p].pc = "idle" => journal' = journal
  BY <1>1, InterruptedResult
<1>5. QED
  BY <1>1, <1>2, <1>3, <1>4, EndKeepsIInv DEF IInv, ReceiptMeansImport

-----------------------------------------------------------------------------
(* The game, and the watcher between its passes.                           *)

\* The game writes: only what the file holds changes, and what a pass has seen
\* and is released is noted.
LEMMA WriteKeepsIInv ==
  ASSUME IInv, UNCHANGED <<journal, imported, state, watch, run, overlapped, budget>>,
         file' \in FileType, game' \in [campaigns : 0..MaxCampaigns, pairs : 0..MaxPairs],
         overtaken \subseteq overtaken', overtaken' \subseteq Campaigns,
         \A p \in Processes : run[p].pc \in {"publish", "append", "load", "import"} =>
           run[p].seen \cap file.campaigns \subseteq file'.campaigns \cup overtaken'
  PROVE  IInv'
<1>1. TypeOK'
  BY Types DEF IInv, TypeOK, FileType
<1>2. Alone' /\ JournalDeduplicated' /\ ReceiptMeansImport'
  BY DEF IInv, Alone, JournalDeduplicated, ReceiptMeansImport
<1>3. ASSUME NEW p \in Processes
      PROVE  CampaignsFit(run[p])' /\ Knows(run[p])'
  <2>1. CampaignsFit(run[p]) /\ Knows(run[p])
    BY DEF IInv, PassesFit
  <2>2. QED
    BY <2>1 DEF CampaignsFit, Knows
<1>4. QED
  BY <1>1, <1>2, <1>3 DEF IInv, PassesFit

LEMMA GameKeepsIInv ==
  ASSUME IInv, BeginWrite \/ EndWrite
  PROVE  IInv'
<1>1. /\ file \in FileType /\ game \in [campaigns : 0..MaxCampaigns, pairs : 0..MaxPairs]
      /\ overtaken \subseteq Campaigns
      /\ file.signature \in 0..(2 * MaxWrites) /\ file.campaigns \subseteq Campaigns
  BY Types DEF IInv, FileType, Signatures
<1>2. CASE BeginWrite
  <2>1. /\ file.signature < 2 * MaxWrites
        /\ file' = [file EXCEPT !.signature = file.signature + 1]
        /\ UNCHANGED <<game, overtaken, journal, imported, state, watch, run, overlapped, budget>>
    BY <1>2 DEF BeginWrite, data
  <2>2. file.signature + 1 \in Signatures
    BY <1>1, <2>1, BoundsAreNumbers DEF Signatures
  <2>3. file' \in FileType /\ file'.campaigns = file.campaigns
    BY <1>1, <2>1, <2>2 DEF FileType
  <2>4. QED
    BY <1>1, <2>1, <2>3, WriteKeepsIInv
<1>3. CASE EndWrite
  <2>1. PICK campaign \in BOOLEAN, pair \in BOOLEAN, release \in BOOLEAN :
          LET c == game.campaigns + 1
              d == game.pairs + 1
              kept == IF release THEN {} ELSE file.campaigns
          IN /\ campaign => c \in Campaigns
             /\ pair => d \in Pairs
             /\ game' = [campaigns |-> IF campaign THEN c ELSE c - 1,
                         pairs |-> IF pair THEN d ELSE d - 1]
             /\ file' = [signature |-> file.signature + 1,
                         campaigns |-> kept \union (IF campaign THEN {c} ELSE {}),
                         pairs |-> 1..game'.pairs]
             /\ overtaken' = overtaken \union
                  {x \in file.campaigns \ kept : \E p \in Processes :
                     run[p].pc \in {"publish", "append", "load", "import"} /\ x \in run[p].seen}
    BY <1>3, ZenonT(60) DEF EndWrite
  <2> DEFINE Kept(x) == IF x THEN {} ELSE file.campaigns
  <2>2. game' \in [campaigns : 0..MaxCampaigns, pairs : 0..MaxPairs]
    <3>1. game.campaigns \in 0..MaxCampaigns /\ game.pairs \in 0..MaxPairs
      BY <1>1
    <3> DEFINE c == game.campaigns + 1
               d == game.pairs + 1
    <3>2. /\ game' = [campaigns |-> IF campaign THEN c ELSE c - 1,
                      pairs |-> IF pair THEN d ELSE d - 1]
          /\ campaign => c \in Campaigns
          /\ pair => d \in Pairs
      BY <2>1, Zenon
    <3>3. (IF campaign THEN c ELSE c - 1) \in 0..MaxCampaigns
      <4>1. CASE campaign
        BY <3>2, <4>1, BoundsAreNumbers DEF Campaigns
      <4>2. CASE ~campaign
        BY <3>1, <4>2, BoundsAreNumbers
      <4>3. QED
        BY <4>1, <4>2
    <3>4. (IF pair THEN d ELSE d - 1) \in 0..MaxPairs
      <4>1. CASE pair
        BY <3>2, <4>1, BoundsAreNumbers DEF Pairs
      <4>2. CASE ~pair
        BY <3>1, <4>2, BoundsAreNumbers
      <4>3. QED
        BY <4>1, <4>2
    <3> HIDE DEF c, d
    <3>5. QED
      BY <3>2, <3>3, <3>4
  <2>3. file' \in FileType
    <3>1. file.signature + 1 \in Signatures
      <4>1. file.signature % 2 = 1
        BY <1>3 DEF EndWrite, Torn
      <4>2. file.signature # 2 * MaxWrites
        BY <1>1, <4>1, BoundsAreNumbers
      <4>3. QED
        BY <1>1, <4>2, BoundsAreNumbers DEF Signatures
    <3>2. 1..game'.pairs \subseteq Pairs
      BY <2>2, BoundsAreNumbers DEF Pairs
    <3>3. Kept(release) \union (IF campaign THEN {game.campaigns + 1} ELSE {}) \subseteq Campaigns
      BY <1>1, <2>1
    <3>4. QED
      BY <2>1, <3>1, <3>2, <3>3 DEF FileType
  <2>4. overtaken \subseteq overtaken' /\ overtaken' \subseteq Campaigns
    BY <1>1, <2>1
  <2>5. \A p \in Processes : run[p].pc \in {"publish", "append", "load", "import"} =>
          run[p].seen \cap file.campaigns \subseteq file'.campaigns \cup overtaken'
    <3>1. Kept(release) \subseteq file'.campaigns
      BY <2>1
    <3>2. QED
      BY <2>1, <3>1
  <2>6. UNCHANGED <<journal, imported, state, watch, run, overlapped, budget>>
    BY <1>3 DEF EndWrite, data
  <2>7. QED
    BY <2>2, <2>3, <2>4, <2>5, <2>6, WriteKeepsIInv
<1>4. QED
  BY <1>2, <1>3

\* Only the watcher's memory changes.
LEMMA WatcherKeepsIInv ==
  ASSUME IInv, Notice \/ Restart
  PROVE  IInv'
<1>1. UNCHANGED <<file, game, overtaken, journal, imported, state, run, overlapped, budget>>
  BY DEF Notice, Restart, outside, data
<1>2. watch' \in WatchType
  <2>1. CASE Notice
    <3>1. watch \in WatchType /\ file.signature \in Signatures
      BY Types DEF IInv, FileType
    <3>2. QED
      BY <2>1, <3>1 DEF Notice, WatchType
  <2>2. CASE Restart
    BY <2>2, FreshIsWatch DEF Restart
  <2>3. QED
    BY <2>1, <2>2
<1>3. TypeOK'
  BY <1>1, <1>2, Types DEF IInv, TypeOK, WatchType
<1>4. QED
  BY <1>1, <1>3 DEF IInv, Alone, JournalDeduplicated, ReceiptMeansImport, PassesFit,
                    CampaignsFit, Knows

LEMMA NextIInv ==
  IInv /\ [Next]_vars => IInv'
<1> SUFFICES ASSUME IInv, [Next]_vars
             PROVE  IInv'
  OBVIOUS
<1>1. CASE BeginWrite \/ EndWrite
  BY <1>1, GameKeepsIInv
<1>2. CASE Notice \/ Restart
  BY <1>2, WatcherKeepsIInv
<1>3. CASE Settled \/ Once
  BY <1>3, StartKeepsIInv
<1>4. CASE \E p \in Processes : Pass(p)
  BY <1>4, PassKeepsIInv
<1>5. CASE \E p \in Processes : Fault(p) \/ Kill(p)
  BY <1>5, UpsetKeepsIInv
<1>6. CASE UNCHANGED vars
  BY <1>6 DEF vars, IInv, TypeOK, Alone, JournalDeduplicated, ReceiptMeansImport, PassesFit,
              CampaignsFit, Knows
<1>7. QED
  BY <1>1, <1>2, <1>3, <1>4, <1>5, <1>6 DEF Next, Poll

\* The invariant holds in every state.
THEOREM Invariance == Spec => []IInv
<1>1. QED
  BY InitIInv, NextIInv, PTL DEF Spec

-----------------------------------------------------------------------------
(* What it is for.                                                         *)

\* Every variable always has its type.
THEOREM TypeCorrect == Spec => []TypeOK
<1>1. IInv => TypeOK
  BY DEF IInv
<1>2. QED
  BY <1>1, Invariance, PTL

\* No pair is twice in the journal, whatever was killed, failed or repeated,
\* unless a pass by hand overlapped one of the watcher.
THEOREM PairsAreOnce == Spec => []JournalDeduplicated
<1>1. IInv => JournalDeduplicated
  BY DEF IInv
<1>2. QED
  BY <1>1, Invariance, PTL

\* A campaign that has a receipt was imported, unless the game released it
\* between the two looks of a pass at the file.
THEOREM ReceiptsMeanImports == Spec => []ReceiptMeansImport
<1>1. IInv => ReceiptMeansImport
  BY DEF IInv
<1>2. QED
  BY <1>1, Invariance, PTL

\* No receipt is lost as long as no two passes overlap.
THEOREM ReceiptsStay == Spec => ReceiptsKept
<1>1. ASSUME IInv, [Next]_vars
      PROVE  overlapped' \/ state \subseteq state'
  <2>1. CASE \E p \in Processes : Judge(p) \/ Save(p)
    <3>1. PICK p \in Processes : Judge(p) \/ Save(p)
      BY <2>1
    <3>2. /\ run[p].pc \in {"judge", "save"} /\ overlapped' = overlapped
          /\ \/ state' = state \/ state' = run[p].loaded
             \/ state' = run[p].loaded \cup run[p].seen
      BY <3>1 DEF Judge, Save
    <3>3. overlapped \/ state \subseteq run[p].loaded
      BY <1>1, <3>2 DEF IInv, PassesFit, Knows
    <3>4. QED
      BY <3>2, <3>3
  <2>2. CASE ~ \E p \in Processes : Judge(p) \/ Save(p)
    <3>1. state' = state
      BY <1>1, <2>2 DEF Next, vars, BeginWrite, EndWrite, Poll, Notice, Settled, Once, Start,
                        Pass, Inspect, InspectUnstable, ReadJournal, RefuseJournal, Append,
                        Load, Import, ImportTorn, Fault, Kill, Restart, data
    <3>2. QED
      BY <3>1
  <2>3. QED
    BY <2>1, <2>2
<1>2. IInv /\ [Next]_vars => [overlapped' \/ state \subseteq state']_vars
  BY <1>1
<1>3. Spec => []IInv /\ [][Next]_vars
  BY Invariance, PTL DEF Spec
<1>4. Spec => [][overlapped' \/ state \subseteq state']_vars
  BY <1>2, <1>3, PTL
<1>5. QED
  BY <1>4 DEF ReceiptsKept

=============================================================================
