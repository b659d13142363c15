---------------------------- MODULE ExternalIngest ----------------------------
(***************************************************************************)
(* The incremental download of raids from Chronicle's External API         *)
(* (ingest_external_api of o2o_dps/chronicle_external_api_ingest_v1.py).   *)
(* A run lists what was uploaded since its cursor, page by page, downloads *)
(* what is new, publishes a manifest of it and only then moves the         *)
(* watermark of its scope, from which the next run starts.  Nothing locks  *)
(* the watermark: several runs of one scope may overlap.                   *)
(*                                                                         *)
(* A raid is the ordinal of its upload, so at is nondecreasing; several    *)
(* raids may have the same time.  The server may list in either order.     *)
(***************************************************************************)
EXTENDS Naturals, FiniteSets

CONSTANTS
  Runners,         \* processes that run the ingest
  PageSize,        \* --page-size
  Limits,          \* values of --max-pages and --max-instances that runs are given
  Orders,          \* orders in which the server may list
  MaxUploads,      \* bound: raids uploaded
  MaxTime,         \* bound: the latest time of upload
  MaxBroken,       \* bound: runs that are killed or fail
  MaxExplicit      \* bound: runs that are given --upload-after

Raids == 1..MaxUploads
Times == 1..MaxTime

ASSUME IngestAssumption ==
  /\ PageSize \in Nat \ {0}
  /\ Limits \subseteq [pages : Nat \ {0}, instances : Nat \ {0}]
  /\ Orders \subseteq {"newest", "oldest"}
  /\ {MaxUploads, MaxTime, MaxBroken, MaxExplicit} \subseteq Nat

VARIABLES
  count,      \* raids uploaded so far
  at,         \* their times of upload (uploaded_at)
  order,      \* which raids the server lists first
  objects,    \* raids whose objects are all in the store
  published,  \* raids that some manifest holds
  mark,       \* the watermark file
  run,        \* what each process holds in memory
  waived,     \* the latest --upload-after given to any run
  budget      \* what is left of the bounds

vars == <<count, at, order, objects, published, mark, run, waived, budget>>
server == <<count, at, order>>

\* The watermark; there is none before the first run has written it.
Mark(after, ids) == [exists |-> TRUE, after |-> after, ids |-> ids]
NoMark == [exists |-> FALSE, after |-> 0, ids |-> {}]

Idle == [pc |-> "idle", explicit |-> FALSE, after |-> 0, prior |-> NoMark,
         limits |-> [pages |-> 0, instances |-> 0], page |-> 0,
         seen |-> {}, new |-> {}, todo |-> {}]

Init ==
  /\ count = 0
  /\ at = [r \in Raids |-> 0]
  /\ order \in Orders
  /\ objects = {} /\ published = {}
  /\ mark = NoMark
  /\ run = [p \in Runners |-> Idle]
  /\ waived = 0
  /\ budget = [broken |-> MaxBroken, explicit |-> MaxExplicit]

----------------------------------------------------------------------------
\* The server.

Now == IF count = 0 THEN 1 ELSE at[count]

Upload(t) ==
  /\ count < MaxUploads
  /\ t >= Now
  /\ count' = count + 1
  /\ at' = [at EXCEPT ![count + 1] = t]
  /\ UNCHANGED <<order, objects, published, mark, run, waived, budget>>

\* The raids uploaded at or after a time are First(after)..count.
First(after) ==
  CHOOSE f \in 1..(count + 1) : \A r \in 1..count : at[r] >= after <=> r >= f

\* How many raids of a listing precede r.
Rank(r, after) == IF order = "newest" THEN count - r ELSE r - First(after)

PageOf(after, k) ==
  {r \in First(after)..count : Rank(r, after) >= (k - 1) * PageSize
                               /\ Rank(r, after) < k * PageSize}

HasMore(after, k) == \E r \in First(after)..count : Rank(r, after) >= k * PageSize

----------------------------------------------------------------------------
\* A run.

Start(p, explicit, after, limits) ==
  /\ run[p].pc = "idle"
  /\ run' = [run EXCEPT ![p] =
       [Idle EXCEPT !.pc = "list", !.explicit = explicit, !.after = after, !.prior = mark,
                    !.limits = limits]]
  /\ UNCHANGED <<server, objects, published, mark>>

\* use_watermark: refused while the scope has no watermark.
StartFromWatermark(p, limits) ==
  /\ mark.exists
  /\ Start(p, FALSE, mark.after, limits)
  /\ UNCHANGED <<waived, budget>>

StartFrom(p, t, limits) ==
  /\ budget.explicit > 0
  /\ Start(p, TRUE, t, limits)
  /\ waived' = IF t > waived THEN t ELSE waived
  /\ budget' = [budget EXCEPT !.explicit = @ - 1]

\* The run with the next page of its listing, as the server now has it, and
\* whether the server says that there are more.
Listed(p) ==
  [run[p] EXCEPT !.page = @ + 1, !.seen = @ \union PageOf(run[p].after, run[p].page + 1)]
More(p) == HasMore(run[p].after, run[p].page + 1)
LastPage(p) == ~More(p) \/ run[p].page + 1 = run[p].limits.pages

\* Mutant: every raid of the watermark's own time is taken as known.
MutantNew(p) ==
  LET prior == run[p].prior IN
  {r \in Listed(p).seen : ~(prior.exists /\ prior.after = run[p].after /\ at[r] = prior.after)}

\* The listing without what the watermark that the run read holds already.
New(p) ==
  LET prior == run[p].prior IN
  {r \in Listed(p).seen : ~(/\ prior.exists /\ prior.after = run[p].after
                            /\ at[r] = prior.after /\ r \in prior.ids)}

\* Mutant: a run goes on although the server has more pages.
MutantTooMuch(p) == Cardinality(New(p)) > run[p].limits.instances

\* The listing exceeds the pages or the selection the raids allowed.
TooMuch(p) == More(p) \/ Cardinality(New(p)) > run[p].limits.instances

TurnPage(p) ==
  /\ run[p].pc = "list" /\ ~LastPage(p)
  /\ run' = [run EXCEPT ![p] = Listed(p)]
  /\ UNCHANGED <<server, objects, published, mark, waived, budget>>

Refuse(p) ==
  /\ run[p].pc = "list" /\ LastPage(p) /\ TooMuch(p)
  /\ run' = [run EXCEPT ![p] = Idle]
  /\ UNCHANGED <<server, objects, published, mark, waived, budget>>

Select(p) ==
  /\ run[p].pc = "list" /\ LastPage(p) /\ ~TooMuch(p)
  /\ run' = [run EXCEPT ![p] =
               [Listed(p) EXCEPT !.pc = "fetch", !.new = New(p), !.todo = New(p)]]
  /\ UNCHANGED <<server, objects, published, mark, waived, budget>>

\* The objects of one raid, in the order of the uploads.
Fetch(p, r) ==
  /\ run[p].pc = "fetch"
  /\ r \in run[p].todo /\ \A q \in run[p].todo : at[r] <= at[q]
  /\ objects' = objects \union {r}
  /\ run' = [run EXCEPT ![p].todo = @ \ {r}]
  /\ UNCHANGED <<server, published, mark, waived, budget>>

\* The publication barrier: every object exists before the manifest.
Publish(p) ==
  /\ run[p].pc = "fetch" /\ run[p].todo = {}
  /\ published' = published \union run[p].new
  /\ run' = [run EXCEPT ![p].pc = "advance"]
  /\ UNCHANGED <<server, objects, mark, waived, budget>>

Latest(p) ==
  IF run[p].seen = {} THEN run[p].after
  ELSE CHOOSE t \in {at[r] : r \in run[p].seen} : \A r \in run[p].seen : at[r] <= t

\* Mutant: the boundary holds the raids of this run alone.
MutantBoundary(p) == {r \in run[p].new : at[r] = Latest(p)}

\* The raids known to have the watermark's own time.
Boundary(p) ==
  {r \in run[p].seen : at[r] = Latest(p)}
    \union (IF run[p].prior.exists /\ run[p].prior.after = Latest(p)
            THEN run[p].prior.ids ELSE {})

NextMark(p) == Mark(Latest(p), Boundary(p))

Advance(p) ==
  /\ run[p].pc = "advance"
  /\ mark' = NextMark(p)
  /\ run' = [run EXCEPT ![p] = Idle]
  /\ UNCHANGED <<server, objects, published, waived, budget>>

\* The process is killed, or a request fails once more than it is retried.
\* What was stored and published stays.
Break(p) ==
  /\ run[p].pc # "idle" /\ budget.broken > 0
  /\ run' = [run EXCEPT ![p] = Idle]
  /\ budget' = [budget EXCEPT !.broken = @ - 1]
  /\ UNCHANGED <<server, objects, published, mark, waived>>

----------------------------------------------------------------------------
Work(p) ==
  \/ TurnPage(p)
  \/ Refuse(p)
  \/ Select(p)
  \/ \E r \in Raids : Fetch(p, r)
  \/ Publish(p)
  \/ Advance(p)

Next ==
  \/ \E t \in Times : Upload(t)
  \/ \E p \in Runners, limits \in Limits :
       \/ StartFromWatermark(p, limits)
       \/ \E t \in Times : StartFrom(p, t, limits)
  \/ \E p \in Runners : Work(p) \/ Break(p)

\* One process never stops: each of its runs works until it ends, it runs the
\* feed again and again, and again and again with limits that suffice.  The
\* others may stop anywhere.
Keeper == CHOOSE p \in Runners : TRUE

StartGenerously(p) ==
  \E limits \in Limits :
    /\ limits.pages * PageSize >= MaxUploads /\ limits.instances >= MaxUploads
    /\ StartFromWatermark(p, limits)

Fairness == WF_vars(Work(Keeper)) /\ SF_vars(StartGenerously(Keeper))

Spec == Init /\ [][Next]_vars
FairSpec == Spec /\ Fairness

----------------------------------------------------------------------------
TimesOrNone == 0..MaxTime
MarkType == [exists : BOOLEAN, after : TimesOrNone, ids : SUBSET Raids]
RunType ==
  [pc : {"idle", "list", "fetch", "advance"}, explicit : BOOLEAN,
   after : TimesOrNone, prior : MarkType,
   limits : Limits \union {Idle.limits}, page : Nat,
   seen : SUBSET Raids, new : SUBSET Raids, todo : SUBSET Raids]

\* Every variable has its type.
TypeOK ==
  /\ count \in 0..MaxUploads
  /\ at \in [Raids -> TimesOrNone]
  /\ order \in Orders
  /\ objects \subseteq Raids /\ published \subseteq Raids
  /\ mark \in MarkType
  /\ run \in [Runners -> RunType]
  /\ waived \in TimesOrNone
  /\ budget \in [broken : 0..MaxBroken, explicit : 0..MaxExplicit]

\* The raids that no run from the watermark m downloads any more.
Covered(m) ==
  {r \in 1..count : m.exists /\ (at[r] < m.after \/ (at[r] = m.after /\ r \in m.ids))}

\* The watermark skips nothing: whatever uploads come between the pages of a
\* listing, whichever runs overlap, fail or are killed, a raid that lies behind
\* the watermark is in a published manifest, unless somebody asked for a later
\* --upload-after ("advancing the uploaded_at watermark could skip instances",
\* line 571).
NothingSkipped == \A r \in Covered(mark) : r \in published \/ at[r] < waived

\* A run from the watermark that no other run overtook leaves everything that
\* was covered covered, ties at the watermark's own time included: only an
\* explicit --upload-after or an overlap makes a later run repeat a raid.
NothingForgotten ==
  [][\A p \in Runners :
       /\ run[p].pc = "advance" /\ run'[p].pc = "idle" /\ mark' # mark
       /\ run[p].prior = mark /\ ~run[p].explicit
       => Covered(mark) \subseteq Covered(mark)']_vars

\* Once there is a watermark, the feed catches up with the uploads in the end
\* (they are bounded here), whichever runs overlap, fail or are refused: what a
\* killed run left behind is no obstacle, and no raid waits for ever.
CatchesUp ==
  []<>(mark.exists => \A r \in 1..count : r \in published \/ at[r] < waived)

============================================================================
