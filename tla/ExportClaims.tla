---------------------------- MODULE ExportClaims ----------------------------
(***************************************************************************)
(* What the parallel export queue promises its operator, without workers,  *)
(* tokens, leases or processes: the life of each entry under the "queue    *)
(* states" of CHRONICLE_PARALLEL_EXPORT_zh-CN.md, as claim_next,           *)
(* release_claim, commit_import and reset_failed realise it.               *)
(***************************************************************************)
EXTENDS Naturals

CONSTANTS Entries, Limit   \* the queue, and --max-retries

VARIABLE claim   \* per entry: its phase, attempts since the last reset,
                 \* grants ever made, and the grant whose import counts

Phases == {"open", "held", "done", "shut", "withdrawn"}

Init == claim = [e \in Entries |-> [phase |-> "open", tries |-> 0, grants |-> 0, winner |-> 0]]

Returned(c) == [c EXCEPT !.phase = IF c.tries >= Limit THEN "shut" ELSE "open"]
Granted(c)  == [c EXCEPT !.phase = "held", !.tries = @ + 1, !.grants = @ + 1]

ReturnAll(R) == [e \in Entries |-> IF e \in R THEN Returned(claim[e]) ELSE claim[e]]

Held(R) == \A e \in R : claim[e].phase = "held"

\* Some held entries come back: one is released, or several leases ran out.
Return == \E R \in SUBSET Entries : Held(R) /\ claim' = ReturnAll(R)

\* One open entry is granted, after those whose lease ran out came back.
Grant ==
  \E R \in SUBSET Entries, g \in Entries :
    /\ Held(R)
    /\ ReturnAll(R)[g].phase = "open"
    /\ claim' = [ReturnAll(R) EXCEPT ![g] = Granted(@)]

\* The import made under the newest grant counts, once.
Win ==
  \E e \in Entries :
    /\ claim[e].phase = "held"
    /\ claim' = [claim EXCEPT ![e].phase = "done", ![e].winner = claim[e].grants]

Reopen ==
  claim' = [e \in Entries |-> IF claim[e].phase = "shut"
                              THEN [claim[e] EXCEPT !.phase = "open", !.tries = 0]
                              ELSE claim[e]]

Withdraw == \E e \in Entries : claim' = [claim EXCEPT ![e].phase = "withdrawn"]

Next == Return \/ Grant \/ Win \/ Reopen \/ Withdraw

Spec == Init /\ [][Next]_claim
=============================================================================
