------------------------- MODULE MCConfirmationJobs -------------------------
(* An instance of ConfirmationJobs for TLC.                                *)
EXTENDS ConfirmationJobs

\* One dear group for the first node, the cheap ones for the second.
TwoNodes == <<"node001", "node002">>
NodeSet  == {"node001", "node002"}
OneDear  == <<2, 1, 1>>
OneOfEach == [call |-> 1, command |-> 1, node |-> 1]
=============================================================================
