-------------------------- MODULE MCRetrieveFollow --------------------------
(* Small instances of RetrieveFollow.                                      *)
EXTENDS RetrieveFollow, TLC

CONSTANTS i1, i2

Plain == {[query |-> FALSE, dead |-> d, count |-> 2,
           writes |-> 2] : d \in BOOLEAN}

Queried == {[query |-> TRUE, dead |-> d, count |-> 0,
             writes |-> 1] : d \in BOOLEAN}

AnyMenu == Plain \cup Queried

Swap == Permutations(Id)

(* What a follow that left its loop can still do.                          *)
Rest == IF pc \in {"leave", "over"} THEN <<pc, run, stopReq, fatal, erred, outcome>>
        ELSE <<pc, followVars>>
=============================================================================
