------------------------------- MODULE MCFanout -------------------------------
(* Small instances of Fanout.                                              *)
EXTENDS Fanout

Direct(w, n, c) ==
  [style |-> "direct", write |-> w, members |-> n, concurrency |-> c, changes |-> 0]

Cmr(w, n, c, k) ==
  [style |-> "cmr", write |-> w, members |-> n, concurrency |-> c, changes |-> k]

Small == {Direct(TRUE, 3, 2), Direct(FALSE, 2, 2),
          Cmr(TRUE, 2, 2, 2), Cmr(FALSE, 3, 1, 1)}
=============================================================================
