------------------------------ MODULE MCMacTelnet ------------------------------
(* Small instances of MacTelnet.                                           *)
EXTENDS MacTelnet

Commands(w, n, f) ==
  [relay |-> FALSE, window |-> w, probe |-> FALSE, license |-> FALSE,
   inputs |-> n, faults |-> f]

Asking(w, n, f) == [Commands(w, n, f) EXCEPT !.probe = TRUE]

Licensed(n, f) == [Commands(1, n, f) EXCEPT !.license = TRUE]

Keys(n, f) == [Commands(1, n, f) EXCEPT !.relay = TRUE]

Small == {Commands(1, 1, 2), Commands(1, 2, 1), Commands(1, 3, 0), Commands(2, 1, 1),
          Asking(1, 1, 1), Asking(2, 0, 1), Asking(2, 1, 0),
          Licensed(2, 1), Keys(3, 1)}
=============================================================================
