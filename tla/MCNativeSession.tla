-------------------------- MODULE MCNativeSession --------------------------
(* Small instances of NativeSession.                                       *)
EXTENDS NativeSession

CONSTANTS hello, proof, read, watch

(* Login answers have no rows; a read has one, a watch two.                *)
FewRows == [c \in Call |-> CASE c = watch -> 2 [] c = read -> 1 [] OTHER -> 0]
============================================================================
