---------------------------- MODULE MCNativeWire ----------------------------
(* Small instances of NativeSession and of NativeWire.                       *)
EXTENDS MCNativeSession, NativeWire

(* The lengths on both sides of every change of the prefix.                *)
Boundaries == {0, 1, 127, 128, 129, 255, 256, 16383, 16384, 65535, 65536,
               2097151, 2097152, 16777215, 16777216, 268435455, 268435456, 2147483647}

Body(n) == [i \in 1..n |-> (i * 37) % 256]

(* Short words, and words on both sides of the first change; an empty sentence. *)
FewSentences == {<<>>, <<Body(1), Body(3)>>, <<Body(2)>>, <<Body(127), Body(128)>>}

-----------------------------------------------------------------------------
(* One run looks at both.  They share nothing, so each is run while the other
   has not begun.                                                          *)
SessionAlone == SessionNext /\ said = <<>> /\ UNCHANGED wireVars

WireAlone == WireNext /\ conn = "dialing" /\ socket = "open" /\ nextTag = 0 /\ UNCHANGED sessionVars

BothInit == SessionInit /\ WireInit

BothSpec ==
  /\ BothInit
  /\ [][SessionAlone \/ WireAlone]_<<sessionVars, wireVars>>
  /\ SessionFairness
=============================================================================
