----------------------------- MODULE MCCdbLock -----------------------------
(* Two arrangements of processes.  Rivals: three processes of one host, so
   that two can break the lock of a third and take it.  Namesakes: p1 and p2
   are successive incarnations of one pid, p3 another process of that host,
   and p4 has the same pid as p1 on another host.                          *)
EXTENDS CdbLock, TLC

CONSTANTS c1, c2, c3, c4, p1, p2, p3, p4, h1, h2

ProcOfCall ==
  [c \in Call |-> CASE c = c1 -> p1 [] c = c2 -> p2 [] c = c3 -> p3 [] c = c4 -> p4]

RivalsHost == [p \in Proc |-> h1]

RivalsPid == [p \in Proc |-> CASE p = p1 -> 1 [] p = p2 -> 2 [] p = p3 -> 3]

NamesakesHost == [p \in Proc |-> IF p = p4 THEN h2 ELSE h1]

NamesakesPid == [p \in Proc |-> IF p = p3 THEN 2 ELSE 1]
=============================================================================
