---------------------------- MODULE MCNativeApi ----------------------------
(* A small instance of NativeApi, with doubles of two bits: a negative      *)
(* number, one that is no double, one whose digits are not all printed, and *)
(* a text with characters that start with a zero byte.                      *)
EXTENDS NativeApi, TLC

Multiple(n, k) == IF n >= 0 THEN k * (n \div k) ELSE -(k * ((-n) \div k))

MCNearest(n) == IF n \in -4 .. 4 THEN n ELSE Multiple(n, 2)
MCPrinted(n) == IF n \in -3 .. 3 THEN n ELSE Multiple(n, 3)

MCStored == {Whole(-1), Whole(7), Text(<<"wide", "nul">>)}

Symmetry == Permutations(Datas) \cup Permutations(Stmts)
=============================================================================
