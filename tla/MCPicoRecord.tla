----------------------------- MODULE MCPicoRecord -----------------------------
(***************************************************************************)
(* Values for the constants of PicoRecord: a key of two characters, of     *)
(* which one can be removed; texts shorter and longer than that, and one   *)
(* read back with its zero.                                                *)
(***************************************************************************)
EXTENDS PicoRecord, TLC

CONSTANTS r1, r2, x, y

MCTextFields == {"key", "value"}
MCSize == [f \in Fields |-> IF f = "key" THEN 2 ELSE 1]
MCTexts == {<<>>, <<x, Nul>>, <<x, y>>, <<x, y, x>>}
MCNumbers == {<<x>>}
Symmetry == Permutations(Objects)
=============================================================================
