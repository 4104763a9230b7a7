---------------------------- MODULE MCPicoSystem ----------------------------
(***************************************************************************)
(* Values for the constants of PicoSystem.  The limit of a header is ten   *)
(* here and 10^6 in the code: what matters is on which side of it a size   *)
(* is, and that a size beyond it is announced as a smaller one.            *)
(***************************************************************************)
EXTENDS PicoSystem

Sizes == [b \in Bodies |-> CASE b = "huge" -> 25 [] OTHER -> 5]

AllBodies   == {"plain", "marked", "huge"}
PlainBodies == {"plain"}
MarkedBodies == {"marked"}
NoBodies    == {}

NoSizes      == {}
WrongSizes   == {NotANumber, 0, 3, 8}
=============================================================================
