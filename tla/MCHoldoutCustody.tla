--------------------------- MODULE MCHoldoutCustody ---------------------------
(* Two encodings of the same row, a table that shares it, two of another row, *)
(* of which one cannot be told apart, and a workbook of two of these.         *)
EXTENDS HoldoutCustody, TLC

CONSTANTS a, b, c, d, x, r1, r2, r3

TheRows == a :> {r1} @@ b :> {r1} @@ c :> {r1, r2} @@ d :> {r3} @@ x :> {r3}
TheBooks == {<<c, d>>}
CustodySymmetry == Permutations(Tasks) \cup Permutations(Labels) \cup Permutations(Readers)
=============================================================================
