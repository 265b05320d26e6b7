--------------------------- MODULE MCGuaranteeForms ---------------------------
(* Two codes of two products, and two guarantees waiting for review. *)
EXTENDS GuaranteeForms, TLC

CONSTANTS c1, c2, p1, p2, g1, g2, invoice, card

MCProductOf == [c \in Codes |-> IF c = c1 THEN p1 ELSE p2]
MCRowCode == [r \in Rows |-> IF r = g1 THEN c1 ELSE c2]
MCSymmetry == Permutations(Slots)
=============================================================================
