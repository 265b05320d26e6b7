------------------------------- MODULE MCPolls -------------------------------
(* Two customers, one of whom opens the link in two browsers. *)
EXTENDS Polls, TLC

CONSTANTS c1, c2, h1, h2

MCLinkOf == [l \in Links |-> c1]

\* Anything at all, while another batch is sent.
MCServes == [h \in Handlers |-> IF h = h1 THEN Kinds ELSE {"send"}]

Symmetry == Permutations(Links)
=============================================================================
