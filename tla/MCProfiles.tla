----------------------------- MODULE MCProfiles -----------------------------
(* Values of the constants of Profiles for TLC. *)
EXTENDS Profiles, TLC

CONSTANTS p, n, c1, c2, c3, s, k, f

\* Two contents with the same cards, and one with others.
CardsOf == [c \in Content |-> IF c = c3 THEN {s} ELSE {s, k}]
ShippedContent == [x \in Preset |-> c1]
ShippedImage == [x \in Preset |-> f]
=============================================================================
