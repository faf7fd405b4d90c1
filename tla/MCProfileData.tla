---------------------------- MODULE MCProfileData ----------------------------
(***************************************************************************)
(* ProfileData for TLC, with a foreign profile: two calls that overlap     *)
(* without one being inside the other, and one that ends before it begins. *)
(***************************************************************************)
EXTENDS ProfileData

CONSTANT other

ForeignEvents ==
  <<[id |-> 91, function |-> other, start |-> 0, end |-> 2, within |-> <<>>],
    [id |-> 92, function |-> other, start |-> 3, end |-> 2, within |-> <<>>],
    [id |-> 93, function |-> other, start |-> 1, end |-> 4, within |-> <<>>]>>

FunctionsSymmetry == Permutations(Functions)

=============================================================================
