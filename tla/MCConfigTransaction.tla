------------------------- MODULE MCConfigTransaction -------------------------
(***************************************************************************)
(* Two profiles, so that another one can be selected and an inactive one   *)
(* renewed.                                                                *)
(***************************************************************************)
EXTENDS ConfigTransaction, TLC

CONSTANTS p1, p2

MCProfiles == {p1, p2}

Interchangeable == Permutations(MCProfiles)
=============================================================================
