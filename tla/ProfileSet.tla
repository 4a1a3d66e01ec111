------------------------------ MODULE ProfileSet ------------------------------
(***************************************************************************)
(* What storage.rs promises about profiles to the rest of the program,     *)
(* without files, steps and crashes: a profile exists or is gone, the      *)
(* selected one exists, and a deletion either happens at once, or does not *)
(* happen, or stays announced until the next launch carries it out.        *)
(***************************************************************************)
CONSTANTS Profiles, NoProfile

VARIABLES
  profiles,     \* the profiles that exist
  selected,     \* the one in use, NoProfile for none
  announced     \* the deletion that the next launch will carry out

svars == <<profiles, selected, announced>>

SetTypeOK ==
  /\ profiles \subseteq Profiles
  /\ selected \in profiles \union {NoProfile}
  /\ announced \in profiles \union {NoProfile}

SetInit ==
  /\ profiles \subseteq Profiles
  /\ selected \in profiles \union {NoProfile}
  /\ announced = NoProfile

Without(p, q) == IF q = p THEN NoProfile ELSE q

Add(p) ==
  /\ p \in Profiles
  /\ profiles' = profiles \union {p}
  /\ UNCHANGED <<selected, announced>>

Select(p) ==
  /\ p \in profiles
  /\ selected' = p
  /\ UNCHANGED <<profiles, announced>>

(* An announced deletion ends with the profile: nothing else clears it.    *)
Remove(p) ==
  /\ p \in profiles
  /\ announced \in {p, NoProfile}
  /\ profiles' = profiles \ {p}
  /\ selected' = Without(p, selected)
  /\ announced' = NoProfile

(* The profile may have lost its selection when the deletion stopped.      *)
Announce(p) ==
  /\ p \in profiles
  /\ announced = NoProfile
  /\ announced' = p
  /\ selected' \in {selected, Without(p, selected)}
  /\ UNCHANGED profiles

SetNext == \E p \in Profiles : Add(p) \/ Select(p) \/ Remove(p) \/ Announce(p)

SetSpec == SetInit /\ [][SetNext]_svars
=============================================================================
