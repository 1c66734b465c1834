------------------------------ MODULE Overlay ------------------------------
(***************************************************************************)
(* What every part of the broker names: applications, and the absence of a *)
(* value.  An id map of the code is a total function with None for an      *)
(* absent key.                                                             *)
(***************************************************************************)
EXTENDS Integers, FiniteSets

CONSTANTS
    None,               \* an absent key
    Applications        \* application ids, ordered as the code compares them

Present(map) == {key \in DOMAIN map : map[key] # None}

=============================================================================
