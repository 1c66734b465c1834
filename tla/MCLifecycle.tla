---------------------------- MODULE MCLifecycle -----------------------------
(* An instance of Lifecycle, and of the coordinator in it, for TLC.        *)
EXTENDS Lifecycle, TLC

CONSTANTS r1, r2, r3

(* Three cores, two of them of one version.                                *)
SomeVersions == [r \in Revisions |-> IF r = r3 THEN 2 ELSE 1]
=============================================================================
