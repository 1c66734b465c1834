---------------------------- MODULE SceneReplica ----------------------------
(***************************************************************************)
(* What the broker and a renderer promise together: the renderer shows a   *)
(* set of scenes that the broker published at some moment, complete, and   *)
(* what it shows never goes back to an earlier moment.                     *)
(***************************************************************************)
EXTENDS Naturals, Sequences

VARIABLES
    published,      \* every set of visible scenes the broker went through
    position,       \* the one shown
    shown           \* the scenes a frame draws

vars == <<published, position, shown>>

Init ==
    /\ published = <<{}>>
    /\ position = 1
    /\ shown = {}

Publish ==
    /\ Len(published') = Len(published) + 1
    /\ SubSeq(published', 1, Len(published)) = published
    /\ UNCHANGED <<position, shown>>

Show ==
    /\ position' \in position..Len(published)
    /\ shown' = published[position']
    /\ UNCHANGED published

Next == Publish \/ Show

Spec == Init /\ [][Next]_vars

(* When the broker stops publishing, what is shown catches up.             *)
CatchesUp == <>[][FALSE]_published => []<>(position = Len(published))

=============================================================================
