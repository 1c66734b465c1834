--------------------------- MODULE MCSceneStore ----------------------------
(* Instances of SceneStore for TLC: element contents, uploads, mutation     *)
(* lists and starting policies small enough to enumerate.                   *)
EXTENDS SceneStore, MCScene

Policy(approved, visible, order) ==
    [approved |-> approved, visible |-> visible, order |-> order]
Loaded(require, applications) ==
    [enabled |-> TRUE, require_approval |-> require, applications |-> applications]
NoApplications == [a \in Applications |-> None]

(* Policies: scenes are one shape or empty.                                *)
PolicyContents == {Shape}
PolicyMutations == {<<Put(1, Shape)>>}
PolicyOrders == {3}
PolicyLoaded ==
    {Loaded(FALSE, NoApplications),
     Loaded(TRUE, [NoApplications EXCEPT ![1] = Policy(TRUE, TRUE, -1),
                                         ![3] = Policy(FALSE, TRUE, -1)])}

(* Resources: images and GIF frames over uploads that press the limits.    *)
ResourceContents == {Image(1), Gif(1, 1), Image(2)}
ResourceUploads == {Upload(1, 1, 1), Upload(1, 2, 2)}
ResourceMutations ==
    {<<Put(1, Image(1))>>, <<Put(1, Gif(1, 1))>>, <<Put(1, Image(2))>>,
     <<Put(2, Image(1)), Erase(1)>>}
ResourceLoaded ==
    {Loaded(FALSE, NoApplications),
     Loaded(FALSE, [NoApplications EXCEPT ![1] = Policy(TRUE, FALSE, 0)])}
=============================================================================
