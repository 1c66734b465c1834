--------------------------- MODULE MCSceneStream ---------------------------
(* Instances of SceneStream for TLC.                                        *)
EXTENDS SceneStream, MCScene

(* One image, shown or not, so that an update is one packet or two.        *)
StreamContents == {Image(1)}
StreamUploads == {Upload(1, 1, 1)}

(* Two applications of one shape each.                                     *)
LayerContents == {Shape}
=============================================================================
