------------------------- MODULE MCProviderProtocol -------------------------
(* Instances of ProviderProtocol for TLC.                                   *)
EXTENDS ProviderProtocol, MCScene

OneLoaded ==
    {[enabled |-> TRUE, require_approval |-> FALSE,
      applications |-> [a \in Applications |-> None]]}

(* A shape, or an image that may not have been uploaded.                   *)
ProtocolContents == {Shape, Image(1)}
ProtocolUploads == {Upload(1, 1, 1)}
ProtocolMutations == {<<Put(1, Shape)>>, <<Put(1, Image(1))>>}

(* Two processes of one identity: one is the other, started again.         *)
TwoOfOne == [p \in Processes |-> [application_id |-> 1, instance_id |-> 1]]
EachItsOwn == [p \in Processes |-> [application_id |-> 1, instance_id |-> p]]
=============================================================================
