------------------------------ MODULE MCScene -------------------------------
(* Scene data for the TLC instances: element contents, mutations, uploads.  *)
EXTENDS Scene

CONSTANTS c1, c2

Interchangeable == Permutations({c1, c2})

Content(kind, parent, resource, frame) ==
    [kind |-> kind, parent_id |-> parent, anchored |-> FALSE, well_formed |-> TRUE,
     resource_id |-> resource, frame_index |-> frame, bytes |-> 1]

Shape == Content("shape", 0, 0, 0)
Group == Content("group", 0, 0, 0)
Child(parent) == Content("shape", parent, 0, 0)
Image(r) == Content("image", 0, r, 0)
Gif(r, frame) == Content("gif", 0, r, frame)

Put(id, content) == [id |-> id, content |-> content]
Erase(id) == [id |-> id, content |-> None]

Upload(encoded, decoded, frames) ==
    [bytes |-> [p \in Planes |-> IF p = "encoded" THEN encoded ELSE decoded],
     frames |-> frames]
Bytes(encoded, decoded) ==
    [p \in Planes |-> IF p = "encoded" THEN encoded ELSE decoded]

ProviderBytes == Bytes(2, 3)
GlobalBytes == Bytes(3, 4)
TightBytes == Bytes(1, 1)

NoUploads == {}
NoContents == {}
NoOrders == {}
=============================================================================
