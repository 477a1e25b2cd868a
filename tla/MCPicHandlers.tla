--------------------------- MODULE MCPicHandlers ---------------------------
(* Small instances of PicHandlers: four lines per controller. *)
EXTENDS PicHandlers
MCBase == [p \in Pics |-> IF p = Master THEN 8 ELSE 16]
MCMasks == {{}, {3}}
MCLevel == [p \in Pics |-> {3}]
=============================================================================
