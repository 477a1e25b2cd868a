--------------------------- MODULE MCPicCommands ---------------------------
(* Small instances of PicCommands: three lines per controller. *)
EXTENDS PicCommands
MCBase == [p \in Pics |-> IF p = Master THEN 8 ELSE 16]
MCMasks == {{}, {1, Cascade}}
MCGuests == {{"init", "special", "read"}, {"rotate", "poll", "elcr"}}
=============================================================================
