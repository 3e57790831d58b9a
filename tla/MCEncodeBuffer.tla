---------------------------- MODULE MCEncodeBuffer -----------------------------
(* Lists of pairs whose texts are empty, short or longer than the buffer. *)
EXTENDS EncodeBuffer

CONSTANT MaxPairs   \* bound on the length of a list

MCQuoted == {<<>>, <<97>>, <<Percent, 50, 48>>, <<98, Plus, 99, 100, 101, 102, 103>>}
MCPairs  == [key : MCQuoted, value : MCQuoted]
MCLists  == UNION {[1 .. n -> MCPairs] : n \in 0 .. MaxPairs}

================================================================================
