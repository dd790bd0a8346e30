--------------------------- MODULE MCPartProcess ----------------------------
(* Small frames for PartProcess: every frame send_command writes, in bodies*)
(* of one or two cells, the malformed bodies the reader provides for (one  *)
(* of them the frame of length zero the test suite sends), and a frame one *)
(* cell over the limit.                                                    *)
EXTENDS PartProcessProperties

Frame(says, length) == [says |-> says, length |-> length]

EveryCommand == {f \in Frames : Sendable(f)}
EveryRefusal == {Frame("not_json", 0), Frame("not_an_object", 1), Frame("unknown_command", 2)}
EveryFrame == EveryCommand \cup EveryRefusal \cup {Frame("unhashable_command", 2)}

OverLong == {Frame("not_an_object", 3), Frame("off", 1)}
=============================================================================
