--------------------------- MODULE ControlChannel ---------------------------
(***************************************************************************)
(* runtime/control_channel.py: how a command travels over a stream socket. *)
(* A frame is a length prefix and a body.  The stream is a sequence of     *)
(* cells, which have no boundaries of their own: a frame occupies one cell *)
(* for its prefix and one for each unit of its body's length.              *)
(***************************************************************************)
EXTENDS Integers, Sequences

CONSTANT MAXIMUM_FRAME_BYTES  \* the longest body a frame may claim, in cells

ASSUME FrameAssumption == MAXIMUM_FRAME_BYTES \in Nat \ {0}

(* Spelt "report-health" in the code.                                      *)
KNOWN_COMMANDS == {"on", "off", "report_health"}

(* What else a body can turn out to be: text that is not JSON, JSON that is*)
(* not an object, an object whose command is not one of ours, and one whose*)
(* command is a list or an object, which no frozenset can be asked about.  *)
Malformed == {"not_json", "not_an_object", "unknown_command", "unhashable_command"}

Meanings == KNOWN_COMMANDS \cup Malformed
Frames == [says : Meanings, length : 0 .. MAXIMUM_FRAME_BYTES + 1]

(* Index 0 is the prefix.                                                  *)
Cells(f) == [i \in 1 .. f.length + 1 |-> [says |-> f.says, length |-> f.length, index |-> i - 1]]
CellType == [says : Meanings, length : 0 .. MAXIMUM_FRAME_BYTES + 1,
             index : 0 .. MAXIMUM_FRAME_BYTES + 1]

(* send_command writes nothing else: a known command, in a frame no longer *)
(* than the limit.                                                         *)
Sendable(f) == f.says \in KNOWN_COMMANDS /\ f.length \in 1 .. MAXIMUM_FRAME_BYTES

(* The length a prefix-sized read announces.  Off a frame boundary it reads*)
(* a body's own bytes: text, as a big-endian number, is over any limit.  A *)
(* read that starts in the last of them takes some of the next prefix with *)
(* it, and where the reads after it fall is anyone's guess: it is taken to *)
(* announce any length, so what it announces may swallow that prefix.      *)
Claims(cell) == IF cell.index = 0 THEN {cell.length}
                ELSE IF cell.index < cell.length THEN {MAXIMUM_FRAME_BYTES + 1}
                ELSE 0 .. MAXIMUM_FRAME_BYTES + 1

TooLong(length) == length > MAXIMUM_FRAME_BYTES

(* json.loads and the checks after it: a body read whole says what its     *)
(* frame says; any other run of bytes is not JSON.                         *)
Whole(body) == /\ body # <<>>
               /\ \A i \in 1 .. Len(body) :
                    /\ body[i].index = i /\ body[i].length = Len(body)
                    /\ body[i].says = body[1].says
Decoded(body) == IF Whole(body) THEN body[1].says ELSE "not_json"

Refused(meaning) == meaning \in Malformed \ {"unhashable_command"}
=============================================================================
