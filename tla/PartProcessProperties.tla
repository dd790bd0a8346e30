----------------------- MODULE PartProcessProperties ------------------------
(***************************************************************************)
(* What PartProcess is checked for.  Line numbers are those of             *)
(* runtime/part_process.py.                                                *)
(***************************************************************************)
EXTENDS PartProcess, SequencesExt

(***************************************************************************)
(* Fairness.  The loop is one thread that nothing else blocks: do_one_tick *)
(* returns.  A governor that has begun a frame finishes it or dies, since  *)
(* send_command is one sendall; it is never obliged to send anything.      *)
(***************************************************************************)
Fairness == WF_vars(Part) /\ WF_vars(WriteSome)
FairSpec == Spec /\ Fairness

-----------------------------------------------------------------------------
(* Every variable keeps its type, and the reader's variables are at rest   *)
(* outside a body.                                                         *)
TypeOK ==
  /\ open \in BOOLEAN
  /\ writing \in Seq(CellType)
  /\ stream \in Seq(CellType)
  /\ sent \in Seq(Meanings)
  /\ pc \in {"select", "prefix", "body", "tick", "health", "exited", "died"}
  /\ want \in 0 .. MAXIMUM_FRAME_BYTES
  /\ body \in Seq(CellType)
  /\ refused_control_frame \in Malformed \cup {"too_long", NoRefusal}
  /\ uptime \in 0 .. HealthInterval
  /\ sinceHealth \in 0 .. HealthInterval
  /\ handled \in Seq(Meanings \cup {"too_long"})
  /\ refusals \in Seq(Malformed \cup {"too_long"})
  /\ reported \in Seq(Malformed \cup {"too_long"})
  /\ asked \in BOOLEAN
  /\ cause \in {"running", "closed", "off", "frame", "work"}
  /\ pc \in {"select", "prefix", "tick", "health"} => body = <<>>

(* "A part must not go quiet about a frame it refused" (44): by the time   *)
(* the loop looks at its control socket again, and whenever it has returned*)
(* (113-119), every refusal has gone out on a health report of its own, in *)
(* the order of the frames; the forced report is never overtaken by the    *)
(* next frame, which would overwrite the reason.  For a part started on a  *)
(* machine up for at least one health interval.                            *)
RefusalsReachTheGovernor ==
  Uptime >= HealthInterval /\ pc \in {"select", "prefix", "body", "exited"} =>
    reported = refusals

(* A report-health command is answered before the next command is read     *)
(* (120-121, 128-140), however many of them are queued.                    *)
AskedHealthIsGiven ==
  Uptime >= HealthInterval /\ pc \in {"select", "prefix", "body", "exited"} => ~asked

(* The part acts on the queue its governor filled (control_channel.py 8-10)*)
Queue == INSTANCE ControlQueue WITH running <- ~Stopped
ImplementsQueue == Queue!QueueSpec

(* "a fact about one command, not a reason for the part itself to exit"    *)
(* (106-107): no frame ends the loop but a frame that says off.            *)
NoFrameKillsThePart == cause # "frame"

(* A part whose governor told it off, or is gone, stops, whatever is queued*)
(* ahead of that (113-119; "a part the governor cannot switch, which is T-2*)
(* lost", 88-90).                                                          *)
OffTakesEffect == "off" \in Range(sent) \/ ~open ~> Stopped

(* A part that is on goes on doing its work and gets to its health check,  *)
(* busy or idle on the control side (88-90, 101-140).                      *)
KeepsTicking == []<>(pc = "health") \/ <>Stopped
=============================================================================
