---------------------------- MODULE ControlQueue ----------------------------
(***************************************************************************)
(* What the control channel promises: a queue.  A part acts on what its    *)
(* governor sent, in the order it was sent, nothing twice, nothing skipped *)
(* and nothing made up; "off" is the last thing it acts on.                *)
(***************************************************************************)
EXTENDS Naturals, Sequences

CONSTANT Meanings

VARIABLES sent, handled, running

queueVars == <<sent, handled, running>>

QueueInit == sent = <<>> /\ handled = <<>> /\ running = TRUE

Offer == /\ \E meaning \in Meanings : sent' = Append(sent, meaning)
         /\ UNCHANGED <<handled, running>>

Take == /\ running /\ Len(handled) < Len(sent)
        /\ LET next == sent[Len(handled) + 1]
           IN  /\ handled' = Append(handled, next)
               /\ running' \in BOOLEAN
               /\ next = "off" => ~running'
        /\ UNCHANGED sent

(* Crash-only: a part may stop at any time, and never starts again.        *)
Stop == running' = FALSE /\ UNCHANGED <<sent, handled>>

QueueSpec == QueueInit /\ [][Offer \/ Take \/ Stop]_queueVars
=============================================================================
