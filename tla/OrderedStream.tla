---------------------------- MODULE OrderedStream ----------------------------
(***************************************************************************)
(* What RenderPipeline.Run promises to the reader of the channel that it   *)
(* returns: items 0, 1, 2, ... of a finite stream, in order and each       *)
(* exactly once, over a bounded channel.  The channel is closed either     *)
(* after the last item or, when the producer gives up, earlier; what was   *)
(* sent before that stays readable.                                        *)
(***************************************************************************)
EXTENDS Naturals

CONSTANTS
  Total,     \* number of items of the stream
  Capacity   \* items the channel holds before a send blocks

VARIABLES
  sent,      \* items put on the channel so far
  read,      \* items read from it so far
  status     \* "open", "complete" or "aborted"

streamVars == <<sent, read, status>>

Init == /\ sent = 0
        /\ read = 0
        /\ status = "open"

\* The next item in order goes on the channel.
Send == /\ status = "open"
        /\ sent < Total
        /\ sent - read < Capacity
        /\ sent' = sent + 1
        /\ UNCHANGED <<read, status>>

\* The reader takes the oldest item of the channel.
Read == /\ read < sent
        /\ read' = read + 1
        /\ UNCHANGED <<sent, status>>

\* All items were sent: the channel is closed.
Complete == /\ status = "open"
            /\ sent = Total
            /\ status' = "complete"
            /\ UNCHANGED <<sent, read>>

\* The producer gives up: the channel is closed short of the last item.
Abort == /\ status = "open"
         /\ status' = "aborted"
         /\ UNCHANGED <<sent, read>>

Next == Send \/ Read \/ Complete \/ Abort

Spec == Init /\ [][Next]_streamVars
==============================================================================
