------------------------------ MODULE ScanFifo ------------------------------
(***************************************************************************)
(* What the continuous scan promises the decoder, without slots, indices,  *)
(* events, streams or memory order: a bounded queue of windows, put in     *)
(* strictly increasing order and consumed oldest first.  The consumer      *)
(* decodes the head at most once, or skips it, and only then drops it; no  *)
(* window that was put is lost or consumed out of turn.                    *)
(***************************************************************************)
EXTENDS Integers, Sequences

CONSTANTS
  Slots,    \* how many windows the queue holds
  Windows   \* numbers a window can have

VARIABLES
  fifo,   \* windows put and not yet dropped, the oldest first
  last,   \* the window put last, -1 before the first
  phase   \* what the consumer is doing with the head of fifo

vars == <<fifo, last, phase>>

Init == fifo = << >> /\ last = -1 /\ phase = "idle"

Put(w) ==
  /\ Len(fifo) < Slots
  /\ w > last
  /\ fifo' = Append(fifo, w)
  /\ last' = w
  /\ UNCHANGED phase

Begin ==
  /\ phase = "idle" /\ fifo # << >>
  /\ phase' = "decoding"
  /\ UNCHANGED <<fifo, last>>

End ==
  /\ phase = "decoding"
  /\ phase' = "done"
  /\ UNCHANGED <<fifo, last>>

(* The scan failed, or found no candidates.                                *)
Skip ==
  /\ phase = "idle" /\ fifo # << >>
  /\ phase' = "done"
  /\ UNCHANGED <<fifo, last>>

Drop ==
  /\ phase = "done"
  /\ fifo' = Tail(fifo)
  /\ phase' = "idle"
  /\ UNCHANGED last

Next == (\E w \in Windows : Put(w)) \/ Begin \/ End \/ Skip \/ Drop

Spec == Init /\ [][Next]_vars

=============================================================================
