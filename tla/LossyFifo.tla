----------------------------- MODULE LossyFifo -----------------------------
(***************************************************************************)
(* What the interrupt handler's ISR queue promises to the main loop: a     *)
(* bounded first-in first-out buffer with one reader.  A producer that     *)
(* finds it full loses its own event and nothing else, and the loss is     *)
(* counted.  IsrRing, the head/tail ring of interrupt/interrupt_handler.c, *)
(* is shown to implement this specification.                               *)
(***************************************************************************)
EXTENDS Naturals, Sequences

CONSTANTS
  Event,     \* the events that can be queued
  Capacity,  \* how many events the buffer holds
  NoEvent    \* the reader holds no event

VARIABLES
  q,     \* the events accepted and not yet received, oldest first
  out,   \* the event the reader has received and is working on, or NoEvent
  lost   \* how many events were refused because the buffer was full

vars == <<q, out, lost>>

Init ==
  /\ q = <<>>
  /\ out = NoEvent
  /\ lost = 0

(* A producer adds an event behind all the others. *)
Send(e) ==
  /\ Len(q) < Capacity
  /\ q' = Append(q, e)
  /\ UNCHANGED <<out, lost>>

(* A producer finds the buffer full; the buffer keeps what it holds. *)
Lose ==
  /\ Len(q) = Capacity
  /\ lost' = lost + 1
  /\ UNCHANGED <<q, out>>

(* The reader takes the oldest event. *)
Receive ==
  /\ out = NoEvent
  /\ q # <<>>
  /\ out' = Head(q)
  /\ q' = Tail(q)
  /\ UNCHANGED lost

(* The reader has finished with the event it took. *)
Finish ==
  /\ out # NoEvent
  /\ out' = NoEvent
  /\ UNCHANGED <<q, lost>>

Next ==
  \/ \E e \in Event : Send(e)
  \/ Lose
  \/ Receive
  \/ Finish

Spec == Init /\ [][Next]_vars
=============================================================================
