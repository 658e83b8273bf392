----------------------------- MODULE PduChannel -----------------------------
(***************************************************************************)
(* What a COMSTACK promises to its users: the PDUs one side puts are got   *)
(* by the other whole, once each and in order, until the link breaks.      *)
(***************************************************************************)
EXTENDS Naturals, Sequences

CONSTANT Message

VARIABLES queue,    \* put and not yet got
          broken    \* the link broke: what is queued may never be got

Init == queue = <<>> /\ broken = FALSE

Send == /\ \E p \in Message : queue' = Append(queue, p)
        /\ UNCHANGED broken

Receive == queue # <<>> /\ queue' = Tail(queue) /\ UNCHANGED broken

Break == broken' = TRUE /\ UNCHANGED queue

Next == Send \/ Receive \/ Break

vars == <<queue, broken>>

InOrderOnce == Init /\ [][Next]_vars

Spec == InOrderOnce /\ WF_vars(~broken /\ Receive)
=============================================================================
