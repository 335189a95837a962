------------------------------- MODULE ServerSlots ------------------------------
(***************************************************************************)
(* What the daemon promises about each server: one connection at a time.   *)
(* A server's slot is off, or holds one connection with the spec it was    *)
(* started with, opening and then open.  A slot never changes its spec: it *)
(* has to be off in between.                                               *)
(***************************************************************************)
CONSTANTS Names, Specs, None

VARIABLE slot

Off == [spec |-> None, open |-> FALSE]

Init == slot = [n \in Names |-> Off]

Start(n, s) ==
    /\ slot[n] = Off
    /\ slot' = [slot EXCEPT ![n] = [spec |-> s, open |-> FALSE]]

Open(n) ==
    /\ slot[n] # Off
    /\ slot' = [slot EXCEPT ![n].open = TRUE]

\* Told to stop, failed, or lost.
End(n) == slot' = [slot EXCEPT ![n] = Off]

Next == \E n \in Names : Open(n) \/ End(n) \/ \E s \in Specs : Start(n, s)

Spec == Init /\ [][Next]_slot
================================================================================
