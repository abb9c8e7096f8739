----------------------------- MODULE SlidingWindow -----------------------------
(***************************************************************************)
(* What a rate limiter with a burst promises, without buckets: a request   *)
(* of a client is admitted exactly when no interval that ends with it then *)
(* holds more admissions than the burst and what the rate allows for the   *)
(* interval's length.  Time counts in units of which Cost pay for one      *)
(* request; Cap units is the burst.                                        *)
(***************************************************************************)
EXTENDS Naturals, Sequences

CONSTANTS Clients, Cost, Cap, Horizon

VARIABLES
  now,       \* the time
  admitted,  \* the times at which requests of each client were admitted
  verdict    \* what the last request of each client was told

vars == <<now, admitted, verdict>>

Init == /\ now = 0
        /\ admitted = [c \in Clients |-> <<>>]
        /\ verdict = [c \in Clients |-> "none"]

(* One more admission leaves every interval that ends now within bounds.   *)
Fits(c) == \A i \in 1..Len(admitted[c]) :
             Cost * (Len(admitted[c]) - i + 2) <= Cap + (now - admitted[c][i])

Admit(c)  == /\ Fits(c)
             /\ admitted' = [admitted EXCEPT ![c] = Append(@, now)]
             /\ verdict' = [verdict EXCEPT ![c] = "admitted"]
             /\ UNCHANGED now
Refuse(c) == /\ ~Fits(c)
             /\ verdict' = [verdict EXCEPT ![c] = "refused"]
             /\ UNCHANGED <<now, admitted>>
Tick      == /\ now < Horizon
             /\ now' = now + 1
             /\ UNCHANGED <<admitted, verdict>>

Next == Tick \/ \E c \in Clients : Admit(c) \/ Refuse(c)
Spec == Init /\ [][Next]_vars
================================================================================
