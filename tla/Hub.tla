-------------------------------- MODULE Hub ---------------------------------
(***************************************************************************)
(* The broadcast hub of src/pkg/telemetry/hub.go.  A subscriber is named   *)
(* by its connection; of the messages in its channel only their number     *)
(* matters.  The module has no next-state relation of its own.             *)
(***************************************************************************)
EXTENDS Naturals

CONSTANTS
  Subscribers, \* connections that may be registered
  SendBuffer   \* the capacity of Conn.SendCh

VARIABLES
  registered,  \* Hub.conns
  sendCh       \* the number of messages in each SendCh

HubInit == /\ registered = {}
           /\ sendCh = [c \in Subscribers |-> 0]

HubTypeOK == /\ registered \subseteq Subscribers
             /\ sendCh \in [Subscribers -> 0..SendBuffer]

Register(c) == registered' = registered \cup {c} /\ UNCHANGED sendCh

Unregister(c) == registered' = registered \ {c} /\ UNCHANGED sendCh

(* A subscriber whose channel is full misses the message.                  *)
Broadcast == /\ registered # {}
             /\ sendCh' = [c \in Subscribers |-> IF c \in registered /\ sendCh[c] < SendBuffer
                                             THEN sendCh[c] + 1 ELSE sendCh[c]]
             /\ UNCHANGED registered

Receive(c) == /\ sendCh[c] > 0
              /\ sendCh' = [sendCh EXCEPT ![c] = @ - 1]
              /\ UNCHANGED registered
=============================================================================
