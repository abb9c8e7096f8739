------------------------------ MODULE MCLogin -------------------------------
(* Three logins of one user from one host, and one use of CreateWithLimit. *)
EXTENDS Login

CONSTANTS r1, r2, r3, c1, admin, host, port

MCUserOf == [c \in Calls |-> admin]

(* What RequireAuth admits: a RemoteAddr without a port, which ClientIP    *)
(* provides for.                                                           *)
MCAddresses == {<<host, NoPort>>}
MCAddrOf    == [c \in Calls |-> <<host, NoPort>>]

(* What the TCP listener of the server sets: every RemoteAddr has a port.  *)
MCTcpAddresses == {<<host, port>>}
MCTcpAddrOf    == [c \in Calls |-> <<host, port>>]
=============================================================================
