----------------------------- MODULE MCConfigTx -----------------------------
(* Transactions on a network target and on a local one.                    *)
EXTENDS ConfigTx

CONSTANTS n1, n2, l1, network, sshd

(* Two transactions of the network target. *)
MCNetOnly == [x \in {n1, n2} |-> network]

(* One transaction of each target. *)
MCOneEach == [x \in {n1, l1} |-> IF x = l1 THEN sshd ELSE network]
=============================================================================
