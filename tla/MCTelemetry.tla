------------------------------ MODULE MCTelemetry ------------------------------
(* Two clients for one place and a machine that stands still; and nobody   *)
(* but the collector and a machine with a life of its own, in its disks or *)
(* in its CPU.                                                             *)
EXTENDS Telemetry

Machines == [come : {{}}, churn : {5}, boot : {1}, work : {{"disks"}}, readable : {BOOLEAN}]
            \cup [come : {{}}, churn : {5}, boot : {0}, work : {{"cpu"}}, readable : {BOOLEAN}]
Handlers == [come : {{1, 2}}, churn : {0}, boot : {0}, work : {{}}, readable : {{TRUE}}]
================================================================================
