----------------------------- MODULE MCApkQueue -----------------------------
(* Four calls against a queue of two and a history of two, so that the     *)
(* queue fills, the history evicts and a late call meets an idle manager.  *)
EXTENDS ApkQueue
=============================================================================
