--------------------------- MODULE MCMailPipeline ---------------------------
(* MailPipeline for TLC: workers are interchangeable in the safety runs. *)
EXTENDS MailPipeline, TLC

WorkerSymmetry == Permutations(Workers)
=============================================================================
