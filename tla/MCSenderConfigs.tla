--------------------------- MODULE MCSenderConfigs ---------------------------
(* SenderConfigs on small sets.                                            *)
EXTENDS SenderConfigs, TLC

\* No configuration, value or update request differs from another.
ConfigSymmetry ==
    Permutations(Configs) \cup Permutations(Values) \cup Permutations(Updates)
=============================================================================
