--------------------------- MODULE DeviceReadsMC ---------------------------
(* DeviceReads with two families, and three stores of which two share a     *)
(* birth time.                                                             *)
EXTENDS DeviceReads, TLC

MCBorn == <<1, 2, 2>>
Interchangeable == Permutations(Workers)
MCScenarios == { {"owner", "refresh"}, {"rebuild", "tab"}, {"source", "tab"},
                 {"rekey", "source"}, {"rekey", "rebuild"}, {"relink", "legacy"} }
=============================================================================
