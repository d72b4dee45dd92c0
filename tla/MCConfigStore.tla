--------------------------- MODULE MCConfigStore ---------------------------
(* Two networks, so that a device can be moved from one to the other, and  *)
(* a power cut in the boot that follows a power cut.                       *)
EXTENDS ConfigStore, TLC

\* Nothing tells one network from another.
Symmetry == Permutations(Networks)
=============================================================================
