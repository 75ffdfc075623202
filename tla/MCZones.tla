------------------------------ MODULE MCZones ------------------------------
(* Instances of Zones for TLC: owners and names are interchangeable.        *)
EXTENDS Zones, TLC

Symmetry == Permutations(Owners) \cup Permutations(Names)
=============================================================================
