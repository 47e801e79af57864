------------------------ MODULE MCResidentSnapshots ------------------------
EXTENDS ResidentSnapshots, TLC
CONSTANTS t1, t2, old, new, y
\* Two versions that differ in everything: in where they place execution too.
Sealing == old :> (y :> "before") @@ new :> (y :> "after")
Symmetric == Permutations({t1, t2})
=============================================================================
