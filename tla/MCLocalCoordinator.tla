------------------------- MODULE MCLocalCoordinator -------------------------
EXTENDS LocalCoordinator, TLC
CONSTANTS c1, c2, p1, p2, a, b
\* One unit, two in either order, and a list that names a unit twice.
Lists == {<<a>>, <<a, b>>, <<b, a>>, <<a, a>>}
Two == {<<a, b>>, <<b, a>>}
Symmetric == Permutations({p1, p2}) \cup Permutations({c1, c2})
=============================================================================
