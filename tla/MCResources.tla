----------------------------- MODULE MCResources -----------------------------
EXTENDS Resources

CONSTANTS DirA, DirB, DirC, DirOdd

\* Two paths of three components with common parents, one that starts with a component
\* of one byte, and one with a ':' in a component that is not the first.
MCPaths == {<<DirA, DirB, DirA>>, <<DirA, DirB, DirB>>, <<DirC, DirA>>, <<DirA, DirOdd>>}
MCShortPaths == {<<DirC, DirA>>}

=============================================================================
