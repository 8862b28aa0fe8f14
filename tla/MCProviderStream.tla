--------------------------- MODULE MCProviderStream ---------------------------
EXTENDS ProviderStream

CONSTANTS t, idea, c1, c2

\* One call in two pieces, everything else in one
MCPieces == [i \in Items |-> IF i = c1 THEN 2 ELSE 1]
=============================================================================
