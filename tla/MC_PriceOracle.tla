--------------------------- MODULE MC_PriceOracle ---------------------------
EXTENDS PriceOracle

CONSTANTS c1, c2, eth, cspr

\* Two streams; the two subscriptions of the oracle's own test.
MC_Client == {c1, c2}
MC_Tokens == <<eth, cspr>>

=============================================================================
