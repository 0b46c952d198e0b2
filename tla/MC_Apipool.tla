------------------------------ MODULE MC_Apipool ------------------------------
EXTENDS Apipool

CONSTANTS r1, r2

\* A provider with two keys, a second one with one key, a free engine last.
MCPools == {0, 1}
MCNumKeys == [p \in MCPools |-> IF p = 0 THEN 2 ELSE 1]

\* One pool of two keys.
OnePool == {0}
TwoKeys == [p \in OnePool |-> 2]

=============================================================================
