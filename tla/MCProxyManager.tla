--------------------------- MODULE MCProxyManager ---------------------------
EXTENDS ProxyManager, TLC

CONSTANTS main, poller

MCThreads == {main, poller}
MCQuota == [t \in MCThreads |-> IF t = poller THEN 2 ELSE 1]
Symmetry == Permutations(Proxies)
=============================================================================
