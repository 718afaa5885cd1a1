--------------------------- MODULE MCCacheStripe ---------------------------
EXTENDS CacheStripe

\* Documents of one and three blocks.
MCSizes == {1, 3}
=============================================================================
