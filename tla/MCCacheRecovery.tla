-------------------------- MODULE MCCacheRecovery --------------------------
EXTENDS CacheRecovery, SequencesExt

\* The blocks of documents of these lengths.
Laid(lengths) ==
  FlattenSeq([i \in DOMAIN lengths |-> [b \in 1 .. lengths[i] |-> [len |-> lengths[i], k |-> b - 1]]])

\* Aggregation buffers of two blocks, full or not.
MCBatches == {Laid(<<2>>), Laid(<<1>>)}
=============================================================================
