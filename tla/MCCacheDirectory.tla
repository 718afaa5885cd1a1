--------------------------- MODULE MCCacheDirectory -------------------------
(* Values for model-checking CacheDirectory.                               *)
EXTENDS CacheDirectory

CONSTANTS k1, k2

\* Two keys that collide, the first one of a document and one of a fragment.
MCBucket(k) == 0
MCTag(k) == 0
MCHead(k) == k = k1

OffsetSymmetry == Permutations(Offsets)
=============================================================================
