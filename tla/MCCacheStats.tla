----------------------------- MODULE MCCacheStats ----------------------------
(* CacheStats with two API processes, cache-hit-miss.js and one more client.*)
EXTENDS CacheStats

CONSTANTS i1, i2, k6, watch
=============================================================================
