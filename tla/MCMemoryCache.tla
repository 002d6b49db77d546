---------------------------- MODULE MCMemoryCache ----------------------------
EXTENDS MemoryCache
MCTTLs == {0, 2}
=============================================================================
