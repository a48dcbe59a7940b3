-------------------------------- MODULE MCBuf --------------------------------
EXTENDS BufCache, TLC

\* Processes, buffers, blocks and values are interchangeable.
Symmetric == Permutations(Procs) \cup Permutations(Bufs)
             \cup Permutations(Blocks) \cup Permutations(Vals)
=============================================================================
