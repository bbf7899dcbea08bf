----------------------------- MODULE MCChunkLRU -----------------------------
(* ChunkLRU over a handful of chunks and two contents. *)
EXTENDS ChunkLRU, TLC

CONSTANTS c1, c2, c3, c4, x, y

MCNumbers == {c1, c2, c3, c4}
MCContents == {x, y}
MCSymmetry == Permutations(MCNumbers) \cup Permutations(MCContents)

\* 4-byte chunks under an 11-byte ceiling: of the 5 chunks asked for, 2 fit.
MCMedia == [BytesPerSector |-> 2, SectorsPerChunk |-> 2, NumberOfSectors |-> 9]

=============================================================================
