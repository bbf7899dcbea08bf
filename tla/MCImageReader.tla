--------------------------- MODULE MCImageReader ----------------------------
(***************************************************************************)
(* Small images for ImageReader: chunks of four bytes, a one-byte trailer. *)
(* Decompression is run-length decoding: <<b, n>> inflates to n bytes b.   *)
(***************************************************************************)
EXTENDS Acquisition, TLC

CONSTANTS s1, s2, r1, r2

MCByte == 0..9

MCInflate(raw, method) ==
    IF method = 1 /\ Len(raw) = 2 THEN Ok([i \in 1..raw[2] |-> raw[1]])
    ELSE IF method = 2 /\ Len(raw) = 3 THEN Ok([i \in 1..raw[3] |-> raw[2]])
    ELSE Fail("ErrDecompress")

\* Goroutines differ in nothing but their names.
Alike == Permutations({r1, r2})

\* A negative ChunkCacheChunks disables the cache.
CacheOff == -1

Entry(source, off, size) ==
    [dataSource |-> source, dataOffset |-> off, dataSize |-> size,
     compressed |-> FALSE, majorVersion |-> 1, compressionMethod |-> 0,
     pattern |-> FALSE, hasChecksum |-> FALSE]

Compressed(e)  == [e EXCEPT !.compressed = TRUE]
Version2(e, m) == [e EXCEPT !.majorVersion = 2, !.compressionMethod = m]
Pattern(e)     == [e EXCEPT !.pattern = TRUE, !.compressed = TRUE]
Checksummed(e) == [e EXCEPT !.hasChecksum = TRUE]

C(off, len) == [off |-> off, len |-> len]

-----------------------------------------------------------------------------
(* EWF v1, two segments: trailers on uncompressed chunks, the final chunk  *)
(* half used.  Chunks 3 to 8 are damaged, each in a way decodeChunk can    *)
(* meet: it inflates to more than a chunk; it ends early; it does not      *)
(* inflate; its offset is negative; its size is zero; beyond the bound.    *)

MediaV1 == [BytesPerSector |-> 2, SectorsPerChunk |-> 2, NumberOfSectors |-> 19]

SourcesV1 ==
    s1 :> <<0, 1, 2, 3, 4, 9, 5, 4, 2, 6>> @@ s2 :> <<6, 7, 8, 1, 9, 3, 4, 1, 5, 6, 9>>
TableV1 ==
    << Entry(s1, 1, 5), Compressed(Entry(NilSource, 6, 2)), Entry(s2, 0, 5),
       Compressed(Entry(s1, 8, 2)), Entry(s2, 5, 3), Compressed(Entry(s1, 1, 3)),
       Entry(s1, -1, 4), Entry(s1, 0, 0), Entry(s1, 0, 11), Entry(s2, 8, 3) >>

AcquiredV1 == <<1, 2, 3, 4,  5, 5, 5, 5,  6, 7, 8, 1,  2, 2, 2, 2,  3, 4, 1, 7>>
                \o [i \in 1..16 |-> 0] \o <<5, 6>>

\* Refusals; reads inside a chunk, across chunks and segments, up to the end of
\* the device and beyond it; one or more for each kind of damage.
CallsV1 ==
    {C(-1, 2), C(3, 0), C(38, 1), C(1, 2), C(6, 7), C(14, 8), C(22, 3), C(26, 1),
     C(28, 1), C(34, 3), C(36, 4)}

-----------------------------------------------------------------------------
(* EWF v2: a stated checksum, patterns, both compression methods and none. *)
(* The pattern units are of one byte, of three, which do not divide the    *)
(* chunk, and of five, which do not fit into it.  Chunk 6 ends early, and  *)
(* the table ends before the device does.                                  *)

MediaV2 == [BytesPerSector |-> 2, SectorsPerChunk |-> 2, NumberOfSectors |-> 15]

SourcesV2 == s1 :> <<1, 2, 3, 4, 9, 5, 6, 7, 8, 1>> @@ s2 :> <<0, 2, 4, 3, 4>>
TableV2 ==
    << Checksummed(Version2(Entry(s1, 0, 5), 2)), Pattern(Version2(Entry(s1, 5, 1), 2)),
       Pattern(Version2(Entry(s1, 5, 3), 2)), Pattern(Version2(Entry(s1, 5, 5), 2)),
       Version2(Entry(s1, 6, 4), 2), Compressed(Version2(Entry(s2, 0, 3), 2)),
       Version2(Entry(s2, 3, 2), 0) >>

AcquiredV2 ==
    <<1, 2, 3, 4,  5, 5, 5, 5,  5, 6, 7, 5,  5, 6, 7, 8,  6, 7, 8, 1,  2, 2, 2, 2,
      3, 4, 4, 3,  7, 7>>

CallsV2 ==
    {C(30, 1), C(2, 4), C(6, 7), C(10, 7), C(23, 5), C(24, 4), C(28, 5)}

-----------------------------------------------------------------------------

MCAcquired == IF Media = MediaV1 THEN AcquiredV1 ELSE AcquiredV2

\* What damage has left of each chunk.
Whole(c) == SubSeq(MCAcquired, 4 * c + 1, 4 * c + 4)
LeftV1 ==
    [c \in 0..9 |-> IF c = 3 THEN <<2, 2, 2, 2, 2, 2>>
                    ELSE IF c = 4 THEN <<3, 4, 1>>
                    ELSE IF c \in 5..8 THEN <<>>
                    ELSE IF c = 9 THEN <<5, 6>>
                    ELSE Whole(c)]
LeftV2 == [c \in 0..6 |-> IF c = 6 THEN <<3, 4>> ELSE Whole(c)]

MCLeft == IF Media = MediaV1 THEN LeftV1 ELSE LeftV2

\* The damage is where it was put.
ASSUME DamageIsThere == Ruined = IF Media = MediaV1 THEN 19..35 ELSE 26..29

=============================================================================
