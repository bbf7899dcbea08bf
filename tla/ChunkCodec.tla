----------------------------- MODULE ChunkCodec -----------------------------
(***************************************************************************)
(* From a chunk table entry to the decoded bytes of the chunk: decodeChunk *)
(* of reader/open.go with ReadSlice (internal/binaryutil) and Decompress   *)
(* (compression).                                                          *)
(*                                                                         *)
(* Everything here is a function of the opened image, which no operation   *)
(* of a reader changes.  A byte string is a sequence over Byte; Go slices  *)
(* count from 0, sequences from 1, so chunk c is chunkTable[c + 1].        *)
(***************************************************************************)
EXTENDS Geometry, Sequences

CONSTANTS
    Byte,           \* byte values
    Sources,        \* the segment sources: source -> the bytes it holds
    FirstSource,    \* ImageReader.source, the source of the first segment
    NilSource,      \* a descriptor's nil dataSource
    chunkTable,     \* ImageReader.chunkTable, a sequence of descriptors
    TrailerSize,    \* chunkTrailerSize, the Adler-32 after an uncompressed chunk
    StoredSlack,    \* the 4096 of decodeChunk's bound on a stored size
    MaxReadSize,    \* binaryutil.MaxReadSize
    Inflate(_, _)   \* external: zlib (method 1) and bzip2 (method 2)

ChunkDescriptor ==
    [dataSource : (DOMAIN Sources) \cup {NilSource}, dataOffset : Int,
     dataSize : Nat, compressed : BOOLEAN, majorVersion : {1, 2},
     compressionMethod : Nat, pattern : BOOLEAN, hasChecksum : BOOLEAN]

\* A Go (data, err) result.
Ok(bytes)  == [data |-> bytes, err |-> "nil"]
Fail(kind) == [data |-> <<>>, err |-> kind]

Smaller(a, b) == IF a < b THEN a ELSE b

\* Chunk numbers.
Chunks == 0..(Len(chunkTable) - 1)

\* ReadSlice on a source that answers: all n bytes, or an error.  A source that
\* does not answer is ImageReader's SourceFault.
ReadSlice(bytes, off, n) ==
    IF n < 0 \/ n > MaxReadSize \/ off < 0 \/ off + n > Len(bytes)
    THEN Fail("ErrSource")
    ELSE Ok(SubSeq(bytes, off + 1, off + n))

\* compression.Decompress.
Decompress(raw, method) ==
    IF method = 0 THEN Ok(raw)
    ELSE IF method \in {1, 2} THEN Inflate(raw, method)
    ELSE Fail("ErrDecompress")

\* out with its first n bytes once more behind it.
Again(out, n) == out \o SubSeq(out, 1, n)

\* The loop of expandPattern: each pass copies what is filled, or as much of it as
\* there is room for, behind itself.
Doubled[out \in Seq(Byte)] ==
    IF Len(out) >= ChunkSize THEN out
    ELSE Doubled[Again(out, Smaller(Len(out), ChunkSize - Len(out)))]

\* Mutated form of expandPattern: one unit, and no loop behind it.
expandPatternOnce(unit) ==
    IF Len(unit) = 0 \/ ChunkSize <= 0 THEN Fail("ErrCorruptImage") ELSE Ok(unit)

\* Mutated form of expandPattern: the last pass copies the end of what is filled.
expandPatternTail(unit) ==
    LET filled[out \in Seq(Byte)] ==
            LET room == ChunkSize - Len(out)
            IN  IF room <= 0 THEN out
                ELSE IF room >= Len(out) THEN filled[Again(out, Len(out))]
                ELSE out \o SubSeq(out, Len(out) - room + 1, Len(out))
    IN  IF Len(unit) = 0 \/ ChunkSize <= 0 THEN Fail("ErrCorruptImage")
        ELSE Ok(filled[SubSeq(unit, 1, Smaller(Len(unit), ChunkSize))])

\* expandPattern: the chunk is seeded with as much of the unit as fits.
expandPattern(unit) ==
    IF Len(unit) = 0 \/ ChunkSize <= 0
    THEN Fail("ErrCorruptImage")
    ELSE Ok(Doubled[SubSeq(unit, 1, Smaller(Len(unit), ChunkSize))])

\* The descriptor's offset and size are believable.
Plausible(desc) ==
    /\ desc.dataOffset >= 0
    /\ desc.dataSize # 0
    /\ desc.dataSize <= Int64(ChunkSize * 2 + StoredSlack)

\* What the source holds for a chunk.
Stored(desc) ==
    LET readSource == IF desc.dataSource = NilSource THEN FirstSource
                                                     ELSE desc.dataSource
    IN  ReadSlice(Sources[readSource], desc.dataOffset, desc.dataSize)

\* An uncompressed chunk without its trailing checksum: EWF2 states that there
\* is one, EWF v1 implies it by storing more than a chunk.
StripTrailer(desc, raw) ==
    IF \/ desc.hasChecksum /\ Len(raw) > TrailerSize
       \/ desc.majorVersion = 1 /\ Len(raw) > ChunkSize
    THEN SubSeq(raw, 1, Len(raw) - TrailerSize)
    ELSE raw

\* What decodeChunk makes of the stored bytes.
Decoded(desc, raw) ==
    IF desc.pattern
    THEN expandPattern(raw)
    ELSE IF desc.compressed
    THEN Decompress(raw, IF desc.majorVersion = 1 THEN 1
                                                  ELSE desc.compressionMethod)
    ELSE Ok(StripTrailer(desc, raw))

decodeChunk(c) ==
    LET desc == chunkTable[c + 1]
        read == Stored(desc)
    IN  IF ~Plausible(desc) THEN Fail("ErrCorruptImage")
        ELSE IF read.err # "nil" THEN read
        ELSE Decoded(desc, read.data)

-----------------------------------------------------------------------------

\* The trailer fits what it is cut from (a geometry of fewer bytes than that per
\* chunk is outside the model), and the decompressor returns bytes.
ASSUME CodecAssumption ==
    /\ \A s \in DOMAIN Sources : Sources[s] \in Seq(Byte)
    /\ FirstSource \in DOMAIN Sources
    /\ NilSource \notin DOMAIN Sources
    /\ chunkTable \in Seq(ChunkDescriptor)
    /\ TrailerSize \in Nat
    /\ ChunkSize > 0 => TrailerSize <= ChunkSize + 1
    /\ StoredSlack \in Nat
    /\ MaxReadSize \in Nat

ASSUME InflateAssumption ==
    \A c \in Chunks : \A method \in {1, 2} :
        LET out == Inflate(Stored(chunkTable[c + 1]).data, method)
        IN  /\ out.data \in Seq(Byte)
            /\ out = [data |-> out.data, err |-> out.err]
            /\ out.err \in {"nil", "ErrDecompress"}

-----------------------------------------------------------------------------

\* The positions of the device whose bytes the image gives up.  A chunk shorter
\* than ChunkSize leaves a hole behind it; a longer one does not reach into its
\* neighbour.
Readable ==
    {p \in 0..(LogicalSize - 1) :
        /\ ChunkSize > 0
        /\ p \div ChunkSize \in Chunks
        /\ decodeChunk(p \div ChunkSize).err = "nil"
        /\ p % ChunkSize < Len(decodeChunk(p \div ChunkSize).data)}

\* The device itself: every readable position and its byte.
Device ==
    [p \in Readable |->
        decodeChunk(p \div ChunkSize).data[(p % ChunkSize) + 1]]

=============================================================================
