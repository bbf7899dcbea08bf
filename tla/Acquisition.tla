---------------------------- MODULE Acquisition -----------------------------
(***************************************************************************)
(* Reading back what was acquired: ImageReader on an image that an         *)
(* acquisition of the device `Acquired' made and that damage may have      *)
(* reached since.  How a writer stores a chunk is external to this         *)
(* repository: it is what decodeChunk of reader/open.go takes for granted. *)
(***************************************************************************)
EXTENDS ImageReader

CONSTANTS
    Acquired,   \* the bytes of the device
    Left        \* chunk -> the bytes of it that are left; all, if undamaged

\* The bytes of the device that chunk c is for: the last chunk has fewer.
Piece(c) ==
    SubSeq(Acquired, c * ChunkSize + 1, Smaller((c + 1) * ChunkSize, LogicalSize))

\* The stored form of a chunk, and whether it can be where the table says.
Holder(desc) == Sources[IF desc.dataSource = NilSource THEN FirstSource ELSE desc.dataSource]
Raw(desc) == SubSeq(Holder(desc), desc.dataOffset + 1, desc.dataOffset + desc.dataSize)
InReach(desc) ==
    /\ desc.dataOffset >= 0
    /\ desc.dataSize \in 1..Smaller(2 * ChunkSize + StoredSlack, MaxReadSize)
    /\ desc.dataOffset + desc.dataSize <= Len(Holder(desc))

Method(desc) == IF desc.majorVersion = 1 THEN 1 ELSE desc.compressionMethod

\* data as a writer stores it: a unit that fills a chunk when repeated, ...
AsPattern(desc, data) ==
    /\ desc.pattern
    /\ data = [k \in 1..ChunkSize |-> Raw(desc)[((k - 1) % Len(Raw(desc))) + 1]]

\* ... compressed, ...
AsCompressed(desc, data) ==
    /\ desc.compressed /\ ~desc.pattern
    /\ \/ Method(desc) = 0 /\ Raw(desc) = data
       \/ Method(desc) \in {1, 2} /\ Inflate(Raw(desc), Method(desc)) = Ok(data)

\* ... or as it is, with a checksum behind it in EWF v1 and where one is stated,
Trailed(desc, data) ==
    /\ ~desc.compressed /\ ~desc.pattern
    /\ desc.majorVersion = 1 \/ desc.hasChecksum
    /\ Len(Raw(desc)) = Len(data) + TrailerSize
    /\ SubSeq(Raw(desc), 1, Len(data)) = data

\* or without, as what is left of a chunk also is.
Bare(desc, data) ==
    /\ ~desc.compressed /\ ~desc.pattern /\ ~desc.hasChecksum
    /\ desc.majorVersion = 1 => Len(data) <= ChunkSize
    /\ Raw(desc) = data

\* The stored form is that of data.
Written(desc, data) ==
    /\ InReach(desc)
    /\ \/ AsPattern(desc, data) \/ AsCompressed(desc, data)
       \/ Trailed(desc, data) \/ Bare(desc, data)

\* Nothing can be made of the stored form.
Unusable(desc) ==
    \/ ~InReach(desc)
    \/ /\ desc.compressed /\ ~desc.pattern
       /\ \/ Method(desc) \notin {0, 1, 2}
          \/ Method(desc) # 0 /\ Inflate(Raw(desc), Method(desc)).err # "nil"

\* The image is one of the device.  Damage takes chunks, or ends them early, or
\* makes them inflate to more than a chunk; it does not forge bytes (the read
\* path verifies no checksum), and a chunk that has its checksum is whole.
ASSUME AcquisitionAssumption ==
    /\ Acquired \in Seq(Byte)
    /\ Len(Acquired) = LogicalSize
    /\ 2 * ChunkSize + StoredSlack <= MaxInt64
    /\ Left \in [Chunks -> Seq(Byte)]
    /\ \A c \in Chunks : c * ChunkSize < LogicalSize =>
         LET desc == chunkTable[c + 1]
         IN  \/ Left[c] = <<>> /\ Unusable(desc)
             \/ /\ Left[c] # <<>>
                /\ Written(desc, Left[c])
                /\ Trailed(desc, Left[c]) => Len(Left[c]) >= Len(Piece(c))
                /\ \A k \in 1..Smaller(Len(Left[c]), Len(Piece(c))) : Left[c][k] = Piece(c)[k]

\* The positions of the device that a damaged or missing chunk takes away: of a
\* short one only the bytes it lacks.
Ruined ==
    {p \in 0..(LogicalSize - 1) :
        p \div ChunkSize \in Chunks => p % ChunkSize >= Len(Left[p \div ChunkSize])}

\* Every byte returned to a caller is the acquired device's byte at that place,
\* whatever damage there is elsewhere and whoever else is reading.
ReturnsAcquired ==
    \A r \in Readers : \A i \in 1..Len(buf[r]) :
        /\ call[r].off + i \in 1..Len(Acquired)
        /\ buf[r][i] = Acquired[call[r].off + i]

\* A call gives up every byte there is from its offset on, to the first one that
\* damage took or to the end of the device, unless a source failed.
NothingWithheld ==
    \A r \in Readers :
        pc[r] = "done" /\ err[r] # "ErrSource" /\ call[r].off >= 0 =>
            LET next == call[r].off + Len(buf[r])
            IN  Len(buf[r]) = call[r].len \/ next >= LogicalSize \/ next \in Ruined

=============================================================================
