------------------------------ MODULE Geometry ------------------------------
(***************************************************************************)
(* The device geometry an open image reader works with: computeGeometry of *)
(* reader/open.go applied to the volume section's MediaInfo.               *)
(*                                                                         *)
(* Arithmetic is on 64-bit integers.  The width is the constant MaxInt64,  *)
(* scaled down by the model-checked instances, so that the checks against  *)
(* overflow are met on both sides.                                         *)
(***************************************************************************)
EXTENDS Integers

CONSTANTS
    Media,      \* metadata.MediaInfo of the volume section, or NoMedia
    NoMedia,    \* the nil *MediaInfo of a set without a volume section
    MaxInt64    \* math.MaxInt64

MediaInfo == [BytesPerSector : Nat, SectorsPerChunk : Nat, NumberOfSectors : Nat]

ASSUME GeometryAssumption ==
    /\ MaxInt64 \in Nat \ {0}
    /\ Media \in MediaInfo \cup {NoMedia}
    /\ NoMedia \notin MediaInfo

\* The value an int64 holds after x is computed into it.
Int64(x) == ((x + MaxInt64 + 1) % (2 * (MaxInt64 + 1))) - (MaxInt64 + 1)

\* computeGeometry: the sizes, or the error that fails the open.
computeGeometry(media) ==
    IF media = NoMedia
    THEN [chunkSize |-> 0, logicalSize |-> 0, err |-> "nil"]
    ELSE LET bps == media.BytesPerSector
             spc == media.SectorsPerChunk
         IN  IF \/ bps = 0
                \/ spc = 0
                \/ spc > MaxInt64 \div bps
                \/ media.NumberOfSectors > MaxInt64 \div bps
             THEN [chunkSize |-> 0, logicalSize |-> 0, err |-> "ErrCorruptImage"]
             ELSE [chunkSize   |-> Int64(spc * bps),
                   logicalSize |-> Int64(media.NumberOfSectors * bps),
                   err         |-> "nil"]

\* ImageReader.chunkSize: the decoded size of one full chunk, in bytes.
ChunkSize == computeGeometry(Media).chunkSize

\* ImageReader.logicalSize, which Size() reports.
LogicalSize == computeGeometry(Media).logicalSize

=============================================================================
