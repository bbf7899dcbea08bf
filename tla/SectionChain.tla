---------------------------- MODULE SectionChain ----------------------------
(***************************************************************************)
(* Walking the section descriptors of one segment (reader/sections.go).    *)
(* EWF v1 chains them forward from behind the file header, EWF v2 backward *)
(* from the end of the file.                                               *)
(*                                                                         *)
(* A file is what each offset reads as when taken for a descriptor: any    *)
(* bytes are a descriptor of something.  Nothing but the file tells where  *)
(* the chain goes, so it may run in circles.  The 64-bit offsets wrap.     *)
(***************************************************************************)
EXTENDS Integers, Sequences, SequencesExt

CONSTANTS
    Files,          \* [version, size, sized, raw, ...]: raw maps offsets to descriptors
    FirstOffset,    \* 13, behind the v1 file header
    DescriptorSize, \* sectionDescriptorV1Size, sectionDescriptorV2Size
    HeaderSize,     \* 32, the v2 file header as the v2 descriptor counts it
    MaxSections,    \* 1 << 16
    HalfWord        \* 2^63

\* What a descriptor's bytes say.
Word64 == 0..(2 * HalfWord - 1)
RawV1 == [TypeString : STRING, NextOffset : Word64, Size : Word64]
RawV2 == [Type : STRING, PreviousOffset : Word64, DataSize : Word64, PaddingSize : Nat]

\* A file whose size and offsets an int64 holds.
IsFile(f) ==
    /\ f.version \in Nat
    /\ f.size \in 0..(HalfWord - 1)
    /\ \A off \in DOMAIN f.raw :
         /\ f.version = 1 => f.raw[off] \in RawV1
         /\ f.version = 2 => f.raw[off] \in RawV2

ASSUME ChainAssumption ==
    /\ {FirstOffset, DescriptorSize, HeaderSize, MaxSections, HalfWord} \subseteq Nat \ {0}
    /\ FirstOffset < HalfWord /\ HeaderSize <= DescriptorSize /\ DescriptorSize < HalfWord
    /\ \A f \in Files : IsFile(f)

VARIABLES
    file,
    pc,         \* start, walk, accepted or failed
    offset,     \* where the next descriptor is read
    sections,   \* the descriptors so far
    n,          \* turns of the loop
    lastSectionFound,
    err         \* what the chain was refused for, "nil" otherwise

chainVars == <<file, pc, offset, sections, n, lastSectionFound, err>>

Int64(x) == ((x + HalfWord) % (2 * HalfWord)) - HalfWord

Uint64(x) == x % (2 * HalfWord)

\* ReadSlice of a whole descriptor succeeds.
Readable(off) ==
    /\ off >= 0
    /\ off + DescriptorSize <= file.size
    /\ off \in DOMAIN file.raw

mapV1TypeString(typeString) ==
    CASE typeString \in {"next", "done"}               -> typeString
      [] typeString = "session"                        -> "session_table"
      [] typeString \in {"table", "table2"}            -> "sector_table"
      [] typeString = "sectors"                        -> "sector_data"
      [] typeString \in {"error", "error2"}            -> "error_table"
      [] typeString \in {"digest", "hash"}             -> "md5_hash"
      [] typeString \in {"disk", "volume", "data"}     -> "device_information"
      [] OTHER                                         -> "unclassified"

\* A v1 descriptor without a size has the distance to the next one, if that lies
\* ahead.
sizeV1(raw, off) ==
    IF raw.Size = 0 /\ raw.NextOffset > off THEN raw.NextOffset - off ELSE raw.Size

readSectionDescriptorV1(off) ==
    LET raw  == file.raw[off]
        size == sizeV1(raw, off)
    IN  [Offset |-> off, Type |-> mapV1TypeString(raw.TypeString),
         TypeString |-> raw.TypeString, Size |-> size, DataOffset |-> off + DescriptorSize,
         DataSize |-> IF size >= DescriptorSize THEN size - DescriptorSize ELSE 0,
         PaddingSize |-> 0]

\* A v2 descriptor lies behind its data, and its data behind the previous one.
\* The type's name is mapSectionTypeToString's.
readSectionDescriptorV2(off) ==
    LET raw == file.raw[off]
    IN  [Offset |-> off, Type |-> raw.Type, TypeString |-> raw.Type,
         Size |-> IF raw.PreviousOffset = 0 THEN off + HeaderSize
                                            ELSE Uint64(off - raw.PreviousOffset),
         DataOffset |-> IF raw.PreviousOffset = 0 THEN HeaderSize
                                                  ELSE raw.PreviousOffset + DescriptorSize,
         DataSize |-> raw.DataSize, PaddingSize |-> raw.PaddingSize]

ChainInit ==
    /\ file \in Files
    /\ pc = "start"
    /\ offset = 0
    /\ sections = <<>>
    /\ n = 0
    /\ lastSectionFound = FALSE
    /\ err = "nil"

Fail(kind) ==
    /\ pc' = "failed"
    /\ err' = kind
    /\ UNCHANGED <<file, offset, sections, n, lastSectionFound>>

Terminal(descriptor) == descriptor.Type \in {"next", "done"}

-----------------------------------------------------------------------------
(* parseSectionsV1 *)

StartV1 ==
    /\ pc = "start"
    /\ file.version = 1
    /\ offset' = FirstOffset
    /\ pc' = "walk"
    /\ UNCHANGED <<file, sections, n, lastSectionFound, err>>

\* Mutated form of StopV1: the loop is left at done only.
StopV1Done(descriptor) == descriptor.Type = "done"

\* The loop is left at the first next or done.
StopV1(descriptor) == Terminal(descriptor)

WalkV1 ==
    /\ pc = "walk"
    /\ file.version = 1
    /\ n < MaxSections
    /\ Readable(offset)
    /\ LET descriptor == readSectionDescriptorV1(offset)
           stop == StopV1(descriptor)
       IN  /\ sections' = Append(sections, descriptor)
           /\ offset' = Int64(offset + descriptor.Size
                              + IF stop /\ descriptor.Size = 0 THEN DescriptorSize ELSE 0)
           /\ lastSectionFound' = stop
           /\ pc' = IF stop THEN "accepted" ELSE "walk"
    /\ n' = n + 1
    /\ UNCHANGED <<file, err>>

\* Mutated form of UnreadableV1: the read is tried again.
UnreadableV1Retried ==
    /\ pc = "walk"
    /\ file.version = 1
    /\ n < MaxSections
    /\ ~Readable(offset)
    /\ UNCHANGED chainVars

UnreadableV1 ==
    /\ pc = "walk"
    /\ file.version = 1
    /\ n < MaxSections
    /\ ~Readable(offset)
    /\ Fail("unable to read v1 section descriptor")

\* Mutated form of ExhaustedV1: what was walked is returned.
ExhaustedV1Accepts ==
    /\ pc = "walk"
    /\ file.version = 1
    /\ n >= MaxSections
    /\ pc' = "accepted"
    /\ UNCHANGED <<file, offset, sections, n, lastSectionFound, err>>

ExhaustedV1 ==
    /\ pc = "walk"
    /\ file.version = 1
    /\ n >= MaxSections
    /\ Fail("missing next or done section")

-----------------------------------------------------------------------------
(* parseSectionsV2 *)

StartV2 ==
    /\ pc = "start"
    /\ file.version = 2
    /\ file.sized
    /\ file.size >= DescriptorSize
    /\ offset' = file.size - DescriptorSize
    /\ pc' = "walk"
    /\ UNCHANGED <<file, sections, n, lastSectionFound, err>>

\* The size cannot be had (no Size, Len or Stat), or is too small.
NoStartV2 ==
    /\ pc = "start"
    /\ file.version = 2
    /\ ~file.sized \/ file.size < DescriptorSize
    /\ Fail("v2 segment file too small")

\* The loop's condition.
MoreV2 == n < MaxSections /\ offset > 0 /\ offset < file.size

\* A descriptor's link does not lead forward.
Backward(off) == file.raw[off].PreviousOffset <= off

\* Mutated form of foundV2: a next or done anywhere will do.
foundV2Any(descriptor) == lastSectionFound \/ Terminal(descriptor)

\* The section that ends the file, which is read first, must be a next or a done.
foundV2(descriptor) ==
    IF sections = <<>> THEN Terminal(descriptor) ELSE lastSectionFound

WalkV2 ==
    /\ pc = "walk"
    /\ file.version = 2
    /\ MoreV2
    /\ Readable(offset)
    /\ Backward(offset)
    /\ LET descriptor == readSectionDescriptorV2(offset)
       IN  /\ sections' = Append(sections, descriptor)
           /\ offset' = Int64(offset - descriptor.Size)
           /\ lastSectionFound' = foundV2(descriptor)
    /\ n' = n + 1
    /\ UNCHANGED <<file, pc, err>>

UnreadableV2 ==
    /\ pc = "walk"
    /\ file.version = 2
    /\ MoreV2
    /\ ~(Readable(offset) /\ Backward(offset))
    /\ Fail("unable to read v2 section descriptor")

FinishV2 ==
    /\ pc = "walk"
    /\ file.version = 2
    /\ ~MoreV2
    /\ lastSectionFound
    /\ sections' = Reverse(sections)
    /\ pc' = "accepted"
    /\ UNCHANGED <<file, offset, n, lastSectionFound, err>>

NotFoundV2 ==
    /\ pc = "walk"
    /\ file.version = 2
    /\ ~MoreV2
    /\ ~lastSectionFound
    /\ Fail("missing next or done section")

-----------------------------------------------------------------------------

\* parseSectionDescriptors, for a major version that is neither.
UnsupportedVersion ==
    /\ pc = "start"
    /\ file.version \notin {1, 2}
    /\ Fail("unsupported major version")

ChainNext ==
    \/ UnsupportedVersion
    \/ StartV1 \/ WalkV1 \/ UnreadableV1 \/ ExhaustedV1
    \/ StartV2 \/ NoStartV2 \/ WalkV2 \/ UnreadableV2 \/ FinishV2 \/ NotFoundV2

ChainSpec == ChainInit /\ [][ChainNext]_chainVars

-----------------------------------------------------------------------------

SectionTypes ==
    {"next", "done", "session_table", "sector_table", "sector_data", "error_table",
     "md5_hash", "device_information", "unclassified"}

SectionInfo ==
    [Offset : Int, Type : STRING \cup SectionTypes, TypeString : STRING, Size : Word64,
     DataOffset : Int, DataSize : Word64, PaddingSize : Nat]

ChainType ==
    /\ IsFile(file)
    /\ pc \in {"start", "walk", "accepted", "failed"}
    /\ offset \in (-HalfWord)..(HalfWord - 1)
    /\ sections \in Seq(SectionInfo)
    /\ n \in 0..MaxSections
    /\ lastSectionFound \in BOOLEAN
    /\ err \in {"nil", "unable to read v1 section descriptor", "missing next or done section",
               "v2 segment file too small", "unable to read v2 section descriptor",
               "unsupported major version"}

\* The descriptor at off as the version at hand reads it, and where that leads.
Descriptor(off) ==
    IF file.version = 1 THEN readSectionDescriptorV1(off) ELSE readSectionDescriptorV2(off)

NextOffset(s) == Int64(IF file.version = 1 THEN s.Offset + s.Size ELSE s.Offset - s.Size)

StartOffset == IF file.version = 1 THEN FirstOffset ELSE file.size - DescriptorSize

\* Where the walk stands: it has come to `offset' by the links, one section for
\* each turn, and no v1 section on the way ends the chain.
Walked ==
    /\ pc = "start" => n = 0 /\ sections = <<>> /\ ~lastSectionFound
    /\ pc = "walk" =>
         /\ file.version \in {1, 2}
         /\ Len(sections) = n
         /\ \A k \in 1..n :
              /\ Readable(sections[k].Offset)
              /\ sections[k] = Descriptor(sections[k].Offset)
              /\ file.version = 1 => ~Terminal(sections[k])
              /\ NextOffset(sections[k]) = IF k = n THEN offset ELSE sections[k + 1].Offset
         /\ StartOffset = IF n = 0 THEN offset ELSE sections[1].Offset

\* A v1 walk that has been somewhere twice is where it has been before.
Circles ==
    pc = "walk" /\ file.version = 1 =>
        \A j, k \in 1..n :
            j < k /\ sections[j].Offset = sections[k].Offset
              => \E m \in 1..n : sections[m].Offset = offset

\* A v2 walk leads backward, to offset 0 or before only from the section that is
\* first in the file.
Backwards ==
    pc = "walk" /\ file.version = 2 =>
        /\ lastSectionFound <=> n > 0 /\ Terminal(sections[1])
        /\ \A k \in 1..n : /\ sections[k].Offset >= IF k = n THEN offset ELSE sections[k + 1].Offset
                           /\ Backward(sections[k].Offset)
        /\ n > 0 /\ offset <= 0 => file.raw[sections[n].Offset].PreviousOffset = 0

\* The type and the walk.
ChainInv == ChainType /\ Walked /\ Circles /\ Backwards

\* A v1 chain that is accepted visits no descriptor twice, however its sizes lead
\* (a size of 0, or of 2^63 and more, leads nowhere or back): a circle is walked
\* until the bound and then refused.
NoneTwiceV1 ==
    pc = "accepted" /\ file.version = 1 =>
        \A j, k \in 1..Len(sections) : sections[j].Offset = sections[k].Offset => j = k

\* An accepted v2 chain is in file order and ends with a next or a done that ends
\* the file; unless it has run to the bound, it starts behind the header.
WholeV2 ==
    pc = "accepted" /\ file.version = 2 =>
        /\ sections # <<>>
        /\ Terminal(Last(sections))
        /\ Last(sections).Offset = file.size - DescriptorSize
        /\ \A k \in 1..(Len(sections) - 1) : sections[k].Offset <= sections[k + 1].Offset
        /\ Len(sections) < MaxSections => file.raw[sections[1].Offset].PreviousOffset = 0

=============================================================================
