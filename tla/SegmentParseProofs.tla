------------------------- MODULE SegmentParseProofs -------------------------
(***************************************************************************)
(* The parse of a segment, for every file, every size of the structures    *)
(* and every bound.  The walk: an accepted v1 chain visits no descriptor   *)
(* twice, an accepted v2 chain is in file order and whole, and what the    *)
(* parse does around the walk leaves it alone.  The bodies: lists are read *)
(* once, digests of a binary section win, so does the most capable header, *)
(* and the two texts of v2 make one record.                                *)
(***************************************************************************)
EXTENDS SegmentParse, TLAPS

-----------------------------------------------------------------------------
(* Words *)

LEMMA Widths ==
    /\ FirstOffset \in Nat \ {0} /\ DescriptorSize \in Nat \ {0} /\ HeaderSize \in Nat \ {0}
    /\ MaxSections \in Nat \ {0} /\ HalfWord \in Nat \ {0}
    /\ FirstOffset < HalfWord /\ HeaderSize <= DescriptorSize /\ DescriptorSize < HalfWord
  BY ChainAssumption

LEMMA Int64Type == \A x \in Int : Int64(x) \in (-HalfWord)..(HalfWord - 1)
<1> SUFFICES ASSUME NEW x \in Int PROVE Int64(x) \in (-HalfWord)..(HalfWord - 1)
  OBVIOUS
<1> DEFINE w == 2 * HalfWord
           y == x + HalfWord
<1>1. w \in Nat \ {0} /\ HalfWord \in Nat /\ y \in Int
  BY Widths
<1>2. \A a \in Int, b \in Nat \ {0} : a % b \in 0..(b - 1)
  BY SMT
<1>3. y % w \in 0..(w - 1)
  BY <1>1, <1>2
<1> QED BY <1>1, <1>3 DEF Int64

\* A number that an int64 holds is not wrapped.
LEMMA Int64Small == \A x \in (-HalfWord)..(HalfWord - 1) : Int64(x) = x
<1> SUFFICES ASSUME NEW x \in (-HalfWord)..(HalfWord - 1) PROVE Int64(x) = x
  OBVIOUS
<1> DEFINE w == 2 * HalfWord
           y == x + HalfWord
<1>1. w \in Nat \ {0} /\ HalfWord \in Nat /\ y \in 0..(w - 1)
  BY Widths
<1>2. \A b \in Nat \ {0} : \A a \in 0..(b - 1) : a % b = a
  BY SMT
<1>3. y % w = y
  BY <1>1, <1>2
<1> QED BY <1>1, <1>3 DEF Int64

LEMMA Uint64Type == \A x \in Int : Uint64(x) \in Word64
<1> SUFFICES ASSUME NEW x \in Int PROVE Uint64(x) \in Word64
  OBVIOUS
<1>1. 2 * HalfWord \in Nat \ {0}
  BY Widths
<1>2. \A a \in Int, b \in Nat \ {0} : a % b \in 0..(b - 1)
  BY SMT
<1> QED BY <1>1, <1>2 DEF Uint64, Word64

LEMMA Uint64Small == \A x \in Word64 : Uint64(x) = x
<1> SUFFICES ASSUME NEW x \in Word64 PROVE Uint64(x) = x
  OBVIOUS
<1>1. 2 * HalfWord \in Nat \ {0}
  BY Widths
<1>2. \A b \in Nat \ {0} : \A a \in 0..(b - 1) : a % b = a
  BY SMT
<1> QED BY <1>1, <1>2 DEF Uint64, Word64

-----------------------------------------------------------------------------
(* Descriptors *)

LEMMA MapV1Type == \A t : mapV1TypeString(t) \in SectionTypes
  BY DEF mapV1TypeString, SectionTypes

LEMMA TerminalBoolean == \A s : Terminal(s) \in BOOLEAN
  BY DEF Terminal

LEMMA FileHere == ASSUME ChainType PROVE IsFile(file)
  BY DEF ChainType

LEMMA OffsetHere == ASSUME ChainType PROVE offset \in Int /\ n \in Nat
<1>1. offset \in (-HalfWord)..(HalfWord - 1) /\ n \in 0..MaxSections
  BY DEF ChainType
<1> QED BY <1>1, Widths

LEMMA SectionsHere == ASSUME ChainType PROVE sections \in Seq(SectionInfo)
  BY DEF ChainType

\* A descriptor reads the same while the file is the same.
LEMMA DescriptorStays ==
    ASSUME file' = file, NEW k, sections'[k] = Descriptor(sections'[k].Offset)
    PROVE  (sections[k] = Descriptor(sections[k].Offset))'
  BY DEF Descriptor, readSectionDescriptorV1, readSectionDescriptorV2

LEMMA DescriptorV1Type ==
    ASSUME ChainType, file.version = 1, NEW off, off \in Int, Readable(off)
    PROVE  /\ readSectionDescriptorV1(off) \in SectionInfo
           /\ readSectionDescriptorV1(off).Offset = off
<1> DEFINE raw == file.raw[off]
           size == sizeV1(raw, off)
<1>1. raw \in RawV1 /\ off \in Nat
  BY FileHere DEF IsFile, Readable
<1>2. raw.TypeString \in STRING /\ raw.NextOffset \in Word64 /\ raw.Size \in Word64
  BY <1>1 DEF RawV1
<1>3. HalfWord \in Nat \ {0} /\ DescriptorSize \in Nat \ {0}
  BY Widths
<1>4. size \in Word64
  BY <1>1, <1>2, <1>3 DEF sizeV1, Word64
<1>5. (IF size >= DescriptorSize THEN size - DescriptorSize ELSE 0) \in Word64
  BY <1>3, <1>4 DEF Word64
<1>6. mapV1TypeString(raw.TypeString) \in SectionTypes
  BY <1>2, MapV1Type
<1> QED BY <1>1, <1>2, <1>3, <1>4, <1>5, <1>6 DEF readSectionDescriptorV1, SectionInfo

LEMMA DescriptorV2Type ==
    ASSUME ChainType, file.version = 2, NEW off, off \in Int, Readable(off)
    PROVE  /\ readSectionDescriptorV2(off) \in SectionInfo
           /\ readSectionDescriptorV2(off).Offset = off
<1> DEFINE raw == file.raw[off]
<1>1. raw \in RawV2 /\ off \in Nat /\ file.size \in 0..(HalfWord - 1)
      /\ off + DescriptorSize <= file.size
  BY FileHere DEF IsFile, Readable
<1>2. /\ raw.Type \in STRING /\ raw.PreviousOffset \in Word64 /\ raw.DataSize \in Word64
      /\ raw.PaddingSize \in Nat
  BY <1>1 DEF RawV2
<1>3. /\ HalfWord \in Nat \ {0} /\ DescriptorSize \in Nat \ {0} /\ HeaderSize \in Nat \ {0}
      /\ HeaderSize <= DescriptorSize
  BY Widths
<1>4. Uint64(off - raw.PreviousOffset) \in Word64
  BY <1>1, <1>2, Uint64Type DEF Word64
<1>5. off + HeaderSize \in Word64
  BY <1>1, <1>3 DEF Word64
<1>6. raw.PreviousOffset \in Nat
  BY <1>2 DEF Word64
<1> QED BY <1>1, <1>2, <1>3, <1>4, <1>5, <1>6 DEF readSectionDescriptorV2, SectionInfo

LEMMA NextOffsetV2 ==
    ASSUME file' = file, file.version = 2, NEW k
    PROVE  NextOffset(sections[k])' = Int64(sections'[k].Offset - sections'[k].Size)
  BY DEF NextOffset

\* A v2 link that does not lead forward is followed to where it leads, and from
\* the first section to before the file.
LEMMA LinkV2 ==
    ASSUME ChainType, file.version = 2, NEW off, off \in Int, Readable(off), Backward(off)
    PROVE  LET to == Int64(off - readSectionDescriptorV2(off).Size)
           IN  /\ to <= off
               /\ to <= 0 => file.raw[off].PreviousOffset = 0
<1> DEFINE raw == file.raw[off]
           prev == raw.PreviousOffset
           size == readSectionDescriptorV2(off).Size
<1>1. raw \in RawV2 /\ off \in Nat /\ file.size \in 0..(HalfWord - 1)
      /\ off + DescriptorSize <= file.size
  BY FileHere DEF IsFile, Readable
<1>2. prev \in Nat /\ prev <= off
  BY <1>1 DEF RawV2, Word64, Backward
<1>3. /\ HalfWord \in Nat \ {0} /\ DescriptorSize \in Nat \ {0} /\ HeaderSize \in Nat \ {0}
      /\ HeaderSize <= DescriptorSize /\ DescriptorSize < HalfWord
  BY Widths
<1>4. CASE prev = 0
  <2>1. size = off + HeaderSize
    BY <1>4 DEF readSectionDescriptorV2
  <2>2. off - size = -HeaderSize /\ -HeaderSize \in (-HalfWord)..(HalfWord - 1)
    BY <1>1, <1>3, <2>1
  <2> QED BY <1>1, <1>3, <1>4, <2>2, Int64Small
<1>5. CASE prev # 0
  <2>1. size = Uint64(off - prev)
    BY <1>5 DEF readSectionDescriptorV2
  <2>2. off - prev \in Word64
    BY <1>1, <1>2, <1>3 DEF Word64
  <2>3. off - size = prev /\ prev \in (-HalfWord)..(HalfWord - 1)
    BY <1>1, <1>2, <1>3, <2>1, <2>2, Uint64Small
  <2> QED BY <1>1, <1>2, <1>5, <2>3, Int64Small
<1> QED BY <1>4, <1>5

-----------------------------------------------------------------------------
(* The walk *)

ChainIInv == ChainInv /\ NoneTwiceV1 /\ WholeV2

\* Nothing is said of a walk that has failed.
LEMMA FailInv ==
    ASSUME ChainIInv, NEW kind,
           kind \in {"unable to read v1 section descriptor", "missing next or done section",
                     "v2 segment file too small", "unable to read v2 section descriptor",
                     "unsupported major version"},
           Fail(kind)
    PROVE  ChainIInv'
<1>1. /\ pc' = "failed" /\ err' = kind /\ file' = file /\ offset' = offset
      /\ sections' = sections /\ n' = n /\ lastSectionFound' = lastSectionFound
  BY DEF Fail
<1>2. ChainType'
  BY <1>1 DEF ChainIInv, ChainInv, ChainType, IsFile
<1>3. Walked' /\ Circles' /\ Backwards' /\ NoneTwiceV1' /\ WholeV2'
  BY <1>1 DEF Walked, Circles, Backwards, NoneTwiceV1, WholeV2
<1> QED BY <1>2, <1>3 DEF ChainIInv, ChainInv

\* Nor does anything change while the walk rests.
LEMMA Unmoved == ASSUME ChainIInv, UNCHANGED chainVars PROVE ChainIInv'
<1>1. /\ pc' = pc /\ err' = err /\ file' = file /\ offset' = offset
      /\ sections' = sections /\ n' = n /\ lastSectionFound' = lastSectionFound
  BY DEF chainVars
<1>2. ChainType'
  BY <1>1 DEF ChainIInv, ChainInv, ChainType, IsFile
<1>3. Walked'
  BY <1>1 DEF ChainIInv, ChainInv, Walked, Readable, Descriptor, readSectionDescriptorV1,
     readSectionDescriptorV2, Terminal, NextOffset, StartOffset
<1>4. Circles' /\ NoneTwiceV1'
  BY <1>1 DEF ChainIInv, ChainInv, Circles, NoneTwiceV1
<1>5. Backwards'
  BY <1>1 DEF ChainIInv, ChainInv, Backwards, Terminal, Backward
<1>6. WholeV2'
  BY <1>1 DEF ChainIInv, WholeV2, Terminal, Last
<1> QED BY <1>2, <1>3, <1>4, <1>5, <1>6 DEF ChainIInv, ChainInv

LEMMA StartV1Inv == ASSUME ChainIInv, StartV1 PROVE ChainIInv'
<1>1. ChainType /\ n = 0 /\ sections = <<>> /\ ~lastSectionFound
  BY DEF ChainIInv, ChainInv, Walked, StartV1
<1>2. /\ pc' = "walk" /\ offset' = FirstOffset /\ file' = file /\ sections' = sections
      /\ n' = n /\ lastSectionFound' = lastSectionFound /\ err' = err /\ file.version = 1
  BY DEF StartV1
<1>3. IsFile(file)' /\ offset' \in (-HalfWord)..(HalfWord - 1)
  BY <1>1, <1>2, FileHere, Widths DEF IsFile
<1>3a. ChainType'
  BY <1>1, <1>2, <1>3 DEF ChainType
<1>4. Walked'
  BY <1>1, <1>2 DEF Walked, StartOffset
<1>5. Circles' /\ Backwards' /\ NoneTwiceV1' /\ WholeV2'
  BY <1>1, <1>2 DEF Circles, Backwards, NoneTwiceV1, WholeV2
<1> QED BY <1>3a, <1>4, <1>5 DEF ChainIInv, ChainInv

LEMMA StartV2Inv == ASSUME ChainIInv, StartV2 PROVE ChainIInv'
<1>1. ChainType /\ n = 0 /\ sections = <<>> /\ ~lastSectionFound
  BY DEF ChainIInv, ChainInv, Walked, StartV2
<1>2. /\ pc' = "walk" /\ offset' = file.size - DescriptorSize /\ file' = file
      /\ sections' = sections /\ n' = n /\ lastSectionFound' = lastSectionFound
      /\ err' = err /\ file.version = 2 /\ file.size >= DescriptorSize
  BY DEF StartV2
<1>3. IsFile(file)' /\ offset' \in (-HalfWord)..(HalfWord - 1)
  BY <1>1, <1>2, FileHere, Widths DEF IsFile
<1>3a. ChainType'
  BY <1>1, <1>2, <1>3 DEF ChainType
<1>4. Walked'
  BY <1>1, <1>2 DEF Walked, StartOffset
<1>5. Circles' /\ Backwards' /\ NoneTwiceV1' /\ WholeV2'
  BY <1>1, <1>2 DEF Circles, Backwards, NoneTwiceV1, WholeV2
<1> QED BY <1>3a, <1>4, <1>5 DEF ChainIInv, ChainInv

LEMMA WalkV1Inv == ASSUME ChainIInv, WalkV1 PROVE ChainIInv'
<1> DEFINE d == readSectionDescriptorV1(offset)
           step == IF Terminal(d) /\ d.Size = 0 THEN DescriptorSize ELSE 0
<1>1. ChainType /\ Walked /\ Circles
  BY DEF ChainIInv, ChainInv
<1>2. /\ pc = "walk" /\ file.version = 1 /\ n < MaxSections /\ Readable(offset)
      /\ sections' = Append(sections, d) /\ n' = n + 1 /\ file' = file /\ err' = err
      /\ lastSectionFound' = Terminal(d)
      /\ offset' = Int64(offset + d.Size + step)
      /\ pc' = IF Terminal(d) THEN "accepted" ELSE "walk"
  BY DEF WalkV1, StopV1
<1>3. offset \in Int /\ n \in Nat /\ sections \in Seq(SectionInfo)
  BY <1>1, OffsetHere, SectionsHere
<1>4. d \in SectionInfo /\ d.Offset = offset
  BY <1>1, <1>2, <1>3, DescriptorV1Type
<1>5. d.Size \in Nat /\ step \in Nat
  BY <1>4, Widths DEF SectionInfo, Word64
<1>6. offset' \in (-HalfWord)..(HalfWord - 1)
  <2>1. offset + d.Size + step \in Int
    BY <1>3, <1>5
  <2> QED BY <1>2, <2>1, Int64Type
<1>7. ChainType'
  <2>1. IsFile(file)'
    BY <1>1, <1>2, FileHere DEF IsFile
  <2>2. sections' \in Seq(SectionInfo) /\ n' \in 0..MaxSections
    BY <1>2, <1>3, <1>4, Widths
  <2>3. lastSectionFound' \in BOOLEAN
    BY <1>2 DEF Terminal
  <2> QED BY <1>1, <1>2, <1>6, <2>1, <2>2, <2>3 DEF ChainType
<1>8. /\ Len(sections) = n /\ Len(sections') = n + 1 /\ sections'[n + 1] = d
      /\ \A k \in 1..n : sections'[k] = sections[k]
  BY <1>1, <1>2, <1>3, <1>4 DEF Walked
<1>9. \A k \in 1..n :
         /\ Readable(sections[k].Offset)
         /\ sections[k] = readSectionDescriptorV1(sections[k].Offset)
         /\ ~Terminal(sections[k])
         /\ Int64(sections[k].Offset + sections[k].Size)
              = IF k = n THEN offset ELSE sections[k + 1].Offset
  BY <1>1, <1>2 DEF Walked, Descriptor, NextOffset
<1>10. \A j, k \in 1..(n + 1) :
          j < k /\ sections'[j].Offset = sections'[k].Offset
            => \E m \in 1..n : sections[m] = d
  <2> SUFFICES ASSUME NEW j \in 1..(n + 1), NEW k \in 1..(n + 1), j < k,
                      sections'[j].Offset = sections'[k].Offset
               PROVE  \E m \in 1..n : sections[m] = d
    OBVIOUS
  <2>1. \E m \in 1..n : sections[m].Offset = offset
    <3>1. CASE k = n + 1
      BY <1>3, <1>4, <1>8, <3>1
    <3>2. CASE k # n + 1
      BY <1>1, <1>2, <1>3, <1>8, <3>2 DEF Circles
    <3> QED BY <3>1, <3>2
  <2> QED BY <1>9, <2>1
<1>11. CASE Terminal(d)
  <2>1. pc' = "accepted"
    BY <1>2, <1>11
  <2>2. NoneTwiceV1'
    <3> SUFFICES ASSUME NEW j \in 1..(n + 1), NEW k \in 1..(n + 1),
                        sections'[j].Offset = sections'[k].Offset
                 PROVE  j = k
      BY <1>8 DEF NoneTwiceV1
    <3>1. ~(j < k) /\ ~(k < j)
      BY <1>9, <1>10, <1>11
    <3> QED BY <1>3, <3>1
  <2>3. Walked' /\ Circles' /\ Backwards' /\ WholeV2'
    BY <1>2, <2>1 DEF Walked, Circles, Backwards, WholeV2
  <2> QED BY <1>7, <2>2, <2>3 DEF ChainIInv, ChainInv
<1>12. CASE ~Terminal(d)
  <2>1. pc' = "walk" /\ offset' = Int64(offset + d.Size)
    BY <1>2, <1>3, <1>5, <1>12
  <2>2. Walked'
    <3>1. ASSUME NEW k \in 1..(n + 1)
          PROVE  /\ Readable(sections'[k].Offset)
                 /\ sections'[k] = readSectionDescriptorV1(sections'[k].Offset)
                 /\ ~Terminal(sections'[k])
                 /\ Int64(sections'[k].Offset + sections'[k].Size)
                      = IF k = n + 1 THEN offset' ELSE sections'[k + 1].Offset
      <4>1. CASE k = n + 1
        BY <1>2, <1>4, <1>8, <1>12, <2>1, <4>1
      <4>2. CASE k # n + 1
        BY <1>3, <1>4, <1>8, <1>9, <4>2
      <4> QED BY <4>1, <4>2
    <3>2. \A k \in 1..n' :
             /\ Readable(sections[k].Offset)'
             /\ (sections[k] = Descriptor(sections[k].Offset))'
             /\ ~Terminal(sections[k])'
             /\ NextOffset(sections[k])' = IF k = n' THEN offset' ELSE sections'[k + 1].Offset
      <4> SUFFICES ASSUME NEW k \in 1..(n + 1)
                   PROVE  /\ Readable(sections[k].Offset)'
                          /\ (sections[k] = Descriptor(sections[k].Offset))'
                          /\ ~Terminal(sections[k])'
                          /\ NextOffset(sections[k])'
                               = IF k = n + 1 THEN offset' ELSE sections'[k + 1].Offset
        BY <1>2
      <4>1. Readable(sections[k].Offset)'
        BY <1>2, <3>1 DEF Readable
      <4>2. ~Terminal(sections[k])'
        BY <3>1 DEF Terminal
      <4>3. sections'[k] = Descriptor(sections'[k].Offset)
        BY <1>2, <3>1 DEF Descriptor
      <4>3a. (sections[k] = Descriptor(sections[k].Offset))'
        BY <1>2, <4>3, DescriptorStays
      <4>4. NextOffset(sections[k])' = IF k = n + 1 THEN offset' ELSE sections'[k + 1].Offset
        BY <1>2, <3>1 DEF NextOffset
      <4> QED BY <4>1, <4>2, <4>3a, <4>4
    <3>3. StartOffset' = IF n' = 0 THEN offset' ELSE sections'[1].Offset
      BY <1>1, <1>2, <1>3, <1>4, <1>8 DEF Walked, StartOffset
    <3> QED BY <1>2, <1>8, <2>1, <3>2, <3>3 DEF Walked
  <2>3. Circles'
    <3> SUFFICES ASSUME NEW m \in 1..n, sections[m] = d
                 PROVE  \E i \in 1..(n + 1) : sections'[i].Offset = offset'
      BY <1>2, <1>8, <1>10 DEF Circles
    <3>1. offset' = IF m = n THEN offset ELSE sections[m + 1].Offset
      BY <1>4, <1>9, <2>1
    <3> QED BY <1>3, <1>4, <1>8, <3>1
  <2>4. Backwards' /\ NoneTwiceV1' /\ WholeV2'
    BY <1>2, <2>1 DEF Backwards, NoneTwiceV1, WholeV2
  <2> QED BY <1>7, <2>2, <2>3, <2>4 DEF ChainIInv, ChainInv
<1> QED BY <1>11, <1>12

LEMMA WalkV2Inv == ASSUME ChainIInv, WalkV2 PROVE ChainIInv'
<1> DEFINE d == readSectionDescriptorV2(offset)
<1>1. ChainType /\ Walked /\ Backwards
  BY DEF ChainIInv, ChainInv
<1>2. /\ pc = "walk" /\ file.version = 2 /\ n < MaxSections /\ Readable(offset)
      /\ Backward(offset) /\ sections' = Append(sections, d) /\ n' = n + 1 /\ file' = file
      /\ err' = err /\ pc' = pc
      /\ lastSectionFound' = foundV2(d) /\ offset' = Int64(offset - d.Size)
  BY DEF WalkV2, MoreV2
<1>3. offset \in Int /\ n \in Nat /\ sections \in Seq(SectionInfo)
  BY <1>1, OffsetHere, SectionsHere
<1>4. d \in SectionInfo /\ d.Offset = offset
  BY <1>1, <1>2, <1>3, DescriptorV2Type
<1>5. d.Size \in Nat
  BY <1>4, Widths DEF SectionInfo, Word64
<1>6. offset' \in (-HalfWord)..(HalfWord - 1)
  <2>1. offset - d.Size \in Int
    BY <1>3, <1>5
  <2> QED BY <1>2, <2>1, Int64Type
<1>7. /\ offset' <= offset
      /\ offset' <= 0 => file.raw[offset].PreviousOffset = 0
  BY <1>1, <1>2, <1>3, LinkV2
<1>8. /\ Len(sections) = n /\ Len(sections') = n + 1 /\ sections'[n + 1] = d
      /\ \A k \in 1..n : sections'[k] = sections[k]
  BY <1>1, <1>2, <1>3, <1>4 DEF Walked
<1>9. foundV2(d) <=> Terminal(sections'[1])
  <2>1. CASE n = 0
    BY <1>3, <1>8, <2>1 DEF foundV2
  <2>2. CASE n # 0
    BY <1>1, <1>2, <1>3, <1>8, <2>2 DEF foundV2, Backwards
  <2> QED BY <2>1, <2>2
<1>10. ChainType'
  <2>1. IsFile(file)'
    BY <1>1, <1>2, FileHere DEF IsFile
  <2>2. sections' \in Seq(SectionInfo) /\ n' \in 0..MaxSections
    BY <1>2, <1>3, <1>4, Widths
  <2>3. lastSectionFound' \in BOOLEAN
    <3>1. lastSectionFound \in BOOLEAN
      BY <1>1 DEF ChainType
    <3>2. Terminal(d) \in BOOLEAN
      BY TerminalBoolean
    <3> QED BY <1>2, <3>1, <3>2, Zenon DEF foundV2
  <2> QED BY <1>1, <1>2, <1>6, <2>1, <2>2, <2>3 DEF ChainType
<1>11. ASSUME NEW k \in 1..(n + 1)
       PROVE  /\ Readable(sections'[k].Offset)
              /\ Backward(sections'[k].Offset)
              /\ sections'[k] = Descriptor(sections'[k].Offset)
              /\ Int64(sections'[k].Offset - sections'[k].Size)
                   = IF k = n + 1 THEN offset' ELSE sections'[k + 1].Offset
              /\ sections'[k].Offset >= IF k = n + 1 THEN offset' ELSE sections'[k + 1].Offset
  <2>1. CASE k = n + 1
    BY <1>2, <1>4, <1>7, <1>8, <2>1 DEF Descriptor
  <2>2. CASE k # n + 1
    <3>1. k \in 1..n /\ sections'[k] = sections[k]
      BY <1>3, <1>8, <2>2
    <3>2. sections'[k + 1].Offset = IF k = n THEN offset ELSE sections[k + 1].Offset
      BY <1>3, <1>4, <1>8, <3>1
    <3> QED BY <1>1, <1>2, <2>2, <3>1, <3>2 DEF Walked, Backwards, NextOffset
  <2> QED BY <2>1, <2>2
<1>12. Walked'
  <2>1. ASSUME NEW k \in 1..(n + 1)
        PROVE  /\ Readable(sections[k].Offset)'
               /\ (sections[k] = Descriptor(sections[k].Offset))'
               /\ NextOffset(sections[k])'
                    = IF k = n + 1 THEN offset' ELSE sections'[k + 1].Offset
    <3>1. Readable(sections[k].Offset)'
      BY <1>2, <1>11 DEF Readable
    <3>2. (sections[k] = Descriptor(sections[k].Offset))'
      BY <1>2, <1>11, DescriptorStays
    <3>3. NextOffset(sections[k])' = IF k = n + 1 THEN offset' ELSE sections'[k + 1].Offset
      <4>1. NextOffset(sections[k])' = Int64(sections'[k].Offset - sections'[k].Size)
        BY <1>2, NextOffsetV2
      <4> QED BY <1>11, <4>1
    <3> QED BY <3>1, <3>2, <3>3
  <2>2. StartOffset' = IF n' = 0 THEN offset' ELSE sections'[1].Offset
    BY <1>1, <1>2, <1>3, <1>4, <1>8 DEF Walked, StartOffset
  <2> QED BY <1>2, <1>8, <2>1, <2>2 DEF Walked
<1>13. Backwards'
  <2>1. (n > 0 /\ Terminal(sections[1]))' <=> Terminal(sections'[1])
    BY <1>2, <1>3 DEF Terminal
  <2>2. lastSectionFound' <=> (n > 0 /\ Terminal(sections[1]))'
    BY <1>2, <1>9, <2>1
  <2>3. \A k \in 1..(n + 1) :
           /\ sections'[k].Offset >= IF k = n + 1 THEN offset' ELSE sections'[k + 1].Offset
           /\ Backward(sections[k].Offset)'
    BY <1>2, <1>11 DEF Backward
  <2>4. (n > 0 /\ offset <= 0 => file.raw[sections[n].Offset].PreviousOffset = 0)'
    BY <1>2, <1>4, <1>7, <1>8
  <2> QED BY <1>2, <2>2, <2>3, <2>4 DEF Backwards
<1>14. Circles' /\ NoneTwiceV1' /\ WholeV2'
  BY <1>2 DEF Circles, NoneTwiceV1, WholeV2
<1> QED BY <1>10, <1>12, <1>13, <1>14 DEF ChainIInv, ChainInv

\* The walk's sections, the last one first.
LEMMA FinishV2Inv == ASSUME ChainIInv, FinishV2 PROVE ChainIInv'
<1>1. ChainType /\ Walked /\ Backwards
  BY DEF ChainIInv, ChainInv
<1>2. /\ pc = "walk" /\ file.version = 2 /\ ~MoreV2 /\ lastSectionFound
      /\ sections' = Reverse(sections) /\ pc' = "accepted" /\ file' = file
      /\ offset' = offset /\ n' = n /\ lastSectionFound' = lastSectionFound /\ err' = err
  BY DEF FinishV2
<1>3. offset \in Int /\ n \in Nat /\ sections \in Seq(SectionInfo) /\ Len(sections) = n
  BY <1>1, <1>2, OffsetHere, SectionsHere DEF Walked
<1>4. /\ sections' \in Seq(SectionInfo) /\ Len(sections') = n
      /\ \A k \in 1..n : sections'[k] = sections[(n - k) + 1]
  <2>1. sections' = [k \in 1..n |-> sections[(n - k) + 1]]
    BY <1>2, <1>3 DEF Reverse
  <2>2. \A k \in 1..n : sections[(n - k) + 1] \in SectionInfo
    BY <1>3
  <2> QED BY <1>3, <2>1, <2>2
<1>5. n > 0 /\ Terminal(sections[1]) /\ sections[1].Offset = file.size - DescriptorSize
  BY <1>1, <1>2, <1>3 DEF Walked, Backwards, StartOffset
<1>6. \A k \in 1..n : Readable(sections[k].Offset)
                      /\ sections[k].Offset >= IF k = n THEN offset ELSE sections[k + 1].Offset
  BY <1>1, <1>2 DEF Walked, Backwards
<1>7. n < MaxSections => file.raw[sections[n].Offset].PreviousOffset = 0
  <2> SUFFICES ASSUME n < MaxSections PROVE offset <= 0
    BY <1>1, <1>2, <1>5 DEF Backwards
  <2>1. sections[n].Offset < file.size /\ sections[n].Offset \in Int /\ file.size \in Int
    <3>1. sections[n].Offset \in Int
      <4>1. sections[n] \in SectionInfo
        BY <1>3, <1>5
      <4> QED BY <4>1 DEF SectionInfo
    <3>2. file.size \in Nat
      BY <1>1, FileHere DEF IsFile
    <3> QED BY <1>3, <1>5, <1>6, <3>1, <3>2, Widths DEF Readable
  <2>2. offset < file.size
    <3>1. sections[n].Offset >= offset
      BY <1>3, <1>5, <1>6
    <3> QED BY <1>3, <2>1, <3>1
  <2> QED BY <1>2, <1>3, <2>1, <2>2 DEF MoreV2
<1>8. ChainType'
  <2>1. IsFile(file)'
    BY <1>1, <1>2, FileHere DEF IsFile
  <2> QED BY <1>1, <1>2, <1>4, <2>1 DEF ChainType
<1>9. WholeV2'
  <2>1. /\ sections' # <<>> /\ Last(sections') = sections[1]
        /\ sections'[1] = sections[n]
    BY <1>3, <1>4, <1>5 DEF Last
  <2>2. \A k \in 1..(n - 1) : sections'[k].Offset <= sections'[k + 1].Offset
    <3> SUFFICES ASSUME NEW k \in 1..(n - 1)
                 PROVE  sections[(n - k) + 1].Offset <= sections[n - k].Offset
      BY <1>3, <1>4
    <3>1. sections[(n - k) + 1].Offset \in Int /\ sections[n - k].Offset \in Int
      <4>1. sections[(n - k) + 1] \in SectionInfo /\ sections[n - k] \in SectionInfo
        BY <1>3
      <4> QED BY <4>1 DEF SectionInfo
    <3> QED BY <1>3, <1>6, <3>1
  <2>3. Terminal(Last(sections))' <=> Terminal(Last(sections'))
    BY DEF Terminal, Last
  <2> QED BY <1>2, <1>4, <1>5, <1>7, <2>1, <2>2, <2>3 DEF WholeV2, Last
<1>10. Walked' /\ Circles' /\ Backwards' /\ NoneTwiceV1'
  BY <1>2 DEF Walked, Circles, Backwards, NoneTwiceV1
<1> QED BY <1>8, <1>9, <1>10 DEF ChainIInv, ChainInv

LEMMA ChainInitInv == ASSUME ChainInit PROVE ChainIInv
<1>1. IsFile(file)
  BY ChainAssumption DEF ChainInit
<1>2. /\ pc = "start" /\ offset = 0 /\ sections = <<>> /\ n = 0 /\ lastSectionFound = FALSE
      /\ err = "nil"
  BY DEF ChainInit
<1>3. ChainType
  <2>1. offset \in (-HalfWord)..(HalfWord - 1) /\ n \in 0..MaxSections
    BY <1>2, Widths
  <2>2. sections \in Seq(SectionInfo)
    BY <1>2
  <2> QED BY <1>1, <1>2, <2>1, <2>2 DEF ChainType
<1>4. Walked /\ Circles /\ Backwards /\ NoneTwiceV1 /\ WholeV2
  BY <1>2 DEF Walked, Circles, Backwards, NoneTwiceV1, WholeV2
<1> QED BY <1>3, <1>4 DEF ChainIInv, ChainInv

LEMMA ChainStep == ASSUME ChainIInv, [ChainNext]_chainVars PROVE ChainIInv'
<1>1. CASE UnsupportedVersion \/ UnreadableV1 \/ ExhaustedV1 \/ NoStartV2 \/ UnreadableV2
           \/ NotFoundV2
  BY <1>1, FailInv DEF UnsupportedVersion, UnreadableV1, ExhaustedV1, NoStartV2,
     UnreadableV2, NotFoundV2
<1>2. CASE StartV1 \/ StartV2
  BY <1>2, StartV1Inv, StartV2Inv
<1>3. CASE WalkV1 \/ WalkV2 \/ FinishV2
  BY <1>3, WalkV1Inv, WalkV2Inv, FinishV2Inv
<1>4. CASE UNCHANGED chainVars
  BY <1>4, Unmoved
<1> QED BY <1>1, <1>2, <1>3, <1>4 DEF ChainNext

\* The walk's invariant, for every file (parseSectionsV1 and parseSectionsV2): it
\* has come where it stands by the links alone.
THEOREM WalkFollowsLinks == ChainSpec => []ChainInv
<1>1. ChainIInv => ChainInv
  BY DEF ChainIInv
<1> QED BY <1>1, ChainInitInv, ChainStep, PTL DEF ChainSpec

\* A v1 chain that parseSectionsV1 accepts has no circle, for every file and bound.
THEOREM NoCircleAccepted == ChainSpec => []NoneTwiceV1
<1>1. ChainIInv => NoneTwiceV1
  BY DEF ChainIInv
<1> QED BY <1>1, ChainInitInv, ChainStep, PTL DEF ChainSpec

\* A v2 chain that parseSectionsV2 accepts is in file order, ends the file and
\* starts behind the header unless it has run to the bound.
THEOREM AcceptedIsWhole == ChainSpec => []WholeV2
<1>1. ChainIInv => WholeV2
  BY DEF ChainIInv
<1> QED BY <1>1, ChainInitInv, ChainStep, PTL DEF ChainSpec

-----------------------------------------------------------------------------
(* The parse around the walk *)

\* parseSegment reads the descriptors once: before, beside and after the walk it
\* leaves them as they are.
THEOREM ParseWalksOnce == Spec => ChainSpec
<1>1. Init => ChainInit
  BY DEF Init
<1>2. [Next]_vars => [ChainNext]_chainVars
  BY DEF Next, vars, chainVars, ReadHeader, RefuseHeader, WalkSections, Consume, SkipBody,
     PassBody, TakeDeviceInformation, TakeCaseData, TakeDigest, TakeSessions, TakeErrors,
     TakeXHash, TakeHeader, NoAcquisition, ResolveAcquisition, ApplyHeaderValue,
     ApplyHeaderDates
<1> QED BY <1>1, <1>2, PTL DEF Spec, ChainSpec

-----------------------------------------------------------------------------
(* The lists *)

First(k, S) == k \in S /\ \A j \in S : k <= j

\* The list is empty as long as no section of its type was met, and then that of
\* the first one.
SessionsFirst ==
    IF Met("session_table") = {} THEN info.Sessions = <<>>
    ELSE \E k \in Nat : First(k, Met("session_table")) /\ info.Sessions = SessionsOf(k)

ErrorsFirst ==
    IF Met("error_table") = {} THEN info.AcquisitionErrors = <<>>
    ELSE \E k \in Nat : First(k, Met("error_table")) /\ info.AcquisitionErrors = ErrorsOf(k)

ListsInv ==
    /\ at \in Nat \ {0}
    /\ DOMAIN info = DOMAIN NoInfo
    /\ phase \in {"signature", "sections"} => at = 1
    /\ phase \in {"values", "parsed"} => at > Len(sections)
    /\ sessionParsed <=> Met("session_table") # {}
    /\ errorsParsed <=> Met("error_table") # {}
    /\ SessionsFirst
    /\ ErrorsFirst

LEMMA MinFirst == ASSUME NEW S \in SUBSET Nat, NEW k \in Nat, First(k, S) PROVE Min(S) = k
<1>1. \E x \in S : \A y \in S : x <= y
  BY DEF First
<1>2. Min(S) \in S /\ \A y \in S : Min(S) <= y
  BY <1>1, Zenon DEF Min
<1>3. Min(S) \in Nat /\ Min(S) <= k /\ k <= Min(S)
  BY <1>2 DEF First
<1> QED BY <1>3

\* What a section that is no list does to the metadata.
SameLists(i, j) ==
    /\ DOMAIN j = DOMAIN NoInfo
    /\ j.Sessions = i.Sessions
    /\ j.AcquisitionErrors = i.AcquisitionErrors

LEMMA VolumeSameLists ==
    ASSUME NEW i, DOMAIN i = DOMAIN NoInfo, NEW data
    PROVE  SameLists(i, parseVolumeSection(data, i))
  BY DEF SameLists, NoInfo, parseVolumeSection

LEMMA DigestSameLists ==
    ASSUME NEW i, DOMAIN i = DOMAIN NoInfo, NEW data, NEW version
    PROVE  /\ SameLists(i, parseMD5LikeSection(version, data, i))
           /\ SameLists(i, parseSHA1Section(data, i))
           /\ SameLists(i, parseXHashSection(data, i))
  BY DEF SameLists, NoInfo, parseMD5LikeSection, parseSHA1Section, parseXHashSection

LEMMA TextsSameLists ==
    ASSUME NEW i, DOMAIN i = DOMAIN NoInfo, NEW values
    PROVE  /\ SameLists(i, parseDeviceInformationV2(values, i))
           /\ SameLists(i, parseCaseDataV2(values, i))
  BY DEF SameLists, NoInfo, parseDeviceInformationV2, parseCaseDataV2

\* A step that leaves file, sections and place alone leaves what was met alone.
LEMMA MetStays ==
    ASSUME file' = file, sections' = sections, at' = at, NEW type
    PROVE  /\ Met(type)' = Met(type)
           /\ \A k : SessionsOf(k)' = SessionsOf(k) /\ ErrorsOf(k)' = ErrorsOf(k)
<1>1. Met(type)' = Met(type)
  BY DEF Met, Bodies, HasBody
<1>2. \A k : SessionsOf(k)' = SessionsOf(k) /\ ErrorsOf(k)' = ErrorsOf(k)
  BY DEF SessionsOf, ErrorsOf, Body
<1> QED BY <1>1, <1>2

\* Behind the section at hand, that one is met too if it has a body of the type.
LEMMA MetNext ==
    ASSUME file' = file, sections' = sections, sections \in Seq(SectionInfo), at' = at + 1,
           at \in Nat \ {0}, at <= Len(sections), NEW type
    PROVE  /\ Met(type)' = Met(type) \cup (IF HasBody(section) /\ section.Type = type
                                           THEN {at} ELSE {})
           /\ \A k : SessionsOf(k)' = SessionsOf(k) /\ ErrorsOf(k)' = ErrorsOf(k)
<1>1. Met(type)' = {k \in 1..Len(sections) :
                       HasBody(sections[k]) /\ sections[k].Type = type /\ k < at + 1}
  BY DEF Met, Bodies, HasBody
<1>2. Met(type) = {k \in 1..Len(sections) :
                      HasBody(sections[k]) /\ sections[k].Type = type /\ k < at}
  BY DEF Met, Bodies
<1>3. Len(sections) \in Nat
  OBVIOUS
<1>4. Met(type)' = Met(type) \cup (IF HasBody(section) /\ section.Type = type
                                   THEN {at} ELSE {})
  BY <1>1, <1>2, <1>3 DEF section
<1>5. \A k : SessionsOf(k)' = SessionsOf(k) /\ ErrorsOf(k)' = ErrorsOf(k)
  BY DEF SessionsOf, ErrorsOf, Body
<1> QED BY <1>4, <1>5

\* A step that stays at its section and leaves both lists alone.
LEMMA ListsStay ==
    ASSUME ListsInv, file' = file, sections' = sections, at' = at, SameLists(info, info'),
           sessionParsed' = sessionParsed, errorsParsed' = errorsParsed,
           phase' \in {"signature", "sections"} => at = 1,
           phase' \in {"values", "parsed"} => at > Len(sections)
    PROVE  ListsInv'
<1>1. /\ Met("session_table")' = Met("session_table")
      /\ Met("error_table")' = Met("error_table")
      /\ \A k : SessionsOf(k)' = SessionsOf(k) /\ ErrorsOf(k)' = ErrorsOf(k)
  BY MetStays
<1>2. SessionsFirst'
  BY <1>1 DEF ListsInv, SessionsFirst, SameLists
<1>3. ErrorsFirst'
  BY <1>1 DEF ListsInv, ErrorsFirst, SameLists
<1> QED BY <1>1, <1>2, <1>3 DEF ListsInv, SameLists

\* A step past a section that is no list.
LEMMA ListsPass ==
    ASSUME ListsInv, sections \in Seq(SectionInfo), file' = file, sections' = sections,
           phase = "bodies", phase' = phase, at <= Len(sections), at' = at + 1,
           SameLists(info, info'), sessionParsed' = sessionParsed,
           errorsParsed' = errorsParsed,
           HasBody(section) => section.Type \notin {"session_table", "error_table"}
    PROVE  ListsInv'
<1>1. at \in Nat \ {0}
  BY DEF ListsInv
<1>2. /\ Met("session_table")' = Met("session_table")
      /\ Met("error_table")' = Met("error_table")
      /\ \A k : SessionsOf(k)' = SessionsOf(k) /\ ErrorsOf(k)' = ErrorsOf(k)
  BY <1>1, MetNext
<1>3. SessionsFirst'
  BY <1>2 DEF ListsInv, SessionsFirst, SameLists
<1>4. ErrorsFirst'
  BY <1>2 DEF ListsInv, ErrorsFirst, SameLists
<1> QED BY <1>1, <1>2, <1>3, <1>4 DEF ListsInv, SameLists

\* What is met later does not come first.
LEMMA FirstStays ==
    ASSUME NEW k \in Nat, NEW type, First(k, Met(type)), at \in Nat
    PROVE  First(k, Met(type) \cup {at})
<1>1. k < at
  BY DEF First, Met
<1> QED BY <1>1 DEF First

LEMMA FirstOne == ASSUME NEW k \in Nat PROVE First(k, {} \cup {k})
  BY DEF First

LEMMA SessionOnce ==
    ASSUME ListsInv, sections \in Seq(SectionInfo), TakeSessions
    PROVE  ListsInv'
<1>1. /\ phase = "bodies" /\ phase' = phase /\ at' = at + 1 /\ at <= Len(sections)
      /\ file' = file /\ sections' = sections /\ HasBody(section)
      /\ section.Type = "session_table" /\ sessionParsed' = TRUE
      /\ errorsParsed' = errorsParsed
      /\ info' = IF sessionParsed THEN info
                 ELSE parseSessionSection(file.version, Body(section), info)
  BY DEF TakeSessions, AtBody, Consume, chainVars
<1>2. at \in Nat \ {0} /\ DOMAIN info = DOMAIN NoInfo
  BY DEF ListsInv
<1>3. /\ Met("session_table")' = Met("session_table") \cup {at}
      /\ Met("error_table")' = Met("error_table")
      /\ \A k : SessionsOf(k)' = SessionsOf(k) /\ ErrorsOf(k)' = ErrorsOf(k)
  BY <1>1, <1>2, MetNext
<1>4. DOMAIN info' = DOMAIN NoInfo /\ info'.AcquisitionErrors = info.AcquisitionErrors
  BY <1>1, <1>2 DEF parseSessionSection, NoInfo
<1>5. SessionsFirst'
  <2>1. CASE sessionParsed
    <3>1. PICK k \in Nat : First(k, Met("session_table")) /\ info.Sessions = SessionsOf(k)
      BY <2>1 DEF ListsInv, SessionsFirst
    <3>2. First(k, Met("session_table") \cup {at})
      BY <3>1, <1>2, FirstStays
    <3>3. info' = info
      BY <2>1, <1>1
    <3> QED BY <3>1, <3>2, <3>3, <1>3 DEF SessionsFirst
  <2>2. CASE ~sessionParsed
    <3>1. Met("session_table") = {} /\ info.Sessions = <<>>
      BY <2>2 DEF ListsInv, SessionsFirst
    <3>2. info'.Sessions = SessionsOf(at)
      BY <2>2, <1>1, <1>2, <3>1 DEF SessionsOf, parseSessionSection, NoInfo, section
    <3>3. First(at, Met("session_table") \cup {at})
      BY <3>1, <1>2, FirstOne
    <3> QED BY <3>2, <3>3, <1>2, <1>3 DEF SessionsFirst
  <2> QED BY <2>1, <2>2
<1>6. ErrorsFirst'
  BY <1>3, <1>4 DEF ListsInv, ErrorsFirst
<1>7. sessionParsed' <=> Met("session_table")' # {}
  BY <1>1, <1>3
<1>8. errorsParsed' <=> Met("error_table")' # {}
  BY <1>1, <1>3 DEF ListsInv
<1>9. phase' = "bodies" /\ at' \in Nat \ {0}
  BY <1>1, <1>2
<1> QED BY <1>4, <1>5, <1>6, <1>7, <1>8, <1>9 DEF ListsInv

LEMMA ErrorsOnce ==
    ASSUME ListsInv, sections \in Seq(SectionInfo), TakeErrors
    PROVE  ListsInv'
<1>1. /\ phase = "bodies" /\ phase' = phase /\ at' = at + 1 /\ at <= Len(sections)
      /\ file' = file /\ sections' = sections /\ HasBody(section)
      /\ section.Type = "error_table" /\ errorsParsed' = TRUE
      /\ sessionParsed' = sessionParsed
      /\ info' = IF errorsParsed THEN info
                 ELSE parseErrorSection(file.version, Body(section), info)
  BY DEF TakeErrors, AtBody, Consume, chainVars
<1>2. at \in Nat \ {0} /\ DOMAIN info = DOMAIN NoInfo
  BY DEF ListsInv
<1>3. /\ Met("error_table")' = Met("error_table") \cup {at}
      /\ Met("session_table")' = Met("session_table")
      /\ \A k : SessionsOf(k)' = SessionsOf(k) /\ ErrorsOf(k)' = ErrorsOf(k)
  BY <1>1, <1>2, MetNext
<1>4. DOMAIN info' = DOMAIN NoInfo /\ info'.Sessions = info.Sessions
  BY <1>1, <1>2 DEF parseErrorSection, NoInfo
<1>5. ErrorsFirst'
  <2>1. CASE errorsParsed
    <3>1. PICK k \in Nat : First(k, Met("error_table")) /\ info.AcquisitionErrors = ErrorsOf(k)
      BY <2>1 DEF ListsInv, ErrorsFirst
    <3>2. First(k, Met("error_table") \cup {at})
      BY <3>1, <1>2, FirstStays
    <3>3. info' = info
      BY <2>1, <1>1
    <3> QED BY <3>1, <3>2, <3>3, <1>3 DEF ErrorsFirst
  <2>2. CASE ~errorsParsed
    <3>1. Met("error_table") = {} /\ info.AcquisitionErrors = <<>>
      BY <2>2 DEF ListsInv, ErrorsFirst
    <3>2. info'.AcquisitionErrors = ErrorsOf(at)
      BY <2>2, <1>1, <1>2, <3>1 DEF ErrorsOf, parseErrorSection, NoInfo, section
    <3>3. First(at, Met("error_table") \cup {at})
      BY <3>1, <1>2, FirstOne
    <3> QED BY <3>2, <3>3, <1>2, <1>3 DEF ErrorsFirst
  <2> QED BY <2>1, <2>2
<1>6. SessionsFirst'
  BY <1>3, <1>4 DEF ListsInv, SessionsFirst
<1>7. errorsParsed' <=> Met("error_table")' # {}
  BY <1>1, <1>3
<1>8. sessionParsed' <=> Met("session_table")' # {}
  BY <1>1, <1>3 DEF ListsInv
<1>9. phase' = "bodies" /\ at' \in Nat \ {0}
  BY <1>1, <1>2
<1> QED BY <1>4, <1>5, <1>6, <1>7, <1>8, <1>9 DEF ListsInv

\* The walk: nothing is met before it has ended.
LEMMA WalkLists == ASSUME ListsInv, WalkSections PROVE ListsInv'
<1>1. /\ phase = "sections" /\ phase' \in {"bodies", "failed", "sections"}
      /\ at' = at /\ info' = info /\ sessionParsed' = sessionParsed
      /\ errorsParsed' = errorsParsed /\ at = 1
  BY DEF WalkSections, ListsInv
<1>2. \A type : Met(type) = {} /\ Met(type)' = {}
  BY <1>1 DEF Met, Bodies
<1>3. SessionsFirst' /\ ErrorsFirst'
  BY <1>1, <1>2 DEF ListsInv, SessionsFirst, ErrorsFirst
<1> QED BY <1>1, <1>2, <1>3 DEF ListsInv

LEMMA BodyLists ==
    ASSUME ListsInv, sections \in Seq(SectionInfo),
           \/ SkipBody \/ PassBody \/ TakeDeviceInformation \/ TakeCaseData
           \/ TakeDigest \/ TakeXHash \/ TakeHeader
    PROVE  ListsInv'
<1>1. /\ file' = file /\ sections' = sections /\ phase = "bodies" /\ phase' = phase
      /\ at <= Len(sections) /\ at' = at + 1
      /\ sessionParsed' = sessionParsed /\ errorsParsed' = errorsParsed
  BY DEF SkipBody, PassBody, TakeDeviceInformation, TakeCaseData, TakeDigest, TakeXHash,
     TakeHeader, AtBody, Consume, chainVars
<1>2. HasBody(section) => section.Type \notin {"session_table", "error_table"}
  BY DEF SkipBody, PassBody, TakeDeviceInformation, TakeCaseData, TakeDigest, TakeXHash,
     TakeHeader, AtBody
<1>3. DOMAIN info = DOMAIN NoInfo
  BY DEF ListsInv
<1>4. SameLists(info, info)
  BY <1>3 DEF SameLists
<1>5. SameLists(info, info')
  <2>1. CASE SkipBody \/ PassBody \/ TakeHeader
    BY <2>1, <1>4 DEF SkipBody, PassBody, TakeHeader, Consume
  <2>2. CASE TakeDeviceInformation
    BY <2>2, <1>3, VolumeSameLists, TextsSameLists DEF TakeDeviceInformation, Consume
  <2>3. CASE TakeCaseData
    BY <2>3, <1>3, TextsSameLists DEF TakeCaseData, Consume
  <2>4. CASE TakeDigest
    BY <2>4, <1>3, DigestSameLists DEF TakeDigest, Consume
  <2>5. CASE TakeXHash
    BY <2>5, <1>3, DigestSameLists DEF TakeXHash, Consume
  <2> QED BY <2>1, <2>2, <2>3, <2>4, <2>5
<1> QED BY <1>1, <1>2, <1>5, ListsPass

LEMMA OtherLists ==
    ASSUME ListsInv,
           \/ ReadHeader \/ RefuseHeader \/ NoAcquisition \/ ResolveAcquisition
           \/ ApplyHeaderValue \/ ApplyHeaderDates
    PROVE  ListsInv'
<1>1. /\ file' = file /\ sections' = sections /\ at' = at
      /\ sessionParsed' = sessionParsed /\ errorsParsed' = errorsParsed
  BY DEF ReadHeader, RefuseHeader, NoAcquisition, ResolveAcquisition, ApplyHeaderValue,
     ApplyHeaderDates, chainVars
<1>2. /\ phase' \in {"signature", "sections"} => at = 1
      /\ phase' \in {"values", "parsed"} => at > Len(sections)
  BY DEF ReadHeader, RefuseHeader, NoAcquisition, ResolveAcquisition, ApplyHeaderValue,
     ApplyHeaderDates, ListsInv
<1>3. DOMAIN info = DOMAIN NoInfo
  BY DEF ListsInv
<1>4. SameLists(info, info')
  <2>1. CASE ReadHeader \/ RefuseHeader \/ NoAcquisition
    BY <2>1, <1>3 DEF ReadHeader, RefuseHeader, NoAcquisition, SameLists
  <2>2. CASE ResolveAcquisition
    BY <2>2, <1>3 DEF ResolveAcquisition, SameLists, NoInfo
  <2>3. CASE ApplyHeaderValue
    BY <2>3, <1>3 DEF ApplyHeaderValue, SameLists, NoInfo
  <2>4. CASE ApplyHeaderDates
    BY <2>4, <1>3 DEF ApplyHeaderDates, SameLists, NoInfo
  <2> QED BY <2>1, <2>2, <2>3, <2>4
<1> QED BY <1>1, <1>2, <1>4, ListsStay

LEMMA ListsInit == Init => ListsInv
<1> SUFFICES ASSUME Init PROVE ListsInv
  OBVIOUS
<1>1. at = 1 /\ info = NoInfo /\ phase = "signature" /\ ~sessionParsed /\ ~errorsParsed
  BY DEF Init
<1>2. \A type : Met(type) = {}
  BY <1>1 DEF Met, Bodies
<1>3. SessionsFirst /\ ErrorsFirst
  BY <1>1, <1>2 DEF SessionsFirst, ErrorsFirst, NoInfo
<1> QED BY <1>1, <1>2, <1>3 DEF ListsInv

LEMMA ListsStep ==
    ASSUME ListsInv, sections \in Seq(SectionInfo), [Next]_vars
    PROVE  ListsInv'
<1>1. CASE UNCHANGED vars
  <2>1. SameLists(info, info')
    BY <1>1 DEF vars, parseVars, SameLists, ListsInv
  <2>2. /\ file' = file /\ sections' = sections /\ at' = at /\ phase' = phase
        /\ sessionParsed' = sessionParsed /\ errorsParsed' = errorsParsed
    BY <1>1 DEF vars, parseVars
  <2>3. /\ phase' \in {"signature", "sections"} => at = 1
        /\ phase' \in {"values", "parsed"} => at > Len(sections)
    BY <2>2 DEF ListsInv
  <2> QED BY <2>1, <2>2, <2>3, ListsStay
<1> QED BY <1>1, WalkLists, BodyLists, OtherLists, SessionOnce, ErrorsOnce DEF Next

LEMMA ListsGiven == ListsInv => ListsOnce
<1> SUFFICES ASSUME ListsInv PROVE ListsOnce
  OBVIOUS
<1>1. \A type : Met(type) \in SUBSET Nat
  BY DEF Met, Bodies
<1>2. info.Sessions = IF Met("session_table") = {} THEN <<>>
                      ELSE SessionsOf(Min(Met("session_table")))
  BY <1>1, MinFirst DEF ListsInv, SessionsFirst
<1>3. info.AcquisitionErrors = IF Met("error_table") = {} THEN <<>>
                               ELSE ErrorsOf(Min(Met("error_table")))
  BY <1>1, MinFirst DEF ListsInv, ErrorsFirst
<1> QED BY <1>2, <1>3 DEF ListsInv, ListsOnce, Parsed

\* populateMetadataFromSectionBodies reads each list from the first copy alone, for
\* every file the walk accepts: "sessionParsed" and "errorsParsed" tell exactly
\* whether a copy was met.
THEOREM ListsReadOnce == Spec => []ListsOnce
<1>1. ChainInv => sections \in Seq(SectionInfo)
  BY DEF ChainInv, ChainType
<1>2. ListsInv /\ ChainInv /\ [Next]_vars => ListsInv'
  BY <1>1, ListsStep
<1> QED BY <1>2, ListsInit, ListsGiven, ParseWalksOnce, WalkFollowsLinks, PTL DEF Spec

-----------------------------------------------------------------------------
(* The names of the sections *)

\* A v1 section has a type that mapV1TypeString gives, a v2 section no other name
\* than its type.
NamesInv ==
    \A k \in 1..Len(sections) :
        /\ file.version = 1 => sections[k].Type \in SectionTypes
        /\ file.version = 2 => sections[k].TypeString = sections[k].Type

LEMMA AppendNames ==
    ASSUME NamesInv, sections \in Seq(SectionInfo), file' = file, NEW d,
           sections' = Append(sections, d),
           file.version = 1 => d.Type \in SectionTypes,
           file.version = 2 => d.TypeString = d.Type
    PROVE  NamesInv'
<1>1. Len(sections) \in Nat /\ Len(sections') = Len(sections) + 1
  OBVIOUS
<1>2. ASSUME NEW k \in 1..Len(sections')
      PROVE  sections'[k] = IF k <= Len(sections) THEN sections[k] ELSE d
  BY <1>1
<1>3. \A k \in 1..Len(sections') : k <= Len(sections) => k \in 1..Len(sections)
  BY <1>1
<1> QED BY <1>2, <1>3 DEF NamesInv

LEMMA NamesStep ==
    ASSUME NamesInv, ChainInv, [ChainNext]_chainVars PROVE NamesInv'
<1>0. sections \in Seq(SectionInfo)
  BY DEF ChainInv, ChainType
<1>1. CASE WalkV1
  <2>1. /\ file' = file /\ file.version = 1
        /\ sections' = Append(sections, readSectionDescriptorV1(offset))
    BY <1>1 DEF WalkV1
  <2>2. readSectionDescriptorV1(offset).Type \in SectionTypes
    BY MapV1Type DEF readSectionDescriptorV1
  <2> QED BY <1>0, <2>1, <2>2, AppendNames
<1>2. CASE WalkV2
  <2>1. /\ file' = file /\ file.version = 2
        /\ sections' = Append(sections, readSectionDescriptorV2(offset))
    BY <1>2 DEF WalkV2
  <2>2. readSectionDescriptorV2(offset).TypeString = readSectionDescriptorV2(offset).Type
    BY DEF readSectionDescriptorV2
  <2> QED BY <1>0, <2>1, <2>2, AppendNames
<1>3. CASE FinishV2
  <2>1. file' = file /\ sections' = Reverse(sections)
    BY <1>3 DEF FinishV2
  <2>2. /\ Len(sections) \in Nat /\ Len(sections') = Len(sections)
        /\ \A k \in 1..Len(sections) : sections'[k] = sections[(Len(sections) - k) + 1]
    BY <1>0, <2>1 DEF Reverse
  <2>3. \A k \in 1..Len(sections) : (Len(sections) - k) + 1 \in 1..Len(sections)
    BY <2>2
  <2> QED BY <2>1, <2>2, <2>3 DEF NamesInv
<1>4. CASE UNCHANGED <<file, sections>>
  BY <1>4 DEF NamesInv
<1> QED BY <1>1, <1>2, <1>3, <1>4 DEF ChainNext, chainVars, UnsupportedVersion, Fail,
           StartV1, UnreadableV1, ExhaustedV1, StartV2, NoStartV2, UnreadableV2, NotFoundV2

LEMMA NamesAlways == ChainSpec => []NamesInv
<1>1. ChainInit => NamesInv
  BY DEF ChainInit, NamesInv
<1> QED BY <1>1, NamesStep, WalkFollowsLinks, PTL DEF ChainSpec

-----------------------------------------------------------------------------
(* The digests *)

\* A digest, given the sections met so far that hold one and that spell one, and
\* what each section says.
Recorded(digest, held, spelled, holds, spells) ==
    IF held # {} THEN \E k \in held : (\A j \in held : j <= k) /\ digest = holds[k]
    ELSE IF spelled # {}
    THEN \E k \in spelled : (\A j \in spelled : k <= j) /\ digest = spells[k]
    ELSE digest = None

LEMMA HolderWins ==
    ASSUME NEW p \in Nat, NEW held \in SUBSET Nat, \A j \in held : j < p,
           NEW spelled, NEW holds, NEW spells
    PROVE  Recorded(holds[p], held \cup {p}, spelled, holds, spells)
  BY DEF Recorded

LEMMA SpellerFills ==
    ASSUME NEW p \in Nat, NEW held, NEW spelled \in SUBSET Nat, \A j \in spelled : j < p,
           NEW holds, NEW spells, NEW digest,
           Recorded(digest, held, spelled, holds, spells),
           \A k \in held : Has(holds[k]), \A k \in spelled : Has(spells[k])
    PROVE  Recorded(IF Has(digest) THEN digest ELSE spells[p],
                    held, IF Has(spells[p]) THEN spelled \cup {p} ELSE spelled,
                    holds, spells)
<1>1. CASE held # {}
  BY <1>1 DEF Recorded
<1>2. CASE held = {} /\ spelled # {}
  BY <1>2 DEF Recorded
<1>3. CASE held = {} /\ spelled = {}
  BY <1>3 DEF Recorded, Has
<1> QED BY <1>1, <1>2, <1>3

\* The places of S the loop has passed at p.
Seen(S, p) == {k \in S : k < p}

LEMMA SeenNext ==
    ASSUME NEW S \in SUBSET Nat, NEW p \in Nat
    PROVE  /\ p \in S => Seen(S, p + 1) = Seen(S, p) \cup {p}
           /\ p \notin S => Seen(S, p + 1) = Seen(S, p)
<1>1. \A k \in S : k < p + 1 <=> k < p \/ k = p
  OBVIOUS
<1>2. ASSUME p \in S PROVE Seen(S, p + 1) = Seen(S, p) \cup {p}
  <2>1. \A k : k \in Seen(S, p + 1) <=> k \in S /\ k < p + 1
    BY DEF Seen
  <2>2. \A k : k \in Seen(S, p) \cup {p} <=> (k \in S /\ k < p) \/ k = p
    BY DEF Seen
  <2>3. \A k : k \in Seen(S, p + 1) <=> k \in Seen(S, p) \cup {p}
    <3>1. \A k : k \in S /\ k < p + 1 <=> (k \in S /\ k < p) \/ k = p
      BY <1>1, <1>2
    <3> QED BY <2>1, <2>2, <3>1, Zenon
  <2> QED BY <2>3
<1>3. ASSUME p \notin S PROVE Seen(S, p + 1) = Seen(S, p)
  BY <1>1, <1>3 DEF Seen
<1> QED BY <1>2, <1>3

\* A digest when the loop passes p: the last holder's, or else the first speller's.
LEMMA RecordNext ==
    ASSUME NEW p \in Nat, NEW H \in SUBSET Nat, NEW S \in SUBSET Nat, NEW holds, NEW spells,
           NEW d, Recorded(d, Seen(H, p), Seen(S, p), holds, spells),
           \A k \in H : Has(holds[k]), \A k \in S : Has(spells[k]), p \notin H \/ p \notin S
    PROVE  Recorded(IF p \in H THEN holds[p]
                    ELSE IF p \in S /\ ~Has(d) THEN spells[p] ELSE d,
                    Seen(H, p + 1), Seen(S, p + 1), holds, spells)
<1>1. \A j \in Seen(H, p) \cup Seen(S, p) : j < p
  BY DEF Seen
<1>2. /\ Seen(H, p) \in SUBSET Nat /\ Seen(S, p) \in SUBSET Nat
      /\ \A k \in Seen(H, p) : Has(holds[k])
      /\ \A k \in Seen(S, p) : Has(spells[k])
  BY DEF Seen
<1>3. CASE p \in H
  <2>1. Seen(H, p + 1) = Seen(H, p) \cup {p} /\ Seen(S, p + 1) = Seen(S, p)
    BY <1>3, SeenNext
  <2>2. Recorded(holds[p], Seen(H, p) \cup {p}, Seen(S, p), holds, spells)
    BY <1>1, <1>2, HolderWins
  <2> QED BY <1>3, <2>1, <2>2
<1>4. CASE p \notin H /\ p \in S
  <2>1. Recorded(IF Has(d) THEN d ELSE spells[p], Seen(H, p), Seen(S, p) \cup {p},
                 holds, spells)
    BY <1>1, <1>2, <1>4, SpellerFills
  <2> QED BY <2>1, <1>4, SeenNext
<1>5. CASE p \notin H /\ p \notin S
  BY <1>5, SeenNext
<1> QED BY <1>3, <1>4, <1>5

\* What is known of a body that is there.
LEMMA BodySays ==
    ASSUME file \in Files, NEW s, HasBody(s)
    PROVE  /\ Body(s).len = sectionPayloadSize(s)
           /\ Has(Body(s)) /\ Has(Body(s).md5) /\ Has(Body(s).sha1)
<1> DEFINE b == file.body[s.DataOffset]
<1>1. /\ {"md5", "sha1"} \subseteq DOMAIN b /\ Has(b.md5) /\ Has(b.sha1)
      /\ Has(Over([len |-> sectionPayloadSize(s)], b))
  BY BodyAssumption DEF HasBody
<1>2. /\ Body(s).len = sectionPayloadSize(s)
      /\ Body(s).md5 = b.md5 /\ Body(s).sha1 = b.sha1
  BY <1>1 DEF Body, Over
<1> QED BY <1>1, <1>2 DEF Body

DigestOf(key) == IF key = "md5" THEN info.MD5Digest ELSE info.SHA1Digest

Held(key) == [k \in 1..Len(sections) |-> Body(sections[k])[key]]

Spelled(key) == [k \in 1..Len(sections) |-> hexDigest(Body(sections[k]), key)]

DigestInv ==
    \A key \in {"md5", "sha1"} :
        Recorded(DigestOf(key), Seen(Holders(key), at), Seen(Spelling(key), at),
                 Held(key), Spelled(key))

LEMMA PlacesType ==
    ASSUME file \in Files, sections \in Seq(SectionInfo), NEW key \in {"md5", "sha1"}
    PROVE  /\ Holders(key) \in SUBSET (1..Len(sections))
           /\ Spelling(key) \in SUBSET (1..Len(sections))
           /\ \A k \in Holders(key) : Has(Held(key)[k])
           /\ \A k \in Spelling(key) : Has(Spelled(key)[k])
<1>1. Holders(key) \in SUBSET {k \in 1..Len(sections) : HasBody(sections[k])}
  BY DEF Holders, Binary, Bodies
<1>2. Spelling(key) \in SUBSET (1..Len(sections))
  BY DEF Spelling, Bodies
<1>3. \A k \in Holders(key) : Has(Held(key)[k])
  BY <1>1, BodySays DEF Held
<1>4. \A k \in Spelling(key) : Has(Spelled(key)[k])
  BY <1>2 DEF Spelled, Spelling
<1> QED BY <1>1, <1>2, <1>3, <1>4

LEMMA PlacesStay ==
    ASSUME file' = file, sections' = sections, NEW key
    PROVE  /\ Holders(key)' = Holders(key) /\ Spelling(key)' = Spelling(key)
           /\ Held(key)' = Held(key) /\ Spelled(key)' = Spelled(key)
<1>1. /\ \A types : Bodies(types)' = Bodies(types)
      /\ \A s : Body(s)' = Body(s)
  BY DEF Bodies, HasBody, Body
<1>2. \A type, size : Binary(type, size)' = Binary(type, size)
  BY <1>1 DEF Binary
<1>3. Holders(key)' = Holders(key)
  BY <1>2 DEF Holders
<1>4. Spelling(key)' = Spelling(key)
  BY <1>1 DEF Spelling
<1>5. Held(key)' = Held(key) /\ Spelled(key)' = Spelled(key)
  BY <1>1 DEF Held, Spelled
<1> QED BY <1>3, <1>4, <1>5

\* What a turn of the loop does to a digest.
Turned(key) ==
    IF at \in Holders(key) THEN Held(key)[at]
    ELSE IF at \in Spelling(key) /\ ~Has(DigestOf(key)) THEN Spelled(key)[at]
    ELSE DigestOf(key)

\* The place at hand among the holders and the spellers, where it has a body.
LEMMA HereHolds ==
    ASSUME at \in 1..Len(sections)
    PROVE  /\ at \in Holders("md5") <=>
                 /\ HasBody(section) /\ section.Type = "md5_hash"
                 /\ sectionPayloadSize(section)
                      >= IF file.version = 1 THEN Sizes.ewfHash ELSE Sizes.ewfMD5Digest
           /\ file.version = 1 =>
                (at \in Holders("sha1") <=>
                   /\ HasBody(section) /\ section.Type = "md5_hash"
                   /\ sectionPayloadSize(section) >= Sizes.ewfDigest)
           /\ file.version # 1 =>
                (at \in Holders("sha1") <=>
                   /\ HasBody(section) /\ section.Type = "sha1_hash"
                   /\ sectionPayloadSize(section) >= Sizes.ewfSHA1Digest)
           /\ \A key :
                at \in Spelling(key) <=>
                   /\ HasBody(section) /\ section.Type = "unclassified"
                   /\ section.TypeString = "xhash" /\ Has(hexDigest(Body(section), key))
<1>1. \A type : at \in Bodies({type}) <=> HasBody(section) /\ section.Type = type
  BY DEF Bodies, section
<1>2. \A type, size :
         at \in Binary(type, size) <=>
            at \in Bodies({type}) /\ sectionPayloadSize(section) >= size
  BY DEF Binary, section
<1>3. \A key : at \in Spelling(key) <=>
                 /\ at \in Bodies({"unclassified"}) /\ section.TypeString = "xhash"
                 /\ Has(hexDigest(Body(section), key))
  BY DEF Spelling, section
<1> QED BY <1>1, <1>2, <1>3 DEF Holders

LEMMA TurnedHere ==
    ASSUME at \in 1..Len(sections), NEW key
    PROVE  Held(key)[at] = Body(section)[key] /\ Spelled(key)[at] = hexDigest(Body(section), key)
  BY DEF Held, Spelled, section

LEMMA DigestTurn ==
    ASSUME file \in Files, at \in 1..Len(sections), DOMAIN info = DOMAIN NoInfo, TakeDigest,
           file.version = 1 => section.Type \in SectionTypes
    PROVE  /\ info'.MD5Digest = Turned("md5") /\ info'.SHA1Digest = Turned("sha1")
<1> DEFINE b == Body(section)
           size == sectionPayloadSize(section)
<1>1. /\ HasBody(section) /\ section.Type \in {"md5_hash", "sha1_hash"}
      /\ info' = IF section.Type = "md5_hash" THEN parseMD5LikeSection(file.version, b, info)
                                               ELSE parseSHA1Section(b, info)
  BY DEF TakeDigest, AtBody, Consume
<1>2. b.len = size
  BY <1>1, BodySays
<1>3. \A key : Held(key)[at] = b[key] /\ at \notin Spelling(key)
  BY <1>1, HereHolds, TurnedHere
<1>4. CASE section.Type = "md5_hash"
  <2>1. /\ info'.MD5Digest =
              IF size >= (IF file.version = 1 THEN Sizes.ewfHash ELSE Sizes.ewfMD5Digest)
              THEN b.md5 ELSE info.MD5Digest
        /\ info'.SHA1Digest = IF file.version = 1 /\ size >= Sizes.ewfDigest
                              THEN b.sha1 ELSE info.SHA1Digest
    BY <1>1, <1>2, <1>4 DEF parseMD5LikeSection, NoInfo
  <2>2. file.version # 1 => at \notin Holders("sha1")
    BY <1>4, HereHolds
  <2> QED BY <1>1, <1>3, <1>4, <2>1, <2>2, HereHolds DEF Turned, DigestOf
<1>5. CASE section.Type = "sha1_hash"
  <2>1. file.version # 1
    BY <1>5 DEF SectionTypes
  <2>2. /\ info'.MD5Digest = info.MD5Digest
        /\ info'.SHA1Digest = IF size >= Sizes.ewfSHA1Digest THEN b.sha1 ELSE info.SHA1Digest
    BY <1>1, <1>2, <1>5 DEF parseSHA1Section, NoInfo
  <2> QED BY <1>1, <1>3, <1>5, <2>1, <2>2, HereHolds DEF Turned, DigestOf
<1> QED BY <1>1, <1>4, <1>5

LEMMA XHashTurn ==
    ASSUME at \in 1..Len(sections), DOMAIN info = DOMAIN NoInfo, TakeXHash
    PROVE  /\ info'.MD5Digest = Turned("md5") /\ info'.SHA1Digest = Turned("sha1")
<1> DEFINE b == Body(section)
<1>1. /\ HasBody(section) /\ section.Type = "unclassified" /\ section.TypeString = "xhash"
      /\ info' = parseXHashSection(b, info)
  BY DEF TakeXHash, AtBody, Consume
<1>2. \A key : Spelled(key)[at] = hexDigest(b, key)
  BY TurnedHere
<1>3. /\ info'.MD5Digest = IF Has(info.MD5Digest) THEN info.MD5Digest ELSE hexDigest(b, "md5")
      /\ info'.SHA1Digest = IF Has(info.SHA1Digest) THEN info.SHA1Digest ELSE hexDigest(b, "sha1")
  BY <1>1 DEF parseXHashSection, NoInfo
<1>4. \A key : at \in Spelling(key) <=> Has(hexDigest(b, key))
  BY <1>1, HereHolds
<1>5. at \notin Holders("md5") /\ at \notin Holders("sha1")
  BY <1>1, HereHolds
<1> QED BY <1>2, <1>3, <1>4, <1>5 DEF Turned, DigestOf, Has

SameDigests(i, j) == j.MD5Digest = i.MD5Digest /\ j.SHA1Digest = i.SHA1Digest

\* The other sections neither hold nor spell a digest.
LEMMA OtherTurn ==
    ASSUME at \in 1..Len(sections), DOMAIN info = DOMAIN NoInfo,
           \/ SkipBody \/ PassBody \/ TakeDeviceInformation \/ TakeCaseData
           \/ TakeSessions \/ TakeErrors \/ TakeHeader
    PROVE  /\ info'.MD5Digest = Turned("md5") /\ info'.SHA1Digest = Turned("sha1")
<1>1. SameDigests(info, info')
  <2>1. CASE SkipBody \/ PassBody \/ TakeHeader
    BY <2>1 DEF SkipBody, PassBody, TakeHeader, Consume, SameDigests
  <2>2. CASE TakeDeviceInformation
    BY <2>2 DEF TakeDeviceInformation, Consume, SameDigests, parseVolumeSection,
       parseDeviceInformationV2, NoInfo
  <2>3. CASE TakeCaseData
    BY <2>3 DEF TakeCaseData, Consume, SameDigests, parseCaseDataV2, NoInfo
  <2>4. CASE TakeSessions
    BY <2>4 DEF TakeSessions, Consume, SameDigests, parseSessionSection, NoInfo
  <2>5. CASE TakeErrors
    BY <2>5 DEF TakeErrors, Consume, SameDigests, parseErrorSection, NoInfo
  <2> QED BY <2>1, <2>2, <2>3, <2>4, <2>5
<1>2. ~HasBody(section) \/ (/\ section.Type \notin {"md5_hash", "sha1_hash"}
                           /\ ~(section.Type = "unclassified" /\ section.TypeString = "xhash"))
  BY DEF SkipBody, PassBody, TakeDeviceInformation, TakeCaseData, TakeSessions, TakeErrors,
     TakeHeader, AtBody, Headers
<1>3. \A key \in {"md5", "sha1"} : at \notin Holders(key) /\ at \notin Spelling(key)
  BY <1>2, HereHolds
<1> QED BY <1>1, <1>3 DEF Turned, DigestOf, SameDigests

\* A turn of the loop.
LEMMA DigestPass ==
    ASSUME DigestInv, file \in Files, sections \in Seq(SectionInfo), at \in 1..Len(sections),
           file' = file, sections' = sections, at' = at + 1,
           info'.MD5Digest = Turned("md5"), info'.SHA1Digest = Turned("sha1")
    PROVE  DigestInv'
<1> SUFFICES ASSUME NEW key \in {"md5", "sha1"}
             PROVE  Recorded(DigestOf(key)', Seen(Holders(key)', at'), Seen(Spelling(key)', at'),
                             Held(key)', Spelled(key)')
  BY DEF DigestInv, Recorded, Seen
<1>1. /\ Holders(key) \in SUBSET (1..Len(sections))
      /\ Spelling(key) \in SUBSET (1..Len(sections))
      /\ \A k \in Holders(key) : Has(Held(key)[k])
      /\ \A k \in Spelling(key) : Has(Spelled(key)[k])
  BY PlacesType
<1>2. at \notin Holders(key) \/ at \notin Spelling(key)
  BY HereHolds
<1>3. DigestOf(key)' = Turned(key)
  BY DEF DigestOf
<1>4. Recorded(Turned(key), Seen(Holders(key), at + 1), Seen(Spelling(key), at + 1),
               Held(key), Spelled(key))
  <2>1. at \in Nat /\ Holders(key) \in SUBSET Nat /\ Spelling(key) \in SUBSET Nat
    BY <1>1
  <2>2. Recorded(DigestOf(key), Seen(Holders(key), at), Seen(Spelling(key), at),
                 Held(key), Spelled(key))
    BY DEF DigestInv
  <2> QED BY <1>1, <1>2, <2>1, <2>2, RecordNext DEF Turned
<1> QED BY <1>3, <1>4, PlacesStay

\* Before the loop no section is behind it.
LEMMA NoneSeen ==
    ASSUME NEW key \in {"md5", "sha1"}
    PROVE  Seen(Holders(key), 1) = {} /\ Seen(Spelling(key), 1) = {}
<1>1. \A k \in Holders(key) \cup Spelling(key) : k \in 1..Len(sections)
  BY DEF Holders, Binary, Spelling, Bodies
<1> QED BY <1>1 DEF Seen

LEMMA DigestBegin ==
    ASSUME DigestInv, at = 1, at' = 1, SameDigests(info, info')
    PROVE  DigestInv'
<1> SUFFICES ASSUME NEW key \in {"md5", "sha1"}
             PROVE  Recorded(DigestOf(key), Seen(Holders(key), at), Seen(Spelling(key), at),
                             Held(key), Spelled(key))'
  BY DEF DigestInv
<1>1. DigestOf(key) = None
  BY NoneSeen DEF DigestInv, Recorded
<1>2. DigestOf(key)' = None
  BY <1>1 DEF DigestOf, SameDigests
<1>3. (Seen(Holders(key), 1) = {} /\ Seen(Spelling(key), 1) = {})'
  BY NoneSeen, PTL
<1> QED BY <1>2, <1>3 DEF Recorded

LEMMA DigestRest ==
    ASSUME DigestInv, file' = file, sections' = sections, at' = at, SameDigests(info, info')
    PROVE  DigestInv'
  BY PlacesStay DEF DigestInv, DigestOf, SameDigests

\* What the proofs know of the parse at every step.
Ground == file \in Files /\ sections \in Seq(SectionInfo) /\ NamesInv /\ ListsInv

LEMMA GroundAlways == Spec => []Ground
<1>1. Init => file \in Files
  BY DEF Init, ChainInit
<1>2. file \in Files /\ [ChainNext]_chainVars => (file \in Files)'
  BY DEF ChainNext, chainVars, UnsupportedVersion, Fail, StartV1, WalkV1, UnreadableV1,
     ExhaustedV1, StartV2, NoStartV2, WalkV2, UnreadableV2, FinishV2, NotFoundV2
<1>3. Init => ChainInit
  BY DEF Init
<1>4. ChainInv => sections \in Seq(SectionInfo)
  BY DEF ChainInv, ChainType
<1>5. ListsInv /\ ChainInv /\ [Next]_vars => ListsInv'
  BY <1>4, ListsStep
<1> QED BY <1>1, <1>2, <1>4, <1>5, ListsInit, ParseWalksOnce, WalkFollowsLinks,
           NamesAlways, PTL DEF Spec, ChainSpec, Ground

LEMMA DigestStep == ASSUME DigestInv, Ground, [Next]_vars PROVE DigestInv'
<1>1. /\ DOMAIN info = DOMAIN NoInfo /\ at \in Nat \ {0}
      /\ phase \in {"signature", "sections"} => at = 1
  BY DEF Ground, ListsInv
<1>2. CASE \/ SkipBody \/ PassBody \/ TakeDeviceInformation \/ TakeCaseData \/ TakeDigest
           \/ TakeSessions \/ TakeErrors \/ TakeXHash \/ TakeHeader
  <2>1. /\ at <= Len(sections) /\ file' = file /\ sections' = sections /\ at' = at + 1
    BY <1>2 DEF SkipBody, PassBody, TakeDeviceInformation, TakeCaseData, TakeDigest,
       TakeSessions, TakeErrors, TakeXHash, TakeHeader, AtBody, Consume, chainVars
  <2>2. at \in 1..Len(sections)
    BY <1>1, <2>1 DEF Ground
  <2>3. file.version = 1 => section.Type \in SectionTypes
    BY <2>2 DEF Ground, NamesInv, section
  <2>4. info'.MD5Digest = Turned("md5") /\ info'.SHA1Digest = Turned("sha1")
    BY <1>1, <1>2, <2>2, <2>3, DigestTurn, XHashTurn, OtherTurn DEF Ground
  <2> QED BY <2>1, <2>2, <2>4, DigestPass DEF Ground
<1>3. CASE ReadHeader \/ RefuseHeader \/ WalkSections
  <2>1. at = 1 /\ at' = 1 /\ SameDigests(info, info')
    BY <1>1, <1>3 DEF ReadHeader, RefuseHeader, WalkSections, SameDigests
  <2> QED BY <2>1, DigestBegin
<1>4. CASE NoAcquisition \/ ResolveAcquisition \/ ApplyHeaderValue \/ ApplyHeaderDates
  <2>1. file' = file /\ sections' = sections /\ at' = at
    BY <1>4 DEF NoAcquisition, ResolveAcquisition, ApplyHeaderValue, ApplyHeaderDates, chainVars
  <2>2. SameDigests(info, info')
    BY <1>1, <1>4 DEF NoAcquisition, ResolveAcquisition, ApplyHeaderValue, ApplyHeaderDates,
       SameDigests, NoInfo
  <2> QED BY <2>1, <2>2, DigestRest
<1>5. CASE UNCHANGED vars
  <2>1. /\ file' = file /\ sections' = sections /\ at' = at /\ SameDigests(info, info')
    BY <1>5 DEF vars, parseVars, SameDigests
  <2> QED BY <2>1, DigestRest
<1> QED BY <1>2, <1>3, <1>4, <1>5 DEF Next

LEMMA DigestInit == Init => DigestInv
<1> SUFFICES ASSUME Init, NEW key \in {"md5", "sha1"}
             PROVE  Recorded(DigestOf(key), Seen(Holders(key), at), Seen(Spelling(key), at),
                             Held(key), Spelled(key))
  BY DEF DigestInv
<1>1. at = 1 /\ DigestOf(key) = None
  BY DEF Init, NoInfo, DigestOf
<1> QED BY <1>1, NoneSeen DEF Recorded

LEMMA MaxLast ==
    ASSUME NEW S \in SUBSET Nat, NEW k \in S, \A j \in S : j <= k
    PROVE  Max(S) = k
<1>1. \E x \in S : \A y \in S : x >= y
  OBVIOUS
<1>2. Max(S) \in S /\ \A y \in S : Max(S) >= y
  BY <1>1, Zenon DEF Max
<1>3. Max(S) \in Nat /\ k \in Nat /\ Max(S) <= k /\ k <= Max(S)
  BY <1>2
<1> QED BY <1>3

LEMMA DigestsGiven == ASSUME DigestInv, Ground PROVE DigestsOfRecord
<1> SUFFICES ASSUME Parsed, NEW key \in {"md5", "sha1"} PROVE DigestOf(key) = OfRecord(key)
  BY DEF DigestsOfRecord, DigestOf
<1>1. /\ Holders(key) \in SUBSET (1..Len(sections))
      /\ Spelling(key) \in SUBSET (1..Len(sections))
  BY PlacesType DEF Ground
<1>2. at \in Nat /\ Len(sections) \in Nat /\ at > Len(sections)
  BY DEF Ground, ListsInv, Parsed
<1>3. Seen(Holders(key), at) = Holders(key) /\ Seen(Spelling(key), at) = Spelling(key)
  BY <1>1, <1>2 DEF Seen
<1>4. Recorded(DigestOf(key), Holders(key), Spelling(key), Held(key), Spelled(key))
  BY <1>3 DEF DigestInv
<1>5. CASE Holders(key) # {}
  <2>1. PICK k \in Holders(key) : (\A j \in Holders(key) : j <= k) /\ DigestOf(key) = Held(key)[k]
    BY <1>4, <1>5 DEF Recorded
  <2>2. Max(Holders(key)) = k
    <3>1. Holders(key) \in SUBSET Nat
      BY <1>1
    <3> QED BY <2>1, <3>1, MaxLast
  <2> QED BY <1>1, <1>5, <2>1, <2>2 DEF Held, OfRecord
<1>6. CASE Holders(key) = {} /\ Spelling(key) # {}
  <2>1. PICK k \in Spelling(key) :
           (\A j \in Spelling(key) : k <= j) /\ DigestOf(key) = Spelled(key)[k]
    BY <1>4, <1>6 DEF Recorded
  <2>2. Min(Spelling(key)) = k
    <3>1. Spelling(key) \in SUBSET Nat
      BY <1>1
    <3> QED BY <2>1, <3>1, MinFirst DEF First
  <2> QED BY <1>1, <1>6, <2>1, <2>2 DEF Spelled, OfRecord
<1>7. CASE Holders(key) = {} /\ Spelling(key) = {}
  BY <1>4, <1>7 DEF Recorded, OfRecord
<1> QED BY <1>5, <1>6, <1>7

\* "Digests already read from a binary section win" (parseXHashSection), in every
\* order of the sections and whatever their bodies say.
THEOREM BinaryDigestsWin == Spec => []DigestsOfRecord
<1>1. DigestInv /\ Ground /\ [Next]_vars => DigestInv'
  BY DigestStep
<1>2. DigestInv /\ Ground => DigestsOfRecord
  BY DigestsGiven
<1> QED BY <1>1, <1>2, DigestInit, GroundAlways, PTL DEF Spec

-----------------------------------------------------------------------------
(* The headers *)

Named(name) == {k \in Bodies({"unclassified"}) : sections[k].TypeString = name}

\* The first header section of each name among those met.
HeadersInv ==
    /\ DOMAIN headers = Headers
    /\ \A name \in Headers :
         IF Seen(Named(name), at) = {} THEN headers[name] = None
         ELSE \E k \in Nat : First(k, Seen(Named(name), at)) /\ headers[name] = Body(sections[k])

LEMMA NamedType == \A name : Named(name) \in SUBSET {k \in 1..Len(sections) : HasBody(sections[k])}
  BY DEF Named, Bodies

LEMMA NoneNamed == \A name : Seen(Named(name), 1) = {}
  BY NamedType DEF Seen

LEMMA NamedHere ==
    ASSUME at \in 1..Len(sections), NEW name
    PROVE  at \in Named(name) <=>
             HasBody(section) /\ section.Type = "unclassified" /\ section.TypeString = name
  BY DEF Named, Bodies, section

LEMMA NamedStay ==
    ASSUME file' = file, sections' = sections
    PROVE  /\ \A name : Named(name)' = Named(name)
           /\ \A s : Body(s)' = Body(s)
  BY DEF Named, Bodies, HasBody, Body

LEMMA HeadersPass ==
    ASSUME HeadersInv, Ground, at \in 1..Len(sections), file' = file, sections' = sections,
           at' = at + 1, headers' = headers,
           \A name \in Headers : at \notin Named(name)
    PROVE  HeadersInv'
<1>1. \A name \in Headers : Seen(Named(name), at + 1) = Seen(Named(name), at)
  <2> SUFFICES ASSUME NEW name \in Headers
               PROVE  Seen(Named(name), at + 1) = Seen(Named(name), at)
    OBVIOUS
  <2>1. Named(name) \in SUBSET Nat /\ at \in Nat
    BY NamedType
  <2> QED BY <2>1, SeenNext
<1>2. /\ \A name : Named(name)' = Named(name)
      /\ \A s : Body(s)' = Body(s)
  BY NamedStay
<1>3. \A name \in Headers : Seen(Named(name), at)' = Seen(Named(name), at)
  BY <1>1, <1>2 DEF Seen
<1> QED BY <1>2, <1>3 DEF HeadersInv

LEMMA HeaderFirst ==
    ASSUME HeadersInv, Ground, TakeHeader
    PROVE  HeadersInv'
<1> DEFINE here == section.TypeString
<1>1. /\ file' = file /\ sections' = sections /\ at' = at + 1 /\ at \in 1..Len(sections)
      /\ HasBody(section) /\ section.Type = "unclassified" /\ here \in Headers
      /\ headers' = [headers EXCEPT ![here] = IF Has(@) THEN @ ELSE Body(section)]
  BY DEF TakeHeader, AtBody, Consume, chainVars, Ground, ListsInv
<1>2. /\ \A name : Named(name)' = Named(name)
      /\ \A s : Body(s)' = Body(s)
  BY <1>1, NamedStay
<1>3. ASSUME NEW name \in Headers
      PROVE  /\ name = here => Seen(Named(name), at)' = Seen(Named(name), at) \cup {at}
             /\ name # here => Seen(Named(name), at)' = Seen(Named(name), at)
  <2>1. Named(name) \in SUBSET Nat /\ at \in Nat
    BY <1>1, NamedType
  <2>2. at \in Named(name) <=> name = here
    BY <1>1, NamedHere
  <2>3. Seen(Named(name), at)' = Seen(Named(name), at + 1)
    BY <1>1, <1>2 DEF Seen
  <2> QED BY <2>1, <2>2, <2>3, SeenNext
<1>4. DOMAIN headers' = Headers
  BY <1>1 DEF HeadersInv
<1>5. ASSUME NEW name \in Headers
      PROVE  IF Seen(Named(name), at)' = {} THEN headers'[name] = None
             ELSE \E k \in Nat : First(k, Seen(Named(name), at)')
                                 /\ headers'[name] = Body(sections[k])
  <2>1. CASE name # here
    <3>1. headers'[name] = headers[name]
      BY <1>1, <2>1 DEF HeadersInv
    <3> QED BY <1>3, <2>1, <3>1 DEF HeadersInv
  <2>2. CASE name = here /\ Seen(Named(name), at) = {}
    <3>1. headers'[name] = Body(section)
      BY <1>1, <2>2 DEF HeadersInv, Has
    <3>2. Seen(Named(name), at)' = {at} /\ at \in Nat
      BY <1>1, <1>3, <2>2
    <3>3. First(at, {at})
      BY <3>2 DEF First
    <3> QED BY <3>1, <3>2, <3>3 DEF section
  <2>3. CASE name = here /\ Seen(Named(name), at) # {}
    <3>1. PICK k \in Nat : First(k, Seen(Named(name), at)) /\ headers[name] = Body(sections[k])
      BY <2>3 DEF HeadersInv
    <3>2. Has(headers[name])
      <4>1. HasBody(sections[k])
        BY <3>1, NamedType DEF First, Seen
      <4> QED BY <3>1, <4>1, BodySays DEF Ground
    <3>3. headers'[name] = headers[name]
      BY <1>1, <2>3, <3>2 DEF HeadersInv
    <3>4. First(k, Seen(Named(name), at) \cup {at})
      BY <1>1, <3>1 DEF First, Seen
    <3> QED BY <1>3, <2>3, <3>1, <3>3, <3>4
  <2> QED BY <2>1, <2>2, <2>3
<1> QED BY <1>1, <1>2, <1>4, <1>5 DEF HeadersInv

LEMMA HeadersStep == ASSUME HeadersInv, Ground, [Next]_vars PROVE HeadersInv'
<1>1. /\ at \in Nat \ {0}
      /\ phase \in {"signature", "sections"} => at = 1
  BY DEF Ground, ListsInv
<1>2. CASE \/ SkipBody \/ PassBody \/ TakeDeviceInformation \/ TakeCaseData \/ TakeDigest
           \/ TakeSessions \/ TakeErrors \/ TakeXHash
  <2>1. /\ at <= Len(sections) /\ file' = file /\ sections' = sections /\ at' = at + 1
        /\ headers' = headers
    BY <1>2 DEF SkipBody, PassBody, TakeDeviceInformation, TakeCaseData, TakeDigest,
       TakeSessions, TakeErrors, TakeXHash, AtBody, Consume, chainVars
  <2>2. at \in 1..Len(sections)
    BY <1>1, <2>1 DEF Ground
  <2>3. HasBody(section) /\ section.Type = "unclassified" => section.TypeString \notin Headers
    BY <1>2 DEF SkipBody, PassBody, TakeDeviceInformation, TakeCaseData, TakeDigest,
       TakeSessions, TakeErrors, TakeXHash, AtBody, Headers
  <2>4. \A name \in Headers : at \notin Named(name)
    BY <2>2, <2>3, NamedHere
  <2> QED BY <2>1, <2>2, <2>4, HeadersPass
<1>3. CASE ReadHeader \/ RefuseHeader \/ WalkSections
  <2>1. at = 1 /\ at' = 1 /\ headers' = headers
    BY <1>1, <1>3 DEF ReadHeader, RefuseHeader, WalkSections
  <2>2. \A name : Seen(Named(name), 1) = {}
    BY NoneNamed
  <2>3. (\A name : Seen(Named(name), 1) = {})'
    BY NoneNamed, PTL
  <2> QED BY <2>1, <2>2, <2>3 DEF HeadersInv
<1>4. CASE \/ NoAcquisition \/ ResolveAcquisition \/ ApplyHeaderValue \/ ApplyHeaderDates
           \/ UNCHANGED vars
  <2>1. file' = file /\ sections' = sections /\ at' = at /\ headers' = headers
    BY <1>4 DEF NoAcquisition, ResolveAcquisition, ApplyHeaderValue, ApplyHeaderDates,
       chainVars, vars, parseVars
  <2> QED BY <2>1, NamedStay DEF HeadersInv
<1> QED BY <1>2, <1>3, <1>4, HeaderFirst DEF Next

LEMMA HeadersInit == Init => HeadersInv
<1> SUFFICES ASSUME Init PROVE HeadersInv
  OBVIOUS
<1>1. at = 1 /\ headers = [name \in Headers |-> None]
  BY DEF Init
<1>2. \A name : Seen(Named(name), 1) = {}
  BY NoneNamed
<1> QED BY <1>1, <1>2 DEF HeadersInv

-----------------------------------------------------------------------------
(* The values of the headers *)

\* What a value comes to in its field.
Cleaned(f, v) == IF f = "PasswordHash" /\ v = "0" THEN "" ELSE v

\* The fields while applyHeaderValues goes through the values: one that is spelled
\* in one way has its value once the loop has met it.
Applied(acq, left, from) ==
    /\ DOMAIN acq = DOMAIN NoAcquisitionYet
    /\ DOMAIN acq.text = Texts
    /\ acq.Values = mergedValues(candidates(from))
    /\ left \subseteq DOMAIN acq.Values
    /\ \A f \in Texts :
         /\ Spellings(f, acq.Values) = {} => acq.text[f] = ""
         /\ \A k : Spellings(f, acq.Values) = {k} =>
                     acq.text[f] = IF k \in left THEN "" ELSE Cleaned(f, acq.Values[k])

ValuesInv ==
    file.version = 1 =>
      /\ phase \in {"signature", "sections", "bodies"} => ~HasAcquisition(info)
      /\ phase = "values" => Applied(info.Acquisition, unapplied, headers)
      /\ phase = "parsed" /\ HasAcquisition(info) => Applied(info.Acquisition, {}, headers)

LEMMA FieldsAreTexts == \A k \in DOMAIN headerFields : headerFields[k] \in Texts
<1>1. \A k \in DOMAIN headerFields : \E f \in Texts : k \in keysOf[f]
  BY DEF headerFields
<1> QED BY <1>1 DEF headerFields

\* One turn of the loop of applyHeaderValues.
LEMMA ApplyTurn ==
    ASSUME NEW from, NEW acq, NEW left, Applied(acq, left, from), NEW key \in left, NEW next,
           next = applyHeaderValue(acq, key)
    PROVE  Applied(next, left \ {key}, from)
<1> DEFINE value == acq.Values[key]
           skip == \/ key \notin DOMAIN headerFields
                   \/ headerFields[key] = "PasswordHash" /\ value = "0"
<1>1. /\ DOMAIN acq = DOMAIN NoAcquisitionYet /\ DOMAIN acq.text = Texts
      /\ "text" \in DOMAIN acq /\ "Values" \in DOMAIN acq
  BY DEF Applied, NoAcquisitionYet, NewAcquisition
<1>2. next = IF skip THEN acq ELSE [acq EXCEPT !.text[headerFields[key]] = value]
  BY DEF applyHeaderValue
<1>3. /\ DOMAIN next = DOMAIN acq /\ DOMAIN next.text = Texts
      /\ next.Values = acq.Values
  BY <1>1, <1>2 DEF NoAcquisitionYet, NewAcquisition
<1>4. \A f \in Texts : next.text[f] = IF ~skip /\ headerFields[key] = f THEN value ELSE acq.text[f]
  BY <1>1, <1>2
<1>5. ASSUME NEW f \in Texts
      PROVE  /\ Spellings(f, acq.Values) = {} => next.text[f] = ""
             /\ \A k : Spellings(f, acq.Values) = {k} =>
                        next.text[f] = IF k \in left \ {key} THEN "" ELSE Cleaned(f, acq.Values[k])
  <2>1. key \in DOMAIN headerFields /\ headerFields[key] = f <=> key \in Spellings(f, acq.Values)
    BY DEF Spellings, Applied
  <2>2. CASE key \in Spellings(f, acq.Values)
    <3>1. next.text[f] = IF skip THEN acq.text[f] ELSE value
      BY <1>4, <2>1, <2>2
    <3>2. Spellings(f, acq.Values) # {}
      BY <2>2
    <3>3. ASSUME NEW k, Spellings(f, acq.Values) = {k}
          PROVE  next.text[f] = IF k \in left \ {key} THEN "" ELSE Cleaned(f, acq.Values[k])
      <4>1. k = key /\ acq.text[f] = ""
        BY <2>2, <3>3 DEF Applied
      <4>2. skip <=> f = "PasswordHash" /\ value = "0"
        BY <2>1, <2>2
      <4> QED BY <3>1, <4>1, <4>2 DEF Cleaned
    <3> QED BY <3>2, <3>3
  <2>3. CASE key \notin Spellings(f, acq.Values)
    <3>1. next.text[f] = acq.text[f]
      BY <1>4, <2>1, <2>3
    <3>2. \A k : Spellings(f, acq.Values) = {k} => k # key
      BY <2>3
    <3> QED BY <3>1, <3>2 DEF Applied
  <2> QED BY <2>2, <2>3
<1>6. left \ {key} \subseteq DOMAIN acq.Values /\ acq.Values = mergedValues(candidates(from))
  BY DEF Applied
<1> QED BY <1>1, <1>3, <1>5, <1>6 DEF Applied

\* No section but the texts of v2 says anything of the acquisition.
LEMMA SameAcquisition ==
    ASSUME DOMAIN info = DOMAIN NoInfo, file.version = 1,
           section.Type \in SectionTypes,
           \/ SkipBody \/ PassBody \/ TakeDeviceInformation \/ TakeCaseData \/ TakeDigest
           \/ TakeSessions \/ TakeErrors \/ TakeXHash \/ TakeHeader
    PROVE  info'.Acquisition = info.Acquisition
<1>1. CASE SkipBody \/ PassBody \/ TakeHeader
  BY <1>1 DEF SkipBody, PassBody, TakeHeader, Consume
<1>2. CASE TakeDeviceInformation
  BY <1>2 DEF TakeDeviceInformation, Consume, parseVolumeSection, NoInfo
<1>3. CASE TakeCaseData
  BY <1>3 DEF TakeCaseData, AtBody, SectionTypes
<1>4. CASE TakeDigest
  BY <1>4 DEF TakeDigest, Consume, parseMD5LikeSection, parseSHA1Section, NoInfo
<1>5. CASE TakeSessions
  BY <1>5 DEF TakeSessions, Consume, parseSessionSection, NoInfo
<1>6. CASE TakeErrors
  BY <1>6 DEF TakeErrors, Consume, parseErrorSection, NoInfo
<1>7. CASE TakeXHash
  BY <1>7 DEF TakeXHash, Consume, parseXHashSection, NoInfo
<1> QED BY <1>1, <1>2, <1>3, <1>4, <1>5, <1>6, <1>7

LEMMA AppliedBegins ==
    ASSUME NEW from, NEW source, NEW acq,
           acq = [NewAcquisition(source) EXCEPT !.Values = mergedValues(candidates(from))]
    PROVE  Applied(acq, DOMAIN mergedValues(candidates(from)), from)
<1>1. /\ DOMAIN acq = DOMAIN NoAcquisitionYet
      /\ acq.Values = mergedValues(candidates(from))
      /\ acq.text = [f \in Texts |-> ""]
  BY DEF NewAcquisition, NoAcquisitionYet
<1>2. \A f : Spellings(f, acq.Values) \subseteq DOMAIN acq.Values
  BY DEF Spellings
<1> HIDE DEF Texts
<1> QED BY <1>1, <1>2 DEF Applied

LEMMA AppliedDates ==
    ASSUME NEW from, NEW acq, Applied(acq, {}, from)
    PROVE  Applied(applyHeaderDates(acq), {}, from)
<1>1. DOMAIN acq = DOMAIN NoAcquisitionYet
  BY DEF Applied
<1>2. /\ DOMAIN applyHeaderDates(acq) = DOMAIN acq
      /\ applyHeaderDates(acq).text = acq.text /\ applyHeaderDates(acq).Values = acq.Values
  BY <1>1 DEF applyHeaderDates, setDates, NoAcquisitionYet, NewAcquisition
<1> QED BY <1>2 DEF Applied

LEMMA ValuesStep == ASSUME ValuesInv, Ground, [Next]_vars PROVE ValuesInv'
<1>1. DOMAIN info = DOMAIN NoInfo /\ at \in Nat \ {0}
  BY DEF Ground, ListsInv
<1>2. file' = file
  BY DEF Next, ReadHeader, RefuseHeader, WalkSections, Consume, SkipBody,
     PassBody, TakeDeviceInformation, TakeCaseData, TakeDigest, TakeSessions, TakeErrors,
     TakeXHash, TakeHeader, NoAcquisition, ResolveAcquisition, ApplyHeaderValue,
     ApplyHeaderDates, vars, chainVars, ChainNext, UnsupportedVersion, Fail, StartV1, WalkV1,
     UnreadableV1, ExhaustedV1, StartV2, NoStartV2, WalkV2, UnreadableV2, FinishV2, NotFoundV2
<1> SUFFICES ASSUME file.version = 1 PROVE ValuesInv'
  BY <1>2 DEF ValuesInv
<1>3. CASE \/ SkipBody \/ PassBody \/ TakeDeviceInformation \/ TakeCaseData \/ TakeDigest
           \/ TakeSessions \/ TakeErrors \/ TakeXHash \/ TakeHeader
  <2>1. phase = "bodies" /\ phase' = "bodies" /\ at <= Len(sections)
    BY <1>3 DEF SkipBody, PassBody, TakeDeviceInformation, TakeCaseData, TakeDigest,
       TakeSessions, TakeErrors, TakeXHash, TakeHeader, AtBody, Consume
  <2>2. section.Type \in SectionTypes
    BY <1>1, <2>1 DEF Ground, NamesInv, section
  <2>3. info'.Acquisition = info.Acquisition
    BY <1>1, <1>3, <2>2, SameAcquisition
  <2> QED BY <2>1, <2>3 DEF ValuesInv, HasAcquisition
<1>4. CASE ReadHeader \/ RefuseHeader \/ WalkSections \/ NoAcquisition
  <2>1. /\ info' = info /\ phase \in {"signature", "sections", "bodies"}
        /\ phase' \in {"sections", "failed", "bodies", "parsed"}
    BY <1>4 DEF ReadHeader, RefuseHeader, WalkSections, NoAcquisition
  <2> QED BY <2>1 DEF ValuesInv, HasAcquisition
<1>5. CASE ResolveAcquisition
  <2>1. PICK source : info'.Acquisition = [NewAcquisition(source) EXCEPT !.Values =
                                             mergedValues(candidates(headers))]
    BY <1>1, <1>5 DEF ResolveAcquisition, NoInfo
  <2>2. /\ unapplied' = DOMAIN mergedValues(candidates(headers)) /\ headers' = headers
        /\ phase' = "values"
    BY <1>5 DEF ResolveAcquisition
  <2>3. Applied(info'.Acquisition, unapplied', headers')
    BY <2>1, <2>2, AppliedBegins
  <2> QED BY <2>2, <2>3 DEF ValuesInv
<1>6. CASE ApplyHeaderValue
  <2>1. PICK key \in unapplied :
           /\ info'.Acquisition = applyHeaderValue(info.Acquisition, key)
           /\ unapplied' = unapplied \ {key}
    BY <1>1, <1>6 DEF ApplyHeaderValue, NoInfo
  <2>2. headers' = headers /\ phase = "values" /\ phase' = "values"
    BY <1>6 DEF ApplyHeaderValue
  <2>3. Applied(info'.Acquisition, unapplied', headers')
    BY <2>1, <2>2, ApplyTurn DEF ValuesInv
  <2> QED BY <2>2, <2>3 DEF ValuesInv
<1>7. CASE ApplyHeaderDates
  <2>1. /\ info'.Acquisition = applyHeaderDates(info.Acquisition) /\ headers' = headers
        /\ phase = "values" /\ phase' = "parsed" /\ unapplied = {}
    BY <1>1, <1>7 DEF ApplyHeaderDates, NoInfo
  <2>2. Applied(info.Acquisition, {}, headers)
    BY <2>1 DEF ValuesInv
  <2>3. Applied(info'.Acquisition, {}, headers')
    BY <2>1, <2>2, AppliedDates
  <2> QED BY <2>1, <2>3 DEF ValuesInv
<1>8. CASE UNCHANGED vars
  <2>1. /\ info' = info /\ phase' = phase /\ unapplied' = unapplied /\ headers' = headers
    BY <1>8 DEF vars, parseVars
  <2> QED BY <2>1, <1>2 DEF ValuesInv, HasAcquisition
<1> QED BY <1>3, <1>4, <1>5, <1>6, <1>7, <1>8 DEF Next

LEMMA HeadersGiven ==
    ASSUME HeadersInv, Ground, at > Len(sections)
    PROVE  candidates(headers) = candidates(FirstHeaders)
<1>1. ASSUME NEW name \in Headers PROVE headers[name] = FirstHeaders[name]
  <2>1. Named(name) \in SUBSET Nat /\ Seen(Named(name), at) = Named(name)
    <3>1. Len(sections) \in Nat /\ at \in Nat
      BY DEF Ground, ListsInv
    <3> QED BY <3>1, NamedType DEF Seen
  <2>2. CASE Named(name) = {}
    BY <2>1, <2>2 DEF HeadersInv, FirstHeaders, Named
  <2>3. CASE Named(name) # {}
    <3>1. PICK k \in Nat : First(k, Named(name)) /\ headers[name] = Body(sections[k])
      BY <2>1, <2>3 DEF HeadersInv
    <3>2. Min(Named(name)) = k
      BY <2>1, <3>1, MinFirst
    <3> QED BY <2>3, <3>1, <3>2 DEF FirstHeaders, Named
  <2> QED BY <2>2, <2>3
<1>2. \A i \in 1..3 : Precedence[i] \in Headers
  BY DEF Precedence, Headers
<1> QED BY <1>1, <1>2 DEF candidates

\* The place of a candidate that says something in a field, and what is merged.
Says(cands, i, f) == {k \in Spellings(f, cands[i]) : cands[i][k] # ""}

LEMMA Merged ==
    ASSUME NEW cands, NEW values, values = mergedValues(cands)
    PROVE  \A f :
             /\ Spellings(f, values) = Says(cands, 1, f) \cup Says(cands, 2, f) \cup Says(cands, 3, f)
             /\ \A k \in Says(cands, 1, f) : values[k] = cands[1][k]
             /\ \A k \in Says(cands, 2, f) \ Says(cands, 1, f) : values[k] = cands[2][k]
             /\ \A k \in Says(cands, 3, f) \ (Says(cands, 1, f) \cup Says(cands, 2, f)) :
                  values[k] = cands[3][k]
<1> DEFINE some(i) == {k \in DOMAIN cands[i] : cands[i][k] # ""}
<1>1. \A i : /\ DOMAIN NonEmpty(cands[i]) = some(i)
             /\ \A k \in some(i) : NonEmpty(cands[i])[k] = cands[i][k]
  BY DEF NonEmpty, RestrictValues, Restrict
<1>2. \A f, i : Says(cands, i, f) = {k \in some(i) : k \in DOMAIN headerFields /\ headerFields[k] = f}
  BY DEF Says, Spellings
<1> HIDE DEF some
<1>3. /\ DOMAIN values = some(1) \cup some(2) \cup some(3)
      /\ \A k \in DOMAIN values :
            values[k] = IF k \in some(1) THEN cands[1][k]
                        ELSE IF k \in some(2) THEN cands[2][k] ELSE cands[3][k]
  BY <1>1 DEF mergedValues, Over
<1>4. ASSUME NEW f
      PROVE  Spellings(f, values) = Says(cands, 1, f) \cup Says(cands, 2, f) \cup Says(cands, 3, f)
  BY <1>2, <1>3 DEF Spellings
<1> QED BY <1>2, <1>3, <1>4

\* The first of the three that says something decides.
LEMMA WinnerSays ==
    ASSUME NEW cands, cands = candidates(FirstHeaders), NEW f,
           NEW k, NEW m \in 1..3, Says(cands, m, f) = {k},
           \A i \in 1..3 : i < m => Says(cands, i, f) = {}
    PROVE  Winner(f) = {Cleaned(f, cands[m][k])}
<1> DEFINE said(i) == {cands[i][key] : key \in Spellings(f, cands[i])} \ {""}
           saying  == {i \in 1..3 : said(i) # {}}
           absent  == IF f = "PasswordHash" THEN {"0"} ELSE {}
<1>1. ASSUME NEW i PROVE said(i) = {cands[i][key] : key \in Says(cands, i, f)}
  BY DEF Says
<1>6. Winner(f) = IF saying = {} THEN {""}
                  ELSE {IF v \in absent THEN "" ELSE v : v \in said(Min(saying))}
  BY DEF Winner
<1> HIDE DEF said
<1>2. said(m) = {cands[m][k]}
  BY <1>1
<1>3. First(m, saying)
  <2>1. \A i \in 1..3 : i < m => said(i) = {}
    BY <1>1
  <2>2. m \in saying
    BY <1>2
  <2>3. \A i \in saying : m <= i
    BY <2>1
  <2> QED BY <2>2, <2>3 DEF First
<1>4. Min(saying) = m
  <2>1. saying \in SUBSET Nat
    OBVIOUS
  <2> HIDE DEF saying
  <2> QED BY <1>3, <2>1, MinFirst
<1>5. saying # {}
  BY <1>3 DEF First
<1> HIDE DEF saying
<1>7. Winner(f) = {IF v \in absent THEN "" ELSE v : v \in {cands[m][k]}}
  BY <1>2, <1>4, <1>5, <1>6
<1> QED BY <1>7 DEF Cleaned

LEMMA WinnerSilent ==
    ASSUME NEW cands, cands = candidates(FirstHeaders), NEW f,
           \A i \in 1..3 : Says(cands, i, f) = {}
    PROVE  Winner(f) = {""}
<1> DEFINE said(i) == {cands[i][key] : key \in Spellings(f, cands[i])} \ {""}
           saying  == {i \in 1..3 : said(i) # {}}
           absent  == IF f = "PasswordHash" THEN {"0"} ELSE {}
<1>1. ASSUME NEW i PROVE said(i) = {cands[i][key] : key \in Says(cands, i, f)}
  BY DEF Says
<1>2. \A i \in 1..3 : said(i) = {}
  BY <1>1
<1>3. saying = {}
  <2> HIDE DEF said
  <2> QED BY <1>2
<1>4. Winner(f) = IF saying = {} THEN {""}
                  ELSE {IF v \in absent THEN "" ELSE v : v \in said(Min(saying))}
  BY DEF Winner
<1> HIDE DEF saying, said
<1> QED BY <1>3, <1>4

LEMMA PrecedenceGiven == ASSUME ValuesInv, HeadersInv, Ground PROVE HeaderPrecedence
<1> SUFFICES ASSUME Parsed, file.version = 1, HasAcquisition(info), NEW f \in Texts,
                    \A k, l \in Spellings(f, info.Acquisition.Values) : k = l
             PROVE  info.Acquisition.text[f] \in Winner(f)
  BY DEF HeaderPrecedence
<1> DEFINE cands == candidates(FirstHeaders)
           acq == info.Acquisition
           values == acq.Values
<1>1. candidates(headers) = cands
  BY HeadersGiven DEF Parsed, Ground, ListsInv
<1>2. Applied(acq, {}, headers)
  BY DEF ValuesInv, Parsed
<1>3. values = mergedValues(cands)
  BY <1>1, <1>2 DEF Applied
<1> HIDE DEF cands
<1>4. /\ Spellings(f, values) = Says(cands, 1, f) \cup Says(cands, 2, f) \cup Says(cands, 3, f)
      /\ \A k \in Says(cands, 1, f) : values[k] = cands[1][k]
      /\ \A k \in Says(cands, 2, f) \ Says(cands, 1, f) : values[k] = cands[2][k]
      /\ \A k \in Says(cands, 3, f) \ (Says(cands, 1, f) \cup Says(cands, 2, f)) :
           values[k] = cands[3][k]
  BY <1>3, Merged
<1>5. CASE Spellings(f, values) = {}
  <2>1. \A i \in 1..3 : Says(cands, i, f) = {}
    BY <1>4, <1>5
  <2>2. Winner(f) = {""}
    BY <2>1, WinnerSilent DEF cands
  <2> QED BY <1>2, <1>5, <2>2 DEF Applied
<1>6. CASE Spellings(f, values) # {}
  <2>1. PICK k : Spellings(f, values) = {k}
    BY <1>6
  <2>2. acq.text[f] = Cleaned(f, values[k])
    BY <1>2, <2>1 DEF Applied
  <2>3. \A i \in 1..3 : Says(cands, i, f) = {} \/ Says(cands, i, f) = {k}
    BY <1>4, <2>1
  <2>4. \E m \in 1..3 : /\ Says(cands, m, f) = {k} /\ values[k] = cands[m][k]
                        /\ \A i \in 1..3 : i < m => Says(cands, i, f) = {}
    <3>1. CASE Says(cands, 1, f) = {k}
      BY <3>1, <1>4
    <3>2. CASE Says(cands, 1, f) = {} /\ Says(cands, 2, f) = {k}
      BY <3>2, <1>4
    <3>3. CASE Says(cands, 1, f) = {} /\ Says(cands, 2, f) = {}
      <4>1. Says(cands, 3, f) = {k}
        BY <3>3, <1>4, <2>1
      <4> QED BY <3>3, <4>1, <1>4
    <3> QED BY <2>3, <3>1, <3>2, <3>3
  <2>5. PICK m \in 1..3 : /\ Says(cands, m, f) = {k} /\ values[k] = cands[m][k]
                          /\ \A i \in 1..3 : i < m => Says(cands, i, f) = {}
    BY <2>4
  <2>6. Winner(f) = {Cleaned(f, cands[m][k])}
    BY <2>5, WinnerSays DEF cands
  <2> QED BY <2>2, <2>5, <2>6
<1> QED BY <1>5, <1>6

\* "the most capable encoding wins" (resolveAcquisition), for every field that is
\* spelled in one way: in every order of the sections, whatever they say, and
\* whichever way Go goes through the map.  A password "0" wins like any other value
\* and leaves the field blank.
THEOREM MostCapableWins == Spec => []HeaderPrecedence
<1>1. HeadersInv /\ Ground /\ [Next]_vars => HeadersInv'
  BY HeadersStep
<1>2. Init => ValuesInv
  <2>1. NoInfo.Acquisition.Source = ""
    BY DEF NoInfo, NoAcquisitionYet, NewAcquisition
  <2>2. Init => info = NoInfo /\ phase = "signature"
    BY DEF Init
  <2> QED BY <2>1, <2>2 DEF ValuesInv, HasAcquisition
<1>3. ValuesInv /\ Ground /\ [Next]_vars => ValuesInv'
  BY ValuesStep
<1>4. ValuesInv /\ HeadersInv /\ Ground => HeaderPrecedence
  BY PrecedenceGiven
<1> QED BY <1>1, <1>2, <1>3, <1>4, HeadersInit, GroundAlways, PTL DEF Spec

-----------------------------------------------------------------------------
(* The texts of a v2 segment *)

Blank(text) == text = ""

AcquisitionType(a) == DOMAIN a = DOMAIN NoAcquisitionYet /\ DOMAIN a.text = Texts

MediaType(m) == m = None \/ m \in MediaInfo

LEMMA MediaFields ==
    /\ DOMAIN ZeroMedia = {"MediaType", "NumberOfChunks", "SectorsPerChunk", "BytesPerSector",
                           "NumberOfSectors", "MediaFlags", "CompressionLevel",
                           "ErrorGranularity", "SetIdentifier"}
    /\ ZeroMedia \in MediaInfo
    /\ ZeroMedia.BytesPerSector = 0 /\ ZeroMedia.NumberOfSectors = 0
    /\ ZeroMedia.SectorsPerChunk = 0
  BY DEF ZeroMedia, MediaInfo

LEMMA EnsuredMedia == ASSUME NEW i, MediaType(i.Media) PROVE ensureMedia(i) \in MediaInfo
  BY MediaFields DEF MediaType, ensureMedia, Has

\* A number that is found is the one the text spells.
LEMMA NumberFound ==
    ASSUME NEW values, NEW key, Parses(Of(values, key), Uint64Room), NEW width \in Nat \ {0}
    PROVE  /\ Decimal[values[key]] % width \in Nat
           /\ Decimal[values[key]] % width = Number(Of(values, key), width)
<1>1. key \in DOMAIN values /\ values[key] = Of(values, key)
  BY PayloadAssumption DEF Of, Parses
<1>2. Decimal[values[key]] \in Nat
  BY <1>1, PayloadAssumption DEF Parses
<1>3. \A a \in Nat, b \in Nat \ {0} : a % b \in Nat
  BY SMT
<1> QED BY <1>1, <1>2, <1>3 DEF Number, Parses

LEMMA Width32 == Word32 \in Nat \ {0} /\ Uint64Room \in Nat \ {0}
<1>1. Word32 \in Nat \ {0}
  BY PayloadAssumption
<1>2. \A a \in Nat \ {0} : a * a \in Nat \ {0}
  BY SMT
<1> QED BY <1>1, <1>2 DEF Uint64Room

LEMMA NumbersSet ==
    ASSUME NEW media \in MediaInfo, NEW keyOf, NEW values
    PROVE  /\ setNumbers(media, keyOf, values) \in MediaInfo
           /\ \A f \in DOMAIN ZeroMedia :
                /\ f \notin DOMAIN keyOf => setNumbers(media, keyOf, values)[f] = media[f]
                /\ f \in DOMAIN keyOf /\ media[f] = 0 =>
                     setNumbers(media, keyOf, values)[f]
                       = Number(Of(values, keyOf[f]),
                                IF f \in {"NumberOfSectors", "NumberOfChunks"}
                                THEN Uint64Room ELSE Word32)
<1> DEFINE width(f) == IF f \in {"NumberOfSectors", "NumberOfChunks"}
                       THEN Uint64Room ELSE Word32
           found(f) == f \in DOMAIN keyOf /\ Parses(Of(values, keyOf[f]), Uint64Room)
<1>1. setNumbers(media, keyOf, values)
        = [f \in DOMAIN media |-> IF found(f) THEN Decimal[values[keyOf[f]]] % width(f) ELSE media[f]]
  BY DEF setNumbers
<1>2. DOMAIN media = DOMAIN ZeroMedia /\ \A f \in DOMAIN ZeroMedia : media[f] \in Nat
  BY DEF MediaInfo
<1>3. \A f : width(f) \in Nat \ {0}
  BY Width32
<1> HIDE DEF width
<1>4. \A f : found(f) => /\ Decimal[values[keyOf[f]]] % width(f) \in Nat
                         /\ Decimal[values[keyOf[f]]] % width(f) = Number(Of(values, keyOf[f]), width(f))
  BY <1>3, NumberFound
<1>5. \A f \in DOMAIN keyOf : ~found(f) => Number(Of(values, keyOf[f]), width(f)) = 0
  BY DEF Number, Parses
<1> HIDE DEF found
<1>6. setNumbers(media, keyOf, values) \in MediaInfo
  BY <1>1, <1>2, <1>4 DEF MediaInfo
<1>7. \A f \in DOMAIN ZeroMedia :
         /\ f \notin DOMAIN keyOf => setNumbers(media, keyOf, values)[f] = media[f]
         /\ f \in DOMAIN keyOf /\ media[f] = 0 =>
              setNumbers(media, keyOf, values)[f] = Number(Of(values, keyOf[f]), width(f))
  <2>1. \A f \in DOMAIN ZeroMedia :
           setNumbers(media, keyOf, values)[f]
             = IF found(f) THEN Decimal[values[keyOf[f]]] % width(f) ELSE media[f]
    BY <1>1, <1>2
  <2>2. \A f : found(f) => f \in DOMAIN keyOf
    BY DEF found
  <2> QED BY <1>4, <1>5, <2>1, <2>2
<1> QED BY <1>6, <1>7 DEF width

LEMMA TextsSet ==
    ASSUME NEW acq, AcquisitionType(acq), NEW keyOf, NEW values
    PROVE  /\ AcquisitionType(setTexts(acq, keyOf, values))
           /\ setTexts(acq, keyOf, values).Source = acq.Source
  BY DEF AcquisitionType, setTexts, NoAcquisitionYet, NewAcquisition

LEMMA TextKept ==
    ASSUME NEW acq, AcquisitionType(acq), NEW keyOf, NEW values, NEW f \in Texts,
           f \notin DOMAIN keyOf
    PROVE  setTexts(acq, keyOf, values).text[f] = acq.text[f]
  BY DEF AcquisitionType, setTexts, NoAcquisitionYet, NewAcquisition

LEMMA TextFilled ==
    ASSUME NEW acq, AcquisitionType(acq), NEW keyOf, NEW values, NEW f \in Texts,
           f \in DOMAIN keyOf, Blank(acq.text[f])
    PROVE  setTexts(acq, keyOf, values).text[f] = Of(values, keyOf[f])
  BY DEF Blank, AcquisitionType, setTexts, NoAcquisitionYet, NewAcquisition

LEMMA EnsuredAcquisition ==
    ASSUME NEW i, AcquisitionType(i.Acquisition)
    PROVE  /\ AcquisitionType(ensureAcquisition(i))
           /\ ensureAcquisition(i).Source # ""
           /\ HasAcquisition(i) => ensureAcquisition(i) = i.Acquisition
           /\ ~HasAcquisition(i) => \A f \in Texts : Blank(ensureAcquisition(i).text[f])
  BY DEF Blank, AcquisitionType, ensureAcquisition, HasAcquisition, NoAcquisitionYet, NewAcquisition

LEMMA DeviceSays ==
    ASSUME NEW i, DOMAIN i = DOMAIN NoInfo, MediaType(i.Media), AcquisitionType(i.Acquisition),
           NEW values, DOMAIN values # {}, NEW next, next = parseDeviceInformationV2(values, i)
    PROVE  /\ next.Media \in MediaInfo /\ AcquisitionType(next.Acquisition)
           /\ HasAcquisition(next)
           /\ HasAcquisition(i) => next.Acquisition.Source = i.Acquisition.Source
           /\ next.Media.SectorsPerChunk = ensureMedia(i).SectorsPerChunk
           /\ ensureMedia(i).BytesPerSector = 0 =>
                next.Media.BytesPerSector = Number(Of(values, "bp"), Word32)
           /\ ensureMedia(i).NumberOfSectors = 0 =>
                next.Media.NumberOfSectors = Number(Of(values, "ts"), Uint64Room)
           /\ next.Acquisition.text["CaseNumber"] = ensureAcquisition(i).text["CaseNumber"]
           /\ Blank(ensureAcquisition(i).text["Model"]) =>
                next.Acquisition.text["Model"] = Of(values, "md")
<1> DEFINE numbers == [BytesPerSector |-> "bp", NumberOfSectors |-> "ts"]
           texts == [Model |-> "md", SerialNumber |-> "sn", DeviceLabel |-> "lb",
                     ProcessIdentifier |-> "pid"]
           type  == Of(values, "dt")
           media == setNumbers(ensureMedia(i), numbers, values)
<1>1. /\ next.Media = [media EXCEPT
             !.MediaType  = IF type \in DOMAIN ewf2MediaType THEN ewf2MediaType[type] ELSE @,
             !.MediaFlags = IF Of(values, "ph") = "1" THEN MediaFlagPhysical ELSE @]
      /\ next.Acquisition = setTexts(ensureAcquisition(i), texts, values)
  BY DEF parseDeviceInformationV2, NoInfo
<1>2. ensureMedia(i) \in MediaInfo
  BY EnsuredMedia
<1>3. DOMAIN numbers = {"BytesPerSector", "NumberOfSectors"}
      /\ numbers.BytesPerSector = "bp" /\ numbers.NumberOfSectors = "ts"
  OBVIOUS
<1>4. DOMAIN texts = {"Model", "SerialNumber", "DeviceLabel", "ProcessIdentifier"}
      /\ texts["Model"] = "md"
  OBVIOUS
<1> HIDE DEF numbers, texts
<1>5. /\ media \in MediaInfo
      /\ media.SectorsPerChunk = ensureMedia(i).SectorsPerChunk
      /\ ensureMedia(i).BytesPerSector = 0 =>
           media.BytesPerSector = Number(Of(values, "bp"), Word32)
      /\ ensureMedia(i).NumberOfSectors = 0 =>
           media.NumberOfSectors = Number(Of(values, "ts"), Uint64Room)
  <2>1. /\ media \in MediaInfo
        /\ \A f \in DOMAIN ZeroMedia :
             /\ f \notin DOMAIN numbers => media[f] = ensureMedia(i)[f]
             /\ f \in DOMAIN numbers /\ ensureMedia(i)[f] = 0 =>
                  media[f] = Number(Of(values, numbers[f]),
                                    IF f \in {"NumberOfSectors", "NumberOfChunks"}
                                    THEN Uint64Room ELSE Word32)
    BY <1>2, NumbersSet
  <2> HIDE DEF media
  <2>2. media.SectorsPerChunk = ensureMedia(i).SectorsPerChunk
    BY <1>3, <2>1, MediaFields
  <2>3. ensureMedia(i).BytesPerSector = 0 =>
          media.BytesPerSector = Number(Of(values, "bp"), Word32)
    BY <1>3, <2>1, MediaFields
  <2>4. ensureMedia(i).NumberOfSectors = 0 =>
          media.NumberOfSectors = Number(Of(values, "ts"), Uint64Room)
    BY <1>3, <2>1, MediaFields
  <2> QED BY <2>1, <2>2, <2>3, <2>4
<1>6. /\ next.Media \in MediaInfo
      /\ next.Media.SectorsPerChunk = media.SectorsPerChunk
      /\ next.Media.BytesPerSector = media.BytesPerSector
      /\ next.Media.NumberOfSectors = media.NumberOfSectors
  <2> HIDE DEF media
  <2>1. \A t \in DOMAIN ewf2MediaType : ewf2MediaType[t] \in Nat
    BY DEF ewf2MediaType
  <2>2. /\ \A f \in DOMAIN ZeroMedia : media[f] \in Nat
        /\ media = [f \in DOMAIN ZeroMedia |-> media[f]]
    BY <1>5 DEF MediaInfo
  <2>3. MediaFlagPhysical \in Nat
    BY DEF MediaFlagPhysical
  <2>4. next.Media = [f \in DOMAIN ZeroMedia |->
           CASE f = "MediaType" -> IF type \in DOMAIN ewf2MediaType THEN ewf2MediaType[type]
                                   ELSE media[f]
             [] f = "MediaFlags" -> IF Of(values, "ph") = "1" THEN MediaFlagPhysical ELSE media[f]
             [] OTHER -> media[f]]
    BY <1>1, <2>2, MediaFields
  <2> HIDE DEF type
  <2> QED BY <2>1, <2>2, <2>3, <2>4, MediaFields DEF MediaInfo
<1>7. /\ AcquisitionType(next.Acquisition)
      /\ next.Acquisition.Source = ensureAcquisition(i).Source
  <2>1. AcquisitionType(ensureAcquisition(i))
    BY EnsuredAcquisition
  <2>2. /\ AcquisitionType(setTexts(ensureAcquisition(i), texts, values))
        /\ setTexts(ensureAcquisition(i), texts, values).Source = ensureAcquisition(i).Source
    BY <2>1, TextsSet
  <2>3. next.Acquisition = setTexts(ensureAcquisition(i), texts, values)
    BY <1>1
  <2> QED BY <2>2, <2>3
<1>8. "Model" \in Texts /\ "CaseNumber" \in Texts
  BY DEF Texts
<1>9. /\ next.Acquisition.text["CaseNumber"] = ensureAcquisition(i).text["CaseNumber"]
      /\ Blank(ensureAcquisition(i).text["Model"]) =>
           next.Acquisition.text["Model"] = Of(values, "md")
  <2>1. AcquisitionType(ensureAcquisition(i))
    BY EnsuredAcquisition
  <2>2. setTexts(ensureAcquisition(i), texts, values).text["CaseNumber"]
          = ensureAcquisition(i).text["CaseNumber"]
    BY <1>4, <1>8, <2>1, TextKept
  <2>3. Blank(ensureAcquisition(i).text["Model"]) =>
          setTexts(ensureAcquisition(i), texts, values).text["Model"] = Of(values, texts["Model"])
    BY <1>4, <1>8, <2>1, TextFilled
  <2> QED BY <1>1, <1>4, <2>2, <2>3
<1>10. /\ HasAcquisition(next)
       /\ HasAcquisition(i) => next.Acquisition.Source = i.Acquisition.Source
  BY <1>7, EnsuredAcquisition DEF HasAcquisition
<1> QED BY <1>5, <1>6, <1>7, <1>9, <1>10

LEMMA CaseSays ==
    ASSUME NEW i, DOMAIN i = DOMAIN NoInfo, MediaType(i.Media), AcquisitionType(i.Acquisition),
           NEW values, DOMAIN values # {}, NEW next, next = parseCaseDataV2(values, i)
    PROVE  /\ next.Media \in MediaInfo /\ AcquisitionType(next.Acquisition)
           /\ next.Acquisition.Source = "case_data"
           /\ next.Media.BytesPerSector = ensureMedia(i).BytesPerSector
           /\ next.Media.NumberOfSectors = ensureMedia(i).NumberOfSectors
           /\ ensureMedia(i).SectorsPerChunk = 0 =>
                next.Media.SectorsPerChunk = Number(Of(values, "sb"), Word32)
           /\ next.Acquisition.text["Model"] = ensureAcquisition(i).text["Model"]
           /\ Blank(ensureAcquisition(i).text["CaseNumber"]) =>
                next.Acquisition.text["CaseNumber"] = Of(values, "cn")
<1> DEFINE numbers == [SectorsPerChunk |-> "sb", NumberOfChunks |-> "tb", ErrorGranularity |-> "gr"]
           texts == [Description |-> "nm", CaseNumber |-> "cn", EvidenceNumber |-> "en",
                     ExaminerName |-> "ex", Notes |-> "nt", SoftwareVersion |-> "av",
                     OperatingSystem |-> "os", CompressionType |-> "cp"]
           dates == [AcquiryDate |-> Of(values, "at"), SystemDate |-> Of(values, "tt")]
           media == setNumbers(ensureMedia(i), numbers, values)
           set == setTexts(ensureAcquisition(i), texts, values)
<1>1. /\ next.Media = media
      /\ next.Acquisition = [setDates(set, dates) EXCEPT !.Source = "case_data"]
  BY DEF parseCaseDataV2, NoInfo
<1>2. ensureMedia(i) \in MediaInfo
  BY EnsuredMedia
<1>3. /\ DOMAIN numbers = {"SectorsPerChunk", "NumberOfChunks", "ErrorGranularity"}
      /\ numbers.SectorsPerChunk = "sb"
  OBVIOUS
<1>4. /\ "Model" \notin DOMAIN texts /\ "CaseNumber" \in DOMAIN texts
      /\ texts["CaseNumber"] = "cn"
  OBVIOUS
<1> HIDE DEF numbers, texts, dates
<1>5. /\ media \in MediaInfo
      /\ media.BytesPerSector = ensureMedia(i).BytesPerSector
      /\ media.NumberOfSectors = ensureMedia(i).NumberOfSectors
      /\ ensureMedia(i).SectorsPerChunk = 0 =>
           media.SectorsPerChunk = Number(Of(values, "sb"), Word32)
  <2>1. /\ media \in MediaInfo
        /\ \A f \in DOMAIN ZeroMedia :
             /\ f \notin DOMAIN numbers => media[f] = ensureMedia(i)[f]
             /\ f \in DOMAIN numbers /\ ensureMedia(i)[f] = 0 =>
                  media[f] = Number(Of(values, numbers[f]),
                                    IF f \in {"NumberOfSectors", "NumberOfChunks"}
                                    THEN Uint64Room ELSE Word32)
    BY <1>2, NumbersSet
  <2> HIDE DEF media
  <2>2. /\ media.BytesPerSector = ensureMedia(i).BytesPerSector
        /\ media.NumberOfSectors = ensureMedia(i).NumberOfSectors
    BY <1>3, <2>1, MediaFields
  <2>3. ensureMedia(i).SectorsPerChunk = 0 =>
          media.SectorsPerChunk = Number(Of(values, "sb"), Word32)
    BY <1>3, <2>1, MediaFields
  <2> QED BY <2>1, <2>2, <2>3
<1>6. AcquisitionType(set)
  BY EnsuredAcquisition, TextsSet
<1>8. "Model" \in Texts /\ "CaseNumber" \in Texts
  BY DEF Texts
<1>9. /\ set.text["Model"] = ensureAcquisition(i).text["Model"]
      /\ Blank(ensureAcquisition(i).text["CaseNumber"]) =>
           set.text["CaseNumber"] = Of(values, "cn")
  <2>1. AcquisitionType(ensureAcquisition(i))
    BY EnsuredAcquisition
  <2>2. set.text["Model"] = ensureAcquisition(i).text["Model"]
    BY <1>4, <1>8, <2>1, TextKept
  <2>3. Blank(ensureAcquisition(i).text["CaseNumber"]) =>
          set.text["CaseNumber"] = Of(values, texts["CaseNumber"])
    BY <1>4, <1>8, <2>1, TextFilled
  <2> QED BY <1>4, <2>2, <2>3
<1> HIDE DEF set, media
<1>7. /\ AcquisitionType(next.Acquisition) /\ next.Acquisition.text = set.text
      /\ next.Acquisition.Source = "case_data"
  BY <1>1, <1>6 DEF AcquisitionType, setDates, NoAcquisitionYet, NewAcquisition
<1> QED BY <1>1, <1>5, <1>7, <1>9

\* The record that the texts met so far make: D of device_information, C of case_data.
Record(i, D, C, texts) ==
    /\ MediaType(i.Media) /\ AcquisitionType(i.Acquisition)
    /\ D # {} \/ C # {} => Has(i.Media) /\ HasAcquisition(i)
    /\ D = {} => /\ ensureMedia(i).BytesPerSector = 0
                 /\ ensureMedia(i).NumberOfSectors = 0
                 /\ Blank(i.Acquisition.text["Model"])
    /\ C = {} => /\ ensureMedia(i).SectorsPerChunk = 0
                 /\ Blank(i.Acquisition.text["CaseNumber"])
    /\ \A j : D = {j} =>
         /\ ensureMedia(i).BytesPerSector = Number(Of(texts[j], "bp"), Word32)
         /\ ensureMedia(i).NumberOfSectors = Number(Of(texts[j], "ts"), Uint64Room)
         /\ i.Acquisition.text["Model"] = Of(texts[j], "md")
    /\ \A k : C = {k} =>
         /\ ensureMedia(i).SectorsPerChunk = Number(Of(texts[k], "sb"), Word32)
         /\ i.Acquisition.text["CaseNumber"] = Of(texts[k], "cn")
    /\ C # {} => i.Acquisition.Source = "case_data"

LEMMA MediaIsThere == \A m \in MediaInfo : Has(m)
  BY PayloadAssumption DEF Has

\* ensureAcquisition loses nothing of a record.
LEMMA RecordEnsured ==
    ASSUME NEW i, NEW D, NEW C, NEW texts, Record(i, D, C, texts)
    PROVE  \A f \in {"Model", "CaseNumber"} :
              ensureAcquisition(i).text[f] = i.Acquisition.text[f]
<1>1. CASE HasAcquisition(i)
  BY <1>1 DEF ensureAcquisition
<1>2. CASE ~HasAcquisition(i)
  <2>1. \A f \in {"Model", "CaseNumber"} : Blank(i.Acquisition.text[f])
    BY <1>2 DEF Record
  <2>2. {"Model", "CaseNumber"} \subseteq Texts
    BY DEF Texts
  <2>3. \A x, y : Blank(x) /\ Blank(y) => x = y
    BY DEF Blank
  <2>4. \A f \in {"Model", "CaseNumber"} : Blank(ensureAcquisition(i).text[f])
    BY <1>2, <2>2, EnsuredAcquisition DEF Record
  <2> QED BY <2>1, <2>3, <2>4
<1> QED BY <1>1, <1>2

LEMMA RecordDevice ==
    ASSUME NEW i, DOMAIN i = DOMAIN NoInfo, NEW D, NEW C, NEW texts, Record(i, D, C, texts),
           NEW p, p \notin D, DOMAIN texts[p] # {}, NEW next,
           next = parseDeviceInformationV2(texts[p], i)
    PROVE  Record(next, D \cup {p}, C, texts)
<1>1. MediaType(i.Media) /\ AcquisitionType(i.Acquisition)
  BY DEF Record
<1>2. /\ next.Media \in MediaInfo /\ AcquisitionType(next.Acquisition)
      /\ HasAcquisition(next)
      /\ HasAcquisition(i) => next.Acquisition.Source = i.Acquisition.Source
      /\ next.Media.SectorsPerChunk = ensureMedia(i).SectorsPerChunk
      /\ ensureMedia(i).BytesPerSector = 0 =>
           next.Media.BytesPerSector = Number(Of(texts[p], "bp"), Word32)
      /\ ensureMedia(i).NumberOfSectors = 0 =>
           next.Media.NumberOfSectors = Number(Of(texts[p], "ts"), Uint64Room)
      /\ next.Acquisition.text["CaseNumber"] = ensureAcquisition(i).text["CaseNumber"]
      /\ Blank(ensureAcquisition(i).text["Model"]) =>
           next.Acquisition.text["Model"] = Of(texts[p], "md")
  BY <1>1, DeviceSays
<1>3. ensureMedia(next) = next.Media /\ Has(next.Media)
  BY <1>2, MediaIsThere DEF ensureMedia
<1>4. /\ ensureAcquisition(i).text["Model"] = i.Acquisition.text["Model"]
      /\ ensureAcquisition(i).text["CaseNumber"] = i.Acquisition.text["CaseNumber"]
  BY RecordEnsured
<1>5. \A j : D \cup {p} = {j} => j = p /\ D = {}
  OBVIOUS
<1>6. /\ C = {} => /\ ensureMedia(next).SectorsPerChunk = 0
                   /\ Blank(next.Acquisition.text["CaseNumber"])
      /\ \A k : C = {k} =>
           /\ ensureMedia(next).SectorsPerChunk = Number(Of(texts[k], "sb"), Word32)
           /\ next.Acquisition.text["CaseNumber"] = Of(texts[k], "cn")
  BY <1>2, <1>3, <1>4 DEF Record
<1>7. \A j : D \cup {p} = {j} =>
         /\ ensureMedia(next).BytesPerSector = Number(Of(texts[j], "bp"), Word32)
         /\ ensureMedia(next).NumberOfSectors = Number(Of(texts[j], "ts"), Uint64Room)
         /\ next.Acquisition.text["Model"] = Of(texts[j], "md")
  BY <1>2, <1>3, <1>4, <1>5 DEF Record
<1>8. C # {} => next.Acquisition.Source = "case_data"
  BY <1>2 DEF Record
<1> QED BY <1>2, <1>3, <1>6, <1>7, <1>8 DEF Record, MediaType

LEMMA RecordCase ==
    ASSUME NEW i, DOMAIN i = DOMAIN NoInfo, NEW D, NEW C, NEW texts, Record(i, D, C, texts),
           NEW p, p \notin C, DOMAIN texts[p] # {}, NEW next,
           next = parseCaseDataV2(texts[p], i)
    PROVE  Record(next, D, C \cup {p}, texts)
<1>1. MediaType(i.Media) /\ AcquisitionType(i.Acquisition)
  BY DEF Record
<1>2. /\ next.Media \in MediaInfo /\ AcquisitionType(next.Acquisition)
      /\ next.Acquisition.Source = "case_data"
      /\ next.Media.BytesPerSector = ensureMedia(i).BytesPerSector
      /\ next.Media.NumberOfSectors = ensureMedia(i).NumberOfSectors
      /\ ensureMedia(i).SectorsPerChunk = 0 =>
           next.Media.SectorsPerChunk = Number(Of(texts[p], "sb"), Word32)
      /\ next.Acquisition.text["Model"] = ensureAcquisition(i).text["Model"]
      /\ Blank(ensureAcquisition(i).text["CaseNumber"]) =>
           next.Acquisition.text["CaseNumber"] = Of(texts[p], "cn")
  BY <1>1, CaseSays
<1>3. ensureMedia(next) = next.Media /\ Has(next.Media) /\ HasAcquisition(next)
  BY <1>2, MediaIsThere DEF ensureMedia, HasAcquisition
<1>4. /\ ensureAcquisition(i).text["Model"] = i.Acquisition.text["Model"]
      /\ ensureAcquisition(i).text["CaseNumber"] = i.Acquisition.text["CaseNumber"]
  BY RecordEnsured
<1>5. \A k : C \cup {p} = {k} => k = p /\ C = {}
  OBVIOUS
<1>6. /\ D = {} => /\ ensureMedia(next).BytesPerSector = 0
                   /\ ensureMedia(next).NumberOfSectors = 0
                   /\ Blank(next.Acquisition.text["Model"])
      /\ \A j : D = {j} =>
           /\ ensureMedia(next).BytesPerSector = Number(Of(texts[j], "bp"), Word32)
           /\ ensureMedia(next).NumberOfSectors = Number(Of(texts[j], "ts"), Uint64Room)
           /\ next.Acquisition.text["Model"] = Of(texts[j], "md")
  BY <1>2, <1>3, <1>4 DEF Record
<1>7. \A k : C \cup {p} = {k} =>
         /\ ensureMedia(next).SectorsPerChunk = Number(Of(texts[k], "sb"), Word32)
         /\ next.Acquisition.text["CaseNumber"] = Of(texts[k], "cn")
  BY <1>2, <1>3, <1>4, <1>5 DEF Record
<1> QED BY <1>2, <1>3, <1>6, <1>7 DEF Record, MediaType

\* The sections of a type that are texts and say something.
Telling(type) == {k \in Bodies({type}) : DOMAIN TextAt(k) # {}}

AllTexts == [k \in 1..Len(sections) |-> TextAt(k)]

\* A v2 segment has no header section, and its record is that of its texts.
TextsInv ==
    file.version = 2 =>
      /\ phase # "values"
      /\ Record(info, Seen(Telling("device_information"), at), Seen(Telling("case_data"), at),
                AllTexts)

LEMMA RecordSame ==
    ASSUME NEW i, NEW D, NEW C, NEW texts, Record(i, D, C, texts), NEW next,
           next.Media = i.Media, next.Acquisition = i.Acquisition
    PROVE  Record(next, D, C, texts)
<1>1. ensureMedia(next) = ensureMedia(i) /\ (HasAcquisition(next) <=> HasAcquisition(i))
  BY DEF ensureMedia, HasAcquisition
<1> QED BY <1>1 DEF Record

LEMMA RecordNone ==
    ASSUME NEW i, NEW texts, NEW other, Record(i, {}, {}, texts)
    PROVE  Record(i, {}, {}, other)
  BY DEF Record

LEMMA TellingType == \A type : Telling(type) \in SUBSET (1..Len(sections))
  BY DEF Telling, Bodies

LEMMA NoneTold == \A type : Seen(Telling(type), 1) = {}
  BY TellingType DEF Seen

LEMMA TellingHere ==
    ASSUME at \in 1..Len(sections), NEW type
    PROVE  /\ AllTexts[at] = decodeHeaderText(Body(section), "utf16")
           /\ at \in Telling(type) <=>
                 HasBody(section) /\ section.Type = type /\ DOMAIN AllTexts[at] # {}
<1>1. AllTexts[at] = TextAt(at) /\ TextAt(at) = decodeHeaderText(Body(section), "utf16")
  BY DEF AllTexts, TextAt, section
<1>2. at \in Bodies({type}) <=> HasBody(section) /\ section.Type = type
  BY DEF Bodies, section
<1> QED BY <1>1, <1>2 DEF Telling

LEMMA TellingStay ==
    ASSUME file' = file, sections' = sections
    PROVE  /\ \A type : Telling(type)' = Telling(type)
           /\ AllTexts' = AllTexts
<1>1. /\ \A types : Bodies(types)' = Bodies(types)
      /\ \A s : Body(s)' = Body(s)
  BY DEF Bodies, HasBody, Body
<1>2. \A k : TextAt(k)' = TextAt(k)
  BY <1>1 DEF TextAt
<1> QED BY <1>1, <1>2 DEF Telling, AllTexts

\* A turn of the loop, and what it makes of the record.
LEMMA TextsPass ==
    ASSUME Ground, at \in 1..Len(sections), file' = file, sections' = sections, at' = at + 1,
           NEW D, D = (IF at \in Telling("device_information")
                       THEN Seen(Telling("device_information"), at) \cup {at}
                       ELSE Seen(Telling("device_information"), at)),
           NEW C, C = (IF at \in Telling("case_data")
                       THEN Seen(Telling("case_data"), at) \cup {at}
                       ELSE Seen(Telling("case_data"), at))
    PROVE  /\ Seen(Telling("device_information"), at)' = D
           /\ Seen(Telling("case_data"), at)' = C
           /\ AllTexts' = AllTexts
<1>1. at \in Nat /\ \A type : Telling(type) \in SUBSET Nat
  BY TellingType
<1>2. /\ Seen(Telling("device_information"), at + 1) = D
      /\ Seen(Telling("case_data"), at + 1) = C
  BY <1>1, SeenNext
<1>3. /\ \A type : Telling(type)' = Telling(type)
      /\ AllTexts' = AllTexts
  BY TellingStay
<1> QED BY <1>2, <1>3 DEF Seen

LEMMA DeviceTurn ==
    ASSUME TextsInv, Ground, file.version = 2, TakeDeviceInformation
    PROVE  TextsInv'
<1> DEFINE values == AllTexts[at]
           D == Seen(Telling("device_information"), at)
           C == Seen(Telling("case_data"), at)
<1>1. /\ file' = file /\ sections' = sections /\ at' = at + 1 /\ at \in 1..Len(sections)
      /\ HasBody(section) /\ section.Type = "device_information"
      /\ phase' = "bodies" /\ DOMAIN info = DOMAIN NoInfo
      /\ info' = parseDeviceInformationV2(decodeHeaderText(Body(section), "utf16"), info)
  BY DEF TakeDeviceInformation, AtBody, Consume, chainVars, Ground, ListsInv
<1>2. info' = parseDeviceInformationV2(values, info)
  BY <1>1, TellingHere
<1>3. at \notin Telling("case_data")
  BY <1>1, TellingHere
<1>4. at \in Telling("device_information") <=> DOMAIN values # {}
  BY <1>1, TellingHere
<1>5. Record(info, D, C, AllTexts)
  BY DEF TextsInv
<1>6. at \notin D
  BY <1>1 DEF Seen
<1>7. CASE DOMAIN values # {}
  <2>1. Record(info', D \cup {at}, C, AllTexts)
    BY <1>1, <1>2, <1>5, <1>6, <1>7, RecordDevice
  <2>2. /\ Seen(Telling("device_information"), at)' = D \cup {at}
        /\ Seen(Telling("case_data"), at)' = C
        /\ AllTexts' = AllTexts
    BY <1>1, <1>3, <1>4, <1>7, TextsPass
  <2> QED BY <1>1, <2>1, <2>2 DEF TextsInv
<1>8. CASE DOMAIN values = {}
  <2>1. info' = info
    BY <1>2, <1>8 DEF parseDeviceInformationV2
  <2>2. /\ Seen(Telling("device_information"), at)' = D
        /\ Seen(Telling("case_data"), at)' = C
        /\ AllTexts' = AllTexts
    BY <1>1, <1>3, <1>4, <1>8, TextsPass
  <2> QED BY <1>1, <1>5, <2>1, <2>2 DEF TextsInv
<1> QED BY <1>7, <1>8

LEMMA CaseTurn ==
    ASSUME TextsInv, Ground, file.version = 2, TakeCaseData
    PROVE  TextsInv'
<1> DEFINE values == AllTexts[at]
           D == Seen(Telling("device_information"), at)
           C == Seen(Telling("case_data"), at)
<1>1. /\ file' = file /\ sections' = sections /\ at' = at + 1 /\ at \in 1..Len(sections)
      /\ HasBody(section) /\ section.Type = "case_data"
      /\ phase' = "bodies" /\ DOMAIN info = DOMAIN NoInfo
      /\ info' = parseCaseDataV2(decodeHeaderText(Body(section), "utf16"), info)
  BY DEF TakeCaseData, AtBody, Consume, chainVars, Ground, ListsInv
<1>2. info' = parseCaseDataV2(values, info)
  BY <1>1, TellingHere
<1>3. at \notin Telling("device_information")
  BY <1>1, TellingHere
<1>4. at \in Telling("case_data") <=> DOMAIN values # {}
  BY <1>1, TellingHere
<1>5. Record(info, D, C, AllTexts)
  BY DEF TextsInv
<1>6. at \notin C
  BY <1>1 DEF Seen
<1>7. CASE DOMAIN values # {}
  <2>1. Record(info', D, C \cup {at}, AllTexts)
    BY <1>1, <1>2, <1>5, <1>6, <1>7, RecordCase
  <2>2. /\ Seen(Telling("device_information"), at)' = D
        /\ Seen(Telling("case_data"), at)' = C \cup {at}
        /\ AllTexts' = AllTexts
    BY <1>1, <1>3, <1>4, <1>7, TextsPass
  <2> QED BY <1>1, <2>1, <2>2 DEF TextsInv
<1>8. CASE DOMAIN values = {}
  <2>1. info' = info
    BY <1>2, <1>8 DEF parseCaseDataV2
  <2>2. /\ Seen(Telling("device_information"), at)' = D
        /\ Seen(Telling("case_data"), at)' = C
        /\ AllTexts' = AllTexts
    BY <1>1, <1>3, <1>4, <1>8, TextsPass
  <2> QED BY <1>1, <1>5, <2>1, <2>2 DEF TextsInv
<1> QED BY <1>7, <1>8

\* The other sections leave the record alone.
LEMMA OtherTexts ==
    ASSUME TextsInv, Ground, file.version = 2,
           \/ SkipBody \/ PassBody \/ TakeDigest \/ TakeSessions \/ TakeErrors
           \/ TakeXHash \/ TakeHeader
    PROVE  TextsInv'
<1> DEFINE D == Seen(Telling("device_information"), at)
           C == Seen(Telling("case_data"), at)
<1>1. /\ file' = file /\ sections' = sections /\ at' = at + 1 /\ at \in 1..Len(sections)
      /\ phase' = "bodies" /\ DOMAIN info = DOMAIN NoInfo
  BY DEF SkipBody, PassBody, TakeDigest, TakeSessions, TakeErrors, TakeXHash, TakeHeader,
     AtBody, Consume, chainVars, Ground, ListsInv
<1>2. ~HasBody(section) \/ section.Type \notin {"device_information", "case_data"}
  BY DEF SkipBody, PassBody, TakeDigest, TakeSessions, TakeErrors, TakeXHash, TakeHeader, AtBody
<1>3. at \notin Telling("device_information") /\ at \notin Telling("case_data")
  BY <1>1, <1>2, TellingHere
<1>4. info'.Media = info.Media /\ info'.Acquisition = info.Acquisition
  <2>1. CASE SkipBody \/ PassBody \/ TakeHeader
    BY <2>1 DEF SkipBody, PassBody, TakeHeader, Consume
  <2>2. CASE TakeDigest
    BY <1>1, <2>2 DEF TakeDigest, Consume, parseMD5LikeSection, parseSHA1Section, NoInfo
  <2>3. CASE TakeSessions
    BY <1>1, <2>3 DEF TakeSessions, Consume, parseSessionSection, NoInfo
  <2>4. CASE TakeErrors
    BY <1>1, <2>4 DEF TakeErrors, Consume, parseErrorSection, NoInfo
  <2>5. CASE TakeXHash
    BY <1>1, <2>5 DEF TakeXHash, Consume, parseXHashSection, NoInfo
  <2> QED BY <2>1, <2>2, <2>3, <2>4, <2>5
<1>5. Record(info', D, C, AllTexts)
  BY <1>4, RecordSame DEF TextsInv
<1>6. /\ Seen(Telling("device_information"), at)' = D
      /\ Seen(Telling("case_data"), at)' = C
      /\ AllTexts' = AllTexts
  BY <1>1, <1>3, TextsPass
<1> QED BY <1>1, <1>5, <1>6 DEF TextsInv

\* No header section is met in a v2 segment, so there is nothing to resolve.
LEMMA NoHeadersV2 ==
    ASSUME HeadersInv, Ground, file.version = 2
    PROVE  ~ResolveAcquisition
<1>1. \A name \in Headers : Named(name) = {}
  BY DEF Ground, NamesInv, Named, Bodies, Headers
<1>2. \A name \in Headers : ~Has(headers[name])
  BY <1>1 DEF HeadersInv, Seen, Has
<1>3. \A i \in 1..3 : candidates(headers)[i] = <<>>
  <2>1. \A i \in 1..3 : Precedence[i] \in Headers
    BY DEF Precedence, Headers
  <2> QED BY <1>2, <2>1 DEF candidates
<1>4. Saying(candidates(headers)) = {}
  <2> DEFINE cands == candidates(headers)
  <2>1. \A i \in 1..3 : cands[i] = <<>>
    BY <1>3
  <2> HIDE DEF cands
  <2>2. Saying(cands) = {}
    BY <2>1 DEF Saying
  <2> QED BY <2>2 DEF cands
<1> QED BY <1>4, Zenon DEF ResolveAcquisition

LEMMA TextsStep == ASSUME TextsInv, HeadersInv, Ground, [Next]_vars PROVE TextsInv'
<1>1. /\ at \in Nat \ {0}
      /\ phase \in {"signature", "sections"} => at = 1
  BY DEF Ground, ListsInv
<1>2. file' = file
  BY DEF Next, ReadHeader, RefuseHeader, WalkSections, Consume, SkipBody,
     PassBody, TakeDeviceInformation, TakeCaseData, TakeDigest, TakeSessions, TakeErrors,
     TakeXHash, TakeHeader, NoAcquisition, ResolveAcquisition, ApplyHeaderValue,
     ApplyHeaderDates, vars, chainVars, ChainNext, UnsupportedVersion, Fail, StartV1, WalkV1,
     UnreadableV1, ExhaustedV1, StartV2, NoStartV2, WalkV2, UnreadableV2, FinishV2, NotFoundV2
<1> SUFFICES ASSUME file.version = 2 PROVE TextsInv'
  BY <1>2 DEF TextsInv
<1>3. phase # "values"
        /\ Record(info, Seen(Telling("device_information"), at), Seen(Telling("case_data"), at),
                  AllTexts)
  BY DEF TextsInv
<1>4. CASE ReadHeader \/ RefuseHeader \/ WalkSections
  <2>1. /\ at = 1 /\ at' = 1 /\ info' = info
        /\ phase' \in {"sections", "failed", "bodies"}
    BY <1>1, <1>4 DEF ReadHeader, RefuseHeader, WalkSections
  <2>2. \A type : Seen(Telling(type), 1) = {}
    BY NoneTold
  <2>3. (\A type : Seen(Telling(type), 1) = {})'
    BY NoneTold, PTL
  <2>4. Record(info, {}, {}, AllTexts')
    BY <1>3, <2>1, <2>2, RecordNone
  <2> QED BY <2>1, <2>3, <2>4 DEF TextsInv
<1>5. CASE NoAcquisition \/ UNCHANGED vars
  <2>1. /\ file' = file /\ sections' = sections /\ at' = at /\ info' = info
        /\ phase' # "values"
    BY <1>3, <1>5 DEF NoAcquisition, chainVars, vars, parseVars
  <2>2. /\ Telling("device_information")' = Telling("device_information")
        /\ Telling("case_data")' = Telling("case_data")
        /\ AllTexts' = AllTexts
    BY <2>1, TellingStay
  <2> QED BY <1>3, <2>1, <2>2 DEF TextsInv
<1>6. CASE ResolveAcquisition
  BY <1>6, NoHeadersV2
<1>7. CASE ApplyHeaderValue \/ ApplyHeaderDates
  BY <1>3, <1>7 DEF ApplyHeaderValue, ApplyHeaderDates
<1> QED BY <1>4, <1>5, <1>6, <1>7, DeviceTurn, CaseTurn, OtherTexts DEF Next

LEMMA TextsInit == Init => TextsInv
<1> SUFFICES ASSUME Init PROVE TextsInv
  OBVIOUS
<1>1. at = 1 /\ info = NoInfo /\ phase = "signature"
  BY DEF Init
<1>2. \A type : Seen(Telling(type), 1) = {}
  BY NoneTold
<1>3. Record(NoInfo, {}, {}, AllTexts)
  <2>1. /\ NoInfo.Media = None /\ NoInfo.Acquisition = NoAcquisitionYet
    BY DEF NoInfo
  <2>2. AcquisitionType(NoAcquisitionYet)
    BY DEF AcquisitionType, NoAcquisitionYet, NewAcquisition
  <2>3. /\ Blank(NoAcquisitionYet.text["Model"]) /\ Blank(NoAcquisitionYet.text["CaseNumber"])
    BY DEF Blank, NoAcquisitionYet, NewAcquisition, Texts
  <2>4. ensureMedia(NoInfo) = ZeroMedia
    BY <2>1 DEF ensureMedia, Has
  <2> QED BY <2>1, <2>2, <2>3, <2>4, MediaFields DEF Record, MediaType
<1> QED BY <1>1, <1>2, <1>3 DEF TextsInv

LEMMA TextsGiven == ASSUME TextsInv, Ground PROVE TwoTextsOneRecord
<1> DEFINE device == Telling("device_information")
           case   == Telling("case_data")
<1> SUFFICES ASSUME Parsed, file.version = 2
             PROVE  /\ device = {} \/ case = {} =>
                         \/ ~Has(info.Media)
                         \/ info.Media.BytesPerSector = 0 \/ info.Media.SectorsPerChunk = 0
                    /\ \A j, k \in 1..Len(sections) : device = {j} /\ case = {k} =>
                         /\ info.Media.BytesPerSector = Number(Of(TextAt(j), "bp"), Word32)
                         /\ info.Media.NumberOfSectors
                              = Number(Of(TextAt(j), "ts"), Uint64Room)
                         /\ info.Media.SectorsPerChunk = Number(Of(TextAt(k), "sb"), Word32)
                         /\ info.Acquisition.text["Model"] = Of(TextAt(j), "md")
                         /\ info.Acquisition.text["CaseNumber"] = Of(TextAt(k), "cn")
                         /\ info.Acquisition.Source = "case_data"
  BY DEF TwoTextsOneRecord, Telling
<1>1. Seen(device, at) = device /\ Seen(case, at) = case
  <2>1. at \in Nat /\ Len(sections) \in Nat /\ at > Len(sections)
    BY DEF Ground, ListsInv, Parsed
  <2> QED BY <2>1, TellingType DEF Seen
<1>2. Record(info, device, case, AllTexts)
  BY <1>1 DEF TextsInv
<1>3. Has(info.Media) => ensureMedia(info) = info.Media
  BY DEF ensureMedia
<1>4. \A k \in 1..Len(sections) : AllTexts[k] = TextAt(k)
  BY DEF AllTexts
<1> HIDE DEF device, case
<1>5. device = {} \/ case = {} =>
         \/ ~Has(info.Media)
         \/ info.Media.BytesPerSector = 0 \/ info.Media.SectorsPerChunk = 0
  BY <1>2, <1>3 DEF Record
<1>6. ASSUME NEW j \in 1..Len(sections), NEW k \in 1..Len(sections), device = {j}, case = {k}
      PROVE  /\ info.Media.BytesPerSector = Number(Of(TextAt(j), "bp"), Word32)
             /\ info.Media.NumberOfSectors = Number(Of(TextAt(j), "ts"), Uint64Room)
             /\ info.Media.SectorsPerChunk = Number(Of(TextAt(k), "sb"), Word32)
             /\ info.Acquisition.text["Model"] = Of(TextAt(j), "md")
             /\ info.Acquisition.text["CaseNumber"] = Of(TextAt(k), "cn")
             /\ info.Acquisition.Source = "case_data"
  BY <1>2, <1>3, <1>4, <1>6 DEF Record
<1> QED BY <1>5, <1>6

\* "Both are needed before a device can be read" (parseCaseDataV2): one
\* device_information and one case_data make one record, in either order and
\* whatever stands between them; with one kind alone there is no usable geometry.
THEOREM TextsMakeOneRecord == Spec => []TwoTextsOneRecord
<1>1. HeadersInv /\ Ground /\ [Next]_vars => HeadersInv'
  BY HeadersStep
<1>2. TextsInv /\ HeadersInv /\ Ground /\ [Next]_vars => TextsInv'
  BY TextsStep
<1>3. TextsInv /\ Ground => TwoTextsOneRecord
  BY TextsGiven
<1> QED BY <1>1, <1>2, <1>3, TextsInit, HeadersInit, GroundAlways, PTL DEF Spec
=============================================================================
