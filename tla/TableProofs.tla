---------------------------- MODULE TableProofs -----------------------------
(***************************************************************************)
(* Chunk tables of any files that writers write and damage leaves: types,  *)
(* the reading of one table's entries, the pairing of tables with their    *)
(* backups, and what follows for the descriptors and the counts.           *)
(***************************************************************************)
EXTENDS TableLayout, FiniteSetTheorems, TLAPS

-----------------------------------------------------------------------------
(* Widths. *)

LEMMA Constants ==
    /\ Half \in Nat \ {0} /\ MaxInt64 \in Nat /\ MaxTableEntries \in Nat
    /\ HeaderSize \in Nat \ {0} /\ EntrySize \in Nat \ {0} /\ ChecksumSize \in Nat \ {0}
    /\ DescriptorSize \in Nat \ {0}
    /\ Word = 2 * Half /\ Word \in Nat \ {0} /\ MaxInt32 = Half - 1
BY TableAssumption, LayoutAssumption DEF Word, MaxInt32

\* A remainder is in range, and a value in range is its own remainder.
LEMMA Remainder ==
    ASSUME NEW m \in Nat \ {0}, NEW x \in Int
    PROVE  /\ x % m \in 0..(m - 1)
           /\ x \in 0..(m - 1) => x % m = x
OBVIOUS

LEMMA Element ==
    ASSUME NEW S, NEW q \in Seq(S), NEW k \in 1..Len(q)
    PROVE  q[k] \in S
OBVIOUS

LEMMA Int64Within ==
    ASSUME NEW x \in Int
    PROVE  /\ Int64(x) \in Int64s
           /\ x \in Int64s => Int64(x) = x
<1> DEFINE m == 2 * (MaxInt64 + 1)
<1>1. m \in Nat \ {0} /\ MaxInt64 \in Nat
  BY Constants
<1>2. (x + MaxInt64 + 1) % m \in 0..(m - 1)
  BY <1>1, Remainder
<1>3. ASSUME x \in Int64s PROVE (x + MaxInt64 + 1) % m = x + MaxInt64 + 1
  <2>1. x + MaxInt64 + 1 \in 0..(m - 1) /\ x + MaxInt64 + 1 \in Int
    BY <1>1, <1>3 DEF Int64s
  <2> HIDE DEF m
  <2> QED BY <1>1, <2>1, Remainder
<1> QED BY <1>1, <1>2, <1>3 DEF Int64, Int64s

-----------------------------------------------------------------------------
(* Types. *)

LEMMA OffsetTyped ==
    ASSUME NEW e \in 0..(Word - 1), NEW overflow \in BOOLEAN
    PROVE  relOffset(e, overflow) \in 0..(Word - 1)
<1>1. e % Half \in 0..(Half - 1)
  BY Constants, Remainder
<1> QED BY <1>1, Constants DEF relOffset

LEMMA SizeTyped ==
    ASSUME NEW entries \in Seq(0..(Word - 1)), NEW k \in 1..(Len(entries) - 1),
           NEW overflow \in BOOLEAN
    PROVE  sizeBefore(entries, k, overflow) \in 0..(Word - 1)
<1> DEFINE rel  == relOffset(entries[k], overflow)
           next == relOffset(entries[k + 1], overflow)
<1>1. entries[k] \in 0..(Word - 1) /\ entries[k + 1] \in 0..(Word - 1)
  <2>1. Len(entries) \in Nat /\ k \in 1..Len(entries) /\ k + 1 \in 1..Len(entries)
    OBVIOUS
  <2> QED BY <2>1, Element
<1>2. rel \in 0..(Word - 1) /\ next \in 0..(Word - 1)
  BY <1>1, OffsetTyped
<1>3. (entries[k + 1] - rel) % Word \in 0..(Word - 1)
  <2>1. entries[k + 1] - rel \in Int
    BY <1>1, <1>2, Constants
  <2> QED BY <2>1, Constants, Remainder
<1>4. sizeBefore(entries, k, overflow) =
        IF next < rel THEN (entries[k + 1] - rel) % Word ELSE next - rel
  BY DEF sizeBefore
<1> HIDE DEF rel, next
<1> QED BY <1>2, <1>3, <1>4, Constants

LEMMA LastSizeTyped ==
    ASSUME NEW s \in SectionV1, NEW abs \in Int
    PROVE  lastChunkSizeV1(s, abs) \in 0..(Word - 1)
<1> DEFINE start == s.Offset
           end   == IF s.Size <= MaxInt64 - s.Offset THEN s.Offset + s.Size ELSE s.Offset
           primary == IF s.Size <= start THEN start - s.Size ELSE 0
           dataEnd ==
               IF s.TypeString = "table2"
               THEN IF abs >= primary /\ abs < start THEN start ELSE primary
               ELSE IF abs < start THEN start
               ELSE IF abs < end THEN end ELSE 0
           size == Int64(dataEnd - abs)
<1>1. start \in Nat /\ end \in Nat /\ primary \in Nat
  BY Constants DEF SectionV1
<1>2. dataEnd \in Nat
  BY <1>1
<1>3. size \in Int
  <2>1. dataEnd - abs \in Int
    BY <1>2
  <2> QED BY <2>1, Int64Within, Constants DEF Int64s
<1>4. size % Word \in 0..(Word - 1)
  BY <1>3, Constants, Remainder
<1>5. lastChunkSizeV1(s, abs) =
        IF dataEnd <= abs THEN 0 ELSE IF size > Word - 1 THEN Word - 1 ELSE size % Word
  BY DEF lastChunkSizeV1
<1> HIDE DEF size, dataEnd
<1> QED BY <1>4, <1>5, Constants

\* An entry of a section whose entries can be had is in range.
LEMMA EntryTyped ==
    ASSUME NEW s \in SectionV1, s.numberOfEntries <= Len(s.entries),
           NEW k \in 1..s.numberOfEntries
    PROVE  s.entries[k] \in 0..(Word - 1)
<1>1. s.entries \in Seq(0..(Word - 1)) /\ s.numberOfEntries \in Nat
  BY DEF SectionV1
<1>2. Len(s.entries) \in Nat
  BY <1>1
<1>3. k \in 1..Len(s.entries)
  BY <1>1, <1>2
<1> QED BY <1>1, <1>3, Element

LEMMA AbsTyped ==
    ASSUME NEW s \in SectionV1, s.numberOfEntries <= Len(s.entries),
           NEW k \in 1..s.numberOfEntries, NEW overflow \in BOOLEAN
    PROVE  absOffset(s, k, overflow) \in Int64s
<1>1. relOffset(s.entries[k], overflow) \in Int
  BY EntryTyped, OffsetTyped, Constants
<1>2. s.baseOffset \in Int
  BY Constants DEF SectionV1
<1> QED BY <1>1, <1>2, Int64Within DEF absOffset

LEMMA ChunkV1Typed ==
    ASSUME NEW s \in SectionV1, s.numberOfEntries <= Len(s.entries),
           NEW k \in 1..s.numberOfEntries
    PROVE  chunkV1(s, k) \in chunkDescriptor
<1> DEFINE ovf == overflowed(s, k)
           abs == absOffset(s, k, ovf)
<1>1. ovf \in BOOLEAN
  BY DEF overflowed
<1>2. abs \in Int64s /\ abs \in Int
  BY <1>1, AbsTyped, Constants DEF Int64s
<1>3. ASSUME k < s.numberOfEntries
      PROVE  sizeBefore(s.entries, k, ovf) \in 0..(Word - 1)
  <2>1. s.entries \in Seq(0..(Word - 1)) /\ s.numberOfEntries \in Nat
    BY DEF SectionV1
  <2>2. k \in 1..(Len(s.entries) - 1)
    BY <1>3, <2>1
  <2> QED BY <1>1, <2>1, <2>2, SizeTyped
<1>4. lastChunkSizeV1(s, abs) \in 0..(Word - 1)
  BY <1>2, LastSizeTyped
<1>5. chunkV1(s, k) =
        [dataOffset |-> abs,
         dataSize   |-> IF k < s.numberOfEntries THEN sizeBefore(s.entries, k, ovf)
                                                 ELSE lastChunkSizeV1(s, abs),
         compressed |-> ~ovf /\ s.entries[k] >= Half,
         pattern    |-> FALSE,
         hasChecksum |-> FALSE]
  BY DEF chunkV1
<1> HIDE DEF ovf, abs
<1> QED BY <1>2, <1>3, <1>4, <1>5 DEF chunkDescriptor

LEMMA SectionV1Typed ==
    ASSUME NEW s \in SectionV1, s.entriesReadable => s.numberOfEntries <= Len(s.entries)
    PROVE  /\ parseTableSectionV1(s).chunks \in Seq(chunkDescriptor)
           /\ parseTableSectionV1(s).valid \in BOOLEAN
<1>1. CASE ~Usable(s)
  BY <1>1 DEF parseTableSectionV1
<1>2. CASE Usable(s)
  <2>1. s.numberOfEntries \in Nat /\ s.numberOfEntries <= Len(s.entries)
    BY <1>2 DEF Usable, SectionV1
  <2>2. \A k \in 1..s.numberOfEntries : chunkV1(s, k) \in chunkDescriptor
    BY <2>1, ChunkV1Typed
  <2>3. [k \in 1..s.numberOfEntries |-> chunkV1(s, k)] \in Seq(chunkDescriptor)
    BY <2>1, <2>2
  <2>4. s.headerMatches \in BOOLEAN /\ entriesValid(s) \in BOOLEAN
    BY DEF SectionV1, entriesValid
  <2> QED BY <1>2, <2>3, <2>4 DEF parseTableSectionV1
<1> QED BY <1>1, <1>2

LEMMA SectionV2Typed ==
    ASSUME NEW s \in SectionV2, s.entriesReadable => s.numberOfEntries <= Len(s.entries)
    PROVE  parseTableSectionV2(s) \in Seq(chunkDescriptor)
<1>1. CASE ~Usable(s)
  BY <1>1 DEF parseTableSectionV2
<1>2. CASE Usable(s)
  <2>1. s.numberOfEntries \in Nat /\ s.numberOfEntries <= Len(s.entries)
    BY <1>2 DEF Usable, SectionV2
  <2>2. ASSUME NEW k \in 1..s.numberOfEntries
        PROVE  chunkV2(s.entries[k]) \in chunkDescriptor
    <3>1. /\ s.entries[k].offset \in Int64s
          /\ s.entries[k].size \in 0..(Word - 1)
      <4> DEFINE E == [offset : Int64s, size : 0..(Word - 1),
                       flags : SUBSET {"Compressed", "Checksum", "Pattern"}]
      <4>1. s.entries \in Seq(E)
        BY DEF SectionV2
      <4>2. k \in 1..Len(s.entries)
        <5>1. Len(s.entries) \in Nat
          BY <4>1
        <5> QED BY <2>1, <5>1
      <4> HIDE DEF E
      <4>3. s.entries[k] \in E
        BY <4>1, <4>2, Element
      <4> USE DEF E
      <4> QED BY <4>3
    <3> QED BY <3>1 DEF chunkV2, chunkDescriptor
  <2>3. [k \in 1..s.numberOfEntries |-> chunkV2(s.entries[k])] \in Seq(chunkDescriptor)
    BY <2>1, <2>2
  <2> QED BY <1>2, <2>3 DEF parseTableSectionV2
<1> QED BY <1>1, <1>2

LEMMA GroupTyped ==
    ASSUME NEW s \in SectionV1, s.entriesReadable => s.numberOfEntries <= Len(s.entries),
           NEW b, b = <<>> \/ (/\ b[1] \in SectionV1
                             /\ (b[1].entriesReadable =>
                                    b[1].numberOfEntries <= Len(b[1].entries)))
    PROVE  /\ parseTableGroupV1(s, b).chunks \in Seq(chunkDescriptor)
           /\ parseTableGroupV1(s, b).outcome \in {"primary", "backup", "unverified"}
<1> DEFINE first  == parseTableSectionV1(s)
           second == IF b = <<>> THEN [chunks |-> <<>>, valid |-> FALSE]
                                 ELSE parseTableSectionV1(b[1])
<1>1. first.chunks \in Seq(chunkDescriptor)
  BY SectionV1Typed
<1>2. second.chunks \in Seq(chunkDescriptor)
  <2>1. CASE b = <<>>
    BY <2>1
  <2>2. CASE b # <<>>
    <3>1. b[1] \in SectionV1
          /\ (b[1].entriesReadable => b[1].numberOfEntries <= Len(b[1].entries))
      BY <2>2
    <3>2. parseTableSectionV1(b[1]).chunks \in Seq(chunkDescriptor)
      BY <3>1, SectionV1Typed
    <3> QED BY <2>2, <3>2
  <2> QED BY <2>1, <2>2
<1> HIDE DEF first, second
<1>3. parseTableGroupV1(s, b) =
        IF first.valid /\ first.chunks # <<>>
        THEN [chunks |-> first.chunks, outcome |-> "primary"]
        ELSE IF second.valid /\ second.chunks # <<>>
        THEN [chunks |-> second.chunks, outcome |-> "backup"]
        ELSE [chunks  |-> IF first.chunks = <<>> THEN second.chunks ELSE first.chunks,
              outcome |-> "unverified"]
  BY DEF parseTableGroupV1, first, second
<1> QED BY <1>1, <1>2, <1>3

\* A section of a file, and what TableAssumption says of it.
LEMMA SectionTyped ==
    ASSUME NEW f \in Files, NEW p \in DOMAIN f.sections
    PROVE  /\ f.sections[p].v1 => f.sections[p] \in SectionV1
           /\ ~f.sections[p].v1 => f.sections[p] \in SectionV2
           /\ f.sections[p].entriesReadable =>
                f.sections[p].numberOfEntries <= Len(f.sections[p].entries)
<1> DEFINE S == SectionV1 \cup SectionV2
           s == f.sections[p]
<1>1. f.sections \in Seq(S)
  BY TableAssumption
<1>2. p \in 1..Len(f.sections)
  BY <1>1
<1>3. s \in S
  <2> HIDE DEF S
  <2> QED BY <1>1, <1>2, Element
<1>4. /\ s \in SectionV1 => s.v1
      /\ s \in SectionV2 => ~s.v1
  BY DEF SectionV1, SectionV2
<1>5. s.entriesReadable => s.numberOfEntries <= Len(s.entries)
  BY TableAssumption
<1> QED BY <1>3, <1>4, <1>5

LEMMA PositionsTyped ==
    ASSUME NEW D, NEW q \in Seq(D), NEW d \in D
    PROVE  Append(q, d) \in Seq(D)
OBVIOUS

Counts == [TablesTotal : Nat, TablesRecovered : Nat, TablesInvalid : Nat]

LEMMA CountTyped ==
    ASSUME stats \in Counts
    PROVE  /\ [stats EXCEPT !.TablesTotal = @ + 1] \in Counts
           /\ \A outcome : Count(outcome) \in Counts
<1>1. [stats EXCEPT !.TablesTotal = @ + 1] \in Counts
  BY DEF Counts
<1>2. ASSUME NEW outcome PROVE Count(outcome) \in Counts
  <2>1. /\ stats.TablesTotal \in Nat /\ stats.TablesRecovered \in Nat
        /\ stats.TablesInvalid \in Nat
    BY DEF Counts
  <2> QED BY <2>1 DEF Count, Counts
<1> QED BY <1>1, <1>2

TypeInv == file \in Files /\ TypeOK

LEMMA TypeInit == Init => TypeInv
<1> SUFFICES ASSUME Init PROVE TypeInv
  OBVIOUS
<1>1. sections \in Seq(SectionV1 \cup SectionV2)
  BY TableAssumption DEF Init, sections
<1> QED BY <1>1 DEF Init, TypeInv, TypeOK

LEMMA TypeStep == TypeInv /\ [Next]_vars => TypeInv'
<1> SUFFICES ASSUME TypeInv, [Next]_vars PROVE TypeInv'
  OBVIOUS
<1>0. /\ file \in Files /\ i \in Nat \ {0}
      /\ tables \in Seq(DOMAIN sections) /\ Len(tables) \in Nat
      /\ sections \in Seq(SectionV1 \cup SectionV2)
      /\ table \in Seq(chunkDescriptor)
      /\ stats \in Counts
  BY DEF TypeInv, TypeOK, Counts
<1>1. ASSUME NEW k \in 1..Len(tables)
      PROVE  /\ TableAt(k).v1 => TableAt(k) \in SectionV1
             /\ ~TableAt(k).v1 => TableAt(k) \in SectionV2
             /\ TableAt(k).entriesReadable =>
                    TableAt(k).numberOfEntries <= Len(TableAt(k).entries)
  <2>1. tables[k] \in DOMAIN sections
    BY <1>0, Element
  <2> QED BY <1>0, <2>1, SectionTyped DEF TableAt, sections
<1>2. CASE Collect
  <2>1. i \in DOMAIN sections
    BY <1>0, <1>2 DEF Collect
  <2>2. tables' \in Seq(DOMAIN sections)
    BY <1>0, <1>2, <2>1, PositionsTyped DEF Collect
  <2> QED BY <1>0, <1>2, <2>2 DEF Collect, TypeInv, TypeOK, Counts, sections
<1>3. CASE Collected
  BY <1>0, <1>3 DEF Collected, TypeInv, TypeOK, Counts, sections
<1>4. CASE TakeV2
  <2>1. parseTableSectionV2(TableAt(i)) \in Seq(chunkDescriptor)
    <3>1. i \in 1..Len(tables)
      BY <1>0, <1>4 DEF TakeV2
    <3> QED BY <1>1, <1>4, <3>1, SectionV2Typed DEF TakeV2
  <2>2. table' \in Seq(chunkDescriptor)
    <3> DEFINE v == parseTableSectionV2(TableAt(i))
    <3>1. table' = table \o v
      BY <1>4 DEF TakeV2
    <3> HIDE DEF v
    <3> QED BY <1>0, <2>1, <3>1 DEF v
  <2>3. /\ stats' = [stats EXCEPT !.TablesTotal = @ + 1] /\ i' = i + 1
        /\ i <= Len(tables) /\ pc = "build" /\ UNCHANGED <<file, pc, tables>>
    BY <1>4 DEF TakeV2
  <2>4. stats' \in Counts
    BY <1>0, <2>3, CountTyped
  <2>5. i' \in Nat \ {0} /\ i' <= Len(tables) + 1
    BY <1>0, <2>3
  <2> QED BY <1>0, <2>2, <2>3, <2>4, <2>5 DEF TypeInv, TypeOK, Counts, sections
<1>5. CASE TakeGroup
  <2> DEFINE b == IF HasBackup(i) THEN <<TableAt(i + 1)>> ELSE <<>>
             g == parseTableGroupV1(TableAt(i), b)
  <2>1. i \in 1..Len(tables) /\ TableAt(i).v1
    BY <1>0, <1>5 DEF TakeGroup
  <2>2. b = <<>> \/ (/\ b[1] \in SectionV1
                     /\ (b[1].entriesReadable =>
                            b[1].numberOfEntries <= Len(b[1].entries)))
    <3>1. CASE ~HasBackup(i)
      BY <3>1
    <3>2. CASE HasBackup(i)
      <4>1. i + 1 \in 1..Len(tables) /\ b[1] = TableAt(i + 1)
        BY <1>0, <3>2 DEF HasBackup
      <4>2. TableAt(i + 1).v1
        <5>1. TableAt(i + 1) \in SectionV2 => TableAt(i + 1).TypeString # "table2"
          BY DEF SectionV2
        <5> QED BY <1>1, <3>2, <4>1, <5>1 DEF HasBackup
      <4> QED BY <1>1, <4>1, <4>2
    <3> QED BY <3>1, <3>2
  <2> HIDE DEF b
  <2>3. /\ g.chunks \in Seq(chunkDescriptor)
        /\ g.outcome \in {"primary", "backup", "unverified"}
    BY <1>1, <2>1, <2>2, GroupTyped
  <2>4. /\ table' = table \o g.chunks /\ stats' = Count(g.outcome)
        /\ i' = i + 1 + Len(b) /\ UNCHANGED <<file, pc, tables>>
    BY <1>5 DEF TakeGroup, b
  <2> HIDE DEF g
  <2>5. table' \in Seq(chunkDescriptor)
    BY <1>0, <2>3, <2>4
  <2>6. stats' \in Counts
    BY <1>0, <2>3, <2>4, CountTyped
  <2>7. i' \in Nat \ {0} /\ i' <= Len(tables) + 1
    BY <1>0, <2>1, <2>4 DEF b, HasBackup
  <2> QED BY <1>0, <1>5, <2>4, <2>5, <2>6, <2>7 DEF TakeGroup, TypeInv, TypeOK, Counts, sections
<1>6. CASE Built
  BY <1>0, <1>6 DEF Built, TypeInv, TypeOK, Counts, sections
<1>7. CASE UNCHANGED vars
  BY <1>7 DEF vars, TypeInv, TypeOK, sections
<1> QED BY <1>2, <1>3, <1>4, <1>5, <1>6, <1>7 DEF Next

LEMMA TypesHold == Spec => []TypeInv
BY TypeInit, TypeStep, PTL DEF Spec

\* buildChunkTable returns descriptors, whatever the tables say: offsets that fit
\* an int64 and sizes that are unsigned words.
THEOREM TablesTyped == Spec => []TypeOK
<1>1. TypeInv => TypeOK
  BY DEF TypeInv
<1> QED BY TypesHold, <1>1, PTL

-----------------------------------------------------------------------------
(* The entries of one table. *)

\* What holds of 1 and passes on holds up to n: a set that were missing some k
\* would be as large as itself without 1.
LEMMA UpTo ==
    ASSUME NEW n \in Nat, NEW S, 1 \in S,
           \A j \in 1..(n - 1) : j \in S => j + 1 \in S
    PROVE  \A k \in 1..n : k \in S
<1> SUFFICES ASSUME NEW k \in 1..n, k \notin S PROVE FALSE
  OBVIOUS
<1> DEFINE B == (1..k) \cap S
           next == [j \in B |-> j + 1]
<1>1. IsFiniteSet(B) /\ 1 \in B
  <2>1. IsFiniteSet(1..k)
    BY FS_Interval
  <2>2. B \in SUBSET (1..k)
    OBVIOUS
  <2> HIDE DEF B
  <2>3. IsFiniteSet(B)
    BY <2>1, <2>2, FS_Subset
  <2> QED BY <2>3 DEF B
<1>2. \A j \in B : j \in 1..(k - 1) /\ j + 1 \in B \ {1}
  OBVIOUS
<1>3. next \in Injection(B, B \ {1})
  <2>1. next \in [B -> B \ {1}]
    BY <1>2
  <2>2. \A j, m \in B : next[j] = next[m] => j = m
    BY <1>2
  <2> HIDE DEF B, next
  <2>3. DOMAIN next = B
    BY <2>1
  <2>4. IsInjective(next)
    BY <2>2, <2>3 DEF IsInjective
  <2> QED BY <2>1, <2>4 DEF Injection
<1> HIDE DEF B, next
<1>4. IsFiniteSet(B \ {1}) /\ Cardinality(B \ {1}) = Cardinality(B) - 1
  BY <1>1, FS_RemoveElement
<1>5. Cardinality(B) <= Cardinality(B \ {1})
  BY <1>3, <1>4, FS_Injection
<1>6. Cardinality(B) \in Nat
  BY <1>1, FS_CardinalityType
<1> QED BY <1>4, <1>5, <1>6

\* A layout's entries are those of section s, which counts them from its base.
Reads(s, l) ==
    /\ s.numberOfEntries = Len(l.compressed)
    /\ s.baseOffset = l.base
    /\ s.entries = Entries(l)

Counted(l) == (l.base = 0 /\ Start(l) < Half) \/ End(l) <= MaxInt32

LEMMA LayoutFacts ==
    ASSUME NEW l, NEW inline \in BOOLEAN, IsLayout(l, inline)
    PROVE  LET n == Len(l.compressed)
           IN  /\ n \in Nat \ {0} /\ n <= MaxTableEntries /\ l.base \in Nat
               /\ Chunks(l) = 1..n
               /\ \A k \in 1..(n + 1) : l.cuts[k] \in Nat
               /\ \A k \in 1..n : l.compressed[k] \in BOOLEAN
               /\ \A j, k \in 1..(n + 1) : j < k => l.cuts[j] < l.cuts[k]
               /\ \A k \in 1..n : l.cuts[k + 1] - l.cuts[k] < Half
               /\ l.base <= l.cuts[1]
               /\ Start(l) = l.cuts[1] /\ End(l) = l.cuts[n + 1]
<1> DEFINE n == Len(l.compressed)
<1>1. /\ l.cuts \in Seq(Nat) /\ l.base \in Nat /\ l.compressed \in Seq(BOOLEAN)
      /\ n \in 1..MaxTableEntries /\ Len(l.cuts) = n + 1
  BY DEF IsLayout, Layout
<1>2. n \in Nat \ {0} /\ n <= MaxTableEntries
  BY <1>1, Constants
<1>3. \A k \in 1..(n + 1) : l.cuts[k] \in Nat
  BY <1>1, Element
<1>4. \A k \in 1..n : l.compressed[k] \in BOOLEAN
  BY <1>1, Element
<1> QED BY <1>1, <1>2, <1>3, <1>4 DEF IsLayout, Start, End, Chunks

LEMMA CutsGrow ==
    ASSUME NEW l, NEW inline \in BOOLEAN, IsLayout(l, inline),
           NEW j \in 1..(Len(l.compressed) + 1), NEW k \in 1..(Len(l.compressed) + 1)
    PROVE  /\ l.cuts[j] \in Nat /\ l.cuts[k] \in Nat
           /\ j < k => l.cuts[j] < l.cuts[k]
           /\ j <= k => l.cuts[j] <= l.cuts[k]
<1> DEFINE n == Len(l.compressed)
<1>1. /\ \A m \in 1..(n + 1) : l.cuts[m] \in Nat
      /\ \A i1, i2 \in 1..(n + 1) : i1 < i2 => l.cuts[i1] < l.cuts[i2]
  BY LayoutFacts
<1>2. l.cuts[j] \in Nat /\ l.cuts[k] \in Nat /\ (j < k => l.cuts[j] < l.cuts[k])
  BY <1>1
<1>3. j \in Int /\ k \in Int
  BY LayoutFacts
<1> QED BY <1>2, <1>3

\* Without its flag, an entry is the offset or what that leaves beside the bit.
LEMMA EntryRead ==
    ASSUME NEW l, NEW inline \in BOOLEAN, IsLayout(l, inline), NEW k \in Chunks(l)
    PROVE  LET e   == Entries(l)[k]
               off == l.cuts[k] - l.base
           IN  /\ e \in 0..(Word - 1) /\ off \in Nat
               /\ off < Half => e % Half = off /\ (e >= Half <=> l.compressed[k])
                                /\ e = off + IF l.compressed[k] THEN Half ELSE 0
               /\ off >= Half => e = off /\ ~l.compressed[k] /\ e % Half = off - Half
<1> DEFINE n   == Len(l.compressed)
           e   == Entries(l)[k]
           off == l.cuts[k] - l.base
<1>1. /\ n \in Nat \ {0} /\ k \in 1..n /\ l.cuts[k] \in Nat /\ l.base \in Nat
      /\ l.compressed[k] \in BOOLEAN
  BY LayoutFacts
<1>2. off \in Nat
  <2>1. l.cuts[1] <= l.cuts[k] /\ l.cuts[1] \in Nat
    <3>1. 1 \in 1..(n + 1) /\ k \in 1..(n + 1) /\ 1 <= k
      BY <1>1
    <3> QED BY <3>1, CutsGrow
  <2> QED BY <1>1, <2>1, LayoutFacts
<1>3. off < Word /\ (off >= Half => ~l.compressed[k])
  BY <1>1, LayoutFacts DEF IsLayout, Writable
<1>4. e = off + IF l.compressed[k] THEN Half ELSE 0
  BY <1>1, LayoutFacts DEF Entries
<1> HIDE DEF e, off
<1>5. e \in 0..(Word - 1)
  BY <1>2, <1>3, <1>4, Constants
<1>6. ASSUME NEW x \in 0..(Half - 1) PROVE x % Half = x /\ (x + Half) % Half = x
  <2>1. Half \in Nat \ {0}
    BY Constants
  <2>2. ASSUME NEW m \in Nat \ {0}, NEW y \in 0..(m - 1)
        PROVE  y % m = y /\ (y + m) % m = y
    OBVIOUS
  <2> QED BY <2>1, <2>2
<1>7. off < Half => e % Half = off /\ (e >= Half <=> l.compressed[k])
  <2> SUFFICES ASSUME off < Half
               PROVE  e % Half = off /\ (e >= Half <=> l.compressed[k])
    OBVIOUS
  <2>1. off \in 0..(Half - 1)
    BY <1>2, Constants
  <2>2. off % Half = off /\ (off + Half) % Half = off
    BY <1>6, <2>1
  <2>3. CASE l.compressed[k]
    BY <1>4, <2>1, <2>2, <2>3, Constants
  <2>4. CASE ~l.compressed[k]
    BY <1>4, <2>1, <2>2, <2>4, Constants
  <2> QED BY <1>1, <2>3, <2>4
<1>8. off >= Half => e = off /\ ~l.compressed[k] /\ e % Half = off - Half
  <2> SUFFICES ASSUME off >= Half
               PROVE  e = off /\ ~l.compressed[k] /\ e % Half = off - Half
    OBVIOUS
  <2>1. e = off /\ ~l.compressed[k]
    BY <1>2, <1>3, <1>4
  <2>2. off - Half \in 0..(Half - 1) /\ e = (off - Half) + Half
    BY <1>2, <1>3, <2>1, Constants
  <2> HIDE DEF e
  <2>3. ((off - Half) + Half) % Half = off - Half
    BY <1>6, <2>2
  <2> QED BY <2>1, <2>2, <2>3
<1> QED BY <1>2, <1>4, <1>5, <1>7, <1>8 DEF e, off

LEMMA EndFits ==
    ASSUME NEW l, NEW inline \in BOOLEAN, IsLayout(l, inline)
    PROVE  /\ End(l) = l.cuts[Len(l.compressed) + 1] /\ DataOf(l) \in Nat
           /\ l.cuts[Len(l.compressed) + 1] <= MaxInt64
           /\ End(l) \in Nat
<1> DEFINE n == Len(l.compressed)
<1>1. n \in Nat \ {0} /\ End(l) = l.cuts[n + 1] /\ l.cuts[n + 1] \in Nat
  <2>1. n \in Nat \ {0}
    BY LayoutFacts
  <2>2. n + 1 \in 1..(n + 1)
    BY <2>1
  <2> QED BY <2>1, <2>2, LayoutFacts
<1>2. DataOf(l) \in Nat
  <2>1. n * EntrySize \in Nat
    BY <1>1, Constants
  <2> QED BY <2>1, Constants DEF DataOf
<1>3. End(l) + 2 * (DescriptorSize + DataOf(l) + ChecksumSize) <= MaxInt64
  BY DEF IsLayout
<1> HIDE DEF n
<1>4. l.cuts[n + 1] <= MaxInt64
  BY <1>1, <1>2, <1>3, Constants
<1> QED BY <1>1, <1>2, <1>4 DEF n

LEMMA FromBase ==
    ASSUME NEW b \in Nat, NEW c \in Nat, c <= MaxInt64
    PROVE  b + (c - b) = c /\ Int64(c) = c
<1>1. c \in Int64s
  BY Constants DEF Int64s
<1> QED BY <1>1, Int64Within

LEMMA SumOf == ASSUME NEW a \in Int, NEW b \in Int PROVE a + (b - a) = b
OBVIOUS

LEMMA Between ==
    ASSUME NEW a \in Int, NEW b \in Int, NEW c \in Int, a <= b, b <= c
    PROVE  a <= c
OBVIOUS

\* The difference of two offsets, when the second is seen without its bit 31.
LEMMA Difference ==
    ASSUME NEW base \in Nat, NEW c1 \in Nat, NEW c2 \in Nat, NEW e2 \in Nat,
           base <= c1, c1 < c2, c2 - c1 < Half, c1 - base < Half,
           c2 - base < Half => e2 % Half = c2 - base,
           c2 - base >= Half => e2 = c2 - base /\ e2 % Half = (c2 - base) - Half
    PROVE  /\ e2 % Half < c1 - base => (e2 - (c1 - base)) % Word = c2 - c1
           /\ ~(e2 % Half < c1 - base) => (e2 % Half) - (c1 - base) = c2 - c1
<1>1. Half \in Nat \ {0} /\ Word = 2 * Half
  BY Constants
<1>2. CASE c2 - base < Half
  BY <1>1, <1>2
<1>3. CASE c2 - base >= Half
  <2>1. e2 - (c1 - base) = c2 - c1 /\ e2 % Half < c1 - base
    BY <1>1, <1>3
  <2>2. c2 - c1 \in 0..(Word - 1) /\ c2 - c1 \in Int /\ Word \in Nat \ {0}
    BY <1>1
  <2>3. (c2 - c1) % Word = c2 - c1
    BY <2>2, Remainder
  <2>4. (e2 - (c1 - base)) % Word = c2 - c1
    BY <2>1, <2>3
  <2> QED BY <2>1, <2>4
<1> QED BY <1>1, <1>2, <1>3

\* Before the boundary: an entry's chunk lies where it says, and ends where the
\* next begins, even if that entry lies behind the boundary.
LEMMA ReadLow ==
    ASSUME NEW l, NEW inline \in BOOLEAN, IsLayout(l, inline),
           NEW s, Reads(s, l), NEW k \in Chunks(l), l.cuts[k] - l.base < Half
    PROVE  /\ absOffset(s, k, FALSE) = l.cuts[k]
           /\ k < Len(l.compressed) =>
                /\ sizeBefore(s.entries, k, FALSE) = l.cuts[k + 1] - l.cuts[k]
                /\ crosses(s, k) <=> l.cuts[k + 1] >= Half
<1> DEFINE n   == Len(l.compressed)
           e   == Entries(l)[k]
           off == l.cuts[k] - l.base
<1>1. /\ n \in Nat \ {0} /\ k \in 1..n /\ l.base \in Nat
      /\ s.baseOffset = l.base /\ s.entries = Entries(l)
  BY LayoutFacts DEF Reads
<1>2. /\ k \in 1..(n + 1) /\ k + 1 \in 1..(n + 1) /\ n + 1 \in 1..(n + 1)
      /\ k <= n + 1 /\ k + 1 <= n + 1 /\ k < k + 1
  BY <1>1
<1>3. /\ l.cuts[k] \in Nat /\ l.cuts[k + 1] \in Nat /\ l.cuts[n + 1] \in Nat
      /\ l.cuts[k] < l.cuts[k + 1] /\ l.cuts[k] <= l.cuts[n + 1]
      /\ l.cuts[k + 1] <= l.cuts[n + 1]
  BY <1>2, CutsGrow
<1>4. l.cuts[n + 1] <= MaxInt64
  BY EndFits
<1>5. off \in Nat /\ e % Half = off
  BY EntryRead
<1>6. relOffset(s.entries[k], FALSE) = off
  BY <1>1, <1>5 DEF relOffset
<1>7. absOffset(s, k, FALSE) = l.cuts[k]
  <2>0. l.cuts[k] <= MaxInt64
    BY <1>3, <1>4, Between, Constants
  <2>1. s.baseOffset + off = l.cuts[k]
    BY <1>1, <1>3, <2>0, FromBase
  <2>2. Int64(l.cuts[k]) = l.cuts[k]
    BY <1>1, <1>3, <2>0, FromBase
  <2> QED BY <1>6, <2>1, <2>2 DEF absOffset
<1>8. ASSUME k < n
      PROVE  /\ sizeBefore(s.entries, k, FALSE) = l.cuts[k + 1] - l.cuts[k]
             /\ crosses(s, k) <=> l.cuts[k + 1] >= Half
  <2> DEFINE e2   == Entries(l)[k + 1]
             off2 == l.cuts[k + 1] - l.base
  <2>1. k + 1 \in Chunks(l)
    BY <1>1, <1>8, LayoutFacts
  <2>2. /\ e2 \in Nat
        /\ off2 < Half => e2 % Half = off2
        /\ off2 >= Half => e2 = off2 /\ e2 % Half = off2 - Half
    BY <2>1, EntryRead, Constants
  <2>3. l.cuts[k + 1] - l.cuts[k] < Half /\ l.base <= l.cuts[k]
    BY <1>1, <1>3, <1>5, LayoutFacts
  <2>4. sizeBefore(s.entries, k, FALSE) =
          IF e2 % Half < off THEN (e2 - off) % Word ELSE (e2 % Half) - off
    BY <1>1, <1>6 DEF sizeBefore, relOffset
  <2>5. sizeBefore(s.entries, k, FALSE) = l.cuts[k + 1] - l.cuts[k]
    <3> HIDE DEF e2
    <3> DEFINE b  == l.base
               c1 == l.cuts[k]
               c2 == l.cuts[k + 1]
    <3>1. /\ b \in Nat /\ c1 \in Nat /\ c2 \in Nat /\ e2 \in Nat
          /\ b <= c1 /\ c1 < c2 /\ c2 - c1 < Half /\ c1 - b < Half
          /\ (c2 - b < Half => e2 % Half = c2 - b)
          /\ (c2 - b >= Half => e2 = c2 - b /\ e2 % Half = (c2 - b) - Half)
      BY <1>1, <1>3, <2>2, <2>3
    <3>2. sizeBefore(s.entries, k, FALSE) =
            IF e2 % Half < c1 - b THEN (e2 - (c1 - b)) % Word ELSE (e2 % Half) - (c1 - b)
      BY <2>4
    <3> HIDE DEF b, c1, c2, e2
    <3>3. /\ (e2 % Half < c1 - b => (e2 - (c1 - b)) % Word = c2 - c1)
          /\ (~(e2 % Half < c1 - b) => (e2 % Half) - (c1 - b) = c2 - c1)
      BY <3>1, Difference, Constants
    <3>4. sizeBefore(s.entries, k, FALSE) = c2 - c1
      BY <3>2, <3>3
    <3> QED BY <3>4 DEF c1, c2
  <2>6. Int64(l.cuts[k + 1]) = l.cuts[k + 1]
    <3>1. l.cuts[k + 1] <= MaxInt64
      BY <1>3, <1>4, Between, Constants
    <3> QED BY <1>1, <1>3, <3>1, FromBase
  <2>7. absOffset(s, k, FALSE) + sizeBefore(s.entries, k, FALSE) = l.cuts[k + 1]
    <3>1. l.cuts[k] + (l.cuts[k + 1] - l.cuts[k]) = l.cuts[k + 1]
      BY <1>3, SumOf
    <3> QED BY <1>7, <2>5, <3>1
  <2>8. crosses(s, k) <=> l.cuts[k + 1] > MaxInt32
    BY <2>6, <2>7 DEF crosses
  <2>9. l.cuts[k + 1] > MaxInt32 <=> l.cuts[k + 1] >= Half
    BY <1>3, Constants
  <2> QED BY <2>5, <2>8, <2>9
<1> QED BY <1>7, <1>8

\* Behind it, entries are offsets.
LEMMA ReadHigh ==
    ASSUME NEW l, NEW inline \in BOOLEAN, IsLayout(l, inline),
           NEW s, Reads(s, l), NEW k \in Chunks(l), l.cuts[k] - l.base >= Half
    PROVE  /\ absOffset(s, k, TRUE) = l.cuts[k]
           /\ k < Len(l.compressed) =>
                sizeBefore(s.entries, k, TRUE) = l.cuts[k + 1] - l.cuts[k]
<1> DEFINE n   == Len(l.compressed)
           e   == Entries(l)[k]
           off == l.cuts[k] - l.base
<1>1. /\ n \in Nat \ {0} /\ k \in 1..n /\ l.base \in Nat
      /\ s.baseOffset = l.base /\ s.entries = Entries(l)
  BY LayoutFacts DEF Reads
<1>2. /\ k \in 1..(n + 1) /\ k + 1 \in 1..(n + 1) /\ n + 1 \in 1..(n + 1)
      /\ k <= n + 1 /\ k < k + 1
  BY <1>1
<1>3. /\ l.cuts[k] \in Nat /\ l.cuts[k + 1] \in Nat /\ l.cuts[n + 1] \in Nat
      /\ l.cuts[k] < l.cuts[k + 1] /\ l.cuts[k] <= l.cuts[n + 1]
  BY <1>2, CutsGrow
<1>4. l.cuts[n + 1] <= MaxInt64
  BY EndFits
<1>5. off \in Nat /\ e = off
  BY EntryRead
<1>6. relOffset(s.entries[k], TRUE) = off
  BY <1>1, <1>5 DEF relOffset
<1>7. absOffset(s, k, TRUE) = l.cuts[k]
  <2>0. l.cuts[k] <= MaxInt64
    BY <1>3, <1>4, Between, Constants
  <2>1. s.baseOffset + off = l.cuts[k]
    BY <1>1, <1>3, <2>0, FromBase
  <2>2. Int64(l.cuts[k]) = l.cuts[k]
    BY <1>1, <1>3, <2>0, FromBase
  <2> QED BY <1>6, <2>1, <2>2 DEF absOffset
<1>8. ASSUME k < n PROVE sizeBefore(s.entries, k, TRUE) = l.cuts[k + 1] - l.cuts[k]
  <2> DEFINE e2   == Entries(l)[k + 1]
             off2 == l.cuts[k + 1] - l.base
  <2>1. k + 1 \in Chunks(l)
    BY <1>1, <1>8, LayoutFacts
  <2>2. off2 \in Nat /\ off2 > off /\ off2 >= Half
    BY <1>1, <1>3, <1>5, Constants
  <2>3. e2 = off2
    BY <2>1, <2>2, EntryRead
  <2>4. sizeBefore(s.entries, k, TRUE) = IF e2 < off THEN (e2 - off) % Word ELSE e2 - off
    BY <1>1, <1>6 DEF sizeBefore, relOffset
  <2>5. ~(off2 < off) /\ off2 - off = l.cuts[k + 1] - l.cuts[k]
    <3>1. ASSUME NEW b \in Int, NEW c1 \in Int, NEW c2 \in Int, c1 < c2
          PROVE  ~(c2 - b < c1 - b) /\ (c2 - b) - (c1 - b) = c2 - c1
      BY <3>1
    <3> QED BY <1>1, <1>3, <3>1
  <2> HIDE DEF e2, off, off2
  <2> QED BY <2>3, <2>4, <2>5
<1> QED BY <1>7, <1>8

\* The loop has seen the overflow when it comes to a chunk that lies behind the
\* boundary, and not before.
LEMMA OverflowSeen ==
    ASSUME NEW l, NEW inline \in BOOLEAN, IsLayout(l, inline), Counted(l),
           NEW s, Reads(s, l), NEW k \in Chunks(l)
    PROVE  /\ overflowed(s, k) <=> l.cuts[k] >= Half
           /\ l.cuts[k] >= Half => l.base = 0
<1> DEFINE n == Len(l.compressed)
<1>1. /\ n \in Nat \ {0} /\ k \in 1..n /\ Chunks(l) = 1..n /\ l.base \in Nat
      /\ Half \in Nat \ {0}
  BY LayoutFacts, Constants
<1>2. \A j \in 1..(n + 1) : l.cuts[j] \in Nat
  BY LayoutFacts
<1>3. ASSUME l.cuts[k] >= Half PROVE l.base = 0 /\ l.cuts[1] < Half
  <2>1. l.cuts[k] <= l.cuts[n + 1] /\ l.cuts[n + 1] \in Nat /\ l.cuts[k] \in Nat
    <3>1. k \in 1..(n + 1) /\ n + 1 \in 1..(n + 1) /\ k <= n + 1
      BY <1>1
    <3> QED BY <3>1, CutsGrow
  <2>2. ~(End(l) <= MaxInt32)
    BY <1>3, <2>1, EndFits, Constants
  <2> QED BY <2>2, LayoutFacts DEF Counted
<1>4. ASSUME l.cuts[k] >= Half PROVE overflowed(s, k)
  <2> DEFINE S == {j \in 1..n : l.cuts[j] < Half}
  <2>1. PICK j \in 1..(k - 1) : l.cuts[j] < Half /\ ~(l.cuts[j + 1] < Half)
    <3> SUFFICES ASSUME \A j \in 1..(k - 1) : l.cuts[j] < Half => l.cuts[j + 1] < Half
                 PROVE  FALSE
      OBVIOUS
    <3>1. 1 \in S
      BY <1>1, <1>3, <1>4
    <3>2. \A j \in 1..(k - 1) : j \in S => j + 1 \in S
      BY <1>1
    <3>3. k \in Nat /\ k \in 1..k
      BY <1>1
    <3> HIDE DEF S
    <3>4. k \in S
      BY <3>1, <3>2, <3>3, UpTo
    <3>5. l.cuts[k] < Half
      BY <3>4 DEF S
    <3>6. l.cuts[k] \in Nat
      BY <1>1, <1>2
    <3> QED BY <1>1, <1>4, <3>5, <3>6
  <2>2. /\ j \in Chunks(l) /\ j < n /\ j + 1 \in 1..(n + 1) /\ j \in 1..(n + 1)
    BY <1>1
  <2>3. l.cuts[j] - l.base < Half /\ l.cuts[j + 1] >= Half
    BY <1>1, <1>2, <1>3, <1>4, <2>1, <2>2
  <2>4. crosses(s, j)
    BY <2>2, <2>3, ReadLow
  <2> QED BY <2>4 DEF overflowed
<1>5. ASSUME overflowed(s, k) PROVE l.cuts[k] >= Half
  <2>1. PICK j \in 1..(k - 1) : crosses(s, j)
    BY <1>5 DEF overflowed
  <2>2. /\ j \in Chunks(l) /\ j < n /\ j \in 1..(n + 1) /\ j + 1 \in 1..(n + 1)
        /\ k \in 1..(n + 1) /\ j <= k /\ j + 1 <= k
    BY <1>1
  <2>3. l.cuts[j] <= l.cuts[k] /\ l.cuts[j + 1] <= l.cuts[k]
    BY <2>2, CutsGrow
  <2>4. l.cuts[j] \in Nat /\ l.cuts[j + 1] \in Nat /\ l.cuts[k] \in Nat
    BY <1>2, <2>2
  <2>5. CASE l.cuts[j] - l.base < Half
    <3>1. l.cuts[j + 1] >= Half
      BY <2>1, <2>2, <2>5, ReadLow
    <3> QED BY <1>1, <2>3, <2>4, <3>1
  <2>6. CASE ~(l.cuts[j] - l.base < Half)
    <3>1. l.cuts[j] >= Half
      BY <1>1, <2>4, <2>6
    <3> QED BY <1>1, <2>3, <2>4, <3>1
  <2> QED BY <2>5, <2>6
<1> QED BY <1>3, <1>4, <1>5

\* Section s lies where the copy of l of this type lies.
Lies(s, l, type, inline) ==
    LET o == Copy(l, type, inline)
    IN  s.TypeString = type /\ s.Offset = o.Offset /\ s.Size = o.Size

\* Seen from there, the last chunk ends where the group does.
LEMMA DataEnds ==
    ASSUME NEW l, NEW inline \in BOOLEAN, IsLayout(l, inline),
           NEW type \in {"table", "table2"}, inline => type = "table",
           NEW s, Lies(s, l, type, inline)
    PROVE  lastChunkSizeV1(s, l.cuts[Len(l.compressed)])
             = End(l) - l.cuts[Len(l.compressed)]
<1> DEFINE n   == Len(l.compressed)
           abs == l.cuts[n]
           E   == End(l)
           S   == Start(l)
           D   == DataOf(l)
           start == s.Offset
           end   == IF s.Size <= MaxInt64 - s.Offset THEN s.Offset + s.Size ELSE s.Offset
           primary == IF s.Size <= start THEN start - s.Size ELSE 0
           dataEnd ==
               IF s.TypeString = "table2"
               THEN IF abs >= primary /\ abs < start THEN start ELSE primary
               ELSE IF abs < start THEN start
               ELSE IF abs < end THEN end ELSE 0
           size == Int64(dataEnd - abs)
<1>1. /\ abs \in Nat /\ E \in Nat /\ S \in Nat /\ D \in Nat
      /\ S <= abs /\ abs < E /\ E - abs < Half /\ E <= MaxInt64
  <2>1. n \in 1..n /\ n \in Nat \ {0}
    BY LayoutFacts
  <2>2. /\ 1 \in 1..(n + 1) /\ n \in 1..(n + 1) /\ n + 1 \in 1..(n + 1)
        /\ 1 <= n /\ n < n + 1
    BY <2>1
  <2>3. l.cuts[1] <= l.cuts[n] /\ l.cuts[1] \in Nat
    BY <2>2, CutsGrow
  <2>4. l.cuts[n] < l.cuts[n + 1] /\ l.cuts[n] \in Nat /\ l.cuts[n + 1] \in Nat
    BY <2>2, CutsGrow
  <2>5. l.cuts[n + 1] - l.cuts[n] < Half /\ S = l.cuts[1] /\ E = l.cuts[n + 1]
    BY <2>1, LayoutFacts
  <2> QED BY <2>3, <2>4, <2>5, EndFits
<1>2. inline => S >= DescriptorSize + D
  BY DEF IsLayout
<1>3. /\ s.TypeString = type
      /\ s.Size = DescriptorSize + (D + IF inline THEN E - S ELSE ChecksumSize)
      /\ start = LET p == IF inline THEN S - D - DescriptorSize ELSE E
                 IN  IF type = "table2" THEN p + s.Size ELSE p
  BY DEF Lies, Copy
<1>4. lastChunkSizeV1(s, abs) =
        IF dataEnd <= abs THEN 0 ELSE IF size > Word - 1 THEN Word - 1 ELSE size % Word
  BY DEF lastChunkSizeV1
<1> HIDE DEF abs, E, S, D, n
<1>5. dataEnd = E
  <2>1. CASE inline
    <3>1. start = S - D - DescriptorSize /\ s.Size = DescriptorSize + (D + (E - S))
      BY <1>3, <2>1
    <3>2. start + s.Size = E /\ s.Size <= MaxInt64 - start /\ ~(abs < start)
      BY <1>1, <1>2, <2>1, <3>1, Constants
    <3>3. end = E
      BY <3>2
    <3> QED BY <1>1, <1>3, <2>1, <3>2, <3>3
  <2>2. CASE ~inline /\ type = "table"
    <3>1. start = E
      BY <1>3, <2>2
    <3> QED BY <1>1, <1>3, <2>2, <3>1
  <2>3. CASE ~inline /\ type = "table2"
    <3>1. start = E + s.Size /\ s.Size \in Nat
      BY <1>1, <1>3, <2>3, Constants
    <3>2. primary = E
      BY <1>1, <3>1
    <3> QED BY <1>1, <1>3, <2>3, <3>2
  <2> QED BY <2>1, <2>2, <2>3
<1>6. size = E - abs
  <2>1. E - abs \in Int64s /\ E - abs \in Int
    BY <1>1, Constants DEF Int64s
  <2> QED BY <1>5, <2>1, Int64Within
<1> HIDE DEF dataEnd, size
<1>7. E - abs \in 0..(Word - 1) /\ E - abs \in Int
  BY <1>1, Constants
<1>8. (E - abs) % Word = E - abs
  BY <1>7, Constants, Remainder
<1>9. ~(dataEnd <= abs) /\ ~(size > Word - 1)
  BY <1>1, <1>5, <1>6, <1>7, Constants
<1>10. lastChunkSizeV1(s, abs) = E - abs
  BY <1>4, <1>6, <1>8, <1>9
<1> QED BY <1>10 DEF n, abs, E

\* What a section says that holds a layout's entries, in its place: the chunks the
\* writer meant.
LEMMA ChunksRead ==
    ASSUME NEW l, NEW inline \in BOOLEAN, IsLayout(l, inline), Counted(l),
           NEW type \in {"table", "table2"}, inline => type = "table",
           NEW s, Reads(s, l), Lies(s, l, type, inline)
    PROVE  [k \in 1..s.numberOfEntries |-> chunkV1(s, k)] = Meant(l)
<1> DEFINE n == Len(l.compressed)
<1>1. /\ n \in Nat \ {0} /\ Chunks(l) = 1..n /\ l.base \in Nat
      /\ s.numberOfEntries = n /\ s.entries = Entries(l) /\ Half \in Nat \ {0}
  BY LayoutFacts, Constants DEF Reads
<1> SUFFICES ASSUME NEW k \in 1..n PROVE chunkV1(s, k) = Meant(l)[k]
  BY <1>1 DEF Meant
<1> DEFINE c   == l.cuts[k]
           ovf == overflowed(s, k)
           abs == absOffset(s, k, ovf)
<1>2. c \in Nat /\ l.compressed[k] \in BOOLEAN /\ k \in Chunks(l)
  <2>1. k \in 1..(n + 1)
    BY <1>1
  <2> QED BY <1>1, <2>1, LayoutFacts
<1>3. (ovf <=> c >= Half) /\ (c >= Half => l.base = 0) /\ ovf \in BOOLEAN
  BY <1>2, OverflowSeen DEF overflowed
<1>4. /\ abs = c
      /\ k < n => sizeBefore(s.entries, k, ovf) = l.cuts[k + 1] - c
      /\ (~ovf /\ s.entries[k] >= Half) <=> l.compressed[k]
  <2>1. CASE c >= Half
    <3>1. ovf = TRUE /\ c - l.base >= Half
      BY <1>2, <1>3, <2>1
    <3>2. abs = c /\ (k < n => sizeBefore(s.entries, k, ovf) = l.cuts[k + 1] - c)
      BY <1>1, <1>2, <3>1, ReadHigh
    <3>3. ~l.compressed[k]
      BY <1>2, <3>1, EntryRead
    <3> QED BY <3>1, <3>2, <3>3
  <2>2. CASE ~(c >= Half)
    <3>1. ovf = FALSE /\ c - l.base < Half
      BY <1>1, <1>2, <1>3, <2>2
    <3>2. abs = c /\ (k < n => sizeBefore(s.entries, k, ovf) = l.cuts[k + 1] - c)
      BY <1>1, <1>2, <3>1, ReadLow
    <3>3. Entries(l)[k] >= Half <=> l.compressed[k]
      BY <1>2, <3>1, EntryRead
    <3> QED BY <1>1, <3>1, <3>2, <3>3
  <2> QED BY <2>1, <2>2
<1>5. k = n => lastChunkSizeV1(s, abs) = l.cuts[k + 1] - c
  <2>1. End(l) = l.cuts[n + 1]
    BY EndFits
  <2>2. lastChunkSizeV1(s, l.cuts[n]) = End(l) - l.cuts[n]
    BY DataEnds
  <2> QED BY <1>4, <2>1, <2>2
<1>6. chunkV1(s, k) =
        [dataOffset |-> abs,
         dataSize   |-> IF k < n THEN sizeBefore(s.entries, k, ovf)
                                 ELSE lastChunkSizeV1(s, abs),
         compressed |-> ~ovf /\ s.entries[k] >= Half,
         pattern    |-> FALSE,
         hasChecksum |-> FALSE]
  BY <1>1 DEF chunkV1
<1>7. Meant(l)[k] =
        [dataOffset |-> c, dataSize |-> l.cuts[k + 1] - c,
         compressed |-> l.compressed[k], pattern |-> FALSE, hasChecksum |-> FALSE]
  BY <1>2 DEF Meant
<1>8. (~ovf /\ s.entries[k] >= Half) = l.compressed[k]
  BY <1>2, <1>4, Zenon
<1>9. (IF k < n THEN sizeBefore(s.entries, k, ovf) ELSE lastChunkSizeV1(s, abs))
        = l.cuts[k + 1] - c
  BY <1>1, <1>4, <1>5
<1> HIDE DEF abs, ovf, c
<1> QED BY <1>4, <1>6, <1>7, <1>8, <1>9, Zenon

-----------------------------------------------------------------------------
(* What damage leaves of a table. *)

\* The parts of a section that reading it looks at.
Same(s, o) ==
    /\ s.TypeString = o.TypeString
    /\ s.Offset = o.Offset /\ s.Size = o.Size /\ s.DataSize = o.DataSize
    /\ s.headerReadable = o.headerReadable /\ s.entriesReadable = o.entriesReadable
    /\ s.headerMatches = o.headerMatches
    /\ s.numberOfEntries = o.numberOfEntries /\ s.baseOffset = o.baseOffset
    /\ s.entries = o.entries

LEMMA SectionParts ==
    ASSUME NEW s \in SectionV1
    PROVE  s = [v1 |-> s.v1, TypeString |-> s.TypeString,
                Offset |-> s.Offset, Size |-> s.Size, DataSize |-> s.DataSize,
                headerReadable |-> s.headerReadable, numberOfEntries |-> s.numberOfEntries,
                baseOffset |-> s.baseOffset, headerMatches |-> s.headerMatches,
                entriesReadable |-> s.entriesReadable, entries |-> s.entries,
                stored |-> s.stored]
BY DEF SectionV1

LEMMA SoundIsSame ==
    ASSUME NEW s \in SectionV1, NEW o \in SectionV1
    PROVE  Sound(s, o) <=> Same(s, o) /\ (s.stored # "differs" \/ o.stored = "differs")
<1> DEFINE e == [s EXCEPT !.stored = o.stored]
<1>1. /\ e.v1 = s.v1 /\ e.TypeString = s.TypeString
      /\ e.Offset = s.Offset /\ e.Size = s.Size /\ e.DataSize = s.DataSize
      /\ e.headerReadable = s.headerReadable /\ e.entriesReadable = s.entriesReadable
      /\ e.headerMatches = s.headerMatches /\ e.numberOfEntries = s.numberOfEntries
      /\ e.baseOffset = s.baseOffset /\ e.entries = s.entries /\ e.stored = o.stored
      /\ e \in SectionV1 /\ s.v1 = TRUE /\ o.v1 = TRUE
  BY DEF SectionV1
<1> HIDE DEF e
<1>2. e = o => Same(s, o)
  BY <1>1 DEF Same
<1>3. Same(s, o) => e = o
  <2> SUFFICES ASSUME Same(s, o) PROVE e = o
    OBVIOUS
  <2>1. /\ e.v1 = o.v1 /\ e.TypeString = o.TypeString
        /\ e.Offset = o.Offset /\ e.Size = o.Size /\ e.DataSize = o.DataSize
        /\ e.headerReadable = o.headerReadable
        /\ e.entriesReadable = o.entriesReadable
        /\ e.headerMatches = o.headerMatches
        /\ e.numberOfEntries = o.numberOfEntries
        /\ e.baseOffset = o.baseOffset /\ e.entries = o.entries /\ e.stored = o.stored
    BY <1>1 DEF Same
  <2>2. e \in SectionV1
    BY <1>1
  <2> QED BY <2>1, <2>2, SectionParts
<1> QED BY <1>2, <1>3 DEF Sound, e

LEMMA CopyTyped ==
    ASSUME NEW l, NEW inline \in BOOLEAN, IsLayout(l, inline),
           NEW type \in {"table", "table2"}, inline => type = "table"
    PROVE  Copy(l, type, inline) \in SectionV1
<1> DEFINE n == Len(l.compressed)
           E == End(l)
           S == Start(l)
           D == DataOf(l)
           p == IF inline THEN S - D - DescriptorSize ELSE E
           data == D + IF inline THEN E - S ELSE ChecksumSize
           size == DescriptorSize + data
           offset == IF type = "table2" THEN p + size ELSE p
           o == Copy(l, type, inline)
<1>1. /\ n \in Nat \ {0} /\ Chunks(l) = 1..n
      /\ E \in Nat /\ D \in Nat /\ S \in Nat /\ S <= E /\ E <= MaxInt64
      /\ l.base \in Nat /\ l.base <= S
  <2>1. n \in Nat \ {0} /\ Chunks(l) = 1..n
    BY LayoutFacts
  <2>2. 1 \in 1..(n + 1) /\ n + 1 \in 1..(n + 1) /\ 1 <= n + 1
    BY <2>1
  <2>3. l.cuts[1] <= l.cuts[n + 1] /\ l.cuts[1] \in Nat
    BY <2>2, CutsGrow
  <2> QED BY <2>1, <2>3, EndFits, LayoutFacts
<1>2. /\ E + 2 * (DescriptorSize + D + ChecksumSize) <= MaxInt64
      /\ (inline => S >= DescriptorSize + D)
  BY DEF IsLayout
<1>3. Entries(l) \in Seq(0..(Word - 1))
  <2>1. \A k \in 1..n : Entries(l)[k] \in 0..(Word - 1)
    BY <1>1, EntryRead
  <2>2. Entries(l) = [k \in 1..n |-> Entries(l)[k]]
    BY <1>1 DEF Entries
  <2> HIDE DEF n
  <2>3. [k \in 1..n |-> Entries(l)[k]] \in Seq(0..(Word - 1))
    BY <1>1, <2>1
  <2> QED BY <2>2, <2>3
<1>4. o = [v1 |-> TRUE, TypeString |-> type, Offset |-> offset,
           Size |-> size, DataSize |-> data,
           headerReadable |-> TRUE, numberOfEntries |-> n,
           baseOffset |-> l.base, headerMatches |-> TRUE, entriesReadable |-> TRUE,
           entries |-> Entries(l), stored |-> IF inline THEN "differs" ELSE "matches"]
  BY DEF Copy
<1> HIDE DEF E, S, D, n, o
<1>5. data \in Nat /\ size \in Nat /\ offset \in 0..MaxInt64
  <2>1. CASE inline
    BY <1>1, <1>2, <2>1, Constants
  <2>2. CASE ~inline
    BY <1>1, <1>2, <2>2, Constants
  <2> QED BY <2>1, <2>2
<1>6. l.base \in 0..(2 * MaxInt64 + 1)
  BY <1>1, Constants
<1> HIDE DEF data, size, offset
<1> QED BY <1>1, <1>3, <1>4, <1>5, <1>6 DEF SectionV1, o

\* Reading a copy that damage left recognisable: it is taken for valid exactly if
\* it is sound, and then says the chunks the writer meant.
LEMMA Verdict ==
    ASSUME NEW l, NEW inline \in BOOLEAN, IsLayout(l, inline), Counted(l),
           NEW type \in {"table", "table2"}, inline => type = "table",
           NEW s, Survives(s, Copy(l, type, inline)), s.TypeString # "other"
    PROVE  LET r == parseTableSectionV1(s)
           IN  /\ r.valid /\ r.chunks # <<>> <=> Sound(s, Copy(l, type, inline))
               /\ Sound(s, Copy(l, type, inline)) => r.chunks = Meant(l)
<1> DEFINE n == Len(l.compressed)
           o == Copy(l, type, inline)
           r == parseTableSectionV1(s)
<1>1. n \in Nat \ {0} /\ n <= MaxTableEntries /\ Chunks(l) = 1..n
  BY LayoutFacts
<1>2. s \in SectionV1 /\ o \in SectionV1
  BY CopyTyped DEF Survives
<1>3. /\ o.TypeString = type /\ o.numberOfEntries = n /\ o.baseOffset = l.base
      /\ o.entries = Entries(l) /\ o.headerReadable /\ o.entriesReadable
      /\ o.headerMatches
      /\ o.stored = IF inline THEN "differs" ELSE "matches"
      /\ o.DataSize = DataOf(l) + IF inline THEN End(l) - Start(l) ELSE ChecksumSize
  BY DEF Copy
<1>4. DataOf(l) = HeaderSize + n * EntrySize /\ n * EntrySize \in Nat
  <2>1. ASSUME NEW a \in Nat, NEW b \in Nat PROVE a * b \in Nat
    OBVIOUS
  <2>2. n * EntrySize \in Nat
    <3> HIDE DEF n
    <3> QED BY <1>1, <2>1, Constants
  <2> QED BY <2>2 DEF DataOf
<1>5. inline => End(l) - Start(l) # ChecksumSize /\ End(l) - Start(l) \in Nat
  <2>1. inline => End(l) - Start(l) # ChecksumSize
    BY DEF IsLayout
  <2>2. 1 \in 1..(n + 1) /\ n + 1 \in 1..(n + 1) /\ 1 <= n + 1
    BY <1>1
  <2>3. l.cuts[1] <= l.cuts[n + 1] /\ l.cuts[1] \in Nat /\ l.cuts[n + 1] \in Nat
    BY <2>2, CutsGrow
  <2>4. Start(l) = l.cuts[1] /\ End(l) = l.cuts[n + 1]
    BY LayoutFacts
  <2> QED BY <2>1, <2>3, <2>4
<1>6. s.TypeString = type
  BY <1>3 DEF Survives
<1>7. ASSUME r.valid, r.chunks # <<>> PROVE Sound(s, o)
  <2>1. Usable(s) /\ s.headerMatches /\ entriesValid(s)
    BY <1>7 DEF parseTableSectionV1
  <2>2. /\ s.headerReadable /\ s.entriesReadable
        /\ s.numberOfEntries = n /\ s.baseOffset = l.base /\ s.DataSize = o.DataSize
        /\ s.Offset = o.Offset /\ s.Size = o.Size
    BY <1>3, <2>1 DEF Usable, Survives
  <2>3. s.stored # "differs" \/ o.stored = "differs"
    <3>1. CASE inline
      BY <1>3, <3>1
    <3>2. CASE ~inline
      <4>1. s.DataSize = HeaderSize + s.numberOfEntries * EntrySize + ChecksumSize
        BY <1>3, <1>4, <2>2, <3>2
      <4> QED BY <2>1, <4>1 DEF entriesValid
    <3> QED BY <3>1, <3>2
  <2>4. s.entries = o.entries
    BY <2>3 DEF Survives
  <2>5. Same(s, o)
    <3>1. /\ s.headerReadable = TRUE /\ o.headerReadable = TRUE
          /\ s.entriesReadable = TRUE /\ o.entriesReadable = TRUE
          /\ s.headerMatches = TRUE /\ o.headerMatches = TRUE
      BY <1>2, <1>3, <2>1, <2>2 DEF SectionV1
    <3> QED BY <1>3, <1>6, <2>2, <2>4, <3>1 DEF Same
  <2> QED BY <1>2, <2>3, <2>5, SoundIsSame
<1>8. ASSUME Sound(s, o) PROVE r.valid /\ r.chunks # <<>> /\ r.chunks = Meant(l)
  <2>1. Same(s, o) /\ (s.stored # "differs" \/ o.stored = "differs")
    BY <1>2, <1>8, SoundIsSame
  <2>2. /\ s.headerReadable /\ s.entriesReadable /\ s.headerMatches
        /\ s.numberOfEntries = n /\ s.baseOffset = l.base /\ s.DataSize = o.DataSize
        /\ s.Offset = o.Offset /\ s.Size = o.Size /\ s.entries = Entries(l)
    BY <1>3, <2>1 DEF Same
  <2>3. Usable(s)
    <3>1. o.DataSize >= DataOf(l) /\ o.DataSize \in Nat
      BY <1>3, <1>4, <1>5, Constants
    <3> HIDE DEF n, o
    <3>2. /\ s.DataSize >= HeaderSize
          /\ n * EntrySize <= s.DataSize - HeaderSize
      BY <1>4, <2>2, <3>1, Constants
    <3> QED BY <1>1, <2>2, <3>2 DEF Usable
  <2>4. entriesValid(s)
    <3>1. CASE inline
      <4>1. o.DataSize # HeaderSize + n * EntrySize + ChecksumSize
        BY <1>3, <1>4, <1>5, <3>1, Constants
      <4> QED BY <2>2, <4>1 DEF entriesValid
    <3>2. CASE ~inline
      <4>1. s.stored # "differs" /\ s.stored \in {"matches", "differs", "unreadable"}
        BY <1>2, <1>3, <2>1, <3>2 DEF SectionV1
      <4> QED BY <4>1 DEF entriesValid
    <3> QED BY <3>1, <3>2
  <2>5. Reads(s, l) /\ Lies(s, l, type, inline)
    BY <1>6, <2>2 DEF Reads, Lies
  <2>6. [k \in 1..s.numberOfEntries |-> chunkV1(s, k)] = Meant(l)
    BY <2>5, ChunksRead
  <2>7. r.chunks = Meant(l) /\ r.valid
    BY <2>2, <2>3, <2>4, <2>6 DEF parseTableSectionV1
  <2>8. Meant(l) # <<>>
    <3>1. DOMAIN Meant(l) = 1..n /\ 1 \in 1..n
      BY <1>1 DEF Meant
    <3>2. DOMAIN <<>> = {}
      OBVIOUS
    <3> QED BY <3>1, <3>2
  <2> QED BY <2>7, <2>8
<1> QED BY <1>7, <1>8

-----------------------------------------------------------------------------
(* The tables that are collected. *)

\* All of them, in order, and nothing is built meanwhile.
Collects ==
    /\ \A j, k \in 1..Len(tables) : j < k => tables[j] < tables[k]
    /\ \A j \in 1..Len(tables) : TableAt(j).TypeString # "other"
    /\ \A p \in DOMAIN sections :
        sections[p].TypeString # "other" /\ (pc = "collect" => p < i) =>
            \E j \in 1..Len(tables) : tables[j] = p
    /\ pc = "collect" =>
        /\ \A j \in 1..Len(tables) : tables[j] < i
        /\ table = <<>>
        /\ stats = [TablesTotal |-> 0, TablesRecovered |-> 0, TablesInvalid |-> 0]

LEMMA Appended ==
    ASSUME NEW D, NEW q \in Seq(D), NEW x
    PROVE  /\ Len(q) \in Nat /\ Len(Append(q, x)) = Len(q) + 1
           /\ \A j \in 1..Len(q) : Append(q, x)[j] = q[j]
           /\ Append(q, x)[Len(q) + 1] = x
OBVIOUS

LEMMA CollectsInit == Init => Collects
<1> SUFFICES ASSUME Init PROVE Collects
  OBVIOUS
<1>1. pc = "collect" /\ i = 1 /\ Len(tables) = 0
  BY DEF Init
<1>2. \A p \in DOMAIN sections : ~(p < 1)
  <2>1. sections \in Seq(SectionV1 \cup SectionV2)
    BY TableAssumption DEF Init, sections
  <2> HIDE DEF sections
  <2>2. DOMAIN sections = 1..Len(sections) /\ Len(sections) \in Nat
    BY <2>1
  <2> QED BY <2>2
<1> QED BY <1>1, <1>2 DEF Collects, Init

LEMMA CollectsStep == TypeInv /\ Collects /\ [Next]_vars => Collects'
<1> SUFFICES ASSUME TypeInv, Collects, [Next]_vars PROVE Collects'
  OBVIOUS
<1> DEFINE N == Len(tables)
<1>1. /\ tables \in Seq(DOMAIN sections) /\ N \in Nat /\ i \in Nat \ {0}
      /\ DOMAIN sections = 1..Len(sections) /\ Len(sections) \in Nat
      /\ \A j \in 1..N : tables[j] \in DOMAIN sections
  <2>1. tables \in Seq(DOMAIN sections) /\ sections \in Seq(SectionV1 \cup SectionV2)
    BY DEF TypeInv, TypeOK
  <2>2. \A j \in 1..N : tables[j] \in DOMAIN sections
    BY <2>1, Element
  <2>3. DOMAIN sections = 1..Len(sections) /\ Len(sections) \in Nat
    <3> HIDE DEF sections
    <3> QED BY <2>1
  <2> QED BY <2>1, <2>2, <2>3 DEF TypeInv, TypeOK
<1>2. CASE Collect
  <2>1. pc = "collect" /\ pc' = pc /\ sections' = sections /\ i' = i + 1
        /\ i \in DOMAIN sections /\ table' = table /\ stats' = stats
    BY <1>1, <1>2 DEF Collect, sections
  <2>2. CASE sections[i].TypeString = "other"
    <3>1. tables' = tables
      BY <1>2, <2>2 DEF Collect
    <3>2. \A j \in 1..N : tables[j] < i + 1
      BY <1>1, <2>1 DEF Collects
    <3>3. \A p \in DOMAIN sections :
            sections[p].TypeString # "other" /\ p < i + 1 => p < i
      BY <1>1, <2>2
    <3> QED BY <2>1, <3>1, <3>2, <3>3 DEF Collects, TableAt
  <2>3. CASE sections[i].TypeString # "other"
    <3>1. tables' = Append(tables, i)
      BY <1>2, <2>3 DEF Collect
    <3>2. /\ Len(tables') = N + 1
          /\ \A j \in 1..N : tables'[j] = tables[j]
          /\ tables'[N + 1] = i
      BY <1>1, <3>1, Appended
    <3>3. \A j \in 1..(N + 1) : j \in 1..N \/ j = N + 1
      BY <1>1
    <3>4. \A j \in 1..N : tables[j] < i /\ tables[j] \in Nat
      BY <1>1, <2>1 DEF Collects
    <3>5. \A j, k \in 1..(N + 1) : j < k => tables'[j] < tables'[k]
      <4> SUFFICES ASSUME NEW j \in 1..(N + 1), NEW k \in 1..(N + 1), j < k
                   PROVE  tables'[j] < tables'[k]
        OBVIOUS
      <4>1. j \in 1..N
        BY <1>1
      <4>2. CASE k \in 1..N
        BY <3>2, <4>1, <4>2 DEF Collects
      <4>3. CASE k = N + 1
        BY <3>2, <3>4, <4>1, <4>3
      <4> QED BY <3>3, <4>2, <4>3
    <3>6. \A j \in 1..(N + 1) : sections[tables'[j]].TypeString # "other"
      <4>1. \A j \in 1..N : sections[tables[j]].TypeString # "other"
        BY DEF Collects, TableAt
      <4> QED BY <2>3, <3>2, <3>3, <4>1
    <3>7. ASSUME NEW p \in DOMAIN sections, sections[p].TypeString # "other", p < i + 1
          PROVE  \E j \in 1..(N + 1) : tables'[j] = p
      <4>1. CASE p = i
        <5>1. N + 1 \in 1..(N + 1)
          BY <1>1
        <5> QED BY <3>2, <4>1, <5>1
      <4>2. CASE p # i
        <5>1. PICK j \in 1..N : tables[j] = p
          <6>1. p < i
            BY <1>1, <3>7, <4>2
          <6> QED BY <3>7, <6>1 DEF Collects
        <5>2. j \in 1..(N + 1)
          BY <1>1
        <5> QED BY <3>2, <5>1, <5>2
      <4> QED BY <4>1, <4>2
    <3>8. \A j \in 1..(N + 1) : tables'[j] < i + 1
      <4>1. \A j \in 1..N : tables[j] < i + 1
        BY <1>1, <3>4
      <4>2. i < i + 1
        BY <1>1
      <4> QED BY <3>2, <3>3, <4>1, <4>2
    <3>9. table = <<>>
          /\ stats = [TablesTotal |-> 0, TablesRecovered |-> 0, TablesInvalid |-> 0]
      BY <2>1 DEF Collects
    <3> HIDE DEF N
    <3> QED BY <2>1, <3>2, <3>5, <3>6, <3>7, <3>8, <3>9 DEF Collects, TableAt
  <2> QED BY <2>2, <2>3
<1>3. CASE Collected
  <2>1. /\ pc = "collect" /\ pc' = "build" /\ sections' = sections
        /\ tables' = tables /\ i > Len(sections)
    BY <1>3 DEF Collected, sections
  <2>2. \A p \in DOMAIN sections : p < i
    BY <1>1, <2>1
  <2> QED BY <2>1, <2>2 DEF Collects, TableAt
<1>4. CASE TakeV2 \/ TakeGroup \/ Built
  <2>1. /\ pc = "build" /\ pc' # "collect" /\ sections' = sections /\ tables' = tables
    BY <1>4 DEF TakeV2, TakeGroup, Built, sections
  <2> QED BY <2>1 DEF Collects, TableAt
<1>5. CASE UNCHANGED vars
  BY <1>5 DEF vars, Collects, TableAt, sections
<1> QED BY <1>2, <1>3, <1>4, <1>5 DEF Next

-----------------------------------------------------------------------------
(* Which tables belong together. *)

\* The copies of a group: their places, what they are, and which are there.
LEMMA CopiesOf ==
    ASSUME file \in Files, NEW k \in DOMAIN groups
    PROVE  LET g == groups[k]
           IN  /\ g.primary \in DOMAIN sections /\ g.primary \in Nat \ {0}
               /\ g.backup \in Nat
               /\ g.backup # 0 => g.backup \in DOMAIN sections /\ g.primary < g.backup
               /\ Copies(g) = {g.primary} \cup (IF g.backup = 0 THEN {} ELSE {g.backup})
               /\ \A p \in Copies(g) : sections[p].TypeString = "other" <=> p \in Lost
<1> DEFINE g == groups[k]
<1>1. IsFile(file)
  BY LayoutAssumption
<1>2. sections \in Seq(SectionV1 \cup SectionV2)
  BY TableAssumption DEF sections
<1>3. DOMAIN sections = 1..Len(sections) /\ Len(sections) \in Nat
  <2> HIDE DEF sections
  <2> QED BY <1>2
<1>4. g.primary \in DOMAIN sections /\ g.backup \in {0} \cup (g.primary + 1)..Len(sections)
  BY <1>1 DEF IsFile, groups, sections
<1>5. g.primary \in Nat \ {0} /\ g.backup \in Nat
      /\ (g.backup # 0 => g.backup \in DOMAIN sections /\ g.primary < g.backup)
  <2> HIDE DEF g
  <2> QED BY <1>3, <1>4
<1>6. Copies(g) = {g.primary} \cup (IF g.backup = 0 THEN {} ELSE {g.backup})
  BY <1>5 DEF Copies
<1>7. ASSUME NEW p \in Copies(g) PROVE sections[p].TypeString = "other" <=> p \in Lost
  BY DEF Lost
<1> QED BY <1>4, <1>5, <1>6, <1>7

\* What lies in a copy's place is of a kind that tells what it is a copy of.
LEMMA KindsOf ==
    ASSUME file \in Files, NEW k \in DOMAIN groups
    PROVE  LET g == groups[k]
           IN  /\ file.v1 => /\ IsGroupV1(file, g)
                             /\ sections[g.primary].v1
                             /\ sections[g.primary].TypeString \in {"table", "other"}
                             /\ g.backup # 0 => sections[g.backup].v1
                                    /\ sections[g.backup].TypeString \in {"table2", "other"}
               /\ ~file.v1 => /\ IsGroupV2(file, g) /\ g.backup = 0
                              /\ ~sections[g.primary].v1
                              /\ sections[g.primary].TypeString = "sector_table"
<1> DEFINE g == groups[k]
<1>1. IF file.v1 THEN IsGroupV1(file, g) ELSE IsGroupV2(file, g)
  BY LayoutAssumption DEF IsFile, groups
<1>2. ASSUME NEW s, NEW l, NEW type, NEW inline, Survives(s, Copy(l, type, inline))
      PROVE  s.v1 /\ s.TypeString \in {type, "other"}
  BY <1>2 DEF Survives, Copy, SectionV1
<1>3. CASE file.v1
  <2>1. /\ IsGroupV1(file, g)
        /\ Survives(sections[g.primary], Copy(g.layout, "table", g.inline))
        /\ g.backup # 0 => Survives(sections[g.backup], Copy(g.layout, "table2", FALSE))
    BY <1>1, <1>3 DEF IsGroupV1, sections
  <2> QED BY <1>2, <1>3, <2>1
<1>4. CASE ~file.v1
  <2>1. /\ IsGroupV2(file, g) /\ g.backup = 0 /\ sections[g.primary] \in SectionV2
        /\ sections[g.primary].TypeString = "sector_table"
    BY <1>1, <1>4 DEF IsGroupV2, sections
  <2> QED BY <1>4, <2>1 DEF SectionV2
<1> QED BY <1>3, <1>4

\* The groups follow each other, with backups or without.
LEMMA GroupsFollow ==
    ASSUME file \in Files
    PROVE  /\ Len(groups) \in Nat \ {0} /\ DOMAIN groups = 1..Len(groups)
           /\ \A j, k \in DOMAIN groups :
                /\ groups[j].backup = 0 <=> groups[k].backup = 0
                /\ j < k => \A p \in Copies(groups[j]), q \in Copies(groups[k]) : p < q
           /\ \A p \in DOMAIN sections :
                sections[p].TypeString # "other" =>
                    \E k \in DOMAIN groups : p \in Copies(groups[k])
<1>1. IsFile(file)
  BY LayoutAssumption
<1>2. groups \in Seq(Group) /\ Len(groups) > 0
  BY <1>1 DEF IsFile, groups
<1>3. Len(groups) \in Nat \ {0} /\ DOMAIN groups = 1..Len(groups)
  <2> HIDE DEF groups
  <2> QED BY <1>2
<1> QED BY <1>1, <1>3 DEF IsFile, groups, sections

\* A copy belongs to one group, and a later copy to none before it.
LEMMA OneGroup ==
    ASSUME file \in Files, NEW j \in DOMAIN groups, NEW k \in DOMAIN groups,
           NEW p \in Copies(groups[j]), NEW q \in Copies(groups[k])
    PROVE  /\ p \in Nat /\ q \in Nat
           /\ j < k => p < q
           /\ p = q => j = k
           /\ p < q => j <= k
<1>1. /\ DOMAIN groups = 1..Len(groups) /\ Len(groups) \in Nat
      /\ j < k => p < q
      /\ k < j => q < p
  BY GroupsFollow
<1>2. p \in Nat /\ q \in Nat
  <2>1. p \in {groups[j].primary, groups[j].backup}
        /\ q \in {groups[k].primary, groups[k].backup}
    BY DEF Copies
  <2> QED BY <2>1, CopiesOf
<1> QED BY <1>1, <1>2

\* Each group is there with its table or else with its backup.
FirstCopy(g) == IF g.primary \in Lost THEN g.backup ELSE g.primary

LEMMA FirstCopyThere ==
    ASSUME TypeInv, Collects, pc # "collect", FewLost, NEW k \in DOMAIN groups
    PROVE  /\ FirstCopy(groups[k]) \in Copies(groups[k]) \ Lost
           /\ \A p \in Copies(groups[k]) : p \notin Lost =>
                \E j \in 1..Len(tables) : tables[j] = p
<1> DEFINE g == groups[k]
<1>0. file \in Files
  BY DEF TypeInv
<1>1. FirstCopy(g) \in Copies(g) \ Lost
  <2>1. CASE g.primary \notin Lost
    BY <1>0, <2>1, CopiesOf DEF FirstCopy
  <2>2. CASE g.primary \in Lost
    <3>1. g.backup # 0
      BY <2>2 DEF FewLost
    <3>2. g.backup \in Copies(g) /\ g.primary < g.backup /\ g.primary \in Nat
      BY <1>0, <3>1, CopiesOf
    <3>3. g.backup \notin Lost
      BY <2>2, <3>2 DEF FewLost
    <3> QED BY <2>2, <3>2, <3>3 DEF FirstCopy
  <2> QED BY <2>1, <2>2
<1>2. ASSUME NEW p \in Copies(g), p \notin Lost
      PROVE  \E j \in 1..Len(tables) : tables[j] = p
  <2>1. p \in DOMAIN sections /\ sections[p].TypeString # "other"
    BY <1>0, <1>2, CopiesOf
  <2> QED BY <2>1 DEF Collects
<1> QED BY <1>1, <1>2

\* What is collected is a copy that is not lost, of some group.
LEMMA TableOf ==
    ASSUME TypeInv, Collects, NEW j \in 1..Len(tables)
    PROVE  \E k \in DOMAIN groups : tables[j] \in Copies(groups[k]) \ Lost
<1>1. tables[j] \in DOMAIN sections /\ file \in Files
  <2>1. tables \in Seq(DOMAIN sections)
    BY DEF TypeInv, TypeOK
  <2> HIDE DEF sections
  <2> QED BY <2>1, Element DEF TypeInv
<1>2. sections[tables[j]].TypeString # "other"
  BY DEF Collects, TableAt
<1>3. PICK k \in DOMAIN groups : tables[j] \in Copies(groups[k])
  BY <1>1, <1>2, GroupsFollow
<1> QED BY <1>1, <1>2, <1>3, CopiesOf

\* The tables before n are those of the first d groups.
Past(n, d) ==
    \A j \in 1..Len(tables) : j < n <=> \E k \in 1..d : tables[j] \in Copies(groups[k])

\* Past the last table, past the last group.
LEMMA AllGroups ==
    ASSUME TypeInv, Collects, pc # "collect", FewLost,
           NEW d \in 0..Len(groups), Past(i, d), i > Len(tables)
    PROVE  d = Len(groups)
<1>1. file \in Files /\ i \in Nat /\ Len(tables) \in Nat
  BY DEF TypeInv, TypeOK
<1>2. DOMAIN groups = 1..Len(groups) /\ Len(groups) \in Nat
  BY <1>1, GroupsFollow
<1>3. \A j \in 1..Len(tables) : j < i
  BY <1>1
<1>4. ASSUME d + 1 \in DOMAIN groups PROVE FALSE
  <2>1. PICK j \in 1..Len(tables) : tables[j] \in Copies(groups[d + 1])
    BY <1>4, FirstCopyThere
  <2>2. PICK k \in 1..d : tables[j] \in Copies(groups[k])
    BY <1>3 DEF Past
  <2>3. k \in DOMAIN groups /\ k < d + 1
    BY <1>2
  <2>4. k = d + 1
    BY <1>1, <1>4, <2>1, <2>2, <2>3, OneGroup
  <2> QED BY <1>2, <2>3, <2>4
<1>5. ASSUME NEW n \in Nat, NEW D, D = 1..n, NEW e \in 0..n, e + 1 \notin D
      PROVE  e = n
  BY <1>5
<1> QED BY <1>2, <1>4, <1>5

\* Otherwise the next table is the next group's first copy.
LEMMA NextTable ==
    ASSUME TypeInv, Collects, pc # "collect", FewLost,
           NEW d \in 0..Len(groups), Past(i, d), i <= Len(tables)
    PROVE  d < Len(groups) /\ tables[i] = FirstCopy(groups[d + 1])
<1>1. file \in Files /\ i \in 1..Len(tables) /\ Len(tables) \in Nat
      /\ DOMAIN groups = 1..Len(groups) /\ Len(groups) \in Nat
  BY GroupsFollow DEF TypeInv, TypeOK
<1>2. PICK k \in DOMAIN groups : tables[i] \in Copies(groups[k]) \ Lost
  BY <1>1, TableOf
<1>3. ~(i < i)
  BY <1>1
<1>4. k >= d + 1
  BY <1>1, <1>2, <1>3 DEF Past
<1>5. d < Len(groups) /\ d + 1 \in DOMAIN groups
  BY <1>1, <1>2, <1>4
<1> DEFINE g == groups[d + 1]
           q == FirstCopy(g)
<1>6. q \in Copies(g)
  BY <1>5, FirstCopyThere
<1>7. PICK m \in 1..Len(tables) : tables[m] = q
  BY <1>5, FirstCopyThere
<1>8. ~(m < i)
  <2> SUFFICES ASSUME m < i PROVE FALSE
    OBVIOUS
  <2>1. PICK e \in 1..d : q \in Copies(groups[e])
    BY <1>7 DEF Past
  <2>2. e \in DOMAIN groups /\ e # d + 1
    BY <1>1
  <2> QED BY <1>1, <1>5, <1>6, <2>1, <2>2, OneGroup
<1>9. ~(i < m)
  <2> SUFFICES ASSUME i < m PROVE FALSE
    OBVIOUS
  <2>1. tables[i] < q
    BY <1>1, <1>7 DEF Collects
  <2>2. k = d + 1
    <3>1. k <= d + 1
      BY <1>1, <1>2, <1>5, <1>6, <2>1, OneGroup
    <3> QED BY <1>1, <1>4, <3>1
  <2>3. tables[i] \in Copies(g) /\ tables[i] \notin Lost
    BY <1>2, <2>2
  <2>4. /\ Copies(g) = {g.primary} \cup (IF g.backup = 0 THEN {} ELSE {g.backup})
        /\ g.backup # 0 => g.primary < g.backup
        /\ g.primary \in Nat /\ g.backup \in Nat
    BY <1>1, <1>5, CopiesOf
  <2> QED BY <2>1, <2>3, <2>4 DEF FirstCopy
<1>10. m = i
  BY <1>1, <1>8, <1>9
<1> QED BY <1>5, <1>7, <1>10

\* The next group's copies are taken together: what follows them is past them.
LEMMA Taken ==
    ASSUME TypeInv, NEW d \in 0..Len(groups), Past(i, d), NEW n \in Nat, i < n,
           \A j \in 1..Len(tables) :
                tables[j] \in Copies(groups[d + 1]) <=> ~(j < i) /\ j < n
    PROVE  Past(n, d + 1)
<1> SUFFICES ASSUME NEW j \in 1..Len(tables)
             PROVE  j < n <=> \E k \in 1..(d + 1) : tables[j] \in Copies(groups[k])
  BY DEF Past
<1>1. /\ i \in Nat /\ j \in Nat /\ d \in Nat
  <2>1. Len(tables) \in Nat /\ Len(groups) \in Nat
    BY GroupsFollow DEF TypeInv, TypeOK
  <2> QED BY <2>1 DEF TypeInv, TypeOK
<1>2. j < i <=> \E k \in 1..d : tables[j] \in Copies(groups[k])
  BY DEF Past
<1>3. \A k \in 1..(d + 1) : k \in 1..d \/ k = d + 1
  BY <1>1
<1>4. d + 1 \in 1..(d + 1) /\ \A k \in 1..d : k \in 1..(d + 1)
  BY <1>1
<1>5. (\E k \in 1..(d + 1) : tables[j] \in Copies(groups[k]))
        <=> j < i \/ tables[j] \in Copies(groups[d + 1])
  BY <1>2, <1>3, <1>4
<1>6. tables[j] \in Copies(groups[d + 1]) <=> ~(j < i) /\ j < n
  OBVIOUS
<1>7. j < n <=> j < i \/ (~(j < i) /\ j < n)
  BY <1>1
<1> QED BY <1>5, <1>6, <1>7

\* Which of the tables a group's copies are.
LEMMA PlacesOf ==
    ASSUME TypeInv, Collects, NEW k \in DOMAIN groups, NEW j \in 1..Len(tables),
           NEW m \in 1..Len(tables)
    PROVE  /\ tables[j] \in Nat /\ tables[j] \notin Lost
           /\ tables[m] = tables[j] => m = j
           /\ tables[m] < tables[j] => m < j
           /\ tables[j] \in Copies(groups[k]) <=>
                \/ tables[j] = groups[k].primary
                \/ groups[k].backup # 0 /\ tables[j] = groups[k].backup
<1>1. /\ file \in Files /\ Len(tables) \in Nat /\ j \in Nat /\ m \in Nat
      /\ \A a, b \in 1..Len(tables) : a < b => tables[a] < tables[b]
  <2>1. Len(tables) \in Nat
    BY DEF TypeInv, TypeOK
  <2> QED BY <2>1 DEF TypeInv, Collects
<1>2. \E e \in DOMAIN groups : tables[j] \in Copies(groups[e]) \ Lost
  BY TableOf
<1>3. \E e \in DOMAIN groups : tables[m] \in Copies(groups[e]) \ Lost
  BY TableOf
<1>4. tables[j] \in Nat /\ tables[m] \in Nat
  BY <1>1, <1>2, <1>3, OneGroup
<1>5. /\ m < j => tables[m] < tables[j]
      /\ j < m => tables[j] < tables[m]
  BY <1>1
<1>6. /\ tables[m] = tables[j] => m = j
      /\ tables[m] < tables[j] => m < j
  BY <1>1, <1>4, <1>5
<1> QED BY <1>1, <1>2, <1>4, <1>6, CopiesOf

\* The next table and its backup are both there: they are neighbours.
LEMMA BothCopies ==
    ASSUME TypeInv, Collects, pc # "collect", FewLost,
           NEW d \in 0..Len(groups), Past(i, d), i <= Len(tables),
           groups[d + 1].primary \notin Lost,
           groups[d + 1].backup # 0, groups[d + 1].backup \notin Lost
    PROVE  /\ i + 1 <= Len(tables) /\ tables[i + 1] = groups[d + 1].backup
           /\ Past(i + 2, d + 1)
<1> DEFINE g == groups[d + 1]
           N == Len(tables)
<1>1. /\ file \in Files /\ i \in 1..N /\ N \in Nat
      /\ DOMAIN groups = 1..Len(groups) /\ Len(groups) \in Nat
  BY GroupsFollow DEF TypeInv, TypeOK
<1>2. d + 1 \in DOMAIN groups /\ tables[i] = g.primary
  <2>1. d < Len(groups) /\ tables[i] = FirstCopy(g)
    BY NextTable
  <2> QED BY <1>1, <2>1 DEF FirstCopy
<1>3. g.primary \in Copies(g) /\ g.backup \in Copies(g) /\ g.primary < g.backup
      /\ g.primary \in Nat /\ g.backup \in Nat
  BY <1>1, <1>2, CopiesOf
<1>4. PICK m \in 1..N : tables[m] = g.backup
  BY <1>2, <1>3, FirstCopyThere
<1>5. i < m
  BY <1>1, <1>2, <1>3, <1>4, PlacesOf
<1>6. i + 1 \in 1..N
  BY <1>1, <1>5
<1>7. m = i + 1
  <2> SUFFICES ASSUME i + 1 < m PROVE FALSE
    BY <1>1, <1>5
  <2>1. tables[i] < tables[i + 1] /\ tables[i + 1] < tables[m]
    BY <1>1, <1>6 DEF Collects
  <2>2. PICK k \in DOMAIN groups : tables[i + 1] \in Copies(groups[k])
    BY <1>6, TableOf
  <2>3. d + 1 <= k /\ k <= d + 1
    <3>1. g.primary < tables[i + 1] /\ tables[i + 1] < g.backup
      BY <1>2, <1>4, <2>1
    <3>2. d + 1 <= k
      BY <1>1, <1>2, <1>3, <2>2, <3>1, OneGroup
    <3>3. k <= d + 1
      BY <1>1, <1>2, <1>3, <2>2, <3>1, OneGroup
    <3> QED BY <3>2, <3>3
  <2>4. k = d + 1
    BY <1>1, <2>3
  <2>5. tables[i + 1] = g.primary \/ tables[i + 1] = g.backup
    BY <1>2, <1>6, <2>2, <2>4, PlacesOf
  <2> QED BY <1>2, <1>3, <1>4, <2>1, <2>5
<1>8. tables[i + 1] = g.backup
  BY <1>4, <1>7
<1>9. \A j \in 1..N : tables[j] \in Copies(g) <=> ~(j < i) /\ j < i + 2
  <2> SUFFICES ASSUME NEW j \in 1..N
               PROVE  tables[j] \in Copies(g) <=> ~(j < i) /\ j < i + 2
    OBVIOUS
  <2>1. tables[j] \in Copies(g) <=> tables[j] = g.primary \/ tables[j] = g.backup
    BY <1>2, PlacesOf
  <2>2. /\ tables[j] = g.primary <=> j = i
        /\ tables[j] = g.backup <=> j = i + 1
    BY <1>1, <1>2, <1>6, <1>8, PlacesOf
  <2>3. j = i \/ j = i + 1 <=> ~(j < i) /\ j < i + 2
    BY <1>1
  <2> QED BY <2>1, <2>2, <2>3
<1>10. i + 2 \in Nat /\ i < i + 2
  BY <1>1
<1>11. Past(i + 2, d + 1)
  BY <1>9, <1>10, Taken
<1> QED BY <1>1, <1>6, <1>8, <1>11

\* One of them is there: it has no neighbour that could be taken for its backup.
LEMMA OneCopy ==
    ASSUME TypeInv, Collects, pc # "collect", FewLost,
           NEW d \in 0..Len(groups), Past(i, d), i <= Len(tables),
           \/ groups[d + 1].primary \in Lost
           \/ groups[d + 1].backup = 0 \/ groups[d + 1].backup \in Lost
    PROVE  ~HasBackup(i) /\ Past(i + 1, d + 1)
<1> DEFINE g == groups[d + 1]
           N == Len(tables)
<1>1. /\ file \in Files /\ i \in 1..N /\ N \in Nat /\ d \in Nat
      /\ DOMAIN groups = 1..Len(groups) /\ Len(groups) \in Nat
  BY GroupsFollow DEF TypeInv, TypeOK
<1>2. d + 1 \in DOMAIN groups /\ tables[i] = FirstCopy(g)
  <2>1. d < Len(groups) /\ tables[i] = FirstCopy(g)
    BY NextTable
  <2> QED BY <1>1, <2>1
<1>3. \A j \in 1..N : tables[j] \in Copies(g) <=> j = i
  <2> SUFFICES ASSUME NEW j \in 1..N PROVE tables[j] \in Copies(g) <=> j = i
    OBVIOUS
  <2>1. /\ tables[j] \notin Lost
        /\ tables[j] \in Copies(g) <=>
             tables[j] = g.primary \/ (g.backup # 0 /\ tables[j] = g.backup)
    BY <1>2, PlacesOf
  <2>2. FirstCopy(g) \in Copies(g)
    BY <1>2, FirstCopyThere
  <2>3. tables[j] \in Copies(g) => tables[j] = tables[i]
    BY <1>2, <2>1 DEF FirstCopy
  <2> QED BY <1>1, <1>2, <2>2, <2>3, PlacesOf
<1>4. Past(i + 1, d + 1)
  <2>1. \A j \in 1..N : tables[j] \in Copies(g) <=> ~(j < i) /\ j < i + 1
    <3>1. \A j \in 1..N : j = i <=> ~(j < i) /\ j < i + 1
      BY <1>1
    <3> QED BY <1>3, <3>1
  <2>2. i + 1 \in Nat /\ i < i + 1
    BY <1>1
  <2> QED BY <2>1, <2>2, Taken
<1>5. ~HasBackup(i)
  <2> SUFFICES ASSUME HasBackup(i) PROVE FALSE
    OBVIOUS
  <2>1. /\ i + 1 \in 1..N
        /\ sections[tables[i]].TypeString = "table"
        /\ sections[tables[i + 1]].TypeString = "table2"
    BY <1>1 DEF HasBackup, TableAt
  <2>2. PICK k \in DOMAIN groups : tables[i + 1] \in Copies(groups[k]) \ Lost
    BY <2>1, TableOf
  <2> DEFINE h == groups[k]
  <2>3. tables[i + 1] = h.primary \/ (h.backup # 0 /\ tables[i + 1] = h.backup)
    BY <2>1, <2>2, PlacesOf
  <2>4. tables[i + 1] = h.backup /\ h.backup # 0
    BY <1>1, <2>1, <2>3, KindsOf
  <2>5. g.backup # 0
    BY <1>1, <1>2, <2>4, GroupsFollow
  <2>6. g.backup \in Lost
    <3>1. CASE g.primary \in Lost
      <4>1. tables[i] = g.backup
        BY <1>2, <3>1 DEF FirstCopy
      <4> QED BY <1>1, <1>2, <2>1, <2>5, <4>1, KindsOf
    <3> QED BY <2>5, <3>1
  <2>7. k # d + 1
    BY <2>2, <2>4, <2>6
  <2>8. h.primary \in Copies(h) /\ h.primary < h.backup /\ g.backup \in Copies(g)
    BY <1>1, <1>2, <2>4, <2>5, CopiesOf
  <2>9. h.primary \notin Lost
    <3>1. h.primary # g.backup
      BY <1>1, <1>2, <2>7, <2>8, OneGroup
    <3> QED BY <2>6, <3>1 DEF FewLost
  <2>10. PICK m \in 1..N : tables[m] = h.primary
    BY <2>8, <2>9, FirstCopyThere
  <2>11. m < i + 1
    BY <2>1, <2>4, <2>8, <2>10, PlacesOf
  <2>12. m < i
    <3>1. m # i
      <4>1. tables[i] \in Copies(g)
        BY <1>1, <1>3
      <4> QED BY <1>1, <1>2, <2>7, <2>8, <2>10, <4>1, OneGroup
    <3> QED BY <1>1, <2>11, <3>1
  <2>13. k \in 1..d
    <3>1. PICK e \in 1..d : tables[m] \in Copies(groups[e])
      BY <2>12 DEF Past
    <3>2. e \in DOMAIN groups
      BY <1>1
    <3>3. e = k
      BY <1>1, <2>8, <2>10, <3>1, <3>2, OneGroup
    <3> QED BY <3>3
  <2>14. i + 1 < i
    BY <2>1, <2>2, <2>13 DEF Past
  <2> QED BY <1>1, <2>14
<1> QED BY <1>4, <1>5

-----------------------------------------------------------------------------
(* What becomes of a group. *)

Good(g) == SoundPrimary(g) \/ SoundBackup(g)

\* The chunks meant, unless neither copy is sound, and which of them it was.
Outcome(r, primary, backup, meant) ==
    /\ r.outcome = "unverified" <=> ~primary /\ ~backup
    /\ r.outcome = "backup" <=> ~primary /\ backup
    /\ primary \/ backup => r.chunks = meant

\* One table alone, and a table with its backup.
LEMMA OutcomeOf ==
    ASSUME NEW s, NEW p \in BOOLEAN, NEW M,
           LET r == parseTableSectionV1(s)
           IN  (r.valid /\ r.chunks # <<>> <=> p) /\ (p => r.chunks = M)
    PROVE  /\ Outcome(parseTableGroupV1(s, <<>>), p, FALSE, M)
           /\ \A b : \A q \in BOOLEAN :
                (LET r == parseTableSectionV1(b)
                 IN  (r.valid /\ r.chunks # <<>> <=> q) /\ (q => r.chunks = M))
                    => Outcome(parseTableGroupV1(s, <<b>>), p, q, M)
<1> DEFINE first == parseTableSectionV1(s)
<1>1. Outcome(parseTableGroupV1(s, <<>>), p, FALSE, M)
  <2> DEFINE g == parseTableGroupV1(s, <<>>)
             none == [chunks |-> <<>>, valid |-> FALSE]
  <2>1. g = IF first.valid /\ first.chunks # <<>>
            THEN [chunks |-> first.chunks, outcome |-> "primary"]
            ELSE IF none.valid /\ none.chunks # <<>>
            THEN [chunks |-> none.chunks, outcome |-> "backup"]
            ELSE [chunks  |-> IF first.chunks = <<>> THEN none.chunks ELSE first.chunks,
                  outcome |-> "unverified"]
    BY DEF parseTableGroupV1
  <2> HIDE DEF g, first
  <2>2. /\ p => g.outcome = "primary" /\ g.chunks = first.chunks
        /\ ~p => g.outcome = "unverified"
    BY <2>1 DEF first
  <2> QED BY <2>2 DEF Outcome, g, first
<1>2. ASSUME NEW b, NEW q \in BOOLEAN,
             LET r == parseTableSectionV1(b)
             IN  (r.valid /\ r.chunks # <<>> <=> q) /\ (q => r.chunks = M)
      PROVE  Outcome(parseTableGroupV1(s, <<b>>), p, q, M)
  <2> DEFINE g == parseTableGroupV1(s, <<b>>)
             second == parseTableSectionV1(b)
  <2>1. <<b>> # <<>> /\ <<b>>[1] = b
    OBVIOUS
  <2>2. g = IF first.valid /\ first.chunks # <<>>
            THEN [chunks |-> first.chunks, outcome |-> "primary"]
            ELSE IF second.valid /\ second.chunks # <<>>
            THEN [chunks |-> second.chunks, outcome |-> "backup"]
            ELSE [chunks  |-> IF first.chunks = <<>> THEN second.chunks ELSE first.chunks,
                  outcome |-> "unverified"]
    BY <2>1 DEF parseTableGroupV1
  <2>3. second.valid /\ second.chunks # <<>> <=> q
    BY <1>2
  <2> HIDE DEF g, first, second
  <2>4. /\ p => g.outcome = "primary" /\ g.chunks = first.chunks
        /\ ~p /\ q => g.outcome = "backup" /\ g.chunks = second.chunks
        /\ ~p /\ ~q => g.outcome = "unverified"
    BY <2>2, <2>3 DEF first
  <2> QED BY <1>2, <2>4 DEF Outcome, g, first, second
<1> QED BY <1>1, <1>2

\* A copy whose descriptor is not recognised is not sound.
LEMMA LostIsUnsound ==
    ASSUME NEW s, NEW l, NEW type \in {"table", "table2"}, NEW inline,
           s.TypeString = "other"
    PROVE  ~Sound(s, Copy(l, type, inline))
<1>1. [s EXCEPT !.stored = Copy(l, type, inline).stored].TypeString = "other"
  OBVIOUS
<1>2. Copy(l, type, inline).TypeString # "other"
  BY DEF Copy
<1> QED BY <1>1, <1>2 DEF Sound

LEMMA VerdictOfPrimary ==
    ASSUME file \in Files, file.v1, Told, NEW k \in DOMAIN groups,
           groups[k].primary \notin Lost
    PROVE  LET r == parseTableSectionV1(sections[groups[k].primary])
           IN  /\ r.valid /\ r.chunks # <<>> <=> SoundPrimary(groups[k])
               /\ SoundPrimary(groups[k]) => r.chunks = Part(file, groups[k])
<1> DEFINE g == groups[k]
           s == sections[g.primary]
<1>1. /\ IsLayout(g.layout, g.inline)
      /\ Part(file, g) = Meant(g.layout)
      /\ Survives(s, Copy(g.layout, "table", g.inline))
  BY KindsOf DEF IsGroupV1, sections
<1>2. s.TypeString # "other"
  BY CopiesOf
<1>3. Counted(g.layout)
  BY DEF Told, Counted
<1>4. g.inline \in BOOLEAN
  <2>1. groups \in Seq(Group) /\ k \in 1..Len(groups)
    BY LayoutAssumption, GroupsFollow DEF IsFile, groups
  <2>2. g \in Group
    <3> HIDE DEF groups
    <3> QED BY <2>1, Element
  <2> QED BY <2>2 DEF Group
<1> HIDE DEF s
<1>5. LET r == parseTableSectionV1(s)
          o == Copy(g.layout, "table", g.inline)
      IN  (r.valid /\ r.chunks # <<>> <=> Sound(s, o)) /\ (Sound(s, o) => r.chunks = Meant(g.layout))
  BY <1>1, <1>2, <1>3, <1>4, Verdict
<1> QED BY <1>1, <1>5 DEF SoundPrimary, s

LEMMA VerdictOfBackup ==
    ASSUME file \in Files, file.v1, Told, NEW k \in DOMAIN groups,
           groups[k].backup # 0, groups[k].backup \notin Lost
    PROVE  LET r == parseTableSectionV1(sections[groups[k].backup])
           IN  /\ r.valid /\ r.chunks # <<>> <=> SoundBackup(groups[k])
               /\ SoundBackup(groups[k]) => r.chunks = Part(file, groups[k])
<1> DEFINE g == groups[k]
           s == sections[g.backup]
<1>1. /\ IsLayout(g.layout, g.inline) /\ (g.inline => g.backup = 0)
      /\ Part(file, g) = Meant(g.layout)
      /\ Survives(s, Copy(g.layout, "table2", FALSE))
  BY KindsOf DEF IsGroupV1, sections
<1>2. s.TypeString # "other"
  BY CopiesOf
<1>3. Counted(g.layout)
  BY DEF Told, Counted
<1>4. g.inline = FALSE
  <2>1. groups \in Seq(Group) /\ k \in 1..Len(groups)
    BY LayoutAssumption, GroupsFollow DEF IsFile, groups
  <2>2. g \in Group
    <3> HIDE DEF groups
    <3> QED BY <2>1, Element
  <2> QED BY <1>1, <2>2 DEF Group
<1> HIDE DEF s
<1>5. LET r == parseTableSectionV1(s)
          o == Copy(g.layout, "table2", FALSE)
      IN  (r.valid /\ r.chunks # <<>> <=> Sound(s, o)) /\ (Sound(s, o) => r.chunks = Meant(g.layout))
  BY <1>1, <1>2, <1>3, <1>4, Verdict
<1> QED BY <1>1, <1>5 DEF SoundBackup, s

\* What TakeGroup makes of the next tables is the next group, from the copies that
\* are there.  A backup alone is not told from a table.
Backup == IF HasBackup(i) THEN <<TableAt(i + 1)>> ELSE <<>>

LEMMA GroupTaken ==
    ASSUME TypeInv, Collects, pc # "collect", FewLost, Told, file.v1,
           NEW d \in 0..Len(groups), Past(i, d), i <= Len(tables)
    PROVE  /\ d + 1 \in DOMAIN groups
           /\ Past(i + 1 + Len(Backup), d + 1)
           /\ LET g == groups[d + 1]
                  r == parseTableGroupV1(TableAt(i), Backup)
              IN  /\ r.outcome = "unverified" <=> ~Good(g)
                  /\ Good(g) => r.chunks = Part(file, g)
                  /\ g.primary \notin Lost =>
                        (r.outcome = "backup" <=> ~SoundPrimary(g) /\ SoundBackup(g))
<1> DEFINE g == groups[d + 1]
           M == Part(file, g)
<1>1. /\ file \in Files /\ i \in Nat
      /\ DOMAIN groups = 1..Len(groups) /\ Len(groups) \in Nat
  <2>1. file \in Files /\ i \in Nat
    BY DEF TypeInv, TypeOK
  <2> QED BY <2>1, GroupsFollow
<1>2. d + 1 \in DOMAIN groups /\ tables[i] = FirstCopy(g)
  <2>1. d < Len(groups) /\ tables[i] = FirstCopy(g)
    BY NextTable
  <2> QED BY <1>1, <2>1
<1>3. SoundPrimary(g) \in BOOLEAN /\ SoundBackup(g) \in BOOLEAN
  BY DEF SoundPrimary, SoundBackup, Sound
<1>4. g.primary \in Lost => ~SoundPrimary(g)
  <2>1. g.primary \in Lost => sections[g.primary].TypeString = "other"
    BY <1>1, <1>2, CopiesOf
  <2> QED BY <2>1, LostIsUnsound DEF SoundPrimary
<1>5. g.backup \in Lost => ~SoundBackup(g)
  <2>1. g.backup \in Lost => sections[g.backup].TypeString = "other"
    BY DEF Lost
  <2> QED BY <2>1, LostIsUnsound DEF SoundBackup
<1>6. CASE g.primary \notin Lost /\ g.backup # 0 /\ g.backup \notin Lost
  <2>1. /\ i + 1 <= Len(tables) /\ tables[i + 1] = g.backup /\ Past(i + 2, d + 1)
        /\ tables[i] = g.primary
    BY <1>2, <1>6, BothCopies DEF FirstCopy
  <2>2. HasBackup(i) /\ TableAt(i) = sections[g.primary]
        /\ TableAt(i + 1) = sections[g.backup]
    <3>1. /\ sections[g.primary].TypeString = "table"
          /\ sections[g.backup].TypeString = "table2"
      <4>1. /\ sections[g.primary].TypeString # "other"
            /\ sections[g.backup].TypeString # "other"
        BY <1>1, <1>2, <1>6, CopiesOf
      <4> QED BY <1>1, <1>2, <1>6, <4>1, KindsOf
    <3> QED BY <2>1, <3>1 DEF HasBackup, TableAt
  <2>3. Backup = <<sections[g.backup]>> /\ i + 1 + Len(Backup) = i + 2
    BY <1>1, <2>2 DEF Backup
  <2>4. Outcome(parseTableGroupV1(sections[g.primary], <<sections[g.backup]>>),
                SoundPrimary(g), SoundBackup(g), M)
    <3>1. LET r == parseTableSectionV1(sections[g.primary])
          IN  (r.valid /\ r.chunks # <<>> <=> SoundPrimary(g)) /\ (SoundPrimary(g) => r.chunks = M)
      BY <1>1, <1>2, <1>6, VerdictOfPrimary
    <3>2. LET r == parseTableSectionV1(sections[g.backup])
          IN  (r.valid /\ r.chunks # <<>> <=> SoundBackup(g)) /\ (SoundBackup(g) => r.chunks = M)
      BY <1>1, <1>2, <1>6, VerdictOfBackup
    <3> HIDE DEF M
    <3> QED BY <1>3, <3>1, <3>2, OutcomeOf
  <2> QED BY <1>2, <2>1, <2>2, <2>3, <2>4 DEF Outcome, Good
<1>7. CASE ~(g.primary \notin Lost /\ g.backup # 0 /\ g.backup \notin Lost)
  <2>1. ~HasBackup(i) /\ Past(i + 1, d + 1)
    BY <1>7, OneCopy
  <2>2. Backup = <<>> /\ i + 1 + Len(Backup) = i + 1
    BY <1>1, <2>1 DEF Backup
  <2>3. CASE g.primary \notin Lost
    <3>1. TableAt(i) = sections[g.primary] /\ ~SoundBackup(g)
      BY <1>2, <1>5, <1>7, <2>3 DEF FirstCopy, TableAt, SoundBackup
    <3>2. LET r == parseTableSectionV1(sections[g.primary])
          IN  (r.valid /\ r.chunks # <<>> <=> SoundPrimary(g)) /\ (SoundPrimary(g) => r.chunks = M)
      BY <1>1, <1>2, <2>3, VerdictOfPrimary
    <3>3. Outcome(parseTableGroupV1(sections[g.primary], <<>>), SoundPrimary(g), FALSE, M)
      <4> HIDE DEF M
      <4> QED BY <1>3, <3>2, OutcomeOf
    <3> QED BY <1>2, <2>1, <2>2, <3>1, <3>3 DEF Outcome, Good
  <2>4. CASE g.primary \in Lost
    <3>1. g.backup # 0 /\ g.backup \notin Lost /\ TableAt(i) = sections[g.backup]
      <4>1. FirstCopy(g) \in Copies(g) \ Lost
        BY <1>2, FirstCopyThere
      <4> QED BY <1>2, <2>4, <4>1 DEF FirstCopy, Copies, TableAt
    <3>2. LET r == parseTableSectionV1(sections[g.backup])
          IN  (r.valid /\ r.chunks # <<>> <=> SoundBackup(g)) /\ (SoundBackup(g) => r.chunks = M)
      BY <1>1, <1>2, <3>1, VerdictOfBackup
    <3>3. Outcome(parseTableGroupV1(sections[g.backup], <<>>), SoundBackup(g), FALSE, M)
      <4> HIDE DEF M
      <4> QED BY <1>3, <3>2, OutcomeOf
    <3>4. ~SoundPrimary(g)
      BY <1>4, <2>4
    <3> QED BY <1>2, <2>1, <2>2, <2>4, <3>1, <3>3, <3>4 DEF Outcome, Good
  <2> QED BY <2>3, <2>4
<1> QED BY <1>6, <1>7

\* A v2 table reads back as the chunks written.
LEMMA ChunkOfEntryV2 ==
    ASSUME NEW c \in chunkDescriptor, ~(c.compressed /\ c.pattern)
    PROVE  chunkV2(EntryV2(c)) = c
<1> DEFINE e == EntryV2(c)
<1>1. /\ e.offset = c.dataOffset /\ e.size = c.dataSize
      /\ ("Compressed" \in e.flags) <=> c.compressed \/ c.pattern
      /\ ("Checksum" \in e.flags) <=> c.hasChecksum
      /\ ("Pattern" \in e.flags) <=> c.pattern
  BY DEF EntryV2
<1>2. c = [dataOffset |-> c.dataOffset, dataSize |-> c.dataSize,
           compressed |-> c.compressed, pattern |-> c.pattern,
           hasChecksum |-> c.hasChecksum]
      /\ c.compressed \in BOOLEAN /\ c.pattern \in BOOLEAN /\ c.hasChecksum \in BOOLEAN
  BY DEF chunkDescriptor
<1> HIDE DEF e
<1>3. /\ ("Pattern" \notin e.flags /\ "Compressed" \in e.flags) = c.compressed
      /\ ("Pattern" \in e.flags) = c.pattern
      /\ ("Checksum" \in e.flags) = c.hasChecksum
  <2>1. ("Pattern" \notin e.flags /\ "Compressed" \in e.flags) <=> c.compressed
    BY <1>1
  <2>2. ASSUME NEW a \in BOOLEAN, NEW b \in BOOLEAN, a <=> b PROVE a = b
    BY <2>2
  <2>3. ("Pattern" \notin e.flags /\ "Compressed" \in e.flags) = c.compressed
    BY <1>2, <2>1, <2>2, Zenon
  <2> DEFINE p == "Pattern" \in e.flags
             h == "Checksum" \in e.flags
  <2>4. p \in BOOLEAN /\ h \in BOOLEAN /\ (p <=> c.pattern) /\ (h <=> c.hasChecksum)
    BY <1>1
  <2> HIDE DEF p, h
  <2>5. p = c.pattern /\ h = c.hasChecksum
    BY <1>2, <2>2, <2>4
  <2> USE DEF p, h
  <2> QED BY <2>3, <2>5
<1>4. chunkV2(e) = [dataOffset |-> c.dataOffset, dataSize |-> c.dataSize,
                    compressed |-> c.compressed, pattern |-> c.pattern,
                    hasChecksum |-> c.hasChecksum]
  BY <1>1, <1>3, Zenon DEF chunkV2
<1> QED BY <1>2, <1>4 DEF e

\* The groups share out the chunks written.
UpToGroup(d) == IF d = 0 THEN 0 ELSE groups[d].upTo

LEMMA GroupsSpan ==
    ASSUME file \in Files, NEW k \in DOMAIN groups
    PROVE  LET g == groups[k]
           IN  /\ file.written \in Seq(chunkDescriptor)
               /\ g.from = UpToGroup(k - 1) /\ UpToGroup(k) = g.upTo
               /\ g.from \in Nat /\ g.upTo \in Nat /\ g.from < g.upTo
               /\ g.upTo <= Len(file.written)
               /\ UpToGroup(Len(groups)) = Len(file.written)
<1> DEFINE g == groups[k]
           n == Len(groups)
           w == Len(file.written)
<1>1. IsFile(file)
  BY LayoutAssumption
<1>2. /\ n \in Nat \ {0} /\ DOMAIN groups = 1..n
      /\ file.written \in Seq(chunkDescriptor)
      /\ groups \in Seq(Group) /\ groups[1].from = 0 /\ groups[n].upTo = w
      /\ \A j \in DOMAIN groups : j < n => groups[j + 1].from = groups[j].upTo
      /\ g.from \in 0..(g.upTo - 1) /\ g.upTo \in 1..w
  BY <1>1, GroupsFollow DEF IsFile, groups
<1>3. g.from \in Nat /\ g.upTo \in Nat /\ g.from < g.upTo /\ g.upTo <= w
  <2>1. w \in Nat
    BY <1>2
  <2> HIDE DEF g, w
  <2> QED BY <1>2, <2>1
<1>4. k \in 1..n /\ k # 0 /\ n # 0
  BY <1>2
<1>5. g.from = UpToGroup(k - 1)
  <2>1. CASE k = 1
    BY <1>2, <2>1 DEF UpToGroup
  <2>2. CASE k # 1
    <3>1. k - 1 \in DOMAIN groups /\ k - 1 < n /\ (k - 1) + 1 = k /\ k - 1 # 0
      <4>1. ASSUME NEW m \in Nat \ {0}, NEW j \in 1..m, j # 1
            PROVE  j - 1 \in 1..m /\ j - 1 < m /\ (j - 1) + 1 = j /\ j - 1 # 0
        BY <4>1
      <4> QED BY <1>2, <1>4, <2>2, <4>1
    <3>2. groups[(k - 1) + 1].from = groups[k - 1].upTo
      BY <1>2, <3>1
    <3> QED BY <3>1, <3>2 DEF UpToGroup
  <2> QED BY <2>1, <2>2
<1>6. UpToGroup(k) = g.upTo /\ UpToGroup(n) = w
  BY <1>2, <1>4 DEF UpToGroup
<1> QED BY <1>2, <1>3, <1>5, <1>6

LEMMA Pieces ==
    ASSUME NEW D, NEW w \in Seq(D), NEW a \in Nat, NEW b \in Nat, a <= b, b <= Len(w)
    PROVE  /\ SubSeq(w, 1, a) \o SubSeq(w, a + 1, b) = SubSeq(w, 1, b)
           /\ SubSeq(w, 1, Len(w)) = w /\ SubSeq(w, 1, 0) = <<>>
           /\ Len(SubSeq(w, a + 1, b)) = b - a
           /\ \A j \in 1..(b - a) : SubSeq(w, a + 1, b)[j] \in D
OBVIOUS

\* A v2 table reads back as the chunks written.
LEMMA TakenV2 ==
    ASSUME file \in Files, ~file.v1, NEW k \in DOMAIN groups
    PROVE  parseTableSectionV2(sections[groups[k].primary]) = Part(file, groups[k])
<1> DEFINE g == groups[k]
           s == sections[g.primary]
           M == Part(file, g)
<1>1. IsGroupV2(file, g)
  BY KindsOf
<1>2. /\ Usable(s) /\ s.numberOfEntries = Len(M)
      /\ \A j \in 1..Len(M) : s.entries[j] = EntryV2(M[j]) /\ ~(M[j].compressed /\ M[j].pattern)
  BY <1>1 DEF IsGroupV2, sections
<1>3. M = SubSeq(file.written, g.from + 1, g.upTo)
      /\ file.written \in Seq(chunkDescriptor)
      /\ g.from \in Nat /\ g.upTo \in Nat /\ g.from <= g.upTo /\ g.upTo <= Len(file.written)
  BY GroupsSpan DEF Part
<1> HIDE DEF s, M, g
<1>4. M \in Seq(chunkDescriptor)
  <2>1. ASSUME NEW D, NEW w \in Seq(D), NEW a \in Nat, NEW b \in Nat, a <= b, b <= Len(w)
        PROVE  SubSeq(w, a + 1, b) \in Seq(D)
    BY <2>1
  <2> QED BY <1>3, <2>1
<1>5. \A j \in 1..Len(M) : chunkV2(s.entries[j]) = M[j]
  <2> SUFFICES ASSUME NEW j \in 1..Len(M) PROVE chunkV2(s.entries[j]) = M[j]
    OBVIOUS
  <2>1. M[j] \in chunkDescriptor
    BY <1>4, Element
  <2> QED BY <1>2, <2>1, ChunkOfEntryV2
<1>6. parseTableSectionV2(s) = [j \in 1..Len(M) |-> chunkV2(s.entries[j])]
  BY <1>2 DEF parseTableSectionV2
<1>7. [j \in 1..Len(M) |-> chunkV2(s.entries[j])] = [j \in 1..Len(M) |-> M[j]]
  BY <1>5
<1>8. M = [j \in 1..Len(M) |-> M[j]]
  BY <1>4
<1> QED BY <1>6, <1>7, <1>8 DEF s, M, g

-----------------------------------------------------------------------------
(* What is built. *)

Saved  == {k \in DOMAIN groups : ~SoundPrimary(groups[k]) /\ SoundBackup(groups[k])}
Ruined == {k \in DOMAIN groups : ~SoundPrimary(groups[k]) /\ ~SoundBackup(groups[k])}

\* Before table n, d groups: the descriptors t are theirs unless a group is counted
\* as invalid, none is without a reason, and the counts c are right when every copy
\* is there.
Progress(n, d, t, c) ==
    /\ d \in 0..Len(groups)
    /\ Past(n, d)
    /\ c.TablesInvalid = 0 => t = SubSeq(file.written, 1, UpToGroup(d))
    /\ (file.v1 => \A k \in 1..d : Good(groups[k])) => c.TablesInvalid = 0
    /\ file.v1 /\ Lost = {} =>
        /\ c.TablesRecovered = Cardinality((1..d) \cap Saved)
        /\ c.TablesInvalid = Cardinality((1..d) \cap Ruined)

Builds ==
    pc # "collect" /\ Told /\ FewLost =>
        /\ Progress(i, stats.TablesTotal, table, stats)
        /\ pc = "built" => stats.TablesTotal = Len(groups)

LEMMA OneMore ==
    ASSUME NEW S, NEW d \in Nat
    PROVE  /\ Cardinality((1..0) \cap S) = 0
           /\ Cardinality((1..d) \cap S) \in Nat
           /\ d + 1 \in S =>
                Cardinality((1..(d + 1)) \cap S) = Cardinality((1..d) \cap S) + 1
           /\ d + 1 \notin S =>
                Cardinality((1..(d + 1)) \cap S) = Cardinality((1..d) \cap S)
<1> DEFINE A == (1..d) \cap S
           B == (1..(d + 1)) \cap S
<1>1. IsFiniteSet(A)
  <2>1. IsFiniteSet(1..d) /\ A \in SUBSET (1..d)
    BY FS_Interval
  <2> HIDE DEF A
  <2> QED BY <2>1, FS_Subset
<1>2. /\ d + 1 \notin A
      /\ d + 1 \in S => B = A \cup {d + 1}
      /\ d + 1 \notin S => B = A
  OBVIOUS
<1>3. (1..0) \cap S = {}
  OBVIOUS
<1>4. Cardinality((1..0) \cap S) = 0
  BY <1>3, FS_EmptySet
<1> HIDE DEF A, B
<1>5. Cardinality(A) \in Nat /\ Cardinality(A \cup {d + 1}) = Cardinality(A) + 1
  BY <1>1, <1>2, FS_AddElement, FS_CardinalityType
<1> QED BY <1>2, <1>4, <1>5 DEF A, B

LEMMA SameFile ==
    ASSUME UNCHANGED <<file, tables>>
    PROVE  /\ Told' <=> Told
           /\ FewLost' <=> FewLost
           /\ Len(groups)' = Len(groups)
           /\ Progress(i', stats'.TablesTotal, table', stats')
                => Progress(i, stats.TablesTotal, table, stats)'
<1>1. groups' = groups /\ sections' = sections /\ file' = file /\ tables' = tables
  BY DEF groups, sections
<1>2. Told' <=> Told
  BY <1>1 DEF Told
<1>3. Lost' = Lost
  BY <1>1 DEF Lost
<1>4. FewLost' <=> FewLost
  BY <1>1, <1>3 DEF FewLost
<1>5. Saved' = Saved /\ Ruined' = Ruined
  BY <1>1 DEF Saved, Ruined, SoundPrimary, SoundBackup
<1>6. ASSUME Progress(i', stats'.TablesTotal, table', stats')
      PROVE  Progress(i, stats.TablesTotal, table, stats)'
  BY <1>1, <1>3, <1>5, <1>6 DEF Progress, Past, UpToGroup, Good, SoundPrimary, SoundBackup
<1> QED BY <1>1, <1>2, <1>4, <1>6

\* One group more.
LEMMA Progresses ==
    ASSUME TypeInv, NEW d \in 0..Len(groups), d + 1 \in DOMAIN groups,
           Progress(i, d, table, stats),
           NEW n, Past(n, d + 1), NEW part, NEW c,
           LET g == groups[d + 1]
           IN  /\ c.TablesInvalid = stats.TablesInvalid + IF file.v1 /\ ~Good(g) THEN 1 ELSE 0
               /\ file.v1 /\ Good(g) => part = Part(file, g)
               /\ ~file.v1 => part = Part(file, g)
               /\ file.v1 /\ Lost = {} =>
                    c.TablesRecovered = stats.TablesRecovered
                        + IF ~SoundPrimary(g) /\ SoundBackup(g) THEN 1 ELSE 0
    PROVE  Progress(n, d + 1, table \o part, c)
<1> DEFINE g == groups[d + 1]
           w == file.written
<1>1. /\ file \in Files /\ stats.TablesInvalid \in Nat /\ stats.TablesRecovered \in Nat
      /\ DOMAIN groups = 1..Len(groups) /\ Len(groups) \in Nat /\ d \in Nat
  <2>1. file \in Files /\ stats \in Counts
    BY DEF TypeInv, TypeOK, Counts
  <2> QED BY <2>1, GroupsFollow DEF Counts
<1>2. d + 1 \in 0..Len(groups)
  BY <1>1
<1>3. ASSUME c.TablesInvalid = 0
      PROVE  table \o part = SubSeq(w, 1, UpToGroup(d + 1))
  <2>1. stats.TablesInvalid = 0 /\ (file.v1 => Good(g))
    BY <1>1, <1>3
  <2>2. table = SubSeq(w, 1, UpToGroup(d)) /\ part = SubSeq(w, g.from + 1, g.upTo)
    BY <2>1 DEF Progress, Part
  <2>3. /\ w \in Seq(chunkDescriptor) /\ g.from \in Nat /\ g.upTo \in Nat
        /\ g.from <= g.upTo /\ g.upTo <= Len(w)
        /\ g.from = UpToGroup((d + 1) - 1) /\ UpToGroup(d + 1) = g.upTo
    BY <1>1, GroupsSpan
  <2>4. (d + 1) - 1 = d
    BY <1>1
  <2>5. UpToGroup(d) = g.from
    BY <2>3, <2>4
  <2> HIDE DEF g, w
  <2>6. SubSeq(w, 1, g.from) \o SubSeq(w, g.from + 1, g.upTo) = SubSeq(w, 1, g.upTo)
    <3> DEFINE a == g.from
               b == g.upTo
    <3>1. a \in Nat /\ b \in Nat /\ a <= b /\ b <= Len(w) /\ w \in Seq(chunkDescriptor)
      BY <2>3
    <3> HIDE DEF a, b
    <3>2. SubSeq(w, 1, a) \o SubSeq(w, a + 1, b) = SubSeq(w, 1, b)
      BY <3>1, Pieces
    <3> QED BY <3>2 DEF a, b
  <2> QED BY <2>2, <2>3, <2>5, <2>6
<1>4. ASSUME file.v1 => \A k \in 1..(d + 1) : Good(groups[k])
      PROVE  c.TablesInvalid = 0
  <2>1. file.v1 => Good(g) /\ \A k \in 1..d : Good(groups[k])
    BY <1>1, <1>4
  <2>2. stats.TablesInvalid = 0
    BY <2>1 DEF Progress
  <2> QED BY <1>1, <2>1, <2>2
<1>5. ASSUME file.v1, Lost = {}
      PROVE  /\ c.TablesRecovered = Cardinality((1..(d + 1)) \cap Saved)
             /\ c.TablesInvalid = Cardinality((1..(d + 1)) \cap Ruined)
  <2>1. /\ stats.TablesRecovered = Cardinality((1..d) \cap Saved)
        /\ stats.TablesInvalid = Cardinality((1..d) \cap Ruined)
    BY <1>5 DEF Progress
  <2>2. /\ d + 1 \in Saved <=> ~SoundPrimary(g) /\ SoundBackup(g)
        /\ d + 1 \in Ruined <=> ~Good(g)
    BY DEF Saved, Ruined, Good
  <2>3. c.TablesRecovered = Cardinality((1..(d + 1)) \cap Saved)
    <3>1. CASE d + 1 \in Saved
      BY <1>1, <1>5, <2>1, <2>2, <3>1, OneMore
    <3>2. CASE d + 1 \notin Saved
      BY <1>1, <1>5, <2>1, <2>2, <3>2, OneMore
    <3> QED BY <3>1, <3>2
  <2>4. c.TablesInvalid = Cardinality((1..(d + 1)) \cap Ruined)
    <3>1. CASE d + 1 \in Ruined
      BY <1>1, <1>5, <2>1, <2>2, <3>1, OneMore
    <3>2. CASE d + 1 \notin Ruined
      BY <1>1, <1>5, <2>1, <2>2, <3>2, OneMore
    <3> QED BY <3>1, <3>2
  <2> QED BY <2>3, <2>4
<1> QED BY <1>2, <1>3, <1>4, <1>5 DEF Progress

LEMMA BuildsInit == Init => Builds
BY DEF Init, Builds

LEMMA BuildsStep == TypeInv /\ Collects /\ Builds /\ [Next]_vars => Builds'
<1> SUFFICES ASSUME TypeInv, Collects, Builds, [Next]_vars,
                    pc' # "collect", Told', FewLost'
             PROVE  /\ Progress(i, stats.TablesTotal, table, stats)'
                    /\ (pc = "built" => stats.TablesTotal = Len(groups))'
  BY DEF Builds
<1> DEFINE d == stats.TablesTotal
<1>0. /\ file \in Files /\ stats \in Counts /\ i \in Nat
      /\ Len(groups) \in Nat \ {0} /\ DOMAIN groups = 1..Len(groups)
  <2>1. file \in Files /\ stats \in Counts /\ i \in Nat
    BY DEF TypeInv, TypeOK, Counts
  <2> QED BY <2>1, GroupsFollow
<1>1. CASE Collect
  BY <1>1 DEF Collect
<1>2. CASE Collected
  <2>1. UNCHANGED <<file, tables, table, stats>> /\ pc = "collect" /\ i' = 1 /\ pc' = "build"
    BY <1>2 DEF Collected
  <2>2. table = <<>>
        /\ stats = [TablesTotal |-> 0, TablesRecovered |-> 0, TablesInvalid |-> 0]
    BY <2>1 DEF Collects
  <2>3. Progress(1, 0, <<>>, stats)
    <3>1. Past(1, 0)
      <4>1. \A j \in 1..Len(tables) : ~(j < 1)
        <5>1. Len(tables) \in Nat
          BY DEF TypeInv, TypeOK
        <5> QED BY <5>1
      <4> QED BY <4>1 DEF Past
    <3>2. SubSeq(file.written, 1, UpToGroup(0)) = <<>>
      <4>1. file.written \in Seq(chunkDescriptor)
        BY <1>0, LayoutAssumption DEF IsFile
      <4>2. Len(file.written) \in Nat
        BY <4>1
      <4> QED BY <4>1, <4>2, Pieces DEF UpToGroup
    <3>3. /\ Cardinality((1..0) \cap Saved) = 0
          /\ Cardinality((1..0) \cap Ruined) = 0
      BY OneMore
    <3>4. 0 \in 0..Len(groups)
      BY <1>0
    <3> QED BY <2>2, <3>1, <3>2, <3>3, <3>4 DEF Progress
  <2>4. Progress(i', stats'.TablesTotal, table', stats')
    BY <2>1, <2>2, <2>3
  <2> QED BY <2>1, <2>4, SameFile
<1>3. ASSUME pc = "build", UNCHANGED <<file, tables>>
      PROVE  /\ Told /\ FewLost /\ Progress(i, d, table, stats)
             /\ d \in 0..Len(groups) /\ Past(i, d)
  <2>1. Told /\ FewLost
    BY <1>3, SameFile
  <2> QED BY <1>3, <2>1 DEF Builds, Progress
<1>4. CASE TakeV2
  <2>1. /\ pc = "build" /\ i <= Len(tables) /\ ~TableAt(i).v1
        /\ table' = table \o parseTableSectionV2(TableAt(i))
        /\ stats' = [stats EXCEPT !.TablesTotal = @ + 1]
        /\ i' = i + 1 /\ UNCHANGED <<file, pc, tables>>
    BY <1>4 DEF TakeV2
  <2>2. /\ Told /\ FewLost /\ Progress(i, d, table, stats)
        /\ d \in 0..Len(groups) /\ Past(i, d)
    BY <1>3, <2>1
  <2> DEFINE g == groups[d + 1]
             part == parseTableSectionV2(TableAt(i))
  <2>3. d + 1 \in DOMAIN groups /\ tables[i] = FirstCopy(g)
    <3>1. d < Len(groups) /\ tables[i] = FirstCopy(g)
      BY <2>1, <2>2, NextTable
    <3>2. ASSUME NEW n \in Nat, NEW e \in 0..n, e < n PROVE e + 1 \in 1..n
      BY <3>2
    <3> QED BY <1>0, <2>2, <3>1, <3>2
  <2>4. ~file.v1
    <3>1. FirstCopy(g) \in Copies(g)
      BY <2>1, <2>2, <2>3, FirstCopyThere
    <3>2. tables[i] = g.primary \/ (g.backup # 0 /\ tables[i] = g.backup)
      BY <2>3, <3>1 DEF Copies
    <3> QED BY <1>0, <2>1, <2>3, <3>2, KindsOf DEF TableAt
  <2>5. g.backup = 0 /\ tables[i] = g.primary /\ part = Part(file, g)
    <3>1. g.backup = 0
      BY <1>0, <2>3, <2>4, KindsOf
    <3>2. g.primary \notin Lost
      BY <2>2, <2>3, <3>1 DEF FewLost
    <3>3. tables[i] = g.primary
      BY <2>3, <3>2 DEF FirstCopy
    <3> QED BY <1>0, <2>3, <2>4, <3>1, <3>3, TakenV2 DEF TableAt
  <2>6. Past(i + 1, d + 1)
    BY <2>1, <2>2, <2>5, OneCopy
  <2>7. stats'.TablesTotal = d + 1 /\ stats'.TablesInvalid = stats.TablesInvalid
        /\ stats.TablesInvalid \in Nat
    BY <1>0, <2>1 DEF Counts
  <2>8. stats'.TablesInvalid = stats.TablesInvalid + IF file.v1 /\ ~Good(g) THEN 1 ELSE 0
    BY <2>4, <2>7
  <2> HIDE DEF d, g, part
  <2>9. Progress(i + 1, d + 1, table \o part, stats')
    BY <2>2, <2>3, <2>4, <2>5, <2>6, <2>8, Progresses DEF g
  <2>10. Progress(i', stats'.TablesTotal, table', stats')
    BY <2>1, <2>7, <2>9 DEF part
  <2>11. pc' # "built"
    BY <2>1
  <2> QED BY <2>1, <2>10, <2>11, SameFile
<1>5. CASE TakeGroup
  <2> DEFINE r == parseTableGroupV1(TableAt(i), Backup)
             g == groups[d + 1]
  <2>1. /\ pc = "build" /\ i <= Len(tables) /\ TableAt(i).v1
        /\ table' = table \o r.chunks /\ stats' = Count(r.outcome)
        /\ i' = i + 1 + Len(Backup) /\ UNCHANGED <<file, pc, tables>>
    BY <1>5 DEF TakeGroup, Backup
  <2>2. /\ Told /\ FewLost /\ Progress(i, d, table, stats)
        /\ d \in 0..Len(groups) /\ Past(i, d)
    BY <1>3, <2>1
  <2>3. file.v1
    <3>1. d < Len(groups) /\ tables[i] = FirstCopy(g)
      BY <2>1, <2>2, NextTable
    <3>2. ASSUME NEW n \in Nat, NEW e \in 0..n, e < n PROVE e + 1 \in 1..n
      BY <3>2
    <3>3. d + 1 \in DOMAIN groups
      BY <1>0, <2>2, <3>1, <3>2
    <3>4. ~file.v1 => ~sections[g.primary].v1 /\ g.backup = 0
      BY <1>0, <3>3, KindsOf
    <3>5. g.backup = 0 => tables[i] = g.primary
      BY <2>2, <3>1, <3>3 DEF FewLost, FirstCopy
    <3> QED BY <2>1, <3>4, <3>5 DEF TableAt
  <2>4. /\ d + 1 \in DOMAIN groups /\ Past(i + 1 + Len(Backup), d + 1)
        /\ r.outcome = "unverified" <=> ~Good(g)
        /\ Good(g) => r.chunks = Part(file, g)
        /\ g.primary \notin Lost =>
              (r.outcome = "backup" <=> ~SoundPrimary(g) /\ SoundBackup(g))
    BY <2>1, <2>2, <2>3, GroupTaken
  <2>5. /\ stats'.TablesTotal = d + 1
        /\ stats'.TablesRecovered
             = stats.TablesRecovered + IF r.outcome = "backup" THEN 1 ELSE 0
        /\ stats'.TablesInvalid
             = stats.TablesInvalid + IF r.outcome = "unverified" THEN 1 ELSE 0
    BY <2>1 DEF Count
  <2>6. stats'.TablesInvalid = stats.TablesInvalid + IF file.v1 /\ ~Good(g) THEN 1 ELSE 0
    BY <2>3, <2>4, <2>5
  <2>7. Lost = {} => stats'.TablesRecovered = stats.TablesRecovered
                        + IF ~SoundPrimary(g) /\ SoundBackup(g) THEN 1 ELSE 0
    BY <2>4, <2>5
  <2> DEFINE part == r.chunks
             n == i + 1 + Len(Backup)
  <2> HIDE DEF d, g, part, n
  <2>8. Progress(n, d + 1, table \o part, stats')
    BY <2>2, <2>3, <2>4, <2>6, <2>7, Progresses DEF g, part, n
  <2>9. Progress(i', stats'.TablesTotal, table', stats')
    BY <2>1, <2>5, <2>8 DEF part, n
  <2>10. pc' # "built"
    BY <2>1
  <2> QED BY <2>1, <2>9, <2>10, SameFile
<1>6. CASE Built
  <2>1. pc = "build" /\ i > Len(tables) /\ UNCHANGED <<file, i, tables, table, stats>>
    BY <1>6 DEF Built
  <2>2. /\ Told /\ FewLost /\ Progress(i, d, table, stats)
        /\ d \in 0..Len(groups) /\ Past(i, d)
    BY <1>3, <2>1
  <2>3. d = Len(groups)
    BY <2>1, <2>2, AllGroups
  <2>4. Progress(i', stats'.TablesTotal, table', stats')
    BY <2>1, <2>2
  <2>5. stats'.TablesTotal = Len(groups)'
    BY <2>1, <2>3, SameFile
  <2> QED BY <2>1, <2>4, <2>5, SameFile
<1>7. CASE UNCHANGED vars
  <2>1. UNCHANGED <<file, pc, i, tables, table, stats>>
    BY <1>7 DEF vars
  <2>2. Told /\ FewLost
    BY <2>1, SameFile
  <2>3. Progress(i', stats'.TablesTotal, table', stats')
        /\ (pc' = "built" => stats'.TablesTotal = Len(groups)')
    BY <2>1, <2>2, SameFile DEF Builds
  <2> QED BY <2>1, <2>3, SameFile
<1> QED BY <1>1, <1>2, <1>4, <1>5, <1>6, <1>7 DEF Next

TableInv == TypeInv /\ Collects /\ Builds

LEMMA TablesBuilt == Spec => []TableInv
<1>1. Init => TableInv
  BY TypeInit, CollectsInit, BuildsInit DEF TableInv
<1>2. TableInv /\ [Next]_vars => TableInv'
  BY TypeStep, CollectsStep, BuildsStep DEF TableInv
<1> QED BY <1>1, <1>2, PTL DEF Spec

\* What is built in the end, of every group there is.
LEMMA AllBuilt ==
    ASSUME TableInv, pc = "built", Told, FewLost
    PROVE  /\ stats.TablesTotal = Len(groups)
           /\ stats.TablesInvalid = 0 => table = file.written
           /\ (file.v1 => \A k \in DOMAIN groups : Good(groups[k])) => stats.TablesInvalid = 0
           /\ file.v1 /\ Lost = {} =>
                /\ stats.TablesRecovered = Cardinality(Saved)
                /\ stats.TablesInvalid = Cardinality(Ruined)
<1> DEFINE d == stats.TablesTotal
<1>1. /\ d = Len(groups) /\ Progress(i, d, table, stats) /\ file \in Files
  BY DEF TableInv, TypeInv, Builds
<1>2. Len(groups) \in Nat \ {0} /\ DOMAIN groups = 1..Len(groups)
  BY <1>1, GroupsFollow
<1>3. (1..Len(groups)) \cap Saved = Saved /\ (1..Len(groups)) \cap Ruined = Ruined
  BY <1>2 DEF Saved, Ruined
<1>4. SubSeq(file.written, 1, UpToGroup(Len(groups))) = file.written
  <2>1. 1 \in DOMAIN groups
    BY <1>2
  <2>2. /\ file.written \in Seq(chunkDescriptor)
        /\ UpToGroup(Len(groups)) = Len(file.written)
    BY <1>1, <2>1, GroupsSpan
  <2>3. ASSUME NEW D, NEW w \in Seq(D) PROVE SubSeq(w, 1, Len(w)) = w
    OBVIOUS
  <2> QED BY <2>2, <2>3
<1> HIDE DEF d
<1> QED BY <1>1, <1>2, <1>3, <1>4 DEF Progress, d

\* As long as each group has a copy that is sound, buildChunkTable returns the
\* chunks written and reports no table as invalid.
THEOREM WrittenTablesAreRead == Spec => []LayoutRecovered
<1>1. TableInv => LayoutRecovered
  BY AllBuilt DEF LayoutRecovered, Good
<1> QED BY TablesBuilt, <1>1, PTL

\* A table with no group reported invalid is the device, whichever copies are
\* damaged.
THEOREM VerifiedTablesAreWritten == Spec => []VerifiedIsWritten
<1>1. TableInv => VerifiedIsWritten
  BY AllBuilt DEF VerifiedIsWritten
<1> QED BY TablesBuilt, <1>1, PTL

\* buildChunkTable's counts say what happened to each group.
THEOREM CountsAreTrue == Spec => []StatsTell
<1>1. ASSUME TableInv, pc = "built", file.v1, Told, Lost = {}
      PROVE  stats = [TablesTotal |-> Len(groups),
                      TablesRecovered |-> Cardinality(Saved),
                      TablesInvalid |-> Cardinality(Ruined)]
  <2>1. FewLost
    BY <1>1 DEF FewLost
  <2>2. /\ stats.TablesTotal = Len(groups)
        /\ stats.TablesRecovered = Cardinality(Saved)
        /\ stats.TablesInvalid = Cardinality(Ruined)
    BY <1>1, <2>1, AllBuilt
  <2>3. stats \in Counts
    BY <1>1 DEF TableInv, TypeInv, TypeOK, Counts
  <2> QED BY <2>2, <2>3 DEF Counts
<1>2. TableInv => StatsTell
  BY <1>1 DEF StatsTell, Saved, Ruined
<1> QED BY TablesBuilt, <1>2, PTL

=============================================================================
