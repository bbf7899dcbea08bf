-------------------------- MODULE SegmentSetProofs --------------------------
(***************************************************************************)
(* What a reader that was handed out says about the sources it came from,  *)
(* for any number of sources in any order and any options.                 *)
(***************************************************************************)
EXTENDS SegmentSet, FiniteSetTheorems, TLAPS

\* The flags a segment's sections can raise.
LEMMA SummaryType ==
    ASSUME NEW s \in Source
    PROVE  Summary(s) \subseteq Flags
BY DEF Summary, applySectionSummary, Flags

LEMMA InvalidCount == \A s \in Source : s.invalid \in Nat
BY DEF Source

LEMMA SourceType ==
    ASSUME NEW s \in Source
    PROVE  /\ s.number \in Nat /\ s.invalid \in Nat /\ s.recovered \in Nat
           /\ s.chunks \in Seq(Chunk)
           /\ s.media \in G!MediaInfo \cup {NoMedia}
           /\ s.first \in [Fields -> Value \cup {None}]
BY DEF Source

\* A function of 1..n onto 1..n takes no value twice.
LEMMA OntoIsOneToOne ==
    ASSUME NEW n \in Nat, NEW p \in [1..n -> 1..n],
           \A j \in 1..n : \E k \in 1..n : p[k] = j
    PROVE  \A j, k \in 1..n : p[j] = p[k] => j = k
<1> DEFINE S == 1..n
<1>1. IsFiniteSet(S)
  BY FS_Interval, 1 \in Int, n \in Int
<1>2. p \in Surjection(S, S)
  BY DEF Surjection
<1> HIDE DEF S
<1>3. p \in Injection(S, S)
  BY <1>1, <1>2, FS_SurjSameCardinalityImpliesInj
<1> QED BY <1>3 DEF Injection, IsInjective, S

-----------------------------------------------------------------------------
(* The helpers the merge is described with. *)

\* Chunks put behind the table do not disturb those in it.
LEMMA LaidStep ==
    ASSUME NEW table \in Seq(Chunk), NEW set \in Seq(Source), NEW n \in Nat, n < Len(set),
           NEW start \in [1..n -> 0..Len(table)], Laid(table, set, n, start),
           \A k \in 1..n : set[k].number <= set[n + 1].number
    PROVE  \E s \in [1..(n + 1) -> 0..Len(table \o set[n + 1].chunks)] :
               Laid(table \o set[n + 1].chunks, set, n + 1, s)
<1> DEFINE new == set[n + 1].chunks
           more == table \o new
           s == [k \in 1..(n + 1) |-> IF k <= n THEN start[k] ELSE Len(table)]
           size(k) == Len(set[k].chunks)
<1>1. \A k \in 1..(n + 1) : /\ set[k].number \in Nat
                            /\ set[k].chunks \in Seq(Chunk)
                            /\ size(k) \in Nat
  <2>1. \A k \in 1..(n + 1) : set[k] \in Source
    OBVIOUS
  <2> QED BY <2>1, SourceType
<1>2. /\ Len(table) \in Nat /\ Len(more) = Len(table) + size(n + 1)
      /\ new \in Seq(Chunk) /\ more \in Seq(Chunk)
      /\ \A x \in 1..Len(table) : more[x] = table[x]
      /\ \A x \in 1..size(n + 1) : more[Len(table) + x] = new[x]
  <2>1. new \in Seq(Chunk) /\ n + 1 \in 1..(n + 1)
    BY <1>1
  <2> QED BY <2>1
<1>3. \A k \in 1..n : s[k] = start[k] /\ start[k] \in 0..Len(table)
  OBVIOUS
<1>4. s[n + 1] = Len(table)
  OBVIOUS
<1>5. s \in [1..(n + 1) -> 0..Len(more)]
  <2>1. 0..Len(table) \subseteq 0..Len(more) /\ Len(table) \in 0..Len(more)
    BY <1>1, <1>2
  <2>2. \A k \in 1..(n + 1) : (IF k <= n THEN start[k] ELSE Len(table)) \in 0..Len(more)
    BY <1>3, <2>1
  <2> QED BY <2>2
<1>6. \A k \in 1..(n + 1) : k \in 1..n \/ k = n + 1
  OBVIOUS
<1>7. /\ \A j \in 1..n :
           /\ start[j] + size(j) <= Len(table)
           /\ \A x \in 1..size(j) : table[start[j] + x] = set[j].chunks[x]
      /\ \A j, k \in 1..n :
           set[j].number < set[k].number => start[j] + size(j) <= start[k]
      /\ \A x \in 1..Len(table) : \E j \in 1..n : x \in (start[j] + 1)..(start[j] + size(j))
  BY DEF Laid
<1> HIDE DEF s, more, new, size
<1>8. \A j \in 1..(n + 1) :
        /\ s[j] + size(j) <= Len(more)
        /\ \A x \in 1..size(j) : more[s[j] + x] = set[j].chunks[x]
  <2>1. ASSUME NEW j \in 1..n
        PROVE  /\ s[j] + size(j) <= Len(more)
               /\ \A x \in 1..size(j) : more[s[j] + x] = set[j].chunks[x]
    <3>1. size(j) \in Nat /\ size(n + 1) \in Nat /\ start[j] \in Nat
      BY <1>1, <1>3
    <3>2. s[j] + size(j) <= Len(more)
      BY <1>2, <1>3, <1>7, <3>1
    <3>3. ASSUME NEW x \in 1..size(j) PROVE more[s[j] + x] = set[j].chunks[x]
      <4>1. start[j] + x \in 1..Len(table)
        <5>1. start[j] + size(j) <= Len(table) /\ Len(table) \in Nat
          BY <1>2, <1>7
        <5> QED BY <3>1, <5>1
      <4> QED BY <1>2, <1>3, <1>7, <4>1
    <3> QED BY <3>2, <3>3
  <2>2. /\ s[n + 1] + size(n + 1) <= Len(more)
        /\ \A x \in 1..size(n + 1) : more[s[n + 1] + x] = set[n + 1].chunks[x]
    BY <1>1, <1>2, <1>4 DEF new
  <2> QED BY <1>6, <2>1, <2>2
<1>9. ASSUME NEW j \in 1..(n + 1), NEW k \in 1..(n + 1), set[j].number < set[k].number
      PROVE  s[j] + size(j) <= s[k]
  <2>1. j \in 1..n
    <3>1. j # n + 1
      BY <1>1, <1>6, <1>9
    <3> QED BY <1>6, <3>1
  <2>2. CASE k \in 1..n
    BY <1>3, <1>7, <1>9, <2>1, <2>2
  <2>3. CASE k = n + 1
    BY <1>3, <1>4, <1>7, <2>1, <2>3
  <2> QED BY <1>6, <2>2, <2>3
<1>10. ASSUME NEW x \in 1..Len(more)
       PROVE  \E j \in 1..(n + 1) : x \in (s[j] + 1)..(s[j] + size(j))
  <2>1. CASE x \in 1..Len(table)
    <3>1. PICK j \in 1..n : x \in (start[j] + 1)..(start[j] + size(j))
      BY <1>7, <2>1
    <3> QED BY <1>3, <3>1
  <2>2. CASE x \notin 1..Len(table)
    <3>1. x \in (Len(table) + 1)..(Len(table) + size(n + 1))
      <4>1. size(n + 1) \in Nat
        BY <1>1
      <4> QED BY <1>2, <2>2, <4>1
    <3>2. n + 1 \in 1..(n + 1)
      OBVIOUS
    <3> QED BY <1>4, <3>1, <3>2
  <2> QED BY <2>1, <2>2
<1>11. Laid(more, set, n + 1, s)
  BY <1>8, <1>9, <1>10 DEF Laid, size
<1> QED BY <1>5, <1>11 DEF more, new

\* The next value counts where there was none.
LEMMA FirstStep ==
    ASSUME NEW n \in Nat, NEW value, NEW absent, NEW values,
           FirstPresent(value, absent, values, n)
    PROVE  FirstPresent(IF value = absent THEN values[n + 1] ELSE value, absent, values, n + 1)
<1>1. \A k \in 1..(n + 1) : k \in 1..n \/ k = n + 1
  OBVIOUS
<1>2. CASE value = absent /\ \A k \in 1..n : values[k] = absent
  <2>1. CASE values[n + 1] = absent
    BY <1>1, <1>2, <2>1 DEF FirstPresent
  <2>2. CASE values[n + 1] # absent
    <3>1. n + 1 \in 1..(n + 1) /\ (n + 1) - 1 = n
      OBVIOUS
    <3> QED BY <1>2, <2>2, <3>1 DEF FirstPresent
  <2> QED BY <2>1, <2>2
<1>3. CASE \E k \in 1..n : /\ values[k] # absent
                           /\ value = values[k]
                           /\ \A j \in 1..(k - 1) : values[j] = absent
  <2>1. PICK k \in 1..n : /\ values[k] # absent
                          /\ value = values[k]
                          /\ \A j \in 1..(k - 1) : values[j] = absent
    BY <1>3
  <2>2. k \in 1..(n + 1)
    OBVIOUS
  <2> QED BY <2>1, <2>2 DEF FirstPresent
<1> QED BY <1>2, <1>3 DEF FirstPresent

-----------------------------------------------------------------------------

LEMMA InitSet == Init => SetInv
<1> SUFFICES ASSUME Init PROVE SetInv
  OBVIOUS
<1>1. sources \in Seq(Source) /\ opts \in Options /\ pc = "parse" /\ i = 1 /\ segments = <<>>
      /\ reader = Nothing
  BY SupplyAssumption DEF Init
<1>2. Nothing \in Reader
  BY DEF Nothing, Reader, Flags
<1>3. TypeOK
  BY <1>1, <1>2 DEF TypeOK, Stages
<1>4. Parsed
  BY <1>1 DEF Parsed
<1> QED BY <1>1, <1>3, <1>4 DEF SetInv, Sorted, Validated, Gathered

\* A failure leaves everything else as it is.
LEMMA FailInv == ASSUME SetInv, NEW e, Fail(e) PROVE SetInv'
BY DEF SetInv, Fail, TypeOK, Stages, Parsed, Sorted, Validated, Gathered

LEMMA ParseInv == ASSUME SetInv, ParseSegment PROVE SetInv'
<1>1. /\ pc = "parse" /\ pc' = "parse" /\ i' = i + 1 /\ i \in Nat \ {0} /\ i <= Len(sources)
      /\ segments' = Append(segments, sources[i]) /\ sources[i].fails = "none"
      /\ UNCHANGED <<sources, opts, reader>>
      /\ sources \in Seq(Source) /\ segments \in Seq(Source) /\ Len(segments) = i - 1
  BY DEF ParseSegment, SetInv, TypeOK, Parsed
<1>2. sources[i] \in Source
  BY <1>1
<1>3. segments' \in Seq(Source) /\ Len(segments') = i
  BY <1>1, <1>2
<1>4. TypeOK'
  BY <1>1, <1>3 DEF SetInv, TypeOK
<1>5. \A k \in 1..Len(segments') : segments'[k] = sources[k] /\ sources[k].fails = "none"
  <2>1. \A k \in 1..(i - 1) : segments'[k] = segments[k]
    BY <1>1
  <2>2. segments'[i] = sources[i]
    BY <1>1
  <2>3. \A k \in 1..(i - 1) : segments[k] = sources[k] /\ sources[k].fails = "none"
    BY <1>1 DEF SetInv, Parsed
  <2> QED BY <1>1, <1>3, <2>1, <2>2, <2>3
<1>6. Parsed'
  <2>1. i' <= Len(sources') + 1 /\ Len(segments') = i' - 1
    BY <1>1, <1>3
  <2> QED BY <1>1, <1>5, <2>1 DEF Parsed
<1>7. reader' = Nothing
  BY <1>1 DEF SetInv, Gathered
<1> QED BY <1>1, <1>4, <1>6, <1>7 DEF SetInv, Sorted, Validated, Gathered

\* A sorted set holds every source, each once, and nothing else.
LEMMA SortInv == ASSUME SetInv, Sort PROVE SetInv'
<1> DEFINE n == Len(segments)
<1>1. /\ pc = "parse" /\ pc' = "validate" /\ i' = 1 /\ UNCHANGED <<sources, opts, reader>>
      /\ i \in Nat /\ i > Len(sources) /\ Len(sources) > 0 /\ i <= Len(sources) + 1
      /\ n = i - 1 /\ sources \in Seq(Source) /\ segments \in Seq(Source)
      /\ \A k \in 1..n : segments[k] = sources[k]
      /\ reader = Nothing
  BY DEF Sort, SetInv, TypeOK, Parsed, Gathered
<1>2. PICK p \in [1..n -> 1..n] :
         /\ \A j \in 1..n : \E k \in 1..n : p[k] = j
         /\ \A j, k \in 1..n : j < k => segments[p[j]].number <= segments[p[k]].number
         /\ segments' = [k \in 1..n |-> segments[p[k]]]
  BY DEF Sort
<1>3. n \in Nat /\ n = Len(sources) /\ n > 0
  BY <1>1
<1>4. segments' \in Seq(Source) /\ Len(segments') = n
  <2>0. \A k \in 1..n : segments[p[k]] \in Source
    <3>1. \A k \in 1..n : p[k] \in 1..n
      BY <1>2
    <3>2. \A k \in 1..n : segments[k] \in Source
      BY <1>1
    <3> QED BY <3>1, <3>2
  <2>1. segments' \in [1..n -> Source]
    BY <1>2, <2>0
  <2> QED BY <1>3, <2>1
<1> HIDE DEF n
<1>0. \A k \in 1..n : p[k] \in 1..n
  BY <1>2
<1>5. \A k \in 1..n : segments'[k] = sources[p[k]] /\ segments'[k] = segments[p[k]]
  <2>1. \A k \in 1..n : segments'[k] = segments[p[k]]
    BY <1>2
  <2> QED BY <1>0, <1>1, <2>1
<1>6. Sorted'
  <2>1. \A j, k \in 1..n : p[j] = p[k] => j = k
    BY <1>2, <1>3, OntoIsOneToOne
  <2>2. \A j, k \in 1..n : j < k => segments'[j].number <= segments'[k].number
    BY <1>2, <1>5
  <2>3. /\ \A j \in 1..n : \E k \in 1..n : p[k] = j
        /\ \A k \in 1..n : segments'[k] = sources[p[k]]
        /\ p \in [1..n -> 1..n]
    BY <1>2, <1>5
  <2>4. Len(segments') = n /\ Len(sources') = n /\ sources' = sources /\ n > 0
    BY <1>1, <1>3, <1>4
  <2>5. \A k \in 1..n : p[k] \in 1..n
    BY <1>0
  <2>6. Arranges(p)'
    BY <2>1, <2>3, <2>4, <2>5 DEF Arranges
  <2>7. \E q \in [1..Len(sources') -> 1..Len(sources')] : Arranges(q)'
    BY <2>3, <2>4, <2>6
  <2> QED BY <2>2, <2>4, <2>7 DEF Sorted
<1>7. TypeOK'
  BY <1>1, <1>4 DEF SetInv, TypeOK, Stages
<1>8. Validated'
  BY <1>1, <1>3, <1>4 DEF Validated, Checked
<1> QED BY <1>1, <1>6, <1>7, <1>8 DEF SetInv, Parsed, Gathered

\* What the steps behind the sort leave as it is.
LEMMA SortedStays ==
    ASSUME SetInv, UNCHANGED <<sources, segments>>,
           pc' \in {"validate", "merge", "opened"} => pc \in {"validate", "merge", "opened"}
    PROVE  Sorted'
<1> SUFFICES ASSUME pc' \in {"validate", "merge", "opened"} PROVE Sorted'
  BY DEF Sorted
<1>1. /\ Len(segments) = Len(sources) /\ Len(segments) > 0
      /\ \A j, k \in 1..Len(segments) : j < k => segments[j].number <= segments[k].number
  BY DEF SetInv, Sorted
<1>2. PICK p \in [1..Len(sources) -> 1..Len(sources)] : Arranges(p)
  BY DEF SetInv, Sorted
<1>3. Arranges(p)'
  BY <1>2 DEF Arranges
<1>4. \E q \in [1..Len(sources') -> 1..Len(sources')] : Arranges(q)'
  BY <1>2, <1>3
<1> QED BY <1>1, <1>4 DEF Sorted

\* A reader nobody touches holds what it held.
LEMMA MergedStays ==
    ASSUME NEW n, MergedUpTo(n), UNCHANGED <<reader, segments>>
    PROVE  MergedUpTo(n)'
BY DEF MergedUpTo, Summary, MediaOf, FirstOf

LEMMA ValidateInv == ASSUME SetInv, ValidateSegment PROVE SetInv'
<1>1. /\ pc = "validate" /\ pc' = "validate" /\ i' = i + 1 /\ i \in Nat \ {0}
      /\ i <= Len(segments) /\ coherence(i) = "nil" /\ numbering(segments[i], i) = "nil"
      /\ UNCHANGED <<sources, opts, segments, reader>>
      /\ segments \in Seq(Source) /\ Checked(i - 1) /\ reader = Nothing
  BY DEF ValidateSegment, SetInv, TypeOK, Validated, Gathered
<1>2. /\ segments[i].major = segments[1].major
      /\ segments[i].type = segments[1].type
      /\ \A j \in 1..(i - 1) : segments[j].number # segments[i].number
  BY <1>1 DEF coherence
<1>3. ~opts.AllowIncompleteSegmentSet => segments[i].number = i
  BY <1>1 DEF numbering
<1>4. Checked(i)
  <2>1. \A k \in 1..i : k = i \/ k \in 1..(i - 1)
    BY <1>1
  <2> QED BY <1>1, <1>2, <1>3, <2>1 DEF Checked
<1>5. Validated'
  <2>1. i' - 1 = i /\ i' <= Len(segments) + 1
    BY <1>1
  <2> QED BY <1>1, <1>4, <2>1 DEF Validated, Checked
<1>6. TypeOK'
  BY <1>1 DEF SetInv, TypeOK
<1>7. Sorted'
  BY <1>1, SortedStays
<1> QED BY <1>1, <1>5, <1>6, <1>7 DEF SetInv, Parsed, Gathered

\* Before the first segment is merged, the reader is what nothing adds up to.
LEMMA NothingMerged == ASSUME reader = Nothing PROVE MergedUpTo(0)
<1>1. reader.chunkTable = <<>> /\ reader.flags = {} /\ reader.media = NoMedia
      /\ \A f \in Fields : reader.first[f] = None
  BY DEF Nothing
<1>2. \E start \in [1..0 -> 0..Len(reader.chunkTable)] :
        Laid(reader.chunkTable, segments, 0, start)
  <2>1. [k \in 1..0 |-> 0] \in [1..0 -> 0..Len(reader.chunkTable)]
    BY <1>1
  <2>2. Laid(reader.chunkTable, segments, 0, [k \in 1..0 |-> 0])
    BY <1>1 DEF Laid
  <2> QED BY <2>1, <2>2
<1>3. reader.flags = UNION {Summary(segments[k]) : k \in 1..0}
  BY <1>1
<1>4. FirstPresent(reader.media, NoMedia, MediaOf(segments), 0)
  BY <1>1 DEF FirstPresent
<1>5. \A f \in Fields : FirstPresent(reader.first[f], None, FirstOf(segments, f), 0)
  BY <1>1 DEF FirstPresent
<1> QED BY <1>2, <1>3, <1>4, <1>5 DEF MergedUpTo

LEMMA ValidateEndsInv == ASSUME SetInv, ValidateEnds PROVE SetInv'
<1>1. /\ pc = "validate" /\ pc' = "merge" /\ i' = 1 /\ complete
      /\ i > Len(segments) /\ i <= Len(segments) + 1 /\ Checked(i - 1)
      /\ UNCHANGED <<sources, opts, segments, reader>>
      /\ segments \in Seq(Source) /\ i \in Nat /\ reader = Nothing
  BY DEF ValidateEnds, SetInv, TypeOK, Validated, Gathered
<1>2. Checked(Len(segments))
  <2>1. i - 1 = Len(segments)
    BY <1>1
  <2> QED BY <1>1, <2>1
<1>3. Validated'
  BY <1>1, <1>2 DEF Validated, Checked, complete
<1>4. Gathered'
  <2>1. MergedUpTo(0)
    BY <1>1, NothingMerged
  <2>2. MergedUpTo(0)'
    BY <1>1, <2>1, MergedStays
  <2>3. i' - 1 = 0 /\ i' <= Len(segments') + 1
    BY <1>1
  <2>4. MergedUpTo(i - 1)'
    BY <2>2, <2>3 DEF MergedUpTo
  <2>5. reader'.ChunkTablesInvalid = 0
    BY <1>1 DEF Nothing
  <2> QED BY <1>1, <2>3, <2>4, <2>5 DEF Gathered
<1>5. TypeOK'
  BY <1>1 DEF SetInv, TypeOK, Stages
<1>6. Sorted'
  BY <1>1, SortedStays
<1> QED BY <1>1, <1>3, <1>4, <1>5, <1>6 DEF SetInv, Parsed

\* What a segment adds to the reader.
LEMMA MergedType ==
    ASSUME NEW r \in Reader, NEW s \in Source
    PROVE  merged(r, s) \in Reader
<1>1. /\ r.chunkTable \o s.chunks \in Seq(Chunk)
      /\ r.flags \cup Summary(s) \in SUBSET Flags
      /\ (IF r.media = NoMedia THEN s.media ELSE r.media) \in G!MediaInfo \cup {NoMedia}
      /\ r.ChunkTablesRecovered + s.recovered \in Nat
      /\ r.ChunkTablesInvalid + s.invalid \in Nat
  BY SourceType, SummaryType DEF Reader
<1>2. [f \in Fields |-> IF r.first[f] = None THEN s.first[f] ELSE r.first[f]]
        \in [Fields -> Value \cup {None}]
  BY SourceType DEF Reader
<1> QED BY <1>1, <1>2 DEF merged, Reader

\* One turn of the merge takes in one more segment.
LEMMA MergeStep ==
    ASSUME reader \in Reader, segments \in Seq(Source), NEW n \in Nat, n < Len(segments),
           \A k \in 1..n : segments[k].number <= segments[n + 1].number,
           MergedUpTo(n), reader' = merged(reader, segments[n + 1]), segments' = segments
    PROVE  MergedUpTo(n + 1)'
<1> DEFINE new == segments[n + 1]
<1>1. new \in Source /\ reader.chunkTable \in Seq(Chunk)
  BY DEF Reader
<1>2. /\ reader'.chunkTable = reader.chunkTable \o new.chunks
      /\ reader'.flags = reader.flags \cup Summary(new)
      /\ reader'.media = IF reader.media = NoMedia THEN new.media ELSE reader.media
      /\ \A f \in Fields :
           reader'.first[f] = IF reader.first[f] = None THEN new.first[f] ELSE reader.first[f]
  BY DEF merged
<1>3. \E start \in [1..(n + 1) -> 0..Len(reader'.chunkTable)] :
        Laid(reader'.chunkTable, segments, n + 1, start)
  <2>1. PICK start \in [1..n -> 0..Len(reader.chunkTable)] :
          Laid(reader.chunkTable, segments, n, start)
    BY DEF MergedUpTo
  <2>2. \E start2 \in [1..(n + 1) -> 0..Len(reader.chunkTable \o segments[n + 1].chunks)] :
          Laid(reader.chunkTable \o segments[n + 1].chunks, segments, n + 1, start2)
    BY <1>1, <2>1, LaidStep
  <2> QED BY <1>2, <2>2
<1>4. reader'.flags = UNION {Summary(segments[k]) : k \in 1..(n + 1)}
  <2>1. \A k \in 1..(n + 1) : k \in 1..n \/ k = n + 1
    OBVIOUS
  <2>2. n + 1 \in 1..(n + 1) /\ \A k \in 1..n : k \in 1..(n + 1)
    OBVIOUS
  <2>3. reader.flags = UNION {Summary(segments[k]) : k \in 1..n}
    BY DEF MergedUpTo
  <2> HIDE DEF new
  <2>4. new = segments[n + 1]
    BY DEF new
  <2> QED BY <1>2, <2>1, <2>2, <2>3, <2>4, Zenon
<1>5. FirstPresent(reader'.media, NoMedia, MediaOf(segments), n + 1)
  <2>1. MediaOf(segments)[n + 1] = new.media
    BY DEF MediaOf
  <2>2. FirstPresent(reader.media, NoMedia, MediaOf(segments), n)
    BY DEF MergedUpTo
  <2>3. reader'.media = IF reader.media = NoMedia THEN MediaOf(segments)[n + 1] ELSE reader.media
    BY <1>2, <2>1
  <2> QED BY <2>2, <2>3, FirstStep
<1>6. ASSUME NEW f \in Fields
      PROVE  FirstPresent(reader'.first[f], None, FirstOf(segments, f), n + 1)
  <2>1. FirstOf(segments, f)[n + 1] = new.first[f]
    BY DEF FirstOf
  <2>2. FirstPresent(reader.first[f], None, FirstOf(segments, f), n)
    BY DEF MergedUpTo
  <2>3. reader'.first[f] =
          IF reader.first[f] = None THEN FirstOf(segments, f)[n + 1] ELSE reader.first[f]
    BY <1>2, <2>1
  <2> QED BY <2>2, <2>3, FirstStep
<1> QED BY <1>3, <1>4, <1>5, <1>6 DEF MergedUpTo

LEMMA MergeInv == ASSUME SetInv, MergeSegment PROVE SetInv'
<1>1. /\ pc = "merge" /\ pc' = "merge" /\ i' = i + 1 /\ i \in Nat \ {0}
      /\ i <= Len(segments) /\ reader' = merged(reader, segments[i])
      /\ UNCHANGED <<sources, opts, segments>>
      /\ segments \in Seq(Source) /\ reader \in Reader
  BY DEF MergeSegment, SetInv, TypeOK
<1>2. segments[i] \in Source /\ segments[i].invalid \in Nat /\ reader.ChunkTablesInvalid \in Nat
  BY <1>1, InvalidCount DEF Reader
<1>3. reader'.ChunkTablesInvalid = reader.ChunkTablesInvalid + segments[i].invalid
  BY <1>1 DEF merged
<1>4. TypeOK'
  <2>1. reader' \in Reader
    BY <1>1, <1>2, MergedType
  <2> QED BY <1>1, <2>1 DEF SetInv, TypeOK
<1>5. Gathered'
  <2>1. /\ MergedUpTo(i - 1)
        /\ \A k \in 1..(i - 1) : segments[k].invalid <= reader.ChunkTablesInvalid
        /\ (\A k \in 1..(i - 1) : segments[k].invalid = 0) => reader.ChunkTablesInvalid = 0
    BY <1>1 DEF SetInv, Gathered
  <2>2. MergedUpTo(i - 1)'
    <3>1. \A k \in 1..(i - 1) : segments[k].number <= segments[i].number
      <4>1. \A j, k \in 1..Len(segments) : j < k => segments[j].number <= segments[k].number
        BY <1>1 DEF SetInv, Sorted
      <4>2. i \in 1..Len(segments) /\ \A k \in 1..(i - 1) : k \in 1..Len(segments) /\ k < i
        BY <1>1
      <4> QED BY <4>1, <4>2
    <3>2. i - 1 \in Nat /\ (i - 1) + 1 = i /\ i - 1 < Len(segments)
      BY <1>1
    <3>3. PICK n \in Nat : n = i - 1
      BY <3>2
    <3>4. (\A k \in 1..n : segments[k].number <= segments[n + 1].number) /\ MergedUpTo(n)
      BY <1>1, <2>1, <3>1, <3>3
    <3>5. reader' = merged(reader, segments[n + 1]) /\ n < Len(segments)
      BY <1>1, <3>2, <3>3
    <3>6. MergedUpTo(n + 1)'
      BY <1>1, <3>4, <3>5, MergeStep
    <3>7. n + 1 = i' - 1
      BY <1>1, <3>3
    <3> QED BY <3>6, <3>7 DEF MergedUpTo
  <2>3. /\ \A k \in 1..i : segments[k].invalid <= reader'.ChunkTablesInvalid
        /\ (\A k \in 1..i : segments[k].invalid = 0) => reader'.ChunkTablesInvalid = 0
    <3>1. \A k \in 1..(i - 1) : segments[k].invalid \in Nat
      BY <1>1, InvalidCount
    <3>2. ASSUME NEW k \in 1..i PROVE segments[k].invalid <= reader'.ChunkTablesInvalid
      <4>1. CASE k = i
        BY <1>1, <1>2, <1>3, <4>1
      <4>2. CASE k \in 1..(i - 1)
        BY <1>1, <1>2, <1>3, <2>1, <3>1, <4>2
      <4> QED BY <1>1, <4>1, <4>2
    <3>3. (\A k \in 1..i : segments[k].invalid = 0) => reader'.ChunkTablesInvalid = 0
      <4>1. i \in 1..i /\ \A k \in 1..(i - 1) : k \in 1..i
        BY <1>1
      <4> QED BY <1>2, <1>3, <2>1, <4>1
    <3> QED BY <3>2, <3>3
  <2>4. i' - 1 = i /\ i' <= Len(segments') + 1
    BY <1>1
  <2> QED BY <1>1, <2>2, <2>3, <2>4 DEF Gathered
<1>6. Sorted'
  BY <1>1, SortedStays
<1>7. Validated'
  <2>1. Checked(Len(segments))' /\ complete'
    BY <1>1 DEF SetInv, Validated, Checked, complete, Summary
  <2> QED BY <1>1, <2>1 DEF Validated
<1> QED BY <1>1, <1>4, <1>5, <1>6, <1>7 DEF SetInv, Parsed

LEMMA OpenInv == ASSUME SetInv, Open PROVE SetInv'
<1>1. /\ pc = "merge" /\ pc' = "opened" /\ i > Len(segments) /\ i <= Len(segments) + 1
      /\ Objection = "nil" /\ UNCHANGED <<sources, opts, segments, i>>
      /\ segments \in Seq(Source) /\ i \in Nat
      /\ reader \in Reader
  BY DEF Open, SetInv, TypeOK, Gathered
<1>2. /\ "IsEncrypted" \notin reader.flags
      /\ opts.ChecksumPolicy = "Strict" => ~(reader.ChunkTablesInvalid > 0)
  BY <1>1 DEF Objection
<1>3. i - 1 = Len(segments)
  BY <1>1
<1>4. MergedUpTo(Len(segments))
  BY <1>1, <1>3 DEF SetInv, Gathered
<1>5. opts.ChecksumPolicy = "Strict" => \A k \in 1..Len(segments) : segments[k].invalid = 0
  <2>1. \A k \in 1..Len(segments) : segments[k].invalid \in Nat
    BY <1>1, InvalidCount
  <2>2. \A k \in 1..Len(segments) : segments[k].invalid <= reader.ChunkTablesInvalid
    BY <1>1, <1>3 DEF SetInv, Gathered
  <2>3. reader.ChunkTablesInvalid \in Nat
    BY <1>1 DEF Reader
  <2> QED BY <1>1, <1>2, <2>1, <2>2, <2>3
<1>6. /\ reader' \in Reader
      /\ reader'.chunkTable = reader.chunkTable /\ reader'.flags = reader.flags
      /\ reader'.media = reader.media /\ reader'.first = reader.first
  BY <1>1 DEF Open, Reader
<1>7. Gathered'
  <2>1. MergedUpTo(Len(segments))'
    BY <1>1, <1>4, <1>6 DEF MergedUpTo, Summary
  <2> QED BY <1>1, <1>2, <1>5, <1>6, <2>1 DEF Gathered
<1>8. Sorted'
  BY <1>1, SortedStays
<1>9. Validated'
  <2>1. Checked(Len(segments))' /\ complete'
    BY <1>1 DEF SetInv, Validated, Checked, complete, Summary
  <2> QED BY <1>1, <2>1 DEF Validated
<1>10. TypeOK'
  BY <1>1, <1>6 DEF SetInv, TypeOK, Stages
<1> QED BY <1>1, <1>7, <1>8, <1>9, <1>10 DEF SetInv, Parsed

LEMMA NextSet == SetInv /\ [Next]_vars => SetInv'
<1> SUFFICES ASSUME SetInv, [Next]_vars PROVE SetInv'
  OBVIOUS
<1>1. CASE NoSources
  BY <1>1, FailInv DEF NoSources
<1>2. CASE ParseSegment
  BY <1>2, ParseInv
<1>3. CASE ParseFails
  BY <1>3, FailInv DEF ParseFails
<1>4. CASE Sort
  BY <1>4, SortInv
<1>5. CASE ValidateSegment
  BY <1>5, ValidateInv
<1>6. CASE ValidateFails
  BY <1>6, FailInv DEF ValidateFails
<1>7. CASE ValidateEnds
  BY <1>7, ValidateEndsInv
<1>8. CASE NotComplete
  BY <1>8, FailInv DEF NotComplete
<1>9. CASE MergeSegment
  BY <1>9, MergeInv
<1>10. CASE Open
  BY <1>10, OpenInv
<1>11. CASE Refuse
  BY <1>11, FailInv DEF Refuse
<1>12. CASE UNCHANGED vars
  <2>1. UNCHANGED <<sources, opts, pc, i, segments, reader>>
    BY <1>12 DEF vars
  <2>2. TypeOK'
    BY <2>1 DEF SetInv, TypeOK
  <2>3. Parsed'
    BY <2>1 DEF SetInv, Parsed
  <2>4. Sorted'
    BY <2>1, SortedStays
  <2>5. Validated'
    BY <2>1 DEF SetInv, Validated, Checked, complete, Summary
  <2>6. Gathered'
    <3>1. MergedUpTo(i - 1) => MergedUpTo(i - 1)'
      BY <2>1 DEF MergedUpTo, Summary, MediaOf, FirstOf
    <3>2. MergedUpTo(Len(segments)) => MergedUpTo(Len(segments))'
      BY <2>1 DEF MergedUpTo, Summary, MediaOf, FirstOf
    <3> QED BY <2>1, <3>1, <3>2 DEF SetInv, Gathered
  <2> QED BY <2>2, <2>3, <2>4, <2>5, <2>6 DEF SetInv
<1> QED BY <1>1, <1>2, <1>3, <1>4, <1>5, <1>6, <1>7, <1>8, <1>9, <1>10, <1>11, <1>12 DEF Next

\* The open's own bookkeeping, at every step.
THEOREM OpenKeepsCount == Spec => []SetInv
<1>1. Init => SetInv
  BY InitSet
<1>2. SetInv /\ [Next]_vars => SetInv'
  BY NextSet
<1> QED BY <1>1, <1>2, PTL DEF Spec

-----------------------------------------------------------------------------

\* The segments are the sources in another order.
LEMMA SourcesAreSegments ==
    ASSUME SetInv, pc \in {"validate", "merge", "opened"}
    PROVE  /\ sources \in Seq(Source) /\ segments \in Seq(Source)
           /\ Len(segments) = Len(sources) /\ Len(sources) \in Nat /\ Len(sources) > 0
           /\ \A j, k \in 1..Len(sources) : j < k => segments[j].number <= segments[k].number
           /\ \A j \in 1..Len(sources) : \E k \in 1..Len(sources) : segments[k] = sources[j]
           /\ \A k \in 1..Len(sources) : \E j \in 1..Len(sources) : segments[k] = sources[j]
<1>1. /\ sources \in Seq(Source) /\ segments \in Seq(Source)
      /\ Len(segments) = Len(sources) /\ Len(sources) \in Nat /\ Len(sources) > 0
      /\ \A j, k \in 1..Len(sources) : j < k => segments[j].number <= segments[k].number
  BY DEF SetInv, TypeOK, Sorted
<1>2. PICK p \in [1..Len(sources) -> 1..Len(sources)] : Arranges(p)
  BY DEF SetInv, Sorted
<1>3. /\ \A j \in 1..Len(sources) : \E k \in 1..Len(sources) : p[k] = j
      /\ \A k \in 1..Len(sources) : p[k] \in 1..Len(sources) /\ segments[k] = sources[p[k]]
  BY <1>2 DEF Arranges
<1>4. ASSUME NEW j \in 1..Len(sources)
      PROVE  \E k \in 1..Len(sources) : segments[k] = sources[j]
  <2>1. PICK k \in 1..Len(sources) : p[k] = j
    BY <1>3
  <2> QED BY <1>3, <2>1
<1>5. \A k \in 1..Len(sources) : \E j \in 1..Len(sources) : segments[k] = sources[j]
  BY <1>3
<1> QED BY <1>1, <1>4, <1>5

\* However many segments there are and whatever order they come in, an opened
\* set is segments 1 to n and ends with the done section.
THEOREM OnlyWholeSetsOpen == Spec => []OpenedIsWhole
<1>1. SetInv => OpenedIsWhole
  <2> SUFFICES ASSUME SetInv, pc = "opened", ~opts.AllowIncompleteSegmentSet
               PROVE  /\ \A k \in 1..Len(sources) : \E j \in 1..Len(sources) : sources[j].number = k
                      /\ \A j \in 1..Len(sources) :
                           /\ sources[j].number \in 1..Len(sources)
                           /\ sources[j].major = sources[1].major
                           /\ sources[j].type = sources[1].type
                           /\ sources[j].number = Len(sources) =>
                                "HasDoneSection" \in Summary(sources[j])
    BY DEF OpenedIsWhole
  <2> DEFINE n == Len(sources)
  <2>1. /\ n \in Nat /\ n > 0 /\ Len(segments) = n
        /\ \A j \in 1..n : \E k \in 1..n : segments[k] = sources[j]
        /\ \A k \in 1..n : \E j \in 1..n : segments[k] = sources[j]
    BY SourcesAreSegments
  <2>2. \A k \in 1..n : /\ segments[k].number = k
                         /\ segments[k].major = segments[1].major
                         /\ segments[k].type = segments[1].type
    BY <2>1 DEF SetInv, Validated, Checked
  <2>3. "HasDoneSection" \in Summary(segments[n])
    BY <2>1 DEF SetInv, Validated, complete
  <2> HIDE DEF n
  <2>4. ASSUME NEW k \in 1..n PROVE \E j \in 1..n : sources[j].number = k
    <3>1. PICK j \in 1..n : segments[k] = sources[j]
      BY <2>1
    <3> QED BY <2>2, <3>1
  <2>5. ASSUME NEW j \in 1..n
        PROVE  /\ sources[j].number \in 1..n
               /\ sources[j].major = sources[1].major
               /\ sources[j].type = sources[1].type
               /\ sources[j].number = n => "HasDoneSection" \in Summary(sources[j])
    <3>1. PICK k \in 1..n : segments[k] = sources[j]
      BY <2>1
    <3>2. 1 \in 1..n
      BY <2>1
    <3>3. PICK m \in 1..n : segments[m] = sources[1]
      BY <2>1, <3>2
    <3> QED BY <2>2, <2>3, <3>1, <3>3
  <2> QED BY <2>4, <2>5 DEF n
<1> QED BY <1>1, OpenKeepsCount, PTL

\* No option and no arrangement of segments gets an encrypted image opened.
THEOREM EncryptedNeverOpens == Spec => []NeverCiphertext
<1>1. SetInv => NeverCiphertext
  <2> SUFFICES ASSUME SetInv, pc = "opened", NEW j \in 1..Len(sources),
                      NEW k \in 1..Len(sources[j].sections),
                      ShowsEncryption(sources[j].sections[k])
               PROVE  FALSE
    BY DEF NeverCiphertext
  <2>1. PICK m \in 1..Len(sources) : segments[m] = sources[j]
    BY SourcesAreSegments
  <2>2. "IsEncrypted" \notin Summary(sources[j])
    <3>1. Len(segments) = Len(sources)
      BY SourcesAreSegments
    <3>2. reader.flags = UNION {Summary(segments[l]) : l \in 1..Len(segments)}
      BY DEF SetInv, Gathered, MergedUpTo
    <3>3. "IsEncrypted" \notin reader.flags
      BY DEF SetInv, Gathered
    <3> QED BY <2>1, <3>1, <3>2, <3>3
  <2>3. "IsEncrypted" \in applySectionSummary(sources[j].sections[k])
    BY DEF ShowsEncryption, applySectionSummary
  <2> QED BY <2>2, <2>3 DEF Summary
<1> QED BY <1>1, OpenKeepsCount, PTL

\* Under ChecksumStrict, every chunk table of an opened set was verified.
THEOREM StrictOpensVerified == Spec => []StrictIsVerified
<1>1. SetInv => StrictIsVerified
  <2> SUFFICES ASSUME SetInv, pc = "opened", opts.ChecksumPolicy = "Strict",
                      NEW j \in 1..Len(sources)
               PROVE  sources[j].invalid = 0
    BY DEF StrictIsVerified
  <2>1. PICK m \in 1..Len(sources) : segments[m] = sources[j]
    BY SourcesAreSegments
  <2>2. m \in 1..Len(segments)
    BY SourcesAreSegments
  <2> QED BY <2>1, <2>2 DEF SetInv, Gathered
<1> QED BY <1>1, OpenKeepsCount, PTL

-----------------------------------------------------------------------------

\* Numbers say which segment is meant, once the set is checked.
LEMMA NumbersDiffer ==
    ASSUME SetInv, pc = "opened",
           NEW j \in 1..Len(segments), NEW k \in 1..Len(segments),
           segments[j].number = segments[k].number
    PROVE  j = k
<1>1. Checked(Len(segments)) /\ segments \in Seq(Source)
  BY DEF SetInv, TypeOK, Validated
<1>2. \A m \in 1..Len(segments) : \A l \in 1..(m - 1) : segments[l].number # segments[m].number
  BY <1>1 DEF Checked
<1>3. Len(segments) \in Nat
  BY <1>1
<1>4. ~(j < k) /\ ~(k < j)
  BY <1>2, <1>3
<1> QED BY <1>4

\* The chunks of the device come in the order of the segment numbers, whatever
\* order the segments were supplied in.
THEOREM ChunksFollowNumbers == Spec => []ChunksInOrder
<1>1. SetInv => ChunksInOrder
  <2> SUFFICES ASSUME SetInv, pc = "opened"
               PROVE  \E start \in [1..Len(sources) -> 0..Len(reader.chunkTable)] :
                          Laid(reader.chunkTable, sources, Len(sources), start)
    BY DEF ChunksInOrder
  <2> DEFINE n == Len(sources)
             table == reader.chunkTable
  <2>1. /\ Len(segments) = n /\ n \in Nat
        /\ \A j \in 1..n : \E k \in 1..n : segments[k] = sources[j]
        /\ \A k \in 1..n : \E j \in 1..n : segments[k] = sources[j]
    BY SourcesAreSegments
  <2>2. PICK s \in [1..n -> 0..Len(table)] : Laid(table, segments, n, s)
    BY <2>1 DEF SetInv, Gathered, MergedUpTo
  <2>3. \A j, k \in 1..n : segments[j] = segments[k] => j = k
    BY <2>1, NumbersDiffer
  <2> DEFINE q == [j \in 1..n |-> CHOOSE k \in 1..n : segments[k] = sources[j]]
             start == [j \in 1..n |-> s[q[j]]]
  <2> HIDE DEF n, table
  <2>4. \A j \in 1..n : q[j] \in 1..n /\ segments[q[j]] = sources[j]
    BY <2>1
  <2> HIDE DEF q
  <2>5. \A j \in 1..n : start[j] = s[q[j]] /\ start[j] \in 0..Len(table)
    BY <2>2, <2>4
  <2>6. start \in [1..n -> 0..Len(table)]
    BY <2>5
  <2> HIDE DEF start
  <2>7. /\ \A k \in 1..n :
             /\ s[k] + Len(segments[k].chunks) <= Len(table)
             /\ \A x \in 1..Len(segments[k].chunks) : table[s[k] + x] = segments[k].chunks[x]
        /\ \A j, k \in 1..n :
             segments[j].number < segments[k].number => s[j] + Len(segments[j].chunks) <= s[k]
        /\ \A x \in 1..Len(table) : \E k \in 1..n : x \in (s[k] + 1)..(s[k] + Len(segments[k].chunks))
    BY <2>2 DEF Laid
  <2>8. ASSUME NEW j \in 1..n
        PROVE  /\ start[j] + Len(sources[j].chunks) <= Len(table)
               /\ \A x \in 1..Len(sources[j].chunks) : table[start[j] + x] = sources[j].chunks[x]
    <3>1. q[j] \in 1..n /\ sources[j] = segments[q[j]] /\ start[j] = s[q[j]]
      BY <2>4, <2>5
    <3>2. /\ s[q[j]] + Len(segments[q[j]].chunks) <= Len(table)
          /\ \A x \in 1..Len(segments[q[j]].chunks) :
               table[s[q[j]] + x] = segments[q[j]].chunks[x]
      BY <2>7, <3>1
    <3> QED BY <3>1, <3>2
  <2>9. ASSUME NEW j \in 1..n, NEW k \in 1..n, sources[j].number < sources[k].number
        PROVE  start[j] + Len(sources[j].chunks) <= start[k]
    <3>1. /\ q[j] \in 1..n /\ segments[q[j]] = sources[j] /\ start[j] = s[q[j]]
          /\ q[k] \in 1..n /\ segments[q[k]] = sources[k] /\ start[k] = s[q[k]]
      BY <2>4, <2>5
    <3> QED BY <2>7, <2>9, <3>1
  <2>10. ASSUME NEW x \in 1..Len(table)
         PROVE  \E j \in 1..n : x \in (start[j] + 1)..(start[j] + Len(sources[j].chunks))
    <3>1. PICK k \in 1..n : x \in (s[k] + 1)..(s[k] + Len(segments[k].chunks))
      BY <2>7
    <3>2. PICK j \in 1..n : segments[k] = sources[j]
      BY <2>1
    <3>3. q[j] = k
      BY <2>3, <2>4, <3>2
    <3>4. start[j] = s[k]
      BY <2>5, <3>3
    <3> QED BY <3>1, <3>2, <3>4
  <2>11. Laid(table, sources, n, start)
    BY <2>8, <2>9, <2>10 DEF Laid
  <2> QED BY <2>6, <2>11 DEF n, table
<1> QED BY <1>1, OpenKeepsCount, PTL

\* The first segment that has a value is the lowest-numbered source that has it.
LEMMA FirstIsLowest ==
    ASSUME SetInv, pc = "opened", NEW value, NEW absent, NEW ofSegments, NEW ofSources,
           FirstPresent(value, absent, ofSegments, Len(segments)),
           \A j, k \in 1..Len(sources) : segments[k] = sources[j] => ofSegments[k] = ofSources[j]
    PROVE  OfLowest(value, absent, ofSources)
<1> DEFINE n == Len(sources)
<1>1. /\ Len(segments) = n /\ n \in Nat
      /\ \A j, k \in 1..n : j < k => segments[j].number <= segments[k].number
      /\ \A j \in 1..n : \E k \in 1..n : segments[k] = sources[j]
      /\ \A k \in 1..n : \E j \in 1..n : segments[k] = sources[j]
  BY SourcesAreSegments
<1>2. CASE value = absent /\ \A k \in 1..n : ofSegments[k] = absent
  <2>1. ASSUME NEW j \in 1..n PROVE ofSources[j] = absent
    <3>1. PICK k \in 1..n : segments[k] = sources[j]
      BY <1>1
    <3> QED BY <1>2, <3>1
  <2> QED BY <1>2, <2>1 DEF OfLowest
<1>3. CASE \E k \in 1..n : /\ ofSegments[k] # absent
                           /\ value = ofSegments[k]
                           /\ \A j \in 1..(k - 1) : ofSegments[j] = absent
  <2>1. PICK k \in 1..n : /\ ofSegments[k] # absent
                          /\ value = ofSegments[k]
                          /\ \A j \in 1..(k - 1) : ofSegments[j] = absent
    BY <1>3
  <2>2. PICK j \in 1..n : segments[k] = sources[j]
    BY <1>1
  <2>3. ofSources[j] = value /\ ofSources[j] # absent
    BY <2>1, <2>2
  <2>4. ASSUME NEW m \in 1..n, ofSources[m] # absent
        PROVE  sources[j].number <= sources[m].number
    <3>1. PICK l \in 1..n : segments[l] = sources[m]
      BY <1>1
    <3>2. ofSegments[l] # absent
      BY <2>4, <3>1
    <3>3. k = l \/ k < l
      BY <2>1, <3>2
    <3>4. segments[k].number <= segments[l].number
      <4>1. segments[k] \in Source
        BY <1>1, SourcesAreSegments
      <4>2. segments[k].number \in Nat
        BY <4>1, SourceType
      <4>3. CASE k = l
        BY <4>2, <4>3
      <4>4. CASE k < l
        BY <1>1, <4>4
      <4> QED BY <3>3, <4>3, <4>4
    <3> QED BY <2>2, <3>1, <3>4
  <2> QED BY <2>3, <2>4 DEF OfLowest
<1> QED BY <1>1, <1>2, <1>3 DEF FirstPresent

\* What the reader reports of the whole set is what its lowest segment says that
\* says anything.
THEOREM LowestSegmentSpeaks == Spec => []FirstWins
<1>1. SetInv => FirstWins
  <2> SUFFICES ASSUME SetInv, pc = "opened"
               PROVE  /\ OfLowest(reader.media, NoMedia, MediaOf(sources))
                      /\ \A f \in Fields : OfLowest(reader.first[f], None, FirstOf(sources, f))
    BY DEF FirstWins
  <2>1. MergedUpTo(Len(segments)) /\ Len(segments) = Len(sources)
    BY SourcesAreSegments DEF SetInv, Gathered
  <2>2. OfLowest(reader.media, NoMedia, MediaOf(sources))
    <3>1. \A j, k \in 1..Len(sources) :
            segments[k] = sources[j] => MediaOf(segments)[k] = MediaOf(sources)[j]
      BY <2>1 DEF MediaOf
    <3>2. FirstPresent(reader.media, NoMedia, MediaOf(segments), Len(segments))
      BY <2>1 DEF MergedUpTo
    <3> QED BY <3>1, <3>2, FirstIsLowest
  <2>3. ASSUME NEW f \in Fields PROVE OfLowest(reader.first[f], None, FirstOf(sources, f))
    <3>1. \A j, k \in 1..Len(sources) :
            segments[k] = sources[j] => FirstOf(segments, f)[k] = FirstOf(sources, f)[j]
      BY <2>1 DEF FirstOf
    <3>2. FirstPresent(reader.first[f], None, FirstOf(segments, f), Len(segments))
      BY <2>1 DEF MergedUpTo
    <3> QED BY <3>1, <3>2, FirstIsLowest
  <2> QED BY <2>2, <2>3
<1> QED BY <1>1, OpenKeepsCount, PTL

-----------------------------------------------------------------------------
(* Every way to refuse a set. *)

LEMMA ParseFailsDeserved ==
    ASSUME SetInv, ParseFails
    PROVE  Deserves(err')
<1>1. /\ pc = "parse" /\ i <= Len(sources) /\ i \in Nat \ {0} /\ sources \in Seq(Source)
      /\ sources[i].fails # "none" /\ err'.Index = i - 1
      /\ err'.kind \in {"other", "ErrUnsupportedFormat", "ErrCorruptImage"}
  BY DEF ParseFails, Fail, SetInv, TypeOK
<1>2. \A k \in 1..(i - 1) : sources[k].fails = "none"
  BY <1>1 DEF SetInv, Parsed
<1>3. err'.Index + 1 = i /\ i \in 1..Len(sources)
  BY <1>1
<1>4. FirstUnparsed(i)
  BY <1>1, <1>2 DEF FirstUnparsed
<1> QED BY <1>1, <1>3, <1>4 DEF Deserves

\* Where the segments come from, as each of them.
LEMMA Origin ==
    ASSUME SetInv, pc \in {"validate", "merge", "opened"}, NEW k \in 1..Len(segments)
    PROVE  \E j \in 1..Len(sources) : segments[k] = sources[j]
BY SourcesAreSegments

\* Two segments of one number are two sources.
LEMMA TwoOfOne ==
    ASSUME SetInv, pc = "validate", NEW j \in 1..Len(segments), NEW k \in 1..Len(segments),
           j # k, segments[j].number = segments[k].number
    PROVE  \E a, b \in 1..Len(sources) : Twice(a, b)
<1>1. Len(segments) = Len(sources)
  BY SourcesAreSegments
<1>2. PICK p \in [1..Len(sources) -> 1..Len(sources)] : Arranges(p)
  BY DEF SetInv, Sorted
<1>3. /\ p[j] # p[k] /\ p[j] \in 1..Len(sources) /\ p[k] \in 1..Len(sources)
      /\ segments[j] = sources[p[j]] /\ segments[k] = sources[p[k]]
  BY <1>1, <1>2 DEF Arranges
<1> QED BY <1>3 DEF Twice

LEMMA ValidateFailsDeserved ==
    ASSUME SetInv, ValidateFails
    PROVE  Deserves(err')
<1>1. /\ pc = "validate" /\ i \in 1..Len(segments) /\ Checked(i - 1)
      /\ sources \in Seq(Source) /\ segments \in Seq(Source)
  BY DEF ValidateFails, SetInv, TypeOK, Validated
<1>2. PICK m \in 1..Len(sources) : segments[i] = sources[m]
  BY <1>1, Origin
<1>3. CASE coherence(i) # "nil" /\ Fail(Failure(coherence(i)))
  <2>1. err'.kind = "ErrCorruptImage"
    BY <1>3 DEF coherence, Fail, Failure
  <2>2. CASE segments[i].major # segments[1].major \/ segments[i].type # segments[1].type
    <3>1. 1 \in 1..Len(segments)
      BY <1>1
    <3>2. PICK o \in 1..Len(sources) : segments[1] = sources[o]
      BY <1>1, <3>1, Origin
    <3>3. Foreign(m, o)
      BY <1>2, <2>2, <3>2 DEF Foreign
    <3> QED BY <2>1, <3>3 DEF Deserves
  <2>3. CASE \E j \in 1..(i - 1) : segments[j].number = segments[i].number
    <3>1. PICK j \in 1..(i - 1) : segments[j].number = segments[i].number
      BY <2>3
    <3>2. j \in 1..Len(segments) /\ j # i
      BY <1>1
    <3>3. \E a, b \in 1..Len(sources) : Twice(a, b)
      BY <1>1, <3>1, <3>2, TwoOfOne
    <3> QED BY <2>1, <3>3 DEF Deserves
  <2> QED BY <1>3, <2>2, <2>3 DEF coherence
<1>4. CASE /\ coherence(i) = "nil"
           /\ numbering(segments[i], i) # "nil"
           /\ Fail(Failure(numbering(segments[i], i)))
  <2>1. /\ segments[i].number # i /\ ~opts.AllowIncompleteSegmentSet
        /\ err'.kind = IF segments[i].number > i THEN "ErrMissingSegment"
                       ELSE "ErrIncompleteSegmentSet"
    BY <1>4 DEF numbering, Fail, Failure
  <2>2. \A k \in 1..(i - 1) : segments[k].number = k
    BY <1>1, <2>1 DEF Checked
  <2>3. segments[i].number \in Nat /\ i \in Nat
    <3>1. segments[i] \in Source
      BY <1>1
    <3> QED BY <1>1, <3>1, SourceType
  <2>4. \A j \in 1..(i - 1) : segments[j].number # segments[i].number
    BY <1>4 DEF coherence
  <2>5. CASE segments[i].number > i
    <3>1. ASSUME NEW j \in 1..Len(sources) PROVE sources[j].number # i
      <4>1. PICK k \in 1..Len(segments) : segments[k] = sources[j]
        BY <1>1, SourcesAreSegments
      <4>2. CASE k \in 1..(i - 1)
        BY <1>1, <2>2, <4>1, <4>2
      <4>3. CASE k = i
        BY <2>1, <4>1, <4>3
      <4>4. CASE i < k
        <5>1. segments[i].number <= segments[k].number
          BY <1>1, <4>4, SourcesAreSegments
        <5>2. segments[k] \in Source
          BY <1>1
        <5>3. segments[k].number \in Nat
          BY <5>2, SourceType
        <5> QED BY <2>3, <2>5, <4>1, <5>1, <5>3
      <4> QED BY <1>1, <4>2, <4>3, <4>4
    <3>2. Absent(i)
      BY <3>1 DEF Absent
    <3>3. i \in 1..sources[m].number
      BY <1>1, <1>2, <2>3, <2>5
    <3> QED BY <2>1, <2>5, <3>2, <3>3 DEF Deserves
  <2>6. CASE ~(segments[i].number > i)
    <3>1. segments[i].number \notin 1..(i - 1)
      <4>1. \A n \in 1..(i - 1) : segments[n].number = n
        BY <2>2
      <4> QED BY <2>4, <4>1
    <3>2. segments[i].number = 0
      BY <2>1, <2>3, <2>6, <3>1
    <3> QED BY <1>2, <2>1, <2>6, <3>2 DEF Deserves
  <2> QED BY <2>5, <2>6
<1> QED BY <1>3, <1>4 DEF ValidateFails

LEMMA NotCompleteDeserved ==
    ASSUME SetInv, NotComplete
    PROVE  Deserves(err')
<1>1. /\ pc = "validate" /\ err'.kind = "ErrIncompleteSegmentSet"
      /\ ~opts.AllowIncompleteSegmentSet
      /\ "HasDoneSection" \notin Summary(segments[Len(segments)])
  BY DEF NotComplete, complete, Fail, Failure
<1>2. /\ Len(segments) = Len(sources) /\ Len(sources) \in Nat /\ Len(sources) > 0
      /\ segments \in Seq(Source)
      /\ \A j, k \in 1..Len(sources) : j < k => segments[j].number <= segments[k].number
  BY <1>1, SourcesAreSegments
<1>3. Len(segments) \in 1..Len(segments)
  BY <1>2
<1>4. PICK m \in 1..Len(sources) : segments[Len(segments)] = sources[m]
  BY <1>1, <1>3, Origin
<1>5. ASSUME NEW j \in 1..Len(sources) PROVE sources[j].number <= sources[m].number
  <2>1. PICK k \in 1..Len(sources) : segments[k] = sources[j]
    BY <1>1, SourcesAreSegments
  <2>2. segments[k] \in Source
    BY <1>2
  <2>3. segments[k].number \in Nat
    BY <2>2, SourceType
  <2>4. CASE k = Len(segments)
    BY <1>4, <2>1, <2>3, <2>4
  <2>5. CASE k < Len(segments)
    BY <1>2, <1>3, <1>4, <2>1, <2>5
  <2> QED BY <1>2, <2>4, <2>5
<1>6. Highest(m)
  BY <1>5 DEF Highest
<1>7. "HasDoneSection" \notin Summary(sources[m])
  BY <1>1, <1>4
<1> QED BY <1>1, <1>6, <1>7 DEF Deserves

LEMMA RefuseDeserved ==
    ASSUME SetInv, Refuse
    PROVE  Deserves(err')
<1>1. /\ pc = "merge" /\ Objection # "nil" /\ err'.kind = Objection
      /\ i > Len(segments) /\ i <= Len(segments) + 1 /\ i \in Nat
      /\ reader \in Reader /\ segments \in Seq(Source)
  BY DEF Refuse, Fail, Failure, SetInv, TypeOK, Gathered
<1>2. i - 1 = Len(segments)
  BY <1>1
<1>3. MergedUpTo(Len(segments))
  BY <1>1, <1>2 DEF SetInv, Gathered
<1>4. CASE "IsEncrypted" \in reader.flags
  <2>1. PICK k \in 1..Len(segments) : "IsEncrypted" \in Summary(segments[k])
    BY <1>3, <1>4 DEF MergedUpTo
  <2>2. PICK j \in 1..Len(sources) : segments[k] = sources[j]
    BY <1>1, Origin
  <2>3. "IsEncrypted" \in Summary(sources[j])
    BY <2>1, <2>2
  <2>4. err'.kind = "ErrEncrypted"
    BY <1>1, <1>4 DEF Objection
  <2> QED BY <2>3, <2>4 DEF Deserves
<1>5. CASE /\ "IsEncrypted" \notin reader.flags
           /\ opts.ChecksumPolicy = "Strict" /\ reader.ChunkTablesInvalid > 0
  <2>1. PICK k \in 1..Len(segments) : segments[k].invalid # 0
    BY <1>1, <1>2, <1>5 DEF SetInv, Gathered
  <2>2. segments[k] \in Source
    BY <1>1
  <2>3. PICK j \in 1..Len(sources) : segments[k] = sources[j]
    BY <1>1, Origin
  <2>4. sources[j].invalid > 0
    BY <2>1, <2>2, <2>3, InvalidCount
  <2>5. err'.kind = "ErrChecksumMismatch" /\ opts.ChecksumPolicy = "Strict"
    BY <1>1, <1>5 DEF Objection
  <2> QED BY <2>4, <2>5 DEF Deserves
<1>6. CASE /\ "IsEncrypted" \notin reader.flags
           /\ ~(opts.ChecksumPolicy = "Strict" /\ reader.ChunkTablesInvalid > 0)
  <2>1. err'.kind = G!computeGeometry(reader.media).err /\ err'.kind # "nil"
    BY <1>1, <1>6 DEF Objection
  <2>2. reader.media # NoMedia
    BY <2>1 DEF G!computeGeometry
  <2>3. PICK k \in 1..Len(segments) : reader.media = MediaOf(segments)[k]
    BY <1>3, <2>2 DEF MergedUpTo, FirstPresent
  <2>4. reader.media = segments[k].media
    BY <2>3 DEF MediaOf
  <2>5. PICK j \in 1..Len(sources) : segments[k] = sources[j]
    BY <1>1, Origin
  <2>6. err'.kind = G!computeGeometry(sources[j].media).err
    BY <2>1, <2>4, <2>5
  <2> QED BY <2>1, <2>6 DEF Deserves
<1> QED BY <1>4, <1>5, <1>6

\* The arguments do not change, and with them their defects.
LEMMA DefectsStay ==
    ASSUME UNCHANGED <<sources, opts>>
    PROVE  /\ \A k : FirstUnparsed(k)' <=> FirstUnparsed(k)
           /\ \A j, k : (Foreign(j, k)' <=> Foreign(j, k)) /\ (Twice(j, k)' <=> Twice(j, k))
           /\ \A n : (Absent(n)' <=> Absent(n)) /\ (Highest(n)' <=> Highest(n))
           /\ \A j : Summary(sources[j])' = Summary(sources[j])
<1>1. \A k : FirstUnparsed(k)' <=> FirstUnparsed(k)
  BY DEF FirstUnparsed
<1>2. \A j, k : (Foreign(j, k)' <=> Foreign(j, k)) /\ (Twice(j, k)' <=> Twice(j, k))
  BY DEF Foreign, Twice
<1>3. \A n : (Absent(n)' <=> Absent(n)) /\ (Highest(n)' <=> Highest(n))
  BY DEF Absent, Highest
<1>4. \A j : Summary(sources[j])' = Summary(sources[j])
  BY DEF Summary
<1> QED BY <1>1, <1>2, <1>3, <1>4

LEMMA NextDeserved ==
    SetInv /\ RefusalIsDeserved /\ [Next]_vars => RefusalIsDeserved'
<1> SUFFICES ASSUME SetInv, RefusalIsDeserved, [Next]_vars, pc' = "failed"
             PROVE  Deserves(err)'
  BY DEF RefusalIsDeserved
<1>0. UNCHANGED <<sources, opts>>
  BY DEF Next, vars, NoSources, ParseSegment, ParseFails, Sort, ValidateSegment, ValidateFails,
         ValidateEnds, NotComplete, MergeSegment, Open, Refuse, Fail
<1>1. CASE NoSources
  <2>1. err'.kind = "ErrUnsupportedFormat" /\ Len(sources) = 0
    BY <1>1 DEF NoSources, Fail, Failure
  <2> QED BY <1>0, <2>1 DEF Deserves
<1>2. CASE ParseFails \/ ValidateFails \/ NotComplete \/ Refuse
  <2>1. Deserves(err')
    BY <1>2, ParseFailsDeserved, ValidateFailsDeserved, NotCompleteDeserved, RefuseDeserved
  <2> QED BY <1>0, <2>1, DefectsStay DEF Deserves
<1>3. CASE UNCHANGED vars
  <2>1. Deserves(err) /\ err' = err
    BY <1>3 DEF RefusalIsDeserved, vars
  <2> QED BY <1>0, <2>1, DefectsStay DEF Deserves
<1>4. CASE ParseSegment \/ Sort \/ ValidateSegment \/ ValidateEnds \/ MergeSegment \/ Open
  <2>1. pc' # "failed"
    BY <1>4 DEF SetInv, TypeOK, ParseSegment, Sort, ValidateSegment, ValidateEnds, MergeSegment,
                Open
  <2> QED BY <2>1
<1> QED BY <1>1, <1>2, <1>3, <1>4 DEF Next

\* Whatever is refused has the defect that it is refused for.
THEOREM RefusalsAreDeserved == Spec => []RefusalIsDeserved
<1>1. Init => RefusalIsDeserved
  BY DEF Init, RefusalIsDeserved
<1> QED BY <1>1, OpenKeepsCount, NextDeserved, PTL DEF Spec

=============================================================================
