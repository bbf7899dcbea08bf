----------------------------- MODULE SegmentSet -----------------------------
(***************************************************************************)
(* Opening a set of segments (OpenSegmentsWithOptions, validateSegmentSet  *)
(* and mergeSegmentMetadata of reader/open.go, applySectionSummary of      *)
(* reader/metadata.go): the sources are parsed in the order supplied,      *)
(* sorted by segment number, checked to form one set, and merged into one  *)
(* reader.                                                                 *)
(*                                                                         *)
(* A source is what parsing it gives: the stage at which that fails, or    *)
(* the header, the summary of its sections and its chunk table.  Chunk     *)
(* tables are sequences of chunks, whatever those are: see ChunkTable.     *)
(***************************************************************************)
EXTENDS Integers, Sequences

CONSTANTS
    Supplies,   \* the slices of sources OpenSegments may be given
    Chunk,      \* chunk descriptors
    Value, None,\* digests and acquisition details, and their absence
    NoMedia, MaxInt64

G == INSTANCE Geometry WITH Media <- NoMedia

\* What the open looks at in a section descriptor.
Section == [Type : {"next", "done", "keys", "table", "other"},
            DataFlags : SUBSET {"HasIntegrityHash", "Encrypted"}]

\* What is taken from the first segment that has it.
Fields == {"MD5Digest", "SHA1Digest", "Acquisition"}

\* fails: the stage of parseSegment that fails, "none" when it succeeds.
Source ==
    [fails : {"none", "signature", "type", "header", "sections"},
     number : Nat, major : Nat, type : Nat, sections : Seq(Section),
     media : G!MediaInfo \cup {NoMedia}, first : [Fields -> Value \cup {None}],
     chunks : Seq(Chunk), recovered : Nat, invalid : Nat]

Options == [AllowIncompleteSegmentSet : BOOLEAN,
            ChecksumPolicy : {"Warn", "Ignore", "Strict"}]

ASSUME SupplyAssumption == Supplies \subseteq Seq(Source)

VARIABLES
    sources, opts,  \* the arguments
    pc,             \* parse, sort, validate, merge, policy, opened or failed
    i,              \* the loop's next position, from 1
    segments,       \* the parsed segments
    reader,         \* what is merged so far
    err             \* [kind, Segment, Index] of a failure

vars == <<sources, opts, pc, i, segments, reader, err>>

NoError == [kind |-> "nil", Segment |-> 0, Index |-> 0]
Failure(kind) == [kind |-> kind, Segment |-> 0, Index |-> 0]

Nothing == [chunkTable |-> <<>>, flags |-> {}, media |-> NoMedia,
            first |-> [f \in Fields |-> None],
            ChunkTablesRecovered |-> 0, ChunkTablesInvalid |-> 0]

\* Mutated form of applySectionSummary: encryption shows in the key section only.
applySectionSummaryKeys(section) ==
    (CASE section.Type = "next" -> {"HasNextSection"}
       [] section.Type = "done" -> {"HasDoneSection"}
       [] section.Type = "keys" -> {"IsEncrypted"}
       [] OTHER                 -> {})

\* The flags of metadata.Info that one section raises: encryption shows as a key
\* section and as a flag on any section.
applySectionSummary(section) ==
    (CASE section.Type = "next" -> {"HasNextSection"}
       [] section.Type = "done" -> {"HasDoneSection"}
       [] section.Type = "keys" -> {"IsEncrypted"}
       [] OTHER                 -> {})
    \cup (IF "HasIntegrityHash" \in section.DataFlags THEN {"HasIntegrityHashBlocks"} ELSE {})
    \cup (IF "Encrypted" \in section.DataFlags THEN {"IsEncrypted"} ELSE {})

\* buildMetadata, as far as the open uses it.
Summary(s) == UNION {applySectionSummary(s.sections[k]) : k \in 1..Len(s.sections)}

Init ==
    /\ sources \in Supplies
    /\ opts \in Options
    /\ pc = "parse"
    /\ i = 1
    /\ segments = <<>>
    /\ reader = Nothing
    /\ err = NoError

Fail(e) ==
    /\ pc' = "failed"
    /\ err' = e
    /\ UNCHANGED <<sources, opts, i, segments, reader>>

-----------------------------------------------------------------------------

NoSources ==
    /\ pc = "parse"
    /\ Len(sources) = 0
    /\ Fail(Failure("ErrUnsupportedFormat"))

ParseSegment ==
    /\ pc = "parse"
    /\ i <= Len(sources)
    /\ sources[i].fails = "none"
    /\ segments' = Append(segments, sources[i])
    /\ i' = i + 1
    /\ UNCHANGED <<sources, opts, pc, reader, err>>

\* parseSegment returns the zero parsedSegment with every error, so that the
\* number reported is 0.  The cause is the source's for an unreadable one.
ParseFails ==
    /\ pc = "parse"
    /\ i <= Len(sources)
    /\ LET stage == sources[i].fails
           cause == CASE stage = "type"   -> "ErrUnsupportedFormat"
                      [] stage = "header" -> "ErrCorruptImage"
                      [] OTHER            -> "other"
       IN  /\ stage # "none"
           /\ Fail([kind |-> cause, Segment |-> 0, Index |-> i - 1])

\* sort.Slice orders by number and is not stable: segments of equal number come
\* in either order.  p is the permutation: it reaches every place.
Sort ==
    /\ pc = "parse"
    /\ Len(sources) > 0
    /\ i > Len(sources)
    /\ \E p \in [1..Len(segments) -> 1..Len(segments)] :
         /\ \A j \in 1..Len(segments) : \E k \in 1..Len(segments) : p[k] = j
         /\ \A j, k \in 1..Len(segments) :
              j < k => segments[p[j]].number <= segments[p[k]].number
         /\ segments' = [k \in 1..Len(segments) |-> segments[p[k]]]
    /\ pc' = "validate"
    /\ i' = 1
    /\ UNCHANGED <<sources, opts, reader, err>>

\* Mutated form of numbering: AllowIncompleteSegmentSet excuses nothing.
numberingAlways(s, want) ==
    IF s.number = want THEN "nil"
    ELSE IF s.number > want THEN "ErrMissingSegment"
    ELSE "ErrIncompleteSegmentSet"

\* What a segment's number says at the place `want' of the sorted set.
numbering(s, want) ==
    IF s.number = want \/ opts.AllowIncompleteSegmentSet THEN "nil"
    ELSE IF s.number > want THEN "ErrMissingSegment"
    ELSE "ErrIncompleteSegmentSet"

\* Mutated form of coherence: duplicate numbers are let through.
coherenceTwice(k) ==
    IF \/ segments[k].major # segments[1].major
       \/ segments[k].type # segments[1].type
    THEN "ErrCorruptImage"
    ELSE "nil"

\* Version and type are the first segment's, and the number was not seen before.
coherence(k) ==
    IF \/ segments[k].major # segments[1].major
       \/ segments[k].type # segments[1].type
       \/ \E j \in 1..(k - 1) : segments[j].number = segments[k].number
    THEN "ErrCorruptImage"
    ELSE "nil"

\* One turn of validateSegmentSet's loop.
ValidateSegment ==
    /\ pc = "validate"
    /\ i <= Len(segments)
    /\ coherence(i) = "nil"
    /\ numbering(segments[i], i) = "nil"
    /\ i' = i + 1
    /\ UNCHANGED <<sources, opts, pc, segments, reader, err>>

ValidateFails ==
    /\ pc = "validate"
    /\ i <= Len(segments)
    /\ \/ /\ coherence(i) # "nil"
          /\ Fail(Failure(coherence(i)))
       \/ /\ coherence(i) = "nil"
          /\ numbering(segments[i], i) # "nil"
          /\ Fail(Failure(numbering(segments[i], i)))

\* Mutated form of complete: a done section anywhere is enough.
completeAny ==
    \/ opts.AllowIncompleteSegmentSet
    \/ \E k \in 1..Len(segments) : "HasDoneSection" \in Summary(segments[k])

\* The highest segment has a done section, or nobody asks.
complete ==
    \/ opts.AllowIncompleteSegmentSet
    \/ "HasDoneSection" \in Summary(segments[Len(segments)])

ValidateEnds ==
    /\ pc = "validate"
    /\ i > Len(segments)
    /\ complete
    /\ pc' = "merge"
    /\ i' = 1
    /\ UNCHANGED <<sources, opts, segments, reader, err>>

NotComplete ==
    /\ pc = "validate"
    /\ i > Len(segments)
    /\ ~complete
    /\ Fail(Failure("ErrIncompleteSegmentSet"))

\* Mutated form of merged: the counts of unverified tables are not added up.
mergedCount(r, s) ==
    [chunkTable |-> r.chunkTable \o s.chunks,
     flags |-> r.flags \cup Summary(s),
     media |-> IF r.media = NoMedia THEN s.media ELSE r.media,
     first |-> [f \in Fields |-> IF r.first[f] = None THEN s.first[f] ELSE r.first[f]],
     ChunkTablesRecovered |-> r.ChunkTablesRecovered + s.recovered,
     ChunkTablesInvalid |-> s.invalid]

\* Mutated form of merged: a segment's chunks come before those already there.
mergedBefore(r, s) ==
    [chunkTable |-> s.chunks \o r.chunkTable,
     flags |-> r.flags \cup Summary(s),
     media |-> IF r.media = NoMedia THEN s.media ELSE r.media,
     first |-> [f \in Fields |-> IF r.first[f] = None THEN s.first[f] ELSE r.first[f]],
     ChunkTablesRecovered |-> r.ChunkTablesRecovered + s.recovered,
     ChunkTablesInvalid |-> r.ChunkTablesInvalid + s.invalid]

\* Mutated form of merged: the last segment that has a detail wins.
mergedLast(r, s) ==
    [chunkTable |-> r.chunkTable \o s.chunks,
     flags |-> r.flags \cup Summary(s),
     media |-> IF r.media = NoMedia THEN s.media ELSE r.media,
     first |-> [f \in Fields |-> IF s.first[f] = None THEN r.first[f] ELSE s.first[f]],
     ChunkTablesRecovered |-> r.ChunkTablesRecovered + s.recovered,
     ChunkTablesInvalid |-> r.ChunkTablesInvalid + s.invalid]

\* The reader with segment s added: chunks behind those already there, flags
\* joined, counts added, the rest from the first segment that has it.
merged(r, s) ==
    [chunkTable |-> r.chunkTable \o s.chunks,
     flags |-> r.flags \cup Summary(s),
     media |-> IF r.media = NoMedia THEN s.media ELSE r.media,
     first |-> [f \in Fields |-> IF r.first[f] = None THEN s.first[f] ELSE r.first[f]],
     ChunkTablesRecovered |-> r.ChunkTablesRecovered + s.recovered,
     ChunkTablesInvalid |-> r.ChunkTablesInvalid + s.invalid]

MergeSegment ==
    /\ pc = "merge"
    /\ i <= Len(segments)
    /\ reader' = merged(reader, segments[i])
    /\ i' = i + 1
    /\ UNCHANGED <<sources, opts, pc, segments, err>>

\* What stops a merged set from being opened, in the order it is looked at.
Objection ==
    IF "IsEncrypted" \in reader.flags THEN "ErrEncrypted"
    ELSE IF opts.ChecksumPolicy = "Strict" /\ reader.ChunkTablesInvalid > 0
    THEN "ErrChecksumMismatch"
    ELSE G!computeGeometry(reader.media).err

Open ==
    /\ pc = "merge"
    /\ i > Len(segments)
    /\ Objection = "nil"
    /\ reader' = IF opts.ChecksumPolicy = "Ignore"
                 THEN [reader EXCEPT !.ChunkTablesInvalid = 0, !.ChunkTablesRecovered = 0]
                 ELSE reader
    /\ pc' = "opened"
    /\ UNCHANGED <<sources, opts, i, segments, err>>

Refuse ==
    /\ pc = "merge"
    /\ i > Len(segments)
    /\ Objection # "nil"
    /\ Fail(Failure(Objection))

Next ==
    \/ NoSources \/ ParseSegment \/ ParseFails \/ Sort
    \/ ValidateSegment \/ ValidateFails \/ ValidateEnds \/ NotComplete
    \/ MergeSegment \/ Open \/ Refuse

Spec == Init /\ [][Next]_vars

-----------------------------------------------------------------------------

Stages == {"parse", "validate", "merge", "opened", "failed"}

Flags == {"HasNextSection", "HasDoneSection", "IsEncrypted", "HasIntegrityHashBlocks"}

Reader ==
    [chunkTable : Seq(Chunk), flags : SUBSET Flags, media : G!MediaInfo \cup {NoMedia},
     first : [Fields -> Value \cup {None}],
     ChunkTablesRecovered : Nat, ChunkTablesInvalid : Nat]

TypeOK ==
    /\ sources \in Seq(Source)
    /\ opts \in Options
    /\ pc \in Stages
    /\ i \in Nat \ {0}
    /\ segments \in Seq(Source)
    /\ reader \in Reader

\* Before the sort, the segments are the sources so far, in the order supplied.
Parsed ==
    pc = "parse" =>
        /\ i <= Len(sources) + 1
        /\ Len(segments) = i - 1
        /\ \A k \in 1..Len(segments) : segments[k] = sources[k] /\ sources[k].fails = "none"

\* p says which of the sources each segment is.
Arranges(p) ==
    /\ \A j, k \in 1..Len(sources) : p[j] = p[k] => j = k
    /\ \A j \in 1..Len(sources) : \E k \in 1..Len(sources) : p[k] = j
    /\ \A k \in 1..Len(sources) : p[k] \in 1..Len(sources) /\ segments[k] = sources[p[k]]

\* After it, they are the sources, each once, in the order of their numbers.
Sorted ==
    pc \in {"validate", "merge", "opened"} =>
        /\ Len(segments) = Len(sources)
        /\ Len(segments) > 0
        /\ \A j, k \in 1..Len(segments) : j < k => segments[j].number <= segments[k].number
        /\ \E p \in [1..Len(sources) -> 1..Len(sources)] : Arranges(p)

\* How far the set has been checked.
Checked(n) ==
    \A k \in 1..n :
        /\ segments[k].major = segments[1].major
        /\ segments[k].type = segments[1].type
        /\ \A j \in 1..(k - 1) : segments[j].number # segments[k].number
        /\ ~opts.AllowIncompleteSegmentSet => segments[k].number = k

Validated ==
    /\ pc = "validate" => i <= Len(segments) + 1 /\ Checked(i - 1)
    /\ pc \in {"merge", "opened"} => Checked(Len(segments)) /\ complete

\* The chunk tables of set[1] to set[n] make up the table: each of them in one
\* stretch of it, behind start[j], the stretches in the order of the numbers and
\* apart, no place outside all of them.
Laid(table, set, n, start) ==
    /\ \A j \in 1..n :
         /\ start[j] + Len(set[j].chunks) <= Len(table)
         /\ \A x \in 1..Len(set[j].chunks) : table[start[j] + x] = set[j].chunks[x]
    /\ \A j, k \in 1..n :
         set[j].number < set[k].number => start[j] + Len(set[j].chunks) <= start[k]
    /\ \A x \in 1..Len(table) : \E j \in 1..n :
         x \in (start[j] + 1)..(start[j] + Len(set[j].chunks))

\* value is the first of values[1] to values[n] that is there, if one is.
FirstPresent(value, absent, values, n) ==
    \/ value = absent /\ \A k \in 1..n : values[k] = absent
    \/ \E k \in 1..n : /\ values[k] # absent
                       /\ value = values[k]
                       /\ \A j \in 1..(k - 1) : values[j] = absent

\* A detail of every member of a set.
MediaOf(set) == [k \in 1..Len(set) |-> set[k].media]
FirstOf(set, f) == [k \in 1..Len(set) |-> set[k].first[f]]

\* What the first n segments have put into the reader.
MergedUpTo(n) ==
    /\ \E start \in [1..n -> 0..Len(reader.chunkTable)] :
         Laid(reader.chunkTable, segments, n, start)
    /\ reader.flags = UNION {Summary(segments[k]) : k \in 1..n}
    /\ FirstPresent(reader.media, NoMedia, MediaOf(segments), n)
    /\ \A f \in Fields : FirstPresent(reader.first[f], None, FirstOf(segments, f), n)

\* What the merge has taken in.
Gathered ==
    /\ pc \in {"parse", "validate"} => reader = Nothing
    /\ pc = "merge" =>
         /\ i <= Len(segments) + 1
         /\ MergedUpTo(i - 1)
         /\ \A k \in 1..(i - 1) : segments[k].invalid <= reader.ChunkTablesInvalid
         /\ (\A k \in 1..(i - 1) : segments[k].invalid = 0) => reader.ChunkTablesInvalid = 0
    /\ pc = "opened" =>
         /\ MergedUpTo(Len(segments))
         /\ "IsEncrypted" \notin reader.flags
         /\ opts.ChecksumPolicy = "Strict" =>
              \A k \in 1..Len(segments) : segments[k].invalid = 0

\* Where the open stands, strong enough to be inductive.
SetInv ==
    /\ TypeOK
    /\ Parsed
    /\ Sorted
    /\ Validated
    /\ Gathered

\* "decoding a partial set would silently present a truncated or misaligned
\* device": without AllowIncompleteSegmentSet, a reader is handed out only for
\* segments 1 to n, each supplied once in whatever order, all of one version and
\* type, the highest of them closed by a done section.
OpenedIsWhole ==
    pc = "opened" /\ ~opts.AllowIncompleteSegmentSet =>
        /\ \A k \in 1..Len(sources) : \E j \in 1..Len(sources) : sources[j].number = k
        /\ \A j \in 1..Len(sources) :
             /\ sources[j].number \in 1..Len(sources)
             /\ sources[j].major = sources[1].major
             /\ sources[j].type = sources[1].type
             /\ sources[j].number = Len(sources) => "HasDoneSection" \in Summary(sources[j])

\* A section that says the segment is encrypted.
ShowsEncryption(section) == section.Type = "keys" \/ "Encrypted" \in section.DataFlags

\* "Readers never return ciphertext as device data": no reader is handed out when
\* any section of any segment shows encryption, the set complete or not.
NeverCiphertext ==
    pc = "opened" =>
        \A j \in 1..Len(sources) : \A k \in 1..Len(sources[j].sections) :
            ~ShowsEncryption(sources[j].sections[k])

\* ChecksumStrict lets no unverified chunk table through, of any segment.
StrictIsVerified ==
    pc = "opened" /\ opts.ChecksumPolicy = "Strict" =>
        \A j \in 1..Len(sources) : sources[j].invalid = 0

\* The reader's chunk table is the segments' tables in the order of their
\* numbers, whatever the order they were supplied in, nothing lost and nothing
\* twice.
ChunksInOrder ==
    pc = "opened" =>
        \E start \in [1..Len(sources) -> 0..Len(reader.chunkTable)] :
            Laid(reader.chunkTable, sources, Len(sources), start)

\* value is that of the lowest-numbered source that has one, if any has.
OfLowest(value, absent, values) ==
    LET having == {j \in 1..Len(sources) : values[j] # absent}
    IN  IF having = {} THEN value = absent
        ELSE \E j \in having :
               /\ value = values[j]
               /\ \A k \in having : sources[j].number <= sources[k].number

\* Geometry, digests and acquisition details come from the lowest segment that
\* has them, and none is lost.
FirstWins ==
    pc = "opened" =>
        /\ OfLowest(reader.media, NoMedia, MediaOf(sources))
        /\ \A f \in Fields : OfLowest(reader.first[f], None, FirstOf(sources, f))

\* Defects of the sources.
FirstUnparsed(k) == sources[k].fails # "none" /\ \A j \in 1..(k - 1) : sources[j].fails = "none"
Foreign(j, k)    == sources[j].major # sources[k].major \/ sources[j].type # sources[k].type
Twice(j, k)      == j # k /\ sources[j].number = sources[k].number
Absent(n)        == \A j \in 1..Len(sources) : sources[j].number # n
Highest(j)       == \A k \in 1..Len(sources) : sources[k].number <= sources[j].number

\* The sources or the options have the defect that error e names.
Deserves(e) ==
    LET all    == 1..Len(sources)
        strict == ~opts.AllowIncompleteSegmentSet
    IN  \/ /\ e.kind \in {"other", "ErrUnsupportedFormat", "ErrCorruptImage"}
           /\ e.Index + 1 \in all
           /\ FirstUnparsed(e.Index + 1)
        \/ e.kind = "ErrUnsupportedFormat" /\ Len(sources) = 0
        \/ /\ e.kind = "ErrCorruptImage"
           /\ \E j, k \in all : Foreign(j, k) \/ Twice(j, k)
        \/ /\ e.kind = "ErrMissingSegment"
           /\ strict
           /\ \E j \in all : \E n \in 1..sources[j].number : Absent(n)
        \/ /\ e.kind = "ErrIncompleteSegmentSet"
           /\ strict
           /\ \E j \in all :
                \/ sources[j].number = 0
                \/ Highest(j) /\ "HasDoneSection" \notin Summary(sources[j])
        \/ /\ e.kind = "ErrEncrypted"
           /\ \E j \in all : "IsEncrypted" \in Summary(sources[j])
        \/ /\ e.kind = "ErrChecksumMismatch"
           /\ opts.ChecksumPolicy = "Strict"
           /\ \E j \in all : sources[j].invalid > 0
        \/ /\ e.kind # "nil"
           /\ \E j \in all : e.kind = G!computeGeometry(sources[j].media).err

\* Every refusal is deserved: the error names a defect that the sources or the
\* options really have, and the index it gives is that of the first source that
\* cannot be parsed.
RefusalIsDeserved == pc = "failed" => Deserves(err)

=============================================================================
