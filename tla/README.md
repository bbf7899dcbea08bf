# A TLA+ model of libewf (Go)

libewf reads Expert Witness Format images (`.E01`, `.L01`, `.Ex01`, `.Lx01`,
`.s01`) as one contiguous block device. It never writes an image. What matters
about it is that an examiner gets the acquired bytes at the acquired offsets,
or an error that says why not. These modules say that for the parts in which it
can go wrong: the chunk cache under concurrent reads, the walk over section
chains, what the bodies of sections add to the metadata, the choice between chunk
tables, the order and completeness of segments, the naming of segment files,
closing, verification, and the tool that builds the corpus the tests compare with.

Paths below are relative to `src/`.

## 1. The system

| component | state it keeps | operations | interacts with |
|---|---|---|---|
| chunk cache, `reader/cache.go` | map and LRU list under one mutex | `get`, `put`, `effectiveCacheChunks` | called by `chunkData` of every `ReadAt` |
| chunk decoder, `reader/open.go:373`, `compression`, `internal/binaryutil` | none | `decodeChunk`, `expandPattern`, `Decompress`, `ReadSlice` | reads the segment sources, fills the cache |
| image reader, `reader/open.go:285` | read-only tables and geometry; per call: offset, bytes copied | `ReadAt`, `chunkData` | cache, decoder; called by any number of goroutines |
| segment set, `reader/open.go:140`, `reader/metadata.go` | segments parsed so far, merged metadata | `OpenSegmentsWithOptions`, `validateSegmentSet`, `mergeSegmentMetadata` | section chain and chunk table of each segment |
| section chain, `reader/sections.go` | position, descriptors read | `parseSectionsV1`, `parseSectionsV2` | the segment's source |
| chunk tables, `reader/chunk_table.go` | descriptors, statistics | `buildChunkTable`, `parseTableGroupV1`, `parseTableSectionV1/V2` | sections of one segment |
| segment discovery, `internal/segname`, `openpath.go:79` | numbers found in a directory | `ParseFamily`, `Family.Number`, `Family.Ext`, `Discover`, `Set.Missing` | the file system; feeds `OpenPath` |
| path reader, `openpath.go` | open files, `sync.Once`, `closeErr` | `OpenPathWithOptions`, `Close` | segment set, `os.File`, callers' goroutines |
| verification, `verify.go` | offset, two digests, bad ranges | `Verify`, `VerifyResult.OK` | `ReadAt` of a reader, the caller's context |
| file headers, `reader/open.go:206` | none | `detectSegmentFileType`, `parseFileHeader` | their version decides how everything behind is read |
| section payloads, `reader/payload_parsing.go`, `xhash.go` | metadata, which lists were read | volume, digest, session, error and xhash parsing | sections of one segment; geometry and digests go to reader and verification |
| acquisition metadata, `reader/header.go`, `ewf2meta.go` | case data, the first header section of each name | decoding and merging header, header2, xheader; device_information, case_data | sections of one segment |
| corpus tool, `tools/mkcorpus`, `internal/corpus` | a directory of images, `manifest.json` | `adoptImage`, `generate`, `runEwfacquire`, `Load`, `Save`, `Entry.Validate` | the file system, ewfacquire and ewfinfo; the library itself |
| public API, `api.go`, `ewferr`, `metadata`, `types` | none | delegation, plain types | all of the above |

A path goes through discovery, the files are opened one by one, each segment's
section chain is walked and its chunk tables built, the segments are sorted,
validated and merged, and from then on the image is immutable but for its cache.

### What is hard

* **Concurrency.** `ReadAt` may be called by any number of goroutines. The cache
  is locked inside `get` and `put` only; decoding happens between them, so two
  goroutines decode and store the same chunk while a third evicts it. `Close`
  runs once, whoever calls it, while others wait for it and others still read.
* **Failure.** A source may fail at any read. A descriptor may lie about size,
  offset or compression. An open may fail at any file, a close too.
* **Partial runs.** `mkcorpus` works on a directory that outlives it. It may fail,
  or be killed, between any two steps, also inside the rewriting of the manifest.
* **Ordering.** Header sections come in any order and Go walks maps in any order;
  digests are told twice, in binary and in a document. Segments come in any order and the sort is not stable; directory
  entries come in any order and spelling; table and table2 are paired by
  adjacency.
* **Boundaries.** The half-used final chunk, short and overlong chunks, the 2 GiB
  overflow of table entries, the size of the last chunk, wrapping section sizes,
  the carry of segment names, the cache at its limit.
* **Termination.** A damaged section chain may run in circles; reading and
  verification must get past damage.

There are no messages, retries or timeouts. Only the corpus tool persists
anything; the library has nothing to recover after a crash.

### What makes each component correct

* Cache: map and list agree, the depth is kept, only the least recently used
  chunk is evicted. (`LRUInv`, `RecentlyUsedStay`)
* Reader: all goroutines see one fixed device, all of it and nothing else.
  (`ReaderInv`, `ReturnsAcquired`, `NothingWithheld`, `ImplementsBlockDevice`,
  `EveryCallAnswered`)
* Decoder: what it yields is what the writer stored, patterns in phase over the
  whole chunk whatever the unit's length, trailers off. (`ReturnsAcquired`, `NothingWithheld`)
* Segment set: what opens is whole, in order, not encrypted, and verified if that
  was asked for; what is refused deserves it. (`OpenedIsWhole`, `ChunksInOrder`,
  `NeverCiphertext`, `StrictIsVerified`, `FirstWins`, `RefusalIsDeserved`)
* Section chain: the walk follows the links and ends; an accepted chain is a
  chain. (`ChainInv`, `NoneTwiceV1`, `WholeV2`, `ParseEnds`)
* Section payloads: every list is one copy's, the digests are those of record, v2
  geometry is complete or unusable. (`ListsOnce`, `DigestsOfRecord`,
  `TwoTextsOneRecord`)
* Acquisition metadata: the most capable header section wins, field by field.
  (`HeaderPrecedence`; `DocumentedPrecedence` does not hold, section 6)
* Chunk tables: the descriptors are the chunks that were written, from whichever
  copy is sound, or the counts say otherwise. (`LayoutRecovered`,
  `VerifiedIsWritten`, `StatsTell`)
* Names and discovery: a name made for a number is read as that number; what is
  found is in order; any member of a set finds the set; holes are reported.
  (`NamesRoundTrip`, `DiscoverInv`, `AnyMemberFindsIt`, `OpenedWithoutHoles`,
  `ExpectedAreMissing`)
* Path reader: no handle leaks or is closed twice, `Close` returns the same to
  everybody. (`PathInv`, `EveryCloseReturns`)
* Verification: OK exactly when the device is intact. (`OKMeansIntact`,
  `IntactIsOK`, `VerifyInv`, `Ends`)
* Corpus: what a run records is on disk, and a manifest lost half-way through its
  rewriting is never taken for an empty corpus. (`FreshAreOnDisk`, `NoSilentLoss`)

## 2. The modules

| module | models | state and actions |
|---|---|---|
| `Geometry` | `computeGeometry` | pure; int64 width is the constant `MaxInt64` |
| `ChunkCache` | `cache.go` | `entries` (map), `order` (list); `GetHit`, `GetMiss`, `PutDisabled`, `PutReplace`, `PutInsert` |
| `ChunkLRU` | the cache alone, with the history of its use | adds `clock`, `lastUse`, `lastPut` |
| `ChunkCodec` | `decodeChunk` and what it calls | pure; `Doubled` is the loop of `expandPattern`, one application a pass; `Inflate` is external |
| `ImageReader` | `ReadAt`, `chunkData` | per goroutine `pc`, `call`, `buf`, `held`, `err`; extends cache and codec |
| `Acquisition` | the device an image was made of, how a writer stores its chunks, what damage leaves of them | no state of its own; extends `ImageReader` |
| `BlockDevice` | abstract: what a reader promises | `Call`, `Answer`, `Return` |
| `Verify` | `verify.go` over `BlockDevice` | `off`, `fed`, `BytesHashed`, `BadRanges`, `match` |
| `PathReader` | `OpenPathWithOptions`, `Close` | handles, `sync.Once`, closers and users |
| `SegmentSet` | opening, validation, merge | `segments`, `reader`, one action per loop turn |
| `SectionChain` | both walks | `offset`, `sections`, one action per turn and way out |
| `SectionPayloads` | what one body adds to the metadata | pure; a body is its length and what its bytes say |
| `SegmentParse` | `parseSegment`: header, walk, bodies, acquisition | `phase`, `at`, `info`, `headers`, `unapplied`; one action per kind of section and per header value; extends the two above |
| `ChunkTable` | `chunk_table.go` | `tables` (positions of the table sections), `table`, `stats`; `Collect` and `Collected` for the loop that picks the table sections, then `TakeV2`, `TakeGroup`, `Built` |
| `TableLayout` | tables as a writer lays them out, what damage makes of them, and what a caller may rely on then | no state of its own; extends `ChunkTable` |
| `SegmentNames` | extensions and numbers | pure |
| `Discover` | the directory scan and its verdict | `left`, `found`, `segments`, `err`; extends `SegmentNames` |
| `Corpus` | runs of `mkcorpus` over one directory | `disk`, `manifest` outlive a run; `mem`, `i`, `k`, `entries`, `added` do not; `stuck` and `known` are history, read by properties only; `Crash` is possible everywhere |

`MC*` modules hold the instances. `*Proofs` modules hold the theorems.
An operator commented as a *mutated form* is a plausible slip in the definition
that follows it. Nothing uses it; putting it in that definition's place makes the
property named in `PROJECT.json` fail, which shows that the property depends on
the code being as it is.

How modules compose: `ImageReader` extends `ChunkCache` and `ChunkCodec`, which
extend `Geometry`, and is shown to implement `BlockDevice` under the mapping `BD`
at its end: `Size` is `LogicalSize`, `Content` the decodable positions of the
device, a request is `call`, a response exists where `pc` is `done`. `Verify`
extends `BlockDevice`, so it is checked against every answer that the reader is
allowed to give and not against one implementation. `Acquisition` and `TableLayout`
add the other side of the format: the writer, who is not in this repository and is
known from what the decoder and the comments of `chunk_table.go` take for granted.
That is where "the acquired bytes" and "the chunks written" have a meaning, and it
keeps the modules of the code free of them. `Discover` extends
`SegmentNames`. `SegmentSet` instantiates `Geometry`. `SegmentParse` extends
`SectionChain`, whose next-state relation is one of its actions, and
`SectionPayloads`.

Conventions. Go slices count from 0 and sequences from 1: chunk `c` is
`chunkTable[c + 1]`. A step is what runs without giving another goroutine the
chance to interfere: one critical section of the cache, one decoding, one copy.
In the sequential components a step is one turn of a loop. Errors are kept as the
sentinel of `ewferr` they match, wording is left out. `SourceFault` and its like
are failures of the caller's `io.ReaderAt`, possible at every read.

## 3. The runs

| run | instance | shows |
|---|---|---|
| `lru` | four chunks, cache of two, six uses | all orders of hits, misses and puts |
| `reader_v1` | two goroutines, ten chunks in two segments, six of them damaged each in its own way; cache of two; source faults | the reader implements a block device, returns the acquired bytes and withholds none |
| `reader_v2` | EWF v2, cache disabled, a chunk and a table that end early | checksum trailers, patterns of three unit lengths, both methods; every call is answered |
| `path` | three files, two closers, two readers | opens and closes in every interleaving |
| `verify` | eight bytes, three at a time; a damaged zero span, a short tail | accounting, verdict, termination |
| `segments` | up to three of sixteen sources, every option | what opens and what is refused |
| `parse` | every file of three descriptors over links on, back, on the spot, wrapping, out and unreadable; files of up to three sections with bodies, in every order and with repetition; headers that do not pass | both walks, lists, digests, precedence, v2 geometry, and that every parse ends |
| `precedence` | header2 and xheader with two spellings of one field | **violated**, see section 6 |
| `tables` | one group near and across 2 GiB; two groups under damage; v2 | descriptors and counts |
| `tables_based` | one group with a base offset across 2 GiB | **violated**, see section 6 |
| `discover` | up to five of nine directory entries, eight names given | the scan and its verdict |
| `corpus` | two runs, two variants, five images to adopt, four manifests to start from | runs that fail or are killed anywhere, files that cannot be removed |

Why the bounds are enough:

* `reader_v1`, `reader_v2`: three different chunks are needed to evict one that
  somebody else holds, and two goroutines to store one chunk twice; a cache of two
  and ten chunks gives both. Every branch of `decodeChunk` and every early return
  of `ReadAt` is taken by one of the calls; calls start inside chunks, cross
  chunks and segments, end at the device's end and beyond. A chunk has four bytes
  and a trailer one, which keeps the inequalities between them. Pattern units of
  one, three and five bytes take the doubling copy through two whole passes, through
  one that there is only part of the room for, and through none.
* `lru`: the first five uses fill the cache, evict and re-insert; `MaxUses`
  bounds the history only. The theorem has no bound.
* `tables`: `Half` = 64 is 2^31 scaled down, `MaxInt64` 127. Layouts begin 8 or 7
  below the boundary, so the crossing falls on each of up to four chunks, on a
  chunk's last byte and between chunks. `MaxTableEntries` 5 is not reached by
  layouts and is by nothing else a writer emits. With two groups, all eight kinds of
  damage meet on the two copies of one while the other's suffer four; a damaged
  base of `2 * MaxInt64` makes the sums of an int64 wrap.
* `parse`: three offsets and `MaxSections` 5 let a walk pass every descriptor,
  close every circle and reach the bound; sizes 126 and 127 of a 128-valued word
  are -2 and -1. Two sections of a kind are the fewest that can disagree, three
  put a third kind before, between and behind them. `MaxPayload` 6, `MaxCount` 2
  and the `Sizes` keep the order of the real ones and are each just met, missed
  and passed by some body. `Word32` 16 is passed by a sector size of 20, and the 64
  bits of a text, `Word32` squared, by a count of 300, which is then no number.
* `corpus`: an earlier run leaves more, fewer or broken files, a later one meets
  them and may fail to remove any of them. Two segments are the fewest of which one
  can be stale; two runs the fewest of which one can meet what the other left,
  a torn manifest included.
* `segments`: three sources are the fewest that have an order, a duplicate, a hole
  and an end at once.
* `discover`: an alphabet of three letters and digits to 2, so that the digits can
  be used up, pairs carry into the next family letter and back. The order of the
  listing is free, as a set left to scan.
* `path`: three files put a failure first, in the middle and last.
* `verify`: the step does not divide the device, and a bad span begins inside a
  step and covers a whole one.

`CHECK_DEADLOCK FALSE` is set where the program stops: an open, a parse, a scan and
a verification end, `corpus` stops after `MaxRuns`, a closed reader stays closed, and `lru` stops at `MaxUses`.
The readers of `reader_v1` and `reader_v2` never stop and are checked for
deadlock. `lru` uses symmetry between chunks and between data and checks
invariants only. `reader_v1` uses symmetry between its two goroutines, which differ
in name only, and checks invariants and step properties; the liveness property is
that of `reader_v2`, without symmetry.

### Fairness

`EveryCallAnswered`, `EveryCloseReturns`, `Ends` and `ParseEnds` assume weak
fairness of the steps of the goroutine that runs the code (`Step(r)`,
`CloseStep(c)`, `Next`): Go's scheduler runs every runnable goroutine, and the
mutex of the cache and that of `sync.Once` are held for bounded code. Nothing is
assumed of callers: nobody has to call, cancel, or read on. A source is assumed
to answer at all, which `SourceFault` makes an error and never a hang.

## 4. The proofs

All theorems hold for every value of the constants that satisfies the assumptions
named in the modules. Those say no more than the types of the inputs, with these
exceptions: `CodecAssumption` excludes geometries with fewer bytes per chunk than
a trailer has, and says a table's sources exist; `InflateAssumption` says that
what the decompressors return is bytes or an error; `VerifyAssumption` says that
the content lies within the device; `ChainAssumption` says that a file's size and
the first offset fit an int64 and that a descriptor is no shorter than what the
v2 code counts for the file header; `BodyAssumption` says that any bytes are a
digest when taken for one; `CorpusAssumption` says that the names of the variants
are distinct, that an acquisition has between one and `MaxSegments` files, and that
a manifest that is absent, torn or of another version has no entries to read;
`FileAssumption` that a segment is not the absence of a file.

Two assumptions describe the writer and the damage, and limit what the theorems
about them say. `AcquisitionAssumption`: damage takes chunks, ends them early or
makes them inflate to too much, but does not forge bytes, which no checksum on the
read path would notice. `LayoutAssumption` (`IsFile`, `Survives`): damage does not
forge the checksums of a table; where a table has none, or it cannot be read, its
entries are spared, since `entriesValid` would let anything pass; either all groups of
a file have backups or none has; chunks stored behind the entries of their own table
are not exactly as long as a checksum, for which the code would take them; the chunks
of a file and its tables end where an int64 can; v2 tables are not damaged (one that
cannot be read disappears without a count, section 6).

| theorem | states | argument |
|---|---|---|
| `ImageReaderProofs!GeometryExact`, `DepthWithinCeiling` | sizes do not overflow where they are not refused; a depth of more than one stays under the byte ceiling | arithmetic of division |
| `ImageReaderProofs!CacheIsLRU` | `LRUSpec => []LRUInv` | `LRUInv` is inductive: list and map agree, the list is sorted by last use, and whatever is not cached was used before everything that is |
| `ImageReaderProofs!EvictionIsLRU` | `LRUSpec => []RecentlyUsedStay` | from `LRUInv` by counting the chunks used later |
| `ImageReaderProofs!ReadsAreCoherent` | `Spec => []ReaderInv` | see below |
| `ImageReaderProofs!ReadsAreDeviceReads` | `Spec => ImplementsBlockDevice` | each action maps to `Call`, `Answer`, `Return` or a stutter; the steps to `done` need `ReaderInv` to show that the answer is the longest readable run |
| `ImageReaderProofs!PatternRepeats` | `expandPattern` yields the unit in phase over the whole chunk, for every unit and chunk size | see below |
| `ImageReaderProofs!DeviceIsAcquired` | the device as decoded has the acquired bytes up to the first one that damage took of each chunk | case by case over the ways a chunk is stored, through `decodeChunk` |
| `ImageReaderProofs!ReadsReturnAcquired` | `Spec => []ReturnsAcquired` | `ReaderInv` says that buffers hold the device's bytes, `DeviceIsAcquired` which those are |
| `ImageReaderProofs!AnswersAreLegal` | `Spec => []BD!AnswersLegal` | an invariant of the block device, which the reader implements |
| `ImageReaderProofs!ReadsWithholdNothing` | `Spec => []NothingWithheld` | a legal answer without a fault is the longest readable run, and that ends only where damage begins |
| `PathReaderProofs!CloseIsClean` | `Spec => []PathInv` | which handles are open follows from phase and loop position; at most one closer is inside the `Once` |
| `VerifyProofs!ReportIsExact` | `Spec => []VerifyInv` | what was fed is the device with zeros in the reported ranges |
| `VerifyProofs!VerdictIsSound`, `VerdictIsComplete` | OK means intact; intact means OK unless a source failed | from `VerifyInv`, both ways |
| `SegmentSetProofs!OpenKeepsCount` | `Spec => []SetInv` | the loops' progress, validated prefix and merged prefix |
| `SegmentSetProofs!OnlyWholeSetsOpen`, `EncryptedNeverOpens`, `StrictOpensVerified` | what an opened set is | from `SetInv` |
| `SegmentSetProofs!ChunksFollowNumbers` | `Spec => []ChunksInOrder` | the merge lays each table behind the one before; the segments are the sources in order of their numbers |
| `SegmentSetProofs!LowestSegmentSpeaks` | `Spec => []FirstWins` | each field is that of the first segment merged that has it, and a first one in order is a lowest one |
| `SegmentSetProofs!RefusalsAreDeserved` | `Spec => []RefusalIsDeserved` | `SetInv` at the step that refuses; the error is set once |
| `SegmentParseProofs!WalkFollowsLinks` | `ChainSpec => []ChainInv` | see below |
| `SegmentParseProofs!NoCircleAccepted` | `ChainSpec => []NoneTwiceV1` | from `Circles`, at the step that accepts |
| `SegmentParseProofs!AcceptedIsWhole` | `ChainSpec => []WholeV2` | from `Walked` and `Backwards`, through the reversal |
| `SegmentParseProofs!ParseWalksOnce` | `Spec => ChainSpec` | every other action of the parse leaves the walk's variables alone |
| `SegmentParseProofs!ListsReadOnce` | `Spec => []ListsOnce` | the flags tell whether a copy was met, and the list is that of the first one met; rests on the two theorems before |
| `SegmentParseProofs!BinaryDigestsWin` | `Spec => []DigestsOfRecord` | `DigestInv`: of the bodies met, the last binary one has each digest, else the first document that spells it |
| `SegmentParseProofs!MostCapableWins` | `Spec => []HeaderPrecedence` | `HeadersInv`: the first section of each name is kept; `ValuesInv`: a field is set by the keys already applied that mean it, in whatever order the map yields them |
| `SegmentParseProofs!TextsMakeOneRecord` | `Spec => []TwoTextsOneRecord` | `TextsInv`: geometry and acquisition data are a function of which kinds of text were met |
| `DiscoverProofs!NamesRoundTrip` | `Number(f, Ext(f, k)) = k` | digits, and twice division with remainder |
| `DiscoverProofs!ScanKeepsTheSet` | `Spec => []DiscoverInv` | each entry scanned is on record or does not belong; a number's rank in a finite set is a bijection, so sorting gives each once |
| `DiscoverProofs!HolesAreNamed` | `Spec => []ExpectedAreMissing` | a number below one that has a name has a name; the round trip makes the naming one to one |
| `DiscoverProofs!OpenedIsOneToN` | `Spec => []OpenedWithoutHoles` | the k-th number has k - 1 below it, and without holes these are 1 to k - 1 |
| `DiscoverProofs!MembersFindTheSet` | `Spec => []AnyMemberFindsIt` | `MemberInv`: after the scan the numbers on record are those of all members, whoever was given; any member of the set spans the same family |
| `CorpusProofs!LossIsNoticed` | `Spec => []NoSilentLoss` | `NamesKept`, see below |
| `CorpusProofs!EntriesDescribeFiles` | `Spec => []FreshAreOnDisk` | `Adopted` and `Made`, see below |
| `TableProofs!TablesTyped` | `Spec => []TypeOK` | the wraps and remainders of an entry's size stay in range |
| `TableProofs!WrittenTablesAreRead` | `Spec => []LayoutRecovered` | from `Collects` and `Builds`, see below |
| `TableProofs!VerifiedTablesAreWritten` | `Spec => []VerifiedIsWritten` | the same |
| `TableProofs!CountsAreTrue` | `Spec => []StatsTell` | the same, with the cardinalities counted up |

`ReaderInv` is inductive only with all its parts. That a buffer holds the device's
bytes (`BufferIsDevice`) needs that the chunk held is the one the offset lies in
(`HoldsItsChunk`), which on a cache hit needs that every cached chunk is what
decoding it yields (`CacheCoherent`), which on a store needs `HoldsItsChunk` of the
goroutine that stores, whoever has moved the cache in between. `WithinWant` keeps
the chunk number in range.

`ChainInv` is made to be inductive. That an accepted v1 chain has no circle is a
statement about all of its sections, while a step sees one. `Walked` says that
every section but the last leads to the next one and that none so far ends the
chain. From it `Circles` is kept: where a walk stands is a function of where it
stood, so once two sections agree in offset the walk can only be at an offset it
has seen. The section that ends a chain is at an offset not seen before, as all
those seen do not end it; hence no two agree. For v2, `Backwards` keeps that links
lead back and that offset 0 or less is reached from the file's first section only,
which is what makes the loop's condition `offset > 0` mean "the header was reached".

The invariants of the parse say what the loop over the bodies has made of those
before `at` and nothing else; what the sections behind will do is not their concern.
`Ground` collects what all of them need: the sections are typed, and the lists read
so far are first copies. `ValuesInv` has to hold for every order of Go's map, so it
speaks of the set of keys still `unapplied`, and a field that one key alone means is
settled when that key has left the set.

`PatternRepeats` is about a loop, and there is no induction to be had. `Doubled` is
a recursive function, hence a CHOOSE of one that satisfies the loop's equation. That
there is one is shown by naming it: the function that repeats what is filled in phase
satisfies the equation, because a pass keeps the phase (`PassKeepsPhase`: it either
doubles what is filled or fills the chunk). That every solution does the same to a
seed is shown by a smallest counterexample, the one with the least room left: the
next pass would make a smaller one.

`CorpusInv`, too, is stronger than what it is for. `NamesKept`: from `Load` on, the
manifest in memory has every name that was ever in a whole manifest, which is what
`Written` puts in the place of the one that `Save` truncated. In between the entries
are gone; `NoSilentLoss` then says nothing of the fragment but that it cannot be
loaded, and that needs `Load` to refuse it, else the next run would begin with less
than what is `known`. `Adopted` excepts the one image whose files are being replaced
at the moment, and those that a variant of the same name will overwrite; `Made` says
that an entry made is of a variant that is done with, so that no later step of the run
touches its files, and that what else lies under its name is in `stuck`: until the
acquisition, a file of the variant's name is gone or resisted (`AbsentBut`).

The chunk tables rest on three facts. *One table:* `Verdict` says that what damage
left of a copy is taken for valid exactly if it is sound, and then yields the chunks
meant. For the entries of a sound one, `OverflowSeen` shows that the loop's overflow
flag is up at a chunk exactly if the chunk lies behind the boundary, and `Difference`
that sizes come out right even where one entry is flagged and the next is not. The
boundary is crossed at some chunk if it lies between two; `UpTo` finds it without an
induction, since a finite set that passed each of its elements on and missed one
would be as large as itself without its first. *Pairing:* `Collects` says that the
positions are those of all table sections in order. With at most one descriptor lost
and backups everywhere or nowhere, `NextTable`, `BothCopies` and `OneCopy` show that
the next section is the next group's first copy that is left, and that
`HasBackup` holds exactly if its own backup follows. *Counting:* `Builds` says that
the tables before `i` are those of the first `TablesTotal` groups, that the
descriptors are theirs unless a group counts as invalid, and that the counts are the
numbers of groups saved and ruined among them. TLC finds both invariants to hold on
the instance of run `tables`.

Every safety property of the passing runs is stated by a theorem. Only model-checked
are the liveness properties `EveryCallAnswered`, `EveryCloseReturns`, `Ends` and
`ParseEnds`: a prover here has no rules for fairness and ENABLED.

## 5. Not modelled

* Field-by-field decoding of binary structures, text encodings, the layouts of
  dates, error wording: formats without control flow. Which texts are numbers,
  dates or digests are tables of the instance.
* zlib and bzip2, MD5, SHA-1, `os`: external. A digest is an injective tag of what
  was hashed; decompression yields bytes or an error.
* Section counts, sessions and acquisition errors in the merge, which are added
  or concatenated.
* A caller's `io.ReaderAt` that returns all bytes together with `io.EOF`, which the
  interface allows and `ReadSlice` takes for a failure. `os.File` and
  `io.SectionReader` do not do it at the ends of sections.
* The public API (`api.go`, `ewf.go`), which delegates, and the plain types of
  `metadata`, `ewferr` and `types`.
* The raw images that `mkcorpus` writes and the parsing of the output of ewfacquire
  and ewfinfo: an acquisition is the name and size it is made of, and what the
  external tools report may be anything.
* Spellings of a segment's extension in the corpus: an image's segment is its place,
  so a stale `.E01` beside a new `.Ex01` is the same file there.
* Examples, which print what the library returns.

## 6. Where code and text disagree

Two runs show a defect each.

`tables_based`: `parseTableSectionV1` (`chunk_table.go:244`) tests for the overflow
of bit 31 with the absolute position, base offset included, but an entry's room for
the flag depends on its offset from the base (`RoomIsEnough`). In a segment file of more than 2 GiB
whose tables have a base offset, the compressed flag of the entries behind the
crossing is read as part of the offset.

`precedence`: the values of the header sections are merged by key, and
`applyHeaderValues` (`header.go:120`) applies them in the order in which Go walks the
map. When header2 says `c` and xheader says `case_number`, both set `CaseNumber` and
either may come last, though `header.go:20` says "the most capable encoding wins
rather than whichever came last". `HeaderPrecedence`, which run `parse` checks, is
what the code keeps: of the fields that the sections between them spell in one way,
each is what the most capable section that has a value for it makes of it. A password
"0" is such a value. It blanks the field even if a less capable section has a hash,
which is against `header.go:36` (see the table); the property follows the code there,
and makes no claim that blank fields are filled.

Modelling showed others. The modules keep the behaviour of the code; no
property claims what the text does.

| code | text (where there is one) |
|---|---|
| `cache.go:122` clamps the depth by the nominal chunk size, and `open.go:369` caches what a chunk decodes to, which may be more | `cache.go:15`: "maxChunkCacheBytes bounds the cache regardless of the depth requested." |
| `open.go:478` lets any hole through with `AllowIncompleteSegmentSet`; what follows decodes in the hole's place | `open.go:58`: "Such a set decodes only a prefix of the device" |
| `open.go:459` compares version, type and numbers, no set identifier | `open.go:452`: "one coherent, complete evidence set" |
| `open.go:150`: every `SegmentError` has `Segment` 0, as `parseSegment` returns a zero value with its errors | `ewferr/errors.go:66`: the number, "or 0 when the segment could not be parsed far enough to determine it" |
| `sections.go:179` accepts a v2 previous offset equal to the descriptor's own, which repeats it to the bound | `open.go:575`: "in logical order" |
| `sections.go:55` and the other errors of the walk match no sentinel | `ewferr/errors.go:29`: ErrCorruptImage is for "an unreadable section chain" |
| `chunk_table.go:196`: a table checksum that cannot be read counts as a match | `chunk_table.go:148`: "whether every stored checksum validated" |
| `chunk_table.go:91`: an unreadable v2 table leaves no gap and no count | `chunk_table.go:61`: "indexed by chunk number" |
| `segname.go:344`: beside a set that uses up the digits, `disk.log` is segment 5202 | `segname.go:342`: "a sidecar must never be counted as evidence" |
| `header.go:112`: a header2 that says "0" of the password keeps the hash that a later section has from being reported | `header.go:36`: "Lower-precedence sources still fill fields the winner left empty" |
| `header.go`: `Source` is the first section that decodes, also when all its values are empty and another's are reported | `metadata/model.go:61`: "the section the values were taken from" |
| `ewf2meta.go:81`: of two case_data sections whose second has a date that does not parse, the text is the second's and the instant the first's | |
| `payload_parsing.go:78`: the first copy of a list counts as read when it is malformed, and an intact second copy is skipped | |
| `sections.go:229` sends header, header2, xheader and xhash on to be decoded | the same comment: "None are decoded yet" |
| `mkcorpus/main.go:336`: a variant that is skipped has lost its files to the preparation of its acquisition, and its entry of an earlier run stays in the manifest | |
| `mkcorpus/main.go`: adopting over an existing name replaces its files before it is known whether the new image can be adopted; when it cannot, the old entry describes the new files | |
| `manifest.go:167` rewrites the manifest in place; a kill in between loses its entries and leaves a fragment that every later run refuses | |
| `mkcorpus/main.go:513` ignores the error of `os.Remove`; a stale segment that stays is found by the glob at 544 and recorded as one of the new acquisition. `FreshAreOnDisk` excepts such files, and only such | `mkcorpus/main.go:164`, of adoption: "an entry must describe the files it just wrote" |
| `mkcorpus/main.go:301` appends EWF2 variants | `mkcorpus/main.go:235`: "EWF2 formats [...] are deliberately absent" |

## 7. Plan

Built so far, in this order: cache, codec and reader with the abstract device;
path reader and verification; segment set; names and discovery; chunk tables;
section chain, payloads and acquisition metadata as one parse; the corpus tool.
Proofs of every safety property that the runs check.

Next: `SegmentOpen`, parse and chunk table composed into the `Source` that
`SegmentSet` takes as given, and from there to `ImageReader`, so that damage in a
descriptor is followed to the bytes a caller sees; with theorems that join
`AcceptedIsWhole`, `VerifiedTablesAreWritten`, `ChunksFollowNumbers` and
`ReadsReturnAcquired` into one about a segment file and the bytes returned.
