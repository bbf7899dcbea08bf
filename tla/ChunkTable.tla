----------------------------- MODULE ChunkTable -----------------------------
(***************************************************************************)
(* From the table sections of one segment to its chunk descriptors         *)
(* (reader/chunk_table.go).                                                *)
(*                                                                         *)
(* A section is its descriptor and what the source holds in its place:     *)
(* whether the parts of the table can be read, the values found there, and *)
(* whether the checksums stored beside them match.  Sizes and the width of *)
(* a table entry are constants; half an entry's range (2^31) is Half.      *)
(***************************************************************************)
EXTENDS Integers, Sequences

CONSTANTS
    Files,              \* segments: their sections, and what a writer put there
    Half,               \* 2^31: bit 31 of an entry is the compressed flag
    HeaderSize,         \* tableHeaderV1Size, and tableHeaderV2Size
    EntrySize,          \* tableEntryV1Size, and tableEntryV2Size
    ChecksumSize,       \* tableChecksumSize
    MaxTableEntries,    \* maxTableEntries
    MaxInt64

Word == 2 * Half
MaxInt32 == Half - 1

\* int64(x): the range of an int64, and what becomes of a value beyond it.
Int64s == (-MaxInt64 - 1)..MaxInt64
Int64(x) == ((x + MaxInt64 + 1) % (2 * (MaxInt64 + 1))) - (MaxInt64 + 1)

\* A v1 section.  entries: the values in the entry array; stored: what is found
\* where the entries' checksum belongs.
SectionV1 ==
    [v1 : {TRUE}, TypeString : {"table", "table2", "other"},
     Offset : 0..MaxInt64, Size : Nat, DataSize : Nat,
     headerReadable : BOOLEAN, numberOfEntries : Nat,
     baseOffset : 0..(2 * MaxInt64 + 1), headerMatches : BOOLEAN,
     entriesReadable : BOOLEAN, entries : Seq(0..(Word - 1)),
     stored : {"matches", "differs", "unreadable"}]

\* A v2 section, whose entries are explicit and carry no checked checksum.
SectionV2 ==
    [v1 : {FALSE}, TypeString : {"sector_table", "other"}, DataSize : Nat,
     headerReadable : BOOLEAN, numberOfEntries : Nat, entriesReadable : BOOLEAN,
     entries : Seq([offset : Int64s, size : 0..(Word - 1),
                    flags : SUBSET {"Compressed", "Checksum", "Pattern"}])]

chunkDescriptor ==
    [dataOffset : Int64s, dataSize : 0..(Word - 1), compressed : BOOLEAN,
     pattern : BOOLEAN, hasChecksum : BOOLEAN]

\* What can be read holds as many entries as are said to be there.
ASSUME TableAssumption ==
    /\ {Half, HeaderSize, EntrySize, ChecksumSize} \subseteq Nat \ {0}
    /\ {MaxTableEntries, MaxInt64} \subseteq Nat
    /\ \A f \in Files :
        /\ f.sections \in Seq(SectionV1 \cup SectionV2)
        /\ \A p \in DOMAIN f.sections :
            f.sections[p].entriesReadable =>
                f.sections[p].numberOfEntries <= Len(f.sections[p].entries)

-----------------------------------------------------------------------------

\* The header and the entries can be had, and the count is believable.
Usable(s) ==
    /\ s.DataSize >= HeaderSize
    /\ s.headerReadable
    /\ s.numberOfEntries > 0
    /\ s.numberOfEntries <= MaxTableEntries
    /\ s.numberOfEntries * EntrySize <= s.DataSize - HeaderSize
    /\ s.entriesReadable

\* The entries' checksum is looked at only where the section holds nothing else,
\* and only when it can be read.
entriesValid(s) ==
    LET exactSize == HeaderSize + s.numberOfEntries * EntrySize + ChecksumSize
    IN  s.DataSize = exactSize /\ s.stored # "unreadable" => s.stored = "matches"

\* An entry's offset from the base: without the flag bit, or, after the overflow,
\* the entry itself.
relOffset(entry, overflow) == IF overflow THEN entry ELSE entry % Half

\* Mutated form of sizeBefore: the difference of the offsets, wherever they lie.
sizeBeforeSigned(entries, k, overflow) ==
    relOffset(entries[k + 1], overflow) - relOffset(entries[k], overflow)

\* The stored size of a chunk that another one follows.
sizeBefore(entries, k, overflow) ==
    LET rel  == relOffset(entries[k], overflow)
        next == relOffset(entries[k + 1], overflow)
    IN  IF next < rel THEN (entries[k + 1] - rel) % Word ELSE next - rel

\* Where entry k points, seen from the start of the file.
absOffset(s, k, overflow) == Int64(s.baseOffset + relOffset(s.entries[k], overflow))

\* Entry k ends beyond MaxInt32.
crosses(s, k) ==
    Int64(absOffset(s, k, FALSE) + sizeBefore(s.entries, k, FALSE)) > MaxInt32

\* Mutated form of overflowed: the entry that crosses counts as crossed itself.
overflowedSelf(s, k) ==
    \E j \in 1..k : j < s.numberOfEntries /\ crosses(s, j)

\* The loop's overflow flag when it comes to entry k: an earlier one crossed.
overflowed(s, k) == \E j \in 1..(k - 1) : crosses(s, j)

\* The final chunk has no entry behind it: it ends where its table begins, or
\* where the table's primary does, or, stored behind the entries, with the
\* section.
lastChunkSizeV1(s, abs) ==
    LET start == s.Offset
        end   == IF s.Size <= MaxInt64 - s.Offset THEN s.Offset + s.Size ELSE s.Offset
        primary == IF s.Size <= start THEN start - s.Size ELSE 0
        chunkDataEnd ==
            IF s.TypeString = "table2"
            THEN IF abs >= primary /\ abs < start THEN start ELSE primary
            ELSE IF abs < start THEN start
            ELSE IF abs < end THEN end ELSE 0
        lastSize == Int64(chunkDataEnd - abs)
    IN  IF chunkDataEnd <= abs THEN 0
        ELSE IF lastSize > Word - 1 THEN Word - 1
        ELSE lastSize % Word

\* The descriptor of entry k.
chunkV1(s, k) ==
    LET ovf == overflowed(s, k)
        abs == absOffset(s, k, ovf)
    IN  [dataOffset |-> abs,
         dataSize   |-> IF k < s.numberOfEntries THEN sizeBefore(s.entries, k, ovf)
                                                 ELSE lastChunkSizeV1(s, abs),
         compressed |-> ~ovf /\ s.entries[k] >= Half,
         pattern    |-> FALSE,
         hasChecksum |-> FALSE]

parseTableSectionV1(s) ==
    IF ~Usable(s) THEN [chunks |-> <<>>, valid |-> FALSE]
    ELSE [chunks |-> [k \in 1..s.numberOfEntries |-> chunkV1(s, k)],
          valid  |-> s.headerMatches /\ entriesValid(s)]

\* A group of one table and, as a sequence, its backup if there is one.
parseTableGroupV1(primary, backup) ==
    LET first  == parseTableSectionV1(primary)
        second == IF backup = <<>> THEN [chunks |-> <<>>, valid |-> FALSE]
                                   ELSE parseTableSectionV1(backup[1])
    IN  IF first.valid /\ first.chunks # <<>>
        THEN [chunks |-> first.chunks, outcome |-> "primary"]
        ELSE IF second.valid /\ second.chunks # <<>>
        THEN [chunks |-> second.chunks, outcome |-> "backup"]
        ELSE [chunks  |-> IF first.chunks = <<>> THEN second.chunks ELSE first.chunks,
              outcome |-> "unverified"]

\* A pattern chunk carries the compressed flag too and is not compressed.
chunkV2(e) ==
    [dataOffset |-> e.offset, dataSize |-> e.size,
     compressed |-> "Pattern" \notin e.flags /\ "Compressed" \in e.flags,
     pattern |-> "Pattern" \in e.flags, hasChecksum |-> "Checksum" \in e.flags]

parseTableSectionV2(s) ==
    IF Usable(s) THEN [k \in 1..s.numberOfEntries |-> chunkV2(s.entries[k])] ELSE <<>>

-----------------------------------------------------------------------------
(* buildChunkTable *)

VARIABLES
    file,       \* the segment, of which the code sees the sections
    pc,         \* collect, build or built
    i,          \* the next of the sections, then of the tables
    tables,     \* the positions of the table sections
    table,      \* the descriptors so far
    stats       \* chunkTableStats

vars == <<file, pc, i, tables, table, stats>>

sections == file.sections
TableAt(k) == sections[tables[k]]

Init ==
    /\ file \in Files
    /\ pc = "collect"
    /\ i = 1
    /\ tables = <<>>
    /\ table = <<>>
    /\ stats = [TablesTotal |-> 0, TablesRecovered |-> 0, TablesInvalid |-> 0]

\* The table sections, whatever lies between them.
Collect ==
    /\ pc = "collect"
    /\ i <= Len(sections)
    /\ tables' = IF sections[i].TypeString = "other" THEN tables ELSE Append(tables, i)
    /\ i' = i + 1
    /\ UNCHANGED <<file, pc, table, stats>>

Collected ==
    /\ pc = "collect"
    /\ i > Len(sections)
    /\ pc' = "build"
    /\ i' = 1
    /\ UNCHANGED <<file, tables, table, stats>>

TakeV2 ==
    /\ pc = "build"
    /\ i <= Len(tables)
    /\ ~TableAt(i).v1
    /\ table' = table \o parseTableSectionV2(TableAt(i))
    /\ stats' = [stats EXCEPT !.TablesTotal = @ + 1]
    /\ i' = i + 1
    /\ UNCHANGED <<file, pc, tables>>

\* Mutated form of HasBackup: a backup is a group of its own.
HasBackupNever(k) == FALSE

\* The table section k is a primary followed by its backup.
HasBackup(k) ==
    /\ TableAt(k).TypeString = "table"
    /\ k + 1 <= Len(tables)
    /\ TableAt(k + 1).TypeString = "table2"

\* Mutated form of Count: a table saved by its backup is counted as lost.
CountLost(outcome) ==
    [stats EXCEPT !.TablesTotal = @ + 1,
                  !.TablesInvalid = IF outcome # "primary" THEN @ + 1 ELSE @]

Count(outcome) ==
    LET one(o) == IF outcome = o THEN 1 ELSE 0
    IN  [TablesTotal |-> stats.TablesTotal + 1,
         TablesRecovered |-> stats.TablesRecovered + one("backup"),
         TablesInvalid |-> stats.TablesInvalid + one("unverified")]

TakeGroup ==
    /\ pc = "build"
    /\ i <= Len(tables)
    /\ TableAt(i).v1
    /\ LET backup == IF HasBackup(i) THEN <<TableAt(i + 1)>> ELSE <<>>
           group  == parseTableGroupV1(TableAt(i), backup)
       IN  /\ table' = table \o group.chunks
           /\ stats' = Count(group.outcome)
           /\ i' = i + 1 + Len(backup)
    /\ UNCHANGED <<file, pc, tables>>

Built ==
    /\ pc = "build"
    /\ i > Len(tables)
    /\ pc' = "built"
    /\ UNCHANGED <<file, i, tables, table, stats>>

Next == Collect \/ Collected \/ TakeV2 \/ TakeGroup \/ Built

Spec == Init /\ [][Next]_vars

\* The variables have their types.  A descriptor's size in particular is an
\* unsigned word, though parseTableSectionV1 takes it from the difference of two
\* entries that need not be in order.
TypeOK ==
    /\ sections \in Seq(SectionV1 \cup SectionV2)
    /\ pc \in {"collect", "build", "built"}
    /\ i \in Nat \ {0}
    /\ tables \in Seq(DOMAIN sections)
    /\ pc # "collect" => i <= Len(tables) + 1
    /\ table \in Seq(chunkDescriptor)
    /\ stats \in [TablesTotal : Nat, TablesRecovered : Nat, TablesInvalid : Nat]

=============================================================================
