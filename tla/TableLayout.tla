---------------------------- MODULE TableLayout -----------------------------
(***************************************************************************)
(* Chunk tables as an EWF writer lays them out in a segment file, what     *)
(* damage may make of them, and what buildChunkTable owes to its callers   *)
(* then.  The writer is not part of the repository: its layout is what the *)
(* comments of reader/chunk_table.go say and its code reads.               *)
(*                                                                         *)
(* A file is what is found in it (sections), the descriptors of the chunks *)
(* put there (written), and the groups they were put there in: of each     *)
(* group the positions of its table and its backup (0 for none), whether   *)
(* its chunks lie in the table's own section (inline), and which of the    *)
(* chunks written are its own.                                             *)
(***************************************************************************)
EXTENDS ChunkTable, FiniteSets

CONSTANT DescriptorSize     \* sectionDescriptorV1Size

-----------------------------------------------------------------------------
(* One group. *)

\* Chunk k lies from cuts[k] to cuts[k + 1], and the entries count from base.
Layout == [cuts : Seq(Nat), base : Nat, compressed : Seq(BOOLEAN)]

Chunks(l) == 1..Len(l.compressed)
Start(l) == l.cuts[1]
End(l) == l.cuts[Len(l.compressed) + 1]

\* The chunks the writer means by a layout.
Meant(l) ==
    [k \in Chunks(l) |->
        [dataOffset |-> l.cuts[k], dataSize |-> l.cuts[k + 1] - l.cuts[k],
         compressed |-> l.compressed[k], pattern |-> FALSE, hasChecksum |-> FALSE]]

\* An entry is the offset from the base with the compressed flag in bit 31; where
\* the offset needs that bit itself there is no flag, and chunks are stored.
Entries(l) ==
    [k \in Chunks(l) |-> l.cuts[k] - l.base + IF l.compressed[k] THEN Half ELSE 0]

Writable(l) ==
    \A k \in Chunks(l) :
        /\ l.cuts[k] - l.base < Word
        /\ l.cuts[k] - l.base >= Half => ~l.compressed[k]

\* The bytes of a table before its checksum.
DataOf(l) == HeaderSize + Len(l.compressed) * EntrySize

\* Chunks follow each other, are smaller than half an entry's range, and end
\* where a file can, their tables included.  Chunks stored in the table's own
\* section have room before them, and are not taken for a checksum.
IsLayout(l, inline) ==
    /\ l \in Layout
    /\ Len(l.compressed) \in 1..MaxTableEntries
    /\ Len(l.cuts) = Len(l.compressed) + 1
    /\ \A j, k \in 1..Len(l.cuts) : j < k => l.cuts[j] < l.cuts[k]
    /\ \A k \in Chunks(l) : l.cuts[k + 1] - l.cuts[k] < Half
    /\ l.base <= Start(l)
    /\ Writable(l)
    /\ End(l) + 2 * (DescriptorSize + DataOf(l) + ChecksumSize) <= MaxInt64
    /\ inline => /\ Start(l) >= DescriptorSize + DataOf(l)
                 /\ End(l) - Start(l) # ChecksumSize

\* The section that holds a layout's table, behind the chunks, or its backup,
\* behind that.  An inline one has the chunks behind its entries and no checksum.
Copy(l, type, inline) ==
    LET primary == IF inline THEN Start(l) - DataOf(l) - DescriptorSize ELSE End(l)
        data    == DataOf(l) + IF inline THEN End(l) - Start(l) ELSE ChecksumSize
        size    == DescriptorSize + data
    IN  [v1 |-> TRUE, TypeString |-> type,
         Offset |-> IF type = "table2" THEN primary + size ELSE primary,
         Size |-> size, DataSize |-> data,
         headerReadable |-> TRUE, numberOfEntries |-> Len(l.compressed),
         baseOffset |-> l.base, headerMatches |-> TRUE, entriesReadable |-> TRUE,
         entries |-> Entries(l), stored |-> IF inline THEN "differs" ELSE "matches"]

\* The entry of a v2 table.  A pattern chunk carries the compressed flag too.
EntryV2(c) ==
    [offset |-> c.dataOffset, size |-> c.dataSize,
     flags |-> {f \in {"Compressed", "Checksum", "Pattern"} :
                    \/ f = "Compressed" /\ (c.compressed \/ c.pattern)
                    \/ f = "Checksum" /\ c.hasChecksum
                    \/ f = "Pattern" /\ c.pattern}]

\* What may become of the copy o: a descriptor that is no longer recognised, parts
\* that cannot be read, another header, other entries.  Damage does not forge
\* checksums, and where there is none, or none can be read, spares the entries.
Survives(s, o) ==
    /\ s \in SectionV1
    /\ s.TypeString \in {o.TypeString, "other"}
    /\ s.Offset = o.Offset /\ s.Size = o.Size /\ s.DataSize = o.DataSize
    /\ s.headerMatches =>
        s.numberOfEntries = o.numberOfEntries /\ s.baseOffset = o.baseOffset
    /\ s.stored # "differs" \/ o.stored = "differs" => s.entries = o.entries

-----------------------------------------------------------------------------
(* A file. *)

Copies(g) == {g.primary, g.backup} \ {0}

\* The chunks of a group among those written.
Part(f, g) == SubSeq(f.written, g.from + 1, g.upTo)

\* A v1 group and what is left of it.
IsGroupV1(f, g) ==
    /\ IsLayout(g.layout, g.inline)
    /\ g.inline => g.backup = 0
    /\ Part(f, g) = Meant(g.layout)
    /\ Survives(f.sections[g.primary], Copy(g.layout, "table", g.inline))
    /\ g.backup # 0 =>
        Survives(f.sections[g.backup], Copy(g.layout, "table2", FALSE))

\* A v2 table, which has no backup and is not damaged: see README.md.
IsGroupV2(f, g) ==
    LET s    == f.sections[g.primary]
        part == Part(f, g)
    IN  /\ g.backup = 0
        /\ s \in SectionV2
        /\ s.TypeString = "sector_table"
        /\ Usable(s)
        /\ s.numberOfEntries = Len(part)
        /\ \A k \in 1..Len(part) :
            s.entries[k] = EntryV2(part[k]) /\ ~(part[k].compressed /\ part[k].pattern)

Group ==
    [primary : Nat \ {0}, backup : Nat, inline : BOOLEAN, layout : Layout,
     from : Nat, upTo : Nat]

\* The groups follow each other, a backup behind its table, and either all have
\* one or none has.
IsFile(f) ==
    /\ f.written \in Seq(chunkDescriptor)
    /\ f.v1 \in BOOLEAN
    /\ f.groups \in Seq(Group)
    /\ Len(f.groups) > 0
    /\ f.groups[1].from = 0
    /\ f.groups[Len(f.groups)].upTo = Len(f.written)
    /\ \A k \in DOMAIN f.groups :
        LET g == f.groups[k]
        IN  /\ g.primary \in DOMAIN f.sections
            /\ g.backup \in {0} \cup (g.primary + 1)..Len(f.sections)
            /\ g.from \in 0..(g.upTo - 1) /\ g.upTo \in 1..Len(f.written)
            /\ k < Len(f.groups) => f.groups[k + 1].from = g.upTo
            /\ IF f.v1 THEN IsGroupV1(f, g) ELSE IsGroupV2(f, g)
    /\ \A j, k \in DOMAIN f.groups :
        /\ f.groups[j].backup = 0 <=> f.groups[k].backup = 0
        /\ j < k => \A p \in Copies(f.groups[j]), q \in Copies(f.groups[k]) : p < q
    /\ \A p \in DOMAIN f.sections :
        f.sections[p].TypeString # "other" =>
            \E k \in DOMAIN f.groups : p \in Copies(f.groups[k])

\* The files are what writers write and damage leaves.
ASSUME LayoutAssumption ==
    /\ DescriptorSize \in Nat \ {0}
    /\ \A f \in Files : IsFile(f)

-----------------------------------------------------------------------------
(* What a caller of buildChunkTable may rely on. *)

groups == file.groups

\* The copies whose descriptor damage has made unrecognisable.
Lost ==
    {p \in UNION {Copies(groups[k]) : k \in DOMAIN groups} :
        sections[p].TypeString = "other"}

\* At most one copy, and never a group's only one.
FewLost ==
    /\ \A p, q \in Lost : p = q
    /\ \A k \in DOMAIN groups : groups[k].backup = 0 => groups[k].primary \notin Lost

\* A section reads back as the copy o of its table; its checksum at worst cannot
\* be read.
Sound(s, o) ==
    /\ [s EXCEPT !.stored = o.stored] = o
    /\ s.stored # "differs" \/ o.stored = "differs"

SoundPrimary(g) == Sound(sections[g.primary], Copy(g.layout, "table", g.inline))
SoundBackup(g) ==
    g.backup # 0 /\ Sound(sections[g.backup], Copy(g.layout, "table2", FALSE))

\* Where the flag bit of an entry ends to be a flag can be told from where its
\* chunk lies: the entries count from the start of the file and the group starts
\* below 2^31, or it ends there.
Told == file.v1 =>
    \A k \in DOMAIN groups :
        LET l == groups[k].layout
        IN  (l.base = 0 /\ Start(l) < Half) \/ End(l) <= MaxInt32

\* The descriptors buildChunkTable returns are the chunks the writer put there:
\* offsets, sizes and kinds, the last chunk's size included, from either copy,
\* paired or alone, and on both sides of the 2 GiB boundary, as long as each
\* group has one copy that is sound; and none of these counts as invalid.
LayoutRecovered ==
    pc = "built" /\ Told /\ FewLost
    /\ (file.v1 => \A k \in DOMAIN groups : SoundPrimary(groups[k]) \/ SoundBackup(groups[k]))
        => table = file.written /\ stats.TablesInvalid = 0

\* With at most one descriptor lost, a table in which no group is reported invalid
\* is the device, chunk for chunk: nothing doubled by the backups, dropped,
\* misplaced, or taken from a damaged copy, whichever copies are damaged.
VerifiedIsWritten ==
    pc = "built" /\ Told /\ FewLost /\ stats.TablesInvalid = 0 => table = file.written

\* The counts reported say what happened to each group: one that only its backup
\* saved is recovered, one that neither copy saves is invalid, and nothing else is.
StatsTell ==
    LET saved == {k \in DOMAIN groups :
                    ~SoundPrimary(groups[k]) /\ SoundBackup(groups[k])}
        lost  == {k \in DOMAIN groups :
                    ~SoundPrimary(groups[k]) /\ ~SoundBackup(groups[k])}
    IN  pc = "built" /\ file.v1 /\ Told /\ Lost = {} =>
            stats = [TablesTotal |-> Len(groups),
                     TablesRecovered |-> Cardinality(saved),
                     TablesInvalid |-> Cardinality(lost)]

\* What chunk_table.go:151 says of an entry is enough to read it: where each offset
\* has room for the flag, the descriptors are the chunks written.
RoomIsEnough ==
    LET room(l) == End(l) - l.base <= MaxInt32
    IN  /\ pc = "built" /\ file.v1 /\ Lost = {}
        /\ \A k \in DOMAIN groups : SoundPrimary(groups[k]) /\ room(groups[k].layout)
        => table = file.written

=============================================================================
