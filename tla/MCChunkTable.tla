---------------------------- MODULE MCChunkTable ----------------------------
(***************************************************************************)
(* Small segment files: layouts near the 2 GiB boundary, and groups whose  *)
(* copies suffer each in its own way.                                      *)
(***************************************************************************)
EXTENDS TableLayout, SequencesExt

\* A layout from where its chunks start and their sizes.
LayoutOf(start, base, sizes, compressed) ==
    [cuts |-> FoldLeft(LAMBDA cuts, size : Append(cuts, Last(cuts) + size), <<start>>, sizes),
     base |-> base, compressed |-> compressed]

GroupOf(l, primary, backup, inline, from) ==
    [primary |-> primary, backup |-> backup, inline |-> inline, layout |-> l,
     from |-> from, upTo |-> from + Len(l.compressed)]

\* What may become of a copy: other entries, another base, no count, parts that
\* cannot be read, a descriptor that is no longer recognised.
Damaged(s, how) ==
    CASE how = "none"       -> s
      [] how = "entries"    -> [s EXCEPT !.entries = Reverse(@), !.stored = "differs"]
      [] how = "header"     -> [s EXCEPT !.baseOffset = 2 * MaxInt64, !.headerMatches = FALSE]
      [] how = "count"      -> [s EXCEPT !.numberOfEntries = 0, !.headerMatches = FALSE]
      [] how = "unread"     -> [s EXCEPT !.entriesReadable = FALSE]
      [] how = "unreadHead" -> [s EXCEPT !.headerReadable = FALSE]
      [] how = "unreadSum"  -> [s EXCEPT !.stored = "unreadable"]
      [] how = "lost"       -> [s EXCEPT !.TypeString = "other"]

-----------------------------------------------------------------------------
(* One group, of any sizes and kinds, before and across the 2 GiB boundary. *)

Shapes == UNION {[1..n -> {2, 5}] \X [1..n -> BOOLEAN] : n \in 1..4}
Starts == {Half - 8, Half - 7}

LayoutsFrom(base(_)) ==
    {l \in {LayoutOf(start, base(start), shape[1], shape[2]) :
             start \in Starts, shape \in Shapes} : Writable(l)}

FileOf(l, found, backup, inline) ==
    [v1 |-> TRUE, sections |-> found, written |-> Meant(l),
     groups |-> <<GroupOf(l, 1, backup, inline, 0)>>]

\* Alone, with its backup, and with a primary that the backup has to stand in for.
FilesOf(l) ==
    {FileOf(l, <<Copy(l, "table", FALSE)>>, 0, FALSE)}
    \cup {FileOf(l, <<Damaged(Copy(l, "table", FALSE), how), Copy(l, "table2", FALSE)>>,
                 2, FALSE) : how \in {"none", "entries", "lost"}}

InlineFile(l) == FileOf(l, <<Copy(l, "table", TRUE)>>, 0, TRUE)

\* Entries count from the start of the file, on both sides of the boundary, or
\* from the first chunk in a file that ends before it.
FromFileStart == LayoutsFrom(LAMBDA start : 0)
FromFirstChunk == LayoutsFrom(LAMBDA start : start)

NearFiles ==
    UNION {FilesOf(l) : l \in FromFileStart \cup {l \in FromFirstChunk : End(l) <= MaxInt32}}
    \cup {InlineFile(l) : l \in FromFileStart}

\* Entries count from the first chunk, wherever it lies: each has room for the flag.
BasedFiles ==
    UNION {FilesOf(l) : l \in {l \in FromFirstChunk : End(l) - l.base <= MaxInt32}}

-----------------------------------------------------------------------------
(* Two groups, whose four copies suffer independently. *)

First  == LayoutOf(8, 0, <<2, 5>>, <<TRUE, FALSE>>)
Second == LayoutOf(30, 0, <<5, 2>>, <<FALSE, TRUE>>)

Written == <<Copy(First, "table", FALSE), Copy(First, "table2", FALSE),
             Copy(Second, "table", FALSE), Copy(Second, "table2", FALSE)>>

\* A section of another type, between a table and its backup.
Between == [Written[1] EXCEPT !.TypeString = "other", !.numberOfEntries = 0,
                                !.entries = <<>>]

GroupFiles(first, second) ==
    {[v1 |-> TRUE,
      sections |-> <<Damaged(Written[1], h[1]), Between, Damaged(Written[2], h[2]),
                     Damaged(Written[3], h[3]), Damaged(Written[4], h[4])>>,
      written |-> Meant(First) \o Meant(Second),
      groups |-> <<GroupOf(First, 1, 3, FALSE, 0), GroupOf(Second, 4, 5, FALSE, 2)>>] :
        h \in {<<a, b, c, d>> : a, b \in first, c, d \in second}}

\* Two v2 tables, of a stored chunk and of a compressed one with a pattern one.
CodeV2(offset, flags) == [offset |-> offset, size |-> 2, flags |-> flags]
TableV2(entries) ==
    [v1 |-> FALSE, TypeString |-> "sector_table",
     DataSize |-> HeaderSize + Len(entries) * EntrySize,
     headerReadable |-> TRUE, numberOfEntries |-> Len(entries), entriesReadable |-> TRUE,
     entries |-> entries]

TablesV2 == <<TableV2(<<CodeV2(9, {"Checksum"})>>),
              TableV2(<<CodeV2(12, {"Compressed"}),
                        CodeV2(14, {"Compressed", "Pattern"})>>)>>

ChunkOf(offset, compressed, pattern, hasChecksum) ==
    [dataOffset |-> offset, dataSize |-> 2, compressed |-> compressed,
     pattern |-> pattern, hasChecksum |-> hasChecksum]

NoLayout == [cuts |-> <<>>, base |-> 0, compressed |-> <<>>]
GroupV2(primary, from, upTo) ==
    [primary |-> primary, backup |-> 0, inline |-> FALSE, layout |-> NoLayout,
     from |-> from, upTo |-> upTo]

FileV2 ==
    [v1 |-> FALSE, sections |-> TablesV2,
     written |-> <<ChunkOf(9, FALSE, FALSE, TRUE), ChunkOf(12, TRUE, FALSE, FALSE),
                   ChunkOf(14, FALSE, TRUE, FALSE)>>,
     groups |-> <<GroupV2(1, 0, 1), GroupV2(2, 1, 3)>>]

Kinds == {"none", "entries", "header", "count", "unread", "unreadHead", "unreadSum", "lost"}
Few   == {"none", "entries", "unread", "lost"}

GroupsFiles == GroupFiles(Kinds, Few) \cup GroupFiles(Few, Kinds) \cup {FileV2}

MCFiles == NearFiles \cup GroupsFiles

=============================================================================
