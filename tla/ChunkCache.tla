----------------------------- MODULE ChunkCache -----------------------------
(***************************************************************************)
(* The bounded LRU cache of decoded chunks (reader/cache.go).              *)
(*                                                                         *)
(* The Go type keeps a map from chunk number to list element and a doubly  *)
(* linked list of elements, front most recently used; the decoded bytes    *)
(* hang off the element.  Here `order' is the list, reduced to the chunk   *)
(* numbers of its elements, and `entries' is the map, which reaches the    *)
(* bytes.  They are two variables because the code updates them by         *)
(* separate statements, so that they agree is a fact to check, not a given.*)
(*                                                                         *)
(* get and put hold the mutex from their first read to their last write,   *)
(* so each is one action.  What happens between a get that misses and the  *)
(* put that follows it is the caller's business: see ImageReader.          *)
(***************************************************************************)
EXTENDS Geometry, Sequences

CONSTANTS
    ChunkCacheChunks,        \* Options.ChunkCacheChunks, the depth requested
    DefaultChunkCacheChunks, \* defaultChunkCacheChunks
    MaxChunkCacheBytes       \* maxChunkCacheBytes

ASSUME CacheAssumption ==
    /\ ChunkCacheChunks \in Int
    /\ DefaultChunkCacheChunks \in Nat \ {0}
    /\ MaxChunkCacheBytes \in Nat

VARIABLES
    entries,   \* chunkCache.entries: cached chunk number -> decoded bytes
    order      \* chunkCache.order: chunk numbers, most recently used first

cacheVars == <<entries, order>>

-----------------------------------------------------------------------------

\* A depth asked of the cache, resolved against the byte ceiling.
effectiveCacheChunks(requested, chunkSize) ==
    IF requested < 0 \/ chunkSize <= 0
    THEN 0
    ELSE LET depth   == IF requested = 0 THEN DefaultChunkCacheChunks
                                         ELSE requested
             whole   == MaxChunkCacheBytes \div chunkSize
             ceiling == IF whole < 1 THEN 1 ELSE whole
         IN  IF depth > ceiling THEN ceiling ELSE depth

\* chunkCache.max, as OpenSegmentsWithOptions computes it.
max == effectiveCacheChunks(ChunkCacheChunks, ChunkSize)

\* newChunkCache returns nil for a depth of zero; a nil cache is disabled.
Enabled == max > 0

\* The chunks that have an element in the list.
Listed(s) == {s[i] : i \in 1..Len(s)}

\* The place of chunk c in list s.  Chunks are listed once (see ListMatchesMap).
Place(s, c) == CHOOSE i \in 1..Len(s) : s[i] = c

\* Mutated form of MoveToFront: the element stays where it is.
MoveToFrontStays(s, c) == s

\* list.MoveToFront: c goes first, those that were ahead of it move back one.
MoveToFront(s, c) ==
    [j \in 1..Len(s) |-> IF j = 1 THEN c
                         ELSE IF j <= Place(s, c) THEN s[j - 1] ELSE s[j]]

\* list.PushFront.
PushFront(s, c) == [j \in 1..(Len(s) + 1) |-> IF j = 1 THEN c ELSE s[j - 1]]

\* The eviction loop's effect on the list: elements leave from the back until
\* max remain.
Kept(s) == IF Len(s) > max THEN SubSeq(s, 1, max) ELSE s

\* Mutated form of Evicted: the loop shortens the list and forgets the map.
EvictedNone(s) == {}

\* The chunks the loop removes, and deletes from the map.
Evicted(s) == {s[i] : i \in (max + 1)..Len(s)}

CacheInit ==
    /\ entries = [c \in {} |-> {}]
    /\ order = <<>>

\* get(c) finds c: the element moves to the front.
GetHit(c) ==
    /\ Enabled
    /\ c \in DOMAIN entries
    /\ order' = MoveToFront(order, c)
    /\ UNCHANGED entries

\* get(c) finds nothing, or the cache is disabled.
GetMiss(c) ==
    /\ ~Enabled \/ c \notin DOMAIN entries
    /\ UNCHANGED cacheVars

\* put on a disabled cache.
PutDisabled ==
    /\ ~Enabled
    /\ UNCHANGED cacheVars

\* put(c, d) of a chunk that is already cached: another goroutine decoded it
\* in the meantime.
PutReplace(c, d) ==
    /\ Enabled
    /\ c \in DOMAIN entries
    /\ entries' = [entries EXCEPT ![c] = d]
    /\ order' = MoveToFront(order, c)

\* put(c, d) of a new chunk, with the evictions that follow.
PutInsert(c, d) ==
    /\ Enabled
    /\ c \notin DOMAIN entries
    /\ LET pushed == PushFront(order, c)
       IN  /\ order' = Kept(pushed)
           /\ entries' = [k \in (DOMAIN entries \cup {c}) \ Evicted(pushed) |->
                            IF k = c THEN d ELSE entries[k]]

put(c, d) == PutDisabled \/ PutReplace(c, d) \/ PutInsert(c, d)

-----------------------------------------------------------------------------

\* Chunks are cached by number, with decoded contents in Data.
CacheTypeOK(Chunks, Data) ==
    /\ order \in Seq(Chunks)
    /\ DOMAIN entries \subseteq Chunks
    /\ \A c \in DOMAIN entries : entries[c] \in Data

\* The list and the map describe the same chunks, each chunk once.  Were they
\* to part, an evicted chunk would stay reachable through the map and the bound
\* on the list would bound nothing.
ListMatchesMap ==
    /\ Listed(order) = DOMAIN entries
    /\ \A i, j \in 1..Len(order) : order[i] = order[j] => i = j

\* The cache never holds more chunks than the depth granted to it.
DepthBounded == Len(order) <= max

=============================================================================
