------------------------- MODULE ImageReaderProofs --------------------------
(***************************************************************************)
(* The chunk cache and the reads that use it, for any image, any cache     *)
(* depth, any goroutines and any calls: facts about the geometry and the   *)
(* list operations, that the cache evicts the least recently used chunk,   *)
(* the invariant of ImageReader, that it implements BlockDevice, and that  *)
(* what it returns is what was acquired, all of it that damage has left.   *)
(***************************************************************************)
EXTENDS Acquisition, ChunkLRU, FiniteSetTheorems, WellFoundedInduction, TLAPS

-----------------------------------------------------------------------------
(* The geometry, and the depth granted to the cache. *)

\* A value that fits is not changed by the width.
LEMMA Int64Exact == ASSUME NEW x \in 0..MaxInt64 PROVE Int64(x) = x
<1>1. x + MaxInt64 + 1 \in 0..(2 * (MaxInt64 + 1) - 1)
  BY GeometryAssumption
<1>2. (x + MaxInt64 + 1) % (2 * (MaxInt64 + 1)) = x + MaxInt64 + 1
  <2>1. ASSUME NEW m \in Nat \ {0}, NEW v \in 0..(m - 1) PROVE v % m = v
    OBVIOUS
  <2> QED BY <1>1, <2>1, GeometryAssumption
<1> QED BY <1>2, GeometryAssumption DEF Int64

\* The overflow checks of computeGeometry do their work: the sizes it returns
\* are the true products, within 64 bits.
THEOREM GeometryExact ==
    /\ ChunkSize \in 0..MaxInt64
    /\ LogicalSize \in 0..MaxInt64
    /\ Media # NoMedia /\ computeGeometry(Media).err = "nil"
         => /\ ChunkSize = Media.SectorsPerChunk * Media.BytesPerSector
            /\ LogicalSize = Media.NumberOfSectors * Media.BytesPerSector
            /\ ChunkSize > 0
<1>1. ASSUME NEW a \in Nat, NEW b \in Nat \ {0}, a <= MaxInt64 \div b
      PROVE  /\ a * b \in 0..MaxInt64
             /\ a # 0 => a * b > 0
  <2>1. MaxInt64 \div b \in Nat /\ (MaxInt64 \div b) * b <= MaxInt64
    BY GeometryAssumption
  <2>2. a * b <= (MaxInt64 \div b) * b
    <3>1. ASSUME NEW x \in Nat, NEW y \in Nat, NEW k \in Nat, x <= y
          PROVE  x * k <= y * k
      BY <3>1
    <3> QED BY <1>1, <2>1, <3>1
  <2>3. a * b \in Nat
    OBVIOUS
  <2>4. a # 0 => a * b > 0
    OBVIOUS
  <2> QED BY <2>1, <2>2, <2>3, <2>4, GeometryAssumption
<1>2. CASE computeGeometry(Media).err # "nil" \/ Media = NoMedia
  BY <1>2, GeometryAssumption DEF ChunkSize, LogicalSize, computeGeometry
<1>3. CASE computeGeometry(Media).err = "nil" /\ Media # NoMedia
  <2> DEFINE bps == Media.BytesPerSector
             spc == Media.SectorsPerChunk
             sectors == Media.NumberOfSectors
  <2>1. bps \in Nat /\ spc \in Nat /\ sectors \in Nat
    BY <1>3, GeometryAssumption DEF MediaInfo
  <2>2. /\ bps # 0 /\ spc # 0
        /\ ~(spc > MaxInt64 \div bps) /\ ~(sectors > MaxInt64 \div bps)
        /\ ChunkSize = Int64(spc * bps) /\ LogicalSize = Int64(sectors * bps)
    BY <1>3 DEF computeGeometry, ChunkSize, LogicalSize
  <2> HIDE DEF bps, spc, sectors
  <2>3. MaxInt64 \div bps \in Nat
    BY <2>1, <2>2, GeometryAssumption
  <2>4. spc * bps \in 0..MaxInt64 /\ spc * bps > 0
    BY <1>1, <2>1, <2>2, <2>3
  <2>5. sectors * bps \in 0..MaxInt64
    BY <1>1, <2>1, <2>2, <2>3
  <2> QED BY Int64Exact, <2>2, <2>4, <2>5 DEF bps, spc, sectors
<1> QED BY <1>2, <1>3

\* effectiveCacheChunks returns a natural number, and the chunks it allows fit
\* the byte ceiling, except that a single chunk is always allowed.
THEOREM DepthWithinCeiling ==
    /\ max \in Nat
    /\ max > 1 => max * ChunkSize <= MaxChunkCacheBytes
<1>0. ChunkSize \in Nat
  BY GeometryExact, GeometryAssumption
<1> DEFINE whole == MaxChunkCacheBytes \div ChunkSize
<1>1. CASE ChunkSize = 0
  BY <1>0, <1>1, CacheAssumption DEF max, effectiveCacheChunks
<1>2. CASE ChunkSize > 0
  <2>1. whole \in Nat /\ whole * ChunkSize <= MaxChunkCacheBytes
    BY <1>0, <1>2, CacheAssumption
  <2>2. /\ max \in Nat
        /\ max > 1 => max <= whole
    BY <1>0, <2>1, <1>2, CacheAssumption DEF max, effectiveCacheChunks
  <2>3. max > 1 => max * ChunkSize <= whole * ChunkSize
    <3> HIDE DEF whole
    <3>1. ASSUME NEW a \in Nat, NEW b \in Nat, NEW k \in Nat, a <= b
          PROVE  a * k <= b * k
      BY <3>1
    <3> QED BY <1>0, <3>1, <2>1, <2>2, CacheAssumption
  <2> QED BY <1>0, <2>1, <2>2, <2>3, CacheAssumption
<1> QED BY <1>0, <1>1, <1>2

-----------------------------------------------------------------------------
(* What the list operations do to a list without repetitions. *)

NoRepeats(s) == \A i, j \in 1..Len(s) : s[i] = s[j] => i = j

LEMMA PlaceIsPlace ==
    ASSUME NEW S, NEW s \in Seq(S), NEW c \in Listed(s)
    PROVE  Place(s, c) \in 1..Len(s) /\ s[Place(s, c)] = c
<1>1. \E i \in 1..Len(s) : s[i] = c
  BY DEF Listed
<1> QED BY <1>1 DEF Place

\* MoveToFront, element by element.
LEMMA MoveToFrontShape ==
    ASSUME NEW S, NEW s \in Seq(S), NEW c \in Listed(s)
    PROVE  /\ MoveToFront(s, c) \in Seq(S)
           /\ Len(MoveToFront(s, c)) = Len(s)
           /\ Place(s, c) \in 1..Len(s)
           /\ s[Place(s, c)] = c
           /\ MoveToFront(s, c)[1] = c
           /\ \A j \in 1..Len(s) : j > 1 =>
                MoveToFront(s, c)[j] =
                    IF j <= Place(s, c) THEN s[j - 1] ELSE s[j]
<1> DEFINE p == Place(s, c)
<1>1. p \in 1..Len(s) /\ s[p] = c
  BY PlaceIsPlace
<1> HIDE DEF p
<1>2. \A j \in 1..Len(s) : s[j] \in S
  OBVIOUS
<1>3. c \in S
  BY <1>1, <1>2
<1>4. MoveToFront(s, c) =
        [j \in 1..Len(s) |-> IF j = 1 THEN c ELSE IF j <= p THEN s[j - 1] ELSE s[j]]
  BY DEF MoveToFront, p
<1>5. \A j \in 1..Len(s) :
         (IF j = 1 THEN c ELSE IF j <= p THEN s[j - 1] ELSE s[j]) \in S
  BY <1>1, <1>2, <1>3
<1>6. MoveToFront(s, c) \in [1..Len(s) -> S] /\ Len(s) \in Nat
  BY <1>4, <1>5
<1>7. MoveToFront(s, c) \in Seq(S) /\ Len(MoveToFront(s, c)) = Len(s)
  BY <1>6
<1> QED
  <2>1. 1 \in 1..Len(s)
    BY <1>1
  <2>2. /\ MoveToFront(s, c)[1] = c
        /\ \A j \in 1..Len(s) : j > 1 =>
             MoveToFront(s, c)[j] = IF j <= p THEN s[j - 1] ELSE s[j]
    BY <1>4, <2>1
  <2> QED BY <1>1, <1>7, <2>2 DEF p

\* Moving an element keeps the elements and introduces no repetition.
LEMMA MoveToFrontKeeps ==
    ASSUME NEW S, NEW s \in Seq(S), NEW c \in Listed(s), NoRepeats(s)
    PROVE  /\ Listed(MoveToFront(s, c)) = Listed(s)
           /\ NoRepeats(MoveToFront(s, c))
<1> DEFINE m == MoveToFront(s, c)
           p == Place(s, c)
<1>1. /\ Len(m) = Len(s) /\ p \in 1..Len(s) /\ s[p] = c /\ m[1] = c
      /\ \A j \in 1..Len(s) : j > 1 => m[j] = IF j <= p THEN s[j - 1] ELSE s[j]
      /\ Len(s) \in Nat
  BY MoveToFrontShape
<1> HIDE DEF m, p
<1>2. \A j \in 1..Len(s) : m[j] \in Listed(s)
  <2> SUFFICES ASSUME NEW j \in 1..Len(s)
               PROVE  \E k \in 1..Len(s) : m[j] = s[k]
    BY DEF Listed
  <2>1. CASE j = 1
    BY <1>1, <2>1
  <2>2. CASE j > 1 /\ j <= p
    <3>1. j - 1 \in 1..Len(s) /\ m[j] = s[j - 1]
      BY <1>1, <2>2
    <3> QED BY <3>1
  <2>3. CASE j > p
    BY <1>1, <2>3
  <2> QED BY <1>1, <2>1, <2>2, <2>3
<1>3. \A k \in 1..Len(s) : s[k] \in Listed(m)
  <2> SUFFICES ASSUME NEW k \in 1..Len(s)
               PROVE  \E j \in 1..Len(m) : s[k] = m[j]
    BY DEF Listed
  <2>1. CASE k < p
    <3>1. k + 1 \in 1..Len(m) /\ m[k + 1] = s[(k + 1) - 1]
      BY <1>1, <2>1
    <3> QED BY <3>1
  <2>2. CASE k = p
    <3>1. 1 \in 1..Len(m) /\ m[1] = s[k]
      BY <1>1, <2>2
    <3> QED BY <3>1
  <2>3. CASE k > p
    <3>1. k \in 1..Len(m) /\ m[k] = s[k]
      BY <1>1, <2>3
    <3> QED BY <3>1
  <2> QED BY <1>1, <2>1, <2>2, <2>3
<1>4. Listed(m) = Listed(s)
  BY <1>1, <1>2, <1>3 DEF Listed
<1>5. NoRepeats(m)
  <2> SUFFICES ASSUME NEW i \in 1..Len(s), NEW j \in 1..Len(s), i < j
               PROVE  m[i] # m[j]
    BY <1>1 DEF NoRepeats
  <2>1. \/ m[j] = s[j - 1] /\ j <= p
        \/ m[j] = s[j] /\ j > p
    BY <1>1
  <2>2. \/ i = 1 /\ m[i] = s[p]
        \/ i > 1 /\ i <= p /\ m[i] = s[i - 1]
        \/ i > p /\ m[i] = s[i]
    BY <1>1
  <2>3. /\ j - 1 \in 1..Len(s)
        /\ i > 1 => i - 1 \in 1..Len(s)
    BY <1>1
  <2>4. \A a, b \in 1..Len(s) : a # b => s[a] # s[b]
    BY DEF NoRepeats
  <2> QED BY <1>1, <2>1, <2>2, <2>3, <2>4
<1> QED BY <1>4, <1>5 DEF m

\* PushFront, element by element.
LEMMA PushFrontShape ==
    ASSUME NEW S, NEW s \in Seq(S), NEW c \in S
    PROVE  /\ PushFront(s, c) \in Seq(S)
           /\ Len(PushFront(s, c)) = Len(s) + 1
           /\ PushFront(s, c)[1] = c
           /\ \A j \in 1..Len(s) : PushFront(s, c)[j + 1] = s[j]
<1>1. PushFront(s, c) \in [1..(Len(s) + 1) -> S] /\ Len(s) + 1 \in Nat
  BY DEF PushFront
<1>2. PushFront(s, c) \in Seq(S) /\ Len(PushFront(s, c)) = Len(s) + 1
  BY <1>1
<1> QED BY <1>2 DEF PushFront

\* The list after PushFront and the eviction loop, when the list was within the
\* bound before: at most the last element went.
LEMMA InsertShape ==
    ASSUME NEW S, NEW s \in Seq(S), NEW c \in S, max \in Nat \ {0},
           Len(s) <= max
    PROVE  LET o == Kept(PushFront(s, c))
           IN  /\ o \in Seq(S)
               /\ Len(o) = IF Len(s) = max THEN max ELSE Len(s) + 1
               /\ o[1] = c
               /\ \A j \in 1..Len(o) : j > 1 => o[j] = s[j - 1]
               /\ Evicted(PushFront(s, c)) =
                    IF Len(s) = max THEN {s[max]} ELSE {}
<1> DEFINE q == PushFront(s, c)
<1> HIDE DEF q
<1>1. /\ q \in Seq(S) /\ Len(q) = Len(s) + 1 /\ q[1] = c /\ Len(s) \in Nat
      /\ \A j \in 1..Len(s) : q[j + 1] = s[j]
  <2>1. q \in Seq(S) /\ Len(q) = Len(s) + 1 /\ q[1] = c
    BY PushFrontShape DEF q
  <2>2. \A j \in 1..Len(s) : q[j + 1] = s[j]
    BY PushFrontShape DEF q
  <2>3. Len(s) \in Nat
    OBVIOUS
  <2> QED BY <2>1, <2>2, <2>3
<1>2. \A j \in 1..Len(q) : j > 1 => q[j] = s[j - 1]
  <2> SUFFICES ASSUME NEW j \in 1..Len(q), j > 1 PROVE q[j] = s[j - 1]
    OBVIOUS
  <2>1. j - 1 \in 1..Len(s) /\ (j - 1) + 1 = j
    BY <1>1
  <2> QED BY <1>1, <2>1
<1>3. CASE Len(s) = max
  <2>1. Kept(q) = SubSeq(q, 1, max)
    BY <1>1, <1>3 DEF Kept
  <2>2. /\ Kept(q) \in Seq(S) /\ Len(Kept(q)) = max
        /\ \A j \in 1..max : Kept(q)[j] = q[j]
    BY <1>1, <1>3, <2>1
  <2>3. (max + 1)..Len(q) = {max + 1}
    BY <1>1, <1>3
  <2>4. Evicted(q) = {q[max + 1]}
    BY <2>3 DEF Evicted
  <2>5. q[max + 1] = s[max]
    BY <1>1, <1>3
  <2> QED BY <1>1, <1>2, <1>3, <2>2, <2>4, <2>5 DEF q
<1>4. CASE Len(s) < max
  <2>1. Kept(q) = q /\ (max + 1)..Len(q) = {}
    BY <1>1, <1>4 DEF Kept
  <2>2. Evicted(q) = {}
    BY <2>1 DEF Evicted
  <2> QED BY <1>1, <1>2, <1>4, <2>1, <2>2 DEF q
<1> QED BY <1>1, <1>3, <1>4

-----------------------------------------------------------------------------
(* What get and put do to the cache as a whole. *)

\* A hit changes the order of the cached chunks and nothing else.
LEMMA HitKeepsCache ==
    ASSUME NEW Ch, NEW Da, CacheTypeOK(Ch, Da), ListMatchesMap, DepthBounded,
           NEW c, GetHit(c)
    PROVE  CacheTypeOK(Ch, Da)' /\ ListMatchesMap' /\ DepthBounded'
<1>1. order \in Seq(Ch) /\ c \in Listed(order) /\ NoRepeats(order)
  BY DEF CacheTypeOK, ListMatchesMap, NoRepeats, GetHit
<1>2. order' = MoveToFront(order, c) /\ entries' = entries
  BY DEF GetHit
<1>3. order' \in Seq(Ch) /\ Len(order') = Len(order)
  BY <1>1, <1>2, MoveToFrontShape
<1>4. Listed(order') = Listed(order) /\ NoRepeats(order')
  BY <1>1, <1>2, MoveToFrontKeeps
<1> QED BY <1>2, <1>3, <1>4
        DEF CacheTypeOK, ListMatchesMap, DepthBounded, NoRepeats

\* A put that inserts: the new chunk is in, at most the last one in the list is
\* out, and nothing else changes.
LEMMA InsertKeepsCache ==
    ASSUME NEW Ch, NEW Da, CacheTypeOK(Ch, Da), ListMatchesMap, DepthBounded,
           NEW c \in Ch, NEW d \in Da, PutInsert(c, d)
    PROVE  /\ CacheTypeOK(Ch, Da)' /\ ListMatchesMap' /\ DepthBounded'
           /\ c \in DOMAIN entries'
           /\ \A k \in DOMAIN entries' :
                 entries'[k] = IF k = c THEN d ELSE entries[k]
           /\ DOMAIN entries' = (DOMAIN entries \cup {c}) \
                 (IF Len(order) = max THEN {order[max]} ELSE {})
<1>0. /\ order \in Seq(Ch) /\ Len(order) \in Nat
      /\ DOMAIN entries \subseteq Ch
      /\ \A k \in DOMAIN entries : entries[k] \in Da
  BY DEF CacheTypeOK
<1> DEFINE gone == IF Len(order) = max THEN {order[max]} ELSE {}
<1>1. max \in Nat \ {0} /\ Len(order) <= max /\ order \in Seq(Ch)
      /\ Len(order) \in Nat
  BY <1>0, DepthWithinCeiling DEF PutInsert, Enabled, DepthBounded
<1>2. /\ order' \in Seq(Ch) /\ order'[1] = c
      /\ Len(order') = IF Len(order) = max THEN max ELSE Len(order) + 1
      /\ \A j \in 1..Len(order') : j > 1 => order'[j] = order[j - 1]
      /\ Evicted(PushFront(order, c)) = gone
  <2>1. order' = Kept(PushFront(order, c))
    BY DEF PutInsert
  <2> DEFINE o == Kept(PushFront(order, c))
  <2>2. /\ o \in Seq(Ch)
        /\ Len(o) = IF Len(order) = max THEN max ELSE Len(order) + 1
        /\ o[1] = c
        /\ \A j \in 1..Len(o) : j > 1 => o[j] = order[j - 1]
        /\ Evicted(PushFront(order, c)) =
             IF Len(order) = max THEN {order[max]} ELSE {}
    BY <1>1, InsertShape
  <2> HIDE DEF o
  <2>3. order' = o
    BY <2>1 DEF o
  <2> QED BY <2>2, <2>3
<1> HIDE DEF gone
<1>3. /\ DOMAIN entries' = (DOMAIN entries \cup {c}) \ gone
      /\ \A k \in DOMAIN entries' : entries'[k] = IF k = c THEN d ELSE entries[k]
      /\ c \notin DOMAIN entries
  BY <1>2 DEF PutInsert
<1>6. CacheTypeOK(Ch, Da)'
  BY <1>0, <1>2, <1>3 DEF CacheTypeOK
<1>7. DepthBounded'
  BY <1>1, <1>2 DEF DepthBounded
<1>8. /\ \A i \in 1..Len(order) : order[i] \in DOMAIN entries /\ order[i] # c
      /\ \A e \in DOMAIN entries : \E i \in 1..Len(order) : order[i] = e
      /\ \A i, j \in 1..Len(order) : i # j => order[i] # order[j]
  BY <1>3 DEF ListMatchesMap, Listed
<1>9. c \in DOMAIN entries' /\ gone \subseteq DOMAIN entries
  BY <1>1, <1>3, <1>8 DEF gone
<1>10. \A i, j \in 1..Len(order') : order'[i] = order'[j] => i = j
  <2> SUFFICES ASSUME NEW i \in 1..Len(order'), NEW j \in 1..Len(order'), i < j
               PROVE  order'[i] # order'[j]
    BY <1>2
  <2>1. j - 1 \in 1..Len(order) /\ order'[j] = order[j - 1]
    BY <1>1, <1>2
  <2>2. CASE i = 1
    BY <1>2, <1>8, <2>1, <2>2
  <2>3. CASE i > 1
    <3>1. i - 1 \in 1..Len(order) /\ order'[i] = order[i - 1] /\ i - 1 < j - 1
      BY <1>1, <1>2, <2>1, <2>3
    <3>2. i - 1 # j - 1
      BY <3>1
    <3> QED BY <1>8, <2>1, <3>1, <3>2
  <2> QED BY <2>2, <2>3
<1>11. Listed(order') = DOMAIN entries'
  <2>1. ASSUME NEW i \in 1..Len(order') PROVE order'[i] \in DOMAIN entries'
    <3>1. CASE i = 1
      BY <1>2, <1>9, <3>1
    <3>2. CASE i > 1
      <4>1. i - 1 \in 1..Len(order) /\ order'[i] = order[i - 1]
            /\ (Len(order) = max => i - 1 # max)
        BY <1>1, <1>2, <3>2
      <4>2. order[i - 1] \notin gone
        <5>1. Len(order) = max => max \in 1..Len(order)
          BY <1>1
        <5>2. Len(order) = max => order[i - 1] # order[max]
          BY <1>8, <4>1, <5>1
        <5> QED BY <5>2 DEF gone
      <4> QED BY <1>3, <1>8, <4>1, <4>2
    <3> QED BY <3>1, <3>2
  <2>2. ASSUME NEW e \in DOMAIN entries' PROVE \E i \in 1..Len(order') : order'[i] = e
    <3>1. CASE e = c
      <4>1. 1 \in 1..Len(order')
        BY <1>1, <1>2
      <4> QED BY <1>2, <3>1, <4>1
    <3>2. CASE e # c
      <4>1. e \in DOMAIN entries /\ e \notin gone
        BY <1>3, <3>2
      <4>2. PICK i \in 1..Len(order) : order[i] = e
        BY <1>8, <4>1
      <4>3. i + 1 \in 1..Len(order')
        BY <1>1, <1>2, <4>1, <4>2 DEF gone
      <4>4. order'[i + 1] = order[(i + 1) - 1]
        BY <1>2, <4>3
      <4> QED BY <4>2, <4>3, <4>4
    <3> QED BY <3>1, <3>2
  <2> QED BY <2>1, <2>2 DEF Listed
<1>12. ListMatchesMap'
  BY <1>10, <1>11 DEF ListMatchesMap
<1> QED BY <1>3, <1>6, <1>7, <1>9, <1>12 DEF gone

\* Any put keeps the cache in order; afterwards a chunk's data is what was put,
\* or what it was.
LEMMA PutKeepsCache ==
    ASSUME NEW Ch, NEW Da, CacheTypeOK(Ch, Da), ListMatchesMap, DepthBounded,
           NEW c \in Ch, NEW d \in Da, put(c, d)
    PROVE  /\ CacheTypeOK(Ch, Da)' /\ ListMatchesMap' /\ DepthBounded'
           /\ \A k \in DOMAIN entries' :
                 \/ k = c /\ entries'[k] = d
                 \/ k \in DOMAIN entries /\ entries'[k] = entries[k]
<1>1. CASE PutDisabled
  BY <1>1 DEF PutDisabled, cacheVars, CacheTypeOK, ListMatchesMap, DepthBounded
<1>2. CASE PutReplace(c, d)
  <2>1. order \in Seq(Ch) /\ c \in Listed(order) /\ NoRepeats(order)
    BY <1>2 DEF CacheTypeOK, ListMatchesMap, NoRepeats, PutReplace
  <2>2. order' = MoveToFront(order, c) /\ entries' = [entries EXCEPT ![c] = d]
    BY <1>2 DEF PutReplace
  <2>3. order' \in Seq(Ch) /\ Len(order') = Len(order)
    BY <2>1, <2>2, MoveToFrontShape
  <2>4. Listed(order') = Listed(order) /\ NoRepeats(order')
    BY <2>1, <2>2, MoveToFrontKeeps
  <2>5. /\ DOMAIN entries' = DOMAIN entries
        /\ \A k \in DOMAIN entries : entries'[k] = IF k = c THEN d ELSE entries[k]
    BY <2>2
  <2> QED BY <2>3, <2>4, <2>5
          DEF CacheTypeOK, ListMatchesMap, DepthBounded, NoRepeats
<1>3. CASE PutInsert(c, d)
  <2>1. CacheTypeOK(Ch, Da)' /\ ListMatchesMap' /\ DepthBounded'
    BY <1>3, InsertKeepsCache
  <2>2. \A k \in DOMAIN entries' :
           /\ entries'[k] = IF k = c THEN d ELSE entries[k]
           /\ k \in DOMAIN entries \cup {c}
    BY <1>3 DEF PutInsert
  <2> QED BY <2>1, <2>2
<1> QED BY <1>1, <1>2, <1>3 DEF put


-----------------------------------------------------------------------------
(***************************************************************************)
(* The cache, for any set of chunks, any depth and any number of calls.    *)
(***************************************************************************)

LEMMA InitLRU == LRUInit => LRUInv
<1> SUFFICES ASSUME LRUInit PROVE LRUInv
  OBVIOUS
<1>1. /\ order = <<>> /\ DOMAIN entries = {} /\ clock = 0
      /\ lastUse = [c \in Numbers |-> 0] /\ lastPut \in [Numbers -> Contents]
  BY DEF LRUInit, CacheInit
<1>2. Len(order) = 0 /\ order \in Seq(Numbers) /\ 1..Len(order) = {}
  BY <1>1
<1>3. LRUTypeOK
  BY <1>1, <1>2, UsesAssumption DEF LRUTypeOK, CacheTypeOK
<1>4. ListMatchesMap /\ DepthBounded
  BY <1>1, <1>2, DepthWithinCeiling DEF ListMatchesMap, Listed, DepthBounded
<1>5. SortedByUse /\ CachedUsedLater /\ GoneOnlyWhenFull /\ HitsReturnLastPut
  BY <1>1, <1>2
     DEF SortedByUse, CachedUsedLater, GoneOnlyWhenFull, HitsReturnLastPut
<1> QED BY <1>3, <1>4, <1>5 DEF LRUInv

\* A use of a cached chunk that keeps the set of cached chunks: a hit, or a put
\* that replaces.
LEMMA TouchLRU ==
    ASSUME LRUInv, NEW c \in Numbers, c \in DOMAIN entries,
           Use(c), order' = MoveToFront(order, c),
           DOMAIN entries' = DOMAIN entries,
           lastPut' \in [Numbers -> Contents],
           \A k \in DOMAIN entries : entries'[k] \in Contents /\ entries'[k] = lastPut'[k]
    PROVE  LRUInv'
<1>0. /\ order \in Seq(Numbers) /\ Len(order) \in Nat
      /\ DOMAIN entries \subseteq Numbers
      /\ clock \in 0..MaxUses /\ lastUse \in [Numbers -> 0..clock]
      /\ ListMatchesMap /\ DepthBounded /\ SortedByUse /\ CachedUsedLater
      /\ GoneOnlyWhenFull
  BY DEF LRUInv, LRUTypeOK, CacheTypeOK
<1>1. order \in Seq(Numbers) /\ c \in Listed(order) /\ NoRepeats(order)
  BY <1>0 DEF ListMatchesMap, NoRepeats
<1>2. /\ order' \in Seq(Numbers) /\ Len(order') = Len(order) /\ order'[1] = c
      /\ Place(order, c) \in 1..Len(order) /\ order[Place(order, c)] = c
      /\ \A j \in 1..Len(order) : j > 1 =>
           order'[j] = IF j <= Place(order, c) THEN order[j - 1] ELSE order[j]
      /\ Len(order) \in Nat
  BY <1>1, MoveToFrontShape
<1>3. Listed(order') = Listed(order) /\ NoRepeats(order')
  BY <1>1, MoveToFrontKeeps
<1>4. /\ clock \in Nat /\ clock' = clock + 1 /\ clock' \in 0..MaxUses
      /\ lastUse' \in [Numbers -> 0..clock']
      /\ lastUse'[c] = clock + 1
      /\ \A d \in Numbers : d # c => lastUse'[d] = lastUse[d]
      /\ \A d \in Numbers : lastUse[d] \in 0..clock
  BY <1>0, UsesAssumption DEF Use
<1>5. LRUTypeOK'
  BY <1>0, <1>2, <1>4 DEF LRUTypeOK, CacheTypeOK
<1>6. ListMatchesMap' /\ DepthBounded'
  BY <1>0, <1>2, <1>3 DEF ListMatchesMap, DepthBounded, NoRepeats
<1>7. SortedByUse'
  <2> SUFFICES ASSUME NEW i \in 1..Len(order), NEW j \in 1..Len(order), i < j
               PROVE  lastUse'[order'[i]] > lastUse'[order'[j]]
    BY <1>2 DEF SortedByUse
  <2>1. order'[j] \in Numbers /\ order'[j] # c /\ order'[i] \in Numbers
    BY <1>2, <1>3 DEF NoRepeats
  <2>2. CASE i = 1
    <3>1. lastUse'[order'[j]] \in 0..clock /\ lastUse'[order'[i]] = clock + 1
      BY <1>2, <1>4, <2>1, <2>2
    <3> QED BY <1>4, <3>1
  <2>3. CASE i > 1
    <3> DEFINE back(k) == IF k <= Place(order, c) THEN k - 1 ELSE k
    <3>1. /\ back(i) \in 1..Len(order) /\ order'[i] = order[back(i)]
          /\ back(j) \in 1..Len(order) /\ order'[j] = order[back(j)]
      BY <1>2, <2>3
    <3>4. back(i) < back(j)
      <4>1. back(i) <= back(j) /\ (back(i) = back(j) => i = Place(order, c) + 1 \/ j = Place(order, c) + 1)
        BY <1>2, <2>3
      <4> QED BY <1>2, <2>3, <4>1
    <3> HIDE DEF back
    <3>2. lastUse[order[back(i)]] > lastUse[order[back(j)]]
      BY <1>0, <3>1, <3>4 DEF SortedByUse
    <3>3. order'[i] # c
      BY <1>2, <1>3, <2>3 DEF NoRepeats
    <3> QED BY <1>4, <2>1, <3>1, <3>2, <3>3
  <2> QED BY <2>2, <2>3
<1>8. CachedUsedLater'
  <2> SUFFICES ASSUME NEW a \in DOMAIN entries, NEW b \in Numbers \ DOMAIN entries
               PROVE  lastUse'[a] > lastUse'[b]
    BY DEF CachedUsedLater
  <2>1. lastUse[a] > lastUse[b] /\ a \in Numbers /\ b # c
    BY <1>0 DEF CachedUsedLater
  <2>2. lastUse'[b] = lastUse[b] /\ lastUse[b] \in 0..clock
    BY <1>4, <2>1
  <2>3. lastUse'[a] = lastUse[a] \/ lastUse'[a] = clock + 1
    BY <1>4, <2>1
  <2> QED BY <1>4, <2>1, <2>2, <2>3
<1>9. GoneOnlyWhenFull'
  BY <1>0, <1>2, <1>4 DEF GoneOnlyWhenFull
<1>10. HitsReturnLastPut'
  BY DEF HitsReturnLastPut
<1> QED BY <1>5, <1>6, <1>7, <1>8, <1>9, <1>10 DEF LRUInv

\* A put of a chunk that was not cached.
LEMMA InsertLRU ==
    ASSUME LRUInv, NEW c \in Numbers, NEW d \in Contents, PutInsert(c, d), Use(c),
           lastPut' = [lastPut EXCEPT ![c] = d]
    PROVE  LRUInv'
<1>0. /\ order \in Seq(Numbers) /\ Len(order) \in Nat
      /\ DOMAIN entries \subseteq Numbers /\ CacheTypeOK(Numbers, Contents)
      /\ \A k \in DOMAIN entries : entries[k] \in Contents
      /\ clock \in 0..MaxUses /\ lastUse \in [Numbers -> 0..clock]
      /\ lastPut \in [Numbers -> Contents]
      /\ ListMatchesMap /\ DepthBounded /\ SortedByUse /\ CachedUsedLater
      /\ GoneOnlyWhenFull /\ HitsReturnLastPut
  BY DEF LRUInv, LRUTypeOK, CacheTypeOK
<1> DEFINE gone == IF Len(order) = max THEN {order[max]} ELSE {}
<1>1. max \in Nat \ {0} /\ Len(order) <= max /\ order \in Seq(Numbers)
      /\ Len(order) \in Nat
  BY <1>0, DepthWithinCeiling DEF PutInsert, Enabled, DepthBounded
<1>2. /\ order' \in Seq(Numbers) /\ order'[1] = c
      /\ Len(order') = IF Len(order) = max THEN max ELSE Len(order) + 1
      /\ \A j \in 1..Len(order') : j > 1 => order'[j] = order[j - 1]
      /\ Evicted(PushFront(order, c)) = gone
  <2>1. order' = Kept(PushFront(order, c))
    BY DEF PutInsert
  <2> DEFINE o == Kept(PushFront(order, c))
  <2>2. /\ o \in Seq(Numbers)
        /\ Len(o) = IF Len(order) = max THEN max ELSE Len(order) + 1
        /\ o[1] = c
        /\ \A j \in 1..Len(o) : j > 1 => o[j] = order[j - 1]
        /\ Evicted(PushFront(order, c)) =
             IF Len(order) = max THEN {order[max]} ELSE {}
    BY <1>1, InsertShape
  <2> HIDE DEF o
  <2>3. order' = o
    BY <2>1 DEF o
  <2> QED BY <2>2, <2>3
<1> HIDE DEF gone
<1>3. /\ DOMAIN entries' = (DOMAIN entries \cup {c}) \ gone
      /\ \A k \in DOMAIN entries' : entries'[k] = IF k = c THEN d ELSE entries[k]
      /\ c \notin DOMAIN entries
  BY <1>2 DEF PutInsert
<1>4. /\ clock \in Nat /\ clock' = clock + 1 /\ clock' \in 0..MaxUses
      /\ lastUse' \in [Numbers -> 0..clock']
      /\ lastUse'[c] = clock + 1
      /\ \A e \in Numbers : e # c => lastUse'[e] = lastUse[e]
      /\ \A e \in Numbers : lastUse[e] \in 0..clock
  BY <1>0, UsesAssumption DEF Use
<1>5. /\ lastPut' \in [Numbers -> Contents] /\ lastPut'[c] = d
      /\ \A e \in Numbers : e # c => lastPut'[e] = lastPut[e]
  BY <1>0
<1>6. LRUTypeOK'
  BY <1>0, <1>2, <1>3, <1>4, <1>5 DEF LRUTypeOK, CacheTypeOK
<1>8. /\ \A i \in 1..Len(order) : order[i] \in DOMAIN entries /\ order[i] # c
      /\ \A e \in DOMAIN entries : \E i \in 1..Len(order) : order[i] = e
  BY <1>0, <1>3 DEF ListMatchesMap, Listed
<1>9. c \in DOMAIN entries' /\ ListMatchesMap' /\ DepthBounded'
  BY <1>0, InsertKeepsCache
<1>13. SortedByUse'
  <2> SUFFICES ASSUME NEW i \in 1..Len(order'), NEW j \in 1..Len(order'), i < j
               PROVE  lastUse'[order'[i]] > lastUse'[order'[j]]
    BY DEF SortedByUse
  <2>1. j - 1 \in 1..Len(order) /\ order'[j] = order[j - 1]
    BY <1>1, <1>2
  <2>2. CASE i = 1
    <3>1. lastUse'[order'[j]] \in 0..clock
      BY <1>0, <1>4, <1>8, <2>1
    <3> QED BY <1>2, <1>4, <2>2, <3>1
  <2>3. CASE i > 1
    <3>1. i - 1 \in 1..Len(order) /\ order'[i] = order[i - 1] /\ i - 1 < j - 1
      BY <1>1, <1>2, <2>1, <2>3
    <3>2. lastUse[order[i - 1]] > lastUse[order[j - 1]]
      BY <1>0, <2>1, <3>1 DEF SortedByUse
    <3> QED BY <1>0, <1>4, <1>8, <2>1, <3>1, <3>2
  <2> QED BY <2>2, <2>3
<1>14. CachedUsedLater'
  <2> SUFFICES ASSUME NEW a \in DOMAIN entries', NEW b \in Numbers \ DOMAIN entries'
               PROVE  lastUse'[a] > lastUse'[b]
    BY DEF CachedUsedLater
  <2>1. b # c /\ lastUse'[b] = lastUse[b] /\ lastUse[b] \in 0..clock
    BY <1>4, <1>9
  <2>2. CASE a = c
    BY <1>4, <2>1, <2>2
  <2>3. CASE a # c
    <3>1. a \in DOMAIN entries /\ a \notin gone /\ lastUse'[a] = lastUse[a]
      BY <1>0, <1>3, <1>4, <2>3
    <3>2. CASE b \notin DOMAIN entries
      BY <1>0, <2>1, <3>1, <3>2 DEF CachedUsedLater
    <3>3. CASE b \in DOMAIN entries
      <4>1. Len(order) = max /\ b = order[max]
        BY <1>3, <2>1, <3>3 DEF gone
      <4>2. PICK i \in 1..Len(order) : order[i] = a
        BY <1>8, <3>1
      <4>3. i < max /\ max \in 1..Len(order)
        BY <1>1, <3>1, <4>1, <4>2 DEF gone
      <4> QED BY <1>0, <2>1, <3>1, <4>1, <4>2, <4>3 DEF SortedByUse
    <3> QED BY <3>2, <3>3
  <2> QED BY <2>2, <2>3
<1>15. GoneOnlyWhenFull'
  <2> SUFFICES ASSUME NEW b \in Numbers \ DOMAIN entries', lastUse'[b] > 0
               PROVE  Len(order') = max
    BY DEF GoneOnlyWhenFull
  <2>1. b # c /\ lastUse[b] > 0
    BY <1>4, <1>9
  <2>2. CASE b \in DOMAIN entries
    BY <1>2, <1>3, <2>1, <2>2 DEF gone
  <2>3. CASE b \notin DOMAIN entries
    BY <1>0, <1>2, <2>1, <2>3 DEF GoneOnlyWhenFull, PutInsert
  <2> QED BY <2>2, <2>3
<1>16. HitsReturnLastPut'
  BY <1>0, <1>3, <1>5 DEF HitsReturnLastPut
<1> QED BY <1>6, <1>9, <1>13, <1>14, <1>15, <1>16 DEF LRUInv

\* Every call preserves the invariant.
LEMMA NextLRU == LRUInv /\ [LRUNext]_lruVars => LRUInv'
<1> SUFFICES ASSUME LRUInv, [LRUNext]_lruVars PROVE LRUInv'
  OBVIOUS
<1> USE DEF LRUInv
<1>1. CASE UNCHANGED lruVars
  BY <1>1 DEF lruVars, LRUTypeOK, CacheTypeOK, ListMatchesMap, DepthBounded,
     SortedByUse, CachedUsedLater, GoneOnlyWhenFull, HitsReturnLastPut
<1>2. ASSUME NEW c \in Numbers, Hit(c) PROVE LRUInv'
  <2>1. c \in DOMAIN entries /\ Use(c) /\ order' = MoveToFront(order, c)
        /\ entries' = entries /\ lastPut' = lastPut
    BY <1>2 DEF Hit, GetHit
  <2>2. \A k \in DOMAIN entries : entries[k] \in Contents /\ entries[k] = lastPut[k]
    BY DEF LRUTypeOK, CacheTypeOK, HitsReturnLastPut
  <2>3. lastPut' \in [Numbers -> Contents]
    BY <2>1 DEF LRUTypeOK
  <2> HIDE DEF LRUInv
  <2> QED BY <2>1, <2>2, <2>3, TouchLRU
<1>3. ASSUME NEW c \in Numbers, Miss(c) PROVE LRUInv'
  BY <1>3 DEF Miss, GetMiss, cacheVars, history, LRUTypeOK, CacheTypeOK,
     ListMatchesMap, DepthBounded, SortedByUse, CachedUsedLater,
     GoneOnlyWhenFull, HitsReturnLastPut
<1>4. ASSUME NEW c \in Numbers, NEW d \in Contents, Put(c, d) PROVE LRUInv'
  <2>1. Use(c) /\ lastPut' = [lastPut EXCEPT ![c] = d]
    BY <1>4 DEF Put
  <2>2. /\ lastPut' \in [Numbers -> Contents] /\ lastPut'[c] = d
        /\ \A e \in Numbers : e # c => lastPut'[e] = lastPut[e]
    BY <2>1 DEF LRUTypeOK
  <2>3. CASE PutDisabled
    <3>1. max = 0 /\ UNCHANGED cacheVars
      BY <2>3, DepthWithinCeiling DEF PutDisabled, Enabled
    <3>2. order = <<>> /\ 1..Len(order) = {}
      BY <3>1 DEF DepthBounded, LRUTypeOK, CacheTypeOK
    <3>3. DOMAIN entries = {}
      BY <3>2 DEF ListMatchesMap, Listed
    <3>4. /\ clock' \in 0..MaxUses /\ lastUse' \in [Numbers -> 0..clock']
      BY <2>1, UsesAssumption DEF Use, LRUTypeOK
    <3> QED BY <2>2, <2>3, <3>1, <3>2, <3>3, <3>4
            DEF cacheVars, PutDisabled, LRUTypeOK, CacheTypeOK, ListMatchesMap,
                DepthBounded, SortedByUse, CachedUsedLater, GoneOnlyWhenFull,
                HitsReturnLastPut
  <2>4. CASE PutReplace(c, d)
    <3>1. /\ c \in DOMAIN entries /\ order' = MoveToFront(order, c)
          /\ entries' = [entries EXCEPT ![c] = d]
      BY <2>4 DEF PutReplace
    <3>2. \A k \in DOMAIN entries :
             k \in Numbers /\ entries[k] \in Contents /\ entries[k] = lastPut[k]
      BY DEF LRUTypeOK, CacheTypeOK, HitsReturnLastPut
    <3>3. DOMAIN entries' = DOMAIN entries
      BY <3>1
    <3>4. \A k \in DOMAIN entries :
             entries'[k] \in Contents /\ entries'[k] = lastPut'[k]
      BY <2>2, <3>1, <3>2
    <3> HIDE DEF LRUInv
    <3> QED BY <2>1, <2>2, <3>1, <3>3, <3>4, TouchLRU
  <2>5. CASE PutInsert(c, d)
    <3> HIDE DEF LRUInv
    <3> QED BY <2>1, <2>5, InsertLRU
  <2> QED BY <1>4, <2>3, <2>4, <2>5 DEF Put, put
<1> QED BY <1>1, <1>2, <1>3, <1>4 DEF LRUNext

\* For any set of chunks and any sequence of calls: list and map agree, the
\* depth is never exceeded, the list is in order of last use, what is cached was
\* used later than what is not, and a hit returns the last data put.
THEOREM CacheIsLRU == LRUSpec => []LRUInv
<1> QED BY InitLRU, NextLRU, PTL DEF LRUSpec

\* The invariant implies the outside view of eviction: if a chunk that was used
\* is gone, the max chunks in the list were all used since.
LEMMA FullCacheIsRecent == LRUInv => RecentlyUsedStay
<1> SUFFICES ASSUME LRUInv, NEW d \in Numbers, Enabled, lastUse[d] > 0,
                    d \notin DOMAIN entries
             PROVE  ~(Cardinality({c \in Numbers : lastUse[c] > lastUse[d]}) < max)
  BY DEF RecentlyUsedStay
<1> DEFINE W == {c \in Numbers : lastUse[c] > lastUse[d]}
<1>1. /\ order \in Seq(Numbers) /\ ListMatchesMap /\ CachedUsedLater
      /\ Len(order) = max /\ max \in Nat
  BY DepthWithinCeiling DEF LRUInv, LRUTypeOK, CacheTypeOK, GoneOnlyWhenFull
<1>2. \A i \in 1..max : order[i] \in W
  <2> TAKE i \in 1..max
  <2>1. order[i] \in DOMAIN entries /\ order[i] \in Numbers
    BY <1>1 DEF ListMatchesMap, Listed
  <2> QED BY <1>1, <2>1 DEF CachedUsedLater
<1>3. order \in [1..max -> W]
  BY <1>1, <1>2
<1>4. \A i, j \in 1..max : order[i] = order[j] => i = j
  BY <1>1 DEF ListMatchesMap
<1>5. IsFiniteSet(W)
  BY UsesAssumption, FS_Subset
<1>6. IsFiniteSet(1..max) /\ Cardinality(1..max) = max
  BY <1>1, FS_Interval
<1> HIDE DEF W
<1>7. ~(Cardinality(W) < Cardinality(1..max))
  <2> SUFFICES ASSUME Cardinality(W) < Cardinality(1..max) PROVE FALSE
    OBVIOUS
  <2>1. \E i, j \in 1..max : i # j /\ order[i] = order[j]
    BY <1>3, <1>5, <1>6, FS_PigeonHole
  <2> QED BY <1>4, <2>1
<1> QED BY <1>6, <1>7 DEF W

\* A chunk leaves the cache only after max other chunks have been used since it
\* last was.
THEOREM EvictionIsLRU == LRUSpec => []RecentlyUsedStay
<1> QED BY CacheIsLRU, FullCacheIsRecent, PTL

-----------------------------------------------------------------------------
(* Byte strings. *)

\* A sub-range of a byte string, element by element.
LEMMA SubRange ==
    ASSUME NEW s \in Seq(Byte), NEW a \in Nat, NEW n \in Nat, a + n <= Len(s)
    PROVE  /\ SubSeq(s, a + 1, a + n) \in Seq(Byte)
           /\ Len(SubSeq(s, a + 1, a + n)) = n
           /\ \A i \in 1..n : SubSeq(s, a + 1, a + n)[i] = s[a + i]
<1>1. Len(s) \in Nat
  OBVIOUS
<1>2. SubSeq(s, a + 1, a + n) = [i \in 1..((a + n) - (a + 1) + 1) |-> s[(a + 1) + i - 1]]
  BY <1>1
<1>3. (a + n) - (a + 1) + 1 = n
  OBVIOUS
<1>4. \A i \in 1..n : (a + 1) + i - 1 = a + i /\ a + i \in 1..Len(s)
  BY <1>1
<1>5. SubSeq(s, a + 1, a + n) = [i \in 1..n |-> s[a + i]]
  BY <1>2, <1>3, <1>4
<1>6. \A i \in 1..n : s[a + i] \in Byte
  BY <1>4
<1> QED BY <1>5, <1>6

-----------------------------------------------------------------------------
(* The loop that repeats a pattern unit. *)

\* Division is determined by what it must satisfy.
LEMMA DivisionUnique ==
    ASSUME NEW m \in Nat \ {0}, NEW p \in Nat, NEW q \in Nat, NEW t \in Nat,
           t < m, p = m * q + t
    PROVE  p \div m = q /\ p % m = t
OBVIOUS

\* What the copies are to make of the bytes filled so far.
Repeated(out) == [i \in 1..ChunkSize |-> out[((i - 1) % Len(out)) + 1]]

\* A set of naturals has a least element.
LEMMA Least ==
    ASSUME NEW S, S \subseteq Nat, S # {}
    PROVE  \E m \in S : \A k \in S : ~(k < m)
<1>1. PICK m \in S : \A k \in S : ~(<<k, m>> \in OpToRel(<, Nat))
  BY WFMin, NatLessThanWellFounded
<1>2. \A k \in S : k < m => <<k, m>> \in OpToRel(<, Nat)
  BY DEF OpToRel
<1> QED BY <1>1, <1>2

\* Remainders by a number and by its double.
LEMMA HalfRemainder ==
    ASSUME NEW n \in Nat \ {0}, NEW x \in Nat
    PROVE  LET y == x % (n + n)
           IN  IF y < n THEN x % n = y ELSE x % n = y - n
<1> DEFINE y == x % (n + n)
           q == x \div (n + n)
<1>1. n + n \in Nat \ {0}
  OBVIOUS
<1>2. ASSUME NEW m \in Nat \ {0}
      PROVE  /\ x % m \in Nat /\ x % m < m /\ x \div m \in Nat
             /\ x = m * (x \div m) + (x % m)
  OBVIOUS
<1>3. y \in Nat /\ y < n + n /\ q \in Nat /\ x = (n + n) * q + y
  BY <1>1, <1>2
<1> HIDE DEF y, q
<1>4. (n + n) * q = n * (q + q) /\ q + q \in Nat /\ q + q + 1 \in Nat
  BY <1>3
<1>5. n * (q + q + 1) = n * (q + q) + n /\ n * (q + q) \in Nat
  BY <1>3, <1>4
<1>6. CASE y < n
  <2>1. x = n * (q + q) + y
    BY <1>3, <1>4
  <2>2. x % n = y
    BY <1>3, <1>4, <1>6, <2>1, DivisionUnique
  <2> QED BY <1>6, <2>2 DEF y
<1>7. CASE ~(y < n)
  <2>1. y - n \in Nat /\ y - n < n
    BY <1>3, <1>7
  <2>2. x = n * (q + q + 1) + (y - n)
    <3>1. ASSUME NEW w \in Int, x = w + y PROVE x = (w + n) + (y - n)
      BY <1>3, <3>1
    <3> QED BY <1>3, <1>4, <1>5, <3>1
  <2>3. x % n = y - n
    BY <1>4, <2>1, <2>2, DivisionUnique
  <2> QED BY <1>7, <2>3 DEF y
<1> QED BY <1>6, <1>7

\* out with a copy of its beginning behind it, element by element.
LEMMA AgainElements ==
    ASSUME NEW out \in Seq(Byte), NEW n \in Nat, n <= Len(out)
    PROVE  /\ Again(out, n) \in Seq(Byte)
           /\ Len(Again(out, n)) = Len(out) + n
           /\ \A k \in 1..Len(out) : Again(out, n)[k] = out[k]
           /\ \A k \in 1..n : Again(out, n)[Len(out) + k] = out[k]
<1> DEFINE piece == SubSeq(out, 0 + 1, 0 + n)
<1>1. /\ piece \in Seq(Byte) /\ Len(piece) = n
      /\ \A i \in 1..n : piece[i] = out[0 + i]
  BY SubRange
<1>2. Again(out, n) = out \o piece /\ \A i \in 1..n : 0 + i = i
  BY DEF Again
<1> HIDE DEF piece
<1>3. Len(out) \in Nat
  OBVIOUS
<1>4. out \o piece \in Seq(Byte) /\ Len(out \o piece) = Len(out) + n
  BY <1>1
<1>5. \A k \in 1..Len(out) : (out \o piece)[k] = out[k]
  BY <1>1, <1>3
<1>6. ASSUME NEW k \in 1..n PROVE (out \o piece)[Len(out) + k] = out[k]
  <2>1. piece[k] = out[k]
    BY <1>1, <1>2
  <2>2. (out \o piece)[Len(out) + k] = piece[k]
    BY <1>1, <1>3
  <2> QED BY <2>1, <2>2
<1> QED BY <1>2, <1>4, <1>5, <1>6

\* A pass of the loop keeps what a chunk of repetitions is.
LEMMA PassKeepsPhase ==
    ASSUME NEW out \in Seq(Byte), ChunkSize \in Nat,
           0 < Len(out), Len(out) < ChunkSize
    PROVE  LET next == Again(out, Smaller(Len(out), ChunkSize - Len(out)))
           IN  /\ next \in Seq(Byte)
               /\ Len(out) < Len(next) /\ Len(next) <= ChunkSize
               /\ Repeated(next) = Repeated(out)
<1> DEFINE len == Len(out)
           n == Smaller(len, ChunkSize - len)
           next == Again(out, n)
<1>1. len \in Nat \ {0} /\ len < ChunkSize
  OBVIOUS
<1>2. /\ n \in Nat \ {0} /\ n <= len /\ len + n <= ChunkSize
      /\ n = len \/ len + n = ChunkSize
  BY <1>1 DEF Smaller
<1>3. /\ next \in Seq(Byte) /\ Len(next) = len + n
      /\ \A k \in 1..len : next[k] = out[k]
      /\ \A k \in 1..n : next[len + k] = out[k]
  BY <1>2, AgainElements
<1> HIDE DEF len, n, next
<1>4. ASSUME NEW i \in 1..ChunkSize
      PROVE  next[((i - 1) % (len + n)) + 1] = out[((i - 1) % len) + 1]
  <2> DEFINE x == i - 1
             y == x % (len + n)
  <2>1. x \in Nat /\ x < ChunkSize
    OBVIOUS
  <2> HIDE DEF x
  <2>2. IF y < len THEN x % len = y ELSE x % len = y - len
    <3>1. CASE n = len
      BY <1>1, <2>1, <3>1, HalfRemainder
    <3>2. CASE len + n = ChunkSize
      <4>1. ASSUME NEW m \in Nat \ {0}, NEW v \in Nat, v < m PROVE v % m = v
        BY <4>1
      <4>2. y = x
        BY <1>1, <2>1, <3>2, <4>1
      <4>3. x < len => x % len = x
        BY <1>1, <2>1, <4>1
      <4>4. ~(x < len) => x % len = x - len
        <5>1. ASSUME ~(x < len) PROVE x - len \in Nat /\ x - len < len /\ x = len * 1 + (x - len)
          BY <1>1, <1>2, <2>1, <3>2, <5>1
        <5> QED BY <1>1, <2>1, <5>1, DivisionUnique
      <4> QED BY <4>2, <4>3, <4>4
    <3> QED BY <1>2, <3>1, <3>2
  <2>3. y \in Nat /\ y < len + n
    <3>1. \A a \in Nat, m \in Nat \ {0} : a % m \in Nat /\ a % m < m
      OBVIOUS
    <3> QED BY <1>1, <1>2, <2>1, <3>1
  <2> HIDE DEF y
  <2>4. CASE y < len
    <3>1. y + 1 \in 1..len
      BY <1>1, <2>3, <2>4
    <3> QED BY <1>3, <2>2, <2>4, <3>1 DEF x, y
  <2>5. CASE ~(y < len)
    <3>1. (y - len) + 1 \in 1..n /\ y + 1 = len + ((y - len) + 1)
      BY <1>1, <1>2, <2>3, <2>5
    <3>2. next[y + 1] = out[(y - len) + 1]
      BY <1>3, <3>1
    <3> QED BY <2>2, <2>5, <3>2 DEF x, y
  <2> QED BY <2>4, <2>5
<1>5. Repeated(next) = Repeated(out)
  BY <1>3, <1>4 DEF Repeated, len
<1> QED BY <1>1, <1>2, <1>3, <1>5 DEF len, n, next

\* A full chunk is its own repetition.
LEMMA FullRepeated ==
    ASSUME NEW out \in Seq(Byte), ChunkSize \in Nat, Len(out) = ChunkSize
    PROVE  Repeated(out) = out
<1>1. ASSUME NEW i \in 1..ChunkSize PROVE ((i - 1) % ChunkSize) + 1 = i
  <2>1. ASSUME NEW m \in Nat \ {0}, NEW v \in Nat, v < m PROVE v % m = v
    BY <2>1
  <2>2. i - 1 \in Nat /\ i - 1 < ChunkSize /\ ChunkSize \in Nat \ {0}
    OBVIOUS
  <2>3. (i - 1) % ChunkSize = i - 1
    BY <2>1, <2>2
  <2> QED BY <2>3
<1>2. Repeated(out) = [i \in 1..ChunkSize |-> out[i]]
  BY <1>1 DEF Repeated
<1> QED BY <1>2

\* The loop's equation has a solution, so it is Doubled.
LEMMA DoubledUnfolds ==
    ASSUME ChunkSize \in Nat
    PROVE  Doubled = [out \in Seq(Byte) |->
                        IF Len(out) >= ChunkSize THEN out
                        ELSE Doubled[Again(out, Smaller(Len(out), ChunkSize - Len(out)))]]
<1> DEFINE next(out) == Again(out, Smaller(Len(out), ChunkSize - Len(out)))
           Loop(f) == [out \in Seq(Byte) |->
                         IF Len(out) >= ChunkSize THEN out ELSE f[next(out)]]
           filled == [out \in Seq(Byte) |->
                        IF Len(out) >= ChunkSize \/ Len(out) = 0 THEN out ELSE Repeated(out)]
<1>1. ASSUME NEW out \in Seq(Byte), ~(Len(out) >= ChunkSize)
      PROVE  filled[out] = filled[next(out)]
  <2>1. CASE Len(out) = 0
    <3>1. Smaller(Len(out), ChunkSize - Len(out)) = 0
      BY <1>1, <2>1 DEF Smaller
    <3>2. next(out) = out
      <4>1. /\ Again(out, 0) \in Seq(Byte) /\ Len(Again(out, 0)) = 0
        <5>1. 0 \in Nat /\ 0 <= Len(out) /\ Len(out) + 0 = 0
          BY <2>1
        <5> QED BY <5>1, AgainElements
      <4>2. Again(out, 0) = out
        BY <2>1, <4>1
      <4> QED BY <3>1, <4>2
    <3> QED BY <3>2
  <2>2. CASE Len(out) # 0
    <3>1. 0 < Len(out) /\ Len(out) < ChunkSize
      BY <1>1, <2>2
    <3>2. /\ next(out) \in Seq(Byte)
          /\ Len(out) < Len(next(out)) /\ Len(next(out)) <= ChunkSize
          /\ Repeated(next(out)) = Repeated(out)
      BY <3>1, PassKeepsPhase
    <3> HIDE DEF next
    <3>3. filled[out] = Repeated(out)
      BY <3>1
    <3>4. filled[next(out)] = Repeated(next(out))
      <4>1. CASE Len(next(out)) = ChunkSize
        BY <3>1, <3>2, <4>1, FullRepeated
      <4>2. CASE Len(next(out)) # ChunkSize
        BY <3>1, <3>2, <4>2
      <4> QED BY <4>1, <4>2
    <3> QED BY <3>2, <3>3, <3>4
  <2> QED BY <2>1, <2>2
<1>2. filled = Loop(filled)
  <2> HIDE DEF next
  <2>1. ASSUME NEW out \in Seq(Byte)
        PROVE filled[out] = IF Len(out) >= ChunkSize THEN out ELSE filled[next(out)]
    BY <1>1
  <2>2. filled = [out \in Seq(Byte) |-> filled[out]]
    OBVIOUS
  <2> HIDE DEF filled
  <2> QED BY <2>1, <2>2
<1> HIDE DEF filled
<1>3. Doubled = CHOOSE f : f = Loop(f)
  BY DEF Doubled
<1> HIDE DEF Loop
<1>4. Doubled = Loop(Doubled)
  BY <1>2, <1>3
<1> QED BY <1>4 DEF Loop

\* The loop fills the chunk with the seed, over and over.
LEMMA DoublingRepeats ==
    ASSUME ChunkSize \in Nat, NEW seed \in Seq(Byte), 0 < Len(seed), Len(seed) <= ChunkSize
    PROVE  Doubled[seed] = Repeated(seed)
<1> DEFINE Wrong(out, room) == /\ 0 < Len(out) /\ Len(out) <= ChunkSize
                               /\ room = ChunkSize - Len(out)
                               /\ Doubled[out] # Repeated(out)
           Rooms == {room \in Nat : \E out \in Seq(Byte) : Wrong(out, room)}
<1>1. SUFFICES ASSUME Doubled[seed] # Repeated(seed) PROVE FALSE
  OBVIOUS
<1>2. ChunkSize - Len(seed) \in Rooms
  BY <1>1
<1>3. PICK room \in Rooms : \A k \in Rooms : ~(k < room)
  <2> HIDE DEF Wrong
  <2>1. Rooms \subseteq Nat /\ Rooms # {}
    BY <1>2
  <2> QED BY <2>1, Least
<1>4. PICK out \in Seq(Byte) : Wrong(out, room)
  BY <1>3
<1>5. Len(out) \in Nat /\ 0 < Len(out) /\ Len(out) <= ChunkSize
  BY <1>4
<1>6. CASE Len(out) = ChunkSize
  <2>1. Doubled[out] = out
    BY <1>6, DoubledUnfolds
  <2> QED BY <1>4, <1>6, <2>1, FullRepeated
<1>7. CASE Len(out) < ChunkSize
  <2> DEFINE next == Again(out, Smaller(Len(out), ChunkSize - Len(out)))
  <2>1. /\ next \in Seq(Byte)
        /\ Len(out) < Len(next) /\ Len(next) <= ChunkSize
        /\ Repeated(next) = Repeated(out)
    BY <1>5, <1>7, PassKeepsPhase
  <2>2. Doubled[out] = Doubled[next]
    <3>1. ~(Len(out) >= ChunkSize)
      BY <1>5, <1>7
    <3> QED BY <3>1, DoubledUnfolds
  <2> HIDE DEF next
  <2>3. Wrong(next, ChunkSize - Len(next)) /\ ChunkSize - Len(next) \in Nat
    BY <1>4, <1>5, <2>1, <2>2
  <2>4. ChunkSize - Len(next) \in Rooms /\ ChunkSize - Len(next) < room
    BY <1>4, <1>5, <2>1, <2>3
  <2> QED BY <1>3, <2>4
<1> QED BY <1>5, <1>6, <1>7

\* The doubling copy of expandPattern lays the unit over the whole chunk in phase,
\* for every unit and chunk size: also where the unit does not divide the chunk, or
\* does not fit into it.
THEOREM PatternRepeats ==
    ASSUME ChunkSize \in Nat \ {0}, NEW unit \in Seq(Byte), Len(unit) # 0
    PROVE  expandPattern(unit) = Ok(Repeated(unit))
<1> DEFINE n == Smaller(Len(unit), ChunkSize)
           seed == SubSeq(unit, 0 + 1, 0 + n)
<1>1. n \in Nat /\ 0 < n /\ n <= Len(unit) /\ n <= ChunkSize
  BY DEF Smaller
<1>2. n = Len(unit) \/ n = ChunkSize
  BY DEF Smaller
<1>3. expandPattern(unit) = Ok(Doubled[seed])
  <2>1. ~(Len(unit) = 0 \/ ChunkSize <= 0)
    OBVIOUS
  <2>2. 0 + 1 = 1 /\ 0 + n = n
    BY <1>1
  <2> HIDE DEF n
  <2>3. seed = SubSeq(unit, 1, n)
    BY <2>2
  <2> QED BY <2>1, <2>3 DEF expandPattern, n
<1> HIDE DEF n
<1>4. /\ seed \in Seq(Byte) /\ Len(seed) = n
      /\ \A i \in 1..n : seed[i] = unit[0 + i]
  BY <1>1, SubRange
<1> HIDE DEF seed
<1>5. Doubled[seed] = Repeated(seed)
  BY <1>1, <1>4, DoublingRepeats
<1>6. CASE n = Len(unit)
  <2>1. ASSUME NEW i \in 1..ChunkSize
        PROVE  seed[((i - 1) % n) + 1] = unit[((i - 1) % n) + 1]
    <3>1. (i - 1) \in Nat /\ n \in Nat \ {0}
      BY <1>1
    <3>2. \A a \in Nat, m \in Nat \ {0} : a % m \in Nat /\ a % m < m
      OBVIOUS
    <3>3. (i - 1) % n \in Nat /\ (i - 1) % n < n
      BY <3>1, <3>2
    <3>4. ((i - 1) % n) + 1 \in 1..n /\ 0 + (((i - 1) % n) + 1) = ((i - 1) % n) + 1
      BY <1>1, <3>3
    <3> QED BY <1>4, <3>4
  <2>2. Repeated(seed) = Repeated(unit)
    BY <1>4, <1>6, <2>1 DEF Repeated
  <2> QED BY <1>3, <1>5, <2>2
<1>7. CASE n = ChunkSize /\ n < Len(unit)
  <2>1. ASSUME NEW i \in 1..ChunkSize PROVE ((i - 1) % Len(unit)) + 1 = i
    <3>1. ASSUME NEW m \in Nat \ {0}, NEW v \in Nat, v < m PROVE v % m = v
      BY <3>1
    <3>2. i - 1 \in Nat /\ i - 1 < Len(unit) /\ Len(unit) \in Nat \ {0}
      BY <1>7
    <3>3. (i - 1) % Len(unit) = i - 1
      BY <3>1, <3>2
    <3> QED BY <3>3
  <2>2. Repeated(unit) = [i \in 1..ChunkSize |-> unit[i]]
    BY <2>1 DEF Repeated
  <2>3. Repeated(seed) = seed
    BY <1>4, <1>7, FullRepeated
  <2>4. seed = [i \in 1..ChunkSize |-> unit[i]]
    BY <1>4, <1>7
  <2> QED BY <1>3, <1>5, <2>2, <2>3, <2>4
<1> QED BY <1>1, <1>2, <1>6, <1>7

-----------------------------------------------------------------------------
(* What a chunk decodes to. *)

\* decodeChunk returns bytes, and an error of the known kinds.
LEMMA DecodeTyped ==
    ASSUME NEW c \in Chunks, ChunkSize > 0
    PROVE  /\ decodeChunk(c).data \in Seq(Byte)
           /\ decodeChunk(c).err \in Errors
           /\ decodeChunk(c).err = "nil" => decodeChunk(c) = Ok(decodeChunk(c).data)
<1> DEFINE desc == chunkTable[c + 1]
           read == Stored(desc)
           src  == Sources[IF desc.dataSource = NilSource THEN FirstSource
                                                          ELSE desc.dataSource]
<1>0. ChunkSize \in Nat
  BY GeometryExact, GeometryAssumption
<1>1. /\ desc \in ChunkDescriptor
      /\ c + 1 \in 1..Len(chunkTable)
  <2>1. chunkTable \in Seq(ChunkDescriptor) /\ Len(chunkTable) \in Nat
    BY CodecAssumption
  <2>2. c + 1 \in 1..Len(chunkTable)
    BY <2>1 DEF Chunks
  <2> QED BY <2>1, <2>2
<1>2. /\ desc.dataOffset \in Int /\ desc.dataSize \in Nat
      /\ desc.dataSource \in (DOMAIN Sources) \cup {NilSource}
      /\ desc.majorVersion \in {1, 2} /\ desc.compressionMethod \in Nat
  BY <1>1 DEF ChunkDescriptor
<1>3. src \in Seq(Byte)
  BY <1>2, CodecAssumption
<1> HIDE DEF desc
<1>4. /\ read = ReadSlice(src, desc.dataOffset, desc.dataSize)
  BY DEF Stored, desc
<1> HIDE DEF read, src
<1>5. \/ read = Fail("ErrSource")
      \/ read = Ok(read.data) /\ read.data \in Seq(Byte) /\ Len(read.data) \in Nat
  <2>1. CASE desc.dataOffset < 0 \/ desc.dataOffset + desc.dataSize > Len(src)
              \/ desc.dataSize > MaxReadSize
    BY <1>2, <1>4, <2>1 DEF ReadSlice
  <2>2. CASE ~(desc.dataOffset < 0 \/ desc.dataOffset + desc.dataSize > Len(src)
              \/ desc.dataSize > MaxReadSize)
    <3> DEFINE piece == SubSeq(src, desc.dataOffset + 1, desc.dataOffset + desc.dataSize)
    <3>1. read = Ok(piece)
      BY <1>2, <1>4, <2>2 DEF ReadSlice
    <3>2. piece \in Seq(Byte)
      <4>1. Len(src) \in Nat /\ desc.dataOffset \in Nat
            /\ desc.dataOffset + desc.dataSize <= Len(src)
        BY <1>2, <1>3, <2>2
      <4> QED BY <1>2, <1>3, <4>1, SubRange
    <3> HIDE DEF piece
    <3> QED BY <3>1, <3>2 DEF Ok
  <2> QED BY <2>1, <2>2
<1>6. CASE ~Plausible(desc)
  BY <1>6 DEF decodeChunk, desc, Fail, Errors
<1>7. CASE Plausible(desc) /\ read = Fail("ErrSource")
  BY <1>7 DEF decodeChunk, desc, read, Fail, Errors
<1>8. CASE /\ Plausible(desc)
           /\ read = Ok(read.data) /\ read.data \in Seq(Byte) /\ Len(read.data) \in Nat
  <2> DEFINE raw == read.data
  <2> HIDE DEF raw
  <2>0. raw \in Seq(Byte) /\ Len(raw) \in Nat /\ raw = Stored(desc).data
    BY <1>8 DEF raw, read
  <2>1. decodeChunk(c) = Decoded(desc, raw)
    BY <1>8 DEF decodeChunk, desc, read, raw, Ok
  <2>2. CASE desc.pattern
    <3>1. Decoded(desc, raw) = expandPattern(raw)
      BY <2>2 DEF Decoded
    <3>2. CASE Len(raw) = 0 \/ ChunkSize <= 0
      BY <2>1, <3>1, <3>2 DEF expandPattern, Fail, Errors
    <3>3. CASE Len(raw) # 0 /\ ChunkSize > 0
      <4> DEFINE out == [i \in 1..ChunkSize |-> raw[((i - 1) % Len(raw)) + 1]]
      <4>1. expandPattern(raw) = Ok(out)
        <5>1. ChunkSize \in Nat \ {0}
          BY <1>0, <3>3
        <5>2. expandPattern(raw) = Ok(Repeated(raw))
          BY <2>0, <3>3, <5>1, PatternRepeats
        <5> QED BY <5>2 DEF Repeated
      <4>2. ASSUME NEW i \in 1..ChunkSize PROVE raw[((i - 1) % Len(raw)) + 1] \in Byte
        <5>1. (i - 1) \in Nat /\ Len(raw) \in Nat \ {0}
          BY <1>0, <2>0, <3>3
        <5>2. (i - 1) % Len(raw) \in 0..(Len(raw) - 1)
          BY <5>1
        <5>3. ((i - 1) % Len(raw)) + 1 \in 1..Len(raw)
          BY <5>1, <5>2
        <5>4. \A k \in 1..Len(raw) : raw[k] \in Byte
          BY <2>0
        <5> QED BY <5>3, <5>4
      <4>3. out \in [1..ChunkSize -> Byte]
        BY <4>2
      <4>4. out \in Seq(Byte)
        BY <1>0, <4>3
      <4> HIDE DEF out
      <4> QED BY <2>1, <3>1, <4>1, <4>4 DEF Ok, Errors
    <3> QED BY <1>0, <2>0, <3>2, <3>3
  <2>3. CASE ~desc.pattern /\ desc.compressed
    <3> DEFINE method == IF desc.majorVersion = 1 THEN 1 ELSE desc.compressionMethod
    <3>1. decodeChunk(c) = Decompress(raw, method)
      BY <2>1, <2>3 DEF Decoded
    <3> HIDE DEF method
    <3>2. CASE method = 0
      BY <2>0, <3>1, <3>2 DEF Decompress, Ok, Errors
    <3>3. CASE method \in {1, 2}
      <4> DEFINE out == Inflate(raw, method)
      <4>1. decodeChunk(c) = out
        BY <3>1, <3>3 DEF Decompress
      <4>2. /\ out.data \in Seq(Byte) /\ out.err \in {"nil", "ErrDecompress"}
            /\ out = [data |-> out.data, err |-> out.err]
        BY <2>0, <3>3, InflateAssumption DEF desc
      <4> HIDE DEF out
      <4> QED BY <4>1, <4>2 DEF Ok, Errors
    <3>4. CASE method \notin {0, 1, 2}
      BY <3>1, <3>4 DEF Decompress, Fail, Errors
    <3> QED BY <3>2, <3>3, <3>4
  <2>4. CASE ~desc.pattern /\ ~desc.compressed
    <3>1. decodeChunk(c) = Ok(StripTrailer(desc, raw))
      BY <2>1, <2>4 DEF Decoded
    <3>2. StripTrailer(desc, raw) \in Seq(Byte)
      <4>1. CASE StripTrailer(desc, raw) = raw
        BY <2>0, <4>1
      <4>2. CASE StripTrailer(desc, raw) # raw
        <5>1. /\ Len(raw) > TrailerSize \/ Len(raw) > ChunkSize
              /\ StripTrailer(desc, raw) = SubSeq(raw, 1, Len(raw) - TrailerSize)
          BY <4>2 DEF StripTrailer
        <5>2. Len(raw) - TrailerSize \in Nat /\ TrailerSize \in Nat
          BY <1>0, <2>0, <5>1, CodecAssumption
        <5> DEFINE n == Len(raw) - TrailerSize
        <5>3. SubSeq(raw, 0 + 1, 0 + n) \in Seq(Byte)
          <6>1. 0 + n <= Len(raw)
            BY <2>0, <5>2
          <6> HIDE DEF n
          <6> QED BY <2>0, <5>2, <6>1, SubRange DEF n
        <5> QED BY <5>1, <5>2, <5>3
      <4> QED BY <4>1, <4>2
    <3> QED BY <3>1, <3>2 DEF Ok, Errors
  <2> QED BY <2>2, <2>3, <2>4
<1> QED BY <1>5, <1>6, <1>7, <1>8

-----------------------------------------------------------------------------
(* Where an offset lies. *)

\* The offsets that follow within a chunk lie in the same chunk.
LEMMA SameChunk ==
    ASSUME NEW m \in Nat \ {0}, NEW p \in Nat, NEW k \in Nat, (p % m) + k < m
    PROVE  (p + k) \div m = p \div m /\ (p + k) % m = (p % m) + k
<1> DEFINE q == p \div m
           t == p % m
<1>1. q \in Nat /\ t \in Nat /\ p = m * q + t
  OBVIOUS
<1> HIDE DEF q, t
<1>2. p + k = m * q + (t + k) /\ t + k \in Nat /\ t + k < m /\ p + k \in Nat
  <2>1. m * q \in Nat
    BY <1>1
  <2>2. t + k < m
    BY DEF t
  <2> QED BY <1>1, <2>1, <2>2
<1>3. (p + k) \div m = q /\ (p + k) % m = t + k
  BY <1>1, <1>2, DivisionUnique
<1> QED BY <1>3 DEF q, t

\* A call that was admitted has a usable image under it.
LEMMA Admitted ==
    ASSUME NEW c \in Calls, Refusal(c) = "none"
    PROVE  /\ c.off \in Nat /\ c.len \in Nat \ {0} /\ c.off < LogicalSize
           /\ ChunkSize \in Nat \ {0} /\ LogicalSize \in Nat
           /\ want(c) \in Nat /\ want(c) <= c.len /\ want(c) <= LogicalSize - c.off
           /\ want(c) < c.len => want(c) = LogicalSize - c.off
<1>1. ChunkSize \in Nat /\ LogicalSize \in Nat
  BY GeometryExact, GeometryAssumption
<1>2. c.off \in Int /\ c.len \in Nat
  BY ReaderAssumption
<1>3. c.len # 0 /\ ~(c.off < 0) /\ ~(ChunkSize <= 0) /\ ~(c.off >= LogicalSize)
  BY DEF Refusal
<1> QED BY <1>1, <1>2, <1>3 DEF want, Smaller

\* Which positions of the device can be read, and what is there.
LEMMA DeviceAt ==
    ASSUME NEW p \in Nat
    PROVE  /\ p \in Readable <=>
                /\ p < LogicalSize /\ ChunkSize > 0
                /\ p \div ChunkSize \in Chunks
                /\ decodeChunk(p \div ChunkSize).err = "nil"
                /\ p % ChunkSize < Len(decodeChunk(p \div ChunkSize).data)
           /\ DOMAIN Device = Readable
           /\ p \in Readable =>
                Device[p] = decodeChunk(p \div ChunkSize).data[(p % ChunkSize) + 1]
<1>1. LogicalSize \in Nat
  BY GeometryExact, GeometryAssumption
<1>2. p < LogicalSize <=> p \in 0..(LogicalSize - 1)
  BY <1>1
<1> QED BY <1>2 DEF Readable, Device

\* Nothing can be read before the device, after it, or when the image is unusable.
LEMMA NothingOutside ==
    /\ Readable \subseteq Nat
    /\ \A p \in Readable : p < LogicalSize /\ ChunkSize > 0 /\ LogicalSize > 0
                           /\ Len(chunkTable) > 0
<1>1. LogicalSize \in Nat /\ Len(chunkTable) \in Nat
  BY GeometryExact, GeometryAssumption, CodecAssumption
<1>2. \A p \in Readable : /\ p \in 0..(LogicalSize - 1) /\ ChunkSize > 0
                          /\ p \div ChunkSize \in 0..(Len(chunkTable) - 1)
  BY DEF Readable, Chunks
<1>3. \A p \in Readable : p \in Nat /\ p < LogicalSize
  BY <1>1, <1>2
<1>4. \A p \in Readable : Len(chunkTable) > 0
  <2> TAKE p \in Readable
  <2> DEFINE k == p \div ChunkSize
  <2>1. k \in 0..(Len(chunkTable) - 1)
    BY <1>2
  <2> HIDE DEF k
  <2> QED BY <1>1, <2>1
<1> QED BY <1>1, <1>2, <1>3, <1>4

-----------------------------------------------------------------------------
(***************************************************************************)
(* The invariant, taken apart: what it says of the cache, and what it says *)
(* of one goroutine, as a predicate on the values of that goroutine's      *)
(* variables, so that a step of another goroutine cannot affect it.        *)
(***************************************************************************)

Places == {"idle", "enter", "loop", "decode", "put", "copy", "done"}

CacheInv ==
    /\ CacheTypeOK(Chunks, Seq(Byte))
    /\ ListMatchesMap
    /\ DepthBounded
    /\ CacheCoherent

LocalFunctions ==
    /\ pc \in [Readers -> Places]
    /\ call \in [Readers -> Calls \cup {NoCall}]
    /\ buf \in [Readers -> Seq(Byte)]
    /\ held \in [Readers -> Seq(Byte)]
    /\ err \in [Readers -> Errors]

Own(p, c, b, h, e) ==
    /\ p \in {"put", "copy"} =>
         decodeChunk((c.off + Len(b)) \div ChunkSize) = Ok(h)
    /\ \A i \in 1..Len(b) :
         /\ c.off + i - 1 \in DOMAIN Device
         /\ b[i] = Device[c.off + i - 1]
    /\ p # "idle" => c \in Calls
    /\ p = "idle" => c = NoCall
    /\ p \in {"idle", "enter"} => b = <<>>
    /\ p \in {"loop", "decode", "put", "copy"} =>
         Refusal(c) = "none" /\ Len(b) <= want(c)
    /\ p \in {"decode", "put", "copy"} =>
         (c.off + Len(b)) \div ChunkSize \in Chunks /\ Len(b) < want(c)
    /\ p # "done" => e = "nil"

Owned == \A r \in Readers : Own(pc[r], call[r], buf[r], held[r], err[r])

LEMMA InvParts == ReaderInv <=> CacheInv /\ LocalFunctions /\ Owned
<1>1. TypeOK <=> CacheTypeOK(Chunks, Seq(Byte)) /\ LocalFunctions
  BY DEF TypeOK, LocalFunctions, Places, Errors
<1>2. HoldsItsChunk /\ BufferIsDevice /\ WithinWant <=>
        \A r \in Readers : Own(pc[r], call[r], buf[r], held[r], err[r])
  <2> DEFINE W(r) ==
        /\ pc[r] # "idle" => call[r] \in Calls
        /\ pc[r] = "idle" => call[r] = NoCall
        /\ pc[r] \in {"idle", "enter"} => buf[r] = <<>>
        /\ pc[r] \in {"loop", "decode", "put", "copy"} =>
             Refusal(call[r]) = "none" /\ Len(buf[r]) <= want(call[r])
        /\ pc[r] \in {"decode", "put", "copy"} =>
             chunkNum(r) \in Chunks /\ Len(buf[r]) < want(call[r])
        /\ pc[r] # "done" => err[r] = "nil"
  <2>1. WithinWant <=> \A r \in Readers : W(r)
    BY Zenon DEF WithinWant
  <2>2. ASSUME NEW r \in Readers
        PROVE  Own(pc[r], call[r], buf[r], held[r], err[r]) <=>
               /\ W(r)
               /\ pc[r] \in {"put", "copy"} =>
                    chunkNum(r) \in Chunks /\ decodeChunk(chunkNum(r)) = Ok(held[r])
               /\ \A i \in 1..Len(buf[r]) :
                    /\ call[r].off + i - 1 \in DOMAIN Device
                    /\ buf[r][i] = Device[call[r].off + i - 1]
    BY Zenon DEF Own, chunkNum, currentOff
  <2> QED BY <2>1, <2>2, Zenon DEF HoldsItsChunk, BufferIsDevice
<1> QED BY <1>1, <1>2 DEF ReaderInv, CacheInv, Owned

LEMMA InvPartsNext == ReaderInv' <=> CacheInv' /\ LocalFunctions' /\ Owned'
BY InvParts, PTL

\* A step of goroutine r gives its variables new values and leaves those of the
\* others alone: it is enough to look at the cache and at the new values.
LEMMA Frame ==
    ASSUME ReaderInv, NEW r \in Readers, CacheInv',
           NEW p \in Places, NEW c \in Calls \cup {NoCall}, NEW b \in Seq(Byte),
           NEW h \in Seq(Byte), NEW e \in Errors,
           pc' = [pc EXCEPT ![r] = p], call' = [call EXCEPT ![r] = c],
           buf' = [buf EXCEPT ![r] = b], held' = [held EXCEPT ![r] = h],
           err' = [err EXCEPT ![r] = e],
           Own(p, c, b, h, e)
    PROVE  ReaderInv'
<1>1. LocalFunctions /\ Owned
  BY InvParts
<1>2. LocalFunctions'
  BY <1>1 DEF LocalFunctions
<1>3. ASSUME NEW s \in Readers
      PROVE  Own(pc'[s], call'[s], buf'[s], held'[s], err'[s])
  <2>1. CASE s = r
    <3>1. pc'[s] = p /\ call'[s] = c /\ buf'[s] = b /\ held'[s] = h /\ err'[s] = e
      BY <1>1, <2>1 DEF LocalFunctions
    <3> QED BY <3>1
  <2>2. CASE s # r
    <3>1. /\ pc'[s] = pc[s] /\ call'[s] = call[s] /\ buf'[s] = buf[s]
          /\ held'[s] = held[s] /\ err'[s] = err[s]
      BY <1>1, <2>2 DEF LocalFunctions
    <3>2. Own(pc[s], call[s], buf[s], held[s], err[s])
      BY <1>1 DEF Owned
    <3> QED BY <3>1, <3>2
  <2> QED BY <2>1, <2>2
<1> QED BY <1>2, <1>3, InvPartsNext DEF Owned

\* A step that leaves the cache alone keeps what holds of it.
LEMMA CacheKept == ASSUME CacheInv, UNCHANGED cacheVars PROVE CacheInv'
BY DEF CacheInv, CacheTypeOK, ListMatchesMap, DepthBounded, CacheCoherent, cacheVars

\* A goroutine's variables in its own words.
LEMMA Locals ==
    ASSUME ReaderInv, NEW r \in Readers
    PROVE  /\ CacheInv
           /\ pc[r] \in Places /\ call[r] \in Calls \cup {NoCall}
           /\ buf[r] \in Seq(Byte) /\ held[r] \in Seq(Byte) /\ err[r] \in Errors
           /\ Len(buf[r]) \in Nat /\ Len(held[r]) \in Nat
           /\ Own(pc[r], call[r], buf[r], held[r], err[r])
           /\ pc = [pc EXCEPT ![r] = pc[r]] /\ call = [call EXCEPT ![r] = call[r]]
           /\ buf = [buf EXCEPT ![r] = buf[r]] /\ held = [held EXCEPT ![r] = held[r]]
           /\ err = [err EXCEPT ![r] = err[r]]
<1>1. CacheInv /\ LocalFunctions /\ Owned
  BY InvParts
<1> QED BY <1>1 DEF LocalFunctions, Owned

-----------------------------------------------------------------------------
(* The actions, one by one. *)

LEMMA InitInv == Init => ReaderInv
<1> SUFFICES ASSUME Init PROVE ReaderInv
  OBVIOUS
<1>1. order = <<>> /\ DOMAIN entries = {} /\ Len(order) = 0
  BY DEF Init, CacheInit
<1>2. CacheInv
  BY <1>1, DepthWithinCeiling
     DEF CacheInv, CacheTypeOK, ListMatchesMap, DepthBounded, CacheCoherent, Listed
<1>3. LocalFunctions
  BY DEF Init, LocalFunctions, Places, Errors
<1>4. Owned
  <2> SUFFICES ASSUME NEW r \in Readers
               PROVE  Own("idle", NoCall, <<>>, <<>>, "nil")
    BY DEF Init, Owned
  <2> QED BY DEF Own
<1> QED BY <1>2, <1>3, <1>4, InvParts

\* The call ends: nothing is asked of the held chunk or the error any more.
LEMMA FinishInv ==
    ASSUME ReaderInv, NEW r \in Readers, pc[r] \notin {"idle", "done"},
           NEW e \in Errors, Finish(r, e), UNCHANGED <<entries, order, call, buf>>
    PROVE  ReaderInv'
<1>1. Own("done", call[r], buf[r], <<>>, e)
  BY Locals DEF Own
<1>2. CacheInv'
  BY Locals, CacheKept DEF cacheVars
<1>3. /\ pc' = [pc EXCEPT ![r] = "done"] /\ call' = [call EXCEPT ![r] = call[r]]
      /\ buf' = [buf EXCEPT ![r] = buf[r]] /\ held' = [held EXCEPT ![r] = <<>>]
      /\ err' = [err EXCEPT ![r] = e]
  BY Locals DEF Finish
<1>4. "done" \in Places /\ <<>> \in Seq(Byte) /\ call[r] \in Calls \cup {NoCall}
      /\ buf[r] \in Seq(Byte)
  BY Locals DEF Places
<1> QED BY <1>1, <1>2, <1>3, <1>4, Frame

\* The goroutine moves on within the call, keeping what it has copied.
LEMMA MoveInv ==
    ASSUME ReaderInv, NEW r \in Readers, CacheInv',
           NEW p \in Places, NEW h \in Seq(Byte),
           pc' = [pc EXCEPT ![r] = p], held' = [held EXCEPT ![r] = h],
           UNCHANGED <<call, buf, err>>,
           Own(p, call[r], buf[r], h, err[r])
    PROVE  ReaderInv'
<1>1. /\ call' = [call EXCEPT ![r] = call[r]] /\ call[r] \in Calls \cup {NoCall}
      /\ buf' = [buf EXCEPT ![r] = buf[r]] /\ buf[r] \in Seq(Byte)
      /\ err' = [err EXCEPT ![r] = err[r]] /\ err[r] \in Errors
  BY Locals
<1> QED BY <1>1, Frame

LEMMA ReadAtInv == ASSUME ReaderInv, NEW r \in Readers, ReadAt(r) PROVE ReaderInv'
<1>1. PICK c \in Calls : call' = [call EXCEPT ![r] = c]
  BY DEF ReadAt
<1>2. Own("enter", c, <<>>, held[r], "nil") /\ buf[r] = <<>>
  BY Locals DEF Own, ReadAt
<1>3. CacheInv'
  BY Locals, CacheKept DEF ReadAt, cacheVars
<1>4. /\ pc' = [pc EXCEPT ![r] = "enter"]
      /\ buf' = [buf EXCEPT ![r] = <<>>] /\ <<>> \in Seq(Byte)
      /\ held' = [held EXCEPT ![r] = held[r]] /\ held[r] \in Seq(Byte)
      /\ err' = [err EXCEPT ![r] = err[r]] /\ err[r] \in Errors
  BY <1>2, Locals DEF ReadAt
<1>5. err[r] = "nil"
  BY Locals DEF Own, ReadAt
<1> QED BY <1>1, <1>2, <1>3, <1>4, <1>5, Frame DEF Places

LEMMA AdmitInv == ASSUME ReaderInv, NEW r \in Readers, Admit(r) PROVE ReaderInv'
<1>1. /\ pc[r] = "enter" /\ Refusal(call[r]) = "none"
      /\ pc' = [pc EXCEPT ![r] = "loop"] /\ held' = held
      /\ UNCHANGED <<call, buf, err>> /\ UNCHANGED cacheVars
  BY DEF Admit, cacheVars
<1>2. CacheInv' /\ held' = [held EXCEPT ![r] = held[r]] /\ held[r] \in Seq(Byte)
  BY <1>1, Locals, CacheKept
<1>3. call[r] \in Calls /\ buf[r] = <<>> /\ err[r] = "nil"
  BY <1>1, Locals DEF Own
<1>4. want(call[r]) \in Nat
  BY <1>1, <1>3, Admitted
<1>5. Own("loop", call[r], buf[r], held[r], err[r])
  BY <1>1, <1>3, <1>4 DEF Own
<1> QED BY <1>1, <1>2, <1>5, MoveInv DEF Places

LEMMA CacheHitInv == ASSUME ReaderInv, NEW r \in Readers, CacheHit(r) PROVE ReaderInv'
<1> DEFINE c == chunkNum(r)
<1>1. /\ pc[r] = "loop" /\ Len(buf[r]) < want(call[r])
      /\ pc' = [pc EXCEPT ![r] = "copy"]
      /\ held' = [held EXCEPT ![r] = entries[c]]
      /\ UNCHANGED <<call, buf, err>> /\ GetHit(c) /\ c \in DOMAIN entries
  BY DEF CacheHit, Lookup, GetHit
<1>2. /\ decodeChunk(c) = Ok(entries[c]) /\ c \in Chunks
      /\ entries[c] \in Seq(Byte)
  BY <1>1, Locals DEF CacheInv, CacheCoherent, CacheTypeOK
<1>3. CacheInv'
  <2>1. CacheTypeOK(Chunks, Seq(Byte))' /\ ListMatchesMap' /\ DepthBounded'
    BY <1>1, Locals, HitKeepsCache DEF CacheInv
  <2>2. CacheCoherent'
    BY <1>1, Locals DEF CacheInv, CacheCoherent, GetHit
  <2> QED BY <2>1, <2>2 DEF CacheInv
<1>4. c = (call[r].off + Len(buf[r])) \div ChunkSize
  BY DEF chunkNum, currentOff
<1> HIDE DEF c
<1>5. Own("copy", call[r], buf[r], entries[c], err[r])
  BY <1>1, <1>2, <1>4, Locals DEF Own
<1> QED BY <1>1, <1>2, <1>3, <1>5, MoveInv DEF Places

LEMMA CacheMissInv == ASSUME ReaderInv, NEW r \in Readers, CacheMiss(r) PROVE ReaderInv'
<1>1. /\ pc[r] = "loop" /\ Len(buf[r]) < want(call[r])
      /\ chunkNum(r) < Len(chunkTable)
      /\ pc' = [pc EXCEPT ![r] = "decode"] /\ held' = held
      /\ UNCHANGED <<call, buf, err>> /\ UNCHANGED cacheVars
  BY DEF CacheMiss, Lookup, GetMiss
<1>2. CacheInv' /\ held' = [held EXCEPT ![r] = held[r]] /\ held[r] \in Seq(Byte)
  BY <1>1, Locals, CacheKept
<1>3. call[r] \in Calls /\ Refusal(call[r]) = "none"
  BY <1>1, Locals DEF Own
<1>4. (call[r].off + Len(buf[r])) \div ChunkSize \in Chunks
  <2>1. call[r].off \in Nat /\ ChunkSize \in Nat \ {0} /\ Len(buf[r]) \in Nat
    BY <1>3, Admitted, Locals
  <2>2. chunkNum(r) \in Nat
    <3>1. currentOff(r) \in Nat
      BY <2>1 DEF currentOff
    <3>2. \A a \in Nat, m \in Nat \ {0} : a \div m \in Nat
      OBVIOUS
    <3> QED BY <2>1, <3>1, <3>2 DEF chunkNum
  <2>3. Len(chunkTable) \in Nat
    BY CodecAssumption
  <2>4. chunkNum(r) \in Chunks
    BY <1>1, <2>2, <2>3 DEF Chunks
  <2> QED BY <2>4 DEF chunkNum, currentOff
<1>5. Own("decode", call[r], buf[r], held[r], err[r])
  BY <1>1, <1>4, Locals DEF Own
<1> QED BY <1>1, <1>2, <1>5, MoveInv DEF Places

\* While it decodes, stores or copies, a goroutine is inside the table.
LEMMA InTable ==
    ASSUME ReaderInv, NEW r \in Readers, pc[r] \in {"decode", "put", "copy"}
    PROVE  /\ call[r] \in Calls /\ Refusal(call[r]) = "none"
           /\ chunkNum(r) \in Chunks
           /\ chunkNum(r) = (call[r].off + Len(buf[r])) \div ChunkSize
           /\ Len(buf[r]) < want(call[r])
           /\ ChunkSize \in Nat \ {0}
<1>1. /\ call[r] \in Calls /\ Refusal(call[r]) = "none"
      /\ (call[r].off + Len(buf[r])) \div ChunkSize \in Chunks
      /\ Len(buf[r]) < want(call[r])
  BY Locals DEF Own
<1>2. ChunkSize \in Nat \ {0}
  BY <1>1, Admitted
<1> QED BY <1>1, <1>2 DEF chunkNum, currentOff

LEMMA DecodeInv == ASSUME ReaderInv, NEW r \in Readers, Decode(r) PROVE ReaderInv'
<1> DEFINE out == decodeChunk(chunkNum(r))
<1>1. pc[r] = "decode" /\ UNCHANGED <<entries, order, call, buf>>
  BY DEF Decode
<1>2. /\ chunkNum(r) \in Chunks
      /\ chunkNum(r) = (call[r].off + Len(buf[r])) \div ChunkSize
      /\ ChunkSize > 0
  BY <1>1, InTable
<1>3. /\ out.data \in Seq(Byte) /\ out.err \in Errors
      /\ out.err = "nil" => out = Ok(out.data)
  BY <1>2, DecodeTyped
<1>4. CASE out.err = "nil"
  <2>1. /\ pc' = [pc EXCEPT ![r] = "put"] /\ held' = [held EXCEPT ![r] = out.data]
        /\ err' = err
    BY <1>4 DEF Decode
  <2>2. CacheInv'
    BY <1>1, Locals, CacheKept DEF cacheVars
  <2>3. decodeChunk((call[r].off + Len(buf[r])) \div ChunkSize) = Ok(out.data)
    BY <1>2, <1>3, <1>4
  <2> HIDE DEF out
  <2>4. Own("put", call[r], buf[r], out.data, err[r])
    BY <1>1, <2>3, Locals DEF Own
  <2> QED BY <1>1, <1>3, <2>1, <2>2, <2>4, MoveInv DEF Places
<1>5. CASE out.err # "nil"
  <2>1. Finish(r, out.err)
    BY <1>5 DEF Decode
  <2> HIDE DEF out
  <2> QED BY <1>1, <1>3, <2>1, FinishInv
<1> QED BY <1>4, <1>5

LEMMA StoreInv == ASSUME ReaderInv, NEW r \in Readers, Store(r) PROVE ReaderInv'
<1> DEFINE c == chunkNum(r)
<1>1. /\ pc[r] = "put" /\ put(c, held[r]) /\ pc' = [pc EXCEPT ![r] = "copy"]
      /\ held' = held /\ UNCHANGED <<call, buf, err>>
  BY DEF Store
<1>2. c \in Chunks /\ c = (call[r].off + Len(buf[r])) \div ChunkSize
  BY <1>1, InTable
<1>3. decodeChunk(c) = Ok(held[r]) /\ held[r] \in Seq(Byte)
  BY <1>1, <1>2, Locals DEF Own
<1> HIDE DEF c
<1>4. /\ CacheTypeOK(Chunks, Seq(Byte))' /\ ListMatchesMap' /\ DepthBounded'
      /\ \A k \in DOMAIN entries' :
            \/ k = c /\ entries'[k] = held[r]
            \/ k \in DOMAIN entries /\ entries'[k] = entries[k]
  BY <1>1, <1>2, <1>3, Locals, PutKeepsCache DEF CacheInv
<1>5. CacheCoherent'
  <2> SUFFICES ASSUME NEW k \in DOMAIN entries'
               PROVE  k \in Chunks /\ decodeChunk(k) = Ok(entries'[k])
    BY DEF CacheCoherent
  <2>1. CASE k = c /\ entries'[k] = held[r]
    BY <1>2, <1>3, <2>1
  <2>2. CASE k \in DOMAIN entries /\ entries'[k] = entries[k]
    BY <2>2, Locals DEF CacheInv, CacheCoherent
  <2> QED BY <1>4, <2>1, <2>2
<1>6. CacheInv'
  BY <1>4, <1>5 DEF CacheInv
<1>7. Own("copy", call[r], buf[r], held[r], err[r])
  BY <1>1, Locals DEF Own
<1>8. held' = [held EXCEPT ![r] = held[r]]
  BY <1>1, Locals
<1> QED BY <1>1, <1>3, <1>6, <1>7, <1>8, MoveInv DEF Places

\* What CopyOut adds to the buffer continues the run of device bytes.
LEMMA CopyOutInv == ASSUME ReaderInv, NEW r \in Readers, CopyOut(r) PROVE ReaderInv'
<1> DEFINE c   == call[r]
           b   == buf[r]
           h   == held[r]
           pos == c.off + Len(b)
           co  == pos % ChunkSize
           n   == Smaller(want(c) - Len(b), available(r))
           add == SubSeq(h, co + 1, co + n)
<1>1. /\ pc[r] = "copy" /\ available(r) > 0
      /\ buf' = [buf EXCEPT ![r] = b \o add] /\ pc' = [pc EXCEPT ![r] = "loop"]
      /\ held' = [held EXCEPT ![r] = <<>>] /\ UNCHANGED <<entries, order, call, err>>
  BY Locals DEF CopyOut, chunkOff, currentOff
<1>2. /\ c \in Calls /\ Refusal(c) = "none" /\ chunkNum(r) \in Chunks
      /\ chunkNum(r) = pos \div ChunkSize /\ Len(b) < want(c)
      /\ decodeChunk(pos \div ChunkSize) = Ok(h)
      /\ \A i \in 1..Len(b) : /\ c.off + i - 1 \in DOMAIN Device
                              /\ b[i] = Device[c.off + i - 1]
      /\ err[r] = "nil"
  BY <1>1, InTable, Locals DEF Own
<1>3. /\ c.off \in Nat /\ ChunkSize \in Nat \ {0} /\ LogicalSize \in Nat
      /\ want(c) \in Nat /\ want(c) <= LogicalSize - c.off
  BY <1>2, Admitted
<1>4. /\ b \in Seq(Byte) /\ h \in Seq(Byte) /\ Len(b) \in Nat /\ Len(h) \in Nat
  BY Locals
<1>5. available(r) = Smaller(Len(h) - co, ChunkSize - co)
  BY DEF available, chunkOff, currentOff
<1> HIDE DEF c, b, h
<1>6. pos \in Nat /\ co \in Nat /\ co < ChunkSize
  <2>1. pos \in Nat
    BY <1>3, <1>4
  <2>2. \A a \in Nat, m \in Nat \ {0} : a % m \in Nat /\ a % m < m
    OBVIOUS
  <2> QED BY <1>3, <2>1, <2>2
<1>7. /\ n \in Nat /\ n > 0 /\ n <= want(c) - Len(b)
      /\ co + n <= Len(h) /\ co + n <= ChunkSize
  <2> HIDE DEF co, pos
  <2>1. available(r) \in Int /\ available(r) <= Len(h) - co /\ available(r) <= ChunkSize - co
    BY <1>3, <1>4, <1>5, <1>6 DEF Smaller
  <2>2. /\ n \in Int /\ n <= want(c) - Len(b) /\ n <= available(r)
        /\ n = want(c) - Len(b) \/ n = available(r)
    BY <1>3, <1>4, <2>1 DEF Smaller
  <2> HIDE DEF n
  <2> QED BY <1>1, <1>2, <1>3, <1>4, <1>6, <2>1, <2>2
<1> HIDE DEF co, n
<1>8. /\ add \in Seq(Byte) /\ Len(add) = n
      /\ \A i \in 1..n : add[i] = h[co + i]
  BY <1>4, <1>6, <1>7, SubRange
<1> HIDE DEF add
<1>9. /\ b \o add \in Seq(Byte) /\ Len(b \o add) = Len(b) + n
      /\ \A i \in 1..Len(b) : (b \o add)[i] = b[i]
      /\ \A i \in 1..n : (b \o add)[Len(b) + i] = add[i]
  BY <1>4, <1>7, <1>8
<1>10. ASSUME NEW i \in 1..n
       PROVE  /\ pos + (i - 1) \in DOMAIN Device
              /\ add[i] = Device[pos + (i - 1)]
  <2> DEFINE q == pos + (i - 1)
  <2>1. i - 1 \in Nat /\ co + (i - 1) < ChunkSize /\ q \in Nat
    <3> HIDE DEF pos
    <3> QED BY <1>3, <1>6, <1>7
  <2>2. q \div ChunkSize = pos \div ChunkSize /\ q % ChunkSize = co + (i - 1)
    BY <1>3, <1>6, <2>1, SameChunk DEF co
  <2>3. q < LogicalSize
    BY <1>3, <1>4, <1>7
  <2> HIDE DEF q, pos
  <2>4. decodeChunk(q \div ChunkSize) = Ok(h) /\ q \div ChunkSize \in Chunks
    BY <1>2, <2>2
  <2>5. /\ decodeChunk(q \div ChunkSize).err = "nil"
        /\ decodeChunk(q \div ChunkSize).data = h
    BY <2>4 DEF Ok
  <2>6. q % ChunkSize < Len(h) /\ (q % ChunkSize) + 1 = co + i
    BY <1>4, <1>6, <1>7, <2>1, <2>2
  <2>7. q \in Readable
    <3>1. q \in Nat
      BY <2>1
    <3>2. q \in Readable <=>
            /\ q < LogicalSize /\ ChunkSize > 0
            /\ q \div ChunkSize \in Chunks
            /\ decodeChunk(q \div ChunkSize).err = "nil"
            /\ q % ChunkSize < Len(decodeChunk(q \div ChunkSize).data)
      BY <3>1, DeviceAt
    <3>3. ChunkSize > 0
      BY <1>3
    <3>4. q % ChunkSize < Len(decodeChunk(q \div ChunkSize).data)
      BY <2>5, <2>6
    <3> QED BY <2>3, <2>4, <2>5, <3>2, <3>3, <3>4, Zenon
  <2>8. Device[q] = h[co + i] /\ q \in DOMAIN Device
    <3>1. /\ DOMAIN Device = Readable
          /\ Device[q] = decodeChunk(q \div ChunkSize).data[(q % ChunkSize) + 1]
      BY <2>1, <2>7, DeviceAt
    <3> QED BY <2>5, <2>6, <2>7, <3>1
  <2> QED BY <1>8, <2>8 DEF q
<1>11. \A i \in 1..Len(b \o add) :
          /\ c.off + i - 1 \in DOMAIN Device
          /\ (b \o add)[i] = Device[c.off + i - 1]
  <2> SUFFICES ASSUME NEW i \in 1..(Len(b) + n)
               PROVE  /\ c.off + i - 1 \in DOMAIN Device
                      /\ (b \o add)[i] = Device[c.off + i - 1]
    BY <1>9
  <2>1. CASE i <= Len(b)
    BY <1>2, <1>4, <1>9, <2>1
  <2>2. CASE i > Len(b)
    <3> DEFINE j == i - Len(b)
    <3>1. j \in 1..n /\ Len(b) + j = i /\ pos + (j - 1) = c.off + i - 1
      BY <1>3, <1>4, <1>7, <2>2
    <3> HIDE DEF j, pos
    <3>2. (b \o add)[Len(b) + j] = add[j]
      BY <1>9, <3>1
    <3>3. pos + (j - 1) \in DOMAIN Device /\ add[j] = Device[pos + (j - 1)]
      BY <1>10, <3>1
    <3> QED BY <3>1, <3>2, <3>3
  <2>3. i <= Len(b) \/ i > Len(b)
    BY <1>4, <1>7
  <2> QED BY <2>1, <2>2, <2>3
<1>12. Len(b \o add) <= want(c)
  BY <1>3, <1>4, <1>7, <1>9
<1>13. Own("loop", c, b \o add, <<>>, err[r])
  BY <1>2, <1>11, <1>12 DEF Own
<1>14. CacheInv'
  BY <1>1, Locals, CacheKept DEF cacheVars
<1>15. /\ call' = [call EXCEPT ![r] = c] /\ c \in Calls \cup {NoCall}
       /\ err' = [err EXCEPT ![r] = err[r]] /\ err[r] \in Errors
       /\ <<>> \in Seq(Byte) /\ "loop" \in Places
  BY <1>1, Locals DEF c, Places
<1> DEFINE nb == b \o add
<1>16. nb \in Seq(Byte) /\ buf' = [buf EXCEPT ![r] = nb]
       /\ Own("loop", c, nb, <<>>, err[r])
  BY <1>1, <1>9, <1>13
<1> HIDE DEF nb
<1>17. pc' = [pc EXCEPT ![r] = "loop"] /\ held' = [held EXCEPT ![r] = <<>>]
  BY <1>1
<1> QED BY <1>14, <1>15, <1>16, <1>17, Frame

LEMMA ReturnInv == ASSUME ReaderInv, NEW r \in Readers, Return(r) PROVE ReaderInv'
<1>1. Own("idle", NoCall, <<>>, held[r], "nil")
  BY DEF Own
<1>2. CacheInv'
  BY Locals, CacheKept DEF Return, cacheVars
<1>3. /\ pc' = [pc EXCEPT ![r] = "idle"] /\ call' = [call EXCEPT ![r] = NoCall]
      /\ buf' = [buf EXCEPT ![r] = <<>>] /\ held' = [held EXCEPT ![r] = held[r]]
      /\ err' = [err EXCEPT ![r] = "nil"]
  BY Locals DEF Return
<1>4. /\ "idle" \in Places /\ NoCall \in Calls \cup {NoCall}
      /\ <<>> \in Seq(Byte) /\ held[r] \in Seq(Byte) /\ "nil" \in Errors
  BY Locals DEF Places, Errors
<1> QED BY <1>1, <1>2, <1>3, <1>4, Frame

-----------------------------------------------------------------------------
(* The invariant holds. *)

\* The ways a call ends, with the error of each.
Ends(r, e) ==
    /\ pc[r] \notin {"idle", "done"}
    /\ e \in Errors
    /\ Finish(r, e)
    /\ UNCHANGED <<entries, order, call, buf>>

LEMMA EndingSteps ==
    ASSUME NEW r \in Readers,
           Refuse(r) \/ Complete(r) \/ PastTable(r) \/ SourceFault(r) \/ ShortChunk(r)
    PROVE  \E e \in Errors : Ends(r, e)
<1>1. CASE Refuse(r)
  <2>1. Refusal(call[r]) \in Errors
    BY <1>1 DEF Refuse, Refusal, Errors
  <2> QED BY <1>1, <2>1 DEF Refuse, Ends
<1>2. CASE Complete(r)
  <2>1. (IF Len(buf[r]) < call[r].len THEN "EOF" ELSE "nil") \in Errors
    BY Zenon DEF Errors
  <2> QED BY <1>2, <2>1 DEF Complete, Ends
<1>3. CASE PastTable(r) \/ ShortChunk(r)
  BY <1>3 DEF PastTable, ShortChunk, Ends, Errors
<1>4. CASE SourceFault(r)
  BY <1>4 DEF SourceFault, Ends, Errors
<1> QED BY <1>1, <1>2, <1>3, <1>4

LEMMA NextInv == ReaderInv /\ [Next]_vars => ReaderInv'
<1> SUFFICES ASSUME ReaderInv, [Next]_vars PROVE ReaderInv'
  OBVIOUS
<1>1. CASE UNCHANGED vars
  <2>1. CacheInv' /\ LocalFunctions' /\ Owned'
    <3>1. CacheInv /\ LocalFunctions /\ Owned
      BY InvParts
    <3>2. UNCHANGED cacheVars /\ UNCHANGED <<pc, call, buf, held, err>>
      BY <1>1 DEF vars, cacheVars
    <3>3. CacheInv'
      BY <3>1, <3>2, CacheKept
    <3>4. LocalFunctions' /\ Owned'
      BY <3>1, <3>2 DEF LocalFunctions, Owned
    <3> QED BY <3>3, <3>4
  <2> QED BY <2>1, InvPartsNext
<1>2. ASSUME NEW r \in Readers, ReadAt(r) \/ Step(r) \/ Return(r) PROVE ReaderInv'
  <2>1. CASE Refuse(r) \/ Complete(r) \/ PastTable(r) \/ SourceFault(r) \/ ShortChunk(r)
    <3>1. PICK e \in Errors : Ends(r, e)
      BY <2>1, EndingSteps
    <3> QED BY <3>1, FinishInv DEF Ends
  <2> QED BY <1>2, <2>1, ReadAtInv, AdmitInv, CacheHitInv, CacheMissInv, DecodeInv,
             StoreInv, CopyOutInv, ReturnInv DEF Step
<1> QED BY <1>1, <1>2 DEF Next

\* For every image, cache depth, set of goroutines and calls: the cache holds
\* only what decoding yields, and what each call has copied is the device's
\* bytes from its offset on.
THEOREM ReadsAreCoherent == Spec => []ReaderInv
<1> QED BY InitInv, NextInv, PTL DEF Spec

-----------------------------------------------------------------------------
(* The reader implements a block device. *)

Answers == [s \in Readers |->
              IF pc[s] = "done" THEN [data |-> buf[s], err |-> err[s]] ELSE NoAnswer]

\* A call that ends with a legal result is an answer of the block device.
LEMMA EndIsAnswer ==
    ASSUME ReaderInv, NEW r \in Readers, NEW e, Ends(r, e),
           BD!Legal(call[r], Len(buf[r]), e)
    PROVE  BD!Answer(r)
<1>1. /\ call[r] \in Calls /\ pc[r] # "done" /\ buf[r] \in Seq(Byte)
      /\ Len(buf[r]) \in Nat /\ LocalFunctions
  BY Locals, InvParts DEF Own, Ends
<1>2. call[r] # NoCall /\ call[r].len \in Nat /\ call[r].off \in Int
  BY <1>1, ReaderAssumption
<1>3. BD!Run(call[r].off, Len(buf[r])) = buf[r]
  <2>1. \A i \in 1..Len(buf[r]) : buf[r][i] = Device[call[r].off + i - 1]
    BY Locals DEF Own
  <2>2. buf[r] = [i \in 1..Len(buf[r]) |-> buf[r][i]]
    BY <1>1
  <2> QED BY <2>1, <2>2 DEF BD!Run
<1>4. Len(buf[r]) \in 0..call[r].len
  <2>1. CASE pc[r] = "enter"
    <3>1. Len(buf[r]) = 0
      BY <2>1, Locals DEF Own
    <3> QED BY <1>2, <3>1
  <2>2. CASE pc[r] # "enter"
    <3>1. Refusal(call[r]) = "none" /\ Len(buf[r]) <= want(call[r])
      BY <2>2, Locals DEF Own, Ends, Places
    <3> QED BY <1>1, <1>2, <3>1, Admitted
  <2> QED BY <2>1, <2>2
<1>5. Answers' = [Answers EXCEPT ![r] = [data |-> buf[r], err |-> e]]
  <2>1. /\ pc' = [pc EXCEPT ![r] = "done"] /\ err' = [err EXCEPT ![r] = e]
        /\ buf' = buf
    BY DEF Ends, Finish
  <2>2. ASSUME NEW s \in Readers
        PROVE  (IF pc'[s] = "done" THEN [data |-> buf'[s], err |-> err'[s]] ELSE NoAnswer)
               = IF s = r THEN [data |-> buf[r], err |-> e] ELSE Answers[s]
    BY <1>1, <2>1 DEF LocalFunctions, Answers
  <2> QED BY <2>2 DEF Answers
<1>6. Answers[r] = NoAnswer
  BY <1>1 DEF Answers
<1>7. call' = call
  BY DEF Ends
<1>8. e \in Errors
  BY DEF Ends
<1> QED BY <1>2, <1>3, <1>4, <1>5, <1>6, <1>7, <1>8 DEF BD!Answer, Answers, Errors

\* What has been copied is readable, so only the end of the run is in question.
LEMMA LegalEnd ==
    ASSUME ReaderInv, NEW r \in Readers, pc[r] \notin {"idle", "done"}, NEW e,
           call[r].len > Len(buf[r]) => e # "nil",
           call[r].len = Len(buf[r]) => e = "nil",
           Len(buf[r]) <= call[r].len,
           Len(buf[r]) < call[r].len =>
              /\ e = "ErrSource" \/ call[r].off + Len(buf[r]) \notin Readable
              /\ Len(buf[r]) > 0 /\ call[r].off + Len(buf[r]) = LogicalSize => e = "EOF"
              /\ call[r].off < 0 => e = "ErrInvalidOffset"
    PROVE  BD!Legal(call[r], Len(buf[r]), e)
<1>1. /\ call[r] \in Calls /\ Len(buf[r]) \in Nat
      /\ \A i \in 1..Len(buf[r]) : call[r].off + i - 1 \in DOMAIN Device
  BY Locals DEF Own
<1>2. call[r].len \in Nat /\ call[r].off \in Int
  BY <1>1, ReaderAssumption
<1>3. DOMAIN Device = Readable
  BY DEF Device
<1>4. ASSUME NEW q \in call[r].off..(call[r].off + Len(buf[r]) - 1)
      PROVE  q \in DOMAIN Device
  <2>1. \A o \in Int, n \in Nat : \A p \in o..(o + n - 1) :
            p - o + 1 \in 1..n /\ o + (p - o + 1) - 1 = p
    OBVIOUS
  <2>2. PICK i \in 1..Len(buf[r]) : call[r].off + i - 1 = q
    BY <1>1, <1>2, <2>1
  <2> QED BY <1>1, <2>2
<1>5. e = "nil" <=> Len(buf[r]) = call[r].len
  <2>1. \A m \in Nat, n \in Nat : m <= n => m = n \/ n > m
    OBVIOUS
  <2>2. Len(buf[r]) = call[r].len \/ call[r].len > Len(buf[r])
    BY <1>1, <1>2, <2>1, Zenon
  <2> QED BY <2>2, Zenon
<1> QED BY <1>1, <1>2, <1>3, <1>4, <1>5 DEF BD!Legal

\* The offset the loop stands at, and why it cannot be read when the call ends
\* there.
LEMMA AtOffset ==
    ASSUME ReaderInv, NEW r \in Readers, pc[r] \in {"loop", "decode", "put", "copy"}
    PROVE  /\ call[r] \in Calls /\ Refusal(call[r]) = "none"
           /\ currentOff(r) = call[r].off + Len(buf[r]) /\ currentOff(r) \in Nat
           /\ Len(buf[r]) \in Nat /\ Len(buf[r]) <= want(call[r])
           /\ Len(buf[r]) < want(call[r]) =>
                currentOff(r) < LogicalSize /\ Len(buf[r]) < call[r].len
<1>1. /\ call[r] \in Calls /\ Refusal(call[r]) = "none" /\ Len(buf[r]) \in Nat
      /\ Len(buf[r]) <= want(call[r])
  BY Locals DEF Own
<1>2. /\ call[r].off \in Nat /\ call[r].len \in Nat /\ LogicalSize \in Nat
      /\ want(call[r]) \in Nat /\ want(call[r]) <= call[r].len
      /\ want(call[r]) <= LogicalSize - call[r].off
  BY <1>1, Admitted
<1>3. currentOff(r) = call[r].off + Len(buf[r]) /\ currentOff(r) \in Nat
  BY <1>1, <1>2 DEF currentOff
<1>4. \A o, l, n, w, z \in Nat :
          n < w /\ w <= l /\ w <= z - o => o + n < z /\ n < l
  OBVIOUS
<1>5. Len(buf[r]) < want(call[r]) =>
          currentOff(r) < LogicalSize /\ Len(buf[r]) < call[r].len
  <2> DEFINE n == Len(buf[r])
             w == want(call[r])
             o == call[r].off
             l == call[r].len
  <2>1. n \in Nat /\ w \in Nat /\ o \in Nat /\ l \in Nat /\ w <= l
        /\ w <= LogicalSize - o /\ LogicalSize \in Nat /\ currentOff(r) = o + n
    BY <1>1, <1>2, <1>3
  <2> HIDE DEF n, w, o, l
  <2>2. n < w => currentOff(r) < LogicalSize /\ n < l
    BY <1>4, <2>1
  <2> QED BY <2>2 DEF n, w, o, l
<1> QED BY <1>1, <1>3, <1>5

LEMMA RefuseAnswers ==
    ASSUME ReaderInv, NEW r \in Readers, Refuse(r) PROVE BD!Answer(r)
<1> DEFINE e == Refusal(call[r])
<1>1. Ends(r, e)
  <2>1. e \in Errors
    BY DEF Refuse, Refusal, Errors
  <2> QED BY <2>1 DEF Refuse, Ends
<1>2. /\ call[r] \in Calls /\ Len(buf[r]) = 0
  BY Locals DEF Own, Refuse
<1>3. call[r].len \in Nat /\ call[r].off \in Int
  BY <1>2, ReaderAssumption
<1>4. /\ e = "nil" <=> call[r].len = 0
      /\ call[r].len # 0 /\ call[r].off < 0 => e = "ErrInvalidOffset"
  BY DEF Refusal
<1>5. call[r].off \notin Readable \/ call[r].len = 0
  <2> SUFFICES ASSUME call[r].off \in Readable, call[r].len # 0 PROVE FALSE
    OBVIOUS
  <2>1. /\ call[r].off \in Nat /\ call[r].off < LogicalSize /\ ChunkSize > 0
        /\ LogicalSize > 0 /\ Len(chunkTable) > 0
    BY NothingOutside
  <2>2. Len(chunkTable) \in Nat /\ LogicalSize \in Nat /\ ChunkSize \in Nat
    BY CodecAssumption, GeometryExact, GeometryAssumption
  <2> QED BY <2>1, <2>2 DEF Refuse, Refusal
<1> HIDE DEF e
<1>6. BD!Legal(call[r], Len(buf[r]), e)
  <2>1. pc[r] \notin {"idle", "done"}
    BY DEF Refuse
  <2>2. call[r].off + 0 = call[r].off
    BY <1>3
  <2>3. /\ call[r].len > Len(buf[r]) => e # "nil"
        /\ call[r].len = Len(buf[r]) => e = "nil"
        /\ Len(buf[r]) <= call[r].len
        /\ Len(buf[r]) < call[r].len =>
              /\ e = "ErrSource" \/ call[r].off + Len(buf[r]) \notin Readable
              /\ Len(buf[r]) > 0 /\ call[r].off + Len(buf[r]) = LogicalSize => e = "EOF"
              /\ call[r].off < 0 => e = "ErrInvalidOffset"
    BY <1>2, <1>3, <1>4, <1>5, <2>2
  <2> QED BY <2>1, <2>3, LegalEnd
<1> QED BY <1>1, <1>6, EndIsAnswer

LEMMA CompleteAnswers ==
    ASSUME ReaderInv, NEW r \in Readers, Complete(r) PROVE BD!Answer(r)
<1> DEFINE e == IF Len(buf[r]) < call[r].len THEN "EOF" ELSE "nil"
<1>1. Ends(r, e)
  BY DEF Complete, Ends, Errors
<1>2. /\ call[r] \in Calls /\ Refusal(call[r]) = "none" /\ Len(buf[r]) \in Nat
      /\ Len(buf[r]) <= want(call[r])
  BY AtOffset DEF Complete
<1>3. Len(buf[r]) = want(call[r])
  BY <1>2, Admitted DEF Complete
<1>4. /\ Len(buf[r]) <= call[r].len /\ call[r].off >= 0
      /\ Len(buf[r]) < call[r].len => call[r].off + Len(buf[r]) = LogicalSize
  BY <1>2, <1>3, Admitted
<1>5. LogicalSize \notin Readable
  BY NothingOutside, GeometryExact, GeometryAssumption
<1>6. BD!Legal(call[r], Len(buf[r]), e)
  <2>1. pc[r] \notin {"idle", "done"}
    BY DEF Complete
  <2>2. call[r].len \in Nat /\ call[r].off \in Int
    BY <1>2, ReaderAssumption
  <2> QED BY <1>2, <1>4, <1>5, <2>1, <2>2, LegalEnd
<1> QED BY <1>1, <1>6, EndIsAnswer

\* The call ends inside the device, at an offset that cannot be read.
LEMMA StuckAnswers ==
    ASSUME ReaderInv, NEW r \in Readers,
           pc[r] \in {"loop", "decode", "put", "copy"}, Len(buf[r]) < want(call[r]),
           NEW e, Ends(r, e), e # "nil",
           e = "ErrSource" \/ currentOff(r) \notin Readable
    PROVE  BD!Answer(r)
<1>1. /\ call[r] \in Calls /\ Refusal(call[r]) = "none" /\ Len(buf[r]) \in Nat
      /\ currentOff(r) = call[r].off + Len(buf[r]) /\ currentOff(r) \in Nat
      /\ currentOff(r) < LogicalSize /\ Len(buf[r]) < call[r].len
  BY AtOffset
<1>2. call[r].len \in Nat /\ call[r].off \in Nat /\ LogicalSize \in Nat
  BY <1>1, Admitted
<1>3. BD!Legal(call[r], Len(buf[r]), e)
  <2>1. pc[r] \notin {"idle", "done"}
    OBVIOUS
  <2>2. /\ call[r].len > Len(buf[r]) => e # "nil"
        /\ call[r].len = Len(buf[r]) => e = "nil"
        /\ Len(buf[r]) <= call[r].len
    BY <1>1, <1>2
  <2>3. /\ e = "ErrSource" \/ call[r].off + Len(buf[r]) \notin Readable
        /\ call[r].off + Len(buf[r]) # LogicalSize
        /\ ~(call[r].off < 0)
    BY <1>1, <1>2
  <2> QED BY <2>1, <2>2, <2>3, LegalEnd
<1> QED BY <1>3, EndIsAnswer

LEMMA PastTableAnswers ==
    ASSUME ReaderInv, NEW r \in Readers, PastTable(r) PROVE BD!Answer(r)
<1>1. Ends(r, "EOF") /\ pc[r] = "loop" /\ Len(buf[r]) < want(call[r])
  BY DEF PastTable, Ends, Errors
<1>2. currentOff(r) \notin Readable
  <2>1. Len(chunkTable) \in Nat /\ ~(chunkNum(r) < Len(chunkTable))
    <3>1. Len(chunkTable) \in Nat
      BY CodecAssumption
    <3>2. chunkNum(r) \in Nat
      <4>1. currentOff(r) \in Nat /\ ChunkSize \in Nat \ {0}
        BY <1>1, AtOffset, Admitted
      <4>2. \A a \in Nat, m \in Nat \ {0} : a \div m \in Nat
        OBVIOUS
      <4> QED BY <4>1, <4>2 DEF chunkNum
    <3> QED BY <3>1, <3>2 DEF PastTable
  <2>2. chunkNum(r) \notin Chunks
    BY <2>1 DEF Chunks
  <2>3. currentOff(r) \in Nat
    BY <1>1, AtOffset
  <2> QED BY <2>2, <2>3, DeviceAt DEF chunkNum
<1> QED BY <1>1, <1>2, StuckAnswers

LEMMA SourceFaultAnswers ==
    ASSUME ReaderInv, NEW r \in Readers, SourceFault(r) PROVE BD!Answer(r)
<1>1. Ends(r, "ErrSource") /\ pc[r] = "decode"
  BY DEF SourceFault, Ends, Errors
<1>2. Len(buf[r]) < want(call[r])
  BY <1>1, InTable
<1> QED BY <1>1, <1>2, StuckAnswers

LEMMA DecodeFailureAnswers ==
    ASSUME ReaderInv, NEW r \in Readers, Decode(r),
           decodeChunk(chunkNum(r)).err # "nil"
    PROVE  BD!Answer(r)
<1> DEFINE e == decodeChunk(chunkNum(r)).err
<1>1. chunkNum(r) \in Chunks /\ ChunkSize > 0 /\ Len(buf[r]) < want(call[r])
      /\ pc[r] = "decode"
  BY InTable DEF Decode
<1>2. e \in Errors
  BY <1>1, DecodeTyped
<1>3. Ends(r, e)
  BY <1>2 DEF Decode, Ends
<1>4. currentOff(r) \notin Readable
  <2>1. currentOff(r) \in Nat
    BY <1>1, AtOffset
  <2> QED BY <2>1, DeviceAt DEF chunkNum
<1> HIDE DEF e
<1>5. e # "nil"
  BY DEF e
<1> QED BY <1>1, <1>3, <1>4, <1>5, StuckAnswers

LEMMA ShortChunkAnswers ==
    ASSUME ReaderInv, NEW r \in Readers, ShortChunk(r) PROVE BD!Answer(r)
<1>1. Ends(r, "EOF") /\ pc[r] = "copy" /\ available(r) <= 0
  BY DEF ShortChunk, Ends, Errors
<1>2. /\ Len(buf[r]) < want(call[r]) /\ ChunkSize \in Nat \ {0}
  BY <1>1, InTable
<1>3. decodeChunk(chunkNum(r)).data = held[r] /\ Len(held[r]) \in Nat
  <2>1. chunkNum(r) = (call[r].off + Len(buf[r])) \div ChunkSize
    BY DEF chunkNum, currentOff
  <2>2. decodeChunk((call[r].off + Len(buf[r])) \div ChunkSize) = Ok(held[r])
    BY <1>1, Locals DEF Own
  <2>3. Len(held[r]) \in Nat
    BY Locals
  <2>4. decodeChunk(chunkNum(r)) = Ok(held[r])
    BY <2>1, <2>2
  <2> QED BY <2>3, <2>4 DEF Ok
<1>4. currentOff(r) \in Nat
  BY <1>1, AtOffset
<1>5. chunkOff(r) \in Nat /\ chunkOff(r) < ChunkSize
  <2>1. \A a \in Nat, m \in Nat \ {0} : a % m \in Nat /\ a % m < m
    OBVIOUS
  <2> QED BY <1>2, <1>4, <2>1 DEF chunkOff
<1>6. ~(chunkOff(r) < Len(held[r]))
  BY <1>1, <1>2, <1>3, <1>5 DEF available, Smaller
<1>7. currentOff(r) \notin Readable
  BY <1>3, <1>4, <1>6, DeviceAt DEF chunkNum, chunkOff
<1> QED BY <1>1, <1>2, <1>7, StuckAnswers

\* A goroutine that has not ended its call has given no answer, and one that
\* has, has.
LEMMA NoAnswerYet ==
    ASSUME ReaderInv, NEW r \in Readers
    PROVE  Answers[r] = NoAnswer <=> pc[r] # "done"
<1>1. buf[r] \in Seq(Byte) /\ err[r] \in Errors
  BY Locals
<1>2. [data |-> buf[r], err |-> err[r]] \in [data : Seq(Byte), err : Errors]
  BY <1>1
<1> QED BY <1>2, ReaderAssumption DEF Answers

\* Inside a call nothing the caller sees moves.
LEMMA InnerStutters ==
    ASSUME ReaderInv, NEW r \in Readers, call' = call,
           pc[r] # "done", NEW place, place # "done",
           pc' = [pc EXCEPT ![r] = place],
           \A s \in Readers : s # r => buf'[s] = buf[s] /\ err'[s] = err[s]
    PROVE  UNCHANGED BD!deviceVars
<1>1. LocalFunctions
  BY InvParts
<1>2. ASSUME NEW s \in Readers
      PROVE  (IF pc'[s] = "done" THEN [data |-> buf'[s], err |-> err'[s]] ELSE NoAnswer)
             = IF pc[s] = "done" THEN [data |-> buf[s], err |-> err[s]] ELSE NoAnswer
  BY <1>1 DEF LocalFunctions
<1> QED BY <1>2 DEF BD!deviceVars

LEMMA InnerSteps ==
    ASSUME ReaderInv, NEW r \in Readers,
           \/ Admit(r) \/ CacheHit(r) \/ CacheMiss(r) \/ Store(r) \/ CopyOut(r)
           \/ Decode(r) /\ decodeChunk(chunkNum(r)).err = "nil"
    PROVE  UNCHANGED BD!deviceVars
<1>0. LocalFunctions
  BY InvParts
<1>1. CASE Admit(r)
  BY <1>1, InnerStutters DEF Admit
<1>2. CASE CacheHit(r)
  BY <1>2, InnerStutters DEF CacheHit, Lookup
<1>3. CASE CacheMiss(r)
  BY <1>3, InnerStutters DEF CacheMiss, Lookup
<1>4. CASE Store(r)
  BY <1>4, InnerStutters DEF Store
<1>5. CASE CopyOut(r)
  <2>1. /\ call' = call /\ err' = err /\ pc[r] = "copy" /\ pc' = [pc EXCEPT ![r] = "loop"]
        /\ \E v : buf' = [buf EXCEPT ![r] = v]
    BY <1>5 DEF CopyOut
  <2>2. \A s \in Readers : s # r => buf'[s] = buf[s]
    BY <1>0, <2>1 DEF LocalFunctions
  <2> QED BY <2>1, <2>2, InnerStutters
<1>6. CASE Decode(r) /\ decodeChunk(chunkNum(r)).err = "nil"
  BY <1>6, InnerStutters DEF Decode
<1> QED BY <1>1, <1>2, <1>3, <1>4, <1>5, <1>6

LEMMA CallMaps ==
    ASSUME ReaderInv, NEW r \in Readers, ReadAt(r) PROVE BD!Call(r)
<1>1. call[r] = NoCall /\ LocalFunctions
  BY Locals, InvParts DEF Own, ReadAt
<1>2. ASSUME NEW s \in Readers
      PROVE  (IF pc'[s] = "done" THEN [data |-> buf'[s], err |-> err'[s]] ELSE NoAnswer)
             = IF pc[s] = "done" THEN [data |-> buf[s], err |-> err[s]] ELSE NoAnswer
  BY <1>1 DEF LocalFunctions, ReadAt
<1>3. \E c \in Calls : call' = [call EXCEPT ![r] = c]
  BY DEF ReadAt
<1> QED BY <1>1, <1>2, <1>3 DEF BD!Call

LEMMA ReturnMaps ==
    ASSUME ReaderInv, NEW r \in Readers, Return(r) PROVE BD!Return(r)
<1>1. LocalFunctions /\ Answers[r] # NoAnswer
  BY InvParts, NoAnswerYet DEF Return
<1>2. ASSUME NEW s \in Readers
      PROVE  (IF pc'[s] = "done" THEN [data |-> buf'[s], err |-> err'[s]] ELSE NoAnswer)
             = IF s = r THEN NoAnswer ELSE Answers[s]
  BY <1>1 DEF LocalFunctions, Return, Answers
<1>3. Answers' = [Answers EXCEPT ![r] = NoAnswer]
  BY <1>2 DEF Answers
<1>4. call' = [call EXCEPT ![r] = NoCall]
  BY DEF Return
<1> QED BY <1>1, <1>3, <1>4 DEF BD!Return, Answers

\* Every step of the reader is a step of the block device, or one its callers
\* cannot see.
LEMMA StepRefines ==
    ASSUME ReaderInv, [Next]_vars PROVE [BD!DeviceNext]_BD!deviceVars
<1>1. CASE UNCHANGED vars
  BY <1>1 DEF vars, BD!deviceVars
<1>2. CASE Next
  <2>1. PICK r \in Readers : ReadAt(r) \/ Step(r) \/ Return(r)
    BY <1>2 DEF Next
  <2>2. CASE ReadAt(r)
    BY <2>2, CallMaps DEF BD!DeviceNext
  <2>3. CASE Return(r)
    BY <2>3, ReturnMaps DEF BD!DeviceNext
  <2>4. CASE Refuse(r) \/ Complete(r) \/ PastTable(r) \/ SourceFault(r) \/ ShortChunk(r)
    BY <2>4, RefuseAnswers, CompleteAnswers, PastTableAnswers, SourceFaultAnswers,
       ShortChunkAnswers DEF BD!DeviceNext
  <2>5. CASE Admit(r) \/ CacheHit(r) \/ CacheMiss(r) \/ Store(r) \/ CopyOut(r)
    BY <2>5, InnerSteps
  <2>6. CASE Decode(r)
    BY <2>6, DecodeFailureAnswers, InnerSteps DEF BD!DeviceNext
  <2> QED BY <2>1, <2>2, <2>3, <2>4, <2>5, <2>6 DEF Step
<1> QED BY <1>1, <1>2

\* For every image, cache depth, set of goroutines and set of calls, ReadAt over
\* the shared cache behaves as a block device of fixed contents on which each
\* call is answered as if it were alone: the longest readable run from its
\* offset, with the error io.ReaderAt prescribes.
THEOREM ReadsAreDeviceReads == Spec => ImplementsBlockDevice
<1>1. Init => BD!DeviceInit
  BY DEF Init, BD!DeviceInit
<1>2. ReaderInv /\ [Next]_vars => [BD!DeviceNext]_BD!deviceVars
  BY StepRefines
<1>3. Spec => []ReaderInv
  BY ReadsAreCoherent
<1> QED BY <1>1, <1>2, <1>3, PTL DEF Spec, ImplementsBlockDevice, BD!DeviceSpec

-----------------------------------------------------------------------------
(***************************************************************************)
(* What ReadAt returns is what was acquired, for every device and every    *)
(* damage of the kinds that Acquisition admits.                            *)
(***************************************************************************)

\* The table entry of a chunk, typed.
LEMMA EntryType ==
    ASSUME NEW c \in Chunks
    PROVE  /\ chunkTable[c + 1] \in ChunkDescriptor
           /\ chunkTable[c + 1].dataOffset \in Int /\ chunkTable[c + 1].dataSize \in Nat
           /\ chunkTable[c + 1].majorVersion \in {1, 2}
           /\ chunkTable[c + 1].compressionMethod \in Nat
           /\ chunkTable[c + 1].pattern \in BOOLEAN /\ chunkTable[c + 1].compressed \in BOOLEAN
           /\ Holder(chunkTable[c + 1]) \in Seq(Byte)
<1>1. chunkTable \in Seq(ChunkDescriptor) /\ Len(chunkTable) \in Nat
  BY CodecAssumption
<1>2. c + 1 \in 1..Len(chunkTable)
  BY <1>1 DEF Chunks
<1>3. chunkTable[c + 1] \in ChunkDescriptor
  BY <1>1, <1>2
<1> QED BY <1>3, CodecAssumption DEF ChunkDescriptor, Holder

\* decodeChunk's checks let a stored form through exactly when it can be there.
LEMMA StoredForm ==
    ASSUME NEW c \in Chunks, ChunkSize > 0
    PROVE  LET desc == chunkTable[c + 1]
           IN  /\ InReach(desc) => /\ Plausible(desc) /\ Stored(desc) = Ok(Raw(desc))
                                   /\ Raw(desc) \in Seq(Byte)
                                   /\ Len(Raw(desc)) = desc.dataSize /\ desc.dataSize > 0
               /\ ~InReach(desc) => ~Plausible(desc) \/ Stored(desc).err # "nil"
<1> DEFINE desc == chunkTable[c + 1]
           bytes == Holder(desc)
           off == desc.dataOffset
           size == desc.dataSize
<1>1. off \in Int /\ size \in Nat /\ bytes \in Seq(Byte) /\ Len(bytes) \in Nat
  BY EntryType
<1>2. ChunkSize \in Nat /\ StoredSlack \in Nat /\ MaxReadSize \in Nat
  BY GeometryExact, GeometryAssumption, CodecAssumption
<1>3. Int64(ChunkSize * 2 + StoredSlack) = 2 * ChunkSize + StoredSlack
  <2>1. ChunkSize * 2 + StoredSlack = 2 * ChunkSize + StoredSlack
    BY <1>2
  <2>2. ChunkSize * 2 + StoredSlack \in 0..MaxInt64
    BY <1>2, <2>1, AcquisitionAssumption, GeometryAssumption
  <2> QED BY <2>1, <2>2, Int64Exact
<1>4. Stored(desc) = ReadSlice(bytes, off, size)
  BY DEF Stored, Holder
<1>5. Plausible(desc) <=> off >= 0 /\ size # 0 /\ size <= 2 * ChunkSize + StoredSlack
  BY <1>3 DEF Plausible
<1>6. InReach(desc) <=>
        off >= 0 /\ size # 0 /\ size <= 2 * ChunkSize + StoredSlack
        /\ size <= MaxReadSize /\ off + size <= Len(bytes)
  BY <1>1, <1>2 DEF InReach, Smaller
<1> HIDE DEF desc, bytes, off, size
<1>7. CASE InReach(desc)
  <2>1. /\ off \in Nat /\ size # 0 /\ size <= 2 * ChunkSize + StoredSlack
        /\ size <= MaxReadSize /\ off + size <= Len(bytes)
    BY <1>1, <1>6, <1>7
  <2>2. ReadSlice(bytes, off, size) = Ok(SubSeq(bytes, off + 1, off + size))
    BY <1>1, <1>2, <2>1 DEF ReadSlice
  <2>3. /\ SubSeq(bytes, off + 1, off + size) \in Seq(Byte)
        /\ Len(SubSeq(bytes, off + 1, off + size)) = size
    BY <1>1, <2>1, SubRange
  <2>4. Raw(desc) = SubSeq(bytes, off + 1, off + size)
    BY DEF Raw, bytes, off, size
  <2>5. Plausible(desc) /\ size > 0
    BY <1>1, <1>5, <2>1
  <2> QED BY <1>4, <1>7, <2>2, <2>3, <2>4, <2>5 DEF desc, size
<1>8. CASE ~InReach(desc)
  <2>1. CASE size > MaxReadSize \/ off < 0 \/ off + size > Len(bytes)
    <3>1. ReadSlice(bytes, off, size) = Fail("ErrSource")
      BY <2>1 DEF ReadSlice
    <3> QED BY <1>4, <1>8, <3>1 DEF Fail, desc
  <2>2. CASE ~(size > MaxReadSize \/ off < 0 \/ off + size > Len(bytes))
    BY <1>1, <1>2, <1>5, <1>6, <1>8, <2>2 DEF desc
  <2> QED BY <2>1, <2>2
<1> QED BY <1>7, <1>8 DEF desc

\* Nothing is made of what is unusable.
LEMMA UnusableFails ==
    ASSUME NEW c \in Chunks, ChunkSize > 0, Unusable(chunkTable[c + 1])
    PROVE  decodeChunk(c).err # "nil"
<1> DEFINE desc == chunkTable[c + 1]
<1>1. CASE ~InReach(desc)
  <2>1. ~Plausible(desc) \/ Stored(desc).err # "nil"
    BY <1>1, StoredForm
  <2> QED BY <2>1 DEF decodeChunk, Fail
<1>2. CASE /\ InReach(desc) /\ desc.compressed /\ ~desc.pattern
           /\ \/ Method(desc) \notin {0, 1, 2}
              \/ Method(desc) # 0 /\ Inflate(Raw(desc), Method(desc)).err # "nil"
  <2>1. Plausible(desc) /\ Stored(desc) = Ok(Raw(desc))
    BY <1>2, StoredForm
  <2> HIDE DEF desc
  <2>2. decodeChunk(c) = Decoded(desc, Raw(desc))
    BY <2>1 DEF decodeChunk, Ok, desc
  <2>3. Decoded(desc, Raw(desc)) = Decompress(Raw(desc), Method(desc))
    BY <1>2 DEF Decoded, Method
  <2>4. Decompress(Raw(desc), Method(desc)).err # "nil"
    BY <1>2 DEF Decompress, Fail
  <2> QED BY <2>2, <2>3, <2>4
<1> QED BY <1>1, <1>2 DEF Unusable

\* decodeChunk undoes what the writer did, but that a checksum behind a chunk
\* that is not longer than a chunk size is left where it is.
LEMMA WrittenDecodes ==
    ASSUME NEW c \in Chunks, ChunkSize > 0, NEW data \in Seq(Byte), data # <<>>,
           Written(chunkTable[c + 1], data)
    PROVE  /\ decodeChunk(c).err = "nil"
           /\ \/ decodeChunk(c).data = data
              \/ /\ Trailed(chunkTable[c + 1], data)
                 /\ Len(decodeChunk(c).data) >= Len(data)
                 /\ \A k \in 1..Len(data) : decodeChunk(c).data[k] = data[k]
<1> DEFINE desc == chunkTable[c + 1]
           raw == Raw(desc)
<1>1. /\ Plausible(desc) /\ Stored(desc) = Ok(raw) /\ raw \in Seq(Byte)
      /\ Len(raw) = desc.dataSize /\ desc.dataSize > 0
  BY StoredForm DEF Written
<1>2. Len(raw) \in Nat /\ Len(raw) > 0 /\ Len(data) \in Nat /\ Len(data) > 0
  BY <1>1
<1>3. ChunkSize \in Nat /\ TrailerSize \in Nat
  BY GeometryExact, GeometryAssumption, CodecAssumption
<1>4. /\ desc.majorVersion \in {1, 2} /\ desc.compressionMethod \in Nat
      /\ desc.pattern \in BOOLEAN /\ desc.compressed \in BOOLEAN
  BY EntryType
<1>5. AsPattern(desc, data) \/ AsCompressed(desc, data) \/ Trailed(desc, data) \/ Bare(desc, data)
  BY DEF Written
<1> HIDE DEF desc
<1>6. decodeChunk(c) = Decoded(desc, raw)
  BY <1>1 DEF decodeChunk, Ok, desc
<1>7. CASE AsPattern(desc, data)
  <2>1. /\ Decoded(desc, raw) = expandPattern(raw)
        /\ data = [k \in 1..ChunkSize |-> raw[((k - 1) % Len(raw)) + 1]]
    BY <1>7 DEF Decoded, AsPattern
  <2> HIDE DEF raw
  <2>2. expandPattern(raw) = Ok(data)
    <3>1. Len(raw) # 0 /\ ChunkSize \in Nat \ {0}
      BY <1>2, <1>3
    <3>2. expandPattern(raw) = Ok(Repeated(raw))
      BY <1>1, <3>1, PatternRepeats
    <3> QED BY <2>1, <3>2 DEF Repeated
  <2> QED BY <1>6, <2>1, <2>2 DEF Ok
<1>8. CASE AsCompressed(desc, data)
  <2>1. Decoded(desc, raw) = Decompress(raw, Method(desc))
    BY <1>8 DEF Decoded, AsCompressed, Method
  <2>2. Decompress(raw, Method(desc)) = Ok(data)
    BY <1>8 DEF AsCompressed, Decompress
  <2> QED BY <1>6, <2>1, <2>2 DEF Ok
<1>9. CASE Trailed(desc, data)
  <2>1. /\ Decoded(desc, raw) = Ok(StripTrailer(desc, raw))
        /\ Len(raw) = Len(data) + TrailerSize
        /\ SubSeq(raw, 1, Len(data)) = data
    BY <1>9 DEF Decoded, Trailed
  <2> HIDE DEF raw
  <2>2. Len(raw) - TrailerSize = Len(data)
    BY <1>2, <1>3, <2>1
  <2>3. StripTrailer(desc, raw) = data \/ StripTrailer(desc, raw) = raw
    BY <2>1, <2>2 DEF StripTrailer
  <2>4. Len(raw) >= Len(data)
    BY <1>2, <1>3, <2>1
  <2>5. \A k \in 1..Len(data) : raw[k] = data[k]
    <3>1. 0 + Len(data) <= Len(raw)
      BY <1>2, <2>4
    <3>2. \A k \in 1..Len(data) : SubSeq(raw, 0 + 1, 0 + Len(data))[k] = raw[0 + k]
      BY <1>1, <1>2, <3>1, SubRange
    <3>3. SubSeq(raw, 0 + 1, 0 + Len(data)) = data
      BY <1>2, <2>1
    <3>4. \A k \in 1..Len(data) : 0 + k = k
      BY <1>2
    <3> QED BY <3>2, <3>3, <3>4
  <2> QED BY <1>6, <1>9, <2>1, <2>3, <2>4, <2>5 DEF Ok, desc
<1>10. CASE Bare(desc, data)
  <2>1. /\ Decoded(desc, raw) = Ok(StripTrailer(desc, raw)) /\ raw = data
        /\ ~desc.hasChecksum
        /\ desc.majorVersion = 1 => Len(data) <= ChunkSize
    BY <1>10 DEF Decoded, Bare
  <2> HIDE DEF raw
  <2>2. ~(desc.majorVersion = 1 /\ Len(raw) > ChunkSize)
    BY <1>2, <1>3, <2>1
  <2>3. StripTrailer(desc, raw) = raw
    BY <2>1, <2>2 DEF StripTrailer
  <2>4. StripTrailer(desc, raw) = data
    BY <2>1, <2>3
  <2> QED BY <1>6, <2>1, <2>4 DEF Ok
<1> QED BY <1>5, <1>7, <1>8, <1>9, <1>10 DEF desc

\* A device has chunks.
LEMMA DeviceHasChunks ==
    /\ LogicalSize \in Nat /\ ChunkSize \in Nat
    /\ LogicalSize > 0 => ChunkSize > 0
<1>1. LogicalSize \in Nat /\ ChunkSize \in Nat
  BY GeometryExact, GeometryAssumption
<1>2. CASE Media = NoMedia \/ computeGeometry(Media).err # "nil"
  <2>1. LogicalSize = 0
    BY <1>2 DEF LogicalSize, computeGeometry
  <2> QED BY <1>1, <2>1
<1>3. CASE Media # NoMedia /\ computeGeometry(Media).err = "nil"
  BY <1>1, <1>3, GeometryExact
<1> QED BY <1>2, <1>3

\* Where a position lies in its chunk's piece of the device.
LEMMA PieceAt ==
    ASSUME NEW p \in 0..(LogicalSize - 1)
    PROVE  LET c == p \div ChunkSize
               k == p % ChunkSize
           IN  /\ ChunkSize \in Nat \ {0} /\ c \in Nat /\ k \in Nat
               /\ c * ChunkSize < LogicalSize
               /\ k < Len(Piece(c)) /\ Piece(c)[k + 1] = Acquired[p + 1]
<1> DEFINE c == p \div ChunkSize
           k == p % ChunkSize
           b == c * ChunkSize
           e == Smaller((c + 1) * ChunkSize, LogicalSize)
           n == e - b
<1>1. ChunkSize \in Nat \ {0} /\ LogicalSize \in Nat /\ p \in Nat /\ p < LogicalSize
  BY DeviceHasChunks
<1>2. c \in Nat /\ k \in Nat /\ k < ChunkSize /\ p = ChunkSize * c + k
  BY <1>1
<1> HIDE DEF c, k
<1>3. b \in Nat /\ p = b + k /\ (c + 1) * ChunkSize = b + ChunkSize
  <2>1. ChunkSize * c = c * ChunkSize /\ (c + 1) * ChunkSize = c * ChunkSize + ChunkSize
        /\ c * ChunkSize \in Nat
    BY <1>1, <1>2
  <2> QED BY <1>2, <2>1
<1> HIDE DEF b
<1>4. e \in Nat /\ b + k < e /\ e <= LogicalSize /\ n \in Nat /\ b + n = e
  BY <1>1, <1>2, <1>3 DEF Smaller
<1>5. Acquired \in Seq(Byte) /\ Len(Acquired) = LogicalSize
  BY AcquisitionAssumption
<1>6. Piece(c) = SubSeq(Acquired, b + 1, b + n)
  BY <1>4 DEF Piece, b
<1> HIDE DEF e, n
<1>7. /\ Len(SubSeq(Acquired, b + 1, b + n)) = n
      /\ \A j \in 1..n : SubSeq(Acquired, b + 1, b + n)[j] = Acquired[b + j]
  <2>1. b + n <= Len(Acquired)
    BY <1>4, <1>5
  <2> QED BY <1>3, <1>4, <1>5, <2>1, SubRange
<1>8. k + 1 \in 1..n /\ b + (k + 1) = p + 1
  BY <1>2, <1>3, <1>4
<1>9. /\ k < Len(Piece(c)) /\ Piece(c)[k + 1] = Acquired[p + 1]
  <2>1. Piece(c)[k + 1] = Acquired[b + (k + 1)]
    BY <1>6, <1>7, <1>8
  <2>2. Acquired[b + (k + 1)] = Acquired[p + 1]
    BY <1>8
  <2>3. Len(Piece(c)) = n /\ k < n
    BY <1>2, <1>3, <1>4, <1>6, <1>7
  <2> QED BY <2>1, <2>2, <2>3
<1>10. b < LogicalSize
  BY <1>1, <1>2, <1>3
<1> QED BY <1>1, <1>2, <1>9, <1>10 DEF b, c, k

\* What the image gives up is what damage has left, and it is what was acquired.
THEOREM DeviceIsAcquired ==
    ASSUME NEW p \in 0..(LogicalSize - 1)
    PROVE  /\ p \in Readable <=> p \notin Ruined
           /\ p \in Readable => Device[p] = Acquired[p + 1]
<1> DEFINE c == p \div ChunkSize
           k == p % ChunkSize
           data == decodeChunk(c).data
           left == Left[c]
<1>1. /\ ChunkSize \in Nat \ {0} /\ c \in Nat /\ k \in Nat
      /\ c * ChunkSize < LogicalSize
      /\ k < Len(Piece(c)) /\ Piece(c)[k + 1] = Acquired[p + 1]
  BY PieceAt
<1>2. p \in Nat /\ p < LogicalSize
  BY DeviceHasChunks
<1>3. /\ p \in Readable <=> /\ c \in Chunks
                            /\ decodeChunk(c).err = "nil"
                            /\ k < Len(data)
      /\ p \in Readable => Device[p] = data[k + 1]
  <2>1. ChunkSize > 0
    BY <1>1
  <2>2. /\ p \in Readable <=>
             /\ p < LogicalSize /\ ChunkSize > 0
             /\ c \in Chunks
             /\ decodeChunk(c).err = "nil"
             /\ k < Len(decodeChunk(c).data)
        /\ p \in Readable => Device[p] = decodeChunk(c).data[k + 1]
    BY <1>2, DeviceAt
  <2> QED BY <1>2, <2>1, <2>2, Zenon
<1>4. p \notin Ruined <=> c \in Chunks /\ ~(k >= Len(left))
  BY DEF Ruined
<1> HIDE DEF c, k, data
<1>5. CASE c \notin Chunks
  BY <1>3, <1>4, <1>5
<1>6. CASE c \in Chunks /\ left = <<>>
  <2>1. Unusable(chunkTable[c + 1])
    BY <1>1, <1>6, AcquisitionAssumption
  <2>2. decodeChunk(c).err # "nil"
    BY <1>1, <1>6, <2>1, UnusableFails
  <2>3. Len(left) = 0
    BY <1>6
  <2> QED BY <1>1, <1>3, <1>4, <2>2, <2>3
<1>7. CASE c \in Chunks /\ left # <<>>
  <2>1. /\ left \in Seq(Byte) /\ Written(chunkTable[c + 1], left)
        /\ Trailed(chunkTable[c + 1], left) => Len(left) >= Len(Piece(c))
        /\ \A m \in 1..Smaller(Len(left), Len(Piece(c))) : left[m] = Piece(c)[m]
    BY <1>1, <1>7, AcquisitionAssumption
  <2> HIDE DEF left
  <2>2. /\ decodeChunk(c).err = "nil"
        /\ \/ data = left
           \/ /\ Trailed(chunkTable[c + 1], left)
              /\ Len(data) >= Len(left)
              /\ \A m \in 1..Len(left) : data[m] = left[m]
    BY <1>1, <1>7, <2>1, WrittenDecodes DEF data
  <2>3. data \in Seq(Byte) /\ Len(data) \in Nat /\ Len(left) \in Nat
    BY <1>1, <1>7, <2>1, DecodeTyped DEF data
  <2>4. k < Len(data) <=> k < Len(left)
    <3>1. CASE data = left
      BY <3>1
    <3>2. CASE Trailed(chunkTable[c + 1], left) /\ Len(data) >= Len(left)
      <4>1. Len(left) >= Len(Piece(c))
        BY <2>1, <3>2
      <4>2. Piece(c) \in Seq(Byte) => Len(Piece(c)) \in Nat
        OBVIOUS
      <4> QED BY <1>1, <2>3, <3>2, <4>1
    <3> QED BY <2>2, <3>1, <3>2
  <2>5. ASSUME k < Len(left) PROVE data[k + 1] = Acquired[p + 1]
    <3>1. k + 1 \in 1..Len(left)
      BY <1>1, <2>3, <2>5
    <3>2. data[k + 1] = left[k + 1]
      BY <2>2, <3>1
    <3>3. k + 1 \in 1..Smaller(Len(left), Len(Piece(c)))
      BY <1>1, <2>3, <3>1 DEF Smaller
    <3> QED BY <1>1, <2>1, <3>2, <3>3
  <2>6. p \in Readable <=> k < Len(left)
    BY <1>3, <1>7, <2>2, <2>4
  <2>7. p \notin Ruined <=> k < Len(left)
    BY <1>1, <1>4, <1>7, <2>3 DEF left
  <2> QED BY <1>3, <2>5, <2>6, <2>7
<1> QED BY <1>5, <1>6, <1>7

-----------------------------------------------------------------------------
(* What the calls of a run return. *)

\* Every byte any call has handed over is the acquired device's, at every moment.
THEOREM ReadsReturnAcquired == Spec => []ReturnsAcquired
<1>1. ASSUME ReaderInv PROVE ReturnsAcquired
  <2> SUFFICES ASSUME NEW r \in Readers, NEW i \in 1..Len(buf[r])
               PROVE  /\ call[r].off + i \in 1..Len(Acquired)
                      /\ buf[r][i] = Acquired[call[r].off + i]
    BY DEF ReturnsAcquired
  <2> DEFINE p == call[r].off + i - 1
  <2>1. p \in DOMAIN Device /\ buf[r][i] = Device[p] /\ Len(buf[r]) \in Nat
    BY <1>1, Locals DEF Own
  <2>2. call[r].off \in Int
    <3>1. pc[r] # "idle"
      <4>1. Len(buf[r]) # 0
        BY <2>1
      <4>2. pc[r] = "idle" => buf[r] = <<>>
        BY <1>1, Locals DEF Own
      <4> QED BY <4>1, <4>2
    <3>2. call[r] \in Calls
      BY <1>1, <3>1, Locals DEF Own
    <3> QED BY <3>2, ReaderAssumption
  <2>3. p \in Readable
    BY <2>1 DEF Device
  <2>4. p \in 0..(LogicalSize - 1) /\ p + 1 = call[r].off + i
    BY <2>2, <2>3 DEF Readable
  <2> HIDE DEF p
  <2>5. Device[p] = Acquired[p + 1]
    BY <2>3, <2>4, DeviceIsAcquired
  <2>6. Len(Acquired) = LogicalSize /\ LogicalSize \in Nat
    BY AcquisitionAssumption, DeviceHasChunks
  <2>7. p + 1 \in 1..Len(Acquired)
    BY <2>4, <2>6
  <2> QED BY <2>1, <2>4, <2>5, <2>7
<1> QED BY <1>1, ReadsAreCoherent, PTL

\* An answer is one the block device may give, seen from one goroutine.
Fair(c, a) ==
    a # NoAnswer => Len(a.data) \in 0..c.len /\ BD!Legal(c, Len(a.data), a.err)

EachFair == \A s \in Readers : Fair(call[s], Answers[s])

LEMMA AllFair == BD!AnswersLegal <=> EachFair
BY DEF BD!AnswersLegal, EachFair, Fair, Answers

LEMMA AllFairNext == BD!AnswersLegal' <=> EachFair'
BY AllFair, PTL

\* The steps of the block device leave the waiting answers legal.
LEMMA AnswersStayLegal ==
    ASSUME ReaderInv, BD!AnswersLegal, [BD!DeviceNext]_BD!deviceVars
    PROVE  BD!AnswersLegal'
<1>0. /\ \A s \in Readers : Fair(call[s], Answers[s])
      /\ call \in [Readers -> Calls \cup {NoCall}]
  BY AllFair, InvParts DEF LocalFunctions, EachFair
<1>1. CASE UNCHANGED BD!deviceVars
  <2>1. Answers' = Answers /\ call' = call
    BY <1>1 DEF BD!deviceVars, Answers
  <2> QED BY <1>0, <2>1, AllFairNext DEF EachFair
<1>2. ASSUME NEW r \in Readers, BD!Call(r) PROVE BD!AnswersLegal'
  <2>1. /\ Answers' = Answers /\ call[r] = NoCall
        /\ \E c \in Calls : call' = [call EXCEPT ![r] = c]
    BY <1>2 DEF BD!Call, Answers
  <2>2. Answers[r] = NoAnswer
    <3>1. pc[r] # "idle" => call[r] \in Calls
      BY Locals DEF Own
    <3>2. pc[r] # "done"
      BY <2>1, <3>1, ReaderAssumption
    <3> QED BY <3>2, NoAnswerYet
  <2>3. \A s \in Readers : s # r => call'[s] = call[s]
    BY <1>0, <2>1
  <2>4. \A s \in Readers : Fair(call'[s], Answers'[s])
    BY <1>0, <2>1, <2>2, <2>3 DEF Fair
  <2> QED BY <2>4, AllFairNext DEF EachFair
<1>3. ASSUME NEW r \in Readers, BD!Answer(r) PROVE BD!AnswersLegal'
  <2>1. PICK n \in 0..call[r].len, e \in Errors :
           /\ BD!Legal(call[r], n, e)
           /\ Answers' = [Answers EXCEPT ![r] =
                            [data |-> BD!Run(call[r].off, n), err |-> e]]
    BY <1>3 DEF BD!Answer, Answers, Errors
  <2>2. call' = call /\ call[r] # NoCall
    BY <1>3 DEF BD!Answer
  <2>3. n \in Nat
    <3>1. call[r].len \in Nat
      BY <1>0, <2>2, ReaderAssumption
    <3> QED BY <3>1
  <2>4. Len(BD!Run(call[r].off, n)) = n
    BY <2>3 DEF BD!Run
  <2>5. /\ Answers'[r] = [data |-> BD!Run(call[r].off, n), err |-> e]
        /\ \A s \in Readers : s # r => Answers'[s] = Answers[s]
    BY <2>1 DEF Answers
  <2>6. Fair(call[r], Answers'[r])
    BY <2>1, <2>4, <2>5 DEF Fair
  <2>7. \A s \in Readers : Fair(call'[s], Answers'[s])
    BY <1>0, <2>2, <2>5, <2>6
  <2> QED BY <2>7, AllFairNext DEF EachFair
<1>4. ASSUME NEW r \in Readers, BD!Return(r) PROVE BD!AnswersLegal'
  <2>1. /\ call' = [call EXCEPT ![r] = NoCall]
        /\ Answers' = [Answers EXCEPT ![r] = NoAnswer]
    BY <1>4 DEF BD!Return, Answers
  <2>2. /\ Answers'[r] = NoAnswer
        /\ \A s \in Readers : s # r => call'[s] = call[s] /\ Answers'[s] = Answers[s]
    BY <1>0, <2>1 DEF Answers
  <2>3. \A s \in Readers : Fair(call'[s], Answers'[s])
    BY <1>0, <2>2 DEF Fair
  <2> QED BY <2>3, AllFairNext DEF EachFair
<1> QED BY <1>1, <1>2, <1>3, <1>4 DEF BD!DeviceNext

\* Every answer of every run is a legal one: all that was asked for, or the
\* longest readable run with the error io.ReaderAt prescribes.
THEOREM AnswersAreLegal == Spec => []BD!AnswersLegal
<1>1. Init => BD!AnswersLegal
  <2> SUFFICES ASSUME Init PROVE \A s \in Readers : Fair(call[s], Answers[s])
    BY AllFair DEF EachFair
  <2>1. \A s \in Readers : Answers[s] = NoAnswer
    BY DEF Init, Answers
  <2> QED BY <2>1 DEF Fair
<1>2. ReaderInv /\ BD!AnswersLegal /\ [Next]_vars => BD!AnswersLegal'
  BY StepRefines, AnswersStayLegal
<1> QED BY <1>1, <1>2, ReadsAreCoherent, PTL DEF Spec

\* What a call leaves out is only what damage took or what lies behind the end of
\* the device, unless a source failed.
THEOREM ReadsWithholdNothing == Spec => []NothingWithheld
<1>1. ASSUME ReaderInv, BD!AnswersLegal PROVE NothingWithheld
  <2> SUFFICES ASSUME NEW r \in Readers,
                      pc[r] = "done", err[r] # "ErrSource", call[r].off >= 0
               PROVE  LET next == call[r].off + Len(buf[r])
                      IN  Len(buf[r]) = call[r].len \/ next >= LogicalSize \/ next \in Ruined
    BY DEF NothingWithheld
  <2> DEFINE n == Len(buf[r])
             next == call[r].off + n
  <2>1. call[r].off \in Nat /\ call[r].len \in Nat /\ n \in Nat /\ LogicalSize \in Nat
    <3>1. call[r] \in Calls /\ n \in Nat
      BY <1>1, Locals DEF Own
    <3> QED BY <3>1, ReaderAssumption, DeviceHasChunks
  <2>2. n \in 0..call[r].len /\ BD!Legal(call[r], n, err[r])
    <3>1. Answers[r] = [data |-> buf[r], err |-> err[r]] /\ Answers[r] # NoAnswer
      BY <1>1, NoAnswerYet DEF Answers
    <3> QED BY <1>1, <3>1, AllFair DEF EachFair, Fair
  <2>3. n < call[r].len => next \notin Readable
    BY <2>2 DEF BD!Legal, Device
  <2>4. n = call[r].len \/ n < call[r].len
    BY <2>1, <2>2
  <2>5. next < LogicalSize => next \in 0..(LogicalSize - 1)
    BY <2>1
  <2> HIDE DEF n, next
  <2>6. next < LogicalSize /\ next \notin Readable => next \in Ruined
    BY <2>5, DeviceIsAcquired
  <2>7. next < LogicalSize \/ next >= LogicalSize
    BY <2>1 DEF next
  <2> QED BY <2>3, <2>4, <2>6, <2>7 DEF n, next
<1> QED BY <1>1, ReadsAreCoherent, AnswersAreLegal, PTL

=============================================================================
