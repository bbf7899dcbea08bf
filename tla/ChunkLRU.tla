------------------------------ MODULE ChunkLRU ------------------------------
(***************************************************************************)
(* ChunkCache on its own, driven by arbitrary get and put calls, with the  *)
(* history needed to say what "least recently used" means.                 *)
(*                                                                         *)
(* `lastUse' dates the last call that used a chunk (a get that hit, or a   *)
(* put), 0 when there was none; `lastPut' is the data of its last put.     *)
(* Neither exists in the code and no action of the cache reads them.       *)
(***************************************************************************)
EXTENDS ChunkCache, FiniteSets

CONSTANTS
    Numbers,    \* chunk numbers the cache may be asked for
    Contents,   \* decoded chunk contents
    MaxUses    \* bound on the calls that use a chunk

ASSUME UsesAssumption == MaxUses \in Nat /\ IsFiniteSet(Numbers)

VARIABLES clock, lastUse, lastPut

history == <<clock, lastUse, lastPut>>
lruVars == <<entries, order, clock, lastUse, lastPut>>

LRUInit ==
    /\ CacheInit
    /\ clock = 0
    /\ lastUse = [c \in Numbers |-> 0]
    /\ lastPut \in [Numbers -> Contents]   \* meaningless until the first put

\* Date a use of chunk c.
Use(c) ==
    /\ clock < MaxUses
    /\ clock' = clock + 1
    /\ lastUse' = [lastUse EXCEPT ![c] = clock + 1]

Hit(c) ==
    /\ GetHit(c)
    /\ Use(c)
    /\ UNCHANGED lastPut

Miss(c) ==
    /\ GetMiss(c)
    /\ UNCHANGED history

Put(c, d) ==
    /\ put(c, d)
    /\ Use(c)
    /\ lastPut' = [lastPut EXCEPT ![c] = d]

LRUNext ==
    \E c \in Numbers :
        \/ Hit(c)
        \/ Miss(c)
        \/ \E d \in Contents : Put(c, d)

LRUSpec == LRUInit /\ [][LRUNext]_lruVars

-----------------------------------------------------------------------------

LRUTypeOK ==
    /\ CacheTypeOK(Numbers, Contents)
    /\ clock \in 0..MaxUses
    /\ lastUse \in [Numbers -> 0..clock]
    /\ lastPut \in [Numbers -> Contents]

\* The list is in order of last use, latest first.
SortedByUse ==
    \A i, j \in 1..Len(order) : i < j => lastUse[order[i]] > lastUse[order[j]]

\* Every cached chunk was used after every chunk that is not cached.
CachedUsedLater ==
    \A c \in DOMAIN entries, d \in Numbers \ DOMAIN entries :
        lastUse[c] > lastUse[d]

\* A chunk that was used and is gone was pushed out by a full cache.
GoneOnlyWhenFull ==
    \A d \in Numbers \ DOMAIN entries :
        Enabled /\ lastUse[d] > 0 => Len(order) = max

\* put's eviction policy, from the outside: a chunk leaves the cache only after
\* max other chunks have been used since it last was.
RecentlyUsedStay ==
    \A d \in Numbers :
        Enabled /\ lastUse[d] > 0
                /\ Cardinality({c \in Numbers : lastUse[c] > lastUse[d]}) < max
            => d \in DOMAIN entries

\* A hit returns what the last put of that chunk stored, however many hits,
\* replacements and evictions lie between.
HitsReturnLastPut ==
    \A c \in DOMAIN entries : entries[c] = lastPut[c]

\* Everything the cache promises, strong enough to be inductive.
LRUInv ==
    /\ LRUTypeOK
    /\ ListMatchesMap
    /\ DepthBounded
    /\ SortedByUse
    /\ CachedUsedLater
    /\ GoneOnlyWhenFull
    /\ HitsReturnLastPut

=============================================================================
