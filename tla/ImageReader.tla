---------------------------- MODULE ImageReader -----------------------------
(***************************************************************************)
(* Concurrent ReadAt calls on one opened image (ReadAt and chunkData of    *)
(* reader/open.go) over the shared chunk cache.                            *)
(*                                                                         *)
(* Each goroutine runs ReadAt's loop: look a chunk up in the cache, decode *)
(* it outside the cache lock on a miss, store it, copy the overlap out.    *)
(* The steps between which other goroutines may run are the actions: the   *)
(* cache's own critical sections, and the decoding between them.  The rest *)
(* of the reader (table, geometry, sources) never changes after the open.  *)
(***************************************************************************)
EXTENDS ChunkCache, ChunkCodec

CONSTANTS
    Readers,    \* goroutines calling ReadAt
    Calls,      \* the arguments they use: records [off, len], len = len(p)
    NoCall, NoAnswer

\* What ReadAt returns beside the bytes: nothing, io.EOF, a sentinel of ewferr,
\* or the error of the source below.
Errors == {"nil", "EOF", "ErrInvalidOffset", "ErrCorruptImage", "ErrSource",
           "ErrDecompress"}

ASSUME ReaderAssumption ==
    /\ Calls \subseteq [off : Int, len : Nat]
    /\ NoCall \notin Calls
    /\ NoAnswer \notin [data : Seq(Byte), err : Errors]

VARIABLES
    pc,       \* where each goroutine stands in ReadAt
    call,     \* its arguments
    buf,      \* the bytes copied into p so far; totalRead is their number
    held,     \* chunkData: the decoded chunk it holds
    err       \* the error it returns

localVars == <<pc, call, buf, held, err>>
vars == <<entries, order, pc, call, buf, held, err>>

Init ==
    /\ CacheInit
    /\ pc = [r \in Readers |-> "idle"]
    /\ call = [r \in Readers |-> NoCall]
    /\ buf = [r \in Readers |-> <<>>]
    /\ held = [r \in Readers |-> <<>>]
    /\ err = [r \in Readers |-> "nil"]

-----------------------------------------------------------------------------

\* ReadAt's early returns, in their order; "none" lets the call through.
Refusal(c) ==
    IF c.len = 0 THEN "nil"
    ELSE IF c.off < 0 THEN "ErrInvalidOffset"
    ELSE IF ChunkSize <= 0 \/ LogicalSize <= 0 \/ Len(chunkTable) = 0
         THEN "ErrCorruptImage"
    ELSE IF c.off >= LogicalSize THEN "EOF"
    ELSE "none"

\* Mutated form of want: the request is not cut at the end of the device.
wantAll(c) == c.len

\* The bytes to read: never past the end of the device.
want(c) == Smaller(c.len, LogicalSize - c.off)

currentOff(r) == call[r].off + Len(buf[r])
chunkNum(r) == currentOff(r) \div ChunkSize
chunkOff(r) == currentOff(r) % ChunkSize

\* The call ends with error e.
Finish(r, e) ==
    /\ pc' = [pc EXCEPT ![r] = "done"]
    /\ err' = [err EXCEPT ![r] = e]
    /\ held' = [held EXCEPT ![r] = <<>>]

ReadAt(r) ==
    /\ pc[r] = "idle"
    /\ pc' = [pc EXCEPT ![r] = "enter"]
    /\ \E c \in Calls : call' = [call EXCEPT ![r] = c]
    /\ UNCHANGED <<entries, order, buf, held, err>>

Refuse(r) ==
    /\ pc[r] = "enter"
    /\ Refusal(call[r]) # "none"
    /\ Finish(r, Refusal(call[r]))
    /\ UNCHANGED <<entries, order, call, buf>>

Admit(r) ==
    /\ pc[r] = "enter"
    /\ Refusal(call[r]) = "none"
    /\ pc' = [pc EXCEPT ![r] = "loop"]
    /\ UNCHANGED <<entries, order, call, buf, held, err>>

\* The loop has read all it wants.
Complete(r) ==
    /\ pc[r] = "loop"
    /\ Len(buf[r]) >= want(call[r])
    /\ Finish(r, IF Len(buf[r]) < call[r].len THEN "EOF" ELSE "nil")
    /\ UNCHANGED <<entries, order, call, buf>>

\* Mutated form of PastTable: the table's last chunk counts as past it.
PastTableEarly(r) ==
    /\ pc[r] = "loop"
    /\ Len(buf[r]) < want(call[r])
    /\ chunkNum(r) >= Len(chunkTable) - 1
    /\ Finish(r, "EOF")
    /\ UNCHANGED <<entries, order, call, buf>>

\* The device continues, the chunk table does not.
PastTable(r) ==
    /\ pc[r] = "loop"
    /\ Len(buf[r]) < want(call[r])
    /\ chunkNum(r) >= Len(chunkTable)
    /\ Finish(r, "EOF")
    /\ UNCHANGED <<entries, order, call, buf>>

\* chunkData asks the cache for a chunk.
Lookup(r) ==
    /\ pc[r] = "loop"
    /\ Len(buf[r]) < want(call[r])
    /\ chunkNum(r) < Len(chunkTable)
    /\ UNCHANGED <<call, buf, err>>

CacheHit(r) ==
    /\ Lookup(r)
    /\ GetHit(chunkNum(r))
    /\ held' = [held EXCEPT ![r] = entries[chunkNum(r)]]
    /\ pc' = [pc EXCEPT ![r] = "copy"]

CacheMiss(r) ==
    /\ Lookup(r)
    /\ GetMiss(chunkNum(r))
    /\ pc' = [pc EXCEPT ![r] = "decode"]
    /\ UNCHANGED held

Decode(r) ==
    /\ pc[r] = "decode"
    /\ LET out == decodeChunk(chunkNum(r))
       IN  \/ /\ out.err = "nil"
              /\ held' = [held EXCEPT ![r] = out.data]
              /\ pc' = [pc EXCEPT ![r] = "put"]
              /\ UNCHANGED err
           \/ /\ out.err # "nil"
              /\ Finish(r, out.err)
    /\ UNCHANGED <<entries, order, call, buf>>

\* The source fails while the stored chunk is read.
SourceFault(r) ==
    /\ pc[r] = "decode"
    /\ Plausible(chunkTable[chunkNum(r) + 1])
    /\ Finish(r, "ErrSource")
    /\ UNCHANGED <<entries, order, call, buf>>

\* Mutated form of Store: the chunk goes into the cache under the next number.
StoreNext(r) ==
    /\ pc[r] = "put"
    /\ put(chunkNum(r) + 1, held[r])
    /\ pc' = [pc EXCEPT ![r] = "copy"]
    /\ UNCHANGED <<call, buf, held, err>>

Store(r) ==
    /\ pc[r] = "put"
    /\ put(chunkNum(r), held[r])
    /\ pc' = [pc EXCEPT ![r] = "copy"]
    /\ UNCHANGED <<call, buf, held, err>>

\* Mutated form of available: a chunk longer than ChunkSize is copied whole.
availableAll(r) == Len(held[r]) - chunkOff(r)

\* What the held chunk has to offer from chunkOff on, within one chunk size.
available(r) == Smaller(Len(held[r]) - chunkOff(r), ChunkSize - chunkOff(r))

\* Mutated form of ShortChunk: a chunk that ends early is not noticed.
ShortChunkMissed(r) == pc[r] = "copy" /\ available(r) < 0 /\ Finish(r, "EOF")
                       /\ UNCHANGED <<entries, order, call, buf>>

ShortChunk(r) ==
    /\ pc[r] = "copy"
    /\ available(r) <= 0
    /\ Finish(r, "EOF")
    /\ UNCHANGED <<entries, order, call, buf>>

CopyOut(r) ==
    /\ pc[r] = "copy"
    /\ available(r) > 0
    /\ LET toCopy == Smaller(want(call[r]) - Len(buf[r]), available(r))
       IN  buf' = [buf EXCEPT ![r] =
                     @ \o SubSeq(held[r], chunkOff(r) + 1, chunkOff(r) + toCopy)]
    /\ pc' = [pc EXCEPT ![r] = "loop"]
    /\ held' = [held EXCEPT ![r] = <<>>]
    /\ UNCHANGED <<entries, order, call, err>>

\* The caller takes the answer.
Return(r) ==
    /\ pc[r] = "done"
    /\ pc' = [pc EXCEPT ![r] = "idle"]
    /\ call' = [call EXCEPT ![r] = NoCall]
    /\ buf' = [buf EXCEPT ![r] = <<>>]
    /\ err' = [err EXCEPT ![r] = "nil"]
    /\ UNCHANGED <<entries, order, held>>

\* The steps of ReadAt itself, which the Go scheduler keeps running.
Step(r) ==
    \/ Refuse(r) \/ Admit(r)
    \/ Complete(r) \/ PastTable(r)
    \/ CacheHit(r) \/ CacheMiss(r)
    \/ Decode(r) \/ SourceFault(r) \/ Store(r)
    \/ ShortChunk(r) \/ CopyOut(r)

Next == \E r \in Readers : ReadAt(r) \/ Step(r) \/ Return(r)

Spec == Init /\ [][Next]_vars

\* Every goroutine inside ReadAt is scheduled again and again.
FairSpec == Spec /\ \A r \in Readers : WF_vars(Step(r))

-----------------------------------------------------------------------------

TypeOK ==
    /\ CacheTypeOK(Chunks, Seq(Byte))
    /\ pc \in [Readers -> {"idle", "enter", "loop", "decode", "put", "copy", "done"}]
    /\ call \in [Readers -> Calls \cup {NoCall}]
    /\ buf \in [Readers -> Seq(Byte)]
    /\ held \in [Readers -> Seq(Byte)]
    /\ err \in [Readers -> Errors]

\* Whatever is cached, and however often it was decoded and replaced, is what
\* decoding that chunk yields.  Nothing that failed to decode is cached.
CacheCoherent ==
    \A c \in DOMAIN entries : c \in Chunks /\ decodeChunk(c) = Ok(entries[c])

\* A goroutine about to store or copy holds the chunk its own offset lies in.
HoldsItsChunk ==
    \A r \in Readers : pc[r] \in {"put", "copy"} =>
        chunkNum(r) \in Chunks /\ decodeChunk(chunkNum(r)) = Ok(held[r])

\* At every moment of every call, what has been copied out is the device's
\* bytes from the offset asked for, whoever else reads at the same time.
BufferIsDevice ==
    \A r \in Readers : \A i \in 1..Len(buf[r]) :
        /\ call[r].off + i - 1 \in DOMAIN Device
        /\ buf[r][i] = Device[call[r].off + i - 1]

\* Once admitted, a call stays within its own length and the device.
WithinWant ==
    \A r \in Readers :
        /\ pc[r] # "idle" => call[r] \in Calls
        /\ pc[r] = "idle" => call[r] = NoCall
        /\ pc[r] \in {"idle", "enter"} => buf[r] = <<>>
        /\ pc[r] \in {"loop", "decode", "put", "copy"} =>
             Refusal(call[r]) = "none" /\ Len(buf[r]) <= want(call[r])
        /\ pc[r] \in {"decode", "put", "copy"} =>
             chunkNum(r) \in Chunks /\ Len(buf[r]) < want(call[r])
        /\ pc[r] # "done" => err[r] = "nil"

ReaderInv ==
    /\ TypeOK
    /\ ListMatchesMap
    /\ DepthBounded
    /\ CacheCoherent
    /\ HoldsItsChunk
    /\ BufferIsDevice
    /\ WithinWant

\* The reader is a block device whose contents are those of Device.
BD == INSTANCE BlockDevice WITH
        Size    <- LogicalSize,
        Content <- Device,
        req     <- call,
        resp    <- [r \in Readers |->
                      IF pc[r] = "done" THEN [data |-> buf[r], err |-> err[r]]
                                        ELSE NoAnswer]

ImplementsBlockDevice == BD!DeviceSpec

\* Every call is answered: the loop advances even where a chunk is shorter than
\* it should be.
EveryCallAnswered ==
    \A r \in Readers : pc[r] = "enter" ~> pc[r] = "done"

=============================================================================
