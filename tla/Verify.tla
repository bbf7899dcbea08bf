------------------------------- MODULE Verify -------------------------------
(***************************************************************************)
(* Verify (verify.go): the whole device is read a chunk at a time and fed  *)
(* to MD5 and SHA-1, unreadable spans replaced by zeros and reported, and  *)
(* the digests compared with the ones the image records.                   *)
(*                                                                         *)
(* The device it reads is a BlockDevice, which is what ImageReader is      *)
(* shown to implement: any short answer that BlockDevice allows, source    *)
(* failures included, may come back from any read.                         *)
(*                                                                         *)
(* A digest is the algorithm and the bytes it was given: digests of        *)
(* different bytes differ (external, crypto/md5 and crypto/sha1).  The     *)
(* context may be cancelled at any moment.                                 *)
(***************************************************************************)
EXTENDS BlockDevice

CONSTANTS
    verifier,   \* the goroutine that runs Verify, one of Readers
    step,       \* bytes read at a time: the chunk size, or 1 MiB without one
    Zero,       \* the byte 0
    MD5s, SHA1s,\* digest values that images record
    NoDigest    \* HasMD5Digest or HasSHA1Digest is false

ASSUME VerifyAssumption ==
    /\ verifier \in Readers
    /\ step \in Nat \ {0}
    /\ Size \in Int
    /\ DOMAIN Content \subseteq 0..(Size - 1)
    /\ \A off \in 0..(Size - 1), len \in 1..step : [off |-> off, len |-> len] \in Calls
    /\ NoCall \notin Calls

VARIABLES
    pc,          \* start, head, reading, done, cancelled or refused
    cancelled,   \* ctx.Err() # nil
    off,         \* the loop's offset
    fed,         \* the bytes written to the digests
    BytesHashed, \* VerifyResult.BytesHashed
    BadRanges,   \* VerifyResult.BadRanges
    stored,      \* the digests the image records
    match        \* MD5Match and SHA1Match

verifyVars == <<pc, cancelled, off, fed, BytesHashed, BadRanges, stored, match>>
vars == <<req, resp, pc, cancelled, off, fed, BytesHashed, BadRanges, stored, match>>

md5(bytes)  == [alg |-> "md5", of |-> bytes]
sha1(bytes) == [alg |-> "sha1", of |-> bytes]

Init ==
    /\ DeviceInit
    /\ pc = "start"
    /\ cancelled = FALSE
    /\ off = 0
    /\ fed = <<>>
    /\ BytesHashed = 0
    /\ BadRanges = <<>>
    /\ stored \in [md5 : MD5s \cup {NoDigest}, sha1 : SHA1s \cup {NoDigest}]
    /\ match = [md5 |-> FALSE, sha1 |-> FALSE]

-----------------------------------------------------------------------------

want == IF step > Size - off THEN Size - off ELSE step

\* A device without a size is not verified.
Begin ==
    /\ pc = "start"
    /\ pc' = IF Size <= 0 THEN "refused" ELSE "head"
    /\ UNCHANGED <<req, resp, cancelled, off, fed, BytesHashed, BadRanges, stored, match>>

\* Somebody cancels the context.
Cancel ==
    /\ ~cancelled
    /\ cancelled' = TRUE
    /\ UNCHANGED <<req, resp, pc, off, fed, BytesHashed, BadRanges, stored, match>>

\* The loop notices, between two reads.
Stop ==
    /\ pc = "head"
    /\ off < Size
    /\ cancelled
    /\ pc' = "cancelled"
    /\ UNCHANGED <<req, resp, cancelled, off, fed, BytesHashed, BadRanges, stored, match>>

\* r.ReadAt(buf[:want], off)
Read ==
    /\ pc = "head"
    /\ off < Size
    /\ ~cancelled
    /\ Call(verifier)
    /\ req'[verifier] = [off |-> off, len |-> want]
    /\ pc' = "reading"
    /\ UNCHANGED <<cancelled, off, fed, BytesHashed, BadRanges, stored, match>>

\* The device answers.
Answered ==
    /\ pc = "reading"
    /\ Answer(verifier)
    /\ UNCHANGED verifyVars

\* writeZeros, by its result.
zeros(n) == [i \in 1..n |-> Zero]

\* The loop's next offset, after a read of n bytes.
advance(n) == off + want

\* The bytes counted after a read of n: what was read and what was filled in.
hashed(n) == IF n < want THEN BytesHashed + n + (want - n) ELSE BytesHashed + n

\* Mutated form of gapAt: the bad range is dated from the start of the read.
gapAtStart(n) == off

\* Where the span that could not be decoded begins.
gapAt(n) == off + n

\* What comes back is fed to the digests, and zeros for what does not.
Take ==
    /\ pc = "reading"
    /\ resp[verifier] # NoAnswer
    /\ LET data == resp[verifier].data
           n    == Len(data)
       IN  /\ BytesHashed' = hashed(n)
           /\ \/ /\ n < want
                 /\ fed' = (fed \o data) \o zeros(want - n)
                 /\ BadRanges' = Append(BadRanges,
                      [Offset |-> gapAt(n), Length |-> want - n,
                       Err |-> IF resp[verifier].err = "nil" THEN "short read"
                                                             ELSE resp[verifier].err])
              \/ /\ n >= want
                 /\ fed' = fed \o data
                 /\ UNCHANGED BadRanges
           /\ off' = advance(n)
    /\ Return(verifier)
    /\ pc' = "head"
    /\ UNCHANGED <<cancelled, stored, match>>

\* Mutated form of Finish: the loop is left only beyond the end of the device.
FinishBeyond ==
    /\ pc = "head"
    /\ off > Size
    /\ pc' = "done"
    /\ UNCHANGED <<req, resp, cancelled, off, fed, BytesHashed, BadRanges, stored, match>>

\* The digests are taken and compared with the ones recorded.
Finish ==
    /\ pc = "head"
    /\ off >= Size
    /\ match' = [md5  |-> stored.md5 # NoDigest /\ stored.md5 = md5(fed),
                 sha1 |-> stored.sha1 # NoDigest /\ stored.sha1 = sha1(fed)]
    /\ pc' = "done"
    /\ UNCHANGED <<req, resp, cancelled, off, fed, BytesHashed, BadRanges, stored>>

\* Mutated form of OK: the bad ranges are not looked at.
OKUnread ==
    /\ stored.md5 # NoDigest \/ stored.sha1 # NoDigest
    /\ stored.md5 # NoDigest => match.md5
    /\ stored.sha1 # NoDigest => match.sha1

\* VerifyResult.OK.
OK ==
    /\ BadRanges = <<>>
    /\ stored.md5 # NoDigest \/ stored.sha1 # NoDigest
    /\ stored.md5 # NoDigest => match.md5
    /\ stored.sha1 # NoDigest => match.sha1

Step == Begin \/ Stop \/ Read \/ Answered \/ Take \/ Finish

Next == Step \/ Cancel

Spec == Init /\ [][Next]_vars

\* The goroutine runs, and the reader answers it.
FairSpec == Spec /\ WF_vars(Step)

-----------------------------------------------------------------------------

\* The positions reported as unreadable.
Span(b) == b.Offset..(b.Offset + b.Length - 1)
Covered(ranges) == UNION {Span(ranges[k]) : k \in 1..Len(ranges)}
Bad == Covered(BadRanges)

\* What a byte fed to the digests, and the reason of a bad range, can be.
FedBytes == {Content[p] : p \in DOMAIN Content} \cup {Zero}
Reasons == {"EOF", "ErrInvalidOffset", "ErrCorruptImage", "ErrSource",
            "ErrDecompress", "short read"}
BadRange == [Offset : Nat, Length : Nat \ {0}, Err : Reasons]

TypeOK ==
    /\ pc \in {"start", "head", "reading", "done", "cancelled", "refused"}
    /\ cancelled \in BOOLEAN
    /\ off \in Nat
    /\ fed \in Seq(FedBytes)
    /\ BytesHashed \in Nat
    /\ BadRanges \in Seq(BadRange)

\* At every moment the digests have been fed one byte for each position passed:
\* the device's own where it was decoded, a zero where a range is reported, and
\* the count in the result says so.
FedIsDevice ==
    /\ BytesHashed = off
    /\ Len(fed) = off
    /\ \A p \in 0..(off - 1) :
         IF p \in Bad THEN fed[p + 1] = Zero
                      ELSE p \in DOMAIN Content /\ fed[p + 1] = Content[p]

\* The reported ranges come in order, do not overlap, and lie in the part of the
\* device that was passed.
RangesInOrder ==
    /\ \A k \in 1..Len(BadRanges) :
         BadRanges[k].Offset + BadRanges[k].Length <= off
    /\ \A j, k \in 1..Len(BadRanges) : j < k =>
         BadRanges[j].Offset + BadRanges[j].Length <= BadRanges[k].Offset

\* A range is reported for a reason: its first byte cannot be decoded, or the
\* source failed at the time.
RangesHonest ==
    \A k \in 1..Len(BadRanges) :
        \/ BadRanges[k].Err = "ErrSource"
        \/ BadRanges[k].Offset \notin DOMAIN Content

\* Every unreadable position passed is reported.
NothingHidden ==
    \A p \in 0..(off - 1) : p \notin DOMAIN Content => p \in Bad

WithinDevice ==
    /\ off > 0 => off <= Size
    /\ pc \in {"head", "reading", "done"} => Size > 0
    /\ pc = "reading" => off < Size
    /\ pc = "done" => off >= Size

\* While it waits, the question is the loop's and the answer, if there is one,
\* is legal.
Asked ==
    /\ DOMAIN resp = Readers
    /\ pc # "reading" => resp[verifier] = NoAnswer
    /\ pc = "reading" =>
        /\ req[verifier] = [off |-> off, len |-> want]
        /\ resp[verifier] # NoAnswer =>
             \E n \in 0..want :
             \E err \in Reasons \cup {"nil"} :
                /\ Legal(req[verifier], n, err)
                /\ resp[verifier] = [data |-> Run(off, n), err |-> err]

\* The verdict rests on the digests of what was fed.
Judged ==
    pc = "done" =>
        match = [md5  |-> stored.md5 # NoDigest /\ stored.md5 = md5(fed),
                 sha1 |-> stored.sha1 # NoDigest /\ stored.sha1 = sha1(fed)]

VerifyInv ==
    /\ TypeOK
    /\ FedIsDevice
    /\ RangesInOrder
    /\ RangesHonest
    /\ NothingHidden
    /\ WithinDevice
    /\ Asked
    /\ Judged

\* The whole device as a byte string, where all of it can be decoded.
Whole == [i \in 1..Size |-> Content[i - 1]]

\* A verdict of OK means what an examiner takes it to mean: every byte of the
\* device was decoded, some digest is recorded, and each recorded one is the
\* digest of those bytes.  A span replaced by zeros is never passed off as a
\* device that held zeros.
OKMeansIntact ==
    pc = "done" /\ OK =>
        /\ DOMAIN Content = 0..(Size - 1)
        /\ {stored.md5, stored.sha1} # {NoDigest}
        /\ stored.md5 \in {NoDigest, md5(Whole)}
        /\ stored.sha1 \in {NoDigest, sha1(Whole)}

\* An intact device is recognised unless a source failed under the read.
IntactIsOK ==
    /\ pc = "done"
    /\ DOMAIN Content = 0..(Size - 1)
    /\ {stored.md5, stored.sha1} # {NoDigest}
    /\ stored.md5 \in {NoDigest, md5(Whole)}
    /\ stored.sha1 \in {NoDigest, sha1(Whole)}
    /\ \A k \in 1..Len(BadRanges) : BadRanges[k].Err # "ErrSource"
    => OK

\* Verify ends, with a result or because it was cancelled, however much of the
\* device cannot be read.
Ends == pc = "start" ~> pc \in {"done", "cancelled", "refused"}

=============================================================================
