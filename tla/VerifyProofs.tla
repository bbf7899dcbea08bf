---------------------------- MODULE VerifyProofs ----------------------------
(***************************************************************************)
(* For any device, readable in whole or in part, any step and any recorded *)
(* digests: what Verify feeds, counts and reports is exact, and a verdict  *)
(* of OK is sound.                                                         *)
(***************************************************************************)
EXTENDS Verify, TLAPS

\* The run of the device that an answer carries.
LEMMA RunShape ==
    ASSUME NEW o \in Nat, NEW n \in Nat,
           \A p \in o..(o + n - 1) : p \in DOMAIN Content
    PROVE  /\ Run(o, n) \in Seq(FedBytes)
           /\ Len(Run(o, n)) = n
           /\ \A i \in 1..n : o + i - 1 \in DOMAIN Content /\ Run(o, n)[i] = Content[o + i - 1]
<1>1. \A i \in 1..n : o + i - 1 \in o..(o + n - 1)
  OBVIOUS
<1>2. \A i \in 1..n : o + i - 1 \in DOMAIN Content
  BY <1>1
<1>3. Run(o, n) \in [1..n -> FedBytes]
  BY <1>2 DEF Run, FedBytes
<1>4. Run(o, n) \in Seq(FedBytes) /\ Len(Run(o, n)) = n
  BY <1>3
<1> QED BY <1>2, <1>4 DEF Run

LEMMA ZerosShape ==
    ASSUME NEW n \in Nat
    PROVE  /\ zeros(n) \in Seq(FedBytes) /\ Len(zeros(n)) = n
           /\ \A i \in 1..n : zeros(n)[i] = Zero
<1>1. zeros(n) \in [1..n -> FedBytes]
  BY DEF zeros, FedBytes
<1> QED BY <1>1 DEF zeros

\* Appending a range to the report adds its positions.
LEMMA CoveredGrows ==
    ASSUME NEW S, NEW rs \in Seq(S), NEW b \in S
    PROVE  Covered(Append(rs, b)) = Covered(rs) \cup Span(b)
<1>1. Len(Append(rs, b)) = Len(rs) + 1 /\ Len(rs) \in Nat
  OBVIOUS
<1>2. \A k \in 1..Len(rs) : Append(rs, b)[k] = rs[k]
  OBVIOUS
<1>3. Append(rs, b)[Len(rs) + 1] = b
  OBVIOUS
<1>4. 1..(Len(rs) + 1) = 1..Len(rs) \cup {Len(rs) + 1}
  BY <1>1
<1> QED BY <1>1, <1>2, <1>3, <1>4 DEF Covered

\* want, at the head of the loop.
LEMMA WantRange ==
    ASSUME off \in Nat, off < Size
    PROVE  want \in Nat \ {0} /\ want <= step /\ off + want <= Size /\ Size \in Nat
BY VerifyAssumption DEF want

LEMMA InitVerify == Init => VerifyInv
<1> SUFFICES ASSUME Init PROVE VerifyInv
  OBVIOUS
<1>1. fed = <<>> /\ BadRanges = <<>> /\ off = 0 /\ pc = "start" /\ BytesHashed = 0
      /\ cancelled = FALSE
  BY DEF Init
<1>2. TypeOK
  <2>1. <<>> \in Seq(FedBytes) /\ <<>> \in Seq(BadRange)
    OBVIOUS
  <2> QED BY <1>1, <2>1 DEF TypeOK
<1>3. FedIsDevice /\ RangesInOrder /\ RangesHonest /\ NothingHidden
  BY <1>1 DEF FedIsDevice, RangesInOrder, RangesHonest, NothingHidden
<1>4. WithinDevice /\ Asked /\ Judged
  BY <1>1, VerifyAssumption DEF WithinDevice, Asked, Judged, Init, DeviceInit
<1> QED BY <1>2, <1>3, <1>4 DEF VerifyInv

\* Steps that move neither the offset nor anything fed or reported.
LEMMA NothingFed ==
    ASSUME VerifyInv, pc' \in {"start", "head", "reading", "done", "cancelled", "refused"},
           cancelled' \in BOOLEAN,
           UNCHANGED <<off, fed, BytesHashed, BadRanges>>
    PROVE  TypeOK' /\ FedIsDevice' /\ RangesInOrder' /\ RangesHonest' /\ NothingHidden'
BY DEF VerifyInv, TypeOK, FedIsDevice, RangesInOrder, RangesHonest, NothingHidden, Bad

LEMMA ReadInv == ASSUME VerifyInv, Read PROVE VerifyInv'
<1>1. /\ pc' = "reading" /\ off < Size /\ off' = off
      /\ UNCHANGED <<off, fed, BytesHashed, BadRanges, cancelled>>
      /\ req'[verifier] = [off |-> off, len |-> want] /\ UNCHANGED resp
      /\ pc = "head"
  BY DEF Read, Call
<1>2. TypeOK' /\ FedIsDevice' /\ RangesInOrder' /\ RangesHonest' /\ NothingHidden'
  BY <1>1, NothingFed DEF VerifyInv, TypeOK
<1>3. WithinDevice'
  BY <1>1 DEF VerifyInv, WithinDevice
<1>4. resp[verifier] = NoAnswer
  BY <1>1 DEF VerifyInv, Asked
<1>5. Asked'
  BY <1>1, <1>4 DEF VerifyInv, Asked, want
<1>6. Judged'
  BY <1>1 DEF Judged
<1> QED BY <1>2, <1>3, <1>5, <1>6 DEF VerifyInv

LEMMA BeginInv == ASSUME VerifyInv, Begin PROVE VerifyInv'
<1>1. /\ pc = "start" /\ pc' = IF Size <= 0 THEN "refused" ELSE "head"
      /\ UNCHANGED <<off, fed, BytesHashed, BadRanges, cancelled, resp>>
  BY DEF Begin
<1>2. TypeOK' /\ FedIsDevice' /\ RangesInOrder' /\ RangesHonest' /\ NothingHidden'
  BY <1>1, NothingFed DEF VerifyInv, TypeOK
<1>3. WithinDevice'
  BY <1>1, VerifyAssumption DEF VerifyInv, WithinDevice
<1>4. Asked' /\ Judged'
  BY <1>1 DEF VerifyInv, Asked, Judged
<1> QED BY <1>2, <1>3, <1>4 DEF VerifyInv

LEMMA CancelInv == ASSUME VerifyInv, Cancel PROVE VerifyInv'
<1>1. cancelled' = TRUE /\ UNCHANGED <<off, fed, BytesHashed, BadRanges, pc, req, resp,
                                        stored, match>>
  BY DEF Cancel
<1>2. TypeOK' /\ FedIsDevice' /\ RangesInOrder' /\ RangesHonest' /\ NothingHidden'
  BY <1>1, NothingFed DEF VerifyInv, TypeOK
<1>3. WithinDevice' /\ Asked' /\ Judged'
  BY <1>1 DEF VerifyInv, WithinDevice, Asked, Judged, want
<1> QED BY <1>2, <1>3 DEF VerifyInv

LEMMA StopInv == ASSUME VerifyInv, Stop PROVE VerifyInv'
<1>1. /\ pc = "head" /\ pc' = "cancelled"
      /\ UNCHANGED <<off, fed, BytesHashed, BadRanges, cancelled, resp>>
  BY DEF Stop
<1>2. TypeOK' /\ FedIsDevice' /\ RangesInOrder' /\ RangesHonest' /\ NothingHidden'
  BY <1>1, NothingFed DEF VerifyInv, TypeOK
<1>3. WithinDevice' /\ Asked' /\ Judged'
  BY <1>1 DEF VerifyInv, WithinDevice, Asked, Judged
<1> QED BY <1>2, <1>3 DEF VerifyInv

LEMMA FinishInv == ASSUME VerifyInv, Finish PROVE VerifyInv'
<1>1. /\ pc = "head" /\ pc' = "done" /\ off >= Size
      /\ UNCHANGED <<off, fed, BytesHashed, BadRanges, cancelled, resp, stored>>
  BY DEF Finish
<1>2. TypeOK' /\ FedIsDevice' /\ RangesInOrder' /\ RangesHonest' /\ NothingHidden'
  BY <1>1, NothingFed DEF VerifyInv, TypeOK
<1>3. WithinDevice'
  BY <1>1 DEF VerifyInv, WithinDevice
<1>4. Asked'
  BY <1>1 DEF VerifyInv, Asked
<1>5. Judged'
  BY <1>1 DEF Finish, Judged
<1> QED BY <1>2, <1>3, <1>4, <1>5 DEF VerifyInv

\* The device's answer is kept as it was given.
LEMMA AnsweredInv == ASSUME VerifyInv, Answered PROVE VerifyInv'
<1>1. /\ pc = "reading" /\ Answer(verifier)
      /\ UNCHANGED <<off, fed, BytesHashed, BadRanges, cancelled, pc, stored, match, req>>
  BY DEF Answered, verifyVars, Answer
<1>2. TypeOK' /\ FedIsDevice' /\ RangesInOrder' /\ RangesHonest' /\ NothingHidden'
  BY <1>1, NothingFed DEF VerifyInv, TypeOK
<1>3. WithinDevice' /\ Judged'
  BY <1>1 DEF VerifyInv, WithinDevice, Judged
<1>4. Asked'
  <2>1. req[verifier] = [off |-> off, len |-> want] /\ DOMAIN resp = Readers
    BY <1>1 DEF VerifyInv, Asked
  <2>2. PICK n \in 0..req[verifier].len,
             err \in {"nil", "EOF", "ErrInvalidOffset", "ErrCorruptImage",
                      "ErrSource", "ErrDecompress"} :
          /\ Legal(req[verifier], n, err)
          /\ resp' = [resp EXCEPT ![verifier] = [data |-> Run(req[verifier].off, n),
                                                err |-> err]]
    BY <1>1 DEF Answer
  <2>3. resp'[verifier] = [data |-> Run(off, n), err |-> err] /\ DOMAIN resp' = Readers
    BY <2>1, <2>2, VerifyAssumption
  <2>4. n \in 0..want
    BY <2>1, <2>2
  <2>5. err \in Reasons \cup {"nil"}
    BY <2>2 DEF Reasons
  <2> QED BY <1>1, <2>1, <2>2, <2>3, <2>4, <2>5 DEF Asked, want
<1> QED BY <1>2, <1>3, <1>4 DEF VerifyInv

-----------------------------------------------------------------------------
(* One read. *)

\* Two strings joined, position by position, and three.
LEMMA JoinedTwo ==
    ASSUME NEW S, NEW f \in Seq(S), NEW d \in Seq(S)
    PROVE  /\ f \o d \in Seq(S) /\ Len(f \o d) = Len(f) + Len(d)
           /\ \A i \in 1..Len(f) : (f \o d)[i] = f[i]
           /\ \A i \in 1..Len(d) : (f \o d)[Len(f) + i] = d[i]
OBVIOUS

JoinedAs(w, S, f, d, z) ==
    /\ w \in Seq(S)
    /\ Len(w) = Len(f) + Len(d) + Len(z)
    /\ \A i \in 1..Len(f) : w[i] = f[i]
    /\ \A i \in 1..Len(d) : w[Len(f) + i] = d[i]
    /\ \A i \in 1..Len(z) : w[Len(f) + Len(d) + i] = z[i]

LEMMA Joined ==
    ASSUME NEW S, NEW f \in Seq(S), NEW d \in Seq(S), NEW z \in Seq(S)
    PROVE  JoinedAs((f \o d) \o z, S, f, d, z)
<1> DEFINE h == f \o d
<1>1. Len(f) \in Nat /\ Len(d) \in Nat /\ Len(z) \in Nat
  OBVIOUS
<1>2. /\ h \in Seq(S) /\ Len(h) = Len(f) + Len(d)
      /\ \A i \in 1..Len(f) : h[i] = f[i]
      /\ \A i \in 1..Len(d) : h[Len(f) + i] = d[i]
  BY JoinedTwo
<1> HIDE DEF h
<1>0. h \in Seq(S)
  BY <1>2
<1>3. /\ h \o z \in Seq(S) /\ Len(h \o z) = Len(h) + Len(z)
      /\ \A i \in 1..Len(h) : (h \o z)[i] = h[i]
      /\ \A i \in 1..Len(z) : (h \o z)[Len(h) + i] = z[i]
  <2>1. h \o z \in Seq(S)
    BY <1>0
  <2>2. Len(h \o z) = Len(h) + Len(z)
    BY <1>0
  <2>3. \A i \in 1..Len(h) : (h \o z)[i] = h[i]
    BY <1>0
  <2>4. \A i \in 1..Len(z) : (h \o z)[Len(h) + i] = z[i]
    BY <1>0
  <2> QED BY <2>1, <2>2, <2>3, <2>4
<1>4. \A i \in 1..Len(f) : i \in 1..Len(h)
  BY <1>1, <1>2
<1>5. \A i \in 1..Len(d) : Len(f) + i \in 1..Len(h)
  BY <1>1, <1>2
<1>6. /\ h \o z \in Seq(S) /\ Len(h \o z) = Len(f) + Len(d) + Len(z)
      /\ \A i \in 1..Len(f) : (h \o z)[i] = f[i]
      /\ \A i \in 1..Len(d) : (h \o z)[Len(f) + i] = d[i]
      /\ \A i \in 1..Len(z) : (h \o z)[Len(f) + Len(d) + i] = z[i]
  BY <1>2, <1>3, <1>4, <1>5
<1> DEFINE w == h \o z
<1>7. JoinedAs(w, S, f, d, z)
  <2> HIDE DEF w
  <2> SUFFICES /\ w \in Seq(S) /\ Len(w) = Len(f) + Len(d) + Len(z)
               /\ \A i \in 1..Len(f) : w[i] = f[i]
               /\ \A i \in 1..Len(d) : w[Len(f) + i] = d[i]
               /\ \A i \in 1..Len(z) : w[Len(f) + Len(d) + i] = z[i]
    BY DEF JoinedAs
  <2> QED BY <1>6 DEF w
<1> QED BY <1>7 DEF h

\* The bytes fed before, the run that came back, and zeros behind it.
Decoded(o, n) == \A p \in o..(o + n - 1) : p \in DOMAIN Content

FedAs(w, f, o, n, g) ==
    /\ w \in Seq(FedBytes)
    /\ Len(w) = o + n + g
    /\ \A p \in 0..(o - 1) : w[p + 1] = f[p + 1]
    /\ \A p \in o..(o + n - 1) : w[p + 1] = Content[p]
    /\ \A p \in (o + n)..(o + n + g - 1) : w[p + 1] = Zero

LEMMA FedShape ==
    ASSUME NEW f \in Seq(FedBytes), NEW o \in Nat, Len(f) = o, NEW n \in Nat, NEW g \in Nat,
           Decoded(o, n)
    PROVE  FedAs((f \o Run(o, n)) \o zeros(g), f, o, n, g)
<1> DEFINE d == Run(o, n)
           z == zeros(g)
           w == (f \o d) \o z
<1>1. /\ d \in Seq(FedBytes) /\ Len(d) = n
      /\ \A i \in 1..n : d[i] = Content[o + i - 1]
  BY RunShape DEF Decoded
<1>2. z \in Seq(FedBytes) /\ Len(z) = g /\ \A i \in 1..g : z[i] = Zero
  BY ZerosShape
<1> HIDE DEF d, z
<1>3. /\ w \in Seq(FedBytes) /\ Len(w) = o + n + g
      /\ \A i \in 1..o : w[i] = f[i]
      /\ \A i \in 1..n : w[o + i] = d[i]
      /\ \A i \in 1..g : w[o + n + i] = z[i]
  <2>1. /\ w \in Seq(FedBytes) /\ Len(w) = Len(f) + Len(d) + Len(z)
        /\ \A i \in 1..Len(f) : w[i] = f[i]
        /\ \A i \in 1..Len(d) : w[Len(f) + i] = d[i]
        /\ \A i \in 1..Len(z) : w[Len(f) + Len(d) + i] = z[i]
    <3>1. d \in Seq(FedBytes) /\ z \in Seq(FedBytes)
      BY <1>1, <1>2
    <3>2. JoinedAs(w, FedBytes, f, d, z)
      BY <3>1, Joined
    <3> HIDE DEF w
    <3> QED BY <3>2 DEF JoinedAs
  <2> HIDE DEF w
  <2> QED BY <1>1, <1>2, <2>1
<1> HIDE DEF w
<1>4. ASSUME NEW p \in 0..(o - 1) PROVE w[p + 1] = f[p + 1]
  BY <1>3
<1>5. ASSUME NEW p \in o..(o + n - 1) PROVE w[p + 1] = Content[p]
  <2>1. PICK i \in 1..n : p + 1 = o + i /\ o + i - 1 = p
    <3>1. p + 1 - o \in 1..n /\ p + 1 = o + (p + 1 - o) /\ o + (p + 1 - o) - 1 = p
      OBVIOUS
    <3> QED BY <3>1
  <2> QED BY <1>1, <1>3, <2>1
<1>6. ASSUME NEW p \in (o + n)..(o + n + g - 1) PROVE w[p + 1] = Zero
  <2>1. PICK i \in 1..g : p + 1 = o + n + i
    <3>1. p + 1 - (o + n) \in 1..g /\ p + 1 = o + n + (p + 1 - (o + n))
      OBVIOUS
    <3> QED BY <3>1
  <2> QED BY <1>2, <1>3, <2>1
<1>7. FedAs(w, f, o, n, g)
  BY <1>3, <1>4, <1>5, <1>6 DEF FedAs
<1> QED BY <1>7 DEF w, d, z

\* What Take does, in terms of the number n of bytes that came back.
LEMMA TakeShape ==
    ASSUME VerifyInv, Take
    PROVE  \E n \in 0..want, err \in Reasons \cup {"nil"} :
              /\ \A p \in off..(off + n - 1) : p \in DOMAIN Content
              /\ n < want => err \in Reasons /\ (err = "ErrSource" \/ off + n \notin DOMAIN Content)
              /\ off' = off + want
              /\ BytesHashed' = off + want
              /\ n < want =>
                   /\ fed' = (fed \o Run(off, n)) \o zeros(want - n)
                   /\ BadRanges' = Append(BadRanges, [Offset |-> off + n, Length |-> want - n,
                                                      Err |-> err])
              /\ n = want => fed' = fed \o Run(off, n) /\ BadRanges' = BadRanges
<1>1. /\ pc = "reading" /\ resp[verifier] # NoAnswer /\ off \in Nat /\ off < Size
      /\ BytesHashed = off
  BY DEF Take, VerifyInv, WithinDevice, TypeOK, FedIsDevice
<1>2. PICK n \in 0..want, err \in Reasons \cup {"nil"} :
          /\ Legal(req[verifier], n, err)
          /\ resp[verifier] = [data |-> Run(off, n), err |-> err]
  BY <1>1 DEF VerifyInv, Asked
<1>3. req[verifier] = [off |-> off, len |-> want]
  BY <1>1 DEF VerifyInv, Asked
<1>4. want \in Nat \ {0} /\ n \in Nat /\ n <= want
  BY <1>1, <1>2, WantRange
<1>5. /\ \A p \in off..(off + n - 1) : p \in DOMAIN Content
      /\ err = "nil" <=> n = want
      /\ n < want => err = "ErrSource" \/ off + n \notin DOMAIN Content
  BY <1>2, <1>3 DEF Legal
<1>6. Len(resp[verifier].data) = n
  <2>1. resp[verifier].data = Run(off, n)
    BY <1>2
  <2>2. Len(Run(off, n)) = n
    BY <1>1, <1>4, <1>5, RunShape
  <2> QED BY <2>1, <2>2
<1>7. n < want => err # "nil" /\ err \in Reasons
  BY <1>2, <1>4, <1>5
<1>8. /\ BytesHashed' = hashed(n) /\ off' = advance(n)
      /\ \/ /\ n < want
            /\ fed' = (fed \o resp[verifier].data) \o zeros(want - n)
            /\ BadRanges' = Append(BadRanges,
                 [Offset |-> gapAt(n), Length |-> want - n,
                  Err |-> IF resp[verifier].err = "nil" THEN "short read"
                                                        ELSE resp[verifier].err])
         \/ /\ n >= want
            /\ fed' = fed \o resp[verifier].data
            /\ BadRanges' = BadRanges
  BY <1>6 DEF Take
<1>9. resp[verifier].data = Run(off, n) /\ resp[verifier].err = err
  BY <1>2
<1>10. off' = off + want /\ BytesHashed' = off + want
  <2>1. hashed(n) = off + want
    BY <1>1, <1>4 DEF hashed
  <2> QED BY <1>8, <2>1 DEF advance
<1>11. n < want =>
        /\ fed' = (fed \o Run(off, n)) \o zeros(want - n)
        /\ BadRanges' = Append(BadRanges, [Offset |-> off + n, Length |-> want - n,
                                           Err |-> err])
  BY <1>4, <1>7, <1>8, <1>9 DEF gapAt
<1>12. n = want => fed' = fed \o Run(off, n) /\ BadRanges' = BadRanges
  <2>1. n = want => ~(n < want)
    BY <1>4
  <2> QED BY <1>8, <1>9, <2>1, Zenon
<1> QED BY <1>2, <1>5, <1>7, <1>10, <1>11, <1>12

LEMMA TakeInv == ASSUME VerifyInv, Take PROVE VerifyInv'
<1>1. /\ off \in Nat /\ off < Size /\ fed \in Seq(FedBytes) /\ Len(fed) = off
      /\ BadRanges \in Seq(BadRange) /\ cancelled \in BOOLEAN
      /\ pc' = "head" /\ cancelled' = cancelled
  BY DEF Take, VerifyInv, WithinDevice, TypeOK, FedIsDevice
<1>2. want \in Nat \ {0} /\ off + want <= Size /\ Size \in Nat
  BY <1>1, WantRange
<1>3. PICK n \in 0..want, err \in Reasons \cup {"nil"} :
          /\ \A p \in off..(off + n - 1) : p \in DOMAIN Content
          /\ n < want => err \in Reasons /\ (err = "ErrSource" \/ off + n \notin DOMAIN Content)
          /\ off' = off + want
          /\ BytesHashed' = off + want
          /\ n < want =>
               /\ fed' = (fed \o Run(off, n)) \o zeros(want - n)
               /\ BadRanges' = Append(BadRanges, [Offset |-> off + n, Length |-> want - n,
                                                  Err |-> err])
          /\ n = want => fed' = fed \o Run(off, n) /\ BadRanges' = BadRanges
  BY TakeShape
<1>4. n \in Nat /\ n <= want
  BY <1>2, <1>3
<1> DEFINE gap == (off + n)..(off + want - 1)
           b   == [Offset |-> off + n, Length |-> want - n, Err |-> err]
<1>5. /\ fed' \in Seq(FedBytes) /\ Len(fed') = off + want
      /\ \A p \in 0..(off - 1) : fed'[p + 1] = fed[p + 1]
      /\ \A p \in off..(off + n - 1) : fed'[p + 1] = Content[p]
      /\ \A p \in gap : fed'[p + 1] = Zero
  <2>4. ASSUME NEW g \in Nat, fed' = (fed \o Run(off, n)) \o zeros(g),
               off + n + g = off + want
        PROVE  /\ fed' \in Seq(FedBytes) /\ Len(fed') = off + want
               /\ \A p \in 0..(off - 1) : fed'[p + 1] = fed[p + 1]
               /\ \A p \in off..(off + n - 1) : fed'[p + 1] = Content[p]
               /\ \A p \in gap : fed'[p + 1] = Zero
    <3> DEFINE w == (fed \o Run(off, n)) \o zeros(g)
    <3>1. \A p \in off..(off + n - 1) : p \in DOMAIN Content
      BY <1>3
    <3>2. /\ w \in Seq(FedBytes) /\ Len(w) = off + n + g
          /\ \A p \in 0..(off - 1) : w[p + 1] = fed[p + 1]
          /\ \A p \in off..(off + n - 1) : w[p + 1] = Content[p]
          /\ \A p \in (off + n)..(off + n + g - 1) : w[p + 1] = Zero
      <4>1. fed \in Seq(FedBytes) /\ off \in Nat /\ Len(fed) = off /\ n \in Nat /\ g \in Nat
        BY <1>1, <1>4
      <4>2. Decoded(off, n)
        BY <3>1 DEF Decoded
      <4>3. FedAs(w, fed, off, n, g)
        BY <4>1, <4>2, FedShape
      <4> HIDE DEF w
      <4> QED BY <4>3 DEF FedAs
    <3>3. fed' = w
      BY <2>4
    <3> HIDE DEF w
    <3>4. (off + n)..(off + n + g - 1) = gap
      <4>1. off + n + g - 1 = off + want - 1
        BY <1>1, <1>2, <1>4, <2>4
      <4> QED BY <4>1
    <3> HIDE DEF gap
    <3> QED BY <2>4, <3>2, <3>3, <3>4
  <2>1. CASE n < want
    <3>1. want - n \in Nat /\ off + n + (want - n) = off + want
      BY <1>1, <1>2, <1>4
    <3> DEFINE g == want - n
    <3>2. fed' = (fed \o Run(off, n)) \o zeros(g)
      BY <1>3, <2>1
    <3>3. g \in Nat /\ off + n + g = off + want
      BY <3>1
    <3> HIDE DEF g, gap
    <3> QED BY <1>3, <3>2, <3>3, <2>4
  <2>2. CASE n = want
    <3>1. Run(off, n) \in Seq(FedBytes)
      BY <1>1, <1>3, <1>4, RunShape
    <3>2. zeros(0) = <<>>
      BY DEF zeros
    <3>3. fed' = (fed \o Run(off, n)) \o zeros(0)
      <4>1. \A h \in Seq(FedBytes) : h \o <<>> = h
        OBVIOUS
      <4>2. fed \o Run(off, n) \in Seq(FedBytes)
        BY <1>1, <3>1
      <4> QED BY <1>3, <2>2, <3>2, <4>1, <4>2
    <3>4. off + n + 0 = off + want
      BY <1>1, <1>2, <1>4, <2>2
    <3> HIDE DEF gap
    <3> QED BY <3>3, <3>4, <2>4
  <2> QED BY <1>2, <1>4, <2>1, <2>2
<1>6. n < want => b \in BadRange /\ Span(b) = gap
  <2>1. n < want => off + n \in Nat /\ want - n \in Nat \ {0}
                    /\ off + n + (want - n) - 1 = off + want - 1
    BY <1>1, <1>2, <1>4
  <2> QED BY <1>3, <2>1 DEF Span, BadRange
<1>7. BadRanges' \in Seq(BadRange) /\ Bad' = Bad \cup gap
  <2>1. CASE n < want
    <3>1. BadRanges' = Append(BadRanges, b) /\ b \in BadRange /\ Span(b) = gap
      BY <1>3, <1>6, <2>1
    <3> HIDE DEF b, gap
    <3>2. Covered(Append(BadRanges, b)) = Covered(BadRanges) \cup Span(b)
      BY <1>1, <3>1, CoveredGrows
    <3>3. Append(BadRanges, b) \in Seq(BadRange)
      BY <1>1, <3>1
    <3> QED BY <3>1, <3>2, <3>3 DEF Bad
  <2>2. CASE n = want
    <3>1. gap = {}
      BY <1>1, <1>2, <2>2
    <3> QED BY <1>1, <1>3, <2>2, <3>1 DEF Bad
  <2> QED BY <1>2, <1>4, <2>1, <2>2
<1>8. \A p \in Bad : p \in 0..(off - 1)
  <2>1. ASSUME NEW k \in 1..Len(BadRanges), NEW p \in Span(BadRanges[k])
        PROVE  p \in 0..(off - 1)
    <3>1. BadRanges[k] \in BadRange /\ BadRanges[k].Offset + BadRanges[k].Length <= off
      BY <1>1 DEF VerifyInv, RangesInOrder
    <3> QED BY <1>1, <3>1, <2>1 DEF Span, BadRange
  <2> QED BY <2>1 DEF Bad, Covered
<1>9. TypeOK'
  BY <1>1, <1>2, <1>3, <1>5, <1>7 DEF TypeOK
<1>10. FedIsDevice'
  <2>0. off' = off + want
    BY <1>3
  <2>1. ASSUME NEW p \in 0..(off' - 1)
        PROVE  IF p \in Bad' THEN fed'[p + 1] = Zero
                              ELSE p \in DOMAIN Content /\ fed'[p + 1] = Content[p]
    <3>1. p \in 0..(off - 1) \/ p \in off..(off + n - 1) \/ p \in gap
      BY <1>1, <1>2, <1>4, <2>0
    <3>2. CASE p \in 0..(off - 1)
      <4>1. p \notin gap
        BY <1>1, <1>2, <1>4, <3>2
      <4>2. IF p \in Bad THEN fed[p + 1] = Zero
                         ELSE p \in DOMAIN Content /\ fed[p + 1] = Content[p]
        BY <3>2 DEF VerifyInv, FedIsDevice
      <4> QED BY <1>5, <1>7, <3>2, <4>1, <4>2
    <3>3. CASE p \in off..(off + n - 1)
      <4>1. p \notin gap /\ p \notin 0..(off - 1)
        BY <1>1, <1>2, <1>4, <3>3
      <4> QED BY <1>3, <1>5, <1>7, <1>8, <3>3, <4>1
    <3>4. CASE p \in gap
      BY <1>5, <1>7, <3>4
    <3> QED BY <3>1, <3>2, <3>3, <3>4
  <2>2. BytesHashed' = off' /\ Len(fed') = off'
    BY <1>3, <1>5
  <2> QED BY <2>1, <2>2 DEF FedIsDevice
<1>11. NothingHidden'
  <2>0. off' = off + want
    BY <1>3
  <2>1. ASSUME NEW p \in 0..(off' - 1), p \notin DOMAIN Content PROVE p \in Bad'
    <3>1. p \in 0..(off - 1) \/ p \in off..(off + n - 1) \/ p \in gap
      BY <1>1, <1>2, <1>4, <2>0
    <3>2. CASE p \in 0..(off - 1)
      BY <1>7, <2>1, <3>2 DEF VerifyInv, NothingHidden
    <3> QED BY <1>3, <1>7, <2>1, <3>1, <3>2
  <2> QED BY <2>1 DEF NothingHidden
<1>12. RangesInOrder' /\ RangesHonest'
  <2>1. CASE n = want
    <3>1. BadRanges' = BadRanges /\ off' = off + want
      BY <1>3, <2>1
    <3>2. \A k \in 1..Len(BadRanges) :
            BadRanges[k] \in BadRange /\ BadRanges[k].Offset + BadRanges[k].Length <= off
      BY <1>1 DEF VerifyInv, RangesInOrder
    <3>3. \A k \in 1..Len(BadRanges) :
            BadRanges[k].Offset + BadRanges[k].Length <= off + want
      BY <1>1, <1>2, <3>2 DEF BadRange
    <3> QED BY <3>1, <3>3 DEF VerifyInv, RangesInOrder, RangesHonest
  <2>2. CASE n < want
    <3>1. BadRanges' = Append(BadRanges, b) /\ off' = off + want
      BY <1>3, <2>2
    <3>2. /\ Len(BadRanges') = Len(BadRanges) + 1 /\ Len(BadRanges) \in Nat
          /\ \A k \in 1..Len(BadRanges) : BadRanges'[k] = BadRanges[k]
          /\ BadRanges'[Len(BadRanges) + 1] = b
      BY <1>1, <3>1
    <3>3. \A k \in 1..Len(BadRanges) :
            BadRanges[k] \in BadRange /\ BadRanges[k].Offset + BadRanges[k].Length <= off
      BY <1>1 DEF VerifyInv, RangesInOrder
    <3>4. b.Offset = off + n /\ b.Length = want - n /\ b.Err = err
      OBVIOUS
    <3> HIDE DEF b
    <3>5. \A k \in 1..(Len(BadRanges) + 1) :
            k \in 1..Len(BadRanges) \/ k = Len(BadRanges) + 1
      BY <3>2
    <3>6. \A k \in 1..Len(BadRanges') :
            BadRanges'[k].Offset + BadRanges'[k].Length <= off'
      <4>1. b.Offset + b.Length <= off + want
        BY <1>1, <1>2, <1>4, <3>4
      <4>2. \A k \in 1..Len(BadRanges) :
              BadRanges[k].Offset + BadRanges[k].Length <= off + want
        BY <1>1, <1>2, <3>3 DEF BadRange
      <4> QED BY <3>1, <3>2, <3>5, <4>1, <4>2
    <3>7. ASSUME NEW j \in 1..Len(BadRanges'), NEW k \in 1..Len(BadRanges'), j < k
          PROVE  BadRanges'[j].Offset + BadRanges'[j].Length <= BadRanges'[k].Offset
      <4>1. j \in 1..Len(BadRanges)
        BY <3>2, <3>7
      <4>2. CASE k \in 1..Len(BadRanges)
        BY <3>2, <3>7, <4>1, <4>2 DEF VerifyInv, RangesInOrder
      <4>3. CASE k = Len(BadRanges) + 1
        <5>1. BadRanges[j].Offset + BadRanges[j].Length <= off + n
          BY <1>1, <1>4, <3>3, <4>1 DEF BadRange
        <5> QED BY <3>2, <3>4, <4>1, <4>3, <5>1
      <4> QED BY <3>2, <3>5, <4>2, <4>3
    <3>8. RangesHonest'
      <4>1. b.Err = "ErrSource" \/ b.Offset \notin DOMAIN Content
        BY <1>3, <2>2, <3>4
      <4>2. \A k \in 1..Len(BadRanges) : \/ BadRanges[k].Err = "ErrSource"
                                         \/ BadRanges[k].Offset \notin DOMAIN Content
        BY DEF VerifyInv, RangesHonest
      <4> QED BY <3>2, <3>5, <4>1, <4>2 DEF RangesHonest
    <3> QED BY <3>6, <3>7, <3>8 DEF RangesInOrder
  <2> QED BY <1>2, <1>4, <2>1, <2>2
<1>13. WithinDevice' /\ Judged'
  BY <1>1, <1>2, <1>3 DEF WithinDevice, Judged
<1>14. Asked'
  <2>1. DOMAIN resp = Readers /\ resp' = [resp EXCEPT ![verifier] = NoAnswer]
    BY DEF Take, Return, VerifyInv, Asked
  <2> QED BY <1>1, <2>1, VerifyAssumption DEF Asked
<1> QED BY <1>9, <1>10, <1>11, <1>12, <1>13, <1>14 DEF VerifyInv

LEMMA NextVerify == ASSUME VerifyInv, [Next]_vars PROVE VerifyInv'
<1>1. CASE Next
  BY <1>1, BeginInv, StopInv, ReadInv, AnsweredInv, TakeInv, FinishInv, CancelInv
     DEF Next, Step
<1>2. CASE UNCHANGED vars
  BY <1>2 DEF vars, VerifyInv, TypeOK, FedIsDevice, RangesInOrder, RangesHonest,
              NothingHidden, WithinDevice, Asked, Judged, Bad, want
<1> QED BY <1>1, <1>2

\* For every device and however its reads fail: the digests are fed one byte per
\* position, the reported ranges are exactly the positions replaced by zeros,
\* in order and without overlap, and no unreadable position is left out.
THEOREM ReportIsExact == Spec => []VerifyInv
<1>1. VerifyInv /\ [Next]_vars => VerifyInv'
  BY NextVerify
<1> QED BY InitVerify, <1>1, PTL DEF Spec

\* A verdict of OK is given only to a device that decodes in full to the bytes
\* whose digests the image records.
THEOREM VerdictIsSound == Spec => []OKMeansIntact
<1>1. VerifyInv => OKMeansIntact
  <2> SUFFICES ASSUME VerifyInv, pc = "done", OK
               PROVE  /\ DOMAIN Content = 0..(Size - 1)
                      /\ {stored.md5, stored.sha1} # {NoDigest}
                      /\ stored.md5 \in {NoDigest, md5(Whole)}
                      /\ stored.sha1 \in {NoDigest, sha1(Whole)}
    BY DEF OKMeansIntact
  <2>1. off = Size /\ Size \in Nat /\ off \in Nat
    BY VerifyAssumption DEF VerifyInv, WithinDevice, TypeOK
  <2>2. Bad = {}
    BY DEF OK, Bad, Covered
  <2>3. \A p \in 0..(Size - 1) : p \in DOMAIN Content /\ fed[p + 1] = Content[p]
    BY <2>1, <2>2 DEF VerifyInv, FedIsDevice
  <2>4. DOMAIN Content = 0..(Size - 1)
    BY <2>3, VerifyAssumption
  <2>5. fed = Whole
    <3>1. fed \in Seq(FedBytes) /\ Len(fed) = Size
      BY <2>1 DEF VerifyInv, TypeOK, FedIsDevice
    <3>2. \A i \in 1..Size : i - 1 \in 0..(Size - 1) /\ (i - 1) + 1 = i
      BY <2>1
    <3>3. \A i \in 1..Size : fed[i] = Content[i - 1]
      BY <2>3, <3>2
    <3>4. fed = [i \in 1..Size |-> fed[i]]
      BY <3>1
    <3> QED BY <3>3, <3>4 DEF Whole
  <2>6. match = [md5  |-> stored.md5 # NoDigest /\ stored.md5 = md5(fed),
                 sha1 |-> stored.sha1 # NoDigest /\ stored.sha1 = sha1(fed)]
    BY DEF VerifyInv, Judged
  <2>7. /\ stored.md5 # NoDigest => stored.md5 = md5(fed)
        /\ stored.sha1 # NoDigest => stored.sha1 = sha1(fed)
    BY <2>6 DEF OK
  <2>8. {stored.md5, stored.sha1} # {NoDigest}
    BY DEF OK
  <2> QED BY <2>4, <2>5, <2>7, <2>8
<1> QED BY <1>1, ReportIsExact, PTL

\* And the other way round, for any device all of whose bytes decode: unless a
\* source failed under a read, the verdict is OK when the digests recorded are
\* those of the device.
THEOREM VerdictIsComplete == Spec => []IntactIsOK
<1>1. VerifyInv => IntactIsOK
  <2> SUFFICES ASSUME VerifyInv, pc = "done", DOMAIN Content = 0..(Size - 1),
                      {stored.md5, stored.sha1} # {NoDigest},
                      stored.md5 \in {NoDigest, md5(Whole)},
                      stored.sha1 \in {NoDigest, sha1(Whole)},
                      \A k \in 1..Len(BadRanges) : BadRanges[k].Err # "ErrSource"
               PROVE  OK
    BY DEF IntactIsOK
  <2>1. off = Size /\ Size \in Nat /\ off \in Nat
    BY VerifyAssumption DEF VerifyInv, WithinDevice, TypeOK
  <2>2. BadRanges \in Seq(BadRange) /\ Len(BadRanges) \in Nat
    BY DEF VerifyInv, TypeOK
  <2>3. Len(BadRanges) = 0
    <3> SUFFICES ASSUME Len(BadRanges) # 0 PROVE FALSE
      OBVIOUS
    <3>1. 1 \in 1..Len(BadRanges)
      BY <2>2
    <3>2. BadRanges[1] \in BadRange
      BY <2>2, <3>1
    <3>3. BadRanges[1].Offset \in Nat /\ BadRanges[1].Length \in Nat \ {0}
      BY <3>2 DEF BadRange
    <3>4. BadRanges[1].Offset + BadRanges[1].Length <= off
      BY <3>1 DEF VerifyInv, RangesInOrder
    <3>5. BadRanges[1].Offset \in 0..(Size - 1)
      BY <2>1, <3>3, <3>4
    <3>6. BadRanges[1].Offset \notin DOMAIN Content
      BY <3>1 DEF VerifyInv, RangesHonest
    <3> QED BY <3>5, <3>6
  <2>4. BadRanges = <<>> /\ Bad = {}
    BY <2>2, <2>3 DEF Bad, Covered
  <2>5. \A p \in 0..(Size - 1) : fed[p + 1] = Content[p]
    BY <2>1, <2>4 DEF VerifyInv, FedIsDevice
  <2>6. fed = Whole
    <3>1. fed \in Seq(FedBytes) /\ Len(fed) = Size
      BY <2>1 DEF VerifyInv, TypeOK, FedIsDevice
    <3>2. \A i \in 1..Size : i - 1 \in 0..(Size - 1) /\ (i - 1) + 1 = i
      BY <2>1
    <3>3. \A i \in 1..Size : fed[i] = Content[i - 1]
      BY <2>5, <3>2
    <3>4. fed = [i \in 1..Size |-> fed[i]]
      BY <3>1
    <3> QED BY <3>3, <3>4 DEF Whole
  <2>7. match = [md5  |-> stored.md5 # NoDigest /\ stored.md5 = md5(fed),
                 sha1 |-> stored.sha1 # NoDigest /\ stored.sha1 = sha1(fed)]
    BY DEF VerifyInv, Judged
  <2>8. /\ stored.md5 # NoDigest => match.md5
        /\ stored.sha1 # NoDigest => match.sha1
    BY <2>6, <2>7
  <2>9. stored.md5 # NoDigest \/ stored.sha1 # NoDigest
    OBVIOUS
  <2> QED BY <2>4, <2>8, <2>9 DEF OK
<1> QED BY <1>1, ReportIsExact, PTL

=============================================================================
