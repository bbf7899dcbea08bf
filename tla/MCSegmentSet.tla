---------------------------- MODULE MCSegmentSet ----------------------------
(***************************************************************************)
(* Sets of up to three segments drawn, in any order and with repetition,   *)
(* from an acquisition of three segments, a segment of another acquisition *)
(* and damaged or foreign variants of them.                                *)
(***************************************************************************)
EXTENDS SegmentSet

CONSTANTS d1, d2

Media     == [BytesPerSector |-> 2, SectorsPerChunk |-> 2, NumberOfSectors |-> 9]
MediaZero == [BytesPerSector |-> 0, SectorsPerChunk |-> 2, NumberOfSectors |-> 9]

Sec(t) == [Type |-> t, DataFlags |-> {}]
Secret(t) == [Type |-> t, DataFlags |-> {"Encrypted"}]
Hashed(t) == [Type |-> t, DataFlags |-> {"HasIntegrityHash"}]

NoFields == [f \in Fields |-> None]

\* A chunk is the acquisition it comes from and its place on the device.
Of(acq, numbers) == [k \in 1..Len(numbers) |-> <<acq, numbers[k]>>]

Seg(n, last, chunks) ==
    [fails |-> "none", number |-> n, major |-> 1, type |-> 1,
     sections |-> <<Sec("table"), Sec(last)>>, media |-> NoMedia, first |-> NoFields,
     chunks |-> chunks, recovered |-> 0, invalid |-> 0]

A1 == [Seg(1, "next", Of("A", <<1, 2>>)) EXCEPT !.media = Media,
                                               !.first["Acquisition"] = d1]
A2 == Seg(2, "next", Of("A", <<3>>))
A3 == [Seg(3, "done", Of("A", <<4>>)) EXCEPT !.first["MD5Digest"] = d1]
B2 == [Seg(2, "done", Of("B", <<5, 6>>)) EXCEPT !.first["MD5Digest"] = d2]

MCSources ==
    {A1, A2, A3, B2,
     [A1 EXCEPT !.number = 0, !.invalid = 1],
     [A1 EXCEPT !.media = MediaZero, !.recovered = 1],
     [A2 EXCEPT !.sections = <<Secret("table"), Hashed("next")>>],
     [A3 EXCEPT !.sections = <<Sec("keys"), Sec("done")>>],
     [A3 EXCEPT !.sections = <<Sec("table"), Sec("next")>>],
     [A2 EXCEPT !.invalid = 1],
     [A2 EXCEPT !.major = 2],
     [A2 EXCEPT !.type = 2],
     [A2 EXCEPT !.fails = "sections"],
     [A2 EXCEPT !.fails = "header"],
     [A2 EXCEPT !.fails = "type"],
     [A2 EXCEPT !.fails = "signature"]}

MCChunk == {"A", "B"} \X (1..6)

MCSupplies == UNION {[1..n -> MCSources] : n \in 0..3}

=============================================================================
