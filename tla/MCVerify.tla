------------------------------ MODULE MCVerify ------------------------------
(***************************************************************************)
(* A device of eight bytes read three at a time, some of them zero.        *)
(***************************************************************************)
EXTENDS Verify

CONSTANTS v

Acquired == <<1, 2, 0, 0, 0, 0, 3, 0>>
Other    == <<1, 2, 0, 0, 0, 0, 3, 1>>

\* The middle chunk, all zeros when it was acquired, does not decode, and the
\* final one ends one byte early.
Damaged == [p \in {0, 1, 2, 6} |-> Acquired[p + 1]]

RecordedMD5  == {md5(Acquired), md5(Other)}
RecordedSHA1 == {sha1(Acquired)}

MCCalls == [off : 0..7, len : 1..3]

=============================================================================
