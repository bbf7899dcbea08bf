---------------------------- MODULE BlockDevice -----------------------------
(***************************************************************************)
(* What an open image promises its callers (the Reader interface of        *)
(* api.go and the comment on ReadAt): a block device of fixed contents,    *)
(* read by any number of goroutines at once, each call answered by itself  *)
(* as if it were alone.                                                    *)
(*                                                                         *)
(* Some positions of the device may be unreadable.  An answer is the       *)
(* longest readable run from the offset asked for, unless the storage      *)
(* below failed at the time.                                               *)
(***************************************************************************)
EXTENDS Integers, Sequences

CONSTANTS
    Readers,    \* goroutines
    Calls,      \* arguments of ReadAt: records [off, len]
    NoCall, NoAnswer,
    Size,       \* size of the device, in bytes
    Content     \* the device: readable position -> byte

VARIABLES req, resp

deviceVars == <<req, resp>>

DeviceInit ==
    /\ req = [r \in Readers |-> NoCall]
    /\ resp = [r \in Readers |-> NoAnswer]

Run(off, n) == [i \in 1..n |-> Content[off + i - 1]]

\* n bytes with this error is an answer io.ReaderAt and Reader allow.
Legal(c, n, err) ==
    /\ \A p \in c.off..(c.off + n - 1) : p \in DOMAIN Content
    /\ err = "nil" <=> n = c.len
    /\ n < c.len => err = "ErrSource" \/ c.off + n \notin DOMAIN Content
    /\ n < c.len /\ n > 0 /\ c.off + n = Size => err = "EOF"
    /\ n < c.len /\ c.off < 0 => err = "ErrInvalidOffset"

Call(r) ==
    /\ req[r] = NoCall
    /\ \E c \in Calls : req' = [req EXCEPT ![r] = c]
    /\ UNCHANGED resp

Answer(r) ==
    /\ req[r] # NoCall
    /\ resp[r] = NoAnswer
    /\ \E n \in 0..req[r].len :
       \E err \in {"nil", "EOF", "ErrInvalidOffset", "ErrCorruptImage",
                   "ErrSource", "ErrDecompress"} :
           /\ Legal(req[r], n, err)
           /\ resp' = [resp EXCEPT ![r] = [data |-> Run(req[r].off, n), err |-> err]]
    /\ UNCHANGED req

Return(r) ==
    /\ resp[r] # NoAnswer
    /\ req' = [req EXCEPT ![r] = NoCall]
    /\ resp' = [resp EXCEPT ![r] = NoAnswer]

DeviceNext == \E r \in Readers : Call(r) \/ Answer(r) \/ Return(r)

DeviceSpec == DeviceInit /\ [][DeviceNext]_deviceVars

\* An answer that the caller has not taken yet is a legal one to its request.
AnswersLegal ==
    \A r \in Readers : resp[r] # NoAnswer =>
        /\ Len(resp[r].data) \in 0..req[r].len
        /\ Legal(req[r], Len(resp[r].data), resp[r].err)

=============================================================================
