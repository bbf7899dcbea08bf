----------------------------- MODULE PathReader -----------------------------
(***************************************************************************)
(* The reader OpenPath returns (openpath.go): it opens the segment files   *)
(* one after the other, gives up cleanly when one of them or the decoding  *)
(* fails, and is closed once however many goroutines call Close while      *)
(* others still read.                                                      *)
(*                                                                         *)
(* A file is one handle, an os.File.  The handle guards itself: a read on  *)
(* a closed one fails and never reaches the file, and a Close that reports *)
(* an error has released the descriptor all the same (external, os).       *)
(***************************************************************************)
EXTENDS Integers

CONSTANTS
    NumFiles,   \* segment paths discovered, at least the one that was named
    Closers,    \* goroutines that call Close
    Users       \* goroutines that read

ASSUME FilesAssumption == NumFiles \in Nat \ {0}

Files == 1..NumFiles

VARIABLES
    phase,      \* OpenPathWithOptions: opening, ready or failed
    handle,     \* each file: none, open or closed
    opened,     \* len(files)
    closeCalls, \* history: file.Close calls on each file
    once,       \* closeOnce: fresh, running or done
    closer,     \* where each goroutine stands in Close
    next,       \* the file the Once body closes next
    errs,       \* the files whose Close failed, as collected so far
    closeErr,   \* pathReader.closeErr, as the set of those files
    result,     \* what each Close returned
    reading,    \* each user: the file its read is about to touch, or 0
    late,       \* history: the read began after some Close had returned
    touched     \* history: late reads that reached a file

openVars == <<phase, opened>>
closeVars == <<once, closer, next, errs, closeErr, result>>
readVars == <<reading, late, touched>>
vars == <<phase, handle, opened, closeCalls, once, closer, next, errs, closeErr,
          result, reading, late, touched>>

Init ==
    /\ phase = "opening"
    /\ handle = [f \in Files |-> "none"]
    /\ opened = 0
    /\ closeCalls = [f \in Files |-> 0]
    /\ once = "fresh"
    /\ closer = [c \in Closers |-> "idle"]
    /\ next = 1
    /\ errs = {}
    /\ closeErr = {}
    /\ result = [c \in Closers |-> {}]
    /\ reading = [u \in Users |-> 0]
    /\ late = [u \in Users |-> FALSE]
    /\ touched = {}

-----------------------------------------------------------------------------
(* OpenPathWithOptions *)

\* closeFiles(files): every file opened so far, errors ignored.
closeFiles ==
    /\ handle' = [f \in Files |-> IF f <= opened THEN "closed" ELSE handle[f]]
    /\ closeCalls' = [f \in Files |-> IF f <= opened THEN closeCalls[f] + 1
                                                     ELSE closeCalls[f]]

OpenFile ==
    /\ phase = "opening"
    /\ opened < NumFiles
    /\ handle' = [handle EXCEPT ![opened + 1] = "open"]
    /\ opened' = opened + 1
    /\ UNCHANGED <<phase, closeCalls, closeVars, readVars>>

\* os.Open fails: the file went away since the directory was read, or cannot
\* be opened.
OpenFileFails ==
    /\ phase = "opening"
    /\ opened < NumFiles
    /\ closeFiles
    /\ phase' = "failed"
    /\ UNCHANGED <<opened, closeVars, readVars>>

DecodeSegments ==
    /\ phase = "opening"
    /\ opened = NumFiles
    /\ phase' = "ready"
    /\ UNCHANGED <<handle, opened, closeCalls, closeVars, readVars>>

DecodeSegmentsFails ==
    /\ phase = "opening"
    /\ opened = NumFiles
    /\ closeFiles
    /\ phase' = "failed"
    /\ UNCHANGED <<opened, closeVars, readVars>>

-----------------------------------------------------------------------------
(* Close *)

CallClose(c) ==
    /\ phase = "ready"
    /\ closer[c] = "idle"
    /\ closer' = [closer EXCEPT ![c] = "called"]
    /\ UNCHANGED <<openVars, handle, closeCalls, once, next, errs, closeErr,
                   result, readVars>>

\* Mutated form of EnterOnce: each Close runs the body again.
EnterOnceAgain(c) ==
    /\ closer[c] = "called"
    /\ once' = "running"
    /\ closer' = [closer EXCEPT ![c] = "closing"]
    /\ next' = 1
    /\ UNCHANGED <<openVars, handle, closeCalls, errs, closeErr, result, readVars>>

\* closeOnce.Do runs its argument in the first caller.
EnterOnce(c) ==
    /\ closer[c] = "called"
    /\ once = "fresh"
    /\ once' = "running"
    /\ closer' = [closer EXCEPT ![c] = "closing"]
    /\ UNCHANGED <<openVars, handle, closeCalls, next, errs, closeErr, result,
                   readVars>>

\* Every other caller waits in Do until the body has ended.
SkipOnce(c) ==
    /\ closer[c] = "called"
    /\ once = "done"
    /\ closer' = [closer EXCEPT ![c] = "leaving"]
    /\ UNCHANGED <<openVars, handle, closeCalls, once, next, errs, closeErr,
                   result, readVars>>

\* file.Close() of the next file, which may fail; the rest are closed anyway.
CloseFile(c) ==
    /\ closer[c] = "closing"
    /\ next <= opened
    /\ handle' = [handle EXCEPT ![next] = "closed"]
    /\ closeCalls' = [closeCalls EXCEPT ![next] = @ + 1]
    /\ next' = next + 1
    /\ \/ UNCHANGED errs
       \/ errs' = errs \cup {next}
    /\ UNCHANGED <<openVars, once, closer, closeErr, result, readVars>>

\* Mutated form of JoinErrors: the Once body ends and lets nobody else through.
JoinErrorsHeld(c) ==
    /\ closer[c] = "closing"
    /\ next > opened
    /\ closeErr' = errs
    /\ closer' = [closer EXCEPT ![c] = "leaving"]
    /\ UNCHANGED <<openVars, handle, closeCalls, once, next, errs, result, readVars>>

\* closeErr = errors.Join(errs...), the last act of the Once body.  No caller
\* passes Do between the two.
JoinErrors(c) ==
    /\ closer[c] = "closing"
    /\ next > opened
    /\ closeErr' = errs
    /\ once' = "done"
    /\ closer' = [closer EXCEPT ![c] = "leaving"]
    /\ UNCHANGED <<openVars, handle, closeCalls, next, errs, result, readVars>>

ReturnClose(c) ==
    /\ closer[c] = "leaving"
    /\ closer' = [closer EXCEPT ![c] = "returned"]
    /\ result' = [result EXCEPT ![c] = closeErr]
    /\ UNCHANGED <<openVars, handle, closeCalls, once, next, errs, closeErr,
                   readVars>>

-----------------------------------------------------------------------------
(* Reads through the embedded Reader *)

\* Some Close has returned.
HasClosed == \E c \in Closers : closer[c] = "returned"

\* A read has picked the segment that holds its chunk.
BeginRead(u) ==
    /\ phase = "ready"
    /\ reading[u] = 0
    /\ \E f \in Files : reading' = [reading EXCEPT ![u] = f]
    /\ late' = [late EXCEPT ![u] = HasClosed]
    /\ UNCHANGED <<openVars, handle, closeCalls, closeVars, touched>>

\* Its ReadAt reaches the file if the handle is still open, else it fails.
EndRead(u) ==
    /\ reading[u] # 0
    /\ touched' = IF handle[reading[u]] = "open" /\ late[u] THEN touched \cup {u}
                                                          ELSE touched
    /\ reading' = [reading EXCEPT ![u] = 0]
    /\ UNCHANGED <<openVars, handle, closeCalls, closeVars, late>>

-----------------------------------------------------------------------------

OpenStep == OpenFile \/ OpenFileFails \/ DecodeSegments \/ DecodeSegmentsFails

CloseStep(c) ==
    EnterOnce(c) \/ SkipOnce(c) \/ CloseFile(c) \/ JoinErrors(c) \/ ReturnClose(c)

Next ==
    \/ OpenStep
    \/ \E c \in Closers : CallClose(c) \/ CloseStep(c)
    \/ \E u \in Users : BeginRead(u) \/ EndRead(u)

Spec == Init /\ [][Next]_vars

\* A goroutine inside Close is scheduled again and again.
FairSpec == Spec /\ \A c \in Closers : WF_vars(CloseStep(c))

-----------------------------------------------------------------------------

TypeOK ==
    /\ phase \in {"opening", "ready", "failed"}
    /\ handle \in [Files -> {"none", "open", "closed"}]
    /\ opened \in 0..NumFiles
    /\ closeCalls \in [Files -> Nat]
    /\ once \in {"fresh", "running", "done"}
    /\ closer \in [Closers -> {"idle", "called", "closing", "leaving", "returned"}]
    /\ next \in 1..(NumFiles + 1)
    /\ errs \subseteq Files
    /\ closeErr \subseteq Files
    /\ result \in [Closers -> SUBSET Files]
    /\ reading \in [Users -> Files \cup {0}]
    /\ late \in [Users -> BOOLEAN]
    /\ touched \subseteq Users

\* An open that fails, at whichever file, leaves no handle behind, and a reader
\* that any Close has returned from holds none.
NothingLeaks ==
    phase = "failed" \/ HasClosed => \A f \in Files : handle[f] # "open"

\* "double-closing a file descriptor is worse than doing nothing": no sequence
\* of opens, failures and concurrent Close calls closes a handle twice, and none
\* closes one that was never opened.
ClosedOnce ==
    \A f \in Files : closeCalls[f] = IF handle[f] = "closed" THEN 1 ELSE 0

\* Close is idempotent: each call, first or late, reports every failure to
\* close a file and nothing else.
ClosersAgree ==
    \A c \in Closers : closer[c] = "returned" => result[c] = errs

\* A read that begins after a Close has returned reaches no file, whichever
\* goroutine that Close ran in.
NoReadAfterClose == touched = {}

\* What the handles are in each phase, and who is inside Do.
Handles ==
    /\ phase = "opening" =>
         \A f \in Files : handle[f] = IF f <= opened THEN "open" ELSE "none"
    /\ phase = "failed" =>
         \A f \in Files : handle[f] = IF f <= opened THEN "closed" ELSE "none"
    /\ phase = "ready" =>
         /\ opened = NumFiles
         /\ \A f \in Files : handle[f] = IF f < next THEN "closed" ELSE "open"
    /\ phase # "ready" =>
         /\ once = "fresh"
         /\ \A c \in Closers : closer[c] = "idle"
         /\ \A u \in Users : reading[u] = 0

InsideOnce ==
    /\ once = "fresh" => next = 1 /\ \A c \in Closers : closer[c] \in {"idle", "called"}
    /\ once = "done" => next = opened + 1 /\ closeErr = errs
    /\ \A c \in Closers :
         /\ closer[c] = "closing" => once = "running"
         /\ closer[c] \in {"leaving", "returned"} => once = "done"
    /\ \A c, d \in Closers : closer[c] = "closing" /\ closer[d] = "closing" => c = d
    /\ \A u \in Users : late[u] => once = "done"

\* All of it, strong enough to be inductive.
PathInv ==
    /\ TypeOK
    /\ Handles
    /\ InsideOnce
    /\ NothingLeaks
    /\ ClosedOnce
    /\ ClosersAgree
    /\ NoReadAfterClose

\* Every Close that is called returns, those that wait for another's included.
EveryCloseReturns ==
    \A c \in Closers : closer[c] = "called" ~> closer[c] = "returned"

=============================================================================
