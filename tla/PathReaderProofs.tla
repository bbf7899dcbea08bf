-------------------------- MODULE PathReaderProofs --------------------------
(***************************************************************************)
(* For any number of segment files, of goroutines closing the reader and   *)
(* of goroutines reading it: no handle leaks, none is closed twice, every  *)
(* Close reports the same failures, and none is read after a Close.        *)
(***************************************************************************)
EXTENDS PathReader, TLAPS

LEMMA OpenFileInv ==
    ASSUME PathInv, OpenFile PROVE PathInv'
<1>1. TypeOK'
  BY FilesAssumption DEF PathInv, TypeOK, Files, OpenFile, closeVars, readVars
<1>2. Handles'
  BY FilesAssumption DEF PathInv, Handles, TypeOK, Files, OpenFile, closeVars,
     readVars
<1>3. InsideOnce'
  BY FilesAssumption DEF PathInv, InsideOnce, TypeOK, Handles, Files, OpenFile,
     closeVars, readVars
<1>4. NothingLeaks'
  BY FilesAssumption DEF PathInv, NothingLeaks, HasClosed, TypeOK, Handles,
     Files, OpenFile, closeVars, readVars
<1>5. ClosedOnce'
  BY FilesAssumption DEF PathInv, ClosedOnce, TypeOK, Handles, Files, OpenFile,
     closeVars, readVars
<1>6. ClosersAgree'
  BY DEF PathInv, ClosersAgree, OpenFile, closeVars, readVars
<1>7. NoReadAfterClose'
  BY DEF PathInv, NoReadAfterClose, OpenFile, closeVars, readVars
<1> QED BY <1>1, <1>2, <1>3, <1>4, <1>5, <1>6, <1>7 DEF PathInv

LEMMA OpenFileFailsInv ==
    ASSUME PathInv, OpenFileFails PROVE PathInv'
<1>1. TypeOK'
  BY DEF PathInv, TypeOK, OpenFileFails, closeFiles, closeVars, readVars
<1>2. Handles'
  BY DEF PathInv, Handles, OpenFileFails, closeFiles, closeVars, readVars
<1>3. InsideOnce'
  BY DEF PathInv, InsideOnce, OpenFileFails, closeFiles, closeVars, readVars
<1>4. NothingLeaks'
  BY FilesAssumption DEF PathInv, NothingLeaks, HasClosed, TypeOK, Handles,
     Files, OpenFileFails, closeFiles, closeVars, readVars
<1>5. ClosedOnce'
  BY FilesAssumption DEF PathInv, ClosedOnce, TypeOK, Handles, Files,
     OpenFileFails, closeFiles, closeVars, readVars
<1>6. ClosersAgree'
  BY DEF PathInv, ClosersAgree, OpenFileFails, closeFiles, closeVars, readVars
<1>7. NoReadAfterClose'
  BY DEF PathInv, NoReadAfterClose, OpenFileFails, closeFiles, closeVars,
     readVars
<1> QED BY <1>1, <1>2, <1>3, <1>4, <1>5, <1>6, <1>7 DEF PathInv

LEMMA DecodeSegmentsInv ==
    ASSUME PathInv, DecodeSegments PROVE PathInv'
<1>1. TypeOK'
  BY DEF PathInv, TypeOK, DecodeSegments, closeVars, readVars
<1>2. Handles'
  BY FilesAssumption DEF PathInv, Handles, TypeOK, InsideOnce, Files,
     DecodeSegments, closeVars, readVars
<1>3. InsideOnce'
  BY DEF PathInv, InsideOnce, DecodeSegments, closeVars, readVars
<1>4. NothingLeaks'
  BY DEF PathInv, NothingLeaks, HasClosed, DecodeSegments, closeVars, readVars
<1>5. ClosedOnce'
  BY DEF PathInv, ClosedOnce, DecodeSegments, closeVars, readVars
<1>6. ClosersAgree'
  BY DEF PathInv, ClosersAgree, DecodeSegments, closeVars, readVars
<1>7. NoReadAfterClose'
  BY DEF PathInv, NoReadAfterClose, DecodeSegments, closeVars, readVars
<1> QED BY <1>1, <1>2, <1>3, <1>4, <1>5, <1>6, <1>7 DEF PathInv

LEMMA DecodeSegmentsFailsInv ==
    ASSUME PathInv, DecodeSegmentsFails PROVE PathInv'
<1>1. TypeOK'
  BY DEF PathInv, TypeOK, DecodeSegmentsFails, closeFiles, closeVars, readVars
<1>2. Handles'
  BY DEF PathInv, Handles, DecodeSegmentsFails, closeFiles, closeVars, readVars
<1>3. InsideOnce'
  BY DEF PathInv, InsideOnce, DecodeSegmentsFails, closeFiles, closeVars,
     readVars
<1>4. NothingLeaks'
  BY FilesAssumption DEF PathInv, NothingLeaks, HasClosed, TypeOK, Files,
     DecodeSegmentsFails, closeFiles, closeVars, readVars
<1>5. ClosedOnce'
  <2>1. \A f \in Files : f <= opened /\ handle[f] = "open" /\ closeCalls[f] = 0
    BY FilesAssumption
       DEF PathInv, ClosedOnce, TypeOK, Handles, Files, DecodeSegmentsFails
  <2> QED BY <2>1 DEF ClosedOnce, DecodeSegmentsFails, closeFiles
<1>6. ClosersAgree'
  BY DEF PathInv, ClosersAgree, DecodeSegmentsFails, closeFiles, closeVars,
     readVars
<1>7. NoReadAfterClose'
  BY DEF PathInv, NoReadAfterClose, DecodeSegmentsFails, closeFiles, closeVars,
     readVars
<1> QED BY <1>1, <1>2, <1>3, <1>4, <1>5, <1>6, <1>7 DEF PathInv

LEMMA CallCloseInv ==
    ASSUME PathInv, NEW c \in Closers, CallClose(c) PROVE PathInv'
<1>1. TypeOK'
  BY DEF PathInv, TypeOK, CallClose, openVars, readVars
<1>2. Handles'
  BY DEF PathInv, Handles, CallClose, openVars, readVars
<1>3. InsideOnce'
  BY DEF PathInv, InsideOnce, CallClose, openVars, readVars
<1>4. NothingLeaks'
  BY DEF PathInv, NothingLeaks, HasClosed, CallClose, openVars, readVars
<1>5. ClosedOnce'
  BY DEF PathInv, ClosedOnce, CallClose, openVars, readVars
<1>6. ClosersAgree'
  BY DEF PathInv, ClosersAgree, CallClose, openVars, readVars
<1>7. NoReadAfterClose'
  BY DEF PathInv, NoReadAfterClose, CallClose, openVars, readVars
<1> QED BY <1>1, <1>2, <1>3, <1>4, <1>5, <1>6, <1>7 DEF PathInv

LEMMA EnterOnceInv ==
    ASSUME PathInv, NEW c \in Closers, EnterOnce(c) PROVE PathInv'
<1>1. TypeOK'
  BY DEF PathInv, TypeOK, EnterOnce, openVars, readVars
<1>2. Handles'
  BY DEF PathInv, Handles, EnterOnce, openVars, readVars
<1>3. InsideOnce'
  BY DEF PathInv, InsideOnce, EnterOnce, openVars, readVars
<1>4. NothingLeaks'
  BY DEF PathInv, NothingLeaks, HasClosed, EnterOnce, openVars, readVars
<1>5. ClosedOnce'
  BY DEF PathInv, ClosedOnce, EnterOnce, openVars, readVars
<1>6. ClosersAgree'
  BY DEF PathInv, ClosersAgree, EnterOnce, openVars, readVars
<1>7. NoReadAfterClose'
  BY DEF PathInv, NoReadAfterClose, EnterOnce, openVars, readVars
<1> QED BY <1>1, <1>2, <1>3, <1>4, <1>5, <1>6, <1>7 DEF PathInv

LEMMA SkipOnceInv ==
    ASSUME PathInv, NEW c \in Closers, SkipOnce(c) PROVE PathInv'
<1>1. TypeOK'
  BY DEF PathInv, TypeOK, SkipOnce, openVars, readVars
<1>2. Handles'
  BY DEF PathInv, Handles, SkipOnce, openVars, readVars
<1>3. InsideOnce'
  BY DEF PathInv, InsideOnce, SkipOnce, openVars, readVars
<1>4. NothingLeaks'
  BY DEF PathInv, NothingLeaks, HasClosed, SkipOnce, openVars, readVars
<1>5. ClosedOnce'
  BY DEF PathInv, ClosedOnce, SkipOnce, openVars, readVars
<1>6. ClosersAgree'
  BY DEF PathInv, ClosersAgree, SkipOnce, openVars, readVars
<1>7. NoReadAfterClose'
  BY DEF PathInv, NoReadAfterClose, SkipOnce, openVars, readVars
<1> QED BY <1>1, <1>2, <1>3, <1>4, <1>5, <1>6, <1>7 DEF PathInv

LEMMA CloseFileInv ==
    ASSUME PathInv, NEW c \in Closers, CloseFile(c) PROVE PathInv'
<1>1. TypeOK'
  <2>1. next \in Files /\ next + 1 \in 1..(NumFiles + 1)
    BY FilesAssumption DEF PathInv, TypeOK, Files, CloseFile
  <2>2. /\ handle' \in [Files -> {"none", "open", "closed"}]
        /\ closeCalls' \in [Files -> Nat]
    BY <2>1 DEF PathInv, TypeOK, CloseFile
  <2>3. errs' \subseteq Files
    BY <2>1 DEF PathInv, TypeOK, CloseFile
  <2>4. next' \in 1..(NumFiles + 1)
    BY <2>1 DEF CloseFile
  <2> QED BY <2>2, <2>3, <2>4 DEF PathInv, TypeOK, CloseFile, openVars, readVars
<1>2. Handles'
  BY FilesAssumption DEF PathInv, Handles, TypeOK, Files, CloseFile, openVars,
     readVars
<1>3. InsideOnce'
  BY DEF PathInv, InsideOnce, CloseFile, openVars, readVars
<1>4. NothingLeaks'
  BY DEF PathInv, NothingLeaks, HasClosed, CloseFile, openVars, readVars
<1>5. ClosedOnce'
  BY FilesAssumption DEF PathInv, ClosedOnce, TypeOK, Handles, Files,
     CloseFile, openVars, readVars
<1>6. ClosersAgree'
  BY FilesAssumption DEF PathInv, ClosersAgree, TypeOK, InsideOnce, Files,
     CloseFile, openVars, readVars
<1>7. NoReadAfterClose'
  BY DEF PathInv, NoReadAfterClose, CloseFile, openVars, readVars
<1> QED BY <1>1, <1>2, <1>3, <1>4, <1>5, <1>6, <1>7 DEF PathInv

LEMMA JoinErrorsInv ==
    ASSUME PathInv, NEW c \in Closers, JoinErrors(c) PROVE PathInv'
<1>1. TypeOK'
  BY DEF PathInv, TypeOK, JoinErrors, openVars, readVars
<1>2. Handles'
  BY DEF PathInv, Handles, JoinErrors, openVars, readVars
<1>3. InsideOnce'
  BY FilesAssumption DEF PathInv, InsideOnce, TypeOK, Handles, Files,
     JoinErrors, openVars, readVars
<1>4. NothingLeaks'
  BY DEF PathInv, NothingLeaks, HasClosed, JoinErrors, openVars, readVars
<1>5. ClosedOnce'
  BY DEF PathInv, ClosedOnce, JoinErrors, openVars, readVars
<1>6. ClosersAgree'
  BY DEF PathInv, ClosersAgree, JoinErrors, openVars, readVars
<1>7. NoReadAfterClose'
  BY DEF PathInv, NoReadAfterClose, JoinErrors, openVars, readVars
<1> QED BY <1>1, <1>2, <1>3, <1>4, <1>5, <1>6, <1>7 DEF PathInv

LEMMA ReturnCloseInv ==
    ASSUME PathInv, NEW c \in Closers, ReturnClose(c) PROVE PathInv'
<1>1. TypeOK'
  BY DEF PathInv, TypeOK, ReturnClose, openVars, readVars
<1>2. Handles'
  BY DEF PathInv, Handles, ReturnClose, openVars, readVars
<1>3. InsideOnce'
  BY DEF PathInv, InsideOnce, ReturnClose, openVars, readVars
<1>4. NothingLeaks'
  BY FilesAssumption DEF PathInv, NothingLeaks, HasClosed, TypeOK, Handles,
     InsideOnce, Files, ReturnClose, openVars, readVars
<1>5. ClosedOnce'
  BY DEF PathInv, ClosedOnce, ReturnClose, openVars, readVars
<1>6. ClosersAgree'
  BY FilesAssumption DEF PathInv, ClosersAgree, TypeOK, InsideOnce, Files,
     ReturnClose, openVars, readVars
<1>7. NoReadAfterClose'
  BY DEF PathInv, NoReadAfterClose, ReturnClose, openVars, readVars
<1> QED BY <1>1, <1>2, <1>3, <1>4, <1>5, <1>6, <1>7 DEF PathInv

LEMMA BeginReadInv ==
    ASSUME PathInv, NEW u \in Users, BeginRead(u) PROVE PathInv'
<1>1. TypeOK'
  <2>1. HasClosed \in BOOLEAN
    BY Zenon DEF HasClosed
  <2> QED BY <2>1 DEF PathInv, TypeOK, BeginRead, openVars, closeVars
<1>2. Handles'
  BY DEF PathInv, Handles, BeginRead, openVars, closeVars
<1>3. InsideOnce'
  BY DEF PathInv, InsideOnce, HasClosed, TypeOK, BeginRead, openVars, closeVars
<1>4. NothingLeaks'
  BY DEF PathInv, NothingLeaks, HasClosed, BeginRead, openVars, closeVars
<1>5. ClosedOnce'
  BY DEF PathInv, ClosedOnce, BeginRead, openVars, closeVars
<1>6. ClosersAgree'
  BY DEF PathInv, ClosersAgree, BeginRead, openVars, closeVars
<1>7. NoReadAfterClose'
  BY DEF PathInv, NoReadAfterClose, BeginRead, openVars, closeVars
<1> QED BY <1>1, <1>2, <1>3, <1>4, <1>5, <1>6, <1>7 DEF PathInv

LEMMA EndReadInv ==
    ASSUME PathInv, NEW u \in Users, EndRead(u) PROVE PathInv'
<1>1. TypeOK'
  BY DEF PathInv, TypeOK, EndRead, openVars, closeVars
<1>2. Handles'
  BY DEF PathInv, Handles, EndRead, openVars, closeVars
<1>3. InsideOnce'
  BY DEF PathInv, InsideOnce, EndRead, openVars, closeVars
<1>4. NothingLeaks'
  BY DEF PathInv, NothingLeaks, HasClosed, EndRead, openVars, closeVars
<1>5. ClosedOnce'
  BY DEF PathInv, ClosedOnce, EndRead, openVars, closeVars
<1>6. ClosersAgree'
  BY DEF PathInv, ClosersAgree, EndRead, openVars, closeVars
<1>7. NoReadAfterClose'
  BY FilesAssumption DEF PathInv, NoReadAfterClose, TypeOK, Handles,
     InsideOnce, Files, EndRead, openVars, closeVars
<1> QED BY <1>1, <1>2, <1>3, <1>4, <1>5, <1>6, <1>7 DEF PathInv

LEMMA InitPath == Init => PathInv
BY FilesAssumption
   DEF Init, PathInv, TypeOK, Handles, InsideOnce, NothingLeaks, ClosedOnce,
       ClosersAgree, NoReadAfterClose, HasClosed, Files

LEMMA NextPath ==
    ASSUME PathInv, [Next]_vars PROVE PathInv'
<1>1. CASE OpenStep
  BY <1>1, OpenFileInv, OpenFileFailsInv, DecodeSegmentsInv, DecodeSegmentsFailsInv
     DEF OpenStep
<1>2. ASSUME NEW c \in Closers, CallClose(c) \/ CloseStep(c) PROVE PathInv'
  BY <1>2, CallCloseInv, EnterOnceInv, SkipOnceInv, CloseFileInv, JoinErrorsInv,
     ReturnCloseInv DEF CloseStep
<1>3. ASSUME NEW u \in Users, BeginRead(u) \/ EndRead(u) PROVE PathInv'
  BY <1>3, BeginReadInv, EndReadInv
<1>4. CASE UNCHANGED vars
  BY <1>4 DEF vars, PathInv, TypeOK, Handles, InsideOnce, NothingLeaks, ClosedOnce,
              ClosersAgree, NoReadAfterClose, HasClosed
<1> QED BY <1>1, <1>2, <1>3, <1>4 DEF Next

\* OpenPath and Close, for every number of files and goroutines: an open that
\* fails part way leaves no handle, no handle is closed twice, every Close
\* reports every failure, and no read that begins after a Close has returned
\* reaches a file.
THEOREM CloseIsClean == Spec => []PathInv
<1>1. PathInv /\ [Next]_vars => PathInv'
  BY NextPath
<1> QED BY InitPath, <1>1, PTL DEF Spec

=============================================================================
