------------------------------ MODULE Discover ------------------------------
(***************************************************************************)
(* Finding the segments that belong with a path (Discover of               *)
(* internal/segname) and deciding whether they may be opened               *)
(* (discoverSegments of openpath.go).                                      *)
(*                                                                         *)
(* A file name is a stem and an extension; a stem is its text without      *)
(* regard to case, and how it is spelled.  The directory is read once; the *)
(* path named need not be in it as it was spelled, or at all any more.     *)
(***************************************************************************)
EXTENDS SegmentNames, FiniteSets

CONSTANTS
    Stem,       \* stems: [fold, as]
    Named,      \* file names a caller may give
    Listings    \* what the directory may hold: sets of entries [name, mode]

Name == [stem : Stem, ext : Extension]
Entry == [name : Name, mode : {"file", "dir", "link", "brokenlink"}]

ASSUME DiscoverAssumption == Named \subseteq Name /\ Listings \subseteq SUBSET Entry

VARIABLES
    path,       \* the name given, and what os.Stat says of it
    listing,    \* what os.ReadDir returns, if it does
    allowIncomplete,
    pc,         \* stat, scan, discovered, opened or failed
    left,       \* the entries not looked at yet
    found,      \* segment number -> file name
    segments,   \* Set.Segments, in order
    err         \* what was refused, and for missing segments which

vars == <<path, listing, allowIncomplete, pc, left, found, segments, err>>

name == path.name
family == ParseFamily(name.ext).family
self == ParseFamily(name.ext).number

NoError == [kind |-> "nil", Missing |-> {}, Present |-> {}, Expected |-> {}]
Refusal(kind) == [NoError EXCEPT !.kind = kind]

Init ==
    /\ path \in [name : Named, stat : {"file", "dir", "absent"}]
    /\ listing \in [readable : {TRUE}, entries : Listings]
                   \cup [readable : {FALSE}, entries : {{}}]
    /\ allowIncomplete \in BOOLEAN
    /\ pc = "stat"
    /\ left = {}
    /\ found = <<>>
    /\ segments = <<>>
    /\ err = NoError

Fail(e) ==
    /\ pc' = "failed"
    /\ err' = e
    /\ UNCHANGED <<path, listing, allowIncomplete, left, found, segments>>

-----------------------------------------------------------------------------
(* Discover *)

NoSuchFile ==
    /\ pc = "stat"
    /\ path.stat # "file"
    /\ Fail(Refusal(IF path.stat = "dir" THEN "ErrUnsupportedFormat" ELSE "source"))

\* A name of no family is a set of that one file, without a number.
Alone ==
    /\ pc = "stat"
    /\ path.stat = "file"
    /\ ~Valid(family)
    /\ segments' = <<[Number |-> 0, Path |-> name]>>
    /\ pc' = "discovered"
    /\ UNCHANGED <<path, listing, allowIncomplete, left, found, err>>

ReadDir ==
    /\ pc = "stat"
    /\ path.stat = "file"
    /\ Valid(family)
    /\ listing.readable
    /\ left' = listing.entries
    /\ pc' = "scan"
    /\ UNCHANGED <<path, listing, allowIncomplete, found, segments, err>>

ReadDirFails ==
    /\ pc = "stat"
    /\ path.stat = "file"
    /\ Valid(family)
    /\ ~listing.readable
    /\ Fail(Refusal("source"))

isRegular(e) == e.mode \in {"file", "link"}

\* Mutated form of Belongs: stems are compared as they are spelled.
BelongsExactly(e) ==
    /\ e.name.stem = name.stem
    /\ Number(family, e.name.ext) # NoNumber
    /\ isRegular(e)

\* Mutated form of Belongs: a directory will do.
BelongsAnyMode(e) ==
    /\ e.name.stem.fold = name.stem.fold
    /\ Number(family, e.name.ext) # NoNumber

\* The entry is a file named like a segment of the set.
Belongs(e) ==
    /\ e.name.stem.fold = name.stem.fold
    /\ Number(family, e.name.ext) # NoNumber
    /\ isRegular(e)

Pass(e) ==
    /\ pc = "scan"
    /\ e \in left
    /\ ~Belongs(e)
    /\ left' = left \ {e}
    /\ UNCHANGED <<path, listing, allowIncomplete, pc, found, segments, err>>

Note(e) ==
    /\ pc = "scan"
    /\ e \in left
    /\ Belongs(e)
    /\ LET number == Number(family, e.name.ext)
       IN  /\ number \notin DOMAIN found
           /\ found' = [k \in DOMAIN found \cup {number} |->
                           IF k = number THEN e.name ELSE found[k]]
    /\ left' = left \ {e}
    /\ UNCHANGED <<path, listing, allowIncomplete, pc, segments, err>>

Clash(e) ==
    /\ pc = "scan"
    /\ e \in left
    /\ Belongs(e)
    /\ Number(family, e.name.ext) \in DOMAIN found
    /\ Fail(Refusal("ErrCorruptImage"))

\* Every number of two digits is taken.
saturated == 1..maxNumeric \subseteq DOMAIN found

\* What the scan keeps: letter pairs only when the digits are used up, and the
\* file that was named in any case, as it was spelled.
kept ==
    LET numbers == {k \in DOMAIN found : saturated \/ k < letterBase} \cup {self}
    IN  [k \in numbers |-> IF k = self THEN name ELSE found[k]]

\* How many numbers of D are below n, and D in increasing order.
Below(D, n) == Cardinality({m \in D : m < n})
Sorted(D) == [k \in 1..Cardinality(D) |-> CHOOSE n \in D : Below(D, n) = k - 1]

EndScan ==
    /\ pc = "scan"
    /\ left = {}
    /\ found' = kept
    /\ segments' = [k \in 1..Cardinality(DOMAIN kept) |->
                        [Number |-> Sorted(DOMAIN kept)[k],
                         Path |-> kept[Sorted(DOMAIN kept)[k]]]]
    /\ pc' = "discovered"
    /\ UNCHANGED <<path, listing, allowIncomplete, left, err>>

-----------------------------------------------------------------------------
(* discoverSegments *)

Numbers == {segments[k].Number : k \in 1..Len(segments)}

\* Mutated form of Missing: a hole is looked for behind the first segment found.
MissingBehind == (segments[1].Number)..(segments[Len(segments)].Number) \ Numbers

\* The holes below the highest number.
Missing == 1..(segments[Len(segments)].Number) \ Numbers

\* The names that missing segments would have, where there are any.
Names(numbers) ==
    {[stem |-> name.stem, ext |-> Ext(family, k)] :
        k \in {k \in numbers : Nameable(family, k)}}

Accept ==
    /\ pc = "discovered"
    /\ allowIncomplete \/ Missing = {}
    /\ pc' = "opened"
    /\ UNCHANGED <<path, listing, allowIncomplete, left, found, segments, err>>

Refuse ==
    /\ pc = "discovered"
    /\ ~allowIncomplete
    /\ Missing # {}
    /\ Fail([kind |-> "ErrMissingSegment", Missing |-> Missing, Present |-> Numbers,
             Expected |-> Names(Missing)])

Next ==
    \/ NoSuchFile \/ Alone \/ ReadDir \/ ReadDirFails
    \/ \E e \in left : Pass(e) \/ Note(e) \/ Clash(e)
    \/ EndScan \/ Accept \/ Refuse

Spec == Init /\ [][Next]_vars

-----------------------------------------------------------------------------

TypeOK ==
    /\ path \in [name : Named, stat : {"file", "dir", "absent"}]
    /\ allowIncomplete \in BOOLEAN
    /\ pc \in {"stat", "scan", "discovered", "opened", "failed"}
    /\ listing.entries \subseteq Entry
    /\ left \subseteq listing.entries
    /\ IsFiniteSet(DOMAIN found)
    /\ \A k \in DOMAIN found : k \in Nat \ {0} /\ found[k] \in Name
    /\ segments \in Seq([Number : Nat, Path : Name])
    /\ err.kind \in {"nil", "source", "ErrUnsupportedFormat", "ErrCorruptImage",
                     "ErrMissingSegment"}

\* What is on record belongs: each number is its name's, the name is an entry of
\* the directory or the name given, and it is of the set.
FoundBelong ==
    \A k \in DOMAIN found :
        /\ found[k].stem.fold = name.stem.fold
        /\ Number(family, found[k].ext) = k
        /\ found[k] = name \/ \E e \in listing.entries : e.name = found[k] /\ isRegular(e)

\* Nothing of the set that the scan has passed is off the record.
NothingPassed ==
    pc = "scan" =>
        \A e \in listing.entries \ left :
            Belongs(e) => /\ Number(family, e.name.ext) \in DOMAIN found
                          /\ found[Number(family, e.name.ext)] = e.name

\* The segments of a numbered set are what is on record, lowest number first.
SegmentsInOrder ==
    pc \in {"discovered", "opened"} /\ Valid(family) =>
        /\ Len(segments) = Cardinality(DOMAIN found)
        /\ \A k \in 1..Len(segments) :
             /\ segments[k].Number \in DOMAIN found
             /\ Below(DOMAIN found, segments[k].Number) = k - 1
             /\ segments[k].Path = found[segments[k].Number]

DiscoverInv == TypeOK /\ FoundBelong /\ NothingPassed /\ SegmentsInOrder

\* A set that is opened without AllowIncompleteSegmentSet is handed on as segments
\* 1 to n, the k-th path the file that the names say is segment k: what the reader
\* then expects to find in the headers.
OpenedWithoutHoles ==
    pc = "opened" /\ ~allowIncomplete /\ Valid(family) =>
        \A k \in 1..Len(segments) :
            /\ segments[k].Number = k
            /\ Number(family, segments[k].Path.ext) = k

\* The numbers found when the directory's file e is the one named.
From(f, stem, own) ==
    LET numbers == {Number(f, e.name.ext) :
                       e \in {d \in listing.entries :
                                /\ d.name.stem.fold = stem.fold
                                /\ isRegular(d)
                                /\ Number(f, d.name.ext) # NoNumber}}
    IN  {k \in numbers : 1..maxNumeric \subseteq numbers \/ k <= maxNumeric} \cup {own}

\* "path may name any numbered member of the set, not only the first": every member
\* of the set found, named in its own spelling, is a way to the same set, but for
\* the file named, which counts in any case.
AnyMemberFindsIt ==
    pc = "discovered" /\ Valid(family) =>
        \A e \in listing.entries :
            LET parsed == ParseFamily(e.name.ext)
            IN  (\E k \in 1..Len(segments) : segments[k].Path = e.name)
                /\ Valid(parsed.family) /\ parsed.family.Base.rank = family.Base.rank =>
                    From(parsed.family, e.name.stem, parsed.number) \cup {self}
                        = Numbers \cup {parsed.number}

\* The error for missing segments names a file for each of them, which would be
\* found under that number if it were there, and it lists as present what is.
ExpectedAreMissing ==
    err.kind = "ErrMissingSegment" =>
        /\ err.Present = Numbers /\ err.Missing \cap Numbers = {}
        /\ \A k \in err.Missing : \E x \in err.Expected : Number(family, x.ext) = k
        /\ Cardinality(err.Expected) = Cardinality(err.Missing)

=============================================================================
