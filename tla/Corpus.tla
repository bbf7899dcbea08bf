------------------------------- MODULE Corpus -------------------------------
(***************************************************************************)
(* Building the golden-image corpus (tools/mkcorpus/main.go and            *)
(* internal/corpus/manifest.go): images are adopted or acquired into a     *)
(* directory, and a manifest of what a correct reader must produce from    *)
(* them is written last.                                                   *)
(*                                                                         *)
(* The directory outlives the runs of the tool, any of which may fail or   *)
(* be killed anywhere.  A file's content is the acquisition it is of and   *)
(* its place in it, or a fragment.  The acquisition tool and the reader    *)
(* are external: what they may report is any of their outcomes.            *)
(***************************************************************************)
EXTENDS Integers, Sequences, FiniteSets

CONSTANTS
    Names,          \* of entries, as sanitise spells them
    Args,           \* [adopt, size, generate, tools]: adopt, a sequence of images
                    \* [name, of, n, opens, digest, inPlace]; size, the segments of
                    \* an acquisition; tools, whether there is an ewfacquire
    Variants,       \* buildMatrix: a sequence of [name, ewf2]
    InitialManifests,
    MaxSegments,
    MaxRuns,        \* bound on the runs of the tool
    NoFile, Fragment, None

\* The names of the matrix are distinct.
ASSUME CorpusAssumption ==
    /\ {MaxSegments, MaxRuns} \subseteq Nat
    /\ \A a \in Args :
         /\ a.size \in 1..MaxSegments
         /\ Len(a.adopt) \in Nat
         /\ \A j \in 1..Len(a.adopt) :
              a.adopt[j].name \in Names /\ a.adopt[j].n \in 1..MaxSegments
    /\ Len(Variants) \in Nat
    /\ \A j \in 1..Len(Variants) : Variants[j].name \in Names
    /\ \A j, l \in 1..Len(Variants) : Variants[j].name = Variants[l].name => j = l
    /\ \A m \in InitialManifests :
         /\ m = [state |-> m.state, entries |-> m.entries]
         /\ m.state \in {"absent", "intact", "torn", "other version"}
         /\ m.state # "intact" => DOMAIN m.entries = {}

VARIABLES
    disk,       \* the segment files: by name of the image and place
    manifest,   \* [state, entries]: absent, intact, torn or of another version, and
                \* the entries that can be read of it
    runs,
    pc,         \* idle, or where the run stands
    args,
    mem,        \* the manifest in memory, entries by name
    i, k,       \* the image or variant under way, and its segment
    entries,    \* generate's entries
    added,
    stuck,      \* history: the files this run has failed to remove
    known       \* history: the names in every manifest that was whole

runVars == <<pc, args, mem, i, k, entries, added>>
history == <<stuck, known>>
vars == <<disk, manifest, runs, runVars, history>>

FileNames == Names \X (1..MaxSegments)

Empty == <<>>

NoArgs == [adopt |-> <<>>, size |-> None, generate |-> FALSE, tools |-> FALSE]

\* Segment j of the acquisition a, as a file.
Segment(a, j) == [of |-> a, place |-> j]

\* A segment of an acquisition is a file.
ASSUME FileAssumption ==
    \A a \in Args, l \in 1..Len(Variants), j \in 1..MaxSegments :
        Segment(<<Variants[l].name, a.size>>, j) # NoFile

Init ==
    /\ disk = [f \in FileNames |-> NoFile]
    /\ manifest \in InitialManifests
    /\ runs = 0
    /\ pc = "idle"
    /\ args = NoArgs
    /\ mem = Empty
    /\ i = 1
    /\ k = 1
    /\ entries = Empty
    /\ added = 0
    /\ stuck = {}
    /\ known = DOMAIN manifest.entries

Start ==
    /\ pc = "idle"
    /\ runs < MaxRuns
    /\ runs' = runs + 1
    /\ args' \in Args
    /\ pc' = "load"
    /\ UNCHANGED <<disk, manifest, mem, i, k, entries, added, history>>

\* The process is gone and its memory with it; the directory stays as it is.
Exit ==
    /\ pc' = "idle"
    /\ args' = NoArgs
    /\ mem' = Empty
    /\ i' = 1
    /\ k' = 1
    /\ entries' = Empty
    /\ added' = 0
    /\ stuck' = {}
    /\ UNCHANGED <<runs, known>>

-----------------------------------------------------------------------------
(* corpus.Load *)

\* Mutated form of Loadable: what cannot be read is started afresh.
LoadableAny == manifest.state \in {"absent", "intact", "torn"}

\* No prefix of a manifest is a manifest: a torn one does not parse.
Loadable == manifest.state \in {"absent", "intact"}

Load ==
    /\ pc = "load"
    /\ Loadable
    /\ mem' = IF manifest.state = "intact" THEN manifest.entries ELSE Empty
    /\ pc' = "adopt"
    /\ UNCHANGED <<disk, manifest, runs, args, i, k, entries, added, history>>

LoadFails ==
    /\ pc = "load"
    /\ ~Loadable
    /\ Exit
    /\ UNCHANGED <<disk, manifest>>

-----------------------------------------------------------------------------
(* adoptImage *)

image == args.adopt[i]

\* An image that is in the directory already is there as a whole.
Present(img) ==
    \A j \in 1..MaxSegments :
        disk[<<img.name, j>>] = IF j <= img.n THEN Segment(img.of, j) ELSE NoFile

\* SegmentPaths finds the segments.
AdoptImage ==
    /\ pc = "adopt"
    /\ i <= Len(args.adopt)
    /\ image.inPlace => Present(image)
    /\ pc' = "copy"
    /\ k' = 1
    /\ UNCHANGED <<disk, manifest, runs, args, mem, i, entries, added, history>>

\* It does not, or refuses what it finds.
NotDiscovered ==
    /\ pc = "adopt"
    /\ i <= Len(args.adopt)
    /\ Exit
    /\ UNCHANGED <<disk, manifest>>

CopyFile ==
    /\ pc = "copy"
    /\ k <= image.n
    /\ disk' = IF image.inPlace THEN disk
               ELSE [disk EXCEPT ![<<image.name, k>>] = Segment(image.of, k)]
    /\ k' = k + 1
    /\ UNCHANGED <<manifest, runs, pc, args, mem, i, entries, added, history>>

\* Nothing was created, or what was is left as it is.
CopyFails ==
    /\ pc = "copy"
    /\ k <= image.n
    /\ \/ disk' = disk
       \/ ~image.inPlace /\ disk' = [disk EXCEPT ![<<image.name, k>>] = Fragment]
    /\ Exit
    /\ UNCHANGED manifest

\* Entries of names that are there already are replaced.
upsert(all, made) ==
    [name \in DOMAIN all \cup DOMAIN made |->
        IF name \in DOMAIN made THEN made[name] ELSE all[name]]

Entry(name, e) == [only \in {name} |-> e]

StoredDigestEntry(img) ==
    [Segments |-> 1..img.n, Oracle |-> "stored-digest", expected |-> img.of,
     RequireVerifyOK |-> TRUE, ExpectIncomplete |-> FALSE]

\* OpenSegments of the copies tells the digests the imaging tool embedded.
RegisterImage ==
    /\ pc = "copy"
    /\ k > image.n
    /\ image.opens /\ image.digest
    /\ mem' = upsert(mem, Entry(image.name, StoredDigestEntry(image)))
    /\ added' = added + 1
    /\ i' = i + 1
    /\ pc' = "adopt"
    /\ UNCHANGED <<disk, manifest, runs, args, k, entries, history>>

NotAdopted ==
    /\ pc = "copy"
    /\ k > image.n
    /\ ~(image.opens /\ image.digest)
    /\ Exit
    /\ UNCHANGED <<disk, manifest>>

\* What follows the adoptions; without ewfacquire, they must not be none.
AdoptEnds ==
    /\ pc = "adopt"
    /\ i > Len(args.adopt)
    /\ \/ /\ args.generate /\ args.tools
          /\ pc' = "generate"
       \/ /\ ~args.generate \/ (~args.tools /\ added > 0)
          /\ pc' = "save"
    /\ i' = 1
    /\ UNCHANGED <<disk, manifest, runs, args, mem, k, entries, added, history>>

NoTools ==
    /\ pc = "adopt"
    /\ i > Len(args.adopt)
    /\ args.generate /\ ~args.tools
    /\ added = 0
    /\ Exit
    /\ UNCHANGED <<disk, manifest>>

-----------------------------------------------------------------------------
(* generate and runEwfacquire *)

variant == Variants[i]

Acquisition == <<variant.name, args.size>>

\* What an ewfacquire makes of it that cannot write EWF2.
FallBack == <<"EWF v1">> \o Acquisition

FilesOf(name) == {f \in FileNames : f[1] = name}

\* Mutated form of RemoveStale: the files of an earlier acquisition stay.
RemoveStaleNot(kept) == disk

\* os.Remove of each file that the directory has of the name.  Its error is not
\* looked at: the files kept are those it leaves.
RemoveStale(kept) ==
    [f \in FileNames |-> IF f[1] = variant.name /\ f \notin kept THEN NoFile ELSE disk[f]]

\* The raw source is written, and what an earlier run left is removed.
Prepare ==
    /\ pc = "generate"
    /\ i <= Len(Variants)
    /\ \E kept \in SUBSET {f \in FilesOf(variant.name) : disk[f] # NoFile} :
          /\ disk' = RemoveStale(kept)
          /\ stuck' = stuck \cup kept
    /\ pc' = "acquire"
    /\ UNCHANGED <<manifest, runs, args, mem, i, k, entries, added, known>>

\* An error of writeRawImage ends the run, entries made so far included.
RawFails ==
    /\ pc = "generate"
    /\ i <= Len(Variants)
    /\ Exit
    /\ UNCHANGED <<disk, manifest>>

\* An error of runEwfacquire skips the variant.
SkipVariant ==
    /\ pc' = "generate"
    /\ i' = i + 1
    /\ UNCHANGED <<manifest, runs, args, mem, k, entries, added, history>>

\* ewfacquire fails, and whatever it has written so far stays, or no file that it
\* wrote is found.
AcquireFails ==
    /\ pc = "acquire"
    /\ \E whole, broken \in SUBSET FilesOf(variant.name) :
          /\ \A f \in whole : f[2] <= args.size
          /\ disk' = [f \in FileNames |->
                         IF f \in whole THEN Segment(Acquisition, f[2])
                         ELSE IF f \in broken THEN Fragment ELSE disk[f]]
    /\ SkipVariant

\* What the directory then has of the name is removed again, but for the files that
\* os.Remove leaves.
FallsBack ==
    /\ pc = "acquire"
    /\ variant.ewf2
    /\ \E kept \in SUBSET FilesOf(variant.name) :
          disk' = [f \in FileNames |->
                      IF f[1] # variant.name THEN disk[f]
                      ELSE IF f \notin kept THEN NoFile
                      ELSE IF f[2] <= args.size THEN Segment(FallBack, f[2]) ELSE disk[f]]
    /\ SkipVariant

Acquire ==
    /\ pc = "acquire"
    /\ disk' = [f \in FileNames |->
                   IF f[1] = variant.name /\ f[2] <= args.size
                   THEN Segment(Acquisition, f[2]) ELSE disk[f]]
    /\ pc' = "inspect"
    /\ UNCHANGED <<manifest, runs, args, mem, i, k, entries, added, history>>

\* The log or ewfinfo cannot be read, or they contradict each other; the files
\* stay.
InspectFails ==
    /\ pc = "inspect"
    /\ SkipVariant
    /\ UNCHANGED disk

\* The segments are those the directory has of the name; a dialect may have no
\* place to store a digest.
RawSourceEntry(stored) ==
    [Segments |-> {j \in 1..MaxSegments : disk[<<variant.name, j>>] # NoFile},
     Oracle |-> "raw-source", expected |-> Acquisition,
     RequireVerifyOK |-> stored, ExpectIncomplete |-> FALSE]

RecordVariant ==
    /\ pc = "inspect"
    /\ \E stored \in BOOLEAN :
          entries' = upsert(entries, Entry(variant.name, RawSourceEntry(stored)))
    /\ i' = i + 1
    /\ pc' = "generate"
    /\ UNCHANGED <<disk, manifest, runs, args, mem, k, added, history>>

GenerateEnds ==
    /\ pc = "generate"
    /\ i > Len(Variants)
    /\ entries # Empty
    /\ mem' = upsert(mem, entries)
    /\ added' = added + Cardinality(DOMAIN entries)
    /\ pc' = "save"
    /\ UNCHANGED <<disk, manifest, runs, args, i, k, entries, history>>

NothingUsable ==
    /\ pc = "generate"
    /\ i > Len(Variants)
    /\ entries = Empty
    /\ Exit
    /\ UNCHANGED <<disk, manifest>>

-----------------------------------------------------------------------------
(* Entry.Validate and corpus.Save *)

\* An entry that would assert something.
Validate(e) ==
    /\ e.Segments # {}
    /\ \/ e.ExpectIncomplete
       \/ e.Oracle = "raw-source" /\ e.expected # None
       \/ e.Oracle = "stored-digest" /\ e.expected # None /\ e.RequireVerifyOK

Savable == added > 0 /\ \A name \in DOMAIN mem : Validate(mem[name])

NotSavable ==
    /\ pc = "save"
    /\ ~Savable
    /\ Exit
    /\ UNCHANGED <<disk, manifest>>

\* os.WriteFile truncates the file, and what it held is gone; then it writes it.
Save ==
    /\ pc = "save"
    /\ Savable
    /\ manifest' = [state |-> "torn", entries |-> Empty]
    /\ pc' = "write"
    /\ UNCHANGED <<disk, runs, args, mem, i, k, entries, added, history>>

\* The file cannot be opened.
SaveFails ==
    /\ pc = "save"
    /\ Savable
    /\ Exit
    /\ UNCHANGED <<disk, manifest>>

Written ==
    /\ pc = "write"
    /\ manifest' = [state |-> "intact", entries |-> mem]
    /\ known' = known \cup DOMAIN mem
    /\ pc' = "saved"
    /\ UNCHANGED <<disk, runs, args, mem, i, k, entries, added, stuck>>

\* It is left as far as it was written.
WriteFails ==
    /\ pc = "write"
    /\ Exit
    /\ UNCHANGED <<disk, manifest>>

Done ==
    /\ pc = "saved"
    /\ Exit
    /\ UNCHANGED <<disk, manifest>>

-----------------------------------------------------------------------------

\* The tool is killed.
Crash ==
    /\ pc # "idle"
    /\ Exit
    /\ UNCHANGED <<disk, manifest>>

Step ==
    \/ Load \/ LoadFails
    \/ AdoptImage \/ NotDiscovered \/ CopyFile \/ CopyFails \/ RegisterImage \/ NotAdopted
    \/ AdoptEnds \/ NoTools
    \/ Prepare \/ RawFails \/ AcquireFails \/ FallsBack \/ Acquire \/ InspectFails
    \/ RecordVariant \/ GenerateEnds \/ NothingUsable
    \/ NotSavable \/ Save \/ SaveFails \/ Written \/ WriteFails \/ Done

Next == Start \/ Step \/ Crash

Spec == Init /\ [][Next]_vars

-----------------------------------------------------------------------------

\* Segment j of the name is the one the entry tells of.
IsTold(name, e, j) == disk[<<name, j>>] = Segment(e.expected, j)

\* The files an entry lists are those of the acquisition it tells of.
Describes(name, e) ==
    \A j \in 1..MaxSegments : j \in e.Segments => IsTold(name, e, j)

\* The entry lists the whole acquisition and, beside it, nothing but old files that
\* the run failed to remove.
DescribesBut(name, e) ==
    /\ 1..args.size \subseteq e.Segments
    /\ \A j \in 1..MaxSegments :
         j \in e.Segments => IsTold(name, e, j) \/ (j > args.size /\ <<name, j>> \in stuck)

Generated(name) == args.generate /\ args.tools /\ \E j \in 1..Len(Variants) : Variants[j].name = name

\* When the manifest is written, each entry the run has made is in it.  That of an
\* adopted image lists files of this image only, whatever fragments and stale
\* segments were there ("an entry must describe the files it just wrote").  That of
\* a variant lists its whole acquisition, and what else it lists are old files whose
\* removal failed unnoticed.  (An adopted name that is a variant's as well is left
\* to the variant.)
FreshAreOnDisk ==
    pc = "saved" =>
        /\ \A name \in DOMAIN entries :
             manifest.entries[name] = entries[name] /\ DescribesBut(name, entries[name])
        /\ \A j \in 1..Len(args.adopt) :
             LET name == args.adopt[j].name
             IN  Generated(name) \/ Describes(name, manifest.entries[name])

\* A run that is killed while it writes the manifest loses all its entries.  The
\* loss never passes unnoticed: a manifest that Load accepts, a missing one
\* included, lacks no name that a whole one had before it.  So no run takes a torn
\* manifest for a corpus to begin, and none that completes drops an entry.
NoSilentLoss ==
    manifest.state \in {"absent", "intact"} => known \subseteq DOMAIN manifest.entries

=============================================================================
