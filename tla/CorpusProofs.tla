---------------------------- MODULE CorpusProofs ----------------------------
(***************************************************************************)
(* For any images to adopt, any matrix of variants, and runs that fail or  *)
(* are killed anywhere: no readable manifest lacks a name of a whole one   *)
(* before it, and the entries a run makes describe the files it leaves,    *)
(* but for old files that it failed to remove.                             *)
(***************************************************************************)
EXTENDS Corpus, TLAPS

USE DEF history

Stages == {"idle", "load", "adopt", "copy", "generate", "acquire", "inspect", "save",
           "write", "saved"}

TypeOK ==
    /\ disk = [f \in FileNames |-> disk[f]]
    /\ manifest = [state |-> manifest.state, entries |-> manifest.entries]
    /\ pc \in Stages
    /\ pc # "idle" => args \in Args
    /\ i \in Nat \ {0}
    /\ k \in Nat \ {0}
    /\ pc \in {"idle", "load"} => i = 1

\* From Load on, the manifest in memory has every name that was ever in a whole one,
\* and Written puts it in the place of the one on disk.
NamesKept ==
    /\ NoSilentLoss
    /\ manifest.state = "absent" => DOMAIN manifest.entries = {}
    /\ pc \notin {"idle", "load"} => known \subseteq DOMAIN mem
    /\ pc = "saved" => manifest.entries = mem

\* all has an entry of the name, and it describes the files.
Told(all, name) == name \in DOMAIN all /\ Describes(name, all[name])

\* The images adopted so far, but for those whose files are being replaced.
Adopted ==
    /\ pc = "adopt" => \A j \in 1..Len(args.adopt) : j < i => Told(mem, args.adopt[j].name)
    /\ pc = "copy" =>
         /\ i <= Len(args.adopt)
         /\ \A j \in 1..Len(args.adopt) :
              j < i => args.adopt[j].name = image.name \/ Told(mem, args.adopt[j].name)
         /\ \A q \in 1..image.n :
              q < k \/ image.inPlace => disk[<<image.name, q>>] = Segment(image.of, q)
    /\ pc \in {"generate", "acquire", "inspect"} => args.generate /\ args.tools
    /\ pc \in {"generate", "acquire", "inspect", "save", "write", "saved"} =>
         \A j \in 1..Len(args.adopt) :
            Generated(args.adopt[j].name) \/ Told(mem, args.adopt[j].name)

\* The entries made are of variants that are done with.
OfVariants ==
    \A name \in DOMAIN entries :
        /\ args.generate /\ args.tools
        /\ DescribesBut(name, entries[name])
        /\ \E j \in 1..Len(Variants) :
             /\ name = Variants[j].name
             /\ pc \in {"generate", "acquire", "inspect"} => j < i

\* Place q of the variant under way is empty, but for what could not be removed, and
\* has its segment when the acquisition is made.
AbsentBut(q) == disk[<<variant.name, q>>] = NoFile \/ <<variant.name, q>> \in stuck

WrittenAt(q) ==
    IF q <= args.size THEN disk[<<variant.name, q>>] = Segment(Acquisition, q)
                      ELSE AbsentBut(q)

\* The variants acquired so far, and the one under way.
Made ==
    /\ pc \in {"idle", "load", "adopt", "copy"} => DOMAIN entries = {}
    /\ OfVariants
    /\ pc \in {"acquire", "inspect"} => i <= Len(Variants)
    /\ pc = "acquire" => \A q \in 1..MaxSegments : AbsentBut(q)
    /\ pc = "inspect" => \A q \in 1..MaxSegments : WrittenAt(q)
    /\ pc \in {"save", "write", "saved"} =>
         \A name \in DOMAIN entries : name \in DOMAIN mem /\ mem[name] = entries[name]

CorpusInv == TypeOK /\ NamesKept /\ Adopted /\ Made

-----------------------------------------------------------------------------
(* The directory *)

LEMMA FileOf ==
    ASSUME NEW name \in Names, NEW q \in 1..MaxSegments
    PROVE  <<name, q>> \in FileNames /\ <<name, q>>[1] = name /\ <<name, q>>[2] = q
BY DEF FileNames

LEMMA AdoptedIs ==
    ASSUME NEW a \in Args, NEW j \in 1..Len(a.adopt)
    PROVE  a.adopt[j].name \in Names /\ a.adopt[j].n \in 1..MaxSegments
BY CorpusAssumption

LEMMA Bounds ==
    /\ MaxSegments \in Nat
    /\ Len(Variants) \in Nat
    /\ \A a \in Args : a.size \in 1..MaxSegments /\ Len(a.adopt) \in Nat
BY CorpusAssumption

\* Leaving the run: nothing of it is left.
LEMMA ExitInv ==
    ASSUME CorpusInv, Exit, manifest' = manifest,
           disk' = [f \in FileNames |-> disk'[f]]
    PROVE  CorpusInv'
<1>1. TypeOK'
  BY DEF CorpusInv, TypeOK, Exit, Stages
<1>2. NamesKept'
  BY DEF CorpusInv, NamesKept, NoSilentLoss, Exit
<1>3. Adopted'
  BY DEF Adopted, Exit
<1>4. Made'
  <2>1. pc' = "idle" /\ DOMAIN entries' = {}
    BY DEF Exit, Empty
  <2> QED BY <2>1 DEF Made, OfVariants
<1> QED BY <1>1, <1>2, <1>3, <1>4 DEF CorpusInv

LEMMA InitInv == Init => CorpusInv
<1> SUFFICES ASSUME Init PROVE CorpusInv
  OBVIOUS
<1>1. TypeOK
  <2>1. disk = [f \in FileNames |-> disk[f]]
    BY DEF Init
  <2>2. manifest = [state |-> manifest.state, entries |-> manifest.entries]
    BY CorpusAssumption DEF Init
  <2> QED BY <2>1, <2>2 DEF Init, TypeOK, Stages
<1>2. NamesKept
  BY CorpusAssumption DEF Init, NamesKept, NoSilentLoss
<1>3. Adopted
  BY DEF Init, Adopted
<1>4. Made
  <2>1. pc = "idle" /\ DOMAIN entries = {}
    BY DEF Init, Empty
  <2> QED BY <2>1 DEF Made, OfVariants
<1> QED BY <1>1, <1>2, <1>3, <1>4 DEF CorpusInv

LEMMA StartInv == ASSUME CorpusInv, Start PROVE CorpusInv'
<1>1. TypeOK'
  BY DEF CorpusInv, TypeOK, Start, Stages
<1>2. NamesKept'
  BY DEF CorpusInv, NamesKept, NoSilentLoss, Start
<1>3. Adopted'
  BY DEF Adopted, Start
<1>4. Made'
  BY DEF CorpusInv, Made, OfVariants, DescribesBut, IsTold, Start
<1> QED BY <1>1, <1>2, <1>3, <1>4 DEF CorpusInv

LEMMA LoadInv == ASSUME CorpusInv, Load PROVE CorpusInv'
<1>1. TypeOK'
  BY DEF CorpusInv, TypeOK, Load, Stages
<1>2. NamesKept'
  BY DEF CorpusInv, NamesKept, NoSilentLoss, Load, Loadable, Empty
<1>3. Adopted'
  BY DEF CorpusInv, TypeOK, Adopted, Load
<1>4. Made'
  BY DEF CorpusInv, Made, OfVariants, DescribesBut, IsTold, Load
<1> QED BY <1>1, <1>2, <1>3, <1>4 DEF CorpusInv

LEMMA AdoptImageInv == ASSUME CorpusInv, AdoptImage PROVE CorpusInv'
<1> USE DEF image
<1>1. TypeOK'
  BY DEF CorpusInv, TypeOK, AdoptImage, Stages
<1>2. NamesKept'
  BY DEF CorpusInv, NamesKept, NoSilentLoss, AdoptImage
<1>3. Adopted'
  <2>1. image.n \in 1..MaxSegments
    <3>1. args \in Args /\ i \in 1..Len(args.adopt)
      BY Bounds DEF CorpusInv, TypeOK, AdoptImage
    <3> QED BY <3>1, AdoptedIs
  <2>2. \A q \in 1..image.n :
          q < k' \/ image.inPlace => disk[<<image.name, q>>] = Segment(image.of, q)
    <3> SUFFICES ASSUME NEW q \in 1..image.n, q < k' \/ image.inPlace
                 PROVE  disk[<<image.name, q>>] = Segment(image.of, q)
      OBVIOUS
    <3>1. image.inPlace
      BY <2>1, Bounds DEF AdoptImage
    <3>2. q \in 1..MaxSegments /\ q <= image.n
      BY <2>1, Bounds
    <3> QED BY <3>1, <3>2 DEF AdoptImage, Present
  <2>3. \A j \in 1..Len(args.adopt) : j < i => Told(mem, args.adopt[j].name)
    BY DEF CorpusInv, Adopted, AdoptImage
  <2>4. UNCHANGED <<disk, args, mem, i>> /\ pc' = "copy" /\ i <= Len(args.adopt)
    BY DEF AdoptImage
  <2> QED BY <2>2, <2>3, <2>4 DEF Adopted, Told, Describes, IsTold
<1>4. Made'
  BY DEF CorpusInv, Made, OfVariants, DescribesBut, IsTold, AdoptImage
<1> QED BY <1>1, <1>2, <1>3, <1>4 DEF CorpusInv

LEMMA CopyFileInv == ASSUME CorpusInv, CopyFile PROVE CorpusInv'
<1> USE DEF image
<1>1. args \in Args /\ i \in 1..Len(args.adopt)
  BY Bounds DEF CorpusInv, TypeOK, Adopted, CopyFile
<1>2. /\ image.name \in Names
      /\ image.n \in 1..MaxSegments
      /\ \A j \in 1..Len(args.adopt) : args.adopt[j].name \in Names
  BY <1>1, AdoptedIs
<1>3. TypeOK'
  BY DEF CorpusInv, TypeOK, CopyFile, Stages
<1>4. NamesKept'
  BY DEF CorpusInv, NamesKept, NoSilentLoss, CopyFile
<1>5. Adopted'
  <2>1. ASSUME NEW j \in 1..Len(args.adopt), j < i
        PROVE  args.adopt[j].name = image.name \/ Told(mem, args.adopt[j].name)'
    <3> SUFFICES ASSUME args.adopt[j].name # image.name
                 PROVE  Told(mem, args.adopt[j].name)'
      OBVIOUS
    <3>1. Told(mem, args.adopt[j].name)
      BY <2>1 DEF CorpusInv, Adopted, CopyFile
    <3>2. \A q \in 1..MaxSegments :
             disk'[<<args.adopt[j].name, q>>] = disk[<<args.adopt[j].name, q>>]
      BY <1>2, FileOf DEF CorpusInv, TypeOK, CopyFile
    <3> QED BY <3>1, <3>2 DEF Told, Describes, IsTold, CopyFile
  <2>2. ASSUME NEW q \in 1..image.n, q < k' \/ image.inPlace
        PROVE  disk'[<<image.name, q>>] = Segment(image.of, q)
    <3>1. q \in 1..MaxSegments /\ k \in 1..MaxSegments
      BY <1>2, Bounds DEF CorpusInv, TypeOK, CopyFile
    <3>2. CASE q = k /\ ~image.inPlace
      BY <3>1, <3>2, <1>2, FileOf DEF CorpusInv, TypeOK, CopyFile
    <3>3. CASE ~(q = k /\ ~image.inPlace)
      <4>1. q < k \/ image.inPlace
        BY <3>3, <2>2, Bounds DEF CorpusInv, TypeOK, CopyFile
      <4>2. disk[<<image.name, q>>] = Segment(image.of, q)
        BY <4>1 DEF CorpusInv, Adopted, CopyFile
      <4> QED BY <4>2, <3>1, <3>3, <1>2, FileOf DEF CorpusInv, TypeOK, CopyFile
    <3> QED BY <3>2, <3>3
  <2>3. UNCHANGED <<args, mem, i, pc>> /\ pc = "copy"
    BY DEF CopyFile
  <2> QED BY <1>1, <2>1, <2>2, <2>3 DEF Adopted
<1>6. Made'
  BY DEF CorpusInv, Made, OfVariants, DescribesBut, IsTold, CopyFile
<1> QED BY <1>3, <1>4, <1>5, <1>6 DEF CorpusInv

LEMMA RegisterImageInv == ASSUME CorpusInv, RegisterImage PROVE CorpusInv'
<1> USE DEF image
<1>1. args \in Args /\ i \in 1..Len(args.adopt)
  BY Bounds DEF CorpusInv, TypeOK, Adopted, RegisterImage
<1>2. image.name \in Names /\ image.n \in 1..MaxSegments
  BY <1>1, AdoptedIs
<1> DEFINE e == StoredDigestEntry(image)
<1>3. /\ DOMAIN mem' = DOMAIN mem \cup {image.name}
      /\ mem'[image.name] = e
      /\ \A name \in DOMAIN mem : name # image.name => mem'[name] = mem[name]
  BY DEF RegisterImage, upsert, Entry
<1>4. e.Segments = 1..image.n /\ e.expected = image.of
  BY DEF StoredDigestEntry
<1> HIDE DEF e
<1>5. TypeOK'
  BY DEF CorpusInv, TypeOK, RegisterImage, Stages
<1>6. NamesKept'
  BY <1>3 DEF CorpusInv, NamesKept, NoSilentLoss, RegisterImage
<1>7. Adopted'
  <2>1. Describes(image.name, e)
    <3> SUFFICES ASSUME NEW q \in 1..MaxSegments, q \in e.Segments
                 PROVE  disk[<<image.name, q>>] = Segment(e.expected, q)
      BY DEF Describes, IsTold
    <3>1. q \in 1..image.n /\ q < k
      BY <1>2, <1>4, Bounds DEF CorpusInv, TypeOK, RegisterImage
    <3> QED BY <3>1, <1>4 DEF CorpusInv, Adopted, RegisterImage
  <2>2. UNCHANGED <<disk, args>> /\ pc = "copy" /\ pc' = "adopt" /\ i' = i + 1
    BY DEF RegisterImage
  <2>3. ASSUME NEW j \in 1..Len(args.adopt), j < i'
        PROVE  Told(mem, args.adopt[j].name)'
    <3>1. CASE args.adopt[j].name = image.name
      BY <3>1, <1>3, <2>1, <2>2 DEF Told, Describes, IsTold
    <3>2. CASE args.adopt[j].name # image.name
      <4>1. j < i
        BY <2>2, <2>3, <3>2, <1>1
      <4>2. Told(mem, args.adopt[j].name)
        BY <4>1, <3>2, <2>2 DEF CorpusInv, Adopted
      <4> QED BY <4>2, <3>2, <1>3, <2>2 DEF Told, Describes, IsTold
    <3> QED BY <3>1, <3>2
  <2> QED BY <2>2, <2>3 DEF Adopted
<1>8. Made'
  BY DEF CorpusInv, Made, OfVariants, DescribesBut, IsTold, RegisterImage
<1> QED BY <1>5, <1>6, <1>7, <1>8 DEF CorpusInv

LEMMA AdoptEndsInv == ASSUME CorpusInv, AdoptEnds PROVE CorpusInv'
<1>1. TypeOK'
  BY DEF CorpusInv, TypeOK, AdoptEnds, Stages
<1>2. NamesKept'
  BY DEF CorpusInv, NamesKept, NoSilentLoss, AdoptEnds
<1>3. Adopted'
  <2>1. ASSUME NEW j \in 1..Len(args.adopt)
        PROVE  Told(mem, args.adopt[j].name)
    BY Bounds DEF CorpusInv, TypeOK, Adopted, AdoptEnds
  <2>2. UNCHANGED <<disk, args, mem>> /\ pc' \in {"generate", "save"}
    BY DEF AdoptEnds
  <2>3. pc' = "generate" => args.generate /\ args.tools
    BY DEF AdoptEnds
  <2> QED BY <2>1, <2>2, <2>3 DEF Adopted, Told, Describes, IsTold
<1>4. Made'
  BY DEF CorpusInv, Made, OfVariants, DescribesBut, IsTold, AdoptEnds
<1> QED BY <1>1, <1>2, <1>3, <1>4 DEF CorpusInv

-----------------------------------------------------------------------------
(* generate *)

AtVariant == pc \in {"generate", "acquire", "inspect"} /\ i <= Len(Variants)

LEMMA VariantIs ==
    ASSUME CorpusInv, AtVariant
    PROVE  i \in 1..Len(Variants) /\ variant = Variants[i] /\ variant.name \in Names
<1>1. i \in 1..Len(Variants)
  BY Bounds DEF CorpusInv, TypeOK, AtVariant
<1> QED BY <1>1, CorpusAssumption DEF variant

LEMMA EarlierNames ==
    ASSUME NEW j \in 1..Len(Variants), NEW l \in 1..Len(Variants), j < l
    PROVE  Variants[j].name # Variants[l].name /\ Variants[j].name \in Names
<1>1. j # l
  BY Bounds
<1> QED BY <1>1, CorpusAssumption

\* What touches no file but those of the variant under way leaves all that the
\* other entries describe.
LEMMA OthersStay ==
    ASSUME CorpusInv, AtVariant, UNCHANGED <<args, mem, entries>>, stuck \subseteq stuck',
           pc' \in {"generate", "acquire", "inspect"}, i' \in {i, i + 1},
           \A name \in Names, q \in 1..MaxSegments :
              name # variant.name => disk'[<<name, q>>] = disk[<<name, q>>]
    PROVE  Adopted' /\ OfVariants'
<1>1. i \in 1..Len(Variants) /\ variant = Variants[i] /\ variant.name \in Names
  BY VariantIs
<1>2. args \in Args /\ args.generate /\ args.tools
  BY DEF CorpusInv, TypeOK, Adopted, AtVariant
<1>3. ASSUME NEW j \in 1..Len(args.adopt)
      PROVE  Generated(args.adopt[j].name)' \/ Told(mem, args.adopt[j].name)'
  <2>1. CASE args.adopt[j].name = variant.name
    BY <2>1, <1>1, <1>2 DEF Generated
  <2>2. CASE args.adopt[j].name # variant.name
    <3>1. \A q \in 1..MaxSegments :
             disk'[<<args.adopt[j].name, q>>] = disk[<<args.adopt[j].name, q>>]
      BY <2>2, <1>2, AdoptedIs
    <3>2. Generated(args.adopt[j].name) \/ Told(mem, args.adopt[j].name)
      BY DEF CorpusInv, Adopted, AtVariant
    <3> QED BY <3>1, <3>2 DEF Generated, Told, Describes, IsTold
  <2> QED BY <2>1, <2>2
<1>4. ASSUME NEW name \in DOMAIN entries
      PROVE  /\ DescribesBut(name, entries[name])'
             /\ \E j \in 1..Len(Variants) : name = Variants[j].name /\ j < i'
  <2>1. DescribesBut(name, entries[name])
    BY DEF CorpusInv, Made, OfVariants
  <2>2. PICK j \in 1..Len(Variants) : name = Variants[j].name /\ j < i
    BY DEF CorpusInv, Made, OfVariants, AtVariant
  <2>3. name # variant.name /\ name \in Names
    BY <2>2, <1>1, EarlierNames
  <2>4. \A q \in 1..MaxSegments : disk'[<<name, q>>] = disk[<<name, q>>]
    BY <2>3
  <2>5. j < i'
    BY <2>2, <1>1, Bounds
  <2>6. DescribesBut(name, entries[name])'
    <3>1. UNCHANGED <<args, entries>> /\ stuck \subseteq stuck'
      OBVIOUS
    <3> QED BY <2>1, <2>4, <3>1 DEF DescribesBut, IsTold
  <2> QED BY <2>2, <2>5, <2>6
<1>5. Adopted'
  BY <1>2, <1>3 DEF Adopted
<1>6. OfVariants'
  BY <1>2, <1>4 DEF OfVariants
<1> QED BY <1>5, <1>6

\* A step that touches only files of the variant and keeps the entries.
VariantStep ==
    /\ AtVariant
    /\ UNCHANGED <<manifest, args, mem, entries, known>>
    /\ stuck \subseteq stuck'
    /\ pc' \in {"generate", "acquire", "inspect"}
    /\ i' \in {i, i + 1}
    /\ k' = k
    /\ disk' = [f \in FileNames |-> disk'[f]]
    /\ \A f \in FileNames : f[1] # variant.name => disk'[f] = disk[f]
    /\ pc' \in {"acquire", "inspect"} => i' = i

LEMMA VariantStepInv ==
    ASSUME CorpusInv, VariantStep,
           pc' = "acquire" => \A q \in 1..MaxSegments : AbsentBut(q)',
           pc' = "inspect" => \A q \in 1..MaxSegments : WrittenAt(q)'
    PROVE  CorpusInv'
<1>1. TypeOK'
  BY DEF CorpusInv, TypeOK, VariantStep, AtVariant, Stages
<1>2. NamesKept'
  BY DEF CorpusInv, NamesKept, NoSilentLoss, VariantStep, AtVariant
<1>3. \A name \in Names, q \in 1..MaxSegments :
         name # variant.name => disk'[<<name, q>>] = disk[<<name, q>>]
  BY FileOf DEF VariantStep
<1>4. Adopted' /\ OfVariants'
  BY <1>3, OthersStay DEF VariantStep
<1>5. Made'
  BY <1>4 DEF Made, VariantStep, AtVariant, variant, Acquisition
<1> QED BY <1>1, <1>2, <1>4, <1>5 DEF CorpusInv

LEMMA PrepareInv == ASSUME CorpusInv, Prepare PROVE CorpusInv'
<1>1. AtVariant
  BY DEF Prepare, AtVariant
<1>2. PICK kept \in SUBSET {f \in FilesOf(variant.name) : disk[f] # NoFile} :
         /\ disk' = [f \in FileNames |->
                       IF f[1] = variant.name /\ f \notin kept THEN NoFile ELSE disk[f]]
         /\ stuck' = stuck \cup kept
  BY DEF Prepare, RemoveStale
<1>3. VariantStep
  BY <1>1, <1>2 DEF VariantStep, Prepare
<1>4. variant' = variant
  BY DEF Prepare, variant
<1>5. \A q \in 1..MaxSegments : AbsentBut(q)'
  BY <1>1, <1>2, <1>4, VariantIs, FileOf DEF AbsentBut
<1> QED BY <1>3, <1>5, VariantStepInv DEF Prepare

LEMMA AcquireFailsInv == ASSUME CorpusInv, AcquireFails PROVE CorpusInv'
<1>1. AtVariant
  BY DEF CorpusInv, Made, AcquireFails, AtVariant
<1>2. PICK whole \in SUBSET FilesOf(variant.name), broken \in SUBSET FilesOf(variant.name) :
         disk' = [f \in FileNames |->
                    IF f \in whole THEN Segment(Acquisition, f[2])
                    ELSE IF f \in broken THEN Fragment ELSE disk[f]]
  BY DEF AcquireFails
<1>3. VariantStep
  BY <1>1, <1>2 DEF VariantStep, AcquireFails, SkipVariant, FilesOf
<1> QED BY <1>3, VariantStepInv DEF AcquireFails, SkipVariant

LEMMA FallsBackInv == ASSUME CorpusInv, FallsBack PROVE CorpusInv'
<1>1. AtVariant
  BY DEF CorpusInv, Made, FallsBack, AtVariant
<1>2. PICK kept \in SUBSET FilesOf(variant.name) :
         disk' = [f \in FileNames |->
                    IF f[1] # variant.name THEN disk[f]
                    ELSE IF f \notin kept THEN NoFile
                    ELSE IF f[2] <= args.size THEN Segment(FallBack, f[2]) ELSE disk[f]]
  BY DEF FallsBack
<1>3. VariantStep
  BY <1>1, <1>2 DEF VariantStep, FallsBack, SkipVariant
<1> QED BY <1>3, VariantStepInv DEF FallsBack, SkipVariant

LEMMA AcquireInv == ASSUME CorpusInv, Acquire PROVE CorpusInv'
<1>1. AtVariant
  BY DEF CorpusInv, Made, Acquire, AtVariant
<1>2. disk' = [f \in FileNames |->
                  IF f[1] = variant.name /\ f[2] <= args.size
                  THEN Segment(Acquisition, f[2]) ELSE disk[f]]
  BY DEF Acquire
<1>3. VariantStep
  BY <1>1, <1>2 DEF VariantStep, Acquire
<1>4. \A q \in 1..MaxSegments : AbsentBut(q)
  BY DEF CorpusInv, Made, Acquire
<1>5. UNCHANGED <<variant, Acquisition, args, stuck>>
  BY DEF Acquire, variant, Acquisition
<1>6. \A q \in 1..MaxSegments : WrittenAt(q)'
  <2> SUFFICES ASSUME NEW q \in 1..MaxSegments PROVE WrittenAt(q)'
    OBVIOUS
  <2>1. AbsentBut(q) /\ variant.name \in Names
    BY <1>1, <1>4, VariantIs
  <2>2. disk'[<<variant.name, q>>] =
           IF q <= args.size THEN Segment(Acquisition, q) ELSE disk[<<variant.name, q>>]
    BY <1>2, <2>1, FileOf
  <2> QED BY <2>1, <2>2, <1>5 DEF WrittenAt, AbsentBut
<1> QED BY <1>3, <1>6, VariantStepInv DEF Acquire

LEMMA InspectFailsInv == ASSUME CorpusInv, InspectFails PROVE CorpusInv'
<1>1. AtVariant
  BY DEF CorpusInv, Made, InspectFails, AtVariant
<1>2. disk = [f \in FileNames |-> disk[f]]
  BY DEF CorpusInv, TypeOK
<1>3. VariantStep
  BY <1>1, <1>2 DEF VariantStep, InspectFails, SkipVariant
<1> QED BY <1>3, VariantStepInv DEF InspectFails, SkipVariant

LEMMA RecordVariantInv == ASSUME CorpusInv, RecordVariant PROVE CorpusInv'
<1>1. AtVariant
  BY DEF CorpusInv, Made, RecordVariant, AtVariant
<1>2. i \in 1..Len(Variants) /\ variant = Variants[i] /\ variant.name \in Names
  BY <1>1, VariantIs
<1>3. PICK stored \in BOOLEAN :
         entries' = upsert(entries, Entry(variant.name, RawSourceEntry(stored)))
  BY DEF RecordVariant
<1> DEFINE e == RawSourceEntry(stored)
<1>4. /\ DOMAIN entries' = DOMAIN entries \cup {variant.name}
      /\ entries'[variant.name] = e
      /\ \A name \in DOMAIN entries : name # variant.name => entries'[name] = entries[name]
  BY <1>3 DEF upsert, Entry
<1>5. /\ e.Segments = {q \in 1..MaxSegments : disk[<<variant.name, q>>] # NoFile}
      /\ e.expected = Acquisition
  BY DEF RawSourceEntry
<1> HIDE DEF e
<1>6. DescribesBut(variant.name, e)
  <2>1. \A q \in 1..MaxSegments : WrittenAt(q)
    BY DEF CorpusInv, Made, RecordVariant
  <2>2. args.size \in 1..MaxSegments /\ MaxSegments \in Nat
    BY <1>1, Bounds DEF CorpusInv, TypeOK, AtVariant
  <2>3. \A q \in 1..args.size : q \in e.Segments
    <3> SUFFICES ASSUME NEW q \in 1..args.size PROVE q \in e.Segments
      OBVIOUS
    <3>1. q \in 1..MaxSegments /\ q <= args.size
      BY <2>2
    <3>2. disk[<<variant.name, q>>] = Segment(Acquisition, q)
      BY <2>1, <3>1 DEF WrittenAt
    <3>3. Segment(Acquisition, q) # NoFile
      BY <1>1, <1>2, <3>1, FileAssumption DEF CorpusInv, TypeOK, AtVariant, Acquisition
    <3> QED BY <3>1, <3>2, <3>3, <1>5
  <2>4. ASSUME NEW q \in 1..MaxSegments, q \in e.Segments
        PROVE  IsTold(variant.name, e, q) \/ (q > args.size /\ <<variant.name, q>> \in stuck)
    <3>1. WrittenAt(q) /\ disk[<<variant.name, q>>] # NoFile
      BY <2>1, <2>4, <1>5
    <3>2. CASE q <= args.size
      BY <3>1, <3>2, <1>5 DEF WrittenAt, IsTold
    <3>3. CASE ~(q <= args.size)
      BY <3>1, <3>3, <2>2 DEF WrittenAt, AbsentBut
    <3> QED BY <3>2, <3>3
  <2> QED BY <2>3, <2>4 DEF DescribesBut
<1>7. UNCHANGED <<disk, manifest, args, mem, stuck, known>> /\ pc = "inspect" /\ pc' = "generate" /\ i' = i + 1
  BY DEF RecordVariant
<1>8. TypeOK'
  BY DEF CorpusInv, TypeOK, RecordVariant, Stages
<1>9. NamesKept'
  BY <1>7 DEF CorpusInv, NamesKept, NoSilentLoss
<1>10. Adopted'
  BY <1>7 DEF CorpusInv, Adopted, Generated, Told, Describes, IsTold
<1>11. OfVariants'
  <2>1. args.generate /\ args.tools
    BY <1>7 DEF CorpusInv, Adopted
  <2>2. ASSUME NEW name \in DOMAIN entries'
        PROVE  /\ DescribesBut(name, entries'[name])
               /\ \E j \in 1..Len(Variants) : name = Variants[j].name /\ j < i'
    <3>1. CASE name = variant.name
      <4>1. i < i'
        BY <1>2, <1>7, Bounds
      <4> QED BY <4>1, <3>1, <1>2, <1>4, <1>6
    <3>2. CASE name # variant.name
      <4>1. name \in DOMAIN entries /\ entries'[name] = entries[name]
        BY <3>2, <1>4
      <4>2. DescribesBut(name, entries[name])
        BY <4>1 DEF CorpusInv, Made, OfVariants
      <4>3. PICK j \in 1..Len(Variants) : name = Variants[j].name /\ j < i
        BY <4>1, <1>7 DEF CorpusInv, Made, OfVariants
      <4>4. j < i'
        BY <4>3, <1>2, <1>7, Bounds
      <4> QED BY <4>1, <4>2, <4>3, <4>4
    <3> QED BY <3>1, <3>2
  <2> QED BY <2>1, <2>2, <1>7 DEF OfVariants, DescribesBut, IsTold
<1>12. Made'
  BY <1>7, <1>11 DEF Made
<1> QED BY <1>8, <1>9, <1>10, <1>12 DEF CorpusInv

LEMMA GenerateEndsInv == ASSUME CorpusInv, GenerateEnds PROVE CorpusInv'
<1>1. /\ DOMAIN mem' = DOMAIN mem \cup DOMAIN entries
      /\ \A name \in DOMAIN entries : mem'[name] = entries[name]
      /\ \A name \in DOMAIN mem : name \notin DOMAIN entries => mem'[name] = mem[name]
  BY DEF GenerateEnds, upsert
<1>2. UNCHANGED <<disk, manifest, args, i, k, entries, stuck, known>> /\ pc = "generate" /\ pc' = "save"
  BY DEF GenerateEnds
<1>3. TypeOK'
  BY <1>2 DEF CorpusInv, TypeOK, Stages
<1>4. NamesKept'
  BY <1>1, <1>2 DEF CorpusInv, NamesKept, NoSilentLoss
<1>5. Adopted'
  <2>1. ASSUME NEW j \in 1..Len(args.adopt), ~Generated(args.adopt[j].name)
        PROVE  Told(mem', args.adopt[j].name)
    <3>1. Told(mem, args.adopt[j].name)
      BY <2>1, <1>2 DEF CorpusInv, Adopted
    <3>2. args.adopt[j].name \notin DOMAIN entries
      BY <2>1 DEF CorpusInv, Made, OfVariants, Generated
    <3> QED BY <3>1, <3>2, <1>1 DEF Told
  <2> QED BY <2>1, <1>2 DEF Adopted, Generated, Told, Describes, IsTold
<1>6. Made'
  BY <1>1, <1>2 DEF CorpusInv, Made, OfVariants, DescribesBut, IsTold
<1> QED BY <1>3, <1>4, <1>5, <1>6 DEF CorpusInv

-----------------------------------------------------------------------------
(* The manifest *)

LEMMA SaveInv == ASSUME CorpusInv, Save PROVE CorpusInv'
<1>1. manifest' = [state |-> "torn", entries |-> Empty]
  BY DEF Save
<1>2. UNCHANGED <<disk, args, mem, i, k, entries, stuck, known>> /\ pc = "save" /\ pc' = "write"
  BY DEF Save
<1>3. TypeOK'
  BY <1>1, <1>2 DEF CorpusInv, TypeOK, Stages
<1>4. NamesKept'
  BY <1>1, <1>2 DEF CorpusInv, NamesKept, NoSilentLoss
<1>5. Adopted'
  BY <1>2 DEF CorpusInv, Adopted, Generated, Told, Describes, IsTold
<1>6. Made'
  BY <1>2 DEF CorpusInv, Made, OfVariants, DescribesBut, IsTold
<1> QED BY <1>3, <1>4, <1>5, <1>6 DEF CorpusInv

LEMMA WrittenInv == ASSUME CorpusInv, Written PROVE CorpusInv'
<1>1. manifest' = [state |-> "intact", entries |-> mem] /\ known' = known \cup DOMAIN mem
  BY DEF Written
<1>2. UNCHANGED <<disk, args, mem, i, k, entries, stuck>> /\ pc = "write" /\ pc' = "saved"
  BY DEF Written
<1>3. TypeOK'
  BY <1>1, <1>2 DEF CorpusInv, TypeOK, Stages
<1>4. NamesKept'
  BY <1>1, <1>2 DEF CorpusInv, NamesKept, NoSilentLoss
<1>5. Adopted'
  BY <1>2 DEF CorpusInv, Adopted, Generated, Told, Describes, IsTold
<1>6. Made'
  BY <1>2 DEF CorpusInv, Made, OfVariants, DescribesBut, IsTold
<1> QED BY <1>3, <1>4, <1>5, <1>6 DEF CorpusInv

\* A run that ends, fails or is killed.
Ends ==
    \/ LoadFails \/ NotDiscovered \/ CopyFails \/ NotAdopted \/ NoTools \/ RawFails
    \/ NothingUsable \/ NotSavable \/ SaveFails \/ WriteFails \/ Done \/ Crash

LEMMA EndsExit ==
    ASSUME CorpusInv, Ends
    PROVE  Exit /\ manifest' = manifest /\ disk' = [f \in FileNames |-> disk'[f]]
<1>1. disk = [f \in FileNames |-> disk[f]]
  BY DEF CorpusInv, TypeOK
<1>2. CASE CopyFails
  BY <1>1, <1>2 DEF CopyFails
<1>3. CASE ~CopyFails
  BY <1>1, <1>3 DEF Ends, LoadFails, NotDiscovered, NotAdopted, NoTools, RawFails,
     NothingUsable, NotSavable, SaveFails, WriteFails, Done, Crash
<1> QED BY <1>2, <1>3

LEMMA NextInv == ASSUME CorpusInv, [Next]_vars PROVE CorpusInv'
<1>1. CASE Ends
  BY <1>1, EndsExit, ExitInv
<1>2. CASE UNCHANGED vars
  <2>1. UNCHANGED <<disk, manifest, pc, args, mem, i, k, entries, stuck, known>>
    BY <1>2 DEF vars, runVars
  <2>2. TypeOK'
    BY <2>1 DEF CorpusInv, TypeOK
  <2>3. NamesKept'
    BY <2>1 DEF CorpusInv, NamesKept, NoSilentLoss
  <2>4. Adopted'
    BY <2>1 DEF CorpusInv, Adopted, image, Generated, Told, Describes, IsTold
  <2>5. Made'
    BY <2>1 DEF CorpusInv, Made, OfVariants, variant, Acquisition, AbsentBut, WrittenAt, DescribesBut, IsTold
  <2> QED BY <2>2, <2>3, <2>4, <2>5 DEF CorpusInv
<1>3. CASE ~Ends /\ Next
  BY <1>3, StartInv, LoadInv, AdoptImageInv, CopyFileInv, RegisterImageInv, AdoptEndsInv,
     PrepareInv, AcquireFailsInv, FallsBackInv, AcquireInv, InspectFailsInv,
     RecordVariantInv, GenerateEndsInv, SaveInv, WrittenInv
     DEF Next, Step, Ends
<1> QED BY <1>1, <1>2, <1>3

LEMMA CorpusKept == Spec => []CorpusInv
<1>1. Init => CorpusInv
  BY InitInv
<1>2. CorpusInv /\ [Next]_vars => CorpusInv'
  BY NextInv
<1> QED BY <1>1, <1>2, PTL DEF Spec

-----------------------------------------------------------------------------
(* The theorems *)

\* Every entry that a run of mkcorpus has made is in the manifest it wrote, and lists
\* files in the directory of the acquisition it tells of: all of them, for a variant,
\* and beside them only old files that os.Remove left (main.go:513 ignores its error).
THEOREM EntriesDescribeFiles == Spec => []FreshAreOnDisk
<1>1. CorpusInv => FreshAreOnDisk
  <2> SUFFICES ASSUME CorpusInv, pc = "saved" PROVE FreshAreOnDisk
    BY DEF FreshAreOnDisk
  <2>1. manifest.entries = mem
    BY DEF CorpusInv, NamesKept, NoSilentLoss
  <2>2. \A name \in DOMAIN entries :
           manifest.entries[name] = entries[name] /\ DescribesBut(name, entries[name])
    BY <2>1 DEF CorpusInv, Made, OfVariants
  <2>3. \A j \in 1..Len(args.adopt) :
           \/ Generated(args.adopt[j].name)
           \/ Describes(args.adopt[j].name, manifest.entries[args.adopt[j].name])
    BY <2>1 DEF CorpusInv, Adopted, Told
  <2> QED BY <2>2, <2>3 DEF FreshAreOnDisk
<1> QED BY <1>1, CorpusKept, PTL

\* The entries that a run killed inside os.WriteFile loses are missed: no manifest
\* that corpus.Load accepts afterwards lacks a name that a whole one had, since a torn
\* one is refused, never taken for an empty one, and what was read is written back.
THEOREM LossIsNoticed == Spec => []NoSilentLoss
<1>1. CorpusInv => NoSilentLoss
  BY DEF CorpusInv, NamesKept
<1> QED BY <1>1, CorpusKept, PTL

=============================================================================
