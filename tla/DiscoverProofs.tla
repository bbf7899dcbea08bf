--------------------------- MODULE DiscoverProofs ---------------------------
(***************************************************************************)
(* For every alphabet, directory and path: the number of the name that Ext *)
(* makes is the number it was made for, the scan keeps what belongs under  *)
(* its own number, and a set opened without holes is segments 1 to n.      *)
(***************************************************************************)
EXTENDS Discover, FiniteSetTheorems, TLAPS

-----------------------------------------------------------------------------
(* Names *)

LEMMA Division ==
    ASSUME NEW a \in Nat, NEW b \in Nat \ {0}
    PROVE  /\ a \div b \in Nat /\ a % b \in 0..(b - 1)
           /\ a = b * (a \div b) + (a % b)
  OBVIOUS

LEMMA LettersType == Letters \in Nat \ {0} /\ maxNumeric \in Nat \ {0} /\ letterBase \in Nat \ {0}
  BY NamesAssumption DEF letterBase

LEMMA PerLeading == lettersPerLeading \in Nat \ {0}
  BY LettersType DEF lettersPerLeading

\* The pair that counts to rest counts to rest.
LEMMA PairCounts ==
    ASSUME NEW rest \in Nat, NEW upper
    PROVE  /\ Pairs(rest, upper).kind = "letters"
           /\ Pairs(rest, upper).pair[1].rank \in Nat /\ Pairs(rest, upper).pair[2].rank \in Nat
           /\ Letters * Pairs(rest, upper).pair[1].rank + Pairs(rest, upper).pair[2].rank = rest
<1>1. /\ rest = Letters * (rest \div Letters) + (rest % Letters)
      /\ rest \div Letters \in Nat /\ rest % Letters \in Nat
  BY LettersType, Division
<1>2. /\ Pairs(rest, upper).kind = "letters"
      /\ Pairs(rest, upper).pair[1].rank = rest \div Letters
      /\ Pairs(rest, upper).pair[2].rank = rest % Letters
  BY DEF Pairs, Pair
<1> QED BY <1>1, <1>2

\* Ext and Number are inverse (segname.Ext, Family.Number): the name made for
\* segment n is read back as segment n of that family, in digits, in letters and
\* behind a carry alike, for every alphabet and every highest two-digit number.
THEOREM NamesRoundTrip ==
    \A f \in Family, k \in Nat : Nameable(f, k) => Number(f, Ext(f, k)) = k
<1> SUFFICES ASSUME NEW f \in Family, NEW k \in Nat, Nameable(f, k)
             PROVE  Number(f, Ext(f, k)) = k
  OBVIOUS
<1>0. Valid(f) /\ k > 0 /\ f.Base \in Letter /\ f.Base.rank \in Nat
  BY LettersType DEF Nameable, Family, Letter
<1>1. CASE k <= maxNumeric
  <2>1. /\ Ext(f, k).Base = f.Base /\ Ext(f, k).V2 = f.V2
        /\ Ext(f, k).field.kind = "digits" /\ Ext(f, k).field.value = k
    BY <1>1 DEF Ext, Digits
  <2> QED BY <1>0, <2>1 DEF Number, fieldNumber
<1>2. CASE ~(k <= maxNumeric)
  <2> DEFINE off == k - letterBase
             carry == off \div lettersPerLeading
             rest == off % lettersPerLeading
  <2>1. off \in Nat
    BY <1>2, LettersType DEF letterBase
  <2>3. /\ Ext(f, k).Base.rank = f.Base.rank + carry /\ Ext(f, k).V2 = f.V2
        /\ Ext(f, k).field = Pairs(rest, f.Base.upper)
    BY <1>0, <1>2 DEF Ext, Letter
  <2> HIDE DEF off
  <2>2. carry \in Nat /\ rest \in Nat /\ off = lettersPerLeading * carry + rest
    <3>1. /\ carry \in Nat /\ rest \in 0..(lettersPerLeading - 1)
          /\ off = lettersPerLeading * carry + rest
      BY <2>1, PerLeading, Division, Zenon
    <3> QED BY <3>1
  <2> HIDE DEF carry, rest
  <2>4. /\ Ext(f, k).field.kind = "letters"
        /\ Ext(f, k).field.pair[1].rank \in Nat /\ Ext(f, k).field.pair[2].rank \in Nat
        /\ Letters * Ext(f, k).field.pair[1].rank + Ext(f, k).field.pair[2].rank = rest
    BY <2>2, <2>3, PairCounts
  <2>5. Number(f, Ext(f, k)) = fieldNumber(Ext(f, k).field, carry)
    BY <1>0, <2>2, <2>3 DEF Number
  <2>6. fieldNumber(Ext(f, k).field, carry) = letterBase + carry * lettersPerLeading
         + Letters * Ext(f, k).field.pair[1].rank + Ext(f, k).field.pair[2].rank
    BY <2>4 DEF fieldNumber
  <2>7. lettersPerLeading * carry = carry * lettersPerLeading /\ lettersPerLeading * carry \in Nat
    BY <2>2, PerLeading
  <2>8. Number(f, Ext(f, k)) = letterBase + lettersPerLeading * carry + rest
    BY <2>2, <2>4, <2>5, <2>6, <2>7, LettersType
  <2> QED BY <2>2, <2>7, <2>8, LettersType DEF off
<1> QED BY <1>1, <1>2

LEMMA FieldNat ==
    ASSUME NEW field \in Field, NEW carry \in Nat
    PROVE  fieldNumber(field, carry) \in Nat
<1>1. CASE field.kind = "other"
  BY <1>1 DEF fieldNumber, NoNumber
<1>2. CASE field.kind = "digits"
  <2>1. field.value \in Nat
    BY <1>2, LettersType DEF Field, OtherField
  <2> QED BY <1>2, <2>1 DEF fieldNumber, NoNumber
<1>3. CASE field.kind = "letters"
  <2>1. field.pair \in Letter \X Letter
    BY <1>3 DEF Field, OtherField
  <2>2. field.pair[1].rank \in Nat /\ field.pair[2].rank \in Nat
    BY <2>1, LettersType DEF Letter
  <2>3. Letters * field.pair[1].rank \in Nat /\ carry * lettersPerLeading \in Nat
    BY <2>2, LettersType, PerLeading
  <2> QED BY <1>3, <2>2, <2>3, LettersType DEF fieldNumber
<1>4. field.kind \in {"other", "digits", "letters"}
  BY DEF Field, OtherField
<1> QED BY <1>1, <1>2, <1>3, <1>4

LEMMA NumberNat ==
    ASSUME NEW f, f.Base.rank \in Int, NEW ext \in Extension
    PROVE  Number(f, ext) \in Nat
<1>1. ext.Base.rank \in Int /\ ext.field \in Field
  BY LettersType DEF Extension, Letter
<1>2. CASE ext.Base.rank - f.Base.rank < 0
  BY <1>2 DEF Number, NoNumber
<1>3. CASE ~(ext.Base.rank - f.Base.rank < 0)
  <2>1. fieldNumber(ext.field, ext.Base.rank - f.Base.rank) \in Nat
    BY <1>1, <1>3, FieldNat
  <2> QED BY <2>1 DEF Number, NoNumber
<1> QED BY <1>2, <1>3

\* The file named is a segment of its own family.
LEMMA OwnNumber ==
    ASSUME NEW ext \in Extension
    PROVE  /\ ParseFamily(ext).family.Base.rank \in Int
           /\ Valid(ParseFamily(ext).family) =>
                /\ ParseFamily(ext).number \in Nat \ {0}
                /\ Number(ParseFamily(ext).family, ext) = ParseFamily(ext).number
<1> DEFINE f == [Base |-> ext.Base, V2 |-> ext.V2]
<1>1. ext.Base.rank \in Int /\ ext.field \in Field
  BY LettersType DEF Extension, Letter
<1>2. fieldNumber(ext.field, 0) \in Nat
  BY <1>1, FieldNat
<1>3. ~Valid(NoFamily) /\ NoFamily.Base.rank \in Int
  BY NamesAssumption DEF Valid, NoFamily
<1>4. CASE Valid(f) /\ fieldNumber(ext.field, 0) # NoNumber
  <2>1. /\ ParseFamily(ext).family = f
        /\ ParseFamily(ext).number = fieldNumber(ext.field, 0)
    BY <1>4 DEF ParseFamily
  <2>2. Number(f, ext) = fieldNumber(ext.field, ext.Base.rank - ext.Base.rank)
    BY <1>1, <1>4 DEF Number
  <2>3. ext.Base.rank - ext.Base.rank = 0
    BY <1>1
  <2> QED BY <1>1, <1>2, <1>4, <2>1, <2>2, <2>3 DEF NoNumber
<1>5. CASE ~(Valid(f) /\ fieldNumber(ext.field, 0) # NoNumber)
  <2>1. ParseFamily(ext).family = NoFamily
    BY <1>5 DEF ParseFamily
  <2> QED BY <1>3, <2>1
<1> QED BY <1>4, <1>5

-----------------------------------------------------------------------------
(* Sorting *)

LEMMA BelowBound ==
    ASSUME NEW D \in SUBSET Nat, IsFiniteSet(D), NEW b \in D
    PROVE  /\ Below(D, b) \in 0..(Cardinality(D) - 1)
           /\ \A a \in D : a < b => Below(D, a) < Below(D, b)
<1> DEFINE L(x) == {m \in D : m < x}
<1>1. \A x : IsFiniteSet(L(x)) /\ Cardinality(L(x)) \in Nat
  <2> TAKE x
  <2>1. L(x) \in SUBSET D
    OBVIOUS
  <2>2. IsFiniteSet(L(x))
    BY <2>1, FS_Subset
  <2> HIDE DEF L
  <2> QED BY <2>2, FS_CardinalityType
<1>2. \A x \in D : Cardinality(L(x) \cup {x}) = Cardinality(L(x)) + 1
  <2> TAKE x \in D
  <2>1. x \notin L(x)
    OBVIOUS
  <2> HIDE DEF L
  <2> QED BY <1>1, <2>1, FS_AddElement
<1>3. Below(D, b) < Cardinality(D)
  <2>1. L(b) \cup {b} \in SUBSET D
    OBVIOUS
  <2>2. Below(D, b) = Cardinality(L(b))
    BY DEF Below
  <2> HIDE DEF L
  <2>3. Cardinality(L(b) \cup {b}) <= Cardinality(D)
    BY <2>1, FS_Subset
  <2>4. Cardinality(D) \in Nat
    BY FS_CardinalityType
  <2> QED BY <1>1, <1>2, <2>2, <2>3, <2>4
<1>4. ASSUME NEW a \in D, a < b PROVE Below(D, a) < Below(D, b)
  <2>0. a \in Nat /\ b \in Nat /\ \A m \in D : m \in Nat
    OBVIOUS
  <2>1. L(a) \cup {a} \in SUBSET L(b)
    <3>1. \A m \in L(a) \cup {a} : m \in D /\ m < b
      BY <1>4, <2>0
    <3> QED BY <3>1
  <2>2. Below(D, a) = Cardinality(L(a)) /\ Below(D, b) = Cardinality(L(b))
    BY DEF Below
  <2> HIDE DEF L
  <2>3. Cardinality(L(a) \cup {a}) <= Cardinality(L(b))
    BY <1>1, <2>1, FS_Subset
  <2> QED BY <1>1, <1>2, <2>2, <2>3
<1>5. Below(D, b) \in Nat /\ Cardinality(D) \in Nat
  BY <1>1, FS_CardinalityType DEF Below
<1> QED BY <1>3, <1>4, <1>5

\* There is a k-th number, with k - 1 below it.
LEMMA SortedRanks ==
    ASSUME NEW D \in SUBSET Nat, IsFiniteSet(D), NEW k \in 1..Cardinality(D)
    PROVE  Sorted(D)[k] \in D /\ Below(D, Sorted(D)[k]) = k - 1
<1> DEFINE R == 0..(Cardinality(D) - 1)
           rank == [x \in D |-> Below(D, x)]
<1>0. Cardinality(D) \in Nat
  BY FS_CardinalityType
<1>1. rank \in [D -> R]
  BY BelowBound
<1>2. \A x, y \in D : rank[x] = rank[y] => x = y
  <2> TAKE x, y \in D
  <2>1. Below(D, x) \in Int /\ Below(D, y) \in Int
    BY BelowBound
  <2>2. ~(x < y /\ Below(D, x) = Below(D, y)) /\ ~(y < x /\ Below(D, x) = Below(D, y))
    BY <2>1, BelowBound
  <2> QED BY <2>2
<1>3. IsFiniteSet(R) /\ Cardinality(R) = Cardinality(D)
  <2> DEFINE top == Cardinality(D) - 1
  <2>1. top \in Int /\ 0 \in Int
    BY <1>0
  <2> HIDE DEF top
  <2>2. IsFiniteSet(0..top) /\ Cardinality(0..top) = IF 0 > top THEN 0 ELSE top - 0 + 1
    BY <2>1, FS_Interval, Zenon
  <2>3. (IF 0 > top THEN 0 ELSE top - 0 + 1) = Cardinality(D)
    BY <1>0 DEF top
  <2> QED BY <2>2, <2>3 DEF top
<1> HIDE DEF rank, R
<1>4. rank \in Injection(D, R)
  BY <1>1, <1>2 DEF Injection, IsInjective
<1>5. rank \in Surjection(D, R)
  BY <1>3, <1>4, FS_Injection
<1>6. \E x \in D : Below(D, x) = k - 1
  <2>1. k - 1 \in R
    BY <1>0 DEF R
  <2>2. PICK x \in D : rank[x] = k - 1
    BY <1>5, <2>1 DEF Surjection
  <2> QED BY <2>2 DEF rank
<1>7. Sorted(D)[k] = CHOOSE x \in D : Below(D, x) = k - 1
  BY DEF Sorted
<1> QED BY <1>6, <1>7

-----------------------------------------------------------------------------
(* The scan *)

\* Only a set that has a family is scanned, and only one without holes, or one
\* that may have them, is opened.
IInv ==
    /\ DiscoverInv
    /\ pc = "scan" => Valid(family)
    /\ pc = "opened" /\ ~allowIncomplete => Missing = {}

\* What TypeOK says of the names at hand.
LEMMA NamesTyped ==
    ASSUME TypeOK
    PROVE  /\ name \in Name /\ family.Base.rank \in Int
           /\ Valid(family) => self \in Nat \ {0} /\ Number(family, name.ext) = self
           /\ \A e \in listing.entries : e.name \in Name /\ Number(family, e.name.ext) \in Nat
<1>1. name \in Name /\ name.ext \in Extension
  BY DiscoverAssumption DEF TypeOK, name, Name
<1>2. /\ family.Base.rank \in Int
      /\ Valid(family) => self \in Nat \ {0} /\ Number(family, name.ext) = self
  BY <1>1, OwnNumber DEF family, self
<1>3. \A e \in listing.entries : e.name \in Name /\ e.name.ext \in Extension
  BY DEF TypeOK, Entry, Name
<1> QED BY <1>1, <1>2, <1>3, NumberNat

LEMMA InitInv == Init => IInv
<1> SUFFICES ASSUME Init PROVE IInv
  OBVIOUS
<1>1. pc = "stat" /\ left = {} /\ found = <<>> /\ segments = <<>> /\ err = NoError
  BY DEF Init
<1>2. DOMAIN found = {}
  BY <1>1
<1>3. listing.entries \subseteq Entry
  BY DiscoverAssumption DEF Init
<1>4. IsFiniteSet(DOMAIN found)
  BY <1>2, FS_EmptySet
<1>5. segments \in Seq([Number : Nat, Path : Name])
  BY <1>1
<1>6. TypeOK
  BY <1>1, <1>2, <1>3, <1>4, <1>5 DEF Init, TypeOK, NoError
<1> QED BY <1>1, <1>2, <1>6 DEF IInv, DiscoverInv, FoundBelong, NothingPassed, SegmentsInOrder

\* A refusal leaves the record as it is.
LEMMA FailInv ==
    ASSUME IInv, NEW x, Fail(x),
           x.kind \in {"nil", "source", "ErrUnsupportedFormat", "ErrCorruptImage",
                      "ErrMissingSegment"}
    PROVE  IInv'
<1>1. /\ path' = path /\ listing' = listing /\ allowIncomplete' = allowIncomplete
      /\ left' = left /\ found' = found /\ segments' = segments /\ pc' = "failed" /\ err' = x
  BY DEF Fail
<1>2. TypeOK'
  BY <1>1 DEF IInv, DiscoverInv, TypeOK
<1>3. FoundBelong'
  BY <1>1 DEF IInv, DiscoverInv, FoundBelong, name, family
<1> QED BY <1>1, <1>2, <1>3 DEF IInv, DiscoverInv, NothingPassed, SegmentsInOrder

LEMMA AloneInv == ASSUME IInv, Alone PROVE IInv'
<1>1. /\ path' = path /\ listing' = listing /\ allowIncomplete' = allowIncomplete
      /\ left' = left /\ found' = found /\ pc' = "discovered" /\ err' = err
      /\ ~Valid(family) /\ segments' = <<[Number |-> 0, Path |-> name]>>
  BY DEF Alone
<1>2. family' = family
  BY <1>1 DEF family, name
<1>3. segments' \in Seq([Number : Nat, Path : Name])
  BY <1>1, NamesTyped DEF IInv, DiscoverInv
<1>4. TypeOK'
  BY <1>1, <1>3 DEF IInv, DiscoverInv, TypeOK
<1>5. FoundBelong'
  BY <1>1, <1>2 DEF IInv, DiscoverInv, FoundBelong, name
<1>6. ~Valid(family)'
  BY <1>1, <1>2 DEF Valid
<1> QED BY <1>1, <1>4, <1>5, <1>6 DEF IInv, DiscoverInv, NothingPassed, SegmentsInOrder

LEMMA ReadDirInv == ASSUME IInv, ReadDir PROVE IInv'
<1>1. /\ path' = path /\ listing' = listing /\ allowIncomplete' = allowIncomplete
      /\ left' = listing.entries /\ found' = found /\ segments' = segments
      /\ pc' = "scan" /\ err' = err /\ Valid(family)
  BY DEF ReadDir
<1>2. family' = family
  BY <1>1 DEF family, name
<1>3. TypeOK'
  BY <1>1 DEF IInv, DiscoverInv, TypeOK
<1>4. FoundBelong'
  BY <1>1, <1>2 DEF IInv, DiscoverInv, FoundBelong, name
<1>5. NothingPassed'
  BY <1>1 DEF NothingPassed
<1> QED BY <1>1, <1>2, <1>3, <1>4, <1>5 DEF IInv, DiscoverInv, SegmentsInOrder, Valid

LEMMA PassInv == ASSUME IInv, NEW e \in left, Pass(e) PROVE IInv'
<1>1. /\ path' = path /\ listing' = listing /\ allowIncomplete' = allowIncomplete
      /\ left' = left \ {e} /\ found' = found /\ segments' = segments
      /\ pc = "scan" /\ pc' = "scan" /\ err' = err /\ ~Belongs(e)
  BY DEF Pass
<1>2. family' = family /\ name' = name
  BY <1>1 DEF family, name
<1>3. TypeOK'
  BY <1>1 DEF IInv, DiscoverInv, TypeOK
<1>4. FoundBelong'
  BY <1>1, <1>2 DEF IInv, DiscoverInv, FoundBelong
<1>5. NothingPassed'
  BY <1>1, <1>2 DEF IInv, DiscoverInv, NothingPassed, Belongs
<1> QED BY <1>1, <1>2, <1>3, <1>4, <1>5 DEF IInv, DiscoverInv, SegmentsInOrder, Valid

LEMMA NoteInv == ASSUME IInv, NEW e \in left, Note(e) PROVE IInv'
<1> DEFINE number == Number(family, e.name.ext)
<1>1. /\ path' = path /\ listing' = listing /\ allowIncomplete' = allowIncomplete
      /\ left' = left \ {e} /\ segments' = segments
      /\ pc = "scan" /\ pc' = "scan" /\ err' = err /\ Belongs(e)
      /\ number \notin DOMAIN found
      /\ found' = [k \in DOMAIN found \cup {number} |->
                      IF k = number THEN e.name ELSE found[k]]
  BY DEF Note
<1>2. family' = family /\ name' = name
  BY <1>1 DEF family, name
<1>3. e \in listing.entries /\ e.name \in Name /\ number \in Nat \ {0}
  BY <1>1, NamesTyped DEF IInv, DiscoverInv, TypeOK, Belongs, NoNumber
<1>4. DOMAIN found' = DOMAIN found \cup {number} /\ found'[number] = e.name
      /\ \A k \in DOMAIN found : found'[k] = found[k]
  BY <1>1
<1> HIDE DEF number
<1>5. IsFiniteSet(DOMAIN found')
  BY <1>4, FS_AddElement DEF IInv, DiscoverInv, TypeOK
<1>6. TypeOK'
  BY <1>1, <1>3, <1>4, <1>5 DEF IInv, DiscoverInv, TypeOK
<1>7. FoundBelong'
  <2>1. \A k \in DOMAIN found :
          /\ found[k].stem.fold = name.stem.fold
          /\ Number(family, found[k].ext) = k
          /\ found[k] = name \/ \E d \in listing.entries : d.name = found[k] /\ isRegular(d)
    BY DEF IInv, DiscoverInv, FoundBelong
  <2>2. /\ e.name.stem.fold = name.stem.fold /\ Number(family, e.name.ext) = number
        /\ isRegular(e)
    BY <1>1 DEF Belongs, number
  <2> QED BY <1>1, <1>2, <1>3, <1>4, <2>1, <2>2 DEF FoundBelong
<1>8. NothingPassed'
  <2>1. \A d \in listing.entries \ left :
          Belongs(d) => /\ Number(family, d.name.ext) \in DOMAIN found
                        /\ found[Number(family, d.name.ext)] = d.name
    BY <1>1 DEF IInv, DiscoverInv, NothingPassed
  <2>2. \A d : Belongs(d)' <=> Belongs(d)
    BY <1>2 DEF Belongs
  <2>3. ASSUME NEW d \in listing.entries \ left', Belongs(d)
        PROVE  /\ Number(family, d.name.ext) \in DOMAIN found'
               /\ found'[Number(family, d.name.ext)] = d.name
    <3>1. CASE d = e
      BY <1>4, <3>1 DEF number
    <3>2. CASE d # e
      BY <1>1, <1>4, <2>1, <2>3, <3>2
    <3> QED BY <3>1, <3>2
  <2> QED BY <1>1, <1>2, <2>2, <2>3 DEF NothingPassed
<1> QED BY <1>1, <1>2, <1>6, <1>7, <1>8 DEF IInv, DiscoverInv, SegmentsInOrder, Valid

LEMMA FunctionIsSeq ==
    ASSUME NEW S, NEW c \in Nat, NEW f \in [1..c -> S]
    PROVE  f \in Seq(S) /\ Len(f) = c
  OBVIOUS

\* What the scan keeps is of the record, or the file that was named.
LEMMA KeptBelong ==
    ASSUME IInv, Valid(family)
    PROVE  /\ DOMAIN kept \in SUBSET (Nat \ {0}) /\ IsFiniteSet(DOMAIN kept)
           /\ self \in DOMAIN kept
           /\ \A k \in DOMAIN kept :
                /\ kept[k] \in Name
                /\ kept[k].stem.fold = name.stem.fold
                /\ Number(family, kept[k].ext) = k
                /\ kept[k] = name
                   \/ \E d \in listing.entries : d.name = kept[k] /\ isRegular(d)
<1> DEFINE low == {k \in DOMAIN found : saturated \/ k < letterBase}
<1>1. /\ DOMAIN kept = low \cup {self}
      /\ \A k \in DOMAIN kept : kept[k] = IF k = self THEN name ELSE found[k]
  BY DEF kept
<1>2. low \in SUBSET DOMAIN found
  OBVIOUS
<1> HIDE DEF low
<1>3. IsFiniteSet(DOMAIN kept)
  BY <1>1, <1>2, FS_Subset, FS_AddElement DEF IInv, DiscoverInv, TypeOK
<1>4. name \in Name /\ self \in Nat \ {0} /\ Number(family, name.ext) = self
  BY NamesTyped DEF IInv, DiscoverInv
<1>5. \A k \in DOMAIN found :
        /\ k \in Nat \ {0} /\ found[k] \in Name
        /\ found[k].stem.fold = name.stem.fold
        /\ Number(family, found[k].ext) = k
        /\ found[k] = name \/ \E d \in listing.entries : d.name = found[k] /\ isRegular(d)
  BY DEF IInv, DiscoverInv, TypeOK, FoundBelong
<1>6. \A k \in DOMAIN kept : k = self \/ k \in DOMAIN found
  BY <1>1, <1>2
<1> QED BY <1>1, <1>3, <1>4, <1>5, <1>6

LEMMA EndScanInv == ASSUME IInv, EndScan PROVE IInv'
<1> DEFINE D == DOMAIN kept
<1>1. /\ path' = path /\ listing' = listing /\ allowIncomplete' = allowIncomplete
      /\ left' = left /\ found' = kept /\ pc' = "discovered" /\ err' = err
      /\ segments' = [k \in 1..Cardinality(D) |->
                         [Number |-> Sorted(D)[k], Path |-> kept[Sorted(D)[k]]]]
  BY DEF EndScan
<1>2. family' = family /\ name' = name
  BY <1>1 DEF family, name
<1>3. Valid(family)
  BY DEF IInv, EndScan
<1>4. /\ D \in SUBSET (Nat \ {0}) /\ IsFiniteSet(D)
      /\ \A k \in D : /\ kept[k] \in Name
                      /\ kept[k].stem.fold = name.stem.fold
                      /\ Number(family, kept[k].ext) = k
                      /\ kept[k] = name
                         \/ \E d \in listing.entries : d.name = kept[k] /\ isRegular(d)
  BY <1>3, KeptBelong
<1>5. DOMAIN found' = D
  BY <1>1
<1> HIDE DEF D
<1>6. Cardinality(D) \in Nat
  BY <1>4, FS_CardinalityType
<1>7. \A k \in 1..Cardinality(D) : Sorted(D)[k] \in D /\ Below(D, Sorted(D)[k]) = k - 1
  BY <1>4, SortedRanks
<1>8. segments' \in Seq([Number : Nat, Path : Name]) /\ Len(segments') = Cardinality(D)
  <2> DEFINE E(k) == [Number |-> Sorted(D)[k], Path |-> kept[Sorted(D)[k]]]
  <2>1. \A k \in 1..Cardinality(D) : E(k) \in [Number : Nat, Path : Name]
    BY <1>4, <1>7
  <2>2. segments' = [k \in 1..Cardinality(D) |-> E(k)]
    BY <1>1
  <2> HIDE DEF E
  <2>3. segments' \in [1..Cardinality(D) -> [Number : Nat, Path : Name]]
    BY <2>1, <2>2
  <2> QED BY <1>6, <2>3, FunctionIsSeq
<1>9. TypeOK'
  BY <1>1, <1>4, <1>5, <1>8 DEF IInv, DiscoverInv, TypeOK
<1>10. FoundBelong'
  BY <1>1, <1>2, <1>4, <1>5 DEF FoundBelong
<1>11. \A k \in 1..Len(segments') :
         /\ segments'[k].Number \in D
         /\ Below(D, segments'[k].Number) = k - 1
         /\ segments'[k].Path = found'[segments'[k].Number]
  BY <1>1, <1>7, <1>8
<1>12. SegmentsInOrder'
  BY <1>5, <1>8, <1>11 DEF SegmentsInOrder
<1> QED BY <1>1, <1>9, <1>10, <1>12 DEF IInv, DiscoverInv, NothingPassed

LEMMA AcceptInv == ASSUME IInv, Accept PROVE IInv'
<1>1. /\ path' = path /\ listing' = listing /\ allowIncomplete' = allowIncomplete
      /\ left' = left /\ found' = found /\ segments' = segments
      /\ pc = "discovered" /\ pc' = "opened" /\ err' = err
      /\ allowIncomplete \/ Missing = {}
  BY DEF Accept
<1>2. family' = family /\ name' = name /\ Missing' = Missing
  BY <1>1 DEF family, name, Missing, Numbers
<1>3. TypeOK'
  BY <1>1 DEF IInv, DiscoverInv, TypeOK
<1>4. FoundBelong'
  BY <1>1, <1>2 DEF IInv, DiscoverInv, FoundBelong
<1>5. SegmentsInOrder'
  BY <1>1, <1>2 DEF IInv, DiscoverInv, SegmentsInOrder, Valid
<1> QED BY <1>1, <1>2, <1>3, <1>4, <1>5 DEF IInv, DiscoverInv, NothingPassed

LEMMA StepInv == IInv /\ [Next]_vars => IInv'
<1> SUFFICES ASSUME IInv, [Next]_vars PROVE IInv'
  OBVIOUS
<1>1. CASE NoSuchFile
  BY <1>1, FailInv DEF NoSuchFile, Refusal, NoError
<1>2. CASE Alone \/ ReadDir \/ EndScan \/ Accept
  BY <1>2, AloneInv, ReadDirInv, EndScanInv, AcceptInv
<1>3. CASE ReadDirFails
  BY <1>3, FailInv DEF ReadDirFails, Refusal, NoError
<1>4. CASE \E e \in left : Pass(e) \/ Note(e)
  BY <1>4, PassInv, NoteInv
<1>5. CASE \E e \in left : Clash(e)
  BY <1>5, FailInv DEF Clash, Refusal, NoError
<1>6. CASE Refuse
  BY <1>6, FailInv DEF Refuse
<1>7. CASE UNCHANGED vars
  <2>1. /\ path' = path /\ listing' = listing /\ allowIncomplete' = allowIncomplete
        /\ left' = left /\ found' = found /\ segments' = segments /\ pc' = pc /\ err' = err
    BY <1>7 DEF vars
  <2>2. family' = family /\ name' = name /\ Missing' = Missing
    BY <2>1 DEF family, name, Missing, Numbers
  <2>3. TypeOK' /\ FoundBelong'
    BY <2>1, <2>2 DEF IInv, DiscoverInv, TypeOK, FoundBelong
  <2>4. NothingPassed' /\ SegmentsInOrder'
    BY <2>1, <2>2 DEF IInv, DiscoverInv, NothingPassed, SegmentsInOrder, Belongs, Valid
  <2> QED BY <2>1, <2>2, <2>3, <2>4 DEF IInv, DiscoverInv, Valid
<1> QED BY <1>1, <1>2, <1>3, <1>4, <1>5, <1>6, <1>7 DEF Next

\* Discover keeps under each number a file of the directory, or the one named,
\* whose name says that number, misses none it has passed, and hands them on in
\* order: for every alphabet, directory and order of the scan.
THEOREM ScanKeepsTheSet == Spec => []DiscoverInv
<1>1. IInv => DiscoverInv
  BY DEF IInv
<1> QED BY <1>1, InitInv, StepInv, PTL DEF Spec

\* A record without holes has k - 1 numbers below its k-th segment, so that this
\* is number k.
LEMMA WithoutHoles == IInv => OpenedWithoutHoles
<1> SUFFICES ASSUME IInv, pc = "opened", ~allowIncomplete, Valid(family),
                    NEW k \in 1..Len(segments)
             PROVE  segments[k].Number = k /\ Number(family, segments[k].Path.ext) = k
  BY DEF OpenedWithoutHoles
<1> DEFINE D == DOMAIN found
           last == segments[Len(segments)].Number
           x == segments[k].Number
<1>1. /\ segments \in Seq([Number : Nat, Path : Name]) /\ IsFiniteSet(D)
      /\ D \in SUBSET (Nat \ {0})
  BY DEF IInv, DiscoverInv, TypeOK
<1>2. Len(segments) \in Nat /\ k \in Nat /\ 1 <= k /\ k <= Len(segments)
  BY <1>1
<1>3. \A j \in 1..Len(segments) :
        /\ segments[j].Number \in D /\ Below(D, segments[j].Number) = j - 1
        /\ segments[j].Path = found[segments[j].Number]
  BY DEF IInv, DiscoverInv, SegmentsInOrder
<1>4. /\ x \in D /\ x \in Nat \ {0} /\ Below(D, x) = k - 1
      /\ last \in D /\ last \in Nat /\ Below(D, last) = Len(segments) - 1
  BY <1>1, <1>2, <1>3
<1>5. 1..last \subseteq D
  <2>1. 1..last \ Numbers = {}
    BY DEF IInv, Missing
  <2>2. Numbers \subseteq D
    BY <1>3 DEF Numbers
  <2> QED BY <2>1, <2>2
<1>6. segments[k].Path = found[x] /\ Number(family, found[x].ext) = x
  BY <1>3, <1>4 DEF IInv, DiscoverInv, FoundBelong
<1> HIDE DEF D, last, x
<1>7. x <= last
  <2>1. SUFFICES ASSUME last < x PROVE FALSE
    BY <1>4
  <2>2. Below(D, last) < Below(D, x)
    BY <1>1, <1>4, <2>1, BelowBound
  <2> QED BY <1>2, <1>4, <2>2
<1>8. {m \in D : m < x} = 1..(x - 1)
  <2>1. \A m \in D : m \in Nat \ {0}
    BY <1>1
  <2>2. ASSUME NEW m PROVE m \in D /\ m < x <=> m \in 1..(x - 1)
    <3>1. ASSUME m \in D, m < x PROVE m \in 1..(x - 1)
      BY <1>4, <2>1, <3>1
    <3>2. ASSUME m \in 1..(x - 1) PROVE m \in D /\ m < x
      <4>1. m \in 1..last /\ m < x
        BY <1>4, <1>7, <3>2
      <4> QED BY <1>5, <4>1
    <3> QED BY <3>1, <3>2
  <2> QED BY <2>2
<1>9. Cardinality(1..(x - 1)) = x - 1
  <2> DEFINE top == x - 1
  <2>1. top \in Int /\ top >= 0 /\ 1 \in Int
    BY <1>4
  <2> HIDE DEF top
  <2>2. Cardinality(1..top) = IF 1 > top THEN 0 ELSE top - 1 + 1
    BY <2>1, FS_Interval, Zenon
  <2>3. (IF 1 > top THEN 0 ELSE top - 1 + 1) = top
    BY <2>1
  <2> QED BY <2>2, <2>3 DEF top
<1>10. x = k
  <2>1. Below(D, x) = x - 1
    BY <1>8, <1>9 DEF Below
  <2> QED BY <1>2, <1>4, <2>1
<1> QED BY <1>6, <1>10 DEF x

\* Without AllowIncompleteSegmentSet, discoverSegments hands on segments 1 to n, the
\* k-th a file named as segment k: for every alphabet, directory and path.
THEOREM OpenedIsOneToN == Spec => []OpenedWithoutHoles
  BY InitInv, StepInv, WithoutHoles, PTL DEF Spec

-----------------------------------------------------------------------------
(* The error for missing segments *)

LEMMA Monotone ==
    ASSUME NEW c \in Nat, NEW a \in Nat, NEW b \in Nat, a <= b
    PROVE  c * a \in Nat /\ c * b \in Nat /\ c * a <= c * b
<1>1. c * b = c * a + c * (b - a) /\ c * (b - a) \in Nat /\ c * a \in Nat
  OBVIOUS
<1> QED BY <1>1

\* A pair counts to less than all pairs of a leading letter.
LEMMA PairsBelow ==
    ASSUME NEW p \in 0..(Letters - 1), NEW q \in 0..(Letters - 1)
    PROVE  Letters * p + q \in Nat /\ Letters * p + q < lettersPerLeading
<1>1. p \in Nat /\ q \in Nat /\ p <= Letters - 1 /\ q <= Letters - 1 /\ Letters - 1 \in Nat
  BY LettersType
<1>2. Letters * p \in Nat /\ Letters * p <= Letters * (Letters - 1)
  BY <1>1, LettersType, Monotone
<1>3. Letters * (Letters - 1) = Letters * Letters - Letters
  BY LettersType
<1>4. Letters * Letters \in Nat
  BY LettersType
<1> QED BY <1>1, <1>2, <1>3, <1>4, LettersType DEF lettersPerLeading

\* What lies below a number that has a name in the family has a name too.
LEMMA NamedBelow ==
    ASSUME NEW f \in Family, Valid(f), NEW ext \in Extension, Number(f, ext) # NoNumber,
           NEW k \in Nat \ {0}, k <= Number(f, ext)
    PROVE  Nameable(f, k)
<1> DEFINE carry == ext.Base.rank - f.Base.rank
<1>0. /\ f.Base.rank \in 0..(Letters - 1) /\ ext.Base.rank \in 0..(Letters - 1)
      /\ ext.field \in Field
  BY DEF Family, Extension, Letter
<1>1. carry \in Nat /\ Number(f, ext) = fieldNumber(ext.field, carry)
  BY <1>0, LettersType DEF Number
<1>2. f.Base.rank + carry < Letters
  BY <1>0, LettersType
<1> HIDE DEF carry
<1>3. SUFFICES ASSUME k > maxNumeric
               PROVE  f.Base.rank + ((k - letterBase) \div lettersPerLeading) < Letters
  BY DEF Nameable
<1>4. ext.field.kind = "letters"
  <2>1. ext.field.kind \in {"other", "digits", "letters"}
    BY <1>0 DEF Field, OtherField
  <2>2. ext.field.kind # "other"
    BY <1>1 DEF fieldNumber
  <2>3. CASE ext.field.kind = "digits"
    <3>1. ext.field.value \in 0..maxNumeric
      BY <1>0, <2>3 DEF Field, OtherField
    <3>2. Number(f, ext) = ext.field.value
      BY <1>1, <2>3 DEF fieldNumber
    <3> QED BY <1>3, <3>1, <3>2, LettersType
  <2> QED BY <2>1, <2>2, <2>3
<1> DEFINE p == ext.field.pair[1].rank
           q == ext.field.pair[2].rank
           r == Letters * p + q
           off == k - letterBase
           d == off \div lettersPerLeading
<1>5. p \in 0..(Letters - 1) /\ q \in 0..(Letters - 1)
  <2>1. ext.field.pair \in Letter \X Letter
    BY <1>0, <1>4 DEF Field, OtherField
  <2> QED BY <2>1 DEF Letter
<1>6. Number(f, ext) = letterBase + carry * lettersPerLeading + Letters * p + q
  BY <1>1, <1>4 DEF fieldNumber
<1>7. off \in Nat
  BY <1>3, LettersType DEF letterBase
<1> HIDE DEF p, q, off
<1>8. r \in Nat /\ r < lettersPerLeading /\ Letters * p \in Nat /\ q \in Nat
  <2>1. Letters * p \in Nat /\ q \in Nat
    BY <1>5, LettersType
  <2> QED BY <2>1, <1>5, PairsBelow
<1>9. lettersPerLeading * carry = carry * lettersPerLeading /\ lettersPerLeading * carry \in Nat
  BY <1>1, PerLeading
<1>10. off <= lettersPerLeading * carry + r
  BY <1>6, <1>7, <1>8, <1>9, LettersType DEF off
<1>11. d \in Nat /\ lettersPerLeading * d <= off
  <2>1. /\ d \in Nat /\ off % lettersPerLeading \in 0..(lettersPerLeading - 1)
        /\ off = lettersPerLeading * d + (off % lettersPerLeading)
    BY <1>7, PerLeading, Division, Zenon
  <2> HIDE DEF d
  <2>2. lettersPerLeading * d \in Nat
    BY <2>1, PerLeading
  <2> QED BY <2>1, <2>2, PerLeading
<1> HIDE DEF d, r
<1>12. d <= carry
  <2> SUFFICES ASSUME carry + 1 <= d PROVE FALSE
    BY <1>1, <1>11
  <2>1. lettersPerLeading * (carry + 1) <= lettersPerLeading * d
    BY <1>1, <1>11, PerLeading, Monotone
  <2>2. lettersPerLeading * (carry + 1) = lettersPerLeading * carry + lettersPerLeading
    BY <1>1, PerLeading
  <2>3. lettersPerLeading * d \in Nat
    BY <1>11, PerLeading
  <2> QED BY <1>7, <1>8, <1>9, <1>10, <1>11, <2>1, <2>2, <2>3, PerLeading
<1>13. f.Base.rank + d < Letters
  BY <1>0, <1>1, <1>2, <1>11, <1>12, LettersType
<1> QED BY <1>13 DEF d, off

\* The error is made last; a file of no family has no holes, any other is on record.
ErrorInv ==
    /\ IInv
    /\ pc # "failed" => err.kind = "nil"
    /\ pc = "discovered" => IF Valid(family) THEN DOMAIN found # {} ELSE Missing = {}
    /\ ExpectedAreMissing

LEMMA OwnFamily ==
    ASSUME NEW ext \in Extension, Valid(ParseFamily(ext).family)
    PROVE  ParseFamily(ext).family \in Family
<1>1. ~Valid(NoFamily)
  BY NamesAssumption DEF Valid, NoFamily
<1>2. ParseFamily(ext).family = [Base |-> ext.Base, V2 |-> ext.V2]
  BY <1>1 DEF ParseFamily
<1> QED BY <1>2 DEF Extension, Family

\* Every hole of a set has a name that says its number.
LEMMA HolesNameable ==
    ASSUME ErrorInv, pc = "discovered", Missing # {}
    PROVE  /\ family \in Family /\ IsFiniteSet(Missing)
           /\ \A k \in Missing : k \in Nat /\ Nameable(family, k)
<1> DEFINE last == segments[Len(segments)].Number
<1>1. Valid(family) /\ DOMAIN found # {}
  BY DEF ErrorInv
<1>2. family \in Family
  <2>1. name.ext \in Extension
    BY NamesTyped DEF ErrorInv, IInv, DiscoverInv, Name
  <2> QED BY <1>1, <2>1, OwnFamily DEF family
<1>3. segments \in Seq([Number : Nat, Path : Name]) /\ IsFiniteSet(DOMAIN found)
  BY DEF ErrorInv, IInv, DiscoverInv, TypeOK
<1>4. Cardinality(DOMAIN found) # 0 /\ Len(segments) = Cardinality(DOMAIN found)
  <2>1. Cardinality(DOMAIN found) # 0
    BY <1>1, <1>3, FS_EmptySet
  <2>2. Len(segments) = Cardinality(DOMAIN found)
    BY <1>1 DEF ErrorInv, IInv, DiscoverInv, SegmentsInOrder
  <2> QED BY <2>1, <2>2
<1>5. Len(segments) \in 1..Len(segments)
  <2>1. Len(segments) \in Nat
    BY <1>3
  <2> QED BY <1>4, <2>1
<1>6. last \in DOMAIN found
  BY <1>1, <1>5 DEF ErrorInv, IInv, DiscoverInv, SegmentsInOrder
<1> HIDE DEF last
<1>7. /\ last \in Nat \ {0} /\ found[last].ext \in Extension
      /\ Number(family, found[last].ext) = last
  BY <1>6 DEF ErrorInv, IInv, DiscoverInv, TypeOK, FoundBelong, Name
<1>8. Missing \in SUBSET (1..last)
  BY DEF Missing, last
<1>9. IsFiniteSet(Missing)
  <2>1. 1 \in Int /\ last \in Int
    BY <1>7
  <2>2. IsFiniteSet(1..last)
    BY <2>1, FS_Interval, Zenon
  <2> QED BY <1>8, <2>2, FS_Subset
<1>10. \A k \in Missing : k \in Nat \ {0} /\ k <= last
  BY <1>7, <1>8
<1>11. ASSUME NEW k \in Missing PROVE Nameable(family, k)
  BY <1>1, <1>2, <1>7, <1>10, <1>11, NamedBelow DEF NoNumber
<1> QED BY <1>2, <1>9, <1>10, <1>11

\* The names of the holes are as many as the holes.
LEMMA HolesNamed ==
    ASSUME ErrorInv, pc = "discovered", Missing # {}
    PROVE  /\ \A k \in Missing : \E x \in Names(Missing) : Number(family, x.ext) = k
           /\ Cardinality(Names(Missing)) = Cardinality(Missing)
<1> DEFINE M == Missing
           f == [k \in M |-> [stem |-> name.stem, ext |-> Ext(family, k)]]
<1>1. IsFiniteSet(M) /\ \A k \in M : Nameable(family, k)
  BY HolesNameable
<1>2. \A k \in M : Number(family, Ext(family, k)) = k
  BY HolesNameable, NamesRoundTrip
<1>3. Names(M) = {[stem |-> name.stem, ext |-> Ext(family, k)] : k \in M}
  <2>1. {k \in M : Nameable(family, k)} = M
    BY <1>1
  <2> QED BY <2>1 DEF Names
<1> HIDE DEF M
<1>4. \A k \in M : f[k] \in Names(M) /\ Number(family, f[k].ext) = k
  BY <1>2, <1>3
<1>5. f \in Surjection(M, Names(M))
  <2>1. f \in [M -> Names(M)]
    BY <1>3
  <2>2. \A x \in Names(M) : \E k \in M : f[k] = x
    BY <1>3
  <2> QED BY <2>1, <2>2 DEF Surjection
<1>6. f \in [M -> Names(M)]
  BY <1>3
<1> HIDE DEF f
<1>7. f \in Injection(M, Names(M))
  <2>1. \A j, k \in M : f[j] = f[k] => j = k
    <3> TAKE j, k \in M
    <3>1. Number(family, f[j].ext) = j /\ Number(family, f[k].ext) = k
      BY <1>4
    <3> QED BY <3>1
  <2> QED BY <1>6, <2>1 DEF Injection, IsInjective
<1>8. Cardinality(Names(M)) = Cardinality(M)
  BY <1>1, <1>5, <1>7, FS_Surjection
<1> QED BY <1>4, <1>8 DEF M

LEMMA ErrorStep == ErrorInv /\ [Next]_vars => ErrorInv'
<1> SUFFICES ASSUME ErrorInv, [Next]_vars PROVE ErrorInv'
  OBVIOUS
<1>0. IInv'
  BY StepInv DEF ErrorInv
<1>1. CASE NoSuchFile \/ ReadDirFails \/ \E e \in left : Clash(e)
  <2>1. pc' = "failed" /\ err'.kind # "ErrMissingSegment"
    BY <1>1 DEF NoSuchFile, ReadDirFails, Clash, Fail, Refusal, NoError
  <2> QED BY <1>0, <2>1 DEF ErrorInv, ExpectedAreMissing
<1>2. CASE Alone
  <2>1. /\ pc # "failed" /\ pc' = "discovered" /\ err' = err /\ path' = path /\ ~Valid(family)
        /\ segments' = <<[Number |-> 0, Path |-> name]>>
    BY <1>2 DEF Alone
  <2>2. ~Valid(family)'
    BY <2>1 DEF Valid, family, name
  <2>3. Missing' = {}
    <3>1. Len(segments') = 1 /\ segments'[1].Number = 0
      BY <2>1
    <3>2. segments'[Len(segments')].Number = 0
      BY <3>1
    <3>3. 1..0 = {}
      OBVIOUS
    <3> QED BY <3>2, <3>3 DEF Missing
  <2>4. err'.kind = "nil"
    BY <2>1 DEF ErrorInv
  <2> QED BY <1>0, <2>1, <2>2, <2>3, <2>4 DEF ErrorInv, ExpectedAreMissing
<1>3. CASE EndScan
  <2>1. pc' = "discovered" /\ err' = err /\ path' = path /\ found' = kept /\ pc = "scan"
    BY <1>3 DEF EndScan
  <2>2. Valid(family) /\ (Valid(family)' <=> Valid(family))
    BY <2>1 DEF ErrorInv, IInv, Valid, family, name
  <2>3. DOMAIN found' # {}
    BY <2>1, <2>2, KeptBelong DEF ErrorInv
  <2>4. err'.kind = "nil"
    BY <2>1 DEF ErrorInv
  <2> QED BY <1>0, <2>1, <2>2, <2>3, <2>4 DEF ErrorInv, ExpectedAreMissing
<1>4. CASE ReadDir \/ Accept \/ \E e \in left : Pass(e) \/ Note(e)
  <2>1. pc # "failed" /\ pc' \in {"scan", "opened"} /\ err' = err
    BY <1>4 DEF ReadDir, Accept, Pass, Note
  <2>2. err'.kind = "nil"
    BY <2>1 DEF ErrorInv
  <2> QED BY <1>0, <2>1, <2>2 DEF ErrorInv, ExpectedAreMissing
<1>5. CASE Refuse
  <2>1. /\ pc = "discovered" /\ pc' = "failed" /\ path' = path /\ segments' = segments
        /\ Missing # {}
        /\ err' = [kind |-> "ErrMissingSegment", Missing |-> Missing, Present |-> Numbers,
                   Expected |-> Names(Missing)]
    BY <1>5 DEF Refuse, Fail
  <2>2. family' = family /\ Numbers' = Numbers
    BY <2>1 DEF family, name, Numbers
  <2>3. Missing \cap Numbers = {}
    BY DEF Missing
  <2>4. /\ \A k \in Missing : \E x \in Names(Missing) : Number(family, x.ext) = k
        /\ Cardinality(Names(Missing)) = Cardinality(Missing)
    BY <2>1, HolesNamed
  <2>5. /\ err'.Present = Numbers' /\ err'.Missing = Missing /\ err'.Expected = Names(Missing)
    BY <2>1, <2>2
  <2>6. ExpectedAreMissing'
    BY <2>2, <2>3, <2>4, <2>5 DEF ExpectedAreMissing
  <2> QED BY <1>0, <2>1, <2>6 DEF ErrorInv
<1>6. CASE UNCHANGED vars
  <2>1. path' = path /\ found' = found /\ segments' = segments /\ pc' = pc /\ err' = err
    BY <1>6 DEF vars
  <2>2. family' = family /\ Missing' = Missing /\ Numbers' = Numbers
    BY <2>1 DEF family, name, Missing, Numbers
  <2>3. ExpectedAreMissing'
    BY <2>1, <2>2 DEF ErrorInv, ExpectedAreMissing
  <2> QED BY <1>0, <2>1, <2>2, <2>3 DEF ErrorInv, Valid
<1> QED BY <1>1, <1>2, <1>3, <1>4, <1>5, <1>6 DEF Next

\* The error for a set with holes (discoverSegments, Set.Missing, Set.Names) names
\* one file for each hole, which would be found under its number if it were there.
THEOREM HolesAreNamed == Spec => []ExpectedAreMissing
<1>1. Init => ErrorInv
  <2> SUFFICES ASSUME Init PROVE ErrorInv
    OBVIOUS
  <2>1. pc = "stat" /\ err.kind = "nil"
    BY DEF Init, NoError
  <2> QED BY <2>1, InitInv DEF ErrorInv, ExpectedAreMissing
<1>2. ErrorInv => ExpectedAreMissing
  BY DEF ErrorInv
<1> QED BY <1>1, <1>2, ErrorStep, PTL DEF Spec

-----------------------------------------------------------------------------
(* Any member finds the set *)

\* The numbers of all files of the directory that are named like members, and
\* those of them that count: letter pairs only when the digits are used up.
MemberNumbers == {Number(family, e.name.ext) : e \in {d \in listing.entries : Belongs(d)}}

Counting(numbers) == {k \in numbers : 1..maxNumeric \subseteq numbers \/ k <= maxNumeric}

\* During the scan what is on record is of the directory; afterwards it is all of
\* the directory that counts, and the file that was named.
MemberInv ==
    /\ IInv
    /\ pc = "stat" => DOMAIN found = {}
    /\ pc = "scan" =>
         \A k \in DOMAIN found : \E e \in listing.entries : Belongs(e) /\ e.name = found[k]
    /\ pc = "discovered" /\ Valid(family) =>
         DOMAIN found = Counting(MemberNumbers) \cup {self}

\* At the scan's end the record has the numbers of all members.
LEMMA ScannedAll ==
    ASSUME MemberInv, pc = "scan", left = {}
    PROVE  DOMAIN found = MemberNumbers
<1>1. ASSUME NEW k \in DOMAIN found PROVE k \in MemberNumbers
  <2>1. PICK e \in listing.entries : Belongs(e) /\ e.name = found[k]
    BY DEF MemberInv
  <2>2. Number(family, e.name.ext) = k
    BY <2>1 DEF MemberInv, IInv, DiscoverInv, FoundBelong
  <2> QED BY <2>1, <2>2 DEF MemberNumbers
<1>2. ASSUME NEW e \in listing.entries, Belongs(e)
      PROVE  Number(family, e.name.ext) \in DOMAIN found
  BY <1>2 DEF MemberInv, IInv, DiscoverInv, NothingPassed
<1> QED BY <1>1, <1>2 DEF MemberNumbers

LEMMA KeptCounts ==
    ASSUME MemberInv, pc = "scan", left = {}
    PROVE  DOMAIN kept = Counting(MemberNumbers) \cup {self}
<1>1. DOMAIN kept = {k \in DOMAIN found : saturated \/ k < letterBase} \cup {self}
  BY DEF kept
<1>2. \A k \in DOMAIN found : k \in Nat
  BY DEF MemberInv, IInv, DiscoverInv, TypeOK
<1>3. \A k \in DOMAIN found : k < letterBase <=> k <= maxNumeric
  BY <1>2, LettersType DEF letterBase
<1>4. saturated <=> 1..maxNumeric \subseteq MemberNumbers
  BY ScannedAll DEF saturated
<1> QED BY <1>1, <1>3, <1>4, ScannedAll DEF Counting

LEMMA MemberStep == MemberInv /\ [Next]_vars => MemberInv'
<1> SUFFICES ASSUME MemberInv, [Next]_vars PROVE MemberInv'
  OBVIOUS
<1>0. IInv'
  BY StepInv DEF MemberInv
<1>1. CASE NoSuchFile \/ ReadDirFails \/ Accept \/ Refuse \/ \E e \in left : Clash(e)
  <2>1. pc' \in {"failed", "opened"}
    BY <1>1 DEF NoSuchFile, ReadDirFails, Accept, Refuse, Clash, Fail
  <2> QED BY <1>0, <2>1 DEF MemberInv
<1>2. CASE Alone
  <2>1. pc' = "discovered" /\ path' = path /\ ~Valid(family)
    BY <1>2 DEF Alone
  <2>2. ~Valid(family)'
    BY <2>1 DEF Valid, family, name
  <2> QED BY <1>0, <2>1, <2>2 DEF MemberInv
<1>3. CASE ReadDir
  <2>1. pc = "stat" /\ pc' = "scan" /\ found' = found
    BY <1>3 DEF ReadDir
  <2> QED BY <1>0, <2>1 DEF MemberInv
<1>4. CASE \E e \in left : Pass(e)
  <2>1. pc = "scan" /\ pc' = "scan" /\ UNCHANGED <<path, listing, found>>
    BY <1>4 DEF Pass
  <2> QED BY <1>0, <2>1 DEF MemberInv, Belongs, family, name
<1>5. CASE \E e \in left : Note(e)
  <2>1. PICK e \in left : Note(e)
    BY <1>5
  <2> DEFINE number == Number(family, e.name.ext)
  <2>2. /\ pc = "scan" /\ pc' = "scan" /\ UNCHANGED <<path, listing>>
        /\ Belongs(e)
        /\ found' = [k \in DOMAIN found \cup {number} |-> IF k = number THEN e.name ELSE found[k]]
    BY <2>1 DEF Note
  <2> HIDE DEF number
  <2>3. e \in listing.entries
    BY DEF MemberInv, IInv, DiscoverInv, TypeOK
  <2>4. ASSUME NEW k \in DOMAIN found'
        PROVE  \E d \in listing.entries : Belongs(d) /\ d.name = found'[k]
    <3>1. CASE k = number
      BY <3>1, <2>2, <2>3
    <3>2. CASE k # number
      <4>1. k \in DOMAIN found /\ found'[k] = found[k]
        BY <3>2, <2>2
      <4> QED BY <4>1, <2>2 DEF MemberInv
    <3> QED BY <3>1, <3>2
  <2> QED BY <1>0, <2>2, <2>4 DEF MemberInv, Belongs, family, name
<1>6. CASE EndScan
  <2>1. /\ pc = "scan" /\ left = {} /\ pc' = "discovered" /\ found' = kept
        /\ UNCHANGED <<path, listing>>
    BY <1>6 DEF EndScan
  <2>2. DOMAIN found' = Counting(MemberNumbers) \cup {self}
    BY <2>1, KeptCounts
  <2>3. MemberNumbers' = MemberNumbers /\ self' = self
    BY <2>1 DEF MemberNumbers, Belongs, family, self, name
  <2> QED BY <1>0, <2>1, <2>2, <2>3 DEF MemberInv, Counting
<1>7. CASE UNCHANGED vars
  <2>1. UNCHANGED <<path, listing, found, pc>>
    BY <1>7 DEF vars
  <2>2. MemberNumbers' = MemberNumbers /\ self' = self /\ (Valid(family)' <=> Valid(family))
    BY <2>1 DEF MemberNumbers, Belongs, Valid, family, self, name
  <2>3. \A e : Belongs(e)' <=> Belongs(e)
    BY <2>1 DEF Belongs, family, name
  <2> QED BY <1>0, <2>1, <2>2, <2>3 DEF MemberInv, Counting
<1> QED BY <1>1, <1>2, <1>3, <1>4, <1>5, <1>6, <1>7 DEF Next

\* Each number on record is one of the segments'.
LEMMA NumbersOnRecord ==
    ASSUME IInv, pc = "discovered", Valid(family)
    PROVE  Numbers = DOMAIN found
<1> DEFINE D == DOMAIN found
<1>1. D \in SUBSET Nat /\ IsFiniteSet(D)
  BY DEF IInv, DiscoverInv, TypeOK
<1>2. /\ Len(segments) = Cardinality(D)
      /\ \A k \in 1..Len(segments) :
           segments[k].Number \in D /\ Below(D, segments[k].Number) = k - 1
  BY DEF IInv, DiscoverInv, SegmentsInOrder
<1> HIDE DEF D
<1>3. ASSUME NEW x \in D PROVE \E k \in 1..Len(segments) : segments[k].Number = x
  <2> DEFINE k == Below(D, x) + 1
  <2>1. k \in 1..Len(segments)
    BY <1>1, <1>2, BelowBound, FS_CardinalityType
  <2>2. segments[k].Number \in D /\ Below(D, segments[k].Number) = Below(D, x)
    BY <1>1, <1>2, <2>1, BelowBound
  <2> HIDE DEF k
  <2> DEFINE y == segments[k].Number
  <2>3. ~(x < y /\ Below(D, x) = Below(D, y)) /\ ~(y < x /\ Below(D, x) = Below(D, y))
    BY <1>1, <2>2, BelowBound
  <2>4. Below(D, y) = Below(D, x) /\ y \in Nat /\ x \in Nat
    BY <1>1, <2>2
  <2> HIDE DEF y
  <2>5. y = x
    BY <2>3, <2>4
  <2> QED BY <2>1, <2>5 DEF y
<1> QED BY <1>2, <1>3 DEF Numbers, D

\* A family is what its letter and its kind make of it, however it is spelled.
LEMMA SameFamily ==
    ASSUME NEW f, NEW g, f.Base.rank = g.Base.rank, f.V2 = g.V2
    PROVE  \A ext : Number(f, ext) = Number(g, ext)
BY DEF Number, Valid

\* A file named like segment k of a family, at the family's own letter, is segment
\* k of the family that its own name says.
LEMMA SameNumber ==
    ASSUME NEW f, NEW ext \in Extension, Number(f, ext) # NoNumber, f.Base.rank \in Int,
           ParseFamily(ext).family.Base.rank = f.Base.rank, Valid(ParseFamily(ext).family)
    PROVE  /\ ParseFamily(ext).number = Number(f, ext)
           /\ \A x : Number(ParseFamily(ext).family, x) = Number(f, x)
<1> DEFINE g == ParseFamily(ext).family
<1>1. ~Valid(NoFamily)
  BY NamesAssumption DEF Valid, NoFamily
<1>2. g = [Base |-> ext.Base, V2 |-> ext.V2]
  BY <1>1 DEF ParseFamily
<1>3. f.V2 = ext.V2
  BY DEF Number
<1>4. g.V2 = f.V2
  BY <1>2, <1>3
<1>5. Number(g, ext) = ParseFamily(ext).number
  BY OwnNumber
<1> HIDE DEF g
<1>6. \A x : Number(g, x) = Number(f, x)
  BY <1>4, SameFamily DEF g
<1> QED BY <1>5, <1>6 DEF g

LEMMA MembersLead == MemberInv => AnyMemberFindsIt
<1> SUFFICES ASSUME MemberInv, pc = "discovered", Valid(family),
                    NEW e \in listing.entries,
                    NEW k \in 1..Len(segments), segments[k].Path = e.name,
                    Valid(ParseFamily(e.name.ext).family),
                    ParseFamily(e.name.ext).family.Base.rank = family.Base.rank
             PROVE  From(ParseFamily(e.name.ext).family, e.name.stem,
                         ParseFamily(e.name.ext).number) \cup {self}
                        = Numbers \cup {ParseFamily(e.name.ext).number}
  BY DEF AnyMemberFindsIt
<1> DEFINE g == ParseFamily(e.name.ext).family
           own == ParseFamily(e.name.ext).number
           n == segments[k].Number
<1>1. n \in DOMAIN found /\ found[n] = e.name
  BY DEF MemberInv, IInv, DiscoverInv, SegmentsInOrder
<1>2. n \in Nat \ {0} /\ Number(family, e.name.ext) = n /\ e.name.stem.fold = name.stem.fold
  BY <1>1 DEF MemberInv, IInv, DiscoverInv, TypeOK, FoundBelong
<1>3. e.name.ext \in Extension /\ family.Base.rank \in Int
  BY NamesTyped DEF MemberInv, IInv, DiscoverInv, Name
<1>4. \A x : Number(g, x) = Number(family, x)
  BY <1>2, <1>3, SameNumber DEF NoNumber
<1>5. {d \in listing.entries : /\ d.name.stem.fold = e.name.stem.fold
                               /\ isRegular(d)
                               /\ Number(g, d.name.ext) # NoNumber}
        = {d \in listing.entries : Belongs(d)}
  BY <1>2, <1>4 DEF Belongs
<1> HIDE DEF g, own, n
<1>6. From(g, e.name.stem, own) = Counting(MemberNumbers) \cup {own}
  <2> DEFINE S == {d \in listing.entries : /\ d.name.stem.fold = e.name.stem.fold
                                           /\ isRegular(d)
                                           /\ Number(g, d.name.ext) # NoNumber}
  <2>1. {Number(g, d.name.ext) : d \in S} = MemberNumbers
    BY <1>4, <1>5 DEF MemberNumbers
  <2> QED BY <2>1 DEF From, Counting
<1>7. Numbers = Counting(MemberNumbers) \cup {self}
  BY NumbersOnRecord DEF MemberInv
<1> QED BY <1>6, <1>7 DEF g, own

\* Discover finds the same set by whichever of its members it is given, in that
\* member's own spelling, but for the file given, which counts in any case: for
\* every alphabet, directory and order of the scan.
THEOREM MembersFindTheSet == Spec => []AnyMemberFindsIt
<1>1. Init => MemberInv
  <2> SUFFICES ASSUME Init PROVE MemberInv
    OBVIOUS
  <2>1. pc = "stat" /\ found = <<>>
    BY DEF Init
  <2>2. DOMAIN found = {}
    BY <2>1
  <2> QED BY <2>1, <2>2, InitInv DEF MemberInv
<1> QED BY <1>1, MembersLead, MemberStep, PTL DEF Spec

=============================================================================
