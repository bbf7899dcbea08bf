---------------------------- MODULE SegmentNames ----------------------------
(***************************************************************************)
(* The extensions of segment files and the numbers they stand for          *)
(* (internal/segname): .E01 to .E99, then letter pairs .EAA to .EZZ, then  *)
(* the leading letter carries: .FAA.  EWF2 puts an x behind it: .Ex01.     *)
(*                                                                         *)
(* A letter is its rank in the alphabet and its case.  An extension is     *)
(* what splitExt makes of it: its leading letter, whether the x is there,  *)
(* and the field behind, which counts in digits, in a pair of letters, or  *)
(* not at all.                                                             *)
(***************************************************************************)
EXTENDS Integers, Sequences

CONSTANTS
    Letters,        \* 26
    maxNumeric,     \* 99, the highest number of two digits
    FamilyLetters   \* the ranks of e, l and s

ASSUME NamesAssumption ==
    /\ {Letters, maxNumeric} \subseteq Nat \ {0}
    /\ FamilyLetters \subseteq 0..(Letters - 1)

letterBase == maxNumeric + 1
lettersPerLeading == Letters * Letters

Letter == [rank : 0..(Letters - 1), upper : BOOLEAN]

Digits(n) == [kind |-> "digits", value |-> n]
Pair(a, b) == [kind |-> "letters", pair |-> <<a, b>>]

\* Two characters of another kind, or an extension splitExt cannot take apart.
OtherField == [kind |-> "other"]

Field ==
    [kind : {"digits"}, value : 0..maxNumeric]
    \cup [kind : {"letters"}, pair : Letter \X Letter] \cup {OtherField}

Extension == [Base : Letter, V2 : BOOLEAN, field : Field]

Family == [Base : Letter, V2 : BOOLEAN]

\* The zero Family, and what parsing returns for no name of a segment.
NoFamily == [Base |-> [rank |-> -1, upper |-> FALSE], V2 |-> FALSE]
NoNumber == 0

Valid(f) == f.Base.rank \in FamilyLetters

\* Mutated form of fieldNumber: letter pairs start where the digits end.
fieldNumberEarly(field, carry) ==
    IF field.kind = "other" THEN NoNumber
    ELSE IF field.kind = "digits" THEN IF carry = 0 THEN field.value ELSE NoNumber
    ELSE maxNumeric + carry * lettersPerLeading
         + Letters * field.pair[1].rank + field.pair[2].rank

\* The number in a field, when the leading letter has advanced by carry.  There
\* are digits at the family's own letter only, and no segment 0.
fieldNumber(field, carry) ==
    IF field.kind = "other" THEN NoNumber
    ELSE IF field.kind = "digits" THEN IF carry = 0 THEN field.value ELSE NoNumber
    ELSE letterBase + carry * lettersPerLeading
         + Letters * field.pair[1].rank + field.pair[2].rank

\* Family and number of an extension by itself, NoFamily when it names none.
ParseFamily(ext) ==
    LET f == [Base |-> ext.Base, V2 |-> ext.V2]
        n == fieldNumber(ext.field, 0)
    IN  IF Valid(f) /\ n # NoNumber THEN [family |-> f, number |-> n]
        ELSE [family |-> NoFamily, number |-> NoNumber]

\* The number of an extension within family f.
Number(f, ext) ==
    LET carry == ext.Base.rank - f.Base.rank
    IN  IF ~Valid(f) \/ ext.V2 # f.V2 \/ carry < 0 THEN NoNumber
        ELSE fieldNumber(ext.field, carry)

\* The pair that counts to rest, in the case of the family.
Pairs(rest, upper) ==
    Pair([rank |-> rest \div Letters, upper |-> upper],
         [rank |-> rest % Letters, upper |-> upper])

\* Ext has a name for segment n of family f.
Nameable(f, n) ==
    Valid(f) /\ n > 0
    /\ (n > maxNumeric =>
            f.Base.rank + ((n - letterBase) \div lettersPerLeading) < Letters)

\* Ext: the extension of segment n, where there is one.  Past the last pair of a
\* letter the leading letter itself advances.
Ext(f, n) ==
    IF n <= maxNumeric
    THEN [Base |-> f.Base, V2 |-> f.V2, field |-> Digits(n)]
    ELSE LET offset == n - letterBase
         IN  [Base |-> [f.Base EXCEPT !.rank = @ + (offset \div lettersPerLeading)],
              V2 |-> f.V2,
              field |-> Pairs(offset % lettersPerLeading, f.Base.upper)]

=============================================================================
