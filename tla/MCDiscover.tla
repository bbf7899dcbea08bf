----------------------------- MODULE MCDiscover -----------------------------
(***************************************************************************)
(* An alphabet of three letters, A and B those of families, and numbers of *)
(* digits up to 2: .A01, .A02, then .AAA is segment 3 and .BAA segment 12. *)
(***************************************************************************)
EXTENDS Discover

L(rank) == [rank |-> rank, upper |-> TRUE]
Small(l) == [l EXCEPT !.upper = FALSE]

Numbered(base, v2, k) == [Base |-> base, V2 |-> v2, field |-> Digits(k)]
Lettered(base, a, b) == [Base |-> base, V2 |-> FALSE, field |-> Pair(L(a), L(b))]
Otherwise == [Base |-> L(2), V2 |-> FALSE, field |-> OtherField]

disk == [fold |-> "disk", as |-> "disk"]
DISK == [fold |-> "disk", as |-> "DISK"]
other == [fold |-> "other", as |-> "other"]

MCStem == {disk, DISK, other}

N(stem, ext) == [stem |-> stem, ext |-> ext]

A01 == N(disk, Numbered(L(0), FALSE, 1))
A02 == N(disk, Numbered(L(0), FALSE, 2))
AAA == N(disk, Lettered(L(0), 0, 0))
BAA == N(disk, Lettered(L(1), 0, 0))
a01 == N(DISK, Numbered(Small(L(0)), FALSE, 1))

MCNamed == {A01, A02, a01, AAA, BAA, N(disk, Lettered(L(2), 0, 0)),
            N(disk, Numbered(L(0), FALSE, 0)), N(disk, Otherwise)}

\* .A02 in two spellings and as a directory, a link that leads nowhere, the EWF2
\* spelling, another stem.
Universe ==
    {[name |-> A01, mode |-> "file"],
     [name |-> a01, mode |-> "link"],
     [name |-> A02, mode |-> "file"],
     [name |-> N(DISK, Numbered(L(0), FALSE, 2)), mode |-> "dir"],
     [name |-> AAA, mode |-> "file"],
     [name |-> N(disk, Lettered(L(0), 0, 1)), mode |-> "brokenlink"],
     [name |-> BAA, mode |-> "file"],
     [name |-> N(disk, Numbered(L(0), TRUE, 1)), mode |-> "file"],
     [name |-> N(other, Numbered(L(0), FALSE, 1)), mode |-> "file"]}

MCListings == {s \in SUBSET Universe : Cardinality(s) <= 5}

=============================================================================
