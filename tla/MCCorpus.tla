------------------------------ MODULE MCCorpus ------------------------------
(***************************************************************************)
(* Two runs of the tool over two variants, one of them EWF2, and five      *)
(* images to adopt: two that sanitise to one name, one of these adopted    *)
(* where it lies, one without digests, and one that has a variant's name.  *)
(***************************************************************************)
EXTENDS Corpus, TLC

Img(name, of, n) == [name |-> name, of |-> of, n |-> n, opens |-> TRUE, digest |-> TRUE,
                     inPlace |-> FALSE]

CaseA == Img("case", <<"A">>, 2)
CaseB == Img("case", <<"B">>, 1)
Again == [CaseB EXCEPT !.inPlace = TRUE]
Homonym == Img("e6", <<"C">>, 2)
NoDigest == [CaseA EXCEPT !.digest = FALSE]

A(adopt, size, generate, tools) ==
    [adopt |-> adopt, size |-> size, generate |-> generate, tools |-> tools]

MCArgs ==
    {A(adopt, 1, FALSE, TRUE) : adopt \in {<<CaseA, CaseB>>, <<Again>>, <<NoDigest>>, <<>>}}
    \cup {A(<<>>, 2, TRUE, TRUE), A(<<Homonym>>, 1, TRUE, TRUE)}
    \cup {A(adopt, 1, TRUE, FALSE) : adopt \in {<<>>, <<CaseB>>}}

MCVariants == <<[name |-> "e6", ewf2 |-> FALSE], [name |-> "ex", ewf2 |-> TRUE]>>

HandMade(incomplete) ==
    [Segments |-> {1}, Oracle |-> "hand", expected |-> None, RequireVerifyOK |-> FALSE,
     ExpectIncomplete |-> incomplete]

MCInitialManifests ==
    {[state |-> "absent", entries |-> <<>>],
     [state |-> "other version", entries |-> <<>>]}
    \cup {[state |-> "intact", entries |-> "old" :> HandMade(b)] : b \in BOOLEAN}

=============================================================================
