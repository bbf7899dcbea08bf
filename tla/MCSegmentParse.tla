--------------------------- MODULE MCSegmentParse ---------------------------
(***************************************************************************)
(* Two families of files.  Links: every file of three descriptors, over a  *)
(* choice of links that lead on, past a descriptor, to itself, back, out   *)
(* of the file and nowhere.  Bodies: well-linked files of up to three      *)
(* sections with bodies, in any order and with repetition.                 *)
(***************************************************************************)
EXTENDS SegmentParse

\* One byte of this model stands for any number of the file's.
MCSizes ==
    [ewfVolume |-> 4, ewfVolumeSmart |-> 3, ewfHash |-> 2, ewfDigest |-> 3,
     ewfMD5Digest |-> 1, ewfSHA1Digest |-> 2,
     session |-> <<[header |-> 1, entry |-> 2], [header |-> 2, entry |-> 1]>>,
     error   |-> <<[header |-> 2, entry |-> 1], [header |-> 1, entry |-> 1]>>]

MCDecimal == ("1" :> 1) @@ ("2" :> 2) @@ ("9" :> 9) @@ ("20" :> 20) @@ ("300" :> 300)
MCWallClock == "noon" :> 7
MCHex == [md5 |-> "c5" :> "md5 c", sha1 |-> ("c1" :> "sha1 c") @@ ("d1" :> "sha1 d")]

\* What a body is as a digest, which any bytes are.
Digest(d) == [md5 |-> "md5 " \o d, sha1 |-> "sha1 " \o d]

F(signature, version, size, raw, body) ==
    [signature |-> signature, header |-> "valid", version |-> version, size |-> size,
     sized |-> TRUE, raw |-> raw,
     body |-> [off \in DOMAIN body |-> body[off] @@ Digest("?")]]

V1(type, size, next) == [TypeString |-> type, Size |-> size, NextOffset |-> next]
V2(type, previous, size, padding) ==
    [Type |-> type, PreviousOffset |-> previous, DataSize |-> size, PaddingSize |-> padding]

-----------------------------------------------------------------------------
(* Links *)

\* 126 and 127 are -2 and -1 as 64-bit sizes of this width.
LinkV1 ==
    {V1("table", link[1], link[2]) :
        link \in {<<0, 0>>, <<0, 3>>, <<1, 0>>, <<2, 0>>, <<6, 0>>, <<126, 0>>, <<127, 0>>}}
    \cup {V1("done", 0, 0), V1("next", 1, 0)}

LinkV2 ==
    {V2("sector_table", previous, 0, 0) : previous \in 0..4}
    \cup {V2("done", previous, 0, 0) : previous \in {0, 2, 3}}

Links(signature, version, choice) ==
    {F(signature, version, 4, raw, <<>>) : raw \in [1..3 -> choice]}
    \* One of the descriptors out of reach.
    \cup {F(signature, version, 4, raw, <<>>) : raw \in [{1, 3} -> choice]}

LinkFiles == Links("EVF", 1, LinkV1) \cup Links("EVF2", 2, LinkV2)

\* Headers that do not pass, a v2 header that says 1 or 3, and v2 files of no
\* size.
HeaderFiles ==
    LET ends1 == 1 :> V1("done", 1, 0)
        ends2 == 1 :> V2("done", 0, 0, 0)
    IN  {F(signature, 1, 2, ends1, <<>>) : signature \in {"unreadable", "PK", "LVF", "EVF2"}}
        \cup {[F("EVF", 1, 2, ends1, <<>>) EXCEPT !.header = h] : h \in {"unreadable", "invalid"}}
        \cup {F("LEF2", version, 2, ends2, <<>>) : version \in {2, 3}}
        \cup {[F("EVF2", 2, size, ends2, <<>>) EXCEPT !.sized = sized] :
                 size \in {0, 1, 2}, sized \in BOOLEAN}

-----------------------------------------------------------------------------
(* Bodies *)

\* A section to be laid out: its type, the length and padding of its body, and
\* what the body says, None when it cannot be read.
S(type, len, body) == [type |-> type, len |-> len, padding |-> 0, body |-> body]

Before(list, k) == MapThenSumSet(LAMBDA j : 1 + list[j].len, 1..(k - 1))

\* Descriptor, body, descriptor, ..., ended by a done section.
LayoutV1(list) ==
    LET off(k) == 1 + Before(list, k)
        at_(o)  == CHOOSE k \in 1..(Len(list) + 1) : off(k) = o
        readable == {k \in 1..Len(list) : list[k].len > 0 /\ list[k].body # None}
    IN  F("EVF", 1, off(Len(list) + 1) + 1,
          [o \in {off(k) : k \in 1..(Len(list) + 1)} |->
              IF at_(o) > Len(list) THEN V1("done", 1, 0)
              ELSE V1(list[at_(o)].type, 1 + list[at_(o)].len, 0)],
          [o \in {off(k) + 1 : k \in readable} |-> list[at_(o - 1)].body])

\* Header, body, descriptor, body, descriptor, ..., ended by a done section.
LayoutV2(list) ==
    LET start(k) == 1 + Before(list, k)
        off(k) == start(k) + IF k > Len(list) THEN 0 ELSE list[k].len
        at_(o) == CHOOSE k \in 1..(Len(list) + 1) : off(k) = o
        from(o) == CHOOSE k \in 1..Len(list) : start(k) = o
        readable == {k \in 1..Len(list) : list[k].len > 0 /\ list[k].body # None}
    IN  F("EVF2", 2, off(Len(list) + 1) + 1,
          [o \in {off(k) : k \in 1..(Len(list) + 1)} |->
              LET k == at_(o)
                  previous == IF k = 1 THEN 0 ELSE off(k - 1)
              IN  IF k > Len(list) THEN V2("done", previous, 0, 0)
                  ELSE V2(list[k].type, previous, list[k].len, list[k].padding)],
          [o \in {start(k) : k \in readable} |-> list[from(o)].body])

Volume(sectors) ==
    [volume |-> [f \in DOMAIN ZeroMedia |-> IF f = "NumberOfSectors" THEN sectors ELSE 1]]
List(count, entries) == [count |-> count, entries |-> entries]
Text(encoding, lines) == [form |-> encoding, lines |-> lines]
XML(elements) == [form |-> "xml", elements |-> elements]

Main(identifiers, values) == <<<<"1">>, <<"main">>, identifiers, values>>

VolumesV1 == {S("volume", 5, Volume(7)), S("disk", 3, Volume(8)), S("data", 2, Volume(9))}

DigestsV1 ==
    {S("hash", 2, Digest("a")), S("digest", 3, Digest("b")), S("hash", 1, Digest("e")),
     S("xhash", 2, XML(<<<<"xhash", "">>, <<"md5", "c5">>, <<"sha1", "c1">>>>)),
     S("xhash", 2, XML(<<<<"md5", "not hex">>, <<"sha1", "d1">>>>)),
     S("hash", 7, Digest("f"))}

\* Lists that count more than there are, more than may be, and the copies.
ListsV1 ==
    {S("session", 3, List(1, <<"s1">>)), S("session", 3, List(2, <<"s2">>)),
     S("error", 3, List(1, <<"e1">>)), S("error2", 3, List(1, <<"e1">>)),
     S("error", 6, List(3, <<"e2", "e3", "e4">>)), S("error", 3, None)}

HeadersV1 ==
    {S("header2", 2, Text("utf16", Main(<<"c", "n", "p", "">>, <<"A", "", "0">>))),
     S("header2", 3, Text("utf16", Main(<<"c", "c", "m">>, <<"X", "B", "9">>))),
     S("header2", 2, Text("latin1", Main(<<"c">>, <<"Z">>))),
     S("header", 3, Text("latin1", Main(<<"c", "n", "p">>, <<"C", "N", "hash">>))),
     S("header", 2, Text("latin1", <<<<"main">>, <<"c">>>>)),
     S("xheader", 2, XML(<<<<"xheader", "">>, <<"model", "M">>, <<"acquiry_date", "noon">>>>)),
     S("xheader", 2, Text("noise", <<>>))}

TextsV2 ==
    {S("device_information", 2, Text("utf16",
         Main(<<"bp", "ts", "dt", "ph", "md">>, <<"20", "9", "f", "1", "M">>))),
     S("device_information", 2, Text("utf16", Main(<<"bp", "ts", "md">>, <<"many", "300", "W">>))),
     S("case_data", 2, Text("utf16",
         Main(<<"sb", "tb", "gr", "cn", "at", "tt">>, <<"2", "9", "1", "K", "9", "2">>))),
     S("case_data", 2, Text("utf16", Main(<<"sb", "at">>, <<"1", "300">>))),
     S("case_data", 2, Text("utf16", <<>>))}

\* An md5_hash whose padding leaves too little, or is all of it.
OthersV2 ==
    {S("md5_hash", 1, Digest("a")), [S("md5_hash", 2, Digest("b")) EXCEPT !.padding = 1],
     S("sha1_hash", 2, Digest("c")), [S("sha1_hash", 2, Digest("d")) EXCEPT !.padding = 1],
     [S("sha1_hash", 2, Digest("e")) EXCEPT !.padding = 2],
     S("session_table", 3, List(1, <<"s1">>)), S("error_table", 2, List(1, <<"e1">>)),
     S("error_table", 2, List(2, <<"e2">>)), S("increment_data", 1, Digest("z"))}

\* A descriptor of a list that links to itself, with the list behind it.
Repeating(type) ==
    F("EVF2", 2, 7, (2 :> V2(type, 2, 3, 0)) @@ (6 :> V2("done", 2, 0, 0)),
      3 :> List(1, <<"e1">>))

BodyFiles ==
    {LayoutV1(list) : list \in UNION {[1..3 -> c] : c \in {DigestsV1, ListsV1, HeadersV1}}}
    \cup {LayoutV1(list) : list \in [1..2 -> VolumesV1]}
    \cup {LayoutV2(list) : list \in [1..3 -> TextsV2]}
    \cup {LayoutV2(list) : list \in [1..2 -> OthersV2]}
    \cup {Repeating(type) : type \in {"error_table", "session_table"}}

MCFiles == LinkFiles \cup HeaderFiles \cup BodyFiles

\* Header sections that spell one field in two ways.
SpellingFiles ==
    {LayoutV1(list) : list \in [1..2 ->
        {S("header2", 2, Text("utf16", Main(<<"c", "e">>, <<"A", "E">>))),
         S("xheader", 2, XML(<<<<"case_number", "B">>, <<"model", "M">>>>))}]}

=============================================================================
