-------------------------- MODULE SectionPayloads --------------------------
(***************************************************************************)
(* What the body of one section adds to the metadata of its segment        *)
(* (reader/payload_parsing.go, ewf2meta.go, header.go and xhash.go).       *)
(*                                                                         *)
(* A body is what its bytes say when taken for a section of its type: its  *)
(* length beside a volume, digests, a list, a text or a document.          *)
(***************************************************************************)
EXTENDS Integers, Sequences, SequencesExt, FiniteSetsExt, Functions, TLC

CONSTANTS
    Sizes,          \* the sizes of payload_parsing.go, by name
    MaxPayload,     \* maxSectionPayload, 64 << 20
    MaxCount,       \* 1 << 20 entries of a list
    Word32,         \* 2^32
    Decimal,        \* the texts that are decimal numbers, and which
    MinInstant,     \* 100000000, below which a number is no date
    WallClock,      \* the texts that spell a date, and the instant
    Hex,            \* for "md5" and "sha1", the texts that spell a digest, and which
    None

Has(x) == x # None

\* The values of f, and of g where f has none.
Over(f, g) == [k \in DOMAIN f \cup DOMAIN g |-> IF k \in DOMAIN f THEN f[k] ELSE g[k]]

\* The zero values of metadata.MediaInfo and metadata.Acquisition.
ZeroMedia ==
    [MediaType |-> 0, NumberOfChunks |-> 0, SectorsPerChunk |-> 0, BytesPerSector |-> 0,
     NumberOfSectors |-> 0, MediaFlags |-> 0, CompressionLevel |-> 0,
     ErrorGranularity |-> 0, SetIdentifier |-> 0]

MediaInfo == [DOMAIN ZeroMedia -> Nat]

ASSUME PayloadAssumption ==
    /\ {MaxPayload, MaxCount, Word32, MinInstant} \subseteq Nat \ {0}
    /\ \A text \in DOMAIN Decimal : Decimal[text] \in Nat
    /\ "" \notin DOMAIN Decimal \cup DOMAIN WallClock
    /\ None \notin MediaInfo

Texts == {"CaseNumber", "EvidenceNumber", "Description", "ExaminerName", "Notes", "Model",
          "SerialNumber", "DeviceLabel", "SoftwareVersion", "OperatingSystem",
          "CompressionType", "PasswordHash", "ProcessIdentifier"}

Dates == {"AcquiryDate", "SystemDate"}

NewAcquisition(source) ==
    [text |-> [f \in Texts |-> ""], raw |-> [d \in Dates |-> ""],
     date |-> [d \in Dates |-> None], Values |-> <<>>, Source |-> source]

\* Each Acquisition names its source: one without is the nil pointer.
NoAcquisitionYet == NewAcquisition("")

HasAcquisition(info) == info.Acquisition.Source # ""

NoInfo == [Media |-> None, MD5Digest |-> None, SHA1Digest |-> None, Sessions |-> <<>>,
           AcquisitionErrors |-> <<>>, Acquisition |-> NoAcquisitionYet]

\* Padding is not part of a body, unless it is said to be all of it and more.
sectionPayloadSize(section) ==
    IF section.DataSize > section.PaddingSize
    THEN section.DataSize - section.PaddingSize
    ELSE section.DataSize

-----------------------------------------------------------------------------
(* Binary sections *)

\* Mutated form of ensureMedia: each section starts afresh.
ensureMediaNew(info) == ZeroMedia

ensureMedia(info) == IF Has(info.Media) THEN info.Media ELSE ZeroMedia

\* The SMART volume has four of the fields, the other one all of them.
parseVolumeSection(data, info) ==
    LET smart == {"NumberOfChunks", "SectorsPerChunk", "BytesPerSector", "NumberOfSectors"}
        taken == IF data.len >= Sizes.ewfVolume THEN DOMAIN ZeroMedia ELSE smart
    IN  IF data.len < Sizes.ewfVolumeSmart THEN info
        ELSE [info EXCEPT !.Media = [f \in DOMAIN ZeroMedia |->
                 IF f \in taken THEN data.volume[f] ELSE ensureMedia(info)[f]]]

\* "digest" and "hash" share a type in v1 and are told apart by their length.
parseMD5LikeSection(version, data, info) ==
    LET md5 == IF version = 1 THEN Sizes.ewfHash ELSE Sizes.ewfMD5Digest
    IN  [info EXCEPT
           !.MD5Digest  = IF data.len >= md5 THEN data.md5 ELSE @,
           !.SHA1Digest = IF version = 1 /\ data.len >= Sizes.ewfDigest THEN data.sha1 ELSE @]

parseSHA1Section(data, info) ==
    [info EXCEPT !.SHA1Digest = IF data.len >= Sizes.ewfSHA1Digest THEN data.sha1 ELSE @]

\* The entries of a session or an error section: all that it counts, or none.
listEntries(layout, data) ==
    IF /\ data.len >= layout.header
       /\ data.count <= MaxCount
       /\ data.len >= layout.header + data.count * layout.entry
    THEN SubSeq(data.entries, 1, data.count)
    ELSE <<>>

parseSessionSection(version, data, info) ==
    [info EXCEPT !.Sessions = @ \o listEntries(Sizes.session[version], data)]

parseErrorSection(version, data, info) ==
    [info EXCEPT !.AcquisitionErrors = @ \o listEntries(Sizes.error[version], data)]

-----------------------------------------------------------------------------
(* Texts and documents *)

NonEmpty(values) == RestrictValues(values, LAMBDA v : v # "")

\* The value of a key, "" without it, as Go's maps answer.
Of(values, key) == IF key \in DOMAIN values THEN values[key] ELSE ""

\* A text is lines of cells.  The line behind "main" has the identifiers, the
\* next one their values: a value may be missing, of two the later one counts.
parseHeaderMainBlock(lines) ==
    LET main == {i \in 1..Len(lines) : lines[i] = <<"main">>}
        i    == Min(main)
        identifiers == lines[i + 1]
        values == lines[i + 2]
        at(key) == Max({j \in 1..Len(identifiers) : identifiers[j] = key})
    IN  IF main = {} THEN <<>>
        ELSE IF i + 2 > Len(lines) THEN <<>>
        ELSE [key \in ToSet(identifiers) \ {""} |->
                 IF at(key) <= Len(values) THEN values[at(key)] ELSE ""]

\* Deflated or stored, a body reads as a text in its own encoding only: taken for
\* the other, none of its lines is "main".
decodeHeaderText(data, encoding) ==
    IF data.form = encoding THEN parseHeaderMainBlock(data.lines) ELSE <<>>

\* The elements read before the document ends or breaks, <<name, text>> with the
\* name in lower case: of two texts of one name the later counts.
extractXMLValues(data, root) ==
    LET said(key) == {i \in 1..Len(data.elements) :
                         data.elements[i][1] = key /\ data.elements[i][2] # ""}
        keys == {data.elements[i][1] : i \in 1..Len(data.elements)} \ {root}
    IN  IF data.form # "xml" THEN <<>>
        ELSE [key \in {k \in keys : said(k) # {}} |-> data.elements[Max(said(key))][2]]

\* A digest spelled in hex and of its length; any other text is none.
hexDigest(data, key) ==
    LET text == Of(extractXMLValues(data, "xhash"), key)
    IN  IF text \in DOMAIN Hex[key] THEN Hex[key][text] ELSE None

\* Mutated form of parseXHashSection: what the document says replaces a digest.
parseXHashSectionLast(data, info) ==
    [info EXCEPT !.MD5Digest  = IF Has(hexDigest(data, "md5")) THEN hexDigest(data, "md5") ELSE @,
                 !.SHA1Digest = IF Has(hexDigest(data, "sha1")) THEN hexDigest(data, "sha1") ELSE @]

\* Digests of a binary section read before stay.
parseXHashSection(data, info) ==
    [info EXCEPT !.MD5Digest  = IF Has(@) THEN @ ELSE hexDigest(data, "md5"),
                 !.SHA1Digest = IF Has(@) THEN @ ELSE hexDigest(data, "sha1")]

Uint64Room == Word32 * Word32

\* ParseUint and ParseInt refuse a number that they have no room for.
Parses(text, room) == text \in DOMAIN Decimal /\ Decimal[text] < room

\* A number too small for an instant is no date, though a layout would read it.
parseHeaderTime(raw) ==
    IF Parses(raw, Uint64Room \div 2)
    THEN IF Decimal[raw] > MinInstant THEN Decimal[raw] ELSE None
    ELSE IF raw \in DOMAIN WallClock THEN WallClock[raw] ELSE None

\* The dates for which rawOf has a text; a text that is no date leaves the date.
setDates(acq, rawOf) ==
    LET parsed(d) == parseHeaderTime(rawOf[d])
    IN  [acq EXCEPT !.raw  = [d \in Dates |-> IF rawOf[d] = "" THEN acq.raw[d] ELSE rawOf[d]],
                    !.date = [d \in Dates |-> IF Has(parsed(d)) THEN parsed(d) ELSE acq.date[d]]]

-----------------------------------------------------------------------------
(* The v1 headers, once all are collected *)

Headers == {"header", "header2", "xheader"}

\* The most capable encoding first.
Precedence == <<"header2", "header", "xheader">>

\* What each of the sections says, which is nothing where there is none.
candidates(headers) ==
    [i \in 1..3 |->
        LET name == Precedence[i]
        IN  IF ~Has(headers[name]) THEN <<>>
            ELSE IF name = "xheader" THEN extractXMLValues(headers[name], "xheader")
            ELSE decodeHeaderText(headers[name], IF name = "header2" THEN "utf16" ELSE "latin1")]

\* The candidates: those that say something.
Saying(cands) == {i \in 1..3 : DOMAIN cands[i] # {}}

\* Mutated form of mergedValues: an empty value overwrites too.
mergedValuesEmpty(cands) == Over(cands[1], Over(cands[2], cands[3]))

\* Values of lower precedence are overwritten, unless by nothing.
mergedValues(cands) ==
    Over(NonEmpty(cands[1]), Over(NonEmpty(cands[2]), NonEmpty(cands[3])))

\* The two keys of each field, that of the short headers and that of xheader.
keysOf ==
    [CaseNumber        |-> {"c", "case_number"},
     EvidenceNumber    |-> {"n", "evidence_number"},
     Description       |-> {"a", "description"},
     ExaminerName      |-> {"e", "examiner_name"},
     Notes             |-> {"t", "notes"},
     Model             |-> {"md", "model"},
     SerialNumber      |-> {"sn", "serial_number"},
     DeviceLabel       |-> {"l", "device_label"},
     SoftwareVersion   |-> {"av", "acquiry_software_version"},
     OperatingSystem   |-> {"ov", "acquiry_operating_system"},
     CompressionType   |-> {"r", "compression_type"},
     PasswordHash      |-> {"p", "password"},
     ProcessIdentifier |-> {"pid", "process_identifier"}]

headerFields ==
    [k \in UNION {keysOf[f] : f \in Texts} |-> CHOOSE f \in Texts : k \in keysOf[f]]

\* One turn of applyHeaderValues' loop; "0" is no password.
applyHeaderValue(acq, key) ==
    LET value == acq.Values[key]
    IN  IF \/ key \notin DOMAIN headerFields
           \/ headerFields[key] = "PasswordHash" /\ value = "0"
        THEN acq
        ELSE [acq EXCEPT !.text[headerFields[key]] = value]

\* The loops behind it: the short spelling, or else the long one.
applyHeaderDates(acq) ==
    LET first(a, b) == IF a \in DOMAIN acq.Values THEN Of(acq.Values, a) ELSE Of(acq.Values, b)
    IN  setDates(acq, [AcquiryDate |-> first("m", "acquiry_date"),
                       SystemDate  |-> first("u", "system_date")])

-----------------------------------------------------------------------------
(* The v2 texts: values is what decodeHeaderText makes of the body *)

ensureAcquisition(info) ==
    IF HasAcquisition(info) THEN info.Acquisition ELSE NewAcquisition("device_information")

\* parseUint for each field a section names, if the value is a number of 64 bits;
\* all but the two counts are cut to 32.
setNumbers(media, keyOf, values) ==
    LET counts == {"NumberOfSectors", "NumberOfChunks"}
        number(f) == Decimal[values[keyOf[f]]] % (IF f \in counts THEN Uint64Room ELSE Word32)
    IN  [f \in DOMAIN media |->
            IF f \in DOMAIN keyOf /\ Parses(Of(values, keyOf[f]), Uint64Room)
            THEN number(f) ELSE media[f]]

ewf2MediaType == [f |-> 1, r |-> 0, c |-> 3, l |-> 14, m |-> 16]

MediaFlagPhysical == 2

\* setIfEmpty for each field a section names, then mergeValues.
setTexts(acq, keyOf, values) ==
    [acq EXCEPT !.text = [f \in Texts |->
                             IF f \in DOMAIN keyOf /\ acq.text[f] = ""
                             THEN Of(values, keyOf[f]) ELSE acq.text[f]],
                !.Values = Over(acq.Values, NonEmpty(values))]

parseDeviceInformationV2(values, info) ==
    LET numbers == [BytesPerSector |-> "bp", NumberOfSectors |-> "ts"]
        texts == [Model |-> "md", SerialNumber |-> "sn", DeviceLabel |-> "lb",
                  ProcessIdentifier |-> "pid"]
        type  == Of(values, "dt")
    IN  IF DOMAIN values = {} THEN info
        ELSE [info EXCEPT
                !.Media = [setNumbers(ensureMedia(info), numbers, values) EXCEPT
                             !.MediaType  = IF type \in DOMAIN ewf2MediaType
                                            THEN ewf2MediaType[type] ELSE @,
                             !.MediaFlags = IF Of(values, "ph") = "1"
                                            THEN MediaFlagPhysical ELSE @],
                !.Acquisition = setTexts(ensureAcquisition(info), texts, values)]

parseCaseDataV2(values, info) ==
    LET numbers == [SectorsPerChunk |-> "sb", NumberOfChunks |-> "tb", ErrorGranularity |-> "gr"]
        texts == [Description |-> "nm", CaseNumber |-> "cn", EvidenceNumber |-> "en",
                  ExaminerName |-> "ex", Notes |-> "nt", SoftwareVersion |-> "av",
                  OperatingSystem |-> "os", CompressionType |-> "cp"]
        dates == [AcquiryDate |-> Of(values, "at"), SystemDate |-> Of(values, "tt")]
    IN  IF DOMAIN values = {} THEN info
        ELSE [info EXCEPT
                !.Media = setNumbers(ensureMedia(info), numbers, values),
                !.Acquisition = [setDates(setTexts(ensureAcquisition(info), texts, values), dates)
                                    EXCEPT !.Source = "case_data"]]

=============================================================================
