---------------------------- MODULE SegmentParse ----------------------------
(***************************************************************************)
(* Parsing one segment (parseSegment of reader/open.go): the signature and *)
(* the file header, the walk of SectionChain, and then the bodies of the   *)
(* sections (populateMetadataFromSectionBodies of                          *)
(* reader/payload_parsing.go, resolveAcquisition of reader/header.go).     *)
(*                                                                         *)
(* A body is whatever lies where a section says, of the length it says.    *)
(* Header values are applied in the order in which Go walks a map, which   *)
(* is any.  The summary that buildMetadata makes of the descriptors is in  *)
(* SegmentSet, the chunk tables are in ChunkTable.                         *)
(***************************************************************************)
EXTENDS SectionChain, SectionPayloads, FiniteSets

\* Any bytes are a digest when taken for one.
ASSUME BodyAssumption ==
    \A f \in Files : \A off \in DOMAIN f.body :
        /\ {"md5", "sha1"} \subseteq DOMAIN f.body[off]
        /\ Has(f.body[off].md5) /\ Has(f.body[off].sha1)
        /\ \A size \in 1..MaxPayload : Has(Over([len |-> size], f.body[off]))

VARIABLES
    phase,          \* signature, sections, bodies, values, parsed or failed
    at,             \* the loop's section, from 1
    info,           \* metadata.Info, as far as bodies fill it
    headers,        \* headerPayloads: the first of each header section
    sessionParsed, errorsParsed,
    unapplied       \* the keys of Values the loop of applyHeaderValues has not met

parseVars == <<phase, at, info, headers, sessionParsed, errorsParsed, unapplied>>
vars == <<file, pc, offset, sections, n, lastSectionFound, err, parseVars>>

Init ==
    /\ ChainInit
    /\ phase = "signature"
    /\ at = 1
    /\ info = NoInfo
    /\ headers = [name \in Headers |-> None]
    /\ sessionParsed = FALSE
    /\ errorsParsed = FALSE
    /\ unapplied = {}

-----------------------------------------------------------------------------

\* What detectSegmentFileType and parseFileHeader object to.  The version is 1 in
\* a v1 header, and whatever the byte says in a v2 header.
headerError ==
    CASE file.signature = "unreadable"                  -> "unable to read file signature"
      [] file.signature \notin {"EVF", "LVF", "EVF2", "LEF2"} -> "ErrUnsupportedFormat"
      [] file.header = "unreadable"                     -> "unable to read file header"
      [] file.signature \in {"EVF", "LVF"} /\ file.header = "invalid" -> "ErrCorruptImage"
      [] OTHER                                          -> "nil"

ReadHeader ==
    /\ phase = "signature"
    /\ headerError = "nil"
    /\ phase' = "sections"
    /\ UNCHANGED <<chainVars, at, info, headers, sessionParsed, errorsParsed, unapplied>>

RefuseHeader ==
    /\ phase = "signature"
    /\ headerError # "nil"
    /\ phase' = "failed"
    /\ UNCHANGED <<chainVars, at, info, headers, sessionParsed, errorsParsed, unapplied>>

\* parseSectionDescriptors, and what its return leads to.
WalkSections ==
    /\ phase = "sections"
    /\ ChainNext
    /\ phase' = CASE pc' = "accepted" -> "bodies"
                  [] pc' = "failed"   -> "failed"
                  [] OTHER            -> "sections"
    /\ UNCHANGED <<at, info, headers, sessionParsed, errorsParsed, unapplied>>

-----------------------------------------------------------------------------
(* populateMetadataFromSectionBodies *)

section == sections[at]

\* A body that is there, neither empty nor implausibly large, and can be read.
HasBody(s) ==
    /\ sectionPayloadSize(s) \in 1..MaxPayload
    /\ s.DataOffset >= 0
    /\ s.DataOffset + sectionPayloadSize(s) <= file.size
    /\ s.DataOffset \in DOMAIN file.body

Body(s) == Over([len |-> sectionPayloadSize(s)], file.body[s.DataOffset])

AtBody(types) ==
    /\ phase = "bodies"
    /\ at <= Len(sections)
    /\ HasBody(section)
    /\ section.Type \in types

\* The section is done with, and the metadata is now i.
Consume(i) ==
    /\ info' = i
    /\ at' = at + 1
    /\ UNCHANGED <<chainVars, phase, unapplied>>

SkipBody ==
    /\ phase = "bodies"
    /\ at <= Len(sections)
    /\ ~HasBody(section)
    /\ Consume(info)
    /\ UNCHANGED <<headers, sessionParsed, errorsParsed>>

TakeDeviceInformation ==
    /\ AtBody({"device_information"})
    /\ \/ /\ file.version = 1
          /\ Consume(parseVolumeSection(Body(section), info))
       \/ /\ file.version = 2
          /\ \E values \in {decodeHeaderText(Body(section), "utf16")} :
                Consume(parseDeviceInformationV2(values, info))
    /\ UNCHANGED <<headers, sessionParsed, errorsParsed>>

\* A v1 section is never of this type.
TakeCaseData ==
    /\ AtBody({"case_data"})
    /\ \E values \in {decodeHeaderText(Body(section), "utf16")} :
          Consume(parseCaseDataV2(values, info))
    /\ UNCHANGED <<headers, sessionParsed, errorsParsed>>

TakeDigest ==
    /\ AtBody({"md5_hash", "sha1_hash"})
    /\ Consume(IF section.Type = "md5_hash"
               THEN parseMD5LikeSection(file.version, Body(section), info)
               ELSE parseSHA1Section(Body(section), info))
    /\ UNCHANGED <<headers, sessionParsed, errorsParsed>>

\* Mutated form of TakeSessions: the copy is read as well.
TakeSessionsAgain ==
    /\ AtBody({"session_table"})
    /\ Consume(parseSessionSection(file.version, Body(section), info))
    /\ sessionParsed' = TRUE
    /\ UNCHANGED <<headers, errorsParsed>>

\* The first readable one is taken for the list, be it malformed.
TakeSessions ==
    /\ AtBody({"session_table"})
    /\ Consume(IF sessionParsed THEN info
               ELSE parseSessionSection(file.version, Body(section), info))
    /\ sessionParsed' = TRUE
    /\ UNCHANGED <<headers, errorsParsed>>

TakeErrors ==
    /\ AtBody({"error_table"})
    /\ Consume(IF errorsParsed THEN info
               ELSE parseErrorSection(file.version, Body(section), info))
    /\ errorsParsed' = TRUE
    /\ UNCHANGED <<headers, sessionParsed>>

TakeXHash ==
    /\ AtBody({"unclassified"})
    /\ section.TypeString = "xhash"
    /\ Consume(parseXHashSection(Body(section), info))
    /\ UNCHANGED <<headers, sessionParsed, errorsParsed>>

TakeHeader ==
    /\ AtBody({"unclassified"})
    /\ section.TypeString \in Headers
    /\ headers' = [headers EXCEPT ![section.TypeString] = IF Has(@) THEN @ ELSE Body(section)]
    /\ Consume(info)
    /\ UNCHANGED <<sessionParsed, errorsParsed>>

\* Sections whose bodies hold no metadata.
PassBody ==
    /\ phase = "bodies"
    /\ at <= Len(sections)
    /\ HasBody(section)
    /\ section.Type \notin {"device_information", "case_data", "md5_hash", "sha1_hash",
                            "session_table", "error_table"}
    /\ section.TypeString \notin Headers \cup {"xhash"}
    /\ Consume(info)
    /\ UNCHANGED <<headers, sessionParsed, errorsParsed>>

-----------------------------------------------------------------------------
(* resolveAcquisition *)

NoAcquisition ==
    /\ phase = "bodies"
    /\ at > Len(sections)
    /\ Saying(candidates(headers)) = {}
    /\ phase' = "parsed"
    /\ UNCHANGED <<chainVars, at, info, headers, sessionParsed, errorsParsed, unapplied>>

ResolveAcquisition ==
    /\ phase = "bodies"
    /\ at > Len(sections)
    /\ \E cands \in {candidates(headers)} : \E values \in {mergedValues(cands)} :
           /\ Saying(cands) # {}
           /\ info' = [info EXCEPT !.Acquisition =
                          [NewAcquisition(Precedence[Min(Saying(cands))])
                              EXCEPT !.Values = values]]
           /\ unapplied' = DOMAIN values
    /\ phase' = "values"
    /\ UNCHANGED <<chainVars, at, headers, sessionParsed, errorsParsed>>

ApplyHeaderValue ==
    /\ phase = "values"
    /\ \E key \in unapplied :
         /\ info' = [info EXCEPT !.Acquisition = applyHeaderValue(@, key)]
         /\ unapplied' = unapplied \ {key}
    /\ UNCHANGED <<chainVars, phase, at, headers, sessionParsed, errorsParsed>>

ApplyHeaderDates ==
    /\ phase = "values"
    /\ unapplied = {}
    /\ info' = [info EXCEPT !.Acquisition = applyHeaderDates(@)]
    /\ phase' = "parsed"
    /\ UNCHANGED <<chainVars, at, headers, sessionParsed, errorsParsed, unapplied>>

Next ==
    \/ ReadHeader \/ RefuseHeader \/ WalkSections
    \/ SkipBody \/ PassBody \/ TakeDeviceInformation \/ TakeCaseData \/ TakeDigest
    \/ TakeSessions \/ TakeErrors \/ TakeXHash \/ TakeHeader
    \/ NoAcquisition \/ ResolveAcquisition \/ ApplyHeaderValue \/ ApplyHeaderDates

Spec == Init /\ [][Next]_vars

\* The parse runs in the caller's goroutine, which goes on while it can.
FairSpec == Spec /\ WF_vars(Next)

-----------------------------------------------------------------------------

\* The sections with a body, of a type, by their places.
Bodies(types) == {k \in 1..Len(sections) : HasBody(sections[k]) /\ sections[k].Type \in types}

Parsed == phase = "parsed"

\* The sections of a type whose bodies the loop has met.
Met(type) == {k \in Bodies({type}) : k < at}

SessionsOf(k) == parseSessionSection(file.version, Body(sections[k]), NoInfo).Sessions
ErrorsOf(k) == parseErrorSection(file.version, Body(sections[k]), NoInfo).AcquisitionErrors

\* Sessions and acquisition errors are those of one copy, however often the chain
\* repeats a section and whichever of "error" and "error2" comes first: they are
\* what the first copy by itself says, when the loop has passed it and until the
\* segment is parsed.
ListsOnce ==
    /\ info.Sessions = IF Met("session_table") = {} THEN <<>>
                       ELSE SessionsOf(Min(Met("session_table")))
    /\ info.AcquisitionErrors = IF Met("error_table") = {} THEN <<>>
                                ELSE ErrorsOf(Min(Met("error_table")))
    /\ Parsed => at > Len(sections)

\* The sections that are long enough to hold a digest, and the documents that
\* spell one.
Binary(type, size) == {k \in Bodies({type}) : sectionPayloadSize(sections[k]) >= size}

Holders(key) ==
    CASE key = "md5" -> Binary("md5_hash", IF file.version = 1 THEN Sizes.ewfHash
                                                               ELSE Sizes.ewfMD5Digest)
      [] OTHER       -> IF file.version = 1 THEN Binary("md5_hash", Sizes.ewfDigest)
                                            ELSE Binary("sha1_hash", Sizes.ewfSHA1Digest)

Spelling(key) ==
    {k \in Bodies({"unclassified"}) :
        sections[k].TypeString = "xhash" /\ Has(hexDigest(Body(sections[k]), key))}

OfRecord(key) ==
    IF Holders(key) # {} THEN Body(sections[Max(Holders(key))])[key]
    ELSE IF Spelling(key) # {} THEN hexDigest(Body(sections[Min(Spelling(key))]), key)
    ELSE None

\* "Digests already read from a binary section win", also when they are read
\* after the document: a segment's digest is that of its last binary section long
\* enough to hold one, or else of its first xhash that spells one.
DigestsOfRecord ==
    Parsed => info.MD5Digest = OfRecord("md5") /\ info.SHA1Digest = OfRecord("sha1")

\* The first header section of each name.
FirstHeaders ==
    LET named(name) == {k \in Bodies({"unclassified"}) : sections[k].TypeString = name}
    IN  [name \in Headers |-> IF named(name) = {} THEN None
                              ELSE Body(sections[Min(named(name))])]

\* The keys among values that are of a field.
Spellings(field, values) ==
    {k \in DOMAIN values : k \in DOMAIN headerFields /\ headerFields[k] = field}

\* What the most capable header section that says anything about a field makes of
\* it: a set, since it may use two spellings.  A "0" is something said, namely that
\* there is no password (setPasswordHash): the field stays blank then, also when a
\* less capable section has a hash.  header.go:36 reads as if the hash were filled
\* in; the code does not, and neither property below says so.
Winner(field) ==
    LET cands   == candidates(FirstHeaders)
        said(i) == {cands[i][key] : key \in Spellings(field, cands[i])} \ {""}
        saying  == {i \in 1..3 : said(i) # {}}
        absent  == IF field = "PasswordHash" THEN {"0"} ELSE {}
    IN  IF saying = {} THEN {""}
        ELSE {IF v \in absent THEN "" ELSE v : v \in said(Min(saying))}

\* "the most capable encoding wins rather than whichever came last" (header.go:20),
\* whatever the order of the sections and that of Go's map.
DocumentedPrecedence ==
    Parsed /\ file.version = 1 /\ HasAcquisition(info) =>
        \A f \in Texts : info.Acquisition.text[f] \in Winner(f)

\* The code keeps that for every field that the sections between them spell in one
\* way only (resolveAcquisition, mergedValues, applyHeaderValues): the field is what
\* the most capable section with a value for it says, past sections whose value is
\* empty or that lack it, and blank if none has a value or if that value is the
\* password "0".
HeaderPrecedence ==
    Parsed /\ file.version = 1 /\ HasAcquisition(info) =>
        \A f \in Texts :
            (\A k, l \in Spellings(f, info.Acquisition.Values) : k = l)
              => info.Acquisition.text[f] \in Winner(f)

\* A v2 section as a text, and the number of a field that a text spells: none, if
\* it has no room in 64 bits.
TextAt(k) == decodeHeaderText(Body(sections[k]), "utf16")
Number(text, width) ==
    IF text \in DOMAIN Decimal /\ Decimal[text] < Uint64Room THEN Decimal[text] % width ELSE 0

\* "Both are needed before a device can be read": a v2 segment has usable geometry
\* only if a device_information says the sector size and a case_data the chunk
\* size.  One of each, in either order, make one record and neither loses what
\* the other said.
TwoTextsOneRecord ==
    LET texts(type) == {k \in Bodies({type}) : DOMAIN TextAt(k) # {}}
        device == texts("device_information")
        case   == texts("case_data")
    IN  Parsed /\ file.version = 2 =>
          /\ device = {} \/ case = {} =>
               \/ ~Has(info.Media)
               \/ info.Media.BytesPerSector = 0 \/ info.Media.SectorsPerChunk = 0
          /\ \A j, k \in 1..Len(sections) : device = {j} /\ case = {k} =>
               /\ info.Media.BytesPerSector = Number(Of(TextAt(j), "bp"), Word32)
               /\ info.Media.NumberOfSectors = Number(Of(TextAt(j), "ts"), Uint64Room)
               /\ info.Media.SectorsPerChunk = Number(Of(TextAt(k), "sb"), Word32)
               /\ info.Acquisition.text["Model"] = Of(TextAt(j), "md")
               /\ info.Acquisition.text["CaseNumber"] = Of(TextAt(k), "cn")
               /\ info.Acquisition.Source = "case_data"

\* Every parse ends, whatever the file holds.
ParseEnds == phase = "signature" ~> phase \in {"parsed", "failed"}

=============================================================================
