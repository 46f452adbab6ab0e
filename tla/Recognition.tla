---------------------------- MODULE Recognition ----------------------------
(***************************************************************************)
(* Which indicators the platform reads out of what it is given:            *)
(* app/ioc/indicators.py and app/ioc/extract.py.  A string is a member of  *)
(* Word; what the regular expressions and the string methods say of it is  *)
(* given by functions on Word, everything the code does with their answers *)
(* is defined here.                                                        *)
(***************************************************************************)
EXTENDS Integers, SequencesExt

CONSTANTS
    Word,       \* the strings that are submitted, stored or exported
    Refang,     \* Refang[w]: what refang makes of w; w if nothing is defanged
    Format,     \* Format[w]: the test of classify_indicator that w passes
    Lower,      \* Lower[w], Upper[w]: the same in lower case, upper case
    Upper,
    Bare,       \* Bare[w]: an address without its port
    HostName,   \* HostName[w]: urlsplit(w).hostname, for a URL
    Pattern,    \* Pattern[w]: the first of _PATTERNS that finds w in a text
    Found,      \* Found[w]: the part of w that pattern finds
    FileNames,  \* words with a suffix of _FILE_SUFFIXES
    Headers,    \* the column names extract_from_csv looks for
    Literal,    \* Literal[w]: w escaped for a STIX pattern
    Read        \* Read[l]: what extract_from_stix reads of the literal l

Hashes == {"md5", "sha1", "sha256"}
Hosts == {"ipv4-addr", "ipv6-addr", "domain-name"}
Types == Hashes \cup Hosts \cup {"url", "email-addr", "cve", "attack-pattern"}
\* Types with a part that may be spelled anyhow: a path, the zone of an address.
Loose == {"url", "ipv6-addr"}

\* An indicator: its type and its normalised value, the key of table iocs.
Indicator == [type : Types, value : Word]
Unknown == [type |-> "unknown"]

ASSUME WordAssumption ==
    /\ Format \in [Word -> Types \cup {"none"}]
    /\ \A f \in {Refang, Lower, Upper, Bare, HostName, Found, Literal, Read} :
          f \in [Word -> Word]
    /\ Pattern \in [Word -> 0..8]

\* How word w is written in an indicator: hashes, addresses of mail and domains
\* in lower case, identifiers in upper case, addresses without a port; URLs
\* stay as they are spelled.
Normal(w) ==
    CASE Format[w] \in Hashes \cup {"email-addr", "domain-name"} -> Lower[w]
      [] Format[w] \in {"cve", "attack-pattern"} -> Upper[w]
      [] Format[w] \in {"ipv4-addr", "ipv6-addr"} -> Bare[w]
      [] OTHER -> w

\* Words are ASCII.  What is normal passes the same test and stays as it is, and
\* of an IPv4 address there is but one spelling.  In a normal word that refang
\* has been over it finds nothing more: its replacements make no new hxxp or fxp,
\* and the formats leave no room for its other tokens, but for those of Loose.
ASSUME SpellingAssumption ==
    /\ \A w \in Word : Format[w] # "none" =>
          /\ Format[Normal(w)] = Format[w]
          /\ Normal(Normal(w)) = Normal(w)
          /\ Format[w] = "ipv4-addr" => Lower[Bare[w]] = Bare[w]
    /\ \A w \in Word : Format[Refang[w]] \notin Loose \cup {"none"} =>
          Refang[Normal(Refang[w])] = Normal(Refang[w])

----------------------------------------------------------------------------
(* One string                                                              *)

\* mutant of Classify: the case of a domain is kept.
ClassifyAsSpelled(raw) ==
    LET w == Refang[raw] IN
    IF Format[w] = "none" THEN Unknown ELSE [type |-> Format[w], value |-> w]

Classify(raw) ==
    LET w == Refang[raw] IN
    IF Format[w] = "none" THEN Unknown ELSE [type |-> Format[w], value |-> Normal(w)]

\* The kind of host string w is, as far as the graph is concerned.
HostType(w) == IF Format[w] \in {"ipv4-addr", "ipv6-addr"} THEN Format[w] ELSE "domain-name"

HasHost(i) == i.type \in Hosts \cup {"url"}
HostOf(i) == IF i.type = "url" THEN HostName[i.value] ELSE i.value

----------------------------------------------------------------------------
(* Documents: lines of words, or the objects of a STIX bundle              *)

\* The distinct indicators among the candidates, in order, at most limit.
Distinct(candidates, limit) ==
    LET Take(found, w) ==
            LET i == Classify(w) IN
            IF i = Unknown \/ i \in ToSet(found) \/ Len(found) >= limit
            THEN found ELSE Append(found, i)
        found[n \in 0..Len(candidates)] ==
            IF n = 0 THEN <<>> ELSE Take(found[n - 1], candidates[n]) IN
    found[Len(candidates)]

\* Patterns are tried over the whole text one after the other, each blanking
\* what it found: candidates come by pattern first, by place second.  The
\* last pattern is that of domains, which also finds names of files.
Candidates(text) ==
    LET Plausible(w) == Pattern[w] # 8 \/ Found[w] \notin FileNames
        By(p, w) == IF Pattern[w] = p /\ Plausible(w) THEN <<Found[w]>> ELSE <<>> IN
    FlattenSeq([p \in 1..8 |-> FlattenSeq([n \in DOMAIN text |-> By(p, text[n])])])

ExtractText(text, limit) ==
    Distinct(Candidates([n \in DOMAIN text |-> Refang[text[n]]]), limit)

\* Only the column with a known header, if the first row has one.
ExtractCsv(rows, limit) ==
    LET columns == IF rows = <<>> THEN {}
                   ELSE {n \in DOMAIN rows[1] : Lower[rows[1][n]] \in Headers}
        column == CHOOSE n \in columns : \A m \in columns : n <= m
        Cell(row) == IF Len(row) >= column THEN <<row[column]>> ELSE <<>> IN
    ExtractText(FlattenSeq(IF columns = {} THEN rows
                           ELSE [n \in 1..Len(rows) - 1 |-> Cell(rows[n + 1])]), limit)

ExtractStix(objects, limit) ==
    LET Of(o) == IF o.type \in {"vulnerability", "attack-pattern"} THEN o.ids
                 ELSE [n \in DOMAIN o.literals |-> Read[o.literals[n]]] IN
    Distinct(FlattenSeq([n \in DOMAIN objects |-> Of(objects[n])]), limit)

\* The format "auto" stands for.
Sniff(doc) ==
    IF doc.objects # <<>> THEN "stix"
    ELSE IF Len(doc.lines) > 1 /\ Len(doc.lines[1]) > 1 THEN "csv" ELSE "text"

\* extract_indicators; MaxIndicators is the cap of every caller.
Extract(doc, fmt, limit) ==
    LET form == IF fmt = "auto" THEN Sniff(doc) ELSE fmt IN
    CASE form = "stix" -> ExtractStix(doc.objects, limit)
      [] form = "csv" -> ExtractCsv(doc.lines, limit)
      [] form = "text" -> ExtractText(FlattenSeq(doc.lines), limit)
============================================================================
