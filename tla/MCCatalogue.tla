----------------------------- MODULE MCCatalogue -----------------------------
(* Values for TLC: a host under its name, two addresses and several         *)
(* spellings, with URLs to it, and one indicator of each other kind.        *)
EXTENDS Catalogue

Dom == "evil.example"
Ip == "198.51.100.23"
Quoted == "http://evil.example/a'b"
QuotedLiteral == "http://evil.example/a\\'b"
Cut == "http://evil.example/a"
Slashed == "http://EVIL.example/\\x"
SlashedLiteral == "http://EVIL.example/\\\\x"
Nested == "http://evil.example/[(dot)]x"
Nested1 == "http://evil.example/[.]x"
Nested2 == "http://evil.example/.x"
Zoned == "fe80::1%[(dot)]"
Zoned1 == "fe80::1%[.]"
Zoned2 == "fe80::1%."
ToIp == "http://198.51.100.23/"
ToIp6 == "http://[2001:DB8::1]/"
Hash == "44d88612fea8a8f36de82e1278abb02f"

FormatTable == [w \in {Dom, "EVIL.example", "payload.exe", "hooks.example"} |-> "domain-name"]
    @@ [w \in {Ip, "203.0.113.77", "198.51.100.23:80", "10.0.0.5"} |-> "ipv4-addr"]
    @@ [w \in {"2001:DB8::1", "2001:db8::1", Zoned, Zoned1, Zoned2} |-> "ipv6-addr"]
    @@ [w \in {Quoted, Cut, Slashed, SlashedLiteral, QuotedLiteral, Nested, Nested1, Nested2,
              ToIp, ToIp6} |-> "url"]
    @@ [w \in {Hash, "44D88612FEA8A8F36DE82E1278ABB02F"} |-> "md5"]
    @@ [w \in {"CVE-2021-44228", "cve-2021-44228", "CVE-2024-3400"} |-> "cve"]
    @@ [w \in {"T1059"} |-> "attack-pattern"]
WordDef == DOMAIN FormatTable \cup {"EVIL[.]example", "advisory", "Value", "value"}
FormatDef == FormatTable @@ [w \in WordDef |-> "none"]
With(table) == table @@ [w \in WordDef |-> w]
RefangDef == With("EVIL[.]example" :> "EVIL.example" @@ Nested :> Nested1 @@ Nested1 :> Nested2
                  @@ Zoned :> Zoned1 @@ Zoned1 :> Zoned2)
LowerDef == With("EVIL.example" :> Dom @@ "2001:DB8::1" :> "2001:db8::1" @@ "Value" :> "value"
                 @@ "44D88612FEA8A8F36DE82E1278ABB02F" :> Hash
                 @@ "CVE-2021-44228" :> "cve-2021-44228")
UpperDef == With("cve-2021-44228" :> "CVE-2021-44228")
BareDef == With("198.51.100.23:80" :> Ip)
HostNameDef == With([w \in {Quoted, Cut, Slashed, SlashedLiteral, QuotedLiteral, Nested, Nested1, Nested2} |-> Dom]
                    @@ ToIp :> Ip @@ ToIp6 :> "2001:db8::1")
PatternDef == [w \in WordDef |->
    CASE FormatDef[w] = "url" -> 1 [] FormatDef[w] = "md5" -> 3 [] FormatDef[w] = "cve" -> 4
      [] FormatDef[w] = "attack-pattern" -> 5 [] FormatDef[w] = "ipv4-addr" -> 7
      [] FormatDef[w] = "domain-name" -> 8 [] OTHER -> 0]
FoundDef == With(Quoted :> Cut @@ QuotedLiteral :> Cut @@ "198.51.100.23:80" :> Ip)
LiteralDef == With(Quoted :> QuotedLiteral @@ Slashed :> SlashedLiteral)
ReadDef == With(QuotedLiteral :> Quoted @@ Quoted :> Cut)

InsideDef == [w \in WordDef |-> {LowerDef[w]}] @@ (Dom :> {Dom, "value"})
GlobalDef == {Ip, "203.0.113.77", "2001:DB8::1", "2001:db8::1"}
FlaggedDef == {"10.0.0.5"}
CountryDef == [w \in WordDef |-> IF w = Ip THEN "RU" ELSE "US"]
DetectedDef == [w \in WordDef |-> IF w \in {Dom, Ip} THEN 69 ELSE 30]

DecayDef == 0 :> 700 @@ 1 :> 350
GrowthDef == <<159, 253, 319, 370, 412, 447, 478, 505, 529, 551,
               571, 590, 607, 623, 637, 651, 665, 677, 689, 700>> @@ 0 :> 0

SamplesDef == [name \in CollectorNames |->
    CASE name = "abuseipdb" -> <<[value |-> Ip, confidence |-> 4],
                                 [value |-> "203.0.113.77", confidence |-> 3]>>
      [] name = "urlhaus" -> <<[value |-> Cut, confidence |-> 4]>>
      [] name = "malwarebazaar" -> <<[value |-> Hash, confidence |-> 5]>>
      [] name = "otx" -> <<[value |-> Dom, confidence |-> 3]>>
      [] name = "cisa_kev" -> <<[value |-> "CVE-2021-44228", confidence |-> 5]>>
      [] OTHER -> <<[value |-> "CVE-2024-3400", confidence |-> 4]>>]

Offline == [live |-> FALSE, allowed |-> {}, keyed |-> {"abuseipdb"}]
Open == [live |-> TRUE, allowed |-> {}, keyed |-> {"abuseipdb"}]
Narrow == [live |-> TRUE, allowed |-> {"hooks.example"}, keyed |-> {}]
ConfigsDef == {Offline, Open, Narrow}
AnswersDef == {[ok |-> TRUE, ips |-> {Ip, "10.0.0.5"}], [ok |-> FALSE, ips |-> {}]}
SourcesDef == CollectorNames \cup {"manual", "import"}
Post(raw, source, confidence, enrich) ==
    [raw |-> raw, source |-> source, confidence |-> confidence, enrich |-> enrich]
SubmissionsDef == {Post("EVIL[.]example", "manual", 3, TRUE), Post(Quoted, "otx", 5, TRUE),
                   Post("198.51.100.23:80", "otx", 5, TRUE), Post(ToIp6, "manual", 2, FALSE),
                   Post(Slashed, "manual", 3, FALSE), Post(Nested, "manual", 3, FALSE),
                   Post(Zoned, "manual", 3, FALSE)}
Document(lines, objects) == [lines |-> lines, objects |-> objects]
Load(doc, limit) == [doc |-> doc, fmt |-> "auto", limit |-> limit, source |-> "import",
                     confidence |-> 2, enrich |-> FALSE]
ImportsDef ==
    {Load(Document(<<<<"payload.exe", "2001:DB8::1", Quoted>>, <<ToIp, "T1059", "EVIL[.]example">>>>, <<>>), 2),
     Load(Document(<<<<"advisory", "Value">>, <<"T1059", "cve-2021-44228">>, <<Dom>>>>, <<>>), 3)}
Row(value, sure) == [value |-> value, sure |-> sure]
FeedsDef ==
    {[name |-> "abuseipdb", feed |-> <<Row(Ip, TRUE), Row(NoValue, FALSE)>>, up |-> TRUE,
      limit |-> n, enrich |-> TRUE] : n \in {1, 2}}
    \cup {[name |-> "rss", feed |-> <<Row(NoValue, FALSE)>>, up |-> TRUE,
           limit |-> 2, enrich |-> TRUE]}
RelationsDef == {Edge([type |-> "domain-name", value |-> Dom], [type |-> "ipv4-addr", value |-> "10.0.0.5"],
                      "resolves-to"),
                 Edge([type |-> "ipv4-addr", value |-> Ip], [type |-> "threat-actor", value |-> "APT"],
                      "attributed-to")}
WebhookDef == [scheme |-> "https", host |-> "hooks.example"]
==============================================================================
