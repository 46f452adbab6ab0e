------------------------------ MODULE Sharing ------------------------------
(***************************************************************************)
(* What leaves the platform: STIX bundles (app/sharing/stix.py), MISP      *)
(* events (app/sharing/misp.py) and the tabular reports of                 *)
(* app/services/report_service.py, for the indicators a filter selects.    *)
(***************************************************************************)
EXTENDS Recognition

\* mutant of StixLiteral: the value goes into the pattern as it is.
StixLiteralRaw(w) == w

StixLiteral(w) == Literal[w]

\* The object for indicator i: identifiers of its own for vulnerabilities and
\* techniques, a pattern for the rest.  Its id is derived from the identifier
\* or the pattern, never from the time of the export.
StixObject(i) ==
    CASE i.type = "cve" ->
            [type |-> "vulnerability", id |-> <<"vulnerability", i.value>>,
             ids |-> <<i.value>>, literals |-> <<>>]
      [] i.type = "attack-pattern" ->
            [type |-> "attack-pattern", id |-> <<"attack-pattern", i.value>>,
             ids |-> <<i.value>>, literals |-> <<>>]
      [] OTHER ->
            [type |-> "indicator", id |-> <<"indicator", i.type, StixLiteral(i.value)>>,
             ids |-> <<>>, literals |-> <<StixLiteral(i.value)>>]

\* A bundle, as a document: the producer's identity, then the indicators.
StixBundle(list) ==
    [lines |-> <<>>,
     objects |-> <<[type |-> "identity", id |-> <<"identity">>, ids |-> <<>>, literals |-> <<>>]>>
                 \o [n \in DOMAIN list |-> StixObject(list[n])]]

----------------------------------------------------------------------------

MispType(i) ==
    CASE i.type \in {"ipv4-addr", "ipv6-addr"} -> "ip-dst"
      [] i.type = "domain-name" -> "domain"
      [] i.type = "email-addr" -> "email-src"
      [] i.type = "cve" -> "vulnerability"
      [] OTHER -> i.type

MispDetectable == {"ip-dst", "domain", "url"} \cup Hashes
ToIdsMinScore == 50

MispLevel == [critical |-> 1, high |-> 1, medium |-> 2, low |-> 3, clean |-> 4]

\* An event: attributes, techniques as tags, the level of the worst.
MispEvent(list, score, level) ==
    [attributes |->
        {[type |-> MispType(i), value |-> i.value,
          to_ids |-> MispType(i) \in MispDetectable /\ score[i] >= ToIdsMinScore] :
            i \in {j \in ToSet(list) : j.type # "attack-pattern"}},
     tags |-> {i.value : i \in {j \in ToSet(list) : j.type = "attack-pattern"}},
     level |-> Min({4} \cup {MispLevel[level[i]] : i \in ToSet(list)})]
============================================================================
