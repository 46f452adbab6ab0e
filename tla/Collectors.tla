----------------------------- MODULE Collectors -----------------------------
(***************************************************************************)
(* The feeds of app/collectors: the registry, the factory that decides     *)
(* whether a collector may go out, the normalisation of what a provider    *)
(* returns and the samples served otherwise.  A feed is a sequence of      *)
(* entries: the value of the indicator, or NoValue if the entry lacks it,  *)
(* and whether AbuseIPDB is sure of it (a score of 90 or more).            *)
(***************************************************************************)
EXTENDS Naturals, SequencesExt

CONSTANTS
    NoValue,    \* no such field
    Advisory,   \* the title given to an RSS entry that has none
    Samples     \* Samples[name]: the bundled samples, values with a confidence

CollectorNames == {"abuseipdb", "urlhaus", "malwarebazaar", "otx", "cisa_kev", "rss"}

\* The sources whose word counts, in app/enrichment/engine.py and ioc_service.
ReputableSources == (CollectorNames \ {"rss"}) \cup {"virustotal"}

RequiresKey == {"abuseipdb", "otx"}

\* Confidence, in fifths, that a provider's indicators are taken with.
ConfidenceOf == [abuseipdb |-> 3, urlhaus |-> 4, malwarebazaar |-> 5, otx |-> 3,
                 cisa_kev |-> 5, rss |-> 3]

Item(name, e) ==
    [value |-> IF e.value = NoValue THEN Advisory ELSE e.value,
     confidence |-> IF name = "abuseipdb" /\ e.sure THEN 4 ELSE ConfidenceOf[name]]

ASSUME CollectorAssumption == DOMAIN Samples = CollectorNames

IsLive(cfg, name) == cfg.live /\ (name \in RequiresKey => name \in cfg.keyed)

FirstOf(s, limit) == SubSeq(s, 1, IF Len(s) < limit THEN Len(s) ELSE limit)

\* _collect_live: most feeds are cut before entries without a value are
\* dropped, so fewer than limit may be left; OTX is cut after; RSS keeps them.
Normalised(name, feed, limit) ==
    LET Valued(s) == FlattenSeq([n \in DOMAIN s |->
                                    IF s[n].value # NoValue THEN <<s[n]>> ELSE <<>>])
        entries == CASE name = "otx" -> FirstOf(Valued(feed), limit)
                     [] name \in {"rss", "abuseipdb"} -> FirstOf(feed, limit)
                     [] OTHER -> Valued(FirstOf(feed, limit)) IN
    [n \in DOMAIN entries |-> Item(name, entries[n])]

\* An AbuseIPDB row without an address fails the whole feed.
Breaks(name, feed, limit) ==
    name = "abuseipdb" /\ \E e \in ToSet(FirstOf(feed, limit)) : e.value = NoValue

\* collect: whatever goes wrong with a live feed, the samples are served.
Collect(cfg, name, feed, up, limit) ==
    IF IsLive(cfg, name) /\ up /\ ~Breaks(name, feed, limit)
    THEN Normalised(name, feed, limit)
    ELSE FirstOf(Samples[name], limit)
============================================================================
