------------------------------ MODULE Catalogue ------------------------------
(***************************************************************************)
(* The catalogue of indicators as a whole: how submissions, documents and  *)
(* feeds become scored rows and edges of the graph, and what is read out   *)
(* of them (app/services/ioc_service.py, app/services/correlation_service  *)
(* and the routers of collectors, correlation and reports).  One request   *)
(* is handled at a time: IocIngest is about requests that overlap.  A      *)
(* document or a feed is taken in one indicator per step.                  *)
(***************************************************************************)
EXTENDS Scoring, Enrichment, ThreatGraph, Collectors, Sharing

CONSTANTS
    Configs,        \* configurations the server may run with
    Sources,        \* names of sources
    Answers,        \* answers a resolver may give
    Submissions,    \* what is posted: raw, source, confidence (in fifths), enrich
    Imports,        \* documents posted: doc, fmt, limit and as above
    Feeds,          \* runs of a collector: name, feed, up, limit, enrich
    Relations,      \* edges that analysts add
    Webhook,        \* scheme and host an alert rule's webhook is at
    MaxRequests     \* bound on requests

VARIABLES
    cfg,        \* the configuration, read once
    iocs,       \* table iocs, by indicator; `by` tells, for a row, what its
                \* score was last computed from
    edges,      \* table correlation_edges
    batch,      \* indicators of the current request that are still to come
    today,      \* the day
    contacted,  \* history: hosts looked up and feeds fetched, each tagged
    posted,     \* history: addresses the guard let a webhook be posted to
    requests    \* requests handled

Confidence == 0..5
Posting == [raw : Word, source : Sources, confidence : Confidence, enrich : BOOLEAN]

\* A document as the parsers see it: lines of words, or objects of a bundle.
IsDocument(doc) ==
    /\ doc.lines \in Seq(Seq(Word))
    /\ doc.objects \in Seq(ToSet(doc.objects))
    /\ \A o \in ToSet(doc.objects) : o.ids \in Seq(Word) /\ o.literals \in Seq(Word)

ASSUME CatalogueAssumption ==
    /\ Submissions \subseteq Posting
    /\ \A m \in Imports :
          /\ IsDocument(m.doc) /\ m.fmt \in {"auto", "stix", "csv", "text"}
          /\ m.limit \in Nat \ {0}
          /\ m.confidence \in Confidence /\ m.source \in Sources /\ m.enrich \in BOOLEAN
    /\ \A f \in Feeds :
          /\ f.name \in CollectorNames \cap Sources
          /\ f.feed \in Seq([value : Word \cup {NoValue}, sure : BOOLEAN])
          /\ f.limit \in Nat \ {0} /\ f.enrich \in BOOLEAN
    /\ \A a \in Answers : IsFiniteSet(a.ips)
    /\ Advisory \in Word /\ Webhook.host \in Word
    /\ MaxRequests \in Nat
    /\ \A name \in CollectorNames :
          Samples[name] \in Seq([value : Word, confidence : Confidence])
    /\ \A k \in Relations : k = Edge(k.src, k.dst, k.rel)

vars == <<cfg, iocs, edges, batch, today, contacted, posted, requests>>

Init ==
    /\ cfg \in Configs
    /\ iocs = [i \in {} |-> {}]
    /\ edges = [k \in {} |-> {}]
    /\ batch = <<>>
    /\ today = 0
    /\ contacted = {}
    /\ posted = {}
    /\ requests = 0

----------------------------------------------------------------------------
(* Taking in one indicator                                                 *)

\* The node of the graph an address or a name is.
HostRef(h) == [type |-> HostType(h), value |-> h]

\* _auto_correlate.
Correlated(E, i, resolved, source) ==
    LET hosts == IF i.type = "url"
                 THEN {Edge(i, HostRef(HostName[i.value]), "communicates-with")} ELSE {}
        found == {Edge(i, HostRef(a), "resolves-to") : a \in resolved} IN
    UpsertEdges(UpsertEdges(E, hosts, 9, source), found, 8, "dns")

Sighted(i) == IF i \in DOMAIN iocs THEN iocs[i].sightings + 1 ELSE 1

FirstSeen(i) == IF i \in DOMAIN iocs THEN iocs[i].first ELSE today

\* The row after an upsert: source and confidence stay those of the first
\* submission, the score is that of the last one.
Scored(i, enrichment, source, confidence, enrich) ==
    LET reputable == source \in ReputableSources
        score == Score(SignalsFrom(enrichment, reputable, confidence,
                                   Sighted(i), today - FirstSeen(i))) IN
    [source |-> IF i \in DOMAIN iocs THEN iocs[i].source ELSE source,
     confidence |-> IF i \in DOMAIN iocs THEN iocs[i].confidence ELSE confidence,
     sightings |-> Sighted(i), first |-> FirstSeen(i),
     score |-> score, level |-> Level(score),
     by |-> [reputable |-> reputable, confidence |-> confidence,
             enriched |-> enrich, day |-> today]]

\* upsert of an indicator the classifier knows; `answer` is what the resolver
\* says of its host, `hook` what it says of the webhook's when the alert that
\* the indicator raises is delivered.
Upsert(raw, source, confidence, enrich, answer, hook) ==
    LET i == Classify(raw)
        enrichment == IF enrich THEN Enrich(cfg, i, answer) ELSE NoEnrichment
        asked == IF enrich /\ HasHost(i) /\ AsksResolver(cfg, HostOf(i))
                 THEN {<<"host", HostOf(i)>>} ELSE {}
        hooked == IF cfg.live /\ Admits(cfg, Webhook.scheme, Webhook.host)
                  THEN {<<"host", Webhook.host>>} ELSE {} IN
    /\ i # Unknown
    /\ iocs' = [j \in DOMAIN iocs \cup {i} |->
                   IF j # i THEN iocs[j]
                   ELSE Scored(i, enrichment, source, confidence, enrich)]
    /\ edges' = Correlated(edges, i, enrichment.resolved, source)
    /\ contacted' = contacted \cup asked \cup hooked
    /\ posted' = IF cfg.live /\ Validates(cfg, Webhook.scheme, Webhook.host, hook)
                 THEN posted \cup hook.ips ELSE posted

----------------------------------------------------------------------------
(* Requests                                                                *)

Idle == batch = <<>> /\ requests < MaxRequests

Submit(s, answer, hook) ==
    /\ Idle
    /\ Upsert(s.raw, s.source, s.confidence, s.enrich, answer, hook)
    /\ requests' = requests + 1
    /\ UNCHANGED <<cfg, batch, today>>

\* mutant of Rerun: the indicator is stored again, but not enriched.
RerunWithout(i, answer, hook) ==
    /\ Idle
    /\ Upsert(i.value, iocs[i].source, iocs[i].confidence, FALSE, answer, hook)
    /\ requests' = requests + 1
    /\ UNCHANGED <<cfg, batch, today>>

\* rerun_enrichment hands the stored value, source and confidence to upsert.
Rerun(i, answer, hook) ==
    /\ Idle
    /\ Upsert(i.value, iocs[i].source, iocs[i].confidence, TRUE, answer, hook)
    /\ requests' = requests + 1
    /\ UNCHANGED <<cfg, batch, today>>

\* bulk_import.
Import(m) ==
    /\ Idle
    /\ LET found == Extract(m.doc, m.fmt, m.limit) IN
       batch' = [n \in DOMAIN found |->
                    [raw |-> found[n].value, source |-> m.source,
                     confidence |-> m.confidence, enrich |-> m.enrich]]
    /\ requests' = requests + 1
    /\ UNCHANGED <<cfg, iocs, edges, today, contacted, posted>>

\* run_collector, up to the ingestion of what was collected.
RunCollector(f) ==
    /\ Idle
    /\ LET items == Collect(cfg, f.name, f.feed, f.up, f.limit) IN
       batch' = [n \in DOMAIN items |->
                    [raw |-> items[n].value, source |-> f.name,
                     confidence |-> items[n].confidence, enrich |-> f.enrich]]
    /\ contacted' = contacted \cup (IF IsLive(cfg, f.name) THEN {<<"feed", f.name>>} ELSE {})
    /\ requests' = requests + 1
    /\ UNCHANGED <<cfg, iocs, edges, today, posted>>

\* The loops of bulk_import and ingest_from_collector; what the classifier
\* does not know is skipped.
IngestNext(answer, hook) ==
    /\ batch # <<>>
    /\ batch' = Tail(batch)
    /\ LET s == Head(batch) IN
       \/ Upsert(s.raw, s.source, s.confidence, s.enrich, answer, hook)
       \/ Classify(s.raw) = Unknown /\ UNCHANGED <<iocs, edges, contacted, posted>>
    /\ UNCHANGED <<cfg, today, requests>>

\* add_relationship.
Relate(k) ==
    /\ Idle
    /\ edges' = UpsertEdges(edges, {k}, 5, "manual")
    /\ requests' = requests + 1
    /\ UNCHANGED <<cfg, iocs, batch, today, contacted, posted>>

DayPasses ==
    /\ batch = <<>> /\ today < MaxAge
    /\ today' = today + 1
    /\ UNCHANGED <<cfg, iocs, edges, batch, contacted, posted, requests>>

Next ==
    \/ \E s \in Submissions, answer, hook \in Answers : Submit(s, answer, hook)
    \/ \E i \in DOMAIN iocs, answer, hook \in Answers : Rerun(i, answer, hook)
    \/ \E m \in Imports : Import(m)
    \/ \E f \in Feeds : RunCollector(f)
    \/ \E answer, hook \in Answers : IngestNext(answer, hook)
    \/ \E k \in Relations : Relate(k)
    \/ DayPasses

Spec == Init /\ [][Next]_vars

----------------------------------------------------------------------------
(* Reading                                                                 *)

\* What a search, or a report, of score min and above may list on its first page:
\* the rows of highest score, of equal ones any first.
Listings(min, limit) ==
    LET rows == {i \in DOMAIN iocs : iocs[i].score >= min}
        Highest(R) == {i \in R : \A j \in R : iocs[j].score <= iocs[i].score}
        lists[n \in 0..Least(limit, Cardinality(rows))] ==
            IF n = 0 THEN {<<>>}
            ELSE UNION {{Append(s, i) : i \in Highest(rows \ ToSet(s))} : s \in lists[n - 1]} IN
    lists[Least(limit, Cardinality(rows))]

MaxIndicators == 1000

----------------------------------------------------------------------------
(* Properties                                                              *)

IocRow ==
    [source : Sources, confidence : Confidence, sightings : Nat \ {0},
     first : 0..MaxAge, score : 0..100,
     level : {"critical", "high", "medium", "low", "clean"},
     by : [reputable : BOOLEAN, confidence : Confidence, enriched : BOOLEAN,
           day : 0..MaxAge]]

TypeOK ==
    /\ cfg \in Configs
    /\ iocs \in [DOMAIN iocs -> IocRow] /\ DOMAIN iocs \subseteq Indicator
    /\ edges \in [DOMAIN edges -> [confidence : {5, 8, 9}, source : Sources \cup {"dns", "manual"}]]
    /\ \A k \in DOMAIN edges : k = Edge(k.src, k.dst, k.rel)
    /\ batch \in Seq(Posting)
    /\ today \in 0..MaxAge
    /\ \A c \in contacted : c \in {"host"} \X Word \/ c \in {"feed"} \X CollectorNames
    /\ posted \subseteq Word
    /\ requests \in 0..MaxRequests

\* No indicator is ever rated critical: a request names one source, so at most
\* two count as reputable, and no ports are passed on (signals_from, upsert).
NoneIsCritical == \A i \in DOMAIN iocs : iocs[i].level # "critical" /\ iocs[i].score <= 84

\* The score of an indicator falls only when it is submitted again by a source
\* of less standing, with less confidence, without enrichment, or on a later
\* day than before: sightings alone never lower it (upsert, the engine).
ScoreFallsForAReason ==
    [][\A i \in DOMAIN iocs : iocs'[i].score < iocs[i].score =>
          LET was == iocs[i].by
              is == iocs'[i].by IN
          \/ was.reputable /\ ~is.reputable
          \/ is.confidence < was.confidence
          \/ was.enriched /\ ~is.enriched
          \/ is.day > was.day]_vars

\* Enriching an indicator anew touches its row alone, unless refang still finds
\* something in the URL or the zone of the address: the stored value is read as the same indicator.
\* It counts as a sighting, and does not lower the score if the last submission
\* was one of the same day with the standing and the confidence of the first.
RerunKeepsItsRow ==
    [][\A i \in DOMAIN iocs, answer, hook \in Answers :
          Rerun(i, answer, hook) /\ (i.type \in Loose => Refang[i.value] = i.value) =>
          LET was == iocs[i]
              is == iocs'[i] IN
          /\ DOMAIN iocs' = DOMAIN iocs
          /\ \A j \in DOMAIN iocs \ {i} : iocs'[j] = iocs[j]
          /\ is.sightings = was.sightings + 1
          /\ /\ was.by.day = today /\ was.by.confidence = was.confidence
             /\ was.by.reputable <=> was.source \in ReputableSources
             => was.score <= is.score]_vars

\* With collectors off nothing leaves the machine; otherwise only allowed hosts
\* are looked up and only collectors that may go out do; no webhook goes to an
\* internal address, and none gets into the graph by a look-up.
ContactsAreAllowed ==
    /\ ~cfg.live => contacted \cup posted = {}
    /\ posted \subseteq Global \ Flagged
    /\ \A c \in contacted :
          IF c[1] = "feed" THEN c[2] \in RequiresKey => c[2] \in cfg.keyed
          ELSE cfg.allowed = {} \/ Inside[c[2]] \cap cfg.allowed # {}
    /\ \A k \in DOMAIN edges : k.rel = "resolves-to" /\ edges[k].source = "dns" =>
          k.dst.value \in Global \ Flagged

\* A URL is linked to the row of its host, whichever was stored first and
\* however the host was spelled; only of an IPv6 address the spelling counts
\* (classify_indicator leaves it alone, urlsplit lower-cases it).
UrlsMeetTheirHosts ==
    \A u, i \in DOMAIN iocs :
        /\ u.type = "url" /\ i.type \in Hosts
        /\ Lower[i.value] = HostName[u.value]
        /\ i.type = "ipv6-addr" => i.value = Lower[i.value]
        => Edge(u, i, "communicates-with") \in DOMAIN edges

\* A STIX export, imported again, yields the indicators it was made from, in
\* order, but for values with a backslash, which import does not unescape, and
\* URLs and zones in which refang still finds something; and a MISP event holds each of
\* them, fit for detection from its score on.
ExportsComeBack ==
    \A min \in {0, ToIdsMinScore}, limit \in {1, MaxIndicators} :
    \A list \in Listings(min, limit) :
        LET event == MispEvent(list, [i \in DOMAIN iocs |-> iocs[i].score],
                                     [i \in DOMAIN iocs |-> iocs[i].level]) IN
        /\ (\A i \in ToSet(list) :
                /\ Read[Literal[i.value]] = i.value
                /\ i.type \in Loose => Refang[i.value] = i.value)
           => Extract(StixBundle(list), "auto", MaxIndicators) = list
        /\ Cardinality(event.attributes) + Cardinality(event.tags) = Len(list)
        /\ min = ToIdsMinScore => \A a \in event.attributes :
              a.to_ids <=> a.type \in MispDetectable

\* The three ways to read the graph agree: the neighbours, taken from the
\* edges of one node, are those in the whole graph and what a pivot of depth
\* one shows; and a pivot shows all of an attack chain no longer than its depth.
GraphViewsAgree ==
    LET K == DOMAIN edges IN
    \A ref \in Nodes(K) :
        /\ Neighbors(EdgesTouching(K, ref), ref) = Neighbors(K, ref)
        /\ {n.ref : n \in Neighbors(K, ref)} \cup {ref} = Pivot(K, ref, 1).nodes
        /\ \A to \in Nodes(K), depth \in 1..4 : \A p \in AttackChains(K, ref, to) :
              Len(p) <= depth + 1 => ToSet(p) \subseteq Pivot(K, ref, depth).nodes
============================================================================
