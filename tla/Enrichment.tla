----------------------------- MODULE Enrichment -----------------------------
(***************************************************************************)
(* What the platform looks up about an indicator, and what it may contact  *)
(* to do so: app/enrichment/engine.py, app/enrichment/enrichers.py and     *)
(* app/core/ssrf.py.  A configuration cfg has the fields live              *)
(* (enable_live_collectors), allowed (outbound_allowed_hosts) and keyed    *)
(* (the providers a key is set for).  A resolver answers a name with a     *)
(* record: ok, and the addresses ips.                                      *)
(***************************************************************************)
EXTENDS Recognition

CONSTANTS
    Inside,     \* Inside[h]: h in lower case and the domains h is inside of
    Global,     \* addresses the address library calls global
    Flagged,    \* addresses it calls private, reserved, multicast, ...
    Country,    \* Country[a]: what the offline geolocation makes of a
    Detected    \* Detected[w]: detections, of 70, that the offline reputation
                \* makes of host or hash w

ASSUME EnrichmentAssumption ==
    /\ Inside \in [Word -> SUBSET Word]
    /\ Global \subseteq Word /\ Flagged \subseteq Word
    /\ DOMAIN Country = Word
    /\ Detected \in [Word -> 0..69]

----------------------------------------------------------------------------
(* The guard                                                               *)

IpIsPublic(a) == a \in Global /\ a \notin Flagged

HostAllowed(cfg, h) == cfg.allowed = {} \/ Inside[h] \cap cfg.allowed # {}

IsAddress(h) == HostType(h) # "domain-name"

\* validate, of a URL to host h: what is checked before the name is looked up,
Admits(cfg, scheme, h) ==
    /\ scheme \in {"http", "https"}
    /\ HostAllowed(cfg, h)
    /\ IsAddress(h) => IpIsPublic(h)

\* and of the answer: one address that is not public refuses the URL.
Validates(cfg, scheme, h, answer) ==
    Admits(cfg, scheme, h) /\ answer.ok /\ \A a \in answer.ips : IpIsPublic(a)

ResolvePublic(answer) == {a \in answer.ips : IpIsPublic(a)}

----------------------------------------------------------------------------
(* The enrichers                                                           *)

NoEnrichment == [country |-> "none", detected |-> 0, resolved |-> {}]

\* mutant of AsksResolver: the policy of the server is not asked.
AsksResolverAnyway(cfg, h) == HostAllowed(cfg, h)

\* Name resolution is the only look-up that leaves the machine.
AsksResolver(cfg, h) == cfg.live /\ HostAllowed(cfg, h)

\* A refused, failed or offline resolution resolves to nothing.
Resolved(cfg, h, answer) ==
    IF AsksResolver(cfg, h) /\ answer.ok THEN ResolvePublic(answer) ELSE {}

\* Geolocation and reputation, which need no network: no name, no country.
Facets(i) ==
    IF i.type \in Hashes THEN [NoEnrichment EXCEPT !.detected = Detected[i.value]]
    ELSE IF ~HasHost(i) THEN NoEnrichment
    ELSE [NoEnrichment EXCEPT !.country = IF IsAddress(HostOf(i)) THEN Country[HostOf(i)] ELSE "none",
                              !.detected = Detected[HostOf(i)]]

\* mutant of Enrich: a look-up that fails fails the whole enrichment.
EnrichIfResolved(cfg, i, answer) == IF answer.ok THEN Facets(i) ELSE NoEnrichment

Enrich(cfg, i, answer) ==
    [Facets(i) EXCEPT !.resolved = IF HasHost(i) THEN Resolved(cfg, HostOf(i), answer) ELSE {}]
============================================================================
