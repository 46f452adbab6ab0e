------------------------------ MODULE Scoring ------------------------------
(***************************************************************************)
(* The threat score of app/scoring/engine.py, and the signals that         *)
(* app/enrichment/engine.py feeds it with.  A signal in [0, 1] is counted  *)
(* in 700ths, which all its values but two are whole multiples of; the     *)
(* exponential and the logarithm are given, rounded, as functions.         *)
(***************************************************************************)
EXTENDS Integers

CONSTANTS
    Decay,      \* Decay[age]: recency_score, by age in days
    Growth,     \* Growth[n]: log1p(n) / log1p(20)
    MaxAge,     \* bound on ages
    HighRiskGeos \* country codes; "none" stands for no country

Unit == 700
Signal == 0..Unit
Saturation == 20

ASSUME ScoringAssumption ==
    /\ MaxAge \in Nat
    /\ "none" \notin HighRiskGeos
    /\ Decay \in [0..MaxAge -> Signal]
    /\ Decay[0] = Unit
    /\ \A a, b \in 0..MaxAge : a <= b => Decay[b] <= Decay[a]
    /\ Growth \in [0..Saturation -> Signal]
    /\ \A m, n \in 0..Saturation : m <= n => Growth[m] <= Growth[n]

Weight == [source_reputation |-> 22, detection_ratio |-> 20,
           blacklist_presence |-> 14, confidence |-> 12, recency |-> 10,
           frequency |-> 8, geo_risk |-> 6, port_risk |-> 5,
           historical_activity |-> 3]

Signals == [DOMAIN Weight -> Signal]

----------------------------------------------------------------------------
(* The engine                                                              *)

\* round(): to the nearest, ties to the even one.
Rounded(sum) ==
    LET q == sum \div Unit
        r == sum % Unit IN
    IF 2 * r > Unit \/ (2 * r = Unit /\ q % 2 = 1) THEN q + 1 ELSE q

\* What each signal contributes, in 700ths of a point.
Contribution(s) == [name \in DOMAIN Weight |-> Weight[name] * s[name]]

Total(c) ==
    c.source_reputation + c.detection_ratio + c.blacklist_presence + c.confidence
        + c.recency + c.frequency + c.geo_risk + c.port_risk + c.historical_activity

Score(s) == Rounded(Total(Contribution(s)))

Level(score) ==
    CASE score >= 85 -> "critical"
      [] score >= 65 /\ score < 85 -> "high"
      [] score >= 40 /\ score < 65 -> "medium"
      [] score >= 15 /\ score < 40 -> "low"
      [] OTHER -> "clean"

----------------------------------------------------------------------------
(* The signals of an indicator                                             *)

Least(m, n) == IF m <= n THEN m ELSE n

\* mutant of SourceReputation: two sources saturate it, not four.
SourceReputationAtTwo(sources) == Least(Unit, sources * (Unit \div 2))

SourceReputation(sources) == Least(Unit, sources * (Unit \div 4))

\* signals_from: what an enrichment, the source's standing, the confidence it
\* claims (in fifths), the sightings and the age of an indicator amount to.
\* upsert never passes open_ports, so that signal is always zero.
SignalsFrom(enrichment, reputable, confidence, sightings, age) ==
    [source_reputation |-> SourceReputation(IF reputable THEN 2 ELSE 1),
     detection_ratio |-> enrichment.detected * (Unit \div 70),
     blacklist_presence |-> IF reputable THEN Unit ELSE 0,
     confidence |-> confidence * (Unit \div 5),
     recency |-> Decay[age],
     frequency |-> Growth[Least(sightings, Saturation)],
     geo_risk |-> IF enrichment.country \in HighRiskGeos THEN Unit ELSE 0,
     port_risk |-> 0,
     historical_activity |-> Least(Unit, sightings * (Unit \div 50))]
============================================================================
