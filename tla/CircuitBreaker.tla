---------------------------- MODULE CircuitBreaker ----------------------------
(***************************************************************************)
(* A collector's calls to its provider: the circuit breaker and the retry  *)
(* loop of app/core/resilience.py as app/collectors/http.py uses them, and *)
(* the fallback to samples of app/collectors/common.py.                    *)
(*                                                                         *)
(* One breaker guards a provider for all the requests of an API process.   *)
(* A call is admitted under the breaker's lock, runs without it, and        *)
(* reports its result under the lock again, so a result may be about a      *)
(* state of the breaker that is long gone.                                  *)
(***************************************************************************)
EXTENDS Integers

CONSTANTS
  Callers,    (* concurrent requests that run the collector                 *)
  Threshold,  (* failure_threshold                                          *)
  Recovery,   (* recovery_timeout, in clock ticks                           *)
  Attempts    (* attempts of async_retry around one HTTP request            *)

ASSUME BreakerAssumption ==
  /\ Threshold \in Nat \ {0}
  /\ Recovery \in Nat \ {0}
  /\ Attempts \in Nat \ {0}

VARIABLES
  state,     (* CircuitState                                                *)
  failures,  (* _failures, which is only compared with the threshold: it    *)
             (* stops at Threshold here                                     *)
  since,     (* clock() - _opened_at, up to Recovery                        *)
  probe,     (* _probe_in_flight                                            *)
  up,        (* whether the provider answers with usable JSON               *)
  pc,        (* of each caller: idle, calling, request, result              *)
  attempt,   (* of each caller: attempts made for the current request       *)
  good,      (* of each caller: the request returned usable JSON            *)
  fresh      (* history: admitted callers whose result will find the        *)
             (* breaker in the very state that admitted them                *)

breaker == <<state, failures, since, probe>>
vars == <<state, failures, since, probe, up, pc, attempt, good, fresh>>

TypeOK ==
  /\ state \in {"closed", "open", "half_open"}
  /\ failures \in 0..Threshold
  /\ since \in 0..Recovery
  /\ probe \in BOOLEAN
  /\ up \in BOOLEAN
  /\ pc \in [Callers -> {"idle", "calling", "request", "result"}]
  /\ attempt \in [Callers -> 0..Attempts]
  /\ good \in [Callers -> BOOLEAN]
  /\ fresh \subseteq Callers

Init ==
  /\ state = "closed" /\ failures = 0 /\ since = 0 /\ probe = FALSE
  /\ up \in BOOLEAN
  /\ pc = [c \in Callers |-> "idle"]
  /\ attempt = [c \in Callers |-> 0]
  /\ good = [c \in Callers |-> FALSE]
  /\ fresh = {}

-----------------------------------------------------------------------------
InFlight(c) == pc[c] \in {"request", "result"}

(* Live collection starts; the breaker is asked next.                       *)
Collect(c) ==
  /\ pc[c] = "idle"
  /\ pc' = [pc EXCEPT ![c] = "calling"]
  /\ UNCHANGED <<state, failures, since, probe, up, attempt, good, fresh>>

Admit(c) ==
  /\ pc' = [pc EXCEPT ![c] = "request"]
  /\ attempt' = [attempt EXCEPT ![c] = 0]
  /\ UNCHANGED <<failures, since, up, good>>

(* _can_attempt.  A closed circuit admits every call; otherwise the call    *)
(* becomes the probe once the timeout is over and no probe is in flight.    *)
AdmitClosed(c) ==
  /\ pc[c] = "calling" /\ state = "closed"
  /\ Admit(c)
  /\ fresh' = fresh \cup {c}
  /\ UNCHANGED <<state, probe>>

(* Mutant of MayProbe: the probe in flight is not looked at.                *)
MayProbeTwice ==
  \/ state = "open" /\ since >= Recovery
  \/ state = "half_open"

MayProbe ==
  \/ state = "open" /\ since >= Recovery
  \/ state = "half_open" /\ ~probe

AdmitProbe(c) ==
  /\ pc[c] = "calling" /\ MayProbe
  /\ Admit(c)
  /\ state' = "half_open" /\ probe' = TRUE
  /\ fresh' = IF state = "open" THEN {c} ELSE fresh \cup {c}

(* CircuitOpenError: the collector serves its samples.                      *)
Refuse(c) ==
  /\ pc[c] = "calling" /\ state # "closed" /\ ~MayProbe
  /\ pc' = [pc EXCEPT ![c] = "idle"]
  /\ UNCHANGED <<state, failures, since, probe, up, attempt, good, fresh>>

(* One HTTP attempt.  A provider that is down answers with an error status  *)
(* or unusable JSON, which ends the request, or not at all, which is tried  *)
(* again after a pause until the attempts are used up.                      *)
Ends(c, result) ==
  /\ pc' = [pc EXCEPT ![c] = "result"]
  /\ good' = [good EXCEPT ![c] = result]
  /\ UNCHANGED <<state, failures, since, probe, up, attempt, fresh>>

Answer(c) == pc[c] = "request" /\ Ends(c, up)

(* Mutants of Retry: one attempt too many; attempts without an end.         *)
RetryOnceMore(c) ==
  /\ pc[c] = "request" /\ ~up /\ attempt[c] <= Attempts
  /\ attempt' = [attempt EXCEPT ![c] = @ + 1]
  /\ UNCHANGED <<state, failures, since, probe, up, pc, good, fresh>>

RetryForEver(c) ==
  /\ pc[c] = "request" /\ ~up
  /\ attempt' = [attempt EXCEPT ![c] = 1 - @]
  /\ UNCHANGED <<state, failures, since, probe, up, pc, good, fresh>>

Retry(c) ==
  /\ pc[c] = "request" /\ ~up /\ attempt[c] + 1 < Attempts
  /\ attempt' = [attempt EXCEPT ![c] = @ + 1]
  /\ UNCHANGED <<state, failures, since, probe, up, pc, good, fresh>>

GiveUp(c) ==
  /\ pc[c] = "request" /\ ~up /\ attempt[c] + 1 = Attempts
  /\ Ends(c, FALSE)

-----------------------------------------------------------------------------
Reported(c) ==
  /\ pc' = [pc EXCEPT ![c] = "idle"]
  /\ UNCHANGED <<up, attempt, good>>

(* Mutants of RecordSuccess: the failures are not forgotten; a probe's      *)
(* success does not close the circuit.                                      *)
RecordSuccessKeepsCount(c) ==
  /\ pc[c] = "result" /\ good[c]
  /\ state' = "closed" /\ probe' = FALSE
  /\ fresh' = IF state = "closed" THEN fresh \ {c} ELSE {}
  /\ UNCHANGED <<failures, since>>
  /\ Reported(c)

RecordSuccessKeepsState(c) ==
  /\ pc[c] = "result" /\ good[c]
  /\ failures' = 0
  /\ fresh' = fresh \ {c}
  /\ UNCHANGED <<state, probe, since>>
  /\ Reported(c)

RecordSuccess(c) ==
  /\ pc[c] = "result" /\ good[c]
  /\ failures' = 0 /\ state' = "closed" /\ probe' = FALSE
  /\ fresh' = IF state = "closed" THEN fresh \ {c} ELSE {}
  /\ UNCHANGED since
  /\ Reported(c)

Counted == IF failures < Threshold THEN failures + 1 ELSE Threshold

Trips == state = "half_open" \/ Counted >= Threshold

(* The failure opens the circuit (again: a late failure of an open circuit  *)
(* starts its timeout anew) or is only counted.                             *)
RecordFailure(c) ==
  /\ pc[c] = "result" /\ ~good[c]
  /\ failures' = Counted
  /\ probe' = FALSE
  /\ state' = IF Trips THEN "open" ELSE state
  /\ since' = IF Trips THEN 0 ELSE since
  /\ fresh' = IF Trips THEN {} ELSE fresh \ {c}
  /\ Reported(c)

(* The clock; it matters while the circuit is open.                         *)
Tick ==
  /\ state = "open" /\ since < Recovery
  /\ since' = since + 1
  /\ UNCHANGED <<state, failures, probe, up, pc, attempt, good, fresh>>

(* The provider fails and recovers as it likes.                             *)
Provider ==
  /\ up' = ~up
  /\ UNCHANGED <<state, failures, since, probe, pc, attempt, good, fresh>>

Work(c) ==
  \/ AdmitClosed(c) \/ AdmitProbe(c) \/ Refuse(c)
  \/ Answer(c) \/ Retry(c) \/ GiveUp(c)
  \/ RecordSuccess(c) \/ RecordFailure(c)

Next ==
  \/ \E c \in Callers : Collect(c) \/ Work(c)
  \/ Tick
  \/ Provider

Spec == Init /\ [][Next]_vars

(* A call that has started goes on (requests have timeouts and the lock is  *)
(* only held between awaits), and time passes.  Nobody has to call.         *)
FairSpec == Spec /\ WF_vars(Tick) /\ \A c \in Callers : WF_vars(Work(c))

-----------------------------------------------------------------------------
(* The three fields of the breaker agree: a closed circuit has failures to  *)
(* spare, any other has none, and the probe flag is up exactly while the    *)
(* circuit is half open, whatever late results were reported.               *)
FieldsAgree ==
  /\ (state = "closed") <=> (failures < Threshold)
  /\ probe <=> (state = "half_open")

(* A half-open circuit waits for exactly one request that it admitted       *)
(* itself and that is still in flight, so its report will come; an open one *)
(* has admitted nobody.  Reports of older requests may still come too.      *)
ProbeIsOutstanding ==
  /\ \A c \in fresh : InFlight(c)
  /\ state = "half_open" => \E c \in fresh : fresh = {c}
  /\ state = "open" => fresh = {}

(* A half-open circuit, in which every other call is refused, is left again.*)
HalfOpenEnds == state = "half_open" ~> state # "half_open"

(* A collector run ends, by an answer, a refusal or the end of its retries. *)
CollectEnds == \A c \in Callers : pc[c] = "calling" ~> pc[c] = "idle"

(* Once the provider has recovered for good, and as long as somebody runs   *)
(* the collector now and then, the circuit closes and stays closed.         *)
Recovers ==
  (<>[]up /\ []<><<\E c \in Callers : Collect(c)>>_vars)
    => <>[](state = "closed")

=============================================================================
