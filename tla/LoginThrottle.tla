---------------------------- MODULE LoginThrottle ----------------------------
(***************************************************************************)
(* The lockout of one identity after repeated failed logins:               *)
(* app/security/throttle.py (RedisLoginThrottle over its in-process        *)
(* fallback) as AuthService.authenticate uses it on several API replicas.   *)
(*                                                                         *)
(* Every Redis command is a step of its own, may fail before or after it   *)
(* took effect, and expires what it should by the clock of Redis.  Replicas *)
(* may die and start again with an empty fallback.  Identities share       *)
(* nothing, so one is enough.  Times are what remains of them, so the clock *)
(* needs no bound.                                                          *)
(***************************************************************************)
EXTENDS Integers, FiniteSets

CONSTANTS
  Attempts,     (* concurrent login requests                                *)
  Replicas,     (* API processes                                            *)
  MaxAttempts,  (* max_attempts                                             *)
  Lockout,      (* lockout_seconds, in clock ticks                          *)
  MaxFaults     (* bound: failed Redis commands and replica restarts        *)

ASSUME ThrottleAssumption ==
  /\ IsFiniteSet(Attempts)
  /\ MaxAttempts \in Nat \ {0, 1}
  /\ Lockout \in Nat \ {0}
  /\ MaxFaults \in Nat

VARIABLES
  count,    (* login_fail: its value, which is only compared with 1 and     *)
            (* MaxAttempts: it stops at MaxAttempts; 0 when there is no key  *)
  ttl,      (* time to live of login_fail, 0 while it has none              *)
  lock,     (* time to live of login_lock, 0 when there is no key           *)
  local,    (* of each replica: the fallback's failures and what remains of *)
            (* the lockout, which is set while failures >= MaxAttempts       *)
  pc,       (* of each request: what it does next                           *)
  home,     (* of each request: the replica that serves it                  *)
  faults,   (* faults so far                                                *)
  checked   (* history: wrong passwords verified since the last success,    *)
            (* end of a lock or end of a counter in Redis                    *)

redis == <<count, ttl, lock>>
vars == <<count, ttl, lock, local, pc, home, faults, checked>>

Steps == {"idle", "exists", "local", "verify", "incr", "expire", "set_lock",
          "delete", "issued"}

TypeOK ==
  /\ count \in 0..MaxAttempts
  /\ ttl \in 0..Lockout
  /\ lock \in 0..Lockout
  /\ local \in [Replicas -> [failures : Nat, left : 0..Lockout]]
  /\ pc \in [Attempts -> Steps]
  /\ home \in [Attempts -> Replicas]
  /\ faults \in 0..MaxFaults
  /\ checked \in Nat

Forgiven == [failures |-> 0, left |-> 0]

Init ==
  /\ count = 0 /\ ttl = 0 /\ lock = 0
  /\ local = [r \in Replicas |-> Forgiven]
  /\ pc = [a \in Attempts |-> "idle"]
  /\ home \in [Attempts -> Replicas]
  /\ faults = 0
  /\ checked = 0

Goto(a, step) == pc' = [pc EXCEPT ![a] = step]

-----------------------------------------------------------------------------
(* Any replica may get the next request.                                    *)
Ask(a) ==
  /\ pc[a] = "idle"
  /\ \E r \in Replicas : home' = [home EXCEPT ![a] = r]
  /\ Goto(a, "exists")
  /\ UNCHANGED <<count, ttl, lock, local, faults, checked>>

(* RedisLoginThrottle.is_locked: EXISTS answers, and a lock refuses.        *)
Exists(a) ==
  /\ pc[a] = "exists"
  /\ Goto(a, IF lock > 0 THEN "idle" ELSE "local")
  /\ UNCHANGED <<count, ttl, lock, local, home, faults, checked>>

LocalLock(r) == local[r].failures >= MaxAttempts

(* Mutants: the fallback is not asked; its lockout never ends.              *)
AskLocalNever(a) ==
  /\ pc[a] = "local"
  /\ Goto(a, "verify")
  /\ UNCHANGED <<count, ttl, lock, local, home, faults, checked>>

AskLocalForever(a) ==
  /\ pc[a] = "local"
  /\ Goto(a, IF LocalLock(home[a]) THEN "idle" ELSE "verify")
  /\ UNCHANGED <<count, ttl, lock, local, home, faults, checked>>

(* InMemoryLoginThrottle.is_locked, which nothing can interrupt; a lockout  *)
(* that has elapsed takes the failures with it.                             *)
AskLocal(a) ==
  LET r == home[a] IN
  /\ pc[a] = "local"
  /\ IF LocalLock(r) /\ local[r].left > 0
     THEN Goto(a, "idle") /\ UNCHANGED local
     ELSE /\ Goto(a, "verify")
          /\ local' = [local EXCEPT ![r] = IF LocalLock(r) THEN Forgiven ELSE @]
  /\ UNCHANGED <<count, ttl, lock, home, faults, checked>>

(* InMemoryLoginThrottle.record_failure                                     *)
Failed(entry) ==
  [failures |-> entry.failures + 1,
   left |-> IF entry.failures + 1 >= MaxAttempts THEN Lockout ELSE entry.left]

(* An unknown account or a wrong password; the fallback is told at once.    *)
VerifyWrong(a) ==
  /\ pc[a] = "verify"
  /\ local' = [local EXCEPT ![home[a]] = Failed(@)]
  /\ checked' = checked + 1
  /\ Goto(a, "incr")
  /\ UNCHANGED <<count, ttl, lock, home, faults>>

(* The right password of a disabled account counts neither way.             *)
VerifyInactive(a) ==
  /\ pc[a] = "verify"
  /\ Goto(a, "idle")
  /\ UNCHANGED <<count, ttl, lock, local, home, faults, checked>>

VerifyRight(a) ==
  /\ pc[a] = "verify"
  /\ local' = [local EXCEPT ![home[a]] = Forgiven]
  /\ Goto(a, "delete")
  /\ UNCHANGED <<count, ttl, lock, home, faults, checked>>

-----------------------------------------------------------------------------
(* The effects of the commands on the keys, and the steps after their       *)
(* replies.                                                                 *)
IncrEffect ==
  /\ count' = IF count < MaxAttempts THEN count + 1 ELSE count
  /\ UNCHANGED <<ttl, lock, checked>>

(* Mutants: the limit is off by one; the window starts at the second failure. *)
AfterIncrOneMore ==
  CASE count = 0 -> "expire"
    [] count + 1 > MaxAttempts -> "set_lock"
    [] OTHER -> "idle"

AfterIncrLate ==
  CASE count = 1 -> "expire"
    [] count + 1 >= MaxAttempts -> "set_lock"
    [] OTHER -> "idle"

AfterIncr ==
  CASE count = 0 -> "expire"
    [] count + 1 >= MaxAttempts -> "set_lock"
    [] OTHER -> "idle"

(* EXPIRE does nothing to a key that is gone.                               *)
ExpireEffect ==
  /\ ttl' = IF count > 0 THEN Lockout ELSE ttl
  /\ UNCHANGED <<count, lock, checked>>

(* Mutant: a time in another unit.                                          *)
SetLockEffectInMillis ==
  /\ lock' = 1000 * Lockout
  /\ UNCHANGED <<count, ttl, checked>>

SetLockEffect ==
  /\ lock' = Lockout
  /\ UNCHANGED <<count, ttl, checked>>

DeleteEffect ==
  /\ count' = 0 /\ ttl' = 0 /\ lock' = 0
  /\ checked' = 0

(* RedisLoginThrottle.record_failure and record_success, one command at a   *)
(* time.                                                                    *)
Incr(a) ==
  /\ pc[a] = "incr"
  /\ IncrEffect
  /\ Goto(a, AfterIncr)
  /\ UNCHANGED <<local, home, faults>>

Expire(a) ==
  /\ pc[a] = "expire"
  /\ ExpireEffect
  /\ Goto(a, "idle")
  /\ UNCHANGED <<local, home, faults>>

SetLock(a) ==
  /\ pc[a] = "set_lock"
  /\ SetLockEffect
  /\ Goto(a, "idle")
  /\ UNCHANGED <<local, home, faults>>

Delete(a) ==
  /\ pc[a] = "delete"
  /\ DeleteEffect
  /\ Goto(a, "issued")
  /\ UNCHANGED <<local, home, faults>>

Reply(a) ==
  /\ pc[a] = "issued"
  /\ Goto(a, "idle")
  /\ UNCHANGED <<count, ttl, lock, local, home, faults, checked>>

Unharmed == UNCHANGED <<count, ttl, lock, checked>>

(* A command that raises, with or without its effect: is_locked falls back  *)
(* to the process, record_failure gives up the rest of its commands, and    *)
(* record_success leaves what it could not delete; the login goes on.       *)
CommandFails(a) ==
  /\ faults < MaxFaults
  /\ faults' = faults + 1
  /\ \/ pc[a] = "exists" /\ Unharmed /\ Goto(a, "local")
     \/ pc[a] = "incr" /\ (IncrEffect \/ Unharmed) /\ Goto(a, "idle")
     \/ pc[a] = "expire" /\ (ExpireEffect \/ Unharmed) /\ Goto(a, "idle")
     \/ pc[a] = "set_lock" /\ (SetLockEffect \/ Unharmed) /\ Goto(a, "idle")
     \/ pc[a] = "delete" /\ (DeleteEffect \/ Unharmed) /\ Goto(a, "issued")
  /\ UNCHANGED <<local, home>>

(* A replica dies with its requests and its fallback.                       *)
Restart(r) ==
  /\ faults < MaxFaults
  /\ faults' = faults + 1
  /\ local' = [local EXCEPT ![r] = Forgiven]
  /\ pc' = [a \in Attempts |-> IF home[a] = r THEN "idle" ELSE pc[a]]
  /\ UNCHANGED <<count, ttl, lock, home, checked>>

(* Keys expire with the last tick of their time to live.                    *)
Less(left) == IF left > 0 THEN left - 1 ELSE 0

Tick ==
  /\ ttl' = Less(ttl)
  /\ count' = IF ttl = 1 THEN 0 ELSE count
  /\ lock' = Less(lock)
  /\ checked' = IF ttl = 1 \/ lock = 1 THEN 0 ELSE checked
  /\ local' = [r \in Replicas |-> [local[r] EXCEPT !.left = Less(@)]]
  /\ UNCHANGED <<pc, home, faults>>

Step(a) ==
  \/ Exists(a) \/ AskLocal(a) \/ VerifyWrong(a) \/ VerifyInactive(a)
  \/ VerifyRight(a) \/ Incr(a) \/ Expire(a) \/ SetLock(a) \/ Delete(a) \/ Reply(a)

Next ==
  \/ \E a \in Attempts : Ask(a) \/ Step(a) \/ CommandFails(a)
  \/ \E r \in Replicas : Restart(r)
  \/ Tick

(* Requests are served, and time passes.                                    *)
Spec ==
  /\ Init /\ [][Next]_vars
  /\ \A a \in Attempts : WF_vars(Step(a))
  /\ WF_vars(Tick)

-----------------------------------------------------------------------------
Overshoot == MaxAttempts - 1 + Cardinality(Attempts)

(* A replica never checks an unlimited number of passwords in a row,        *)
(* whatever Redis does (throttle.py:91): the requests that were past the     *)
(* check when the limit was reached are all that can exceed it.             *)
ReplicaStaysLimited == \A r \in Replicas : local[r].failures <= Overshoot

(* Without faults the same limit holds for the whole fleet together, though *)
(* no replica alone has seen that many failures (throttle.py:4).            *)
FleetStaysLimited == faults = 0 => checked <= Overshoot

(* "Expire the window on first failure so counts do not live forever"       *)
(* (throttle.py:141): a counter without a time to live is one whose EXPIRE   *)
(* is still to come, unless a command or a replica failed between the two.  *)
CountersExpire ==
  faults = 0 /\ count > 0 /\ ttl = 0 => \E a \in Attempts : pc[a] = "expire"

(* Lockouts end everywhere: once only the owner of the account logs in and  *)
(* keeps trying, logins succeed again and again, whatever counters and      *)
(* locks earlier failures and lost commands left behind.                    *)
OnlyOwner == \A a \in Attempts : pc[a] \notin {"incr", "expire", "set_lock"}

OwnerGetsIn ==
  /\ <>[]OnlyOwner
  /\ []<><<\E a \in Attempts : Ask(a)>>_vars
  /\ <>[][~\E a \in Attempts : VerifyInactive(a)]_vars
  => []<>(\E a \in Attempts : pc[a] = "issued")
==============================================================================
