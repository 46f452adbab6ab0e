---------------------------- MODULE AdminAccounts ----------------------------
(***************************************************************************)
(* User administration and API keys: the admin part of                     *)
(* app/services/auth_service.py, the authorisation of app/api/deps.py and  *)
(* the script that makes the first administrator.                          *)
(*                                                                         *)
(* A slot is a request being served with its own transaction (PostgreSQL,  *)
(* READ COMMITTED); with one slot the requests come one after the other.   *)
(* One step is the code between two SQL statements.  Requests that are     *)
(* denied write nothing and are not modelled.                              *)
(***************************************************************************)
EXTENDS Integers, FiniteSets

CONSTANTS
  Users,    (* accounts                                                     *)
  Keys,     (* API keys that are ever minted                                *)
  Slots,    (* requests that are served at the same time                    *)
  Roles,    (* "admin" and the roles without admin:manage                   *)
  Nobody    (* SQL NULL, and "no key", "no actor"                           *)

Statuses == {"active", "disabled"}

Account == [role : Roles, status : Statuses]

Key == [owner : Users, role : Roles, status : Statuses]

Operation ==
  [op : {"set_role"}, target : Users, value : Roles]
    \cup [op : {"set_active"}, target : Users, value : Statuses]
    \cup [op : {"mint", "revoke"}, target : Keys, value : {Nobody}]
    \cup [op : {"script"}, target : Users, value : {Nobody}]

ASSUME AdminAssumption ==
  /\ IsFiniteSet(Users)
  /\ "admin" \in Roles
  /\ Nobody \notin Users \cup Keys \cup Key \cup Operation
  /\ Users \cap Keys = {}

VARIABLES
  account,    (* committed rows of users                                    *)
  key,        (* committed rows of api_keys: Keys -> Key or Nobody          *)
  told,       (* the change that the newest entry of the audit log records  *)
  pc,         (* of each slot: idle, owner, read, count, write, commit      *)
  request,    (* of each slot: the operation it serves                      *)
  actor, via, (* of each slot: the principal, and the API key it presented  *)
  seen,       (* of each slot: role and status of the row the handler read  *)
  holds,      (* of each slot: the rows its transaction has locked          *)
  overlapped  (* history: another transaction committed during the request  *)

vars == <<account, key, told, pc, request, actor, via, seen, holds,
          overlapped>>

-----------------------------------------------------------------------------
IsAdmin(a) == a.role = "admin" /\ a.status = "active"

(* The accounts that count_active_with_role("admin") counts.                *)
Admins == {u \in Users : IsAdmin(account[u])}

Administrative(o) == o.op \in {"set_role", "set_active"}

(* The row of users or api_keys that the request of s writes.               *)
Target(s) == request[s].target

HeldByOther(s, row) == \E t \in Slots \ {s} : row \in holds[t]

TypeOK ==
  /\ account \in [Users -> Account]
  /\ key \in [Keys -> Key \cup {Nobody}]
  /\ told \in Operation \cup {Nobody}
  /\ pc \in [Slots -> {"idle", "owner", "read", "count", "write", "commit"}]
  /\ request \in [Slots -> Operation \cup {Nobody}]
  /\ actor \in [Slots -> Users \cup {Nobody}]
  /\ via \in [Slots -> Keys \cup {Nobody}]
  /\ seen \in [Slots -> Account \cup {Nobody}]
  /\ holds \in [Slots -> SUBSET (Users \cup Keys)]
  /\ overlapped \in [Slots -> BOOLEAN]
  /\ \A s \in Slots : pc[s] # "idle" => request[s] \in Operation

Init ==
  /\ account \in [Users -> Account] /\ Admins # {}
  /\ key = [k \in Keys |-> Nobody]
  /\ told = Nobody
  /\ pc = [s \in Slots |-> "idle"]
  /\ request = [s \in Slots |-> Nobody]
  /\ actor = [s \in Slots |-> Nobody]
  /\ via = [s \in Slots |-> Nobody]
  /\ seen = [s \in Slots |-> Nobody]
  /\ holds = [s \in Slots |-> {}]
  /\ overlapped = [s \in Slots |-> FALSE]

-----------------------------------------------------------------------------
Begin(s, o, a, k, next) ==
  /\ pc[s] = "idle"
  /\ pc' = [pc EXCEPT ![s] = next]
  /\ request' = [request EXCEPT ![s] = o]
  /\ actor' = [actor EXCEPT ![s] = a]
  /\ via' = [via EXCEPT ![s] = k]
  /\ seen' = [seen EXCEPT ![s] = Nobody]
  /\ overlapped' = [overlapped EXCEPT ![s] = FALSE]
  /\ UNCHANGED <<account, key, told, holds>>

(* A key is new to its request.                                             *)
Fresh(k) ==
  key[k] = Nobody /\ \A s \in Slots : pc[s] # "idle" => request[s].target # k

Askable(o) ==
  /\ o.op # "script"
  /\ o.op = "mint" => Fresh(o.target)

(* A bearer token: role and state are those of the account row.             *)
Bearer(s, o, u) ==
  /\ Askable(o)
  /\ account[u].status = "active"
  /\ Administrative(o) => account[u].role = "admin"
  /\ Begin(s, o, u, Nobody, "read")

(* An X-API-Key: the key row is read first; the role is the key's.          *)
ApiKey(s, o, k) ==
  /\ Askable(o)
  /\ key[k] # Nobody /\ key[k].status = "active"
  /\ Administrative(o) => key[k].role = "admin"
  /\ Begin(s, o, key[k].owner, k, "owner")

(* python -m app.scripts.create_admin for an existing account.              *)
Script(s, u) ==
  Begin(s, [op |-> "script", target |-> u, value |-> Nobody], Nobody, Nobody,
        "read")

Goes(s, next) ==
  /\ pc' = [pc EXCEPT ![s] = next]
  /\ UNCHANGED <<account, key, told, request, actor, via, overlapped>>

(* Mutant of Ends: the connection keeps its locks.                          *)
EndsLocked(s) ==
  /\ pc' = [pc EXCEPT ![s] = "idle"]
  /\ request' = [request EXCEPT ![s] = Nobody]
  /\ actor' = [actor EXCEPT ![s] = Nobody]
  /\ via' = [via EXCEPT ![s] = Nobody]
  /\ seen' = [seen EXCEPT ![s] = Nobody]
  /\ UNCHANGED holds

(* The transaction of s is over: its locks are released.                    *)
Ends(s) ==
  /\ pc' = [pc EXCEPT ![s] = "idle"]
  /\ request' = [request EXCEPT ![s] = Nobody]
  /\ actor' = [actor EXCEPT ![s] = Nobody]
  /\ via' = [via EXCEPT ![s] = Nobody]
  /\ seen' = [seen EXCEPT ![s] = Nobody]
  /\ holds' = [holds EXCEPT ![s] = {}]

RolledBack(s) ==
  /\ Ends(s)
  /\ overlapped' = [overlapped EXCEPT ![s] = FALSE]
  /\ UNCHANGED <<account, key, told>>

(* ... then its owner, who must be enabled.                                 *)
Owner(s) ==
  /\ pc[s] = "owner"
  /\ IF account[actor[s]].status = "active"
       THEN Goes(s, "read") /\ UNCHANGED <<seen, holds>>
       ELSE RolledBack(s)

Mine(s, k) == key[k] # Nobody /\ key[k].owner = actor[s]

(* What the handler reads: the target, or the owner of the key to mint.     *)
RowRead(s) ==
  CASE request[s].op = "mint"   -> account[actor[s]]
    [] request[s].op = "revoke" -> [role   |-> key[Target(s)].role,
                                    status |-> key[Target(s)].status]
    [] OTHER                    -> account[Target(s)]

Demotes(o) == o.op = "set_role" /\ o.value # "admin"
Disables(o) == o.op = "set_active" /\ o.value = "disabled"
Removes(o) == Demotes(o) \/ Disables(o)

SelfRemoval(s) == Removes(request[s]) /\ Target(s) = actor[s]

(* The use of a key is noted first (last_used_at), which locks its row:     *)
(* requests with one key take turns.                                        *)
Reachable(s) == via[s] # Nobody => ~HeldByOther(s, via[s])

(* get_user (or get_for_user) and the checks that need no query.            *)
Read(s) ==
  /\ pc[s] = "read" /\ Reachable(s)
  /\ IF (request[s].op = "revoke" /\ ~Mine(s, Target(s))) \/ SelfRemoval(s)
       THEN RolledBack(s)
       ELSE /\ seen' = [seen EXCEPT ![s] = RowRead(s)]
            /\ holds' = [holds EXCEPT ![s] = @ \cup ({via[s]} \ {Nobody})]
            /\ Goes(s, IF Removes(request[s]) /\ RowRead(s).role = "admin"
                         THEN "count" ELSE "write")

(* Mutant of Last: off by one.                                              *)
LastOffByOne(s) == pc[s] = "count" /\ Cardinality(Admins) < 1

(* "Refusing to demote (deactivate) the last active admin."                 *)
Last(s) == pc[s] = "count" /\ Cardinality(Admins) <= 1

RefuseLast(s) == Last(s) /\ RolledBack(s)

Count(s) ==
  /\ pc[s] = "count" /\ ~Last(s)
  /\ Goes(s, "write")
  /\ UNCHANGED <<seen, holds>>

(* An UPDATE is sent if it changes the row that was read (the script always *)
(* sets a password), and locks the row.                                     *)
Updates(s) ==
  CASE request[s].op = "set_role"   -> request[s].value # seen[s].role
    [] request[s].op = "set_active" -> request[s].value # seen[s].status
    [] request[s].op = "revoke"     -> seen[s].status = "active"
    [] request[s].op = "script"     -> TRUE
    [] OTHER                        -> FALSE

Write(s) ==
  /\ pc[s] = "write"
  /\ Updates(s) => ~HeldByOther(s, Target(s))
  /\ holds' = [holds EXCEPT ![s] =
                 IF Updates(s) THEN @ \cup {Target(s)} ELSE @]
  /\ UNCHANGED seen
  /\ Goes(s, "commit")

-----------------------------------------------------------------------------
(* Mutant of Written: the new status lands in the wrong column.             *)
WrittenAcross(o, old, a) ==
  CASE o.op = "set_role"   -> [a EXCEPT !.role = o.value]
    [] o.op = "set_active" -> [a EXCEPT !.role = o.value]
    [] OTHER               -> a

(* Row a of users after the transaction: only the columns that differ from  *)
(* what was read are written.                                               *)
Written(o, old, a) ==
  CASE o.op = "set_role" /\ o.value # old.role     -> [a EXCEPT !.role = o.value]
    [] o.op = "set_active" /\ o.value # old.status -> [a EXCEPT !.status = o.value]
    [] o.op = "script" ->
         [role   |-> IF old.role = "admin" THEN a.role ELSE "admin",
          status |-> IF old.status = "active" THEN a.status ELSE "active"]
    [] OTHER -> a

WrittenKey(s) ==
  CASE request[s].op = "mint" ->
         [owner |-> actor[s], role |-> seen[s].role, status |-> "active"]
    [] request[s].op = "revoke" ->
         [key[Target(s)] EXCEPT !.status = "disabled"]
    [] OTHER -> key[Target(s)]

(* Mutant of Audited: the log entry of set_user_active is forgotten.        *)
AuditedRoles(o, newest) == IF o.op = "set_role" THEN o ELSE newest

(* The newest audit entry about an account once o has been recorded: the    *)
(* script records nothing.                                                  *)
Audited(o, newest) == IF Administrative(o) THEN o ELSE newest

Commit(s) ==
  /\ pc[s] = "commit"
  /\ IF Target(s) \in Keys
       THEN /\ key' = [key EXCEPT ![Target(s)] = WrittenKey(s)]
            /\ UNCHANGED <<account, told>>
       ELSE /\ account' = [account EXCEPT ![Target(s)] =
                             Written(request[s], seen[s], @)]
            /\ told' = Audited(request[s], told)
            /\ UNCHANGED key
  /\ overlapped' = [t \in Slots |-> t # s /\ (overlapped[t] \/ pc[t] # "idle")]
  /\ Ends(s)

(* The request is aborted: cancelled, or its connection is lost.            *)
Abort(s) == pc[s] # "idle" /\ RolledBack(s)

(* The slots s waits for, directly.                                         *)
WaitsFor(s) ==
  {t \in Slots \ {s} :
     \/ pc[s] = "read" /\ via[s] \in holds[t]
     \/ pc[s] = "write" /\ Updates(s) /\ Target(s) \in holds[t]}

(* PostgreSQL ends one request of a circle with an error.                   *)
DeadlockVictim(s) ==
  /\ \E S \in SUBSET Slots : s \in S /\ UNION {WaitsFor(t) : t \in S} = S
  /\ RolledBack(s)

Serve(s) ==
  \/ Owner(s) \/ Read(s) \/ RefuseLast(s) \/ Count(s) \/ Write(s) \/ Commit(s)
  \/ DeadlockVictim(s)

Arrive(s) ==
  \/ \E o \in Operation :
       (\E u \in Users : Bearer(s, o, u)) \/ (\E k \in Keys : ApiKey(s, o, k))
  \/ \E u \in Users : Script(s, u)

Next == \E s \in Slots : Arrive(s) \/ Serve(s) \/ Abort(s)

Spec == Init /\ [][Next]_vars

(* A request that has begun goes on: the event loop runs its handler, and   *)
(* the database answers unless a row is locked.  A handler that waits for a  *)
(* row gets it after finitely many others.                                  *)
FairSpec == Spec /\ \A s \in Slots : SF_vars(Serve(s))

-----------------------------------------------------------------------------
(* An API request never leaves the installation without an active           *)
(* administrator, if no other transaction committed while it was served.    *)
LastAdminFallsOnlyToOverlap ==
  [][Admins # {} /\ Admins' = {} =>
       \E s \in Slots : pc[s] = "commit" /\ overlapped[s]]_vars

(* There is always an active administrator.  The code guarantees it if the  *)
(* requests come one after the other; README.md:188 says it without an if.  *)
AdminRemains == Admins # {}

(* An account loses a role or its access only together with an audit entry  *)
(* of that very change, even if the request works on a row that others have *)
(* changed since: what the log does not tell, the script's work, is a gain. *)
LossIsAudited ==
  [][\A u \in Users :
       /\ account'[u].role \notin {account[u].role, "admin"}
            => told' = [op |-> "set_role", target |-> u,
                        value |-> account'[u].role]
       /\ account'[u].status \notin {account[u].status, "active"}
            => told' = [op |-> "set_active", target |-> u,
                        value |-> account'[u].status]]_vars

(* Requests that share an API key, or revoke one another's, do not block    *)
(* each other for ever.                                                     *)
RequestsEnd == \A s \in Slots : pc[s] # "idle" ~> pc[s] = "idle"

=============================================================================
