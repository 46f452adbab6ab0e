---------------------------- MODULE AuthSessions ----------------------------
(***************************************************************************)
(* Sessions made of tokens: login, refresh and logout of                   *)
(* app/services/auth_service.py, the tokens of app/security/tokens.py, the *)
(* revocation store of app/security/token_store.py, and the check that      *)
(* app/api/deps.py makes for every call with a bearer token.               *)
(*                                                                         *)
(* Each await is a boundary between steps; a request may fail at any, with *)
(* or without the effect of its Redis command.  Whether a login may be     *)
(* tried at all is the business of LoginThrottle.  One account is enough,  *)
(* for accounts share nothing.  Times are what remains of them, in ticks   *)
(* of which Second make a second, so that it matters where the code rounds. *)
(***************************************************************************)
EXTENDS Integers, FiniteSets

CONSTANTS
  Requests,     (* concurrent requests                                      *)
  Access,       (* identifiers of access tokens, used again once forgotten  *)
  Refresh,      (* identifiers of refresh tokens, likewise                  *)
  NoToken,      (* no token was sent                                        *)
  Second,       (* ticks of a second                                        *)
  AccessLife,   (* access_ttl, in seconds                                   *)
  RefreshLife   (* refresh_ttl, in seconds                                  *)

ASSUME SessionAssumption ==
  /\ Access \cap Refresh = {}
  /\ NoToken \notin Access \cup Refresh
  /\ Second \in Nat \ {0}
  /\ AccessLife \in Nat \ {0}
  /\ RefreshLife \in Nat \ {0}

Tokens == Access \cup Refresh

VARIABLES
  active,   (* User.is_active                                               *)
  phase,    (* ticks since the last full second                             *)
  left,     (* of each token: ticks until exp, 0 when it is not valid       *)
  revoked,  (* of each token: time to live of its key in Redis, 0 for none   *)
  req,      (* of each request: its operation, tokens and next step         *)
  ended     (* history: valid tokens whose end a client has been told of    *)

vars == <<active, phase, left, revoked, req, ended>>

Life(t) == IF t \in Access THEN AccessLife ELSE RefreshLife
Longest == IF AccessLife > RefreshLife THEN AccessLife ELSE RefreshLife

(* ttl: the time the next revocation will last, in seconds; late (history): *)
(* the request's token had ended when it came; last (history): it had, and  *)
(* when Redis was asked about it less than a second was left of it; off     *)
(* (history): the account has been disabled ever since the request came.    *)
Request == [step : {"idle", "check", "account", "revoke", "issue", "issued",
                    "admitted", "access", "revoke_access", "done"},
            op : {"none", "login", "refresh", "logout", "call"},
            token : Tokens \cup {NoToken}, other : Access \cup {NoToken},
            ttl : 0..Longest, late : BOOLEAN, last : BOOLEAN,
            off : BOOLEAN]

Idle == [step |-> "idle", op |-> "none", token |-> NoToken, other |-> NoToken,
         ttl |-> 0, late |-> FALSE, last |-> FALSE,
         off |-> FALSE]

TypeOK ==
  /\ active \in BOOLEAN
  /\ phase \in 0..Second - 1
  /\ left \in [Tokens -> 0..Longest * Second]
  /\ revoked \in [Tokens -> 0..Longest * Second]
  /\ req \in [Requests -> Request]
  /\ ended \subseteq Tokens

Init ==
  /\ active = TRUE
  /\ phase \in 0..Second - 1
  /\ left = [t \in Tokens |-> 0]
  /\ revoked = [t \in Tokens |-> 0]
  /\ req = [q \in Requests |-> Idle]
  /\ ended = {}

Goto(q, step) == req' = [req EXCEPT ![q].step = step]
Over(q) == req' = [req EXCEPT ![q] = Idle]

(* decode: only a signature that has not expired is accepted.               *)
Valid(t) == t \in Tokens /\ left[t] > 0

Begin(q, op, step, token, other, ttl) ==
  /\ req[q].step = "idle"
  /\ req' = [req EXCEPT ![q] =
       [Idle EXCEPT !.op = op, !.step = step, !.token = token, !.other = other,
                    !.ttl = ttl, !.late = token \in ended, !.off = ~active]]
  /\ UNCHANGED <<active, phase, left, revoked, ended>>

-----------------------------------------------------------------------------
(* Mutant: ticks instead of seconds.                                        *)
TtlInTicks(t) == left[t]

(* _remaining_ttl: whole seconds, at least one.                             *)
Ttl(t) == IF left[t] < Second THEN 1 ELSE left[t] \div Second

(* authenticate has verified the password of an active account.             *)
Login(q) ==
  /\ active
  /\ Begin(q, "login", "issue", NoToken, NoToken, 0)

StartRefresh(q, t) ==
  /\ t \in Refresh /\ Valid(t)
  /\ Begin(q, "refresh", "check", t, NoToken, 0)

(* A refresh token that does not decode is ignored.                         *)
StartLogout(q, t, a) ==
  /\ t \in Refresh /\ a \in Access \cup {NoToken}
  /\ IF Valid(t) THEN Begin(q, "logout", "revoke", t, a, Ttl(t))
                 ELSE Begin(q, "logout", "access", NoToken, a, 0)

Call(q, t) ==
  /\ t \in Access /\ Valid(t)
  /\ Begin(q, "call", "check", t, NoToken, 0)

(* is_revoked                                                               *)
Check(q) ==
  LET t == req[q].token IN
  /\ req[q].step = "check"
  /\ IF revoked[t] > 0
     THEN Over(q)
     ELSE req' = [req EXCEPT ![q].step = "account",
                                ![q].last = req[q].late /\ left[t] < Second]
  /\ UNCHANGED <<active, phase, left, revoked, ended>>

(* Mutant: the row is not looked at.                                        *)
AccountUnchecked(q) ==
  /\ req[q].step = "account"
  /\ req' = [req EXCEPT ![q].step = IF req[q].op = "call" THEN "admitted"
                                                             ELSE "revoke",
                         ![q].ttl = Ttl(req[q].token)]
  /\ UNCHANGED <<active, phase, left, revoked, ended>>

(* The account's row is read, and the lifetime of the revocation computed.  *)
Account(q) ==
  LET t == req[q].token IN
  /\ req[q].step = "account"
  /\ IF ~active
     THEN Over(q)
     ELSE IF req[q].op = "call"
     THEN Goto(q, "admitted")
     ELSE req' = [req EXCEPT ![q].step = "revoke", ![q].ttl = Ttl(t)]
  /\ UNCHANGED <<active, phase, left, revoked, ended>>

SetRevoked(t, ttl) == revoked' = [revoked EXCEPT ![t] = ttl * Second]

(* TokenStore.revoke of the refresh token                                   *)
Revoke(q) ==
  /\ req[q].step = "revoke"
  /\ SetRevoked(req[q].token, req[q].ttl)
  /\ req' = [req EXCEPT ![q].ttl = 0,
                         ![q].step = IF req[q].op = "refresh" THEN "issue"
                                                              ELSE "access"]
  /\ UNCHANGED <<active, phase, left, ended>>

(* Mutant: the access token is left alone.                                  *)
DecodeAccessOnly(q) ==
  /\ req[q].step = "access"
  /\ Goto(q, "done")
  /\ UNCHANGED <<active, phase, left, revoked, ended>>

(* logout goes on with the access token, if that is still valid.            *)
DecodeAccess(q) ==
  LET a == req[q].other IN
  /\ req[q].step = "access"
  /\ IF Valid(a)
     THEN req' = [req EXCEPT ![q].step = "revoke_access", ![q].ttl = Ttl(a)]
     ELSE req' = [req EXCEPT ![q].step = "done", ![q].other = NoToken]
  /\ UNCHANGED <<active, phase, left, revoked, ended>>

RevokeAccess(q) ==
  /\ req[q].step = "revoke_access"
  /\ SetRevoked(req[q].other, req[q].ttl)
  /\ req' = [req EXCEPT ![q].step = "done", ![q].ttl = 0]
  /\ UNCHANGED <<active, phase, left, ended>>

(* An identifier is drawn again only when nothing is left of its token.     *)
Fresh(t) ==
  /\ left[t] = 0 /\ revoked[t] = 0
  /\ \A q \in Requests : t # req[q].token /\ t # req[q].other

(* issue_pair: exp is cut to the full second.                               *)
Issue(q) ==
  /\ req[q].step = "issue"
  /\ \E a \in Access, r \in Refresh :
       /\ Fresh(a) /\ Fresh(r)
       /\ left' = [left EXCEPT ![a] = AccessLife * Second - phase,
                               ![r] = RefreshLife * Second - phase]
       /\ ended' = ended \ {a, r}
  /\ Goto(q, "issued")
  /\ UNCHANGED <<active, phase, revoked>>

(* The client learns of the result; a refresh and a logout end tokens.      *)
Reply(q) ==
  /\ req[q].step \in {"issued", "admitted", "done"}
  /\ ended' = IF req[q].op \in {"refresh", "logout"}
              THEN ended \cup {t \in {req[q].token, req[q].other} : Valid(t)}
              ELSE ended
  /\ Over(q)
  /\ UNCHANGED <<active, phase, left, revoked>>

(* A query or a command raises, or the process dies: the request is over,   *)
(* and a revocation under way may have had its effect.  Only the revocation *)
(* of the access token is best effort: there logout goes on.                *)
Fails(q) ==
  /\ \/ req[q].step # "idle" /\ Over(q) /\ UNCHANGED revoked
     \/ req[q].step = "revoke" /\ Over(q) /\ SetRevoked(req[q].token, req[q].ttl)
     \/ /\ req[q].step = "revoke_access"
        /\ req' = [req EXCEPT ![q].step = "done", ![q].ttl = 0,
                               ![q].other = NoToken]
        /\ SetRevoked(req[q].other, req[q].ttl) \/ UNCHANGED revoked
  /\ UNCHANGED <<active, phase, left, ended>>

(* An administrator disables or enables the account (AdminAccounts).        *)
SetActive(on) ==
  /\ active' = on
  /\ req' = [q \in Requests |-> [req[q] EXCEPT !.off = @ /\ ~on]]
  /\ UNCHANGED <<phase, left, revoked, ended>>

Less(time) == IF time > 0 THEN time - 1 ELSE 0

Tick ==
  /\ phase' = (phase + 1) % Second
  /\ left' = [t \in Tokens |-> Less(left[t])]
  /\ revoked' = [t \in Tokens |-> Less(revoked[t])]
  /\ ended' = {t \in ended : left'[t] > 0}
  /\ UNCHANGED <<active, req>>

Step(q) ==
  \/ Check(q) \/ Account(q) \/ Revoke(q) \/ DecodeAccess(q) \/ RevokeAccess(q)
  \/ Issue(q) \/ Reply(q)

Start(q) ==
  \/ Login(q)
  \/ \E t \in Refresh : StartRefresh(q, t)
  \/ \E t \in Refresh, a \in Access \cup {NoToken} : StartLogout(q, t, a)
  \/ \E t \in Access : Call(q, t)

Next ==
  \/ \E q \in Requests : Start(q) \/ Step(q) \/ Fails(q)
  \/ \E on \in BOOLEAN : SetActive(on)
  \/ Tick

Spec == Init /\ [][Next]_vars

-----------------------------------------------------------------------------
PastCheck(q) == req[q].step \in {"account", "issue", "issued", "admitted"}
                \/ (req[q].op = "refresh" /\ req[q].step = "revoke")

(* A request that comes after its token's end was acknowledged, by a        *)
(* refresh or by a logout, is refused (docs/security.md:35-38), up to the    *)
(* last second of the token: there the revocation, which is kept for a      *)
(* truncated time (auth_service.py:35), may be over first.                  *)
EndedIsRefused ==
  \A q \in Requests : req[q].late /\ PastCheck(q) => req[q].last

(* Refresh tokens are one-time (docs/security.md:35): no two requests get a *)
(* pair for the same one.                                                   *)
HasPairFor(q, t) == req[q].op = "refresh" /\ req[q].step = "issued" /\ req[q].token = t

RefreshIsOnce ==
  \A p, q \in Requests, t \in Refresh :
    HasPairFor(p, t) /\ HasPairFor(q, t) => p = q

(* What is left of it: a refresh token is spent once its revocation is      *)
(* stored, before its pair is issued (auth_service.py:114-115), and a        *)
(* spent one passes no check any more, up to its last second.  Two pairs     *)
(* for it thus take two requests that were both past the check before       *)
(* either had revoked it.                                                   *)
Spends(p, t) == req[p].op = "refresh" /\ req[p].step \in {"issue", "issued"} /\ req[p].token = t

SpentIsRefused ==
  [][\A p, q \in Requests, t \in Refresh :
       /\ Spends(p, t)
       /\ req[q].step = "check" /\ req[q].token = t /\ req'[q].step = "account"
       => left[t] < Second]_vars

(* A disabled account gets nothing more: a request that comes while it is   *)
(* disabled, and stays so, is neither admitted nor given a pair, whatever    *)
(* tokens it brings (docs/security.md:44-47).  One that came before may.    *)
DisabledIsRefused ==
  \A q \in Requests :
    req[q].off => req[q].step \notin {"issue", "issued", "admitted"}
==============================================================================
