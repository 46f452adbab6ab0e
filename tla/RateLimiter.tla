---------------------------- MODULE RateLimiter ----------------------------
(***************************************************************************)
(* The request rate limiter of one API process, app/api/middleware.py, and *)
(* the way it tells callers apart behind proxies, app/api/client_ip.py.    *)
(* A request is handled in one step: between reading the clock and passing *)
(* the request on, dispatch awaits nothing.  Time is counted in ticks,     *)
(* several to a second, because Retry-After is cut to whole seconds.       *)
(***************************************************************************)
EXTENDS Naturals, Sequences

CONSTANTS
    Caller,     \* addresses requests come from, outside the trusted networks
    Proxy,      \* addresses inside the trusted networks (trusted_proxy_cidrs)
    Paths,      \* chains of proxies a request may take, nearest to it first
    Forged,     \* X-Forwarded-For headers a caller may send itself
    Limit,      \* rate_limit_per_minute
    Window,     \* the 60 seconds of a window, in ticks
    Second,     \* ticks of a second
    Boot,       \* what the monotonic clock may show when the process starts
    MaxTime     \* bound on the clock

Address == Caller \cup Proxy

ASSUME RateAssumption ==
    /\ Caller \cap Proxy = {}
    /\ Paths \subseteq Seq(Proxy)
    /\ Forged \subseteq Seq(Address)
    /\ Limit \in Nat /\ Window \in Nat /\ Second \in Nat \ {0}
    /\ Boot \subseteq Nat /\ MaxTime \in Nat

VARIABLES
    now,        \* time.monotonic()
    hits,       \* _hits: per address, the times of the hits still remembered
    known,      \* the keys of _hits
    lastSweep,  \* _last_sweep
    log,        \* history: the times at which each caller was admitted
    heard,      \* history: when each caller last sent a request
    due         \* history: when a caller that obeys Retry-After expects to be
                \* admitted, 0 if it has not been refused since it last was

vars == <<now, hits, known, lastSweep, log, heard, due>>

\* Types; buckets are kept per caller, never one for all behind a proxy.
TypeOK ==
    /\ now \in Nat
    /\ hits \in [Address -> Seq(Nat)]
    /\ known \subseteq Caller
    /\ lastSweep \in Nat
    /\ log \in [Caller -> Seq(Nat)]
    /\ heard \in [Caller -> Nat]
    /\ due \in [Caller -> Nat]

Init ==
    /\ now \in Boot
    /\ hits = [a \in Address |-> <<>>]
    /\ known = {}
    /\ lastSweep = 0
    /\ log = [c \in Caller |-> <<>>]
    /\ heard = [c \in Caller |-> 0]
    /\ due = [c \in Caller |-> 0]

----------------------------------------------------------------------------
(* Who sent it                                                             *)

Trusts(address) == address \in Proxy

\* nginx (proxy_add_x_forwarded_for) and every proxy like it append the
\* address they were called from to whatever the header said before.
PeerOf(c, path) == IF path = <<>> THEN c ELSE path[Len(path)]
HeaderOf(c, forged, path) ==
    IF path = <<>> THEN forged
    ELSE forged \o <<c>> \o SubSeq(path, 1, Len(path) - 1)

\* mutant of ClientIp: the header is not read.
ClientIpOfPeer(peer, forwarded) == peer

\* The right-most hop that no trusted proxy is at, if the peer is trusted.
ClientIp(peer, forwarded) ==
    LET strangers == {i \in DOMAIN forwarded : ~Trusts(forwarded[i])} IN
    IF ~Trusts(peer) \/ strangers = {} THEN peer
    ELSE forwarded[CHOOSE i \in strangers : \A j \in strangers : j <= i]

Client(c, forged, path) == ClientIp(PeerOf(c, path), HeaderOf(c, forged, path))

----------------------------------------------------------------------------
(* Counting                                                                *)

\* Bucket s after the loop that pops what has left the window: one bucket,
\* written as the set that holds it.
Popped(s) ==
    {SubSeq(s, k + 1, Len(s)) :
        k \in {n \in 0..Len(s) :
                  /\ \A i \in 1..n : now - s[i] > Window
                  /\ n < Len(s) => now - s[n + 1] <= Window}}

\* mutant of Stale: a bucket is dropped by its oldest hit.
StaleByOldest(s) == s = <<>> \/ now - s[1] > Window

\* mutant of Stale: only empty buckets are dropped.
StaleIfEmpty(s) == s = <<>>

Stale(s) == s = <<>> \/ now - s[Len(s)] > Window

\* _maybe_sweep, given the buckets h with the keys ks.
Sweep(h, ks) ==
    IF now - lastSweep < Window
    THEN hits' = h /\ known' = ks /\ UNCHANGED lastSweep
    ELSE /\ lastSweep' = now
         /\ known' = {x \in ks : ~Stale(h[x])}
         /\ hits' = [x \in Address |-> IF Stale(h[x]) THEN <<>> ELSE h[x]]

\* A request below the limit is counted and passed on.
Admit(c, forged, path) ==
    LET a == Client(c, forged, path) IN
    \E b \in Popped(hits[a]) :
        /\ Len(b) < Limit
        /\ Sweep([hits EXCEPT ![a] = Append(b, now)], known \cup {a})
        /\ log' = [log EXCEPT ![c] = Append(@, now)]
        /\ heard' = [heard EXCEPT ![c] = now]
        /\ due' = [due EXCEPT ![c] = 0]
        /\ UNCHANGED now

\* mutant of Uncounted: refused requests are counted too.
Counted(b) == Append(b, now)

\* What a refused request leaves of its bucket.
Uncounted(b) == b

\* One above it is answered 429.  Retry-After (retry) is the time until the
\* oldest hit leaves the window, cut to whole seconds.
Refuse(c, forged, path) ==
    LET a == Client(c, forged, path) IN
    \E b \in Popped(hits[a]) :
        /\ Len(b) >= Limit
        /\ hits' = [hits EXCEPT ![a] = Uncounted(b)]
        /\ known' = known \cup {a}
        /\ heard' = [heard EXCEPT ![c] = now]
        /\ \E retry \in 0..Window :
              LET rest == IF b = <<>> THEN Window ELSE Window - (now - b[1]) IN
              /\ retry * Second <= rest /\ rest < (retry + 1) * Second
              /\ due' = [due EXCEPT ![c] =
                            IF @ = 0 THEN now + (retry + 1) * Second ELSE @]
        /\ UNCHANGED <<now, lastSweep, log>>

Tick ==
    /\ now < MaxTime
    /\ now' = now + 1
    /\ UNCHANGED <<hits, known, lastSweep, log, heard, due>>

Next ==
    \/ Tick
    \/ \E c \in Caller, forged \in Forged, path \in Paths :
          Admit(c, forged, path) \/ Refuse(c, forged, path)

Spec == Init /\ [][Next]_vars

----------------------------------------------------------------------------
(* Properties                                                              *)

\* However a caller routes its requests and whatever it writes in the header,
\* this process admits at most Limit of them in any stretch of time as long
\* as the window (dispatch, client_ip, and the sweep that drops buckets).
RateIsBounded ==
    \A c \in Caller : \A i, j \in DOMAIN log[c] :
        j >= i + Limit => log[c][j] - log[c][i] > Window

\* The table of buckets holds nobody who had been silent for a window when it
\* was last swept, refused and forgotten callers included (_maybe_sweep).
MemoryIsBounded == \A c \in known : heard[c] + Window >= lastSweep

\* A refused caller that comes back one second after the Retry-After it was
\* first told, and was not admitted meanwhile, is not refused again
\* (the header is cut to whole seconds, so without the second it may be).
PatienceIsRewarded ==
    [][\A c \in Caller, forged \in Forged, path \in Paths :
          Refuse(c, forged, path) /\ Limit > 0 => due[c] = 0 \/ now < due[c]]_vars
============================================================================
