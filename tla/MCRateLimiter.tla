--------------------------- MODULE MCRateLimiter ---------------------------
(* Values for TLC: two callers, one trusted proxy that may stand twice in  *)
(* the way, headers that name the other caller or the proxy.               *)
EXTENDS RateLimiter, TLC
CONSTANTS c1, c2, p
CallerDef == {c1, c2}
ProxyDef == {p}
PathsDef == {<<>>, <<p, p>>}
ForgedDef == {<<>>} \cup {<<c, p>> : c \in CallerDef}
BootDef == {2}
Symmetry == Permutations(CallerDef)
============================================================================
