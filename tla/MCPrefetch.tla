----------------------------- MODULE MCPrefetch -----------------------------
(* Small instances of Prefetch.                                            *)
EXTENDS Prefetch

\* With 4 units to the second and 7 bits, a ttl of 20 s (80 units) wraps around
\* to a negative duration and one of 33 s (132 units) to 1 s.
MCClaims ==
  [ttl : {NoClaim, 6, 20}, exp : {NoClaim, 0, 2}] \cup {[ttl |-> 33, exp |-> NoClaim]}
=============================================================================
