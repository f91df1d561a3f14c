------------------------------ MODULE Prefetch ------------------------------
(***************************************************************************)
(* The status-prefetch task: each pass lists the TopN most recently        *)
(* referenced status lists and fetches those whose cached copy would not   *)
(* outlive the interval (internal/prefetch, with the status-list           *)
(* operations of internal/valkeystore).                                    *)
(*                                                                         *)
(* Time is a set of timers, in ticks of one second; a pass may take up to  *)
(* PassTime ticks.  A duration the code computes is a signed integer that  *)
(* counts Second units to the second and wraps around at Modulus.          *)
(***************************************************************************)
EXTENDS Integers, Sequences

CONSTANTS
  Uri,         \* status-list URIs
  TopN,        \* status_prefetch.top_n (0 disables the task)
  Keep,        \* refsKeepBound
  Interval, DefaultTTL, MinTTL, MaxTTL,   \* status_prefetch.*, in ticks
  Claims,      \* what a fetched token claims: [ttl, exp], exp in ticks from now
  NoClaim,     \* an absent or unreadable claim
  Second,
  Modulus,     \* how many values a duration has: 2^64 in the code
  PassTime,    \* ticks a pass may take
  Faults       \* {"error"}: a call of the pass may fail

ASSUME BoundAssumption == TopN \in Nat \ {0} /\ Keep \in Nat \ {0} /\ PassTime \in Nat
ASSUME TTLAssumption ==
  /\ Interval \in Nat \ {0} /\ DefaultTTL \in Nat \ {0}
  /\ MinTTL \in Nat \ {0} /\ MaxTTL \in Nat /\ MaxTTL > MinTTL
ASSUME ClaimsAssumption ==
  /\ NoClaim \notin Int
  /\ Claims \subseteq [ttl : Int \cup {NoClaim}, exp : Int \cup {NoClaim}]
ASSUME DurationAssumption ==
  /\ Second \in Nat \ {0} /\ Modulus \in Nat \ {0}
  /\ MaxTTL * Second < Modulus \div 2 /\ DefaultTTL * Second < Modulus \div 2

VARIABLES
  refs,     \* trust:statuslist:refs, most recent first
  lists,    \* lists[u]: key trust:statuslist:u, its ticks left (0 = no such
            \* key) and the ticks left until the exp its token claims
  step,     \* where the pass is
  todo,     \* the listed URIs it has not dealt with
  timer,    \* ticks until the ticker fires
  due,      \* the ticker has fired (or the task has just started)
  elapsed,  \* ticks since the pass began
  listed,   \* the URIs the latest pass listed (history)
  hits,     \* those it found to be hits (history)
  failed,   \* those one of its calls failed for (history)
  short     \* those it cached for no longer than the interval (history)

pass == <<step, todo, listed, hits, failed, short>>
vars == <<refs, lists, pass, timer, due, elapsed>>

NotCached == [ttl |-> 0, exp |-> NoClaim]
Present(l) == l.ttl > 0

Init ==
  /\ refs = <<>>
  /\ lists = [u \in Uri |-> NotCached]
  /\ step = "idle" /\ todo = <<>> /\ listed = {} /\ hits = {} /\ failed = {} /\ short = {}
  /\ timer = Interval /\ due = TRUE /\ elapsed = 0

-----------------------------------------------------------------------------
(* How long a fetched token is cached.                                     *)

Wrap(n) == ((n + Modulus \div 2) % Modulus) - Modulus \div 2
Smaller(m, n) == IF m < n THEN m ELSE n
Larger(m, n) == IF m < n THEN n ELSE m

\* Mutant: exp caps nothing when there is a ttl claim.
PeekTTLNoCap(c) ==
  LET hasTTL == c.ttl # NoClaim /\ c.ttl > 0
  IN Larger(0, CASE hasTTL -> Wrap(c.ttl * Second)
                 [] ~hasTTL /\ c.exp # NoClaim -> c.exp * Second
                 [] OTHER -> DefaultTTL * Second)

\* PeekTTL: a positive ttl claim, capped by exp; else exp; else the default.
\* Duration(ttl) * time.Second wraps around.
PeekTTL(c) ==
  LET hasTTL == c.ttl # NoClaim /\ c.ttl > 0
      hasExp == c.exp # NoClaim
      ttl == Wrap(c.ttl * Second)
      untilExp == c.exp * Second
  IN Larger(0, CASE hasTTL /\ hasExp -> Smaller(ttl, untilExp)
                 [] hasTTL /\ ~hasExp -> ttl
                 [] ~hasTTL /\ hasExp -> untilExp
                 [] OTHER -> DefaultTTL * Second)

\* Mutant: no upper bound.
ClampNoMax(d) == Larger(d, MinTTL * Second) \div Second

\* clampTTL, and EX, which takes whole seconds.
ClampTTL(d) == Smaller(Larger(d, MinTTL * Second), MaxTTL * Second) \div Second

-----------------------------------------------------------------------------
(* A pass.                                                                 *)

AtMost(n, s) == SubSeq(s, 1, Smaller(n, Len(s)))

\* TopStatusRefs; the pass of an earlier tick is over.
ListRefs ==
  LET uris == AtMost(TopN, refs) IN
  /\ step = "idle" /\ due
  /\ todo' = uris
  /\ listed' = {uris[i] : i \in DOMAIN uris}
  /\ step' = IF uris = <<>> THEN "trim" ELSE "check"
  /\ hits' = {} /\ failed' = {} /\ short' = {}
  /\ due' = FALSE /\ elapsed' = 0
  /\ UNCHANGED <<refs, lists, timer>>

\* It fails: Run returns the error, with nothing trimmed.
ListError ==
  /\ "error" \in Faults
  /\ step = "idle" /\ due
  /\ listed' = {} /\ hits' = {} /\ failed' = {} /\ short' = {}
  /\ due' = FALSE
  /\ UNCHANGED <<refs, lists, step, todo, timer, elapsed>>

\* continue, and the last URI is followed by the trim.
NextUri ==
  /\ todo' = Tail(todo)
  /\ step' = IF Len(todo) = 1 THEN "trim" ELSE "check"

\* Mutant: a copy that has exactly the interval left is a hit.
HitAtInterval ==
  /\ step = "check"
  /\ lists[Head(todo)].ttl >= Interval
  /\ hits' = hits \cup {Head(todo)}
  /\ NextUri
  /\ UNCHANGED <<refs, lists, listed, failed, short, timer, due, elapsed>>

Hit ==
  /\ step = "check"
  /\ lists[Head(todo)].ttl > Interval
  /\ hits' = hits \cup {Head(todo)}
  /\ NextUri
  /\ UNCHANGED <<refs, lists, listed, failed, short, timer, due, elapsed>>

Miss ==
  /\ step = "check"
  /\ lists[Head(todo)].ttl <= Interval
  /\ step' = "fetch"
  /\ UNCHANGED <<refs, lists, todo, listed, hits, failed, short, timer, due, elapsed>>

\* An error is counted and logged, and the pass goes on to the next URI.
UriError(at) ==
  /\ "error" \in Faults
  /\ step = at
  /\ failed' = failed \cup {Head(todo)}
  /\ NextUri
  /\ UNCHANGED <<refs, lists, listed, hits, short, timer, due, elapsed>>

CheckError == UriError("check")

\* Mutant: a failed fetch ends the pass.
FetchErrorAborts ==
  /\ "error" \in Faults
  /\ step = "fetch"
  /\ failed' = failed \cup {Head(todo)}
  /\ step' = "idle" /\ todo' = <<>>
  /\ UNCHANGED <<refs, lists, listed, hits, short, timer, due, elapsed>>

\* The issuer does not answer, or not with 200, or with more than MaxBytes.
FetchError == UriError("fetch")

\* SetBytes, with the lifetime the token claims.
SetBytes(c) ==
  lists' = [lists EXCEPT ![Head(todo)] = [ttl |-> ClampTTL(PeekTTL(c)), exp |-> c.exp]]

\* The token arrives and is cached.
Refresh(c) ==
  /\ step = "fetch"
  /\ SetBytes(c)
  /\ short' = IF ClampTTL(PeekTTL(c)) <= Interval THEN short \cup {Head(todo)} ELSE short
  /\ NextUri
  /\ UNCHANGED <<refs, listed, hits, failed, timer, due, elapsed>>

\* SetBytes fails: the token is dropped,
WriteError == UriError("fetch")

\* or Valkey has it and only the reply is lost.
WriteReplyLost(c) ==
  /\ "error" \in Faults
  /\ step = "fetch"
  /\ SetBytes(c)
  /\ failed' = failed \cup {Head(todo)}
  /\ NextUri
  /\ UNCHANGED <<refs, listed, hits, short, timer, due, elapsed>>

\* TrimStatusRefs; an error of it is only logged.
Trim ==
  /\ step = "trim"
  /\ \/ refs' = AtMost(Keep, refs)
     \/ "error" \in Faults /\ UNCHANGED refs
  /\ step' = "idle"
  /\ UNCHANGED <<lists, todo, listed, hits, failed, short, timer, due, elapsed>>

-----------------------------------------------------------------------------
(* The verifier and time.                                                  *)

Without(p) == SubSeq(refs, 1, p - 1) \o SubSeq(refs, p + 1, Len(refs))

\* ZADD with the time of the reference: a new member, or one that moves to the
\* front.
Reference(u) ==
  /\ \/ (\A p \in DOMAIN refs : refs[p] # u) /\ refs' = <<u>> \o refs
     \/ \E p \in DOMAIN refs : refs[p] = u /\ refs' = <<u>> \o Without(p)
  /\ UNCHANGED <<lists, pass, timer, due, elapsed>>

Less(n) == IF n > 0 THEN n - 1 ELSE 0
Aged(l) ==
  IF l.ttl <= 1 THEN NotCached
  ELSE [ttl |-> l.ttl - 1, exp |-> IF l.exp = NoClaim THEN NoClaim ELSE Less(l.exp)]

\* A pass that is due starts before the next tick.
Tick ==
  /\ IF step = "idle" THEN ~due ELSE elapsed < PassTime
  /\ elapsed' = IF step = "idle" THEN elapsed ELSE elapsed + 1
  /\ lists' = [u \in Uri |-> Aged(lists[u])]
  /\ timer' = IF timer > 1 THEN timer - 1 ELSE Interval
  /\ due' = (due \/ timer = 1)
  /\ UNCHANGED <<refs, pass>>

Next ==
  \/ ListRefs \/ ListError
  \/ Hit \/ Miss \/ CheckError \/ FetchError \/ WriteError
  \/ \E c \in Claims : Refresh(c) \/ WriteReplyLost(c)
  \/ Trim
  \/ \E u \in Uri : Reference(u)
  \/ Tick

Spec == Init /\ [][Next]_vars

-----------------------------------------------------------------------------
(* Properties.                                                             *)

Span == 0..MaxTTL

Distinct(s) == \A i, j \in DOMAIN s : s[i] = s[j] => i = j

TypeOK ==
  /\ refs \in Seq(Uri) /\ Distinct(refs)
  /\ lists \in [Uri -> [ttl : Span, exp : Int \cup {NoClaim}]]
  /\ \A u \in Uri : Present(lists[u]) \/ lists[u] = NotCached
  /\ step \in {"idle", "check", "fetch", "trim"}
  /\ todo \in Seq(Uri) /\ (step \in {"check", "fetch"} <=> todo # <<>>)
  /\ timer \in 1..Interval /\ due \in BOOLEAN /\ elapsed \in 0..PassTime
  /\ listed \subseteq Uri /\ hits \subseteq listed /\ failed \subseteq listed /\ short \subseteq listed

\* "An entry whose remaining TTL exceeds the interval is a cache hit (it
\* survives until the next cycle)": what a pass skipped is still cached when
\* the next one starts, if the pass was over within the interval, and however
\* late it began because of an earlier one that was not.
HitSurvives ==
  [][(ListRefs \/ ListError) /\ elapsed <= Interval
       => \A u \in hits : Present(lists[u])]_vars

\* "Keeps the top-N most recently referenced status lists warm": between two
\* passes every list the last one found at the top is cached, but for those a
\* call failed for and those whose tokens claim no more than the interval:
\* neither the error of another list nor references that reorder the set during
\* the pass lose one, if the pass was over in time.
StaysWarm ==
  step = "idle" /\ elapsed <= Interval => \A u \in listed \ (failed \cup short) : Present(lists[u])

\* "Refreshed ahead of TTL", as prefetch/config.go:12 has it: no list at the top
\* that could be fetched is gone before the next pass.  It needs a lower clamp
\* above the interval, which is not what ships.
RefreshedAheadOfTTL ==
  step = "idle" /\ elapsed <= Interval => \A u \in listed \ failed : Present(lists[u])

\* exp caps the claimed ttl: a token is never cached past the exp it claims for
\* longer than the lower clamp, whatever its ttl claim is, one that overflows
\* included.
GoneSoonAfterExp ==
  \A u \in Uri : Present(lists[u]) /\ lists[u].exp # NoClaim /\ lists[u].exp <= 0
    => lists[u].ttl <= MinTTL
=============================================================================
