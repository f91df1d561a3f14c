--------------------------- MODULE PrefetchProof ---------------------------
(***************************************************************************)
(* What a prefetch pass leaves in the cache, for any lists, claims, bounds *)
(* and intervals, and for passes that take longer than the interval.       *)
(***************************************************************************)
EXTENDS Prefetch, SequenceTheorems, TLAPS

-----------------------------------------------------------------------------
(* Durations: whole seconds of a clamped one.                              *)

\* Rounding down to whole seconds keeps bounds that are whole seconds.
LEMMA WholeSeconds ==
  ASSUME NEW a \in Int, NEW b \in Int, NEW d \in Int,
         a * Second <= d, d <= b * Second
  PROVE  d \div Second \in Int /\ a <= d \div Second /\ d \div Second <= b
<1> DEFINE q == d \div Second
<1>1. /\ q \in Int /\ Second \in Nat /\ Second > 0
      /\ q * Second <= d /\ d < (q + 1) * Second
  BY DurationAssumption, Z3
<1> HIDE DEF q
<1>2. \A m, n \in Int : m * Second < n * Second => m < n
  BY <1>1, Z3
<1>3. a * Second < (q + 1) * Second => a < q + 1
  BY <1>1, <1>2
<1>4. q * Second < (b + 1) * Second => q < b + 1
  BY <1>1, <1>2
<1>5. a * Second \in Int /\ b * Second \in Int /\ (q + 1) * Second \in Int /\ q * Second \in Int
      /\ (b + 1) * Second = b * Second + Second
  BY <1>1
<1>6. a < q + 1
  BY <1>1, <1>3, <1>5
<1>7. q < b + 1
  BY <1>1, <1>4, <1>5
<1> QED
  BY <1>1, <1>6, <1>7 DEF q

\* Multiplication by 2^64 wraps around to a duration.
LEMMA WrapInt == ASSUME NEW n \in Int PROVE Wrap(n) \in Int
  BY DurationAssumption DEF Wrap
\* The claims of a token, as the type they are read into.
LEMMA ClaimTypes ==
  ASSUME NEW c \in Claims
  PROVE  c.ttl \in Int \cup {NoClaim} /\ c.exp \in Int \cup {NoClaim}
  BY ClaimsAssumption

\* What PeekTTL reads is a duration that ends with exp, where there is one,
\* whatever the ttl claim wrapped around to.
LEMMA Peeked ==
  ASSUME NEW c \in Claims
  PROVE  /\ PeekTTL(c) \in Int
         /\ c.exp # NoClaim => PeekTTL(c) <= Larger(0, c.exp * Second)
<1> DEFINE hasTTL == c.ttl # NoClaim /\ c.ttl > 0
           hasExp == c.exp # NoClaim
<1>1. /\ Second \in Int /\ DefaultTTL * Second \in Int
      /\ hasTTL => Wrap(c.ttl * Second) \in Int
      /\ hasExp => c.exp * Second \in Int
  BY ClaimTypes, WrapInt, DurationAssumption, TTLAssumption
<1>2. CASE hasTTL /\ hasExp
  BY <1>1, <1>2 DEF PeekTTL, Larger, Smaller
<1>3. CASE hasTTL /\ ~hasExp
  BY <1>1, <1>3 DEF PeekTTL, Larger
<1>4. CASE ~hasTTL /\ hasExp
  BY <1>1, <1>4 DEF PeekTTL, Larger
<1>5. CASE ~hasTTL /\ ~hasExp
  BY <1>1, <1>5 DEF PeekTTL, Larger
<1> QED
  BY <1>2, <1>3, <1>4, <1>5

\* A clamped duration lies between the clamps, in whole ticks.
LEMMA Clamped ==
  ASSUME NEW d \in Int
  PROVE  ClampTTL(d) \in MinTTL..MaxTTL
<1> DEFINE x == Smaller(Larger(d, MinTTL * Second), MaxTTL * Second)
<1>1. /\ MinTTL \in Int /\ MaxTTL \in Int /\ Second \in Int
      /\ MinTTL * Second \in Int /\ MaxTTL * Second \in Int
      /\ MinTTL * Second <= MaxTTL * Second
  BY TTLAssumption, DurationAssumption, Z3
<1>2. x \in Int /\ MinTTL * Second <= x /\ x <= MaxTTL * Second
  BY <1>1 DEF Smaller, Larger
<1> HIDE DEF x
<1>3. MinTTL <= x \div Second /\ x \div Second <= MaxTTL /\ x \div Second \in Int
  BY <1>1, <1>2, WholeSeconds
<1> QED
  BY <1>1, <1>3 DEF ClampTTL, x

\* A duration of at most b ticks is clamped to at most b ticks, or to the lower
\* clamp.
LEMMA ClampedBelow ==
  ASSUME NEW d \in Int, NEW b \in Int, d <= Larger(0, b * Second)
  PROVE  ClampTTL(d) <= Larger(b, MinTTL)
<1> DEFINE x == Smaller(Larger(d, MinTTL * Second), MaxTTL * Second)
           m == Larger(b, MinTTL)
<1>1. /\ MinTTL \in Int /\ MaxTTL \in Int /\ Second \in Int /\ b * Second \in Int
      /\ MinTTL * Second \in Int /\ MaxTTL * Second \in Int /\ MinTTL * Second >= 0
      /\ MinTTL * Second <= MaxTTL * Second
  BY TTLAssumption, DurationAssumption, Z3
<1>2. x \in Int /\ MinTTL * Second <= x /\ (x <= b * Second \/ x <= MinTTL * Second)
  BY <1>1 DEF Smaller, Larger
<1>3. m \in Int /\ (m = b \/ m = MinTTL) /\ b <= m /\ MinTTL <= m
  BY <1>1 DEF Larger
<1> HIDE DEF x, m
<1>4. b * Second <= m * Second /\ MinTTL * Second <= m * Second /\ m * Second \in Int
  BY <1>1, <1>3, DurationAssumption, Z3
<1>5. x <= m * Second
  BY <1>1, <1>2, <1>4
<1>6. x \div Second <= m
  BY <1>1, <1>2, <1>3, <1>5, WholeSeconds
<1> QED
  BY <1>6 DEF ClampTTL, x, m

\* What Refresh caches: a copy between the clamps, that ends by the exp it claims
\* or by the lower clamp.
LEMMA Cached ==
  ASSUME NEW c \in Claims
  PROVE  /\ ClampTTL(PeekTTL(c)) \in MinTTL..MaxTTL
         /\ c.exp # NoClaim => ClampTTL(PeekTTL(c)) <= Larger(c.exp, MinTTL)
  BY Peeked, Clamped, ClampedBelow, ClaimTypes

-----------------------------------------------------------------------------
(* The sequences of a pass.                                                *)

\* The URIs of a sequence.
Elements(s) == {s[i] : i \in DOMAIN s}

\* Dealing with the first URI leaves the others, each once.
LEMMA Rest ==
  ASSUME NEW s \in Seq(Uri), s # <<>>, Distinct(s)
  PROVE  /\ Head(s) \in Uri /\ Tail(s) \in Seq(Uri) /\ Distinct(Tail(s))
         /\ Head(s) \in Elements(s) /\ Elements(Tail(s)) = Elements(s) \ {Head(s)}
         /\ Len(s) = 1 <=> Tail(s) = <<>>
<1>1. /\ Len(s) \in Nat \ {0} /\ DOMAIN s = 1..Len(s) /\ Head(s) = s[1]
      /\ Head(s) \in Uri /\ Tail(s) \in Seq(Uri) /\ Len(Tail(s)) = Len(s) - 1
      /\ DOMAIN Tail(s) = 1..(Len(s) - 1)
      /\ \A i \in 1..(Len(s) - 1) : Tail(s)[i] = s[i + 1]
  BY LenProperties, EmptySeq, HeadTailProperties
<1>2. Distinct(Tail(s))
  <2> SUFFICES ASSUME NEW i \in 1..(Len(s) - 1), NEW j \in 1..(Len(s) - 1), s[i + 1] = s[j + 1]
               PROVE  i = j
    BY <1>1 DEF Distinct
  <2>1. i + 1 \in DOMAIN s /\ j + 1 \in DOMAIN s
    BY <1>1
  <2>2. i + 1 = j + 1
    BY <2>1 DEF Distinct
  <2> QED
    BY <2>2
<1>3. Elements(Tail(s)) \subseteq Elements(s) \ {Head(s)}
  <2> SUFFICES ASSUME NEW i \in 1..(Len(s) - 1) PROVE s[i + 1] \in Elements(s) /\ s[i + 1] # s[1]
    BY <1>1 DEF Elements
  <2>1. i + 1 \in DOMAIN s /\ 1 \in DOMAIN s /\ i + 1 # 1
    BY <1>1
  <2> QED
    BY <2>1 DEF Elements, Distinct
<1>4. Elements(s) \ {Head(s)} \subseteq Elements(Tail(s))
  <2> SUFFICES ASSUME NEW i \in DOMAIN s, s[i] # s[1] PROVE s[i] \in Elements(Tail(s))
    BY <1>1 DEF Elements
  <2>1. i - 1 \in 1..(Len(s) - 1) /\ i = (i - 1) + 1
    BY <1>1
  <2>2. s[i] = Tail(s)[i - 1]
    BY <1>1, <2>1
  <2> QED
    BY <1>1, <2>1, <2>2 DEF Elements
<1>5. Len(s) = 1 <=> Tail(s) = <<>>
  BY <1>1, EmptySeq
<1>6. Head(s) \in Elements(s)
  BY <1>1 DEF Elements
<1> QED
  BY <1>1, <1>2, <1>3, <1>4, <1>5, <1>6

\* ZREVRANGE and the trim take the most recent references, each once.
LEMMA MostRecent ==
  ASSUME NEW s \in Seq(Uri), Distinct(s), NEW n \in Nat
  PROVE  AtMost(n, s) \in Seq(Uri) /\ Distinct(AtMost(n, s))
<1> DEFINE m == Smaller(n, Len(s))
           t == SubSeq(s, 1, m)
<1>1. Len(s) \in Nat /\ DOMAIN s = 1..Len(s) /\ m \in 0..Len(s)
  BY LenProperties DEF Smaller
<1> HIDE DEF m
<1>2. \A i \in 1..m : s[i] \in Uri /\ i \in DOMAIN s
  BY <1>1, ElementOfSeq
<1>3. t \in Seq(Uri) /\ Len(t) = m /\ \A i \in 1..m : t[i] = s[i]
  <2>1. /\ SubSeq(s, 1, m) \in Seq(Uri)
        /\ Len(SubSeq(s, 1, m)) = IF 1 <= m THEN m - 1 + 1 ELSE 0
        /\ \A i \in 1..(m - 1 + 1) : SubSeq(s, 1, m)[i] = s[1 + i - 1]
    BY <1>1, <1>2, SubSeqProperties
  <2> QED
    BY <1>1, <2>1
<1>4. DOMAIN t = 1..m
  BY <1>3, LenProperties
<1>5. Distinct(t)
  BY <1>2, <1>3, <1>4 DEF Distinct
<1> QED
  BY <1>3, <1>5 DEF AtMost, m
\* Putting a URI in front of a sequence that does not have it.
LEMMA InFront ==
  ASSUME NEW u \in Uri, NEW s \in Seq(Uri), Distinct(s), \A i \in DOMAIN s : s[i] # u
  PROVE  <<u>> \o s \in Seq(Uri) /\ Distinct(<<u>> \o s)
<1> DEFINE t == <<u>> \o s
<1>1. <<u>> \in Seq(Uri) /\ Len(<<u>>) = 1 /\ <<u>>[1] = u
  OBVIOUS
<1>2. Len(s) \in Nat /\ DOMAIN s = 1..Len(s)
  BY LenProperties
<1>3. /\ t \in Seq(Uri) /\ Len(t) = 1 + Len(s)
      /\ \A i \in 1..(1 + Len(s)) : t[i] = IF i <= 1 THEN <<u>>[i] ELSE s[i - 1]
  BY <1>1, ConcatProperties
<1>4. DOMAIN t = 1..(1 + Len(s))
  BY <1>3, LenProperties
<1> HIDE DEF t
<1>5. ASSUME NEW i \in DOMAIN t, NEW j \in DOMAIN t, t[i] = t[j] PROVE i = j
  <2>1. i \in Int /\ j \in Int /\ i >= 1 /\ j >= 1
    BY <1>2, <1>4
  <2>2. ASSUME NEW k \in DOMAIN t, k # 1 PROVE k - 1 \in DOMAIN s /\ t[k] = s[k - 1]
    BY <1>2, <1>3, <1>4, <2>2
  <2>3. t[1] = u
    BY <1>1, <1>2, <1>3
  <2>4. CASE i = 1 \/ j = 1
    BY <1>5, <2>2, <2>3, <2>4
  <2>5. CASE i # 1 /\ j # 1
    <3>1. i - 1 = j - 1
      BY <1>5, <2>2, <2>5 DEF Distinct
    <3> QED
      BY <2>1, <3>1
  <2> QED
    BY <2>4, <2>5
<1> QED
  BY <1>3, <1>5 DEF Distinct, t

\* Taking the URI at p out of the references.
LEMMA TakenOut ==
  ASSUME refs \in Seq(Uri), Distinct(refs), NEW p \in DOMAIN refs
  PROVE  /\ Without(p) \in Seq(Uri) /\ Distinct(Without(p))
         /\ \A i \in DOMAIN Without(p) : Without(p)[i] # refs[p]
<1> DEFINE n == Len(refs)
           left == SubSeq(refs, 1, p - 1)
           right == SubSeq(refs, p + 1, n)
           w == left \o right
<1>1. n \in Nat /\ DOMAIN refs = 1..n /\ p \in 1..n
  BY LenProperties
<1>2. \A i \in 1..n : refs[i] \in Uri
  BY ElementOfSeq
<1> HIDE DEF n
<1>3. left \in Seq(Uri) /\ Len(left) = p - 1 /\ \A i \in 1..(p - 1) : left[i] = refs[i]
  <2>1. \A i \in 1..(p - 1) : refs[i] \in Uri
    BY <1>1, <1>2
  <2>2. /\ left \in Seq(Uri)
        /\ Len(left) = IF 1 <= p - 1 THEN p - 1 - 1 + 1 ELSE 0
        /\ \A i \in 1..(p - 1 - 1 + 1) : left[i] = refs[1 + i - 1]
    BY <1>1, <2>1, SubSeqProperties
  <2> QED
    BY <1>1, <2>2
<1>4. right \in Seq(Uri) /\ Len(right) = n - p /\ \A i \in 1..(n - p) : right[i] = refs[p + i]
  <2>1. \A i \in (p + 1)..n : refs[i] \in Uri
    BY <1>1, <1>2
  <2>2. /\ right \in Seq(Uri)
        /\ Len(right) = IF p + 1 <= n THEN n - (p + 1) + 1 ELSE 0
        /\ \A i \in 1..(n - (p + 1) + 1) : right[i] = refs[p + 1 + i - 1]
    BY <1>1, <2>1, SubSeqProperties
  <2> QED
    BY <1>1, <2>2
<1> HIDE DEF left, right
<1>5. /\ w \in Seq(Uri) /\ Len(w) = n - 1
      /\ \A i \in 1..(n - 1) : w[i] = IF i < p THEN refs[i] ELSE refs[i + 1]
  <2>1. /\ w \in Seq(Uri) /\ Len(w) = Len(left) + Len(right)
        /\ \A i \in 1..(Len(left) + Len(right)) :
             w[i] = IF i <= Len(left) THEN left[i] ELSE right[i - Len(left)]
    BY <1>3, <1>4, ConcatProperties
  <2>2. ASSUME NEW i \in 1..(n - 1) PROVE w[i] = IF i < p THEN refs[i] ELSE refs[i + 1]
    <3>1. CASE i < p
      BY <1>1, <1>3, <1>4, <2>1, <3>1
    <3>2. CASE ~(i < p)
      <4>1. i - (p - 1) \in 1..(n - p) /\ p + (i - (p - 1)) = i + 1
        BY <1>1, <3>2
      <4>2. w[i] = right[i - (p - 1)]
        BY <1>1, <1>3, <1>4, <2>1, <3>2
      <4>3. right[i - (p - 1)] = refs[i + 1]
        BY <1>4, <4>1
      <4> QED
        BY <3>2, <4>2, <4>3
    <3> QED
      BY <3>1, <3>2
  <2> QED
    BY <1>1, <1>3, <1>4, <2>1, <2>2
<1>6. DOMAIN w = 1..(n - 1)
  BY <1>5, LenProperties
<1> HIDE DEF w
<1>7. \A i \in DOMAIN w : \E k \in DOMAIN refs : k # p /\ w[i] = refs[k] /\ k = IF i < p THEN i ELSE i + 1
  <2> SUFFICES ASSUME NEW i \in 1..(n - 1)
               PROVE  \E k \in 1..n : k # p /\ w[i] = refs[k] /\ k = IF i < p THEN i ELSE i + 1
    BY <1>1, <1>6
  <2>1. CASE i < p
    BY <1>1, <1>5, <2>1
  <2>2. CASE ~(i < p)
    <3>1. i + 1 \in 1..n /\ i + 1 # p
      BY <1>1, <2>2
    <3> QED
      BY <1>5, <2>2, <3>1
  <2> QED
    BY <2>1, <2>2
<1>8. \A i \in DOMAIN w : w[i] # refs[p]
  BY <1>7 DEF Distinct
<1>9. ASSUME NEW i \in DOMAIN w, NEW j \in DOMAIN w, w[i] = w[j] PROVE i = j
  <2>1. PICK k \in DOMAIN refs : w[i] = refs[k] /\ k = IF i < p THEN i ELSE i + 1
    BY <1>7
  <2>2. PICK l \in DOMAIN refs : w[j] = refs[l] /\ l = IF j < p THEN j ELSE j + 1
    BY <1>7
  <2>3. k = l
    BY <1>9, <2>1, <2>2 DEF Distinct
  <2> QED
    BY <1>1, <1>6, <2>1, <2>2, <2>3
<1> QED
  BY <1>5, <1>8, <1>9 DEF Distinct, Without, w, left, right, n

\* ZADD keeps every member once.
LEMMA Referenced ==
  ASSUME refs \in Seq(Uri), Distinct(refs), NEW u \in Uri, Reference(u)
  PROVE  refs' \in Seq(Uri) /\ Distinct(refs')
<1>1. CASE (\A p \in DOMAIN refs : refs[p] # u) /\ refs' = <<u>> \o refs
  BY <1>1, InFront
<1>2. ASSUME NEW p \in DOMAIN refs, refs[p] = u, refs' = <<u>> \o Without(p)
      PROVE  refs' \in Seq(Uri) /\ Distinct(refs')
  BY <1>2, TakenOut, InFront
<1> QED
  BY <1>1, <1>2 DEF Reference
-----------------------------------------------------------------------------
(* The pass, and the invariant of its types.                               *)

\* A pass has each URI it listed still to deal with, or has dealt with it, never
\* twice; and until the ticker fires it has used what is missing to an interval.
PassOK ==
  /\ Distinct(todo) /\ Elements(todo) \subseteq listed /\ hits \cap Elements(todo) = {}
  /\ step # "idle" /\ ~due => timer + elapsed <= Interval

Inv == TypeOK /\ PassOK

\* The variables of time, as numbers.
LEMMA Numbers ==
  ASSUME TypeOK
  PROVE  /\ Interval \in Nat /\ Interval > 0 /\ PassTime \in Nat /\ MinTTL \in Nat /\ MinTTL > 0
         /\ MaxTTL \in Nat /\ MaxTTL > MinTTL
         /\ timer \in 1..Interval /\ elapsed \in 0..PassTime
         /\ \A u \in Uri : lists[u].ttl \in 0..MaxTTL /\ lists[u].exp \in Int \cup {NoClaim}
  BY TTLAssumption, BoundAssumption DEF TypeOK, Span

\* On to the next URI.
LEMMA NextFacts ==
  ASSUME Inv, step \in {"check", "fetch"}, NextUri
  PROVE  /\ Head(todo) \in Uri /\ Head(todo) \in listed /\ Head(todo) \notin hits
         /\ todo' \in Seq(Uri) /\ Distinct(todo)'
         /\ Elements(todo)' = Elements(todo) \ {Head(todo)}
         /\ step' \in {"check", "trim"} /\ (step' = "check" <=> todo' # <<>>)
<1>1. todo \in Seq(Uri) /\ todo # <<>> /\ Distinct(todo)
  BY DEF Inv, TypeOK, PassOK
<1>2. todo' = Tail(todo) /\ step' = IF Len(todo) = 1 THEN "trim" ELSE "check"
  BY DEF NextUri
<1>3. Elements(todo)' = Elements(Tail(todo)) /\ Distinct(todo)' = Distinct(Tail(todo))
  BY <1>2 DEF Elements, Distinct
<1> QED
  BY <1>1, <1>2, <1>3, Rest DEF Inv, PassOK

\* What every way of dealing with a URI keeps.
LEMMA UriInv ==
  ASSUME Inv, step \in {"check", "fetch"}, NextUri, UNCHANGED <<refs, listed, timer, due, elapsed>>,
         hits' \subseteq hits \cup {Head(todo)}, failed' \subseteq failed \cup {Head(todo)},
         short' \subseteq short \cup {Head(todo)},
         lists' \in [Uri -> [ttl : Span, exp : Int \cup {NoClaim}]],
         \A u \in Uri : Present(lists'[u]) \/ lists'[u] = NotCached
  PROVE  Inv'
<1>1. TypeOK'
  BY NextFacts DEF Inv, TypeOK, Distinct
<1>2. PassOK'
  BY NextFacts DEF Inv, PassOK
<1> QED
  BY <1>1, <1>2 DEF Inv

\* Listing the references starts a pass, or fails.
LEMMA ListInv == ASSUME Inv, ListRefs \/ ListError PROVE Inv'
<1>1. TypeOK /\ step = "idle"
  BY DEF Inv, ListRefs, ListError
<1>2. CASE ListRefs
  <2> DEFINE uris == AtMost(TopN, refs)
  <2>1. uris \in Seq(Uri) /\ Distinct(uris)
    BY <1>1, MostRecent, BoundAssumption DEF TypeOK
  <2>2. /\ todo' = uris /\ listed' = Elements(uris) /\ hits' = {} /\ failed' = {} /\ short' = {}
        /\ step' = IF uris = <<>> THEN "trim" ELSE "check"
        /\ due' = FALSE /\ elapsed' = 0 /\ UNCHANGED <<refs, lists, timer>>
    BY <1>2 DEF ListRefs, Elements
  <2> HIDE DEF uris
  <2>3. Elements(uris) \subseteq Uri
    BY <2>1, LenProperties, ElementOfSeq DEF Elements
  <2>4. Elements(todo)' = Elements(uris) /\ Distinct(todo)'
    BY <2>1, <2>2 DEF Elements, Distinct
  <2>5. due' \in BOOLEAN
    BY <2>2
  <2>6. timer + 0 <= Interval /\ 0 \in 0..PassTime
    BY <1>1, Numbers
  <2>7. TypeOK'
    BY <1>1, <2>1, <2>2, <2>3, <2>5, <2>6 DEF TypeOK, Distinct
  <2>8. PassOK'
    BY <2>2, <2>4, <2>6 DEF PassOK
  <2> QED
    BY <2>7, <2>8 DEF Inv
<1>3. CASE ListError
  <2>1. due' \in BOOLEAN
    BY <1>3 DEF ListError
  <2>2. TypeOK'
    BY <1>1, <1>3, <2>1 DEF ListError, TypeOK, Distinct
  <2>3. todo = <<>> /\ Elements(todo) = {}
    BY <1>1 DEF TypeOK, Elements
  <2>4. PassOK'
    BY <1>1, <1>3, <2>3 DEF ListError, Inv, PassOK, Elements, Distinct
  <2> QED
    BY <2>2, <2>4 DEF Inv
<1> QED
  BY <1>2, <1>3

\* A check and its outcome, and the fetch.
LEMMA CheckInv ==
  ASSUME Inv, Hit \/ Miss \/ CheckError \/ FetchError \/ WriteError
  PROVE  Inv'
<1>1. CASE Hit
  BY <1>1, UriInv DEF Hit, Inv, TypeOK
<1>2. CASE Miss
  BY <1>2 DEF Miss, Inv, TypeOK, PassOK, Elements, Distinct
<1>3. CASE CheckError \/ FetchError \/ WriteError
  BY <1>3, UriInv DEF CheckError, FetchError, WriteError, UriError, Inv, TypeOK
<1> QED
  BY <1>1, <1>2, <1>3

\* The token is cached, whether its reply arrives or not.
LEMMA RefreshInv ==
  ASSUME Inv, NEW c \in Claims, Refresh(c) \/ WriteReplyLost(c)
  PROVE  Inv'
<1> DEFINE ttl == ClampTTL(PeekTTL(c))
<1>1. ttl \in MinTTL..MaxTTL /\ c.exp \in Int \cup {NoClaim} /\ Head(todo) \in Uri
  BY Cached, ClaimTypes, NextFacts DEF Refresh, WriteReplyLost
<1>2. lists' = [lists EXCEPT ![Head(todo)] = [ttl |-> ttl, exp |-> c.exp]]
  BY DEF Refresh, WriteReplyLost, SetBytes
<1> HIDE DEF ttl
<1>3. ttl \in Span /\ ttl > 0
  BY <1>1, Numbers DEF Inv, Span
<1>4. [ttl |-> ttl, exp |-> c.exp] \in [ttl : Span, exp : Int \cup {NoClaim}]
  BY <1>1, <1>3
<1>5. /\ lists' \in [Uri -> [ttl : Span, exp : Int \cup {NoClaim}]]
      /\ \A u \in Uri : Present(lists'[u]) \/ lists'[u] = NotCached
  BY <1>1, <1>2, <1>3, <1>4 DEF Inv, TypeOK, Present
<1> QED
  BY <1>5, UriInv DEF Refresh, WriteReplyLost, Inv, TypeOK

\* The end of the pass, and the verifier's references.
LEMMA RefsInv ==
  ASSUME Inv, Trim \/ \E u \in Uri : Reference(u)
  PROVE  Inv'
<1>1. refs \in Seq(Uri) /\ Distinct(refs) /\ Keep \in Nat
  BY BoundAssumption DEF Inv, TypeOK
<1>2. refs' \in Seq(Uri) /\ Distinct(refs)'
  <2>1. CASE Trim
    <3>1. refs' = AtMost(Keep, refs) \/ refs' = refs
      BY <2>1 DEF Trim
    <3>2. Distinct(refs)' <=> Distinct(refs')
      BY DEF Distinct
    <3> QED
      BY <1>1, <3>1, <3>2, MostRecent
  <2>2. CASE \E u \in Uri : Reference(u)
    <3>1. Distinct(refs)' <=> Distinct(refs')
      BY DEF Distinct
    <3> QED
      BY <1>1, <2>2, <3>1, Referenced
  <2> QED
    BY <2>1, <2>2
<1>3. CASE Trim
  <2>1. /\ step = "trim" /\ step' = "idle" /\ todo' = todo
        /\ UNCHANGED <<lists, listed, hits, failed, short, timer, due, elapsed>>
    BY <1>3 DEF Trim
  <2> QED
    BY <1>2, <2>1 DEF Inv, TypeOK, PassOK, Elements, Distinct
<1>4. CASE \E u \in Uri : Reference(u)
  <2>1. UNCHANGED <<lists, step, todo, listed, hits, failed, short, timer, due, elapsed>>
    BY <1>4 DEF Reference, pass
  <2> QED
    BY <1>2, <2>1 DEF Inv, TypeOK, PassOK, Elements, Distinct
<1> QED
  BY <1>3, <1>4

\* What a tick does to a copy.
LEMMA Older ==
  ASSUME TypeOK, Tick, NEW u \in Uri
  PROVE  /\ lists'[u] \in [ttl : Span, exp : Int \cup {NoClaim}]
         /\ Present(lists'[u]) \/ lists'[u] = NotCached
         /\ lists'[u].ttl = Less(lists[u].ttl)
         /\ lists'[u].ttl > 0 =>
              lists'[u].exp = IF lists[u].exp = NoClaim THEN NoClaim ELSE Less(lists[u].exp)
<1>1. lists'[u] = Aged(lists[u])
  BY DEF Tick
<1>2. lists[u].ttl \in 0..MaxTTL /\ lists[u].exp \in Int \cup {NoClaim} /\ MaxTTL \in Nat
  BY Numbers
<1>3. CASE lists[u].ttl <= 1
  BY <1>1, <1>2, <1>3 DEF Aged, NotCached, Less, Span
<1>4. CASE ~(lists[u].ttl <= 1)
  <2>1. lists'[u] = [ttl |-> lists[u].ttl - 1,
                     exp |-> IF lists[u].exp = NoClaim THEN NoClaim ELSE Less(lists[u].exp)]
    BY <1>1, <1>4 DEF Aged
  <2>2. lists[u].ttl - 1 \in Span /\ lists[u].ttl - 1 > 0 /\ Less(lists[u].ttl) = lists[u].ttl - 1
    BY <1>2, <1>4 DEF Span, Less
  <2>3. lists[u].exp # NoClaim => Less(lists[u].exp) \in Int
    BY <1>2 DEF Less
  <2> QED
    BY <2>1, <2>2, <2>3 DEF Present
<1> QED
  BY <1>3, <1>4

\* Time passes within the bounds of the timers.
LEMMA TickInv == ASSUME Inv, Tick PROVE Inv'
<1>1. TypeOK /\ UNCHANGED <<refs, step, todo, listed, hits, failed, short>>
  BY DEF Inv, Tick, pass
<1>2. due' \in BOOLEAN
  BY DEF Tick
<1>3. timer' \in 1..Interval /\ elapsed' \in 0..PassTime
  BY <1>1, Numbers DEF Tick
<1>4. lists' \in [Uri -> [ttl : Span, exp : Int \cup {NoClaim}]]
  BY <1>1, Older DEF Tick
<1>5. TypeOK'
  BY <1>1, <1>2, <1>3, <1>4, Older DEF TypeOK, Distinct
<1>6. ASSUME step # "idle", ~due' PROVE timer' + elapsed' <= Interval
  <2>1. ~due /\ timer # 1
    BY <1>6, Zenon DEF Tick
  <2>2. timer + elapsed <= Interval
    BY <1>6, <2>1 DEF Inv, PassOK
  <2>3. timer' = timer - 1 /\ elapsed' = elapsed + 1
    BY <1>1, <1>6, <2>1, Numbers DEF Tick
  <2> QED
    BY <1>1, <2>2, <2>3, Numbers
<1>7. PassOK'
  BY <1>1, <1>6 DEF Inv, PassOK, Elements, Distinct
<1> QED
  BY <1>5, <1>7 DEF Inv

\* Every step keeps it.
LEMMA InvStep == Inv /\ [Next]_vars => Inv'
<1> SUFFICES ASSUME Inv, [Next]_vars PROVE Inv'
  OBVIOUS
<1>1. CASE UNCHANGED vars
  BY <1>1 DEF vars, pass, Inv, TypeOK, PassOK, Elements, Distinct
<1> QED
  BY <1>1, ListInv, CheckInv, RefreshInv, RefsInv, TickInv DEF Next

\* It holds before the first pass.
LEMMA InitInv == Init => Inv
<1> SUFFICES ASSUME Init PROVE Inv
  OBVIOUS
<1>1. NotCached \in [ttl : Span, exp : Int \cup {NoClaim}]
  BY TTLAssumption DEF NotCached, Span
<1>2. /\ refs = <<>> /\ todo = <<>> /\ lists = [u \in Uri |-> NotCached] /\ step = "idle"
      /\ listed = {} /\ hits = {} /\ failed = {} /\ short = {} /\ timer = Interval /\ elapsed = 0
  BY DEF Init
<1>3. due \in BOOLEAN
  BY DEF Init
<1>4. Interval \in 1..Interval /\ 0 \in 0..PassTime
  BY TTLAssumption, BoundAssumption
<1>5. Distinct(<<>>) /\ Elements(<<>>) = {} /\ <<>> \in Seq(Uri)
  BY DEF Distinct, Elements
<1> QED
  BY <1>1, <1>2, <1>3, <1>4, <1>5 DEF Inv, TypeOK, PassOK

\* For any lists, bounds and claims.
THEOREM InvHolds == Spec => []Inv
  BY InitInv, InvStep, PTL DEF Spec

\* Whatever the claims of the tokens, a copy is cached within the clamps, and the
\* pass deals with URIs of the shared set, each once.
THEOREM TypeCorrect == Spec => []TypeOK
  BY InvHolds, PTL DEF Inv
-----------------------------------------------------------------------------
(* What outlives the wait for the next pass.                               *)

\* The ticks until the next pass starts, at most, if this one is over within
\* the interval.
Left == IF step # "idle" THEN Interval - elapsed ELSE IF due THEN 0 ELSE timer

\* The copy of u outlives them.
Warm(u) == lists[u].ttl > Left

\* The end of the pass brings the next one no later.
LEMMA LeftShrinks ==
  ASSUME Inv, UNCHANGED <<timer, due, elapsed>>, step = "idle" => step' = "idle",
         elapsed <= Interval
  PROVE  Left' <= Left /\ Left' \in Nat /\ Left \in Nat
<1>1. Interval \in Nat /\ timer \in Nat /\ elapsed \in Nat
  BY Numbers DEF Inv
<1>2. step # "idle" /\ ~due => timer + elapsed <= Interval
  BY DEF Inv, PassOK
<1>3. due' = due
  OBVIOUS
<1>4. CASE step = "idle"
  BY <1>1, <1>3, <1>4 DEF Left
<1>5. CASE step # "idle" /\ step' # "idle"
  BY <1>1, <1>5 DEF Left
<1>6. CASE step # "idle" /\ step' = "idle"
  <2>1. Left = Interval - elapsed /\ Left' = IF due THEN 0 ELSE timer
    BY <1>3, <1>6 DEF Left
  <2> QED
    BY <1>1, <1>2, <1>6, <2>1
<1> QED
  BY <1>4, <1>5, <1>6

\* A copy that nobody touches stays warm until the next pass starts.
LEMMA StaysWarmer ==
  ASSUME Inv, [Next]_vars, ~ListRefs, ~ListError, elapsed' <= Interval,
         NEW u \in Uri, Tick \/ lists'[u] = lists[u], Warm(u), elapsed <= Interval
  PROVE  Warm(u)'
<1>1. Interval \in Nat /\ timer \in 1..Interval /\ elapsed \in Nat /\ lists[u].ttl \in Nat
  BY Numbers DEF Inv
<1>2. CASE Tick
  <2>1. lists'[u].ttl = Less(lists[u].ttl) /\ step' = step
    BY <1>2, Older DEF Inv, Tick, pass
  <2>2. CASE step # "idle"
    <3>1. Left = Interval - elapsed /\ elapsed' = elapsed + 1 /\ Left' = Interval - (elapsed + 1)
      BY <1>2, <2>1, <2>2 DEF Left, Tick
    <3> QED
      BY <1>1, <2>1, <3>1 DEF Warm, Less
  <2>3. CASE step = "idle"
    <3>1. ~due
      BY <1>2, <2>3, Zenon DEF Tick
    <3>2. Left = timer
      BY <2>3, <3>1 DEF Left
    <3>3. CASE timer = 1
      <4>1. due'
        BY <1>2, <3>3, Zenon DEF Tick
      <4>2. Left' = 0
        BY <2>1, <2>3, <4>1 DEF Left
      <4> QED
        BY <1>1, <2>1, <3>2, <3>3, <4>2 DEF Warm, Less
    <3>4. CASE timer # 1
      <4>1. ~due'
        BY <1>2, <3>1, <3>4, Zenon DEF Tick
      <4>2. timer' = timer - 1
        <5>1. timer' = IF timer > 1 THEN timer - 1 ELSE Interval
          BY <1>2, Zenon DEF Tick
        <5> QED
          BY <1>1, <3>4, <5>1
      <4>3. Left' = timer - 1
        BY <2>1, <2>3, <4>1, <4>2 DEF Left
      <4> QED
        BY <1>1, <2>1, <3>2, <4>3 DEF Warm, Less
    <3> QED
      BY <3>3, <3>4
  <2> QED
    BY <2>2, <2>3
<1>3. CASE lists'[u] = lists[u] /\ ~Tick
  <2>1. UNCHANGED <<timer, due, elapsed>> /\ (step = "idle" => step' = "idle")
    BY <1>3 DEF Next, Hit, Miss, CheckError, FetchError, WriteError, UriError, Refresh, WriteReplyLost, Trim,
                Reference, pass, vars
  <2> QED
    BY <1>1, <1>3, <2>1, LeftShrinks DEF Warm
<1> QED
  BY <1>2, <1>3

\* A pass whose length is counted only grows longer until the next one.
LEMMA Longer ==
  ASSUME Inv, [Next]_vars, ~ListRefs, ~ListError, elapsed' <= Interval
  PROVE  elapsed <= Interval
<1>1. elapsed' = elapsed \/ elapsed' = elapsed + 1
  BY DEF Next, Hit, Miss, CheckError, FetchError, WriteError, UriError, Refresh, WriteReplyLost, Trim,
         Reference, Tick, vars
<1> QED
  BY <1>1, Numbers DEF Inv

\* A copy that has more than the interval left during a pass, because it was
\* found so or was fetched, is warm.
LEMMA FoundWarm ==
  ASSUME Inv, step' # "idle", UNCHANGED <<elapsed>>, NEW u \in Uri, lists'[u].ttl \in Nat,
         lists'[u].ttl > Interval
  PROVE  Warm(u)'
  BY Numbers DEF Inv, Warm, Left

\* The hits of a pass that is not yet too long.
HitsWarm == elapsed <= Interval => \A u \in hits : Warm(u)

\* A hit is warm when it is found, and no later fetch of the pass replaces it.
LEMMA HitsStep == Inv /\ HitsWarm /\ [Next]_vars => HitsWarm'
<1> SUFFICES ASSUME Inv, HitsWarm, [Next]_vars, elapsed' <= Interval, NEW u \in hits'
             PROVE  Warm(u)'
  BY DEF HitsWarm
<1>1. ~ListRefs /\ ~ListError
  BY DEF ListRefs, ListError
<1>2. elapsed <= Interval
  BY <1>1, Longer
<1>3. hits \subseteq Uri
  BY DEF Inv, TypeOK
<1>4. CASE Hit
  <2>1. CASE u = Head(todo)
    <3>1. /\ lists[u].ttl > Interval /\ lists' = lists /\ elapsed' = elapsed /\ u \in Uri
          /\ step' # "idle"
      BY <1>4, <2>1, NextFacts DEF Hit
    <3>2. lists'[u].ttl \in Nat
      BY <3>1, Numbers DEF Inv
    <3> QED
      BY <3>1, <3>2, FoundWarm
  <2>2. CASE u # Head(todo)
    <3>1. u \in hits /\ lists'[u] = lists[u]
      BY <1>4, <2>2 DEF Hit
    <3> QED
      BY <1>1, <1>2, <1>3, <3>1, StaysWarmer DEF HitsWarm
  <2> QED
    BY <2>1, <2>2
<1>5. CASE ~Hit
  <2>1. u \in hits
    BY <1>1, <1>5 DEF Next, Miss, CheckError, FetchError, WriteError, UriError, Refresh, WriteReplyLost, Trim,
                      Reference, Tick, pass, vars
  <2>2. Tick \/ lists'[u] = lists[u]
    <3>1. ASSUME NEW c \in Claims, Refresh(c) \/ WriteReplyLost(c) PROVE lists'[u] = lists[u]
      <4>1. u # Head(todo)
        BY <2>1, <3>1, NextFacts DEF Refresh, WriteReplyLost
      <4> QED
        BY <1>3, <2>1, <3>1, <4>1 DEF Refresh, WriteReplyLost, SetBytes, Inv, TypeOK
    <3> QED
      BY <1>1, <1>5, <3>1 DEF Next, Miss, CheckError, FetchError, WriteError, UriError, Trim,
                              Reference, Tick, vars
  <2> QED
    BY <1>1, <1>2, <1>3, <2>1, <2>2, StaysWarmer DEF HitsWarm
<1> QED
  BY <1>4, <1>5

\* "It survives until the next cycle": whenever a pass starts, what the last one
\* skipped is still cached if that one was over within the interval, for any
\* clamps, claims, faults and lengths of earlier passes.
THEOREM HitsAlwaysSurvive == Spec => HitSurvives
<1> DEFINE Step == (ListRefs \/ ListError) /\ elapsed <= Interval
                     => \A u \in hits : Present(lists[u])
<1>1. Init => HitsWarm
  BY DEF Init, HitsWarm
<1>2. Inv /\ HitsWarm /\ [Next]_vars => [Step]_vars
  <2> SUFFICES ASSUME Inv, HitsWarm, ListRefs \/ ListError, elapsed <= Interval, NEW u \in hits
               PROVE  Present(lists[u])
    OBVIOUS
  <2>1. Left = 0
    BY DEF ListRefs, ListError, Left
  <2> QED
    BY <2>1 DEF HitsWarm, Warm, Present
<1> QED
  BY InvHolds, HitsStep, <1>1, <1>2, PTL DEF Spec, HitSurvives
-----------------------------------------------------------------------------
(* The lists at the top.                                                   *)

\* What the pass has dealt with, no call failed for and no token cut short: hits,
\* and lists it fetched and cached for longer than the interval.
Settled == listed \ (failed \cup short \cup Elements(todo))

\* They are warm.
SettledWarm == elapsed <= Interval => \A u \in Settled : Warm(u)

\* A lower clamp above the interval leaves no list out.  Validation does not ask
\* for it, and the shipped one is half of the interval.
NeverShort == short = {}
LEMMA NoneShort == ASSUME MinTTL > Interval, NeverShort, [Next]_vars PROVE NeverShort'
<1>1. ASSUME NEW c \in Claims PROVE ~(ClampTTL(PeekTTL(c)) <= Interval)
  BY <1>1, Cached, TTLAssumption
<1> QED
  BY <1>1 DEF NeverShort, Next, ListRefs, ListError, Hit, Miss, CheckError, FetchError, WriteError,
              UriError, Refresh, WriteReplyLost, Trim, Reference, Tick, pass, vars

\* A list leaves the pass by a hit, by a failed call or with a fresh copy.
LEMMA SettledStep == Inv /\ SettledWarm /\ [Next]_vars => SettledWarm'
<1> SUFFICES ASSUME Inv, SettledWarm, [Next]_vars, elapsed' <= Interval, NEW u \in Settled'
             PROVE  Warm(u)'
  BY DEF SettledWarm
<1>1. u \in listed' /\ u \notin failed' /\ u \notin short' /\ u \notin Elements(todo)'
  BY DEF Settled
<1>2. ~ListRefs /\ ~ListError
  BY <1>1 DEF ListRefs, ListError, Elements
<1>3. elapsed <= Interval
  BY <1>2, Longer
<1>4. listed' = listed /\ failed \subseteq failed' /\ short \subseteq short' /\ u \in Uri
  <2>1. listed' = listed /\ failed \subseteq failed' /\ short \subseteq short'
    BY <1>2 DEF Next, Hit, Miss, CheckError, FetchError, WriteError, UriError, Refresh, WriteReplyLost, Trim,
                Reference, Tick, pass, vars
  <2> QED
    BY <1>1, <2>1 DEF Inv, TypeOK
<1>5. CASE u \in Elements(todo)
  <2>1. ~Miss /\ ~Trim /\ ~Tick /\ ~(\E v \in Uri : Reference(v)) /\ ~UNCHANGED vars
    BY <1>1, <1>5 DEF Miss, Trim, Tick, Reference, pass, vars, Elements
  <2>2. step \in {"check", "fetch"} /\ NextUri
    BY <1>2, <2>1 DEF Next, Hit, CheckError, FetchError, WriteError, UriError, Refresh, WriteReplyLost
  <2>3. u = Head(todo)
    BY <1>1, <1>5, <2>2, NextFacts
  <2>4. ~CheckError /\ ~FetchError /\ ~WriteError /\ ~(\E c \in Claims : WriteReplyLost(c))
    BY <1>1, <2>3 DEF CheckError, FetchError, WriteError, UriError, WriteReplyLost
  <2>5. step' # "idle" /\ elapsed' = elapsed
    BY <1>2, <2>1, <2>2, <2>4, NextFacts DEF Next, Hit, Refresh
  <2>6. CASE Hit
    <3>1. lists'[u].ttl > Interval /\ lists'[u].ttl \in Nat
      BY <1>4, <2>3, <2>6, Numbers DEF Hit, Inv
    <3> QED
      BY <1>4, <2>5, <3>1, FoundWarm
  <2>7. ASSUME NEW c \in Claims, Refresh(c) PROVE Warm(u)'
    <3>1. lists'[u].ttl = ClampTTL(PeekTTL(c))
      BY <1>4, <2>3, <2>7 DEF Refresh, SetBytes, Inv, TypeOK
    <3>2. ~(ClampTTL(PeekTTL(c)) <= Interval)
      BY <1>1, <2>3, <2>7 DEF Refresh
    <3>3. lists'[u].ttl > Interval /\ lists'[u].ttl \in Nat
      BY <3>1, <3>2, Cached, TTLAssumption
    <3> QED
      BY <1>4, <2>5, <3>3, FoundWarm
  <2> QED
    BY <1>2, <2>1, <2>4, <2>6, <2>7 DEF Next
<1>6. CASE u \notin Elements(todo)
  <2>1. u \in Settled
    BY <1>1, <1>4, <1>6 DEF Settled
  <2>2. Tick \/ lists'[u] = lists[u]
    <3>1. ASSUME NEW c \in Claims, Refresh(c) \/ WriteReplyLost(c) PROVE lists'[u] = lists[u]
      <4>1. Head(todo) \in Elements(todo) /\ Head(todo) \in Uri
        BY <3>1, Rest DEF Refresh, WriteReplyLost, Inv, TypeOK, PassOK
      <4> QED
        BY <1>4, <1>6, <3>1, <4>1 DEF Refresh, WriteReplyLost, SetBytes, Inv, TypeOK
    <3> QED
      BY <1>2, <3>1 DEF Next, Hit, Miss, CheckError, FetchError, WriteError, UriError, Trim,
                        Reference, Tick, vars
  <2> QED
    BY <1>2, <1>3, <1>4, <2>1, <2>2, StaysWarmer DEF SettledWarm
<1> QED
  BY <1>5, <1>6

\* "Keeps the top-N most recently referenced status lists warm": between two
\* passes every list the last one found at the top is cached, but for those a
\* call failed for and those whose tokens claim no more than the interval,
\* however references reorder the set meanwhile.
THEOREM AlwaysWarm == Spec => []StaysWarm
<1>1. Init => SettledWarm
  BY DEF Init, SettledWarm, Settled
<1>2. Inv /\ SettledWarm => StaysWarm
  <2> SUFFICES ASSUME Inv, SettledWarm, step = "idle", elapsed <= Interval,
                      NEW u \in listed \ (failed \cup short)
               PROVE  Present(lists[u])
    BY DEF StaysWarm
  <2>1. Elements(todo) = {} /\ u \in Uri
    BY DEF Inv, TypeOK, Elements
  <2>2. Warm(u)
    BY <2>1 DEF SettledWarm, Settled
  <2>3. Left >= 0 /\ Left \in Int /\ lists[u].ttl \in Int
    BY <2>1, Numbers DEF Inv, Left
  <2> QED
    BY <2>2, <2>3 DEF Warm, Present
<1>3. Inv /\ SettledWarm /\ [Next]_vars => SettledWarm'
  BY SettledStep
<1> QED
  BY InvHolds, <1>1, <1>2, <1>3, PTL DEF Spec

\* With a lower clamp above the interval that is every list at the top that could
\* be fetched: it is refreshed ahead of its TTL.
THEOREM AheadWithLongClamp == ASSUME MinTTL > Interval PROVE Spec => []RefreshedAheadOfTTL
<1>1. Init => NeverShort
  BY DEF Init, NeverShort
<1>2. NeverShort /\ [Next]_vars => NeverShort'
  BY NoneShort
<1>3. NeverShort /\ StaysWarm => RefreshedAheadOfTTL
  BY DEF NeverShort, StaysWarm, RefreshedAheadOfTTL
<1> QED
  BY AlwaysWarm, <1>1, <1>2, <1>3, PTL DEF Spec

-----------------------------------------------------------------------------
(* What outlives its exp.                                                  *)

\* A copy is gone by the exp its token claims or within the lower clamp.
Capped ==
  \A u \in Uri : lists[u].exp # NoClaim => lists[u].ttl <= Larger(lists[u].exp, MinTTL)

\* The timer and the distance to exp move together, and exp stops at 0.
LEMMA CappedStep == Inv /\ Capped /\ [Next]_vars => Capped'
<1> SUFFICES ASSUME Inv, Capped, [Next]_vars, NEW u \in Uri, lists'[u].exp # NoClaim
             PROVE  lists'[u].ttl <= Larger(lists'[u].exp, MinTTL)
  BY DEF Capped
<1>1. /\ MinTTL \in Nat /\ MinTTL > 0 /\ lists[u].ttl \in Nat
      /\ lists[u].exp \in Int \cup {NoClaim} /\ NoClaim \notin Int
  BY Numbers, ClaimsAssumption DEF Inv
<1>2. ASSUME lists'[u] = lists[u] PROVE lists'[u].ttl <= Larger(lists'[u].exp, MinTTL)
  BY <1>2 DEF Capped
<1>3. CASE Tick
  <2>1. lists'[u].ttl = Less(lists[u].ttl) /\ (Present(lists'[u]) \/ lists'[u] = NotCached)
    BY <1>3, Older DEF Inv
  <2>2. Present(lists'[u])
    BY <2>1 DEF NotCached
  <2>3. lists'[u].exp = IF lists[u].exp = NoClaim THEN NoClaim ELSE Less(lists[u].exp)
    BY <1>3, <2>2, Older DEF Inv, Present
  <2>4. lists[u].exp \in Int /\ lists'[u].exp = Less(lists[u].exp)
    BY <1>1, <2>3
  <2>5. lists[u].ttl <= Larger(lists[u].exp, MinTTL)
    BY <1>1, <2>4 DEF Capped
  <2> QED
    BY <1>1, <2>1, <2>2, <2>4, <2>5 DEF Present, Larger, Less
<1>4. ASSUME NEW c \in Claims, Refresh(c) \/ WriteReplyLost(c) PROVE lists'[u].ttl <= Larger(lists'[u].exp, MinTTL)
  <2>1. CASE u = Head(todo)
    <3>1. lists'[u] = [ttl |-> ClampTTL(PeekTTL(c)), exp |-> c.exp]
      BY <1>4, <2>1 DEF Refresh, WriteReplyLost, SetBytes, Inv, TypeOK
    <3> QED
      BY <3>1, Cached
  <2>2. CASE u # Head(todo)
    BY <1>2, <1>4, <2>2 DEF Refresh, WriteReplyLost, SetBytes, Inv, TypeOK
  <2> QED
    BY <2>1, <2>2
<1>5. CASE ~Tick /\ ~(\E c \in Claims : Refresh(c) \/ WriteReplyLost(c))
  <2>1. lists'[u] = lists[u]
    BY <1>5 DEF Next, ListRefs, ListError, Hit, Miss, CheckError, FetchError, WriteError,
                UriError, Trim, Reference, vars
  <2> QED
    BY <1>2, <2>1
<1> QED
  BY <1>3, <1>4, <1>5

\* "exp caps ttl, never extends it": no copy outlives the exp of its token for
\* longer than the lower clamp, whatever its ttl claim wraps around to.
THEOREM AlwaysGoneSoon == Spec => []GoneSoonAfterExp
<1>1. Init => Capped
  BY DEF Init, Capped, NotCached
<1>2. Inv /\ Capped => GoneSoonAfterExp
  <2> SUFFICES ASSUME Inv, Capped, NEW u \in Uri, lists[u].exp # NoClaim, lists[u].exp <= 0
               PROVE  lists[u].ttl <= MinTTL
    BY DEF GoneSoonAfterExp
  <2>1. lists[u].exp \in Int /\ MinTTL \in Nat /\ lists[u].ttl <= Larger(lists[u].exp, MinTTL)
    BY Numbers DEF Inv, Capped
  <2> QED
    BY <2>1 DEF Larger
<1> QED
  BY InvHolds, CappedStep, <1>1, <1>2, PTL DEF Spec
=============================================================================
