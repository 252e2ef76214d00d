---------------------------- MODULE PacingProofs ----------------------------
(***************************************************************************)
(* What the arithmetic of api/llm/rate_limits.py and api/llm/pacing.py     *)
(* comes to for every header block: the wait before a call is the least    *)
(* whole number of seconds after which every bucket can hold the call.     *)
(***************************************************************************)
EXTENDS Pacing, Integers, TLAPS

\* Whole division, for divisors that are not numerals.
LEMMA DivBounds ==
  ASSUME NEW a \in Nat, NEW b \in Nat \ {0}
  PROVE  a \div b \in Nat /\ b * (a \div b) <= a /\ a < b * (a \div b) + b
<1>1. a = b * (a \div b) + (a % b) /\ a % b \in 0..(b - 1) /\ a \div b \in Int
  OBVIOUS
<1>2. a \div b \in Nat OBVIOUS
<1> QED BY <1>1, <1>2

\* A product of positive numbers keeps an order between one of its factors.
LEMMA TimesOrder ==
  ASSUME NEW k \in Nat \ {0}, NEW x \in Int, NEW y \in Int
  PROVE  k * x < k * y <=> x < y
OBVIOUS

\* The seconds after which u tokens every r seconds make up m, rounded up, are
\* the first after which their number, rounded down, does.
LEMMA CeilingAffords ==
  ASSUME NEW u \in Nat \ {0}, NEW r \in Nat \ {0}, NEW m \in Nat, NEW t \in Nat
  PROVE  (u * t) \div r < m <=> t < (m * r + u - 1) \div u
<1> DEFINE level == (u * t) \div r
           wait == (m * r + u - 1) \div u
<1>1. u * t \in Nat /\ m * r \in Nat /\ m * r + u - 1 \in Nat
  <2>1. u * t \in Nat /\ m * r \in Nat OBVIOUS
  <2> QED BY <2>1
<1>2. level \in Nat /\ r * level <= u * t /\ u * t < r * level + r
  BY <1>1, DivBounds
<1>3. /\ wait \in Nat /\ u * wait <= m * r + u - 1
      /\ m * r + u - 1 < u * wait + u
  BY <1>1, DivBounds
<1> HIDE DEF level, wait
<1>4. level < m <=> u * t < m * r
  <2>1. ASSUME level < m PROVE u * t < m * r
    <3>1. level + 1 <= m BY <1>2, <2>1
    <3>2. r * (level + 1) <= r * m
      BY <1>2, <3>1
    <3>3. r * (level + 1) = r * level + r /\ r * m = m * r BY <1>2
    <3> QED BY <1>1, <1>2, <3>2, <3>3
  <2>2. ASSUME ~(level < m) PROVE ~(u * t < m * r)
    <3>1. m <= level BY <1>2, <2>2
    <3>2. r * m <= r * level BY <1>2, <3>1
    <3>3. r * m = m * r /\ r * level \in Int BY <1>2
    <3> QED BY <1>1, <1>2, <3>2, <3>3
  <2> QED BY <2>1, <2>2
<1>5. t < wait <=> u * t < m * r
  <2>1. ASSUME t < wait PROVE u * t < m * r
    <3>1. t + 1 <= wait BY <1>3, <2>1
    <3>2. u * (t + 1) <= u * wait BY <1>3, <3>1
    <3>3. u * (t + 1) = u * t + u /\ u * wait \in Int BY <1>3
    <3> QED BY <1>1, <1>3, <3>2, <3>3
  <2>2. ASSUME ~(t < wait) PROVE ~(u * t < m * r)
    <3>1. wait <= t BY <1>3, <2>2
    <3>2. u * wait <= u * t BY <1>3, <3>1
    <3>3. u * wait \in Int BY <1>3
    <3> QED BY <1>1, <1>3, <3>2, <3>3
  <2> QED BY <2>1, <2>2
<1> QED BY <1>4, <1>5 DEF level, wait

\* Bucket.seconds_to_afford is exact: a bucket that refills is short of an
\* amount at just the moments before it.
LEMMA SecondsAreExact ==
  ASSUME NEW bucket \in Bucket, NEW amount \in Nat, NEW t \in Nat,
         bucket.remaining # None, Refills(bucket)
  PROVE  LevelAfter(bucket, t) < amount <=> t < SecondsToAfford(bucket, amount)
<1>1. /\ Used(bucket) \in Nat \ {0} /\ bucket.reset \in Nat \ {0}
      /\ bucket.remaining \in Nat
  BY PacingAssumption DEF Refills, Used, Bucket
<1>2. PICK u \in Nat \ {0}, r \in Nat \ {0}, left \in Nat :
        u = Used(bucket) /\ r = bucket.reset /\ left = bucket.remaining
  BY <1>1
<1>3. LevelAfter(bucket, t) = left + (u * t) \div r BY <1>2 DEF LevelAfter
<1>4. (u * t) \div r \in Nat
  <2>1. u * t \in Nat OBVIOUS
  <2> QED BY <2>1, DivBounds
<1>5. CASE amount <= left
  <2>1. SecondsToAfford(bucket, amount) = 0 BY <1>2, <1>5 DEF SecondsToAfford
  <2>2. ~(left + (u * t) \div r < amount) BY <1>4, <1>5
  <2> QED BY <1>3, <2>1, <2>2
<1>6. CASE amount > left
  <2>1. PICK m \in Nat : m = amount - left BY <1>6
  <2>2. SecondsToAfford(bucket, amount) = (m * r + u - 1) \div u
    BY <1>2, <1>6, <2>1 DEF SecondsToAfford
  <2>3. left + (u * t) \div r < amount <=> (u * t) \div r < m
    BY <1>4, <2>1
  <2> QED BY <1>3, <2>2, <2>3, CeilingAffords
<1> QED BY <1>5, <1>6

\* It is a number of seconds, whatever the bucket knows of itself.
LEMMA SecondsAreNat ==
  ASSUME NEW bucket \in Bucket, NEW amount \in Nat
  PROVE  SecondsToAfford(bucket, amount) \in Nat
<1>1. CASE bucket.remaining = None \/ ~Refills(bucket)
  BY <1>1 DEF SecondsToAfford
<1>2. CASE bucket.remaining # None /\ Refills(bucket)
  <2>1. /\ Used(bucket) \in Nat \ {0} /\ bucket.reset \in Nat \ {0}
        /\ bucket.remaining \in Nat
    BY <1>2, PacingAssumption DEF Refills, Used, Bucket
  <2>2. CASE amount <= bucket.remaining BY <1>2, <2>2 DEF SecondsToAfford
  <2>3. CASE amount > bucket.remaining
    <3>1. PICK u \in Nat \ {0}, r \in Nat \ {0}, m \in Nat :
            /\ u = Used(bucket) /\ r = bucket.reset
            /\ m = amount - bucket.remaining
      BY <2>1, <2>3
    <3>2. SecondsToAfford(bucket, amount) = (m * r + u - 1) \div u
      BY <1>2, <2>1, <2>3, <3>1 DEF SecondsToAfford
    <3>3. m * r \in Nat OBVIOUS
    <3>4. m * r + u - 1 \in Nat BY <3>3
    <3> QED BY <3>2, <3>4, DivBounds
  <2> QED BY <2>1, <2>2, <2>3
<1> QED BY <1>1, <1>2

----------------------------------------------------------------------------
(* What is read is a snapshot.                                             *)

\* The values a header block may have.
HeaderBlock(headers) ==
  headers = None \/ \A name \in DOMAIN headers :
    headers[name] \in Nat \cup Duration \cup {Garbled}

\* A duration that parses is a whole number of seconds.
LEMMA DurationIsNat ==
  ASSUME NEW value \in Nat \cup Duration \cup {Garbled, None}
  PROVE  ParseDuration(value) \in Nat \cup {None}
<1>1. CASE value \in {None, Garbled} \/ value \in Nat
  BY <1>1 DEF ParseDuration
<1>2. CASE value \in Duration /\ value \notin Nat /\ value \notin {None, Garbled}
  <2>1. PICK h \in Nat, m \in Nat, s \in Nat, ms \in Nat :
          h = value.h /\ m = value.m /\ s = value.s /\ ms = value.ms
    BY <1>2 DEF Duration
  <2>2. (ms + 999) \div 1000 \in Nat OBVIOUS
  <2>3. h * 3600 + m * 60 + s + (ms + 999) \div 1000 \in Nat BY <2>2
  <2> QED BY <1>2, <2>1, <2>3 DEF ParseDuration
<1> QED BY <1>1, <1>2

\* Whatever the headers are, each vendor's reading of them is a snapshot or none.
LEMMA SnapshotTyped ==
  ASSUME NEW headers, HeaderBlock(headers)
  PROVE  /\ SnapshotFromHeaders(headers) \in RateLimitSnapshot \cup {None}
         /\ SnapshotFromCerebrasHeaders(headers) \in RateLimitSnapshot \cup {None}
<1>1. ASSUME NEW name, headers # None
      PROVE  /\ AsInt(Value(headers, name)) \in Nat \cup {None}
             /\ ParseDuration(Value(headers, name)) \in Nat \cup {None}
  <2>1. Value(headers, name) \in Nat \cup Duration \cup {Garbled, None}
    BY <1>1 DEF Value, HeaderBlock
  <2> QED BY <2>1, DurationIsNat DEF AsInt
<1>2. ASSUME NEW names, headers # None PROVE ReadBucket(headers, names) \in Bucket
  BY <1>1, <1>2 DEF ReadBucket, Bucket
<1>3. ASSUME NEW names, headers # None
      PROVE  Snapshot(headers, names) \in RateLimitSnapshot
  BY <1>1, <1>2, <1>3 DEF Snapshot, RateLimitSnapshot
<1> QED BY <1>3 DEF SnapshotFromHeaders, SnapshotFromCerebrasHeaders

----------------------------------------------------------------------------
(* The wait.                                                               *)

\* What the pacer reckons from is typed.
Reckoning ==
  /\ lastLimits \in RateLimitSnapshot
  /\ lastUsage \in TokenUsage \cup {None}

\* What a call needs of each bucket is a number.
LEMMA DemandsTyped ==
  ASSUME Reckoning
  PROVE  Demands \subseteq [bucket : Bucket, amount : Nat]
<1> USE PacingAssumption
<1>1. lastLimits.tokens \in Bucket /\ lastLimits.requests \in Bucket
  BY DEF Reckoning, RateLimitSnapshot
<1>2. NextCallCost \in Nat BY DEF NextCallCost, Reckoning, TokenUsage
<1>3. lastLimits.tokens.limit \notin {None, 0} => Needed(lastLimits.tokens) \in Nat
  <2> SUFFICES ASSUME lastLimits.tokens.limit \notin {None, 0}
               PROVE  Needed(lastLimits.tokens) \in Nat
    OBVIOUS
  <2>1. PICK n \in Nat : n = lastLimits.tokens.limit BY <1>1 DEF Bucket
  <2>2. n \div 5 \in Nat OBVIOUS
  <2> QED BY <1>2, <2>1, <2>2 DEF Needed
<1> QED BY <1>1, <1>3 DEF Demands

\* One of the waits is the longest.
LEMMA WaitIsLongest ==
  ASSUME Reckoning, NEW e \in Nat
  PROVE  LET waits == {0} \cup {Beyond(SecondsToAfford(d.bucket, d.amount), e) :
                                  d \in Demands}
         IN  WaitFor(e) \in waits /\ \A v \in waits : v <= WaitFor(e)
<1> DEFINE F(d) == Beyond(SecondsToAfford(d.bucket, d.amount), e)
           waits == {0} \cup {F(d) : d \in Demands}
           first == [bucket |-> lastLimits.tokens, amount |-> Needed(lastLimits.tokens)]
           second == [bucket |-> lastLimits.requests, amount |-> 1]
<1>1. Demands \subseteq {first, second} BY DEF Demands
<1>2. \A d \in Demands : F(d) \in Nat
  BY DemandsTyped, SecondsAreNat DEF Beyond
<1>3. PICK a, b : a = F(first) /\ b = F(second) OBVIOUS
<1>4. waits \subseteq {0, a, b} BY <1>1, <1>3
<1>5. \A w \in waits : w \in Nat BY <1>2
<1>6. 0 \in waits OBVIOUS
<1> HIDE DEF waits
<1>7. \E w \in waits : \A v \in waits : v <= w
  <2>1. CASE a \in waits /\ b \in waits BY <1>4, <1>5, <1>6, <2>1
  <2>2. CASE a \notin waits /\ b \in waits BY <1>4, <1>5, <1>6, <2>2
  <2>3. CASE a \in waits /\ b \notin waits BY <1>4, <1>5, <1>6, <2>3
  <2>4. CASE a \notin waits /\ b \notin waits BY <1>4, <1>5, <1>6, <2>4
  <2> QED BY <2>1, <2>2, <2>3, <2>4
<1>8. WaitFor(e) = CHOOSE w \in waits : \A v \in waits : v <= w
  BY Zenon DEF WaitFor, waits
<1> QED BY <1>7, <1>8 DEF waits

\* The wait ends the shortage, and one second less would not.
LEMMA WaitEndsTheShortage ==
  ASSUME Reckoning, NEW e \in Nat
  PROVE  /\ WaitFor(e) \in Nat
         /\ ~Short(e + WaitFor(e))
         /\ WaitFor(e) > 0 => Short(e + WaitFor(e) - 1)
<1> USE DemandsTyped
<1> DEFINE S(d) == SecondsToAfford(d.bucket, d.amount)
<1>1. \A d \in Demands : S(d) \in Nat BY SecondsAreNat
<1>2. /\ WaitFor(e) = 0 \/ \E d \in Demands : WaitFor(e) = Beyond(S(d), e)
      /\ \A d \in Demands : Beyond(S(d), e) <= WaitFor(e)
  BY WaitIsLongest
<1>3. WaitFor(e) \in Nat BY <1>1, <1>2 DEF Beyond
<1>4. ASSUME NEW d \in Demands, Refills(d.bucket), NEW t \in Nat
      PROVE  LevelAfter(d.bucket, t) < d.amount <=> t < S(d)
  <2>1. d.bucket \in Bucket /\ d.amount \in Nat OBVIOUS
  <2>2. d.bucket.remaining # None
    BY <1>4, PacingAssumption DEF Refills, Used
  <2> QED BY <1>4, <2>1, <2>2, SecondsAreExact
<1> HIDE DEF S
<1>5. ~Short(e + WaitFor(e))
  <2> SUFFICES ASSUME NEW d \in Demands, Refills(d.bucket),
                      LevelAfter(d.bucket, e + WaitFor(e)) < d.amount
               PROVE  FALSE
    BY DEF Short
  <2>1. e + WaitFor(e) \in Nat BY <1>3
  <2>2. e + WaitFor(e) < S(d) BY <1>4, <2>1
  <2>3. Beyond(S(d), e) <= WaitFor(e) BY <1>2
  <2> QED BY <1>1, <1>3, <2>2, <2>3 DEF Beyond
<1>6. ASSUME WaitFor(e) > 0 PROVE Short(e + WaitFor(e) - 1)
  <2>1. PICK d \in Demands : WaitFor(e) = Beyond(S(d), e) BY <1>2, <1>6
  <2>2. S(d) \in Nat /\ S(d) > e /\ e + WaitFor(e) - 1 < S(d)
        /\ e + WaitFor(e) - 1 \in Nat
    BY <1>1, <1>6, <2>1 DEF Beyond
  <2>3. Refills(d.bucket)
    BY <2>2 DEF S, SecondsToAfford
  <2> QED BY <1>4, <2>2, <2>3 DEF Short
<1> QED BY <1>3, <1>5, <1>6
=============================================================================
