------------------------------- MODULE Pacing -------------------------------
(***************************************************************************)
(* What a provider says about its limits (api/llm/rate_limits.py), the two *)
(* vendors that say it, and PacedProvider of api/llm/pacing.py, which      *)
(* waits before a call when the last answer said to.                       *)
(*                                                                         *)
(* Seconds and tokens are whole numbers: a wait is rounded up, and so is a *)
(* duration of so many milliseconds.  A header block is a function from    *)
(* header names to values; a refusal is the limit its body names, if any.  *)
(***************************************************************************)
EXTENDS Naturals, FiniteSets, Tokens

CONSTANTS
  FirstCallTokens,  \* DEFAULT_CALL_TOKENS
  MaxRetryWait,     \* MAX_RETRY_WAIT_SECONDS
  Garbled,          \* a header value that does not parse
  None              \* no value, no header block, no report

ASSUME PacingAssumption ==
  /\ FirstCallTokens \in Nat /\ MaxRetryWait \in Nat
  /\ None \notin Nat /\ Garbled \notin Nat /\ None # Garbled

VARIABLES
  lastUsage,    \* last_usage: what the latest call cost, or None
  lastLimits,   \* last_rate_limit: the snapshot of the latest call, or None
  retryAfter,   \* _retry_after
  paced,        \* spent and calls_made: what went through the wrapper
  pause         \* before the call under way: the time gone by, and the wait

pacing == <<lastUsage, lastLimits, retryAfter, paced, pause>>

----------------------------------------------------------------------------
(* Reading the headers.                                                    *)

Value(headers, name) == IF name \in DOMAIN headers THEN headers[name] ELSE None

AsInt(value) == IF value \in Nat THEN value ELSE None

\* parse_duration: a bare number of seconds, or hours, minutes, seconds and
\* milliseconds.
Duration == [h : Nat, m : Nat, s : Nat, ms : Nat]

ParseDuration(value) ==
  IF value \in {None, Garbled} THEN None
  ELSE IF value \in Nat THEN value
  ELSE value.h * 3600 + value.m * 60 + value.s + (value.ms + 999) \div 1000

GroqNames ==
  [tokens |-> [limit |-> "limit-tokens", remaining |-> "remaining-tokens",
               reset |-> "reset-tokens"],
   requests |-> [limit |-> "limit-requests", remaining |-> "remaining-requests",
                 reset |-> "reset-requests"]]

CerebrasNames ==
  [tokens |-> [limit |-> "limit-tokens-minute",
               remaining |-> "remaining-tokens-minute",
               reset |-> "reset-tokens-minute"],
   requests |-> [limit |-> "limit-requests-day",
                 remaining |-> "remaining-requests-day",
                 reset |-> "reset-requests-day"]]

ReadBucket(headers, names) ==
  [limit |-> AsInt(Value(headers, names.limit)),
   remaining |-> AsInt(Value(headers, names.remaining)),
   reset |-> ParseDuration(Value(headers, names.reset))]

Snapshot(headers, names) ==
  [tokens |-> ReadBucket(headers, names.tokens),
   requests |-> ReadBucket(headers, names.requests),
   retry |-> ParseDuration(Value(headers, "retry-after"))]

\* No block, or one without any limit header, says nothing: `known` is what
\* every snapshot is.
SnapshotFromHeaders(headers) ==
  IF headers = None \/ DOMAIN headers = {} THEN None
  ELSE Snapshot(headers, GroqNames)

SnapshotFromCerebrasHeaders(headers) ==
  IF headers = None \/ DOMAIN headers = {} THEN None
  ELSE Snapshot(headers, CerebrasNames)

\* limit_from_message: the limit a refusal's body names, which no header does.
LimitCodes == {"TPD", "TPM", "RPD", "RPM"}
LimitFromMessage(body) == IF body = None THEN None ELSE body

----------------------------------------------------------------------------
(* Buckets.                                                                *)

Bucket == [limit : Nat \cup {None}, remaining : Nat \cup {None},
           reset : Nat \cup {None}]
RateLimitSnapshot == [tokens : Bucket, requests : Bucket, retry : Nat \cup {None}]

Used(bucket) ==
  IF None \in {bucket.limit, bucket.remaining} THEN 0
  ELSE bucket.limit - bucket.remaining

\* refill_per_second is Used over reset, where both are known and not zero.
Refills(bucket) == Used(bucket) > 0 /\ bucket.reset \notin {None, 0}

\* What a bucket holds a while after a snapshot, as it refills (and it may hold
\* less: other programs draw on the account).
LevelAfter(bucket, seconds) ==
  bucket.remaining + (Used(bucket) * seconds) \div bucket.reset

SecondsToAfford(bucket, amount) ==
  IF bucket.remaining = None \/ ~Refills(bucket) THEN 0
  ELSE IF amount <= bucket.remaining THEN 0
  ELSE ((amount - bucket.remaining) * bucket.reset + Used(bucket) - 1)
         \div Used(bucket)

\* summary() formats `remaining` of a bucket whose limit is known; None raises.
SummaryFails(snapshot) ==
  /\ snapshot # None
  /\ \E bucket \in {snapshot.tokens, snapshot.requests} :
       bucket.limit # None /\ bucket.remaining = None

----------------------------------------------------------------------------
(* The pacer.                                                              *)

NextCallCost ==
  IF lastUsage # None /\ lastUsage.calls > 0 /\ lastUsage.tokens > 0
  THEN lastUsage.tokens ELSE FirstCallTokens

\* With DEFAULT_HEADROOM, a fifth of the bucket.
Needed(bucket) == NextCallCost + bucket.limit \div 5

Least(m, n) == IF m <= n THEN m ELSE n
Beyond(m, n) == IF m > n THEN m - n ELSE 0

\* The buckets a snapshot gives a limit for, each with what it must afford.
Demands ==
  (IF lastLimits.tokens.limit \notin {None, 0}
   THEN {[bucket |-> lastLimits.tokens, amount |-> Needed(lastLimits.tokens)]}
   ELSE {})
  \cup (IF lastLimits.requests.limit \notin {None, 0}
        THEN {[bucket |-> lastLimits.requests, amount |-> 1]} ELSE {})

\* Some bucket that refills is short of what is asked of it.
Short(seconds) ==
  \E d \in Demands : Refills(d.bucket) /\ LevelAfter(d.bucket, seconds) < d.amount

\* The longest of the waits, each less the time already gone by.
WaitFor(elapsed) ==
  LET waits == {0} \cup {Beyond(SecondsToAfford(d.bucket, d.amount), elapsed) :
                           d \in Demands}
  IN  CHOOSE w \in waits : \A v \in waits : v <= w

WaitSecondsUncredited(elapsed) ==  \* faulty: time gone by earns nothing
  IF retryAfter \notin {None, 0} THEN Least(retryAfter, MaxRetryWait)
  ELSE IF lastLimits = None THEN 0
  ELSE WaitFor(0)

WaitSeconds(elapsed) ==
  IF retryAfter \notin {None, 0} THEN Least(retryAfter, MaxRetryWait)
  ELSE IF lastLimits = None THEN 0
  ELSE WaitFor(elapsed)

NewPacer ==
  /\ lastUsage' = None /\ lastLimits' = None /\ retryAfter' = None
  /\ paced' = [spent |-> NoUsage, calls |-> 0]
  /\ pause' = [elapsed |-> 0, wait |-> 0]

Pace(elapsed) ==
  /\ pause' = [elapsed |-> elapsed, wait |-> WaitSeconds(elapsed)]
  /\ UNCHANGED <<lastUsage, lastLimits, retryAfter, paced>>

\* The end of complete(), whichever way the vendor's call came out.
Complete(usage, limits, refused) ==
  /\ lastUsage' = usage
  /\ lastLimits' = limits
  /\ retryAfter' = IF refused /\ limits # None /\ limits.retry # 0
                   THEN limits.retry ELSE None
  /\ paced' = [spent |-> IF usage = None THEN paced.spent
                         ELSE Plus(paced.spent, usage),
               calls |-> paced.calls + 1]
  /\ pause' = [elapsed |-> 0, wait |-> 0]
=============================================================================
