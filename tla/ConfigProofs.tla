----------------------------- MODULE ConfigProofs -----------------------------
(***************************************************************************)
(* DeepCopy of what a program runs with, for any files and environments:   *)
(* through JSON and back is the identity on configurations, but for        *)
(* strings that are not UTF-8, as long as there is a way through JSON.     *)
(***************************************************************************)
EXTENDS Config, TLAPS

-----------------------------------------------------------------------------
(* Fields and their texts.                                                 *)

Odd == {NaN, Infinity}

(* What a field may hold; odd: with the floats and the strings that JSON   *)
(* cannot spell.                                                           *)
Holds(field, odd) ==
    IF field \in Strings THEN IF odd THEN Words ELSE Words \ DOMAIN Replaced
    ELSE IF field \in Bools THEN BOOLEAN
    ELSE IF field \in Floats /\ ~odd THEN Int \ Odd
    ELSE Int

LEMMA Disjoint == Strings \cap Bools = {} /\ Strings \cap Floats = {} /\ Bools \cap Floats = {}
BY DEF Strings, Bools, Floats

(* The converters, one kind of field at a time.                            *)
LEMMA ValueOf ==
    ASSUME NEW f, NEW text
    PROVE  /\ f \in Strings => Value(f, text) = text.word
           /\ f \in Bools => Value(f, text) = (text.number = 1)
           /\ f \in Floats => Value(f, text) = IF text.reads = "int" THEN 10 * text.number
                                               ELSE text.number
           /\ f \notin Strings \union Bools \union Floats => Value(f, text) = text.number
BY Disjoint, Zenon DEF Value

LEMMA SpelledOf ==
    ASSUME NEW f, NEW v
    PROVE  /\ f \in Strings => Spelled(f, v) = WordText(Repaired(v))
           /\ f \in Bools => Spelled(f, v) = BoolText(v)
           /\ f \in Floats => Spelled(f, v) = FloatText(v)
           /\ f \notin Strings \union Bools \union Floats => Spelled(f, v) = IntText(v)
BY Disjoint, Zenon DEF Spelled

LEMMA ZeroOf ==
    ASSUME NEW f
    PROVE  /\ f \in Strings => Zero(f) = ""
           /\ f \in Bools => Zero(f) = FALSE
           /\ f \notin Strings \union Bools => Zero(f) = 0
BY Disjoint, Zenon DEF Zero

LEMMA DecodesOf ==
    ASSUME NEW f, NEW text
    PROVE  Decodes(f, text) /\ f \in Floats =>
             text.reads \in {"int", "float"} /\ text.number \notin Odd
<1>1. ASSUME f \in Floats
      PROVE  Decodes(f, text) <=> text.reads \in {"int", "float"} /\ text.number \notin {NaN, Infinity}
  BY <1>1, Disjoint, Zenon DEF Decodes
<1> QED
  BY <1>1 DEF Odd

LEMMA ParsesOf ==
    ASSUME NEW f, NEW text
    PROVE  Parses(f, text) /\ f \in Floats => text.reads \in {"int", "float"}
<1>1. ASSUME f \in Floats
      PROVE  Parses(f, text) <=> text.reads \in {"int", "float"}
  BY <1>1, Disjoint, Zenon DEF Parses
<1> QED
  BY <1>1

LEMMA RepairedFacts ==
    ASSUME NEW w \in Words
    PROVE  Repaired(w) \in Words /\ (w \notin DOMAIN Replaced => Repaired(w) = w)
BY TextsAssumption DEF Repaired

(* A value is spelled by a text, from which it is read again.              *)
Mended(f, v) == IF f \in Strings THEN Repaired(v) ELSE v

LEMMA RoundTripOfField ==
    ASSUME NEW f, NEW v \in Holds(f, TRUE)
    PROVE  Spelled(f, v) \in Texts /\ Value(f, Spelled(f, v)) = Mended(f, v)
<1>0. f \notin Strings => Mended(f, v) = v
  BY DEF Mended
<1>1. CASE f \in Strings
  <2>1. v \in Words /\ Spelled(f, v) = WordText(Repaired(v)) /\ Mended(f, v) = Repaired(v)
    BY <1>1, SpelledOf DEF Holds, Mended
  <2>2. Repaired(v) \in Words
    BY <2>1, RepairedFacts
  <2>3. WordText(Repaired(v)) \in Texts /\ WordText(Repaired(v)).word = Repaired(v)
    BY <2>2 DEF WordText, Text, Texts
  <2> QED
    BY <1>1, <2>1, <2>3, ValueOf
<1>2. CASE f \in Bools
  <2>1. v \in BOOLEAN /\ Spelled(f, v) = BoolText(v)
    BY <1>2, SpelledOf, Disjoint DEF Holds
  <2>2. CASE v = TRUE
    <3>1. BoolText(TRUE) \in Texts /\ BoolText(TRUE).number = 1
      BY DEF BoolText, Text, Texts, Words, NamedWords
    <3> QED
      BY <1>0, <1>2, <2>1, <2>2, <3>1, ValueOf, Disjoint
  <2>3. CASE v = FALSE
    <3>1. BoolText(FALSE) \in Texts /\ BoolText(FALSE).number = 0
      BY DEF BoolText, Text, Texts, Words, NamedWords
    <3>2. Value(f, BoolText(FALSE)) = (BoolText(FALSE).number = 1)
      BY <1>2, ValueOf
    <3>3. BoolText(FALSE).number # 1
      BY DEF BoolText, Text
    <3>4. Value(f, BoolText(FALSE)) = FALSE
      BY <3>2, <3>3, Zenon
    <3> QED
      BY <1>0, <1>2, <2>1, <2>3, <3>1, <3>4, Disjoint
  <2> QED
    BY <2>1, <2>2, <2>3
<1>3. CASE f \in Floats
  <2>1. v \in Int /\ Spelled(f, v) = FloatText(v)
    BY <1>3, SpelledOf, Disjoint DEF Holds
  <2>2. FloatText(v) \in Texts /\ FloatText(v).number = v /\ FloatText(v).reads = "float"
    BY <2>1 DEF FloatText, Text, Texts, Words, NamedWords
  <2> QED
    BY <1>0, <1>3, <2>1, <2>2, ValueOf, Disjoint
<1>4. CASE f \notin Strings \union Bools \union Floats
  <2>1. v \in Int /\ Spelled(f, v) = IntText(v)
    BY <1>4, SpelledOf DEF Holds
  <2>2. IntText(v) \in Texts /\ IntText(v).number = v
    BY <2>1 DEF IntText, Text, Texts, Words, NamedWords
  <2> QED
    BY <1>0, <1>4, <2>1, <2>2, ValueOf
<1> QED
  BY <1>1, <1>2, <1>3, <1>4

(* Ten times an integer is no odd float.                                   *)
LEMMA TenfoldIsFinite == ASSUME NEW n \in Int PROVE 10 * n \notin Odd
<1>1. (10 * n) % 10 = 0
  BY Z3
<1>2. ASSUME NEW x \in Odd PROVE x % 10 # 0
  BY <1>2, NumbersAssumption DEF Odd
<1> QED
  BY <1>1, <1>2

LEMMA ValueHolds ==
    ASSUME NEW f, NEW text \in Texts, NEW odd \in BOOLEAN,
           f \in Floats => text.reads \in {"int", "float"},
           f \in Floats /\ text.reads = "float" /\ text.number \in Odd => odd,
           f \in Strings /\ text.word \in DOMAIN Replaced => odd
    PROVE  Value(f, text) \in Holds(f, odd)
<1>1. text.word \in Words /\ text.number \in Int
  BY DEF Texts
<1>2. CASE f \in Strings
  BY <1>1, <1>2, ValueOf DEF Holds
<1>3. CASE f \in Bools
  BY <1>1, <1>3, ValueOf, Disjoint DEF Holds
<1>4. CASE f \in Floats
  <2>1. f \notin Strings /\ f \notin Bools
    BY <1>4, Disjoint
  <2>2. CASE text.reads = "int"
    <3>1. Value(f, text) = 10 * text.number
      BY <1>4, <2>2, ValueOf
    <3>2. 10 * text.number \in Int \ Odd
      BY <1>1, TenfoldIsFinite
    <3> QED
      BY <2>1, <3>1, <3>2 DEF Holds
  <2>3. CASE text.reads = "float"
    <3>1. Value(f, text) = text.number
      BY <1>4, <2>3, ValueOf
    <3> QED
      BY <1>1, <1>4, <2>1, <2>3, <3>1 DEF Holds
  <2> QED
    BY <1>4, <2>2, <2>3
<1>5. CASE f \notin Strings \union Bools \union Floats
  BY <1>1, <1>5, ValueOf DEF Holds
<1> QED
  BY <1>2, <1>3, <1>4, <1>5

-----------------------------------------------------------------------------
(* Configurations.                                                         *)

Fields(s) == DOMAIN DefaultConfig[s]

IsSection(section, s, odd) ==
    /\ section = [f \in Fields(s) |-> section[f]]
    /\ \A f \in Fields(s) : section[f] \in Holds(f, odd)

Typed(c, odd) ==
    /\ c = [s \in Sections |-> c[s]]
    /\ \A s \in Sections : c[s] # Nil => IsSection(c[s], s, odd)

(* A configuration with all of its sections.                               *)
Full(c, odd) ==
    /\ c = [s \in Sections |-> c[s]]
    /\ \A s \in Sections : IsSection(c[s], s, odd)

LEMMA FullIsTyped == ASSUME NEW c, NEW odd, Full(c, odd) PROVE Typed(c, odd)
BY DEF Full, Typed

LEMMA HoldsFacts ==
    ASSUME NEW f, NEW odd
    PROVE  Holds(f, odd) \subseteq Holds(f, TRUE)
           /\ Holds(f, TRUE) \subseteq Int \union Words \union BOOLEAN
BY DEF Holds

(* Reading a document over a section.                                      *)
LEMMA DecodedFacts ==
    ASSUME NEW s \in Sections, NEW odd \in BOOLEAN, NEW section, IsSection(section, s, odd),
           NEW document,
           \A f \in DOMAIN document : document[f] \in Texts \union {Nil},
           \A f \in DOMAIN document : document[f] # Nil =>
              Decodes(f, document[f]) /\ document[f].word \notin DOMAIN Replaced
    PROVE  IsSection(Decoded(section, document), s, odd)
<1>1. section = [f \in Fields(s) |-> section[f]]
  BY DEF IsSection
<1>2. DOMAIN section = Fields(s)
  BY <1>1
<1>3. ASSUME NEW f \in Fields(s), f \in DOMAIN document, document[f] # Nil
      PROVE  Value(f, document[f]) \in Holds(f, odd)
  <2>1. /\ document[f] \in Texts /\ Decodes(f, document[f])
        /\ document[f].word \notin DOMAIN Replaced
    BY <1>3
  <2>2. f \in Floats => /\ document[f].reads \in {"int", "float"}
                        /\ document[f].number \notin Odd
    BY <2>1, DecodesOf
  <2> QED
    BY <2>1, <2>2, ValueHolds
<1> QED
  BY <1>2, <1>3 DEF Decoded, IsSection

LEMMA AllocatedFacts ==
    ASSUME NEW s \in Sections, NEW odd \in BOOLEAN
    PROVE  IsSection(Allocated(s), s, odd)
<1>1. 0 \notin Odd
  BY NumbersAssumption DEF Odd
<1>2. \A f \in Fields(s) : Zero(f) \in Holds(f, odd)
  <2> SUFFICES ASSUME NEW f \in Fields(s) PROVE Zero(f) \in Holds(f, odd)
    OBVIOUS
  <2>1. "" \in Words \ DOMAIN Replaced
    BY TextsAssumption DEF Words, NamedWords
  <2>2. CASE f \in Strings
    BY <2>1, <2>2, ZeroOf DEF Holds
  <2>3. CASE f \in Bools
    BY <2>3, ZeroOf, Disjoint DEF Holds
  <2>4. CASE f \notin Strings \union Bools
    <3>1. Zero(f) = 0
      BY <2>4, ZeroOf
    <3>2. 0 \in Int \ Odd /\ 0 \in Int
      BY <1>1
    <3> QED
      BY <2>4, <3>1, <3>2 DEF Holds
  <2> QED
    BY <2>2, <2>3, <2>4
<1> QED
  BY <1>2 DEF Allocated, IsSection, Fields

(* Loading a document that decodes.                                        *)
LEMMA UnmarshalFacts ==
    ASSUME NEW document \in Files, Unmarshals(document),
           NEW c, NEW odd \in BOOLEAN, Typed(c, odd)
    PROVE  Typed(Unmarshal(document, c), odd)
<1> DEFINE d == Unmarshal(document, c)
<1>1. document \in Files \ {Garbled}
  BY DEF Unmarshals
<1>2. ASSUME NEW s \in Sections, d[s] # Nil PROVE IsSection(d[s], s, odd)
  <2>1. CASE s \notin DOMAIN document
    BY <1>2, <2>1 DEF Unmarshal, Typed
  <2>2. CASE s \in DOMAIN document
    <3>1. document[s] # Nil
      BY <1>2, <2>2 DEF Unmarshal
    <3>2. /\ \A f \in DOMAIN document[s] : document[s][f] \in Texts \union {Nil}
          /\ \A f \in DOMAIN document[s] : document[s][f] # Nil =>
                Decodes(f, document[s][f]) /\ document[s][f].word \notin DOMAIN Replaced
      BY <1>1, <2>2, <3>1, TextsAssumption DEF Unmarshals
    <3> DEFINE before == IF c[s] = Nil THEN Allocated(s) ELSE c[s]
    <3>3. IsSection(before, s, odd)
      BY AllocatedFacts DEF Typed
    <3>4. d[s] = Decoded(before, document[s])
      BY <2>2, <3>1 DEF Unmarshal
    <3> HIDE DEF before, d
    <3> QED
      BY <3>2, <3>3, <3>4, DecodedFacts
  <2> QED
    BY <2>1, <2>2
<1>3. d = [s \in Sections |-> d[s]]
  BY DEF Unmarshal
<1> HIDE DEF d
<1>4. Typed(d, odd)
  BY <1>2, <1>3 DEF Typed
<1> QED
  BY <1>4 DEF d

(* Through JSON and back.                                                  *)
MendedSection(section) == [f \in DOMAIN section |-> Mended(f, section[f])]

LEMMA RoundTrip ==
    ASSUME NEW c, NEW odd \in BOOLEAN, Typed(c, odd), Marshals(c)
    PROVE  DeepCopy(c) = [s \in Sections |-> IF c[s] = Nil THEN Nil ELSE MendedSection(c[s])]
<1> DEFINE document == Marshal(c)
           d == Unmarshal(document, EmptyConfig)
<1>1. ASSUME NEW s \in Sections
      PROVE  d[s] = IF c[s] = Nil THEN Nil ELSE MendedSection(c[s])
  <2>1. CASE c[s] = Nil
    <3>1. s \notin DOMAIN document
      BY <2>1 DEF Marshal, Present
    <3> QED
      BY <2>1, <3>1 DEF Unmarshal, EmptyConfig
  <2>2. CASE c[s] # Nil
    <3>1. IsSection(c[s], s, odd) /\ DOMAIN c[s] = Fields(s)
      BY <2>2 DEF Typed, IsSection
    <3>2. s \in DOMAIN document /\ document[s] = [f \in Fields(s) |-> Spelled(f, c[s][f])]
      BY <2>2, <3>1 DEF Marshal, Present
    <3>3. \A f \in Fields(s) : /\ Spelled(f, c[s][f]) \in Texts
                               /\ Value(f, Spelled(f, c[s][f])) = Mended(f, c[s][f])
      BY <3>1, HoldsFacts, RoundTripOfField DEF IsSection
    <3> HIDE DEF document
    <3>4. document[s] \in [Fields(s) -> Texts] /\ document[s] # Nil
          /\ (\A f \in Fields(s) : document[s][f] # Nil)
      BY <3>2, <3>3, TextsAssumption DEF Fields
    <3>5. d[s] = Decoded(Allocated(s), document[s])
      BY <3>2, <3>4 DEF Unmarshal, EmptyConfig
    <3>6. Decoded(Allocated(s), document[s]) = [f \in Fields(s) |-> Mended(f, c[s][f])]
      BY <3>2, <3>3, <3>4 DEF Decoded, Allocated, Fields
    <3> QED
      BY <2>2, <3>1, <3>5, <3>6 DEF MendedSection
  <2> QED
    BY <2>1, <2>2
<1>2. d = [s \in Sections |-> d[s]]
  BY DEF Unmarshal
<1>3. DeepCopy(c) = d
  BY DEF DeepCopy
<1> HIDE DEF d
<1> QED
  BY <1>1, <1>2, <1>3

-----------------------------------------------------------------------------
(* The defaults and the presets.                                           *)

(* A value that any field of its type may have; no such float is odd.      *)
Ordinary(f, v) ==
    IF f \in Strings THEN v \in NamedWords
    ELSE IF f \in Bools THEN v \in BOOLEAN
    ELSE v \in Int /\ (v < 10 \/ v % 10 = 0)

LEMMA OrdinaryHolds ==
    ASSUME NEW f, NEW v, Ordinary(f, v), NEW odd
    PROVE  v \in Holds(f, odd)
<1>1. \A n \in Int : n < 10 \/ n % 10 = 0 => n \notin Odd
  BY NumbersAssumption DEF Odd
<1>2. NamedWords \subseteq Words \ DOMAIN Replaced
  BY TextsAssumption DEF Words
<1> QED
  BY <1>1, <1>2 DEF Ordinary, Holds

LEMMA OrdinarySections ==
    /\ \A f \in DOMAIN DefaultCircuitBreaker : Ordinary(f, DefaultCircuitBreaker[f])
    /\ \A f \in DOMAIN DefaultAdaptive : Ordinary(f, DefaultAdaptive[f])
    /\ \A f \in DOMAIN DefaultRetry : Ordinary(f, DefaultRetry[f])
    /\ \A f \in DOMAIN DefaultRateLimiter : Ordinary(f, DefaultRateLimiter[f])
    /\ \A f \in DOMAIN DefaultTimeout : Ordinary(f, DefaultTimeout[f])
    /\ \A f \in DOMAIN DefaultBulkhead : Ordinary(f, DefaultBulkhead[f])
    /\ \A f \in DOMAIN DefaultMetrics : Ordinary(f, DefaultMetrics[f])
    /\ \A f \in DOMAIN DefaultHTTP : Ordinary(f, DefaultHTTP[f])
<1>1. \A f \in DOMAIN DefaultCircuitBreaker : Ordinary(f, DefaultCircuitBreaker[f])
  <2>1. DOMAIN DefaultCircuitBreaker = {
          "name", "max_requests", "timeout_seconds", "failure_rate_threshold",
          "slow_call_rate_threshold", "slow_call_duration_ms",
          "minimum_number_of_calls", "sliding_window_size", "sliding_window_type"}
    BY DEF DefaultCircuitBreaker
  <2>2. /\ DefaultCircuitBreaker["name"] = "default" /\ Ordinary("name", "default")
        /\ DefaultCircuitBreaker["max_requests"] = 1 /\ Ordinary("max_requests", 1)
        /\ DefaultCircuitBreaker["timeout_seconds"] = 60 /\ Ordinary("timeout_seconds", 60)
        /\ DefaultCircuitBreaker["failure_rate_threshold"] = 50 /\ Ordinary("failure_rate_threshold", 50)
        /\ DefaultCircuitBreaker["slow_call_rate_threshold"] = 100 /\ Ordinary("slow_call_rate_threshold", 100)
        /\ DefaultCircuitBreaker["slow_call_duration_ms"] = 0 /\ Ordinary("slow_call_duration_ms", 0)
        /\ DefaultCircuitBreaker["minimum_number_of_calls"] = 10 /\ Ordinary("minimum_number_of_calls", 10)
        /\ DefaultCircuitBreaker["sliding_window_size"] = 100 /\ Ordinary("sliding_window_size", 100)
        /\ DefaultCircuitBreaker["sliding_window_type"] = "count" /\ Ordinary("sliding_window_type", "count")
    BY DEF DefaultCircuitBreaker, Ordinary, Strings, Bools, NamedWords
  <2> QED
    BY <2>1, <2>2
<1>2. \A f \in DOMAIN DefaultAdaptive : Ordinary(f, DefaultAdaptive[f])
  <2>1. DOMAIN DefaultAdaptive = {
          "name", "failure_rate_ema_alpha", "latency_ema_alpha",
          "min_adaptive_threshold", "max_adaptive_threshold",
          "consecutive_failure_limit", "slow_call_multiplier",
          "min_slow_call_duration_ms", "max_slow_call_duration_ms",
          "timeout_multiplier", "max_timeout_seconds", "timeout_seconds",
          "failure_rate_threshold", "slow_call_rate_threshold",
          "minimum_number_of_calls", "max_requests"}
    BY DEF DefaultAdaptive
  <2>2. /\ DefaultAdaptive["name"] = "adaptive" /\ Ordinary("name", "adaptive")
        /\ DefaultAdaptive["failure_rate_ema_alpha"] = 5 /\ Ordinary("failure_rate_ema_alpha", 5)
        /\ DefaultAdaptive["latency_ema_alpha"] = 3 /\ Ordinary("latency_ema_alpha", 3)
        /\ DefaultAdaptive["min_adaptive_threshold"] = 200 /\ Ordinary("min_adaptive_threshold", 200)
        /\ DefaultAdaptive["max_adaptive_threshold"] = 800 /\ Ordinary("max_adaptive_threshold", 800)
        /\ DefaultAdaptive["consecutive_failure_limit"] = 5 /\ Ordinary("consecutive_failure_limit", 5)
        /\ DefaultAdaptive["slow_call_multiplier"] = 30 /\ Ordinary("slow_call_multiplier", 30)
        /\ DefaultAdaptive["min_slow_call_duration_ms"] = 100 /\ Ordinary("min_slow_call_duration_ms", 100)
        /\ DefaultAdaptive["max_slow_call_duration_ms"] = 5000 /\ Ordinary("max_slow_call_duration_ms", 5000)
        /\ DefaultAdaptive["timeout_multiplier"] = 20 /\ Ordinary("timeout_multiplier", 20)
        /\ DefaultAdaptive["max_timeout_seconds"] = 300 /\ Ordinary("max_timeout_seconds", 300)
        /\ DefaultAdaptive["timeout_seconds"] = 60 /\ Ordinary("timeout_seconds", 60)
        /\ DefaultAdaptive["failure_rate_threshold"] = 50 /\ Ordinary("failure_rate_threshold", 50)
        /\ DefaultAdaptive["slow_call_rate_threshold"] = 100 /\ Ordinary("slow_call_rate_threshold", 100)
        /\ DefaultAdaptive["minimum_number_of_calls"] = 10 /\ Ordinary("minimum_number_of_calls", 10)
        /\ DefaultAdaptive["max_requests"] = 1 /\ Ordinary("max_requests", 1)
    BY DEF DefaultAdaptive, Ordinary, Strings, Bools, NamedWords
  <2> QED
    BY <2>1, <2>2
<1>3. \A f \in DOMAIN DefaultRetry : Ordinary(f, DefaultRetry[f])
  <2>1. DOMAIN DefaultRetry = {
          "max_retries", "strategy", "interval_ms", "max_interval_ms", "multiplier",
          "max_duration_ms"}
    BY DEF DefaultRetry
  <2>2. /\ DefaultRetry["max_retries"] = 3 /\ Ordinary("max_retries", 3)
        /\ DefaultRetry["strategy"] = "exponential" /\ Ordinary("strategy", "exponential")
        /\ DefaultRetry["interval_ms"] = 1000 /\ Ordinary("interval_ms", 1000)
        /\ DefaultRetry["max_interval_ms"] = 30000 /\ Ordinary("max_interval_ms", 30000)
        /\ DefaultRetry["multiplier"] = 20 /\ Ordinary("multiplier", 20)
        /\ DefaultRetry["max_duration_ms"] = 60000 /\ Ordinary("max_duration_ms", 60000)
    BY DEF DefaultRetry, Ordinary, Strings, Bools, NamedWords
  <2> QED
    BY <2>1, <2>2
<1>4. \A f \in DOMAIN DefaultRateLimiter : Ordinary(f, DefaultRateLimiter[f])
  <2>1. DOMAIN DefaultRateLimiter = {
          "type", "rate", "burst"}
    BY DEF DefaultRateLimiter
  <2>2. /\ DefaultRateLimiter["type"] = "token_bucket" /\ Ordinary("type", "token_bucket")
        /\ DefaultRateLimiter["rate"] = 1000 /\ Ordinary("rate", 1000)
        /\ DefaultRateLimiter["burst"] = 200 /\ Ordinary("burst", 200)
    BY DEF DefaultRateLimiter, Ordinary, Strings, Bools, NamedWords
  <2> QED
    BY <2>1, <2>2
<1>5. \A f \in DOMAIN DefaultTimeout : Ordinary(f, DefaultTimeout[f])
  <2>1. DOMAIN DefaultTimeout = {
          "duration_ms"}
    BY DEF DefaultTimeout
  <2>2. /\ DefaultTimeout["duration_ms"] = 5000 /\ Ordinary("duration_ms", 5000)
    BY DEF DefaultTimeout, Ordinary, Strings, Bools, NamedWords
  <2> QED
    BY <2>1, <2>2
<1>6. \A f \in DOMAIN DefaultBulkhead : Ordinary(f, DefaultBulkhead[f])
  <2>1. DOMAIN DefaultBulkhead = {
          "max_concurrent", "max_wait_duration_ms"}
    BY DEF DefaultBulkhead
  <2>2. /\ DefaultBulkhead["max_concurrent"] = 10 /\ Ordinary("max_concurrent", 10)
        /\ DefaultBulkhead["max_wait_duration_ms"] = 5000 /\ Ordinary("max_wait_duration_ms", 5000)
    BY DEF DefaultBulkhead, Ordinary, Strings, Bools, NamedWords
  <2> QED
    BY <2>1, <2>2
<1>7. \A f \in DOMAIN DefaultMetrics : Ordinary(f, DefaultMetrics[f])
  <2>1. DOMAIN DefaultMetrics = {
          "enabled", "namespace", "endpoint"}
    BY DEF DefaultMetrics
  <2>2. /\ DefaultMetrics["enabled"] = TRUE /\ Ordinary("enabled", TRUE)
        /\ DefaultMetrics["namespace"] = "goshield" /\ Ordinary("namespace", "goshield")
        /\ DefaultMetrics["endpoint"] = "/metrics" /\ Ordinary("endpoint", "/metrics")
    BY DEF DefaultMetrics, Ordinary, Strings, Bools, NamedWords
  <2> QED
    BY <2>1, <2>2
<1>8. \A f \in DOMAIN DefaultHTTP : Ordinary(f, DefaultHTTP[f])
  <2>1. DOMAIN DefaultHTTP = {
          "enabled", "addr", "metrics_addr"}
    BY DEF DefaultHTTP
  <2>2. /\ DefaultHTTP["enabled"] = TRUE /\ Ordinary("enabled", TRUE)
        /\ DefaultHTTP["addr"] = ":8080" /\ Ordinary("addr", ":8080")
        /\ DefaultHTTP["metrics_addr"] = ":9090" /\ Ordinary("metrics_addr", ":9090")
    BY DEF DefaultHTTP, Ordinary, Strings, Bools, NamedWords
  <2> QED
    BY <2>1, <2>2
<1> QED
  BY <1>1, <1>2, <1>3, <1>4, <1>5, <1>6, <1>7, <1>8

LEMMA SectionDefaults ==
    /\ DefaultConfig["circuit_breaker"] = DefaultCircuitBreaker
    /\ DefaultConfig["adaptive"] = DefaultAdaptive
    /\ DefaultConfig["retry"] = DefaultRetry
    /\ DefaultConfig["rate_limiter"] = DefaultRateLimiter
    /\ DefaultConfig["timeout"] = DefaultTimeout
    /\ DefaultConfig["bulkhead"] = DefaultBulkhead
    /\ DefaultConfig["metrics"] = DefaultMetrics
    /\ DefaultConfig["http"] = DefaultHTTP
BY DEF DefaultConfig

LEMMA DefaultTyped == ASSUME NEW odd PROVE Full(DefaultConfig, odd)
<1>1. DefaultConfig = [s \in Sections |-> DefaultConfig[s]]
  BY DEF DefaultConfig, Sections
<1>2. ASSUME NEW s \in Sections
      PROVE  /\ DefaultConfig[s] = [f \in Fields(s) |-> DefaultConfig[s][f]]
             /\ \A f \in Fields(s) : Ordinary(f, DefaultConfig[s][f])
  <2>1. s \in {"circuit_breaker", "adaptive", "retry", "rate_limiter", "timeout",
               "bulkhead", "metrics", "http"}
    BY DEF Sections, DefaultConfig
  <2>2. CASE s = "circuit_breaker"
    BY <2>2, OrdinarySections, SectionDefaults DEF Fields, DefaultCircuitBreaker
  <2>3. CASE s = "adaptive"
    BY <2>3, OrdinarySections, SectionDefaults DEF Fields, DefaultAdaptive
  <2>4. CASE s = "retry"
    BY <2>4, OrdinarySections, SectionDefaults DEF Fields, DefaultRetry
  <2>5. CASE s = "rate_limiter"
    BY <2>5, OrdinarySections, SectionDefaults DEF Fields, DefaultRateLimiter
  <2>6. CASE s = "timeout"
    BY <2>6, OrdinarySections, SectionDefaults DEF Fields, DefaultTimeout
  <2>7. CASE s = "bulkhead"
    BY <2>7, OrdinarySections, SectionDefaults DEF Fields, DefaultBulkhead
  <2>8. CASE s = "metrics"
    BY <2>8, OrdinarySections, SectionDefaults DEF Fields, DefaultMetrics
  <2>9. CASE s = "http"
    BY <2>9, OrdinarySections, SectionDefaults DEF Fields, DefaultHTTP
  <2> QED
    BY <2>1, <2>2, <2>3, <2>4, <2>5, <2>6, <2>7, <2>8, <2>9
<1>3. \A s \in Sections : \A f \in Fields(s) : DefaultConfig[s][f] \in Holds(f, odd)
  BY <1>2, OrdinaryHolds
<1> QED
  BY <1>1, <1>2, <1>3 DEF Full, IsSection

(* Another value for one field.                                            *)
LEMMA FieldReplaced ==
    ASSUME NEW c, NEW odd, Full(c, odd), NEW s \in Sections, NEW f \in Fields(s),
           NEW v, Ordinary(f, v)
    PROVE  Full([c EXCEPT ![s][f] = v], odd)
<1> DEFINE d == [c EXCEPT ![s][f] = v]
<1>1. v \in Holds(f, odd)
  BY OrdinaryHolds
<1>2. c = [t \in Sections |-> c[t]] /\ d = [t \in Sections |-> d[t]]
  BY DEF Full
<1>3. ASSUME NEW t \in Sections PROVE IsSection(d[t], t, odd)
  <2>1. IsSection(c[t], t, odd)
    BY DEF Full
  <2>2. CASE t # s
    <3>1. d[t] = c[t]
      BY <1>2, <2>2
    <3> QED
      BY <2>1, <3>1
  <2>3. CASE t = s
    <3>1. d[t] = [c[t] EXCEPT ![f] = v]
      BY <1>2, <2>3
    <3> HIDE DEF d
    <3> QED
      BY <1>1, <2>1, <2>3, <3>1 DEF IsSection
  <2> QED
    BY <2>2, <2>3
<1> HIDE DEF d
<1>4. Full(d, odd)
  BY <1>2, <1>3 DEF Full
<1> QED
  BY <1>4 DEF d

LEMMA PresetFields ==
    /\ {"circuit_breaker", "retry", "rate_limiter", "timeout", "bulkhead"} \subseteq Sections
    /\ {"failure_rate_threshold", "slow_call_rate_threshold", "minimum_number_of_calls",
        "timeout_seconds"} \subseteq Fields("circuit_breaker")
    /\ {"max_retries", "interval_ms"} \subseteq Fields("retry")
    /\ {"rate", "burst"} \subseteq Fields("rate_limiter")
    /\ "duration_ms" \in Fields("timeout")
    /\ "max_concurrent" \in Fields("bulkhead")
<1>1. {"circuit_breaker", "retry", "rate_limiter", "timeout", "bulkhead"} \subseteq Sections
  BY DEF Sections, DefaultConfig
<1>2. {"failure_rate_threshold", "slow_call_rate_threshold", "minimum_number_of_calls",
        "timeout_seconds"} \subseteq Fields("circuit_breaker")
  BY SectionDefaults DEF Fields, DefaultCircuitBreaker
<1>3. {"max_retries", "interval_ms"} \subseteq Fields("retry")
  BY SectionDefaults DEF Fields, DefaultRetry
<1>4. {"rate", "burst"} \subseteq Fields("rate_limiter")
  BY SectionDefaults DEF Fields, DefaultRateLimiter
<1>5. "duration_ms" \in Fields("timeout")
  BY SectionDefaults DEF Fields, DefaultTimeout
<1>6. "max_concurrent" \in Fields("bulkhead")
  BY SectionDefaults DEF Fields, DefaultBulkhead
<1> QED
  BY <1>1, <1>2, <1>3, <1>4, <1>5, <1>6

LEMMA ConservativeTyped == ASSUME NEW odd PROVE Full(PresetConservative, odd)
<1> DEFINE
     c1 == [DefaultConfig EXCEPT !.circuit_breaker.failure_rate_threshold = 30]
     c2 == [c1 EXCEPT !.circuit_breaker.slow_call_rate_threshold = 50]
     c3 == [c2 EXCEPT !.circuit_breaker.minimum_number_of_calls = 5]
     c4 == [c3 EXCEPT !.circuit_breaker.timeout_seconds = 30]
     c5 == [c4 EXCEPT !.retry.max_retries = 5]
     c6 == [c5 EXCEPT !.retry.interval_ms = 500]
     c7 == [c6 EXCEPT !.rate_limiter.rate = 500]
     c8 == [c7 EXCEPT !.rate_limiter.burst = 100]
     c9 == [c8 EXCEPT !.timeout.duration_ms = 3000]
     c10 == [c9 EXCEPT !.bulkhead.max_concurrent = 5]
<1>1. /\ Ordinary("failure_rate_threshold", 30)
      /\ Ordinary("slow_call_rate_threshold", 50)
      /\ Ordinary("minimum_number_of_calls", 5)
      /\ Ordinary("timeout_seconds", 30)
      /\ Ordinary("max_retries", 5)
      /\ Ordinary("interval_ms", 500)
      /\ Ordinary("rate", 500)
      /\ Ordinary("burst", 100)
      /\ Ordinary("duration_ms", 3000)
      /\ Ordinary("max_concurrent", 5)
  BY DEF Ordinary, Strings, Bools
<1>2. Full(DefaultConfig, odd)
  BY DefaultTyped
<1>3. Full(c1, odd)
  BY <1>1, <1>2, FieldReplaced, PresetFields
<1> HIDE DEF c1
<1>4. Full(c2, odd)
  BY <1>1, <1>3, FieldReplaced, PresetFields
<1> HIDE DEF c2
<1>5. Full(c3, odd)
  BY <1>1, <1>4, FieldReplaced, PresetFields
<1> HIDE DEF c3
<1>6. Full(c4, odd)
  BY <1>1, <1>5, FieldReplaced, PresetFields
<1> HIDE DEF c4
<1>7. Full(c5, odd)
  BY <1>1, <1>6, FieldReplaced, PresetFields
<1> HIDE DEF c5
<1>8. Full(c6, odd)
  BY <1>1, <1>7, FieldReplaced, PresetFields
<1> HIDE DEF c6
<1>9. Full(c7, odd)
  BY <1>1, <1>8, FieldReplaced, PresetFields
<1> HIDE DEF c7
<1>10. Full(c8, odd)
  BY <1>1, <1>9, FieldReplaced, PresetFields
<1> HIDE DEF c8
<1>11. Full(c9, odd)
  BY <1>1, <1>10, FieldReplaced, PresetFields
<1> HIDE DEF c9
<1>12. Full(c10, odd)
  BY <1>1, <1>11, FieldReplaced, PresetFields
<1> HIDE DEF c10
<1>13. PresetConservative = c10
  BY DEF PresetConservative, c1, c2, c3, c4, c5, c6, c7, c8, c9, c10
<1> QED
  BY <1>12, <1>13

LEMMA AggressiveTyped == ASSUME NEW odd PROVE Full(PresetAggressive, odd)
<1> DEFINE
     c1 == [DefaultConfig EXCEPT !.circuit_breaker.failure_rate_threshold = 80]
     c2 == [c1 EXCEPT !.circuit_breaker.slow_call_rate_threshold = 100]
     c3 == [c2 EXCEPT !.circuit_breaker.minimum_number_of_calls = 20]
     c4 == [c3 EXCEPT !.circuit_breaker.timeout_seconds = 120]
     c5 == [c4 EXCEPT !.retry.max_retries = 2]
     c6 == [c5 EXCEPT !.retry.interval_ms = 2000]
     c7 == [c6 EXCEPT !.rate_limiter.rate = 5000]
     c8 == [c7 EXCEPT !.rate_limiter.burst = 1000]
     c9 == [c8 EXCEPT !.timeout.duration_ms = 10000]
     c10 == [c9 EXCEPT !.bulkhead.max_concurrent = 50]
<1>1. /\ Ordinary("failure_rate_threshold", 80)
      /\ Ordinary("slow_call_rate_threshold", 100)
      /\ Ordinary("minimum_number_of_calls", 20)
      /\ Ordinary("timeout_seconds", 120)
      /\ Ordinary("max_retries", 2)
      /\ Ordinary("interval_ms", 2000)
      /\ Ordinary("rate", 5000)
      /\ Ordinary("burst", 1000)
      /\ Ordinary("duration_ms", 10000)
      /\ Ordinary("max_concurrent", 50)
  BY DEF Ordinary, Strings, Bools
<1>2. Full(DefaultConfig, odd)
  BY DefaultTyped
<1>3. Full(c1, odd)
  BY <1>1, <1>2, FieldReplaced, PresetFields
<1> HIDE DEF c1
<1>4. Full(c2, odd)
  BY <1>1, <1>3, FieldReplaced, PresetFields
<1> HIDE DEF c2
<1>5. Full(c3, odd)
  BY <1>1, <1>4, FieldReplaced, PresetFields
<1> HIDE DEF c3
<1>6. Full(c4, odd)
  BY <1>1, <1>5, FieldReplaced, PresetFields
<1> HIDE DEF c4
<1>7. Full(c5, odd)
  BY <1>1, <1>6, FieldReplaced, PresetFields
<1> HIDE DEF c5
<1>8. Full(c6, odd)
  BY <1>1, <1>7, FieldReplaced, PresetFields
<1> HIDE DEF c6
<1>9. Full(c7, odd)
  BY <1>1, <1>8, FieldReplaced, PresetFields
<1> HIDE DEF c7
<1>10. Full(c8, odd)
  BY <1>1, <1>9, FieldReplaced, PresetFields
<1> HIDE DEF c8
<1>11. Full(c9, odd)
  BY <1>1, <1>10, FieldReplaced, PresetFields
<1> HIDE DEF c9
<1>12. Full(c10, odd)
  BY <1>1, <1>11, FieldReplaced, PresetFields
<1> HIDE DEF c10
<1>13. PresetAggressive = c10
  BY DEF PresetAggressive, c1, c2, c3, c4, c5, c6, c7, c8, c9, c10
<1> QED
  BY <1>12, <1>13

(* A document over a whole configuration, and the environment over it.     *)
LEMMA LoadBytesFacts ==
    ASSUME NEW document \in Files, Unmarshals(document)
    PROVE  Typed(LoadBytes(document), FALSE)
<1>1. Typed(DefaultConfig, FALSE)
  BY DefaultTyped, FullIsTyped
<1> QED
  BY <1>1, UnmarshalFacts DEF LoadBytes

(* What a configuration holds that JSON cannot spell is the environment's. *)
FromEnv(e, s, f, v) ==
    /\ Overrides(e, s, f) /\ v = Value(f, e[<<s, f>>])
    /\ v \in Holds(f, TRUE)

Explained(c, e) ==
    /\ Typed(c, TRUE)
    /\ \A s \in Sections : c[s] # Nil =>
          \A f \in Fields(s) : c[s][f] \in Holds(f, FALSE) \/ FromEnv(e, s, f, c[s][f])

LEMMA FiniteIsExplained ==
    ASSUME NEW c, NEW e, Typed(c, FALSE)
    PROVE  Explained(c, e)
<1>1. ASSUME NEW s \in Sections, c[s] # Nil
      PROVE  IsSection(c[s], s, TRUE) /\ \A f \in Fields(s) : c[s][f] \in Holds(f, FALSE)
  BY <1>1, HoldsFacts DEF Typed, IsSection
<1> QED
  BY <1>1 DEF Explained, Typed

LEMMA OverridesFacts ==
    ASSUME NEW c, Typed(c, FALSE), NEW e \in Environs
    PROVE  Explained(ApplyEnvOverrides(c, e), e)
<1> DEFINE d == ApplyEnvOverrides(c, e)
<1>1. d = [s \in Sections |-> d[s]]
  BY DEF ApplyEnvOverrides
<1>2. ASSUME NEW s \in Sections, d[s] # Nil
      PROVE  /\ d[s] = [f \in Fields(s) |-> d[s][f]]
             /\ \A f \in Fields(s) : d[s][f] \in Holds(f, FALSE) \/ FromEnv(e, s, f, d[s][f])
  <2>1. c[s] # Nil
    BY <1>2 DEF ApplyEnvOverrides
  <2>2. DOMAIN c[s] = Fields(s) /\ \A f \in Fields(s) : c[s][f] \in Holds(f, FALSE)
    BY <2>1 DEF Typed, IsSection
  <2>3. d[s] = [f \in Fields(s) |-> IF Overrides(e, s, f) THEN Value(f, e[<<s, f>>]) ELSE c[s][f]]
    BY <2>1, <2>2 DEF ApplyEnvOverrides
  <2>4. ASSUME NEW f \in Fields(s), Overrides(e, s, f)
        PROVE  FromEnv(e, s, f, Value(f, e[<<s, f>>]))
    <3>1. <<s, f>> \in DOMAIN e /\ Parses(f, e[<<s, f>>])
      BY <2>4 DEF Overrides
    <3>2. e[<<s, f>>] \in Texts
      BY <3>1, TextsAssumption
    <3>3. f \in Floats => e[<<s, f>>].reads \in {"int", "float"}
      BY <3>1, ParsesOf
    <3>4. Value(f, e[<<s, f>>]) \in Holds(f, TRUE)
      BY <3>2, <3>3, ValueHolds
    <3> QED
      BY <2>4, <3>4 DEF FromEnv
  <2> HIDE DEF d
  <2> QED
    BY <2>2, <2>3, <2>4
<1> HIDE DEF d
<1>3. \A s \in Sections : \A f, v :
         FromEnv(e, s, f, v) \/ v \in Holds(f, FALSE) => v \in Holds(f, TRUE)
  BY HoldsFacts DEF FromEnv
<1>4. Typed(d, TRUE)
  BY <1>1, <1>2, <1>3 DEF Typed, IsSection
<1>5. Explained(d, e)
  BY <1>2, <1>4 DEF Explained
<1> QED
  BY <1>5 DEF d

(* Only a float64 of the environment is in the way of a copy.              *)
LEMMA OddValue ==
    ASSUME NEW f \in Floats, NEW text \in Texts, Parses(f, text), Value(f, text) \in Odd
    PROVE  NotFinite(text)
<1>1. text.reads \in {"int", "float"} /\ text.number \in Int
  BY ParsesOf DEF Texts
<1>2. text.reads # "int"
  <2>1. ASSUME text.reads = "int" PROVE Value(f, text) = 10 * text.number
    BY <2>1, ValueOf
  <2> QED
    BY <1>1, <2>1, TenfoldIsFinite
<1>3. Value(f, text) = text.number
  BY <1>2, ValueOf
<1> QED
  BY <1>1, <1>2, <1>3 DEF NotFinite, Odd

LEMMA UnlessOddFloat ==
    ASSUME NEW c, NEW e \in Environs, Explained(c, e), ~Marshals(c)
    PROVE  \E v \in DOMAIN e : v[2] \in Floats /\ NotFinite(e[v])
<1>0. PICK s \in Present(c) : \E f \in DOMAIN c[s] \cap Floats : c[s][f] \in Odd
  BY DEF Marshals, Odd
<1>1. PICK f \in DOMAIN c[s] \cap Floats : c[s][f] \in Odd
  BY <1>0
<1>2. s \in Sections /\ c[s] # Nil /\ f \in Fields(s) /\ f \in Floats
  BY <1>1 DEF Present, Explained, Typed, IsSection
<1>3. c[s][f] \notin Holds(f, FALSE)
  BY <1>1, <1>2, Disjoint DEF Holds
<1>4. Overrides(e, s, f) /\ c[s][f] = Value(f, e[<<s, f>>])
  BY <1>2, <1>3 DEF Explained, FromEnv
<1>5. <<s, f>> \in DOMAIN e /\ Parses(f, e[<<s, f>>])
  BY <1>4 DEF Overrides
<1>6. e[<<s, f>>] \in Texts
  BY <1>5, TextsAssumption
<1>7. NotFinite(e[<<s, f>>])
  BY <1>1, <1>2, <1>4, <1>5, <1>6, OddValue
<1>8. <<s, f>>[2] = f
  OBVIOUS
<1> QED
  BY <1>2, <1>5, <1>7, <1>8

-----------------------------------------------------------------------------
(* The program.                                                            *)

CopyInv ==
    /\ env \in Environs /\ file \in Files
    /\ phase = "running" => Explained(current, env)

LEMMA StartStep ==
    ASSUME CopyInv, NEW c, Typed(c, FALSE), Start(c)
    PROVE  CopyInv'
<1>1. env' = env /\ file' = file
  BY DEF Start
<1>2. ASSUME phase' = "running" PROVE current' = ApplyEnvOverrides(c, env)
  BY <1>2 DEF Start
<1>3. Explained(ApplyEnvOverrides(c, env), env)
  BY OverridesFacts DEF CopyInv
<1> QED
  BY <1>1, <1>2, <1>3 DEF CopyInv

LEMMA CopyStep == CopyInv /\ [Next]_vars => CopyInv'
<1> SUFFICES ASSUME CopyInv, [Next]_vars PROVE CopyInv'
  OBVIOUS
<1>1. CASE StartFromFile
  <2>1. Typed(LoadBytes(file), FALSE)
    BY <1>1, LoadBytesFacts DEF CopyInv, StartFromFile
  <2> QED
    BY <1>1, <2>1, StartStep DEF StartFromFile
<1>2. CASE StartFromPreset
  <2>1. PICK c \in {DefaultConfig, PresetConservative, PresetAggressive} : Start(c)
    BY <1>2 DEF StartFromPreset
  <2>2. Full(c, FALSE)
    BY DefaultTyped, ConservativeTyped, AggressiveTyped
  <2>3. Typed(c, FALSE)
    BY <2>2, FullIsTyped
  <2> QED
    BY <2>1, <2>3, StartStep
<1>3. CASE LoadFails
  BY <1>3 DEF LoadFails, CopyInv
<1>4. CASE Reload
  <2>1. Typed(LoadBytes(file), FALSE)
    BY <1>4, LoadBytesFacts DEF CopyInv, Reload
  <2>2. Explained(LoadBytes(file), env)
    BY <2>1, FiniteIsExplained
  <2> QED
    BY <1>4, <2>2 DEF Reload, CopyInv
<1>5. ASSUME NEW document \in Files, Edit(document) PROVE CopyInv'
  BY <1>5 DEF Edit, CopyInv
<1>6. CASE UNCHANGED vars
  BY <1>6 DEF vars, CopyInv
<1> QED
  BY <1>1, <1>2, <1>3, <1>4, <1>5, <1>6 DEF Next

(* What is mended is what the environment has mangled.                     *)
LEMMA MendedIsMangled ==
    ASSUME CopyInv, phase = "running", NEW s \in Sections, current[s] # Nil,
           NEW f \in Fields(s)
    PROVE  Mended(f, current[s][f]) =
             IF Mangled(s, f) THEN Replaced[current[s][f]] ELSE current[s][f]
<1>1. CASE Mangled(s, f)
  BY <1>1 DEF Mangled, Mended, Repaired
<1>2. CASE f \in Strings /\ current[s][f] \in DOMAIN Replaced
  <2>1. current[s][f] \notin Holds(f, FALSE)
    BY <1>2 DEF Holds
  <2>2. Overrides(env, s, f) /\ current[s][f] = Value(f, env[<<s, f>>])
    BY <2>1 DEF CopyInv, Explained, FromEnv
  <2>3. Mangled(s, f)
    BY <1>2, <2>2, ValueOf DEF Mangled, Overrides
  <2> QED
    BY <1>1, <2>3
<1>3. CASE ~(f \in Strings /\ current[s][f] \in DOMAIN Replaced)
  BY <1>3 DEF Mangled, Mended, Repaired
<1> QED
  BY <1>2, <1>3

(* Whatever file, preset and environment a program starts from, and        *)
(* whatever is written into the file afterwards: DeepCopy gives back what  *)
(* the program runs with, with U+FFFD in the strings that the environment  *)
(* has set to what is not UTF-8, unless it has set a float64 to what JSON  *)
(* cannot spell, and then DeepCopy gives a configuration without sections. *)
THEOREM CopySafety == Spec => []CopyIsFaithful
<1>1. Init => CopyInv
  BY DEF Init, CopyInv
<1>2. CopyInv => CopyIsFaithful
  <2> SUFFICES ASSUME CopyInv, phase = "running" PROVE CopyIsFaithful
    BY DEF CopyIsFaithful
  <2>1. Typed(current, TRUE)
    BY DEF CopyInv, Explained
  <2>2. CASE Marshals(current)
    <3>1. DeepCopy(current) =
            [s \in Sections |-> IF current[s] = Nil THEN Nil ELSE MendedSection(current[s])]
      BY <2>1, <2>2, RoundTrip
    <3>2. ASSUME NEW s \in Sections, current[s] # Nil
          PROVE  MendedSection(current[s]) =
                   [f \in DOMAIN current[s] |->
                      IF Mangled(s, f) THEN Replaced[current[s][f]] ELSE current[s][f]]
      <4>1. DOMAIN current[s] = Fields(s)
        BY <2>1, <3>2 DEF Typed, IsSection
      <4> QED
        BY <3>2, <4>1, MendedIsMangled DEF MendedSection
    <3> QED
      BY <3>1, <3>2 DEF CopyIsFaithful
  <2>3. CASE ~Marshals(current)
    <3>1. \E v \in DOMAIN env : v[2] \in Floats /\ NotFinite(env[v])
      BY <2>3, UnlessOddFloat DEF CopyInv
    <3> QED
      BY <2>3, <3>1 DEF CopyIsFaithful, DeepCopy
  <2> QED
    BY <2>2, <2>3
<1> QED
  BY <1>1, <1>2, CopyStep, PTL DEF Spec
=============================================================================
