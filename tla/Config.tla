-------------------------------- MODULE Config --------------------------------
(***************************************************************************)
(* internal/config/config.go, and the life of a program that uses it: it   *)
(* starts from a file or a preset, applies the environment, validates, and *)
(* from then on replaces its configuration by what check (watcher.go)      *)
(* loads from the edited file.  The two ways to a configuration differ:    *)
(* only the first one looks at the environment.                            *)
(*                                                                         *)
(* A configuration maps each section to a record of its fields, or to Nil. *)
(* float64 fields are in tenths; NaN and infinity, which an environment    *)
(* variable may spell and JSON cannot, are numbers that nothing else uses. *)
(* A variable may also hold bytes that are not UTF-8; JSON never does.     *)
(***************************************************************************)
EXTENDS Integers

CONSTANTS
    Files,      \* what the file may hold, see LoadBytes; Garbled is no JSON
    Environs,   \* the environments a program may be started in
    Nil,        \* the nil pointer, and a field given as null
    Garbled,
    NaN, Infinity,
    Replaced,   \* maps a string that is not UTF-8 to what JSON makes of it:
                \* U+FFFD in the place of what is wrong
    MaxUint8, MaxUint32,
    MaxEdits    \* bound: edits of the file

ASSUME NumbersAssumption ==
    /\ MaxUint8 \in Nat /\ MaxUint32 \in Nat /\ MaxEdits \in Nat
    /\ NaN \in Nat /\ Infinity \in Nat /\ NaN # Infinity
    /\ \A x \in {NaN, Infinity} : x > 10 /\ x % 10 # 0

-----------------------------------------------------------------------------
(* The structs and their defaults.                                         *)

DefaultCircuitBreaker == [name |-> "default", max_requests |-> 1,
    timeout_seconds |-> 60, failure_rate_threshold |-> 50,
    slow_call_rate_threshold |-> 100, slow_call_duration_ms |-> 0,
    minimum_number_of_calls |-> 10, sliding_window_size |-> 100,
    sliding_window_type |-> "count"]

DefaultAdaptive == [name |-> "adaptive", failure_rate_ema_alpha |-> 5,
    latency_ema_alpha |-> 3, min_adaptive_threshold |-> 200,
    max_adaptive_threshold |-> 800, consecutive_failure_limit |-> 5,
    slow_call_multiplier |-> 30, min_slow_call_duration_ms |-> 100,
    max_slow_call_duration_ms |-> 5000, timeout_multiplier |-> 20,
    max_timeout_seconds |-> 300, timeout_seconds |-> 60,
    failure_rate_threshold |-> 50, slow_call_rate_threshold |-> 100,
    minimum_number_of_calls |-> 10, max_requests |-> 1]

DefaultRetry == [max_retries |-> 3, strategy |-> "exponential", interval_ms |-> 1000,
    max_interval_ms |-> 30000, multiplier |-> 20, max_duration_ms |-> 60000]

DefaultRateLimiter == [type |-> "token_bucket", rate |-> 1000, burst |-> 200]
DefaultTimeout == [duration_ms |-> 5000]
DefaultBulkhead == [max_concurrent |-> 10, max_wait_duration_ms |-> 5000]
DefaultMetrics == [enabled |-> TRUE, namespace |-> "goshield", endpoint |-> "/metrics"]
DefaultHTTP == [enabled |-> TRUE, addr |-> ":8080", metrics_addr |-> ":9090"]

DefaultConfig == [
    circuit_breaker |-> DefaultCircuitBreaker, adaptive |-> DefaultAdaptive,
    retry |-> DefaultRetry, rate_limiter |-> DefaultRateLimiter,
    timeout |-> DefaultTimeout, bulkhead |-> DefaultBulkhead,
    metrics |-> DefaultMetrics, http |-> DefaultHTTP]

Sections == DOMAIN DefaultConfig

Uint8s == {"failure_rate_threshold", "slow_call_rate_threshold"}
Uint32s == {"max_requests", "minimum_number_of_calls", "sliding_window_size"}
Floats == {"failure_rate_ema_alpha", "latency_ema_alpha", "min_adaptive_threshold",
           "max_adaptive_threshold", "slow_call_multiplier", "timeout_multiplier",
           "multiplier", "rate"}
Bools == {"enabled"}
Strings == {"name", "sliding_window_type", "strategy", "type", "namespace",
            "endpoint", "addr", "metrics_addr"}

(* The fields a variable GOSHIELD_<SECTION>_<KEY> overrides.               *)
Overridable == [
    circuit_breaker |-> Uint8s \cup Uint32s \cup {"timeout_seconds"},
    adaptive |-> {"failure_rate_ema_alpha", "latency_ema_alpha",
        "min_adaptive_threshold", "max_adaptive_threshold",
        "consecutive_failure_limit", "slow_call_multiplier", "timeout_multiplier",
        "max_timeout_seconds"},
    retry |-> {"max_retries", "interval_ms", "max_interval_ms", "multiplier",
        "max_duration_ms"},
    rate_limiter |-> {"rate", "burst"},
    timeout |-> {"duration_ms"},
    bulkhead |-> {"max_concurrent", "max_wait_duration_ms"},
    metrics |-> {"enabled", "namespace", "endpoint"},
    http |-> {"enabled", "addr", "metrics_addr"}]

-----------------------------------------------------------------------------
(* Texts: a value as JSON or a variable spells it.  It reads as an "int",  *)
(* as a "float" that is no int, as a "bool" or as a "word".                *)

Text(reads, number, word) == [reads |-> reads, number |-> number, word |-> word]

IntText(n) == Text("int", n, "digits")
FloatText(n) == Text("float", n, "decimals")
BoolText(b) == Text("bool", IF b THEN 1 ELSE 0, "true or false")
WordText(word) == Text("word", 0, word)

(* All strings, with those that this module names: a prover does not know  *)
(* of a literal that it is in STRING.                                      *)
NamedWords ==
    {"", "digits", "decimals", "true or false", "default", "adaptive", "count",
     "exponential", "token_bucket", "goshield", "/metrics", ":8080", ":9090"}

Words == STRING \union NamedWords

Repaired(word) == IF word \in DOMAIN Replaced THEN Replaced[word] ELSE word

Texts == [reads : {"int", "float", "bool", "word"}, number : Int, word : Words]

(* Documents and environments consist of texts, the words of a document of *)
(* UTF-8: json.Unmarshal replaces what is not.  Nil is none of the values  *)
(* it stands in for.                                                       *)
ASSUME TextsAssumption ==
    /\ \A word \in DOMAIN Replaced : Replaced[word] \in Words \ DOMAIN Replaced
    /\ DOMAIN Replaced \intersect NamedWords = {}
    /\ \A document \in Files \ {Garbled} : \A s \in DOMAIN document :
         document[s] # Nil => \A f \in DOMAIN document[s] :
            /\ document[s][f] \in Texts \union {Nil}
            /\ document[s][f] # Nil => document[s][f].word \notin DOMAIN Replaced
    /\ \A environ \in Environs : \A v \in DOMAIN environ : environ[v] \in Texts
    /\ Nil \notin Texts
    /\ \A s \in Sections : LET fields == DOMAIN DefaultConfig[s] IN
         /\ Nil \notin [fields -> Texts]
         /\ Nil \notin [fields -> Int \union Words \union BOOLEAN]

InRange(field, n) ==
    /\ field \in Uint8s => n \in 0 .. MaxUint8
    /\ field \in Uint32s => n \in 0 .. MaxUint32

(* encoding/json: a value of another type or out of range is an error.     *)
Decodes(field, text) ==
    CASE field \in Strings -> text.reads = "word"
      [] field \in Bools   -> text.reads = "bool"
      [] field \in Floats  -> text.reads \in {"int", "float"}
                                /\ text.number \notin {NaN, Infinity}
      [] OTHER             -> text.reads = "int" /\ InRange(field, text.number)

(* strconv, by which applyEnv... reads a variable: everything is a string, *)
(* UTF-8 or not, 0 and 1 are booleans, NaN and Inf are floats.             *)
Parses(field, text) ==
    CASE field \in Strings -> TRUE
      [] field \in Bools   -> text.reads = "bool"
                                \/ (text.reads = "int" /\ text.number \in {0, 1})
      [] field \in Floats  -> text.reads \in {"int", "float"}
      [] OTHER             -> text.reads = "int" /\ InRange(field, text.number)

Value(field, text) ==
    CASE field \in Strings -> text.word
      [] field \in Bools   -> text.number = 1
      [] field \in Floats  -> IF text.reads = "int" THEN 10 * text.number ELSE text.number
      [] OTHER             -> text.number

(* json.Marshal.                                                           *)
Spelled(field, value) ==
    CASE field \in Strings -> WordText(Repaired(value))
      [] field \in Bools   -> BoolText(value)
      [] field \in Floats  -> FloatText(value)
      [] OTHER             -> IntText(value)

Zero(field) ==
    CASE field \in Strings -> ""
      [] field \in Bools   -> FALSE
      [] OTHER             -> 0

-----------------------------------------------------------------------------
(* JSON in and out.  A document maps some sections to null, here Nil, or   *)
(* to some of their fields; a field that is null is left as it was.  A     *)
(* section that was nil is allocated before it is filled.                  *)

EmptyConfig == [s \in Sections |-> Nil]

Allocated(s) == [f \in DOMAIN DefaultConfig[s] |-> Zero(f)]

Decoded(section, document) ==
    [f \in DOMAIN section |->
        IF f \in DOMAIN document /\ document[f] # Nil THEN Value(f, document[f])
        ELSE section[f]]

Unmarshals(document) ==
    /\ document # Garbled
    /\ \A s \in DOMAIN document : document[s] # Nil =>
         \A f \in DOMAIN document[s] : document[s][f] # Nil => Decodes(f, document[s][f])

Unmarshal(document, c) ==
    [s \in Sections |->
        IF s \notin DOMAIN document THEN c[s]
        ELSE IF document[s] = Nil THEN Nil
        ELSE Decoded(IF c[s] = Nil THEN Allocated(s) ELSE c[s], document[s])]

Present(c) == {s \in Sections : c[s] # Nil}

(* A float64 that JSON has no number for makes json.Marshal fail.          *)
Marshals(c) ==
    \A s \in Present(c) : \A f \in DOMAIN c[s] \cap Floats : c[s][f] \notin {NaN, Infinity}

Marshal(c) ==
    [s \in Present(c) |-> [f \in DOMAIN c[s] |-> Spelled(f, c[s][f])]]

LoadBytes(document) == Unmarshal(document, DefaultConfig)

(* Mutation: the copy is decoded the way a file is.                        *)
DeepCopyOverDefaults(c) == IF Marshals(c) THEN LoadBytes(Marshal(c)) ELSE EmptyConfig

(* Both errors are dropped.                                                *)
DeepCopy(c) == IF Marshals(c) THEN Unmarshal(Marshal(c), EmptyConfig) ELSE EmptyConfig

-----------------------------------------------------------------------------
(* An environment maps some <<section, field>> to the text of its          *)
(* variable, which is not empty.  A text that does not parse is ignored.   *)
Overrides(env, s, f) ==
    f \in Overridable[s] /\ <<s, f>> \in DOMAIN env /\ Parses(f, env[<<s, f>>])

ApplyEnvOverrides(c, env) ==
    [s \in Sections |->
        IF c[s] = Nil THEN Nil
        ELSE [f \in DOMAIN c[s] |->
                IF Overrides(env, s, f) THEN Value(f, env[<<s, f>>]) ELSE c[s][f]]]

-----------------------------------------------------------------------------
(* Validate, one rule for each section.  No comparison holds of NaN.       *)

Less(x, y) == x # NaN /\ y # NaN /\ x < y
Outside(x, low, high) == Less(x, low) \/ Less(high, x)

BreakerValid(cb) ==
    /\ cb.failure_rate_threshold <= 100 /\ cb.slow_call_rate_threshold <= 100
    /\ cb.sliding_window_size # 0 /\ cb.timeout_seconds > 0
    /\ cb.sliding_window_type \in {"count", "time"}

AdaptiveValid(a) ==
    /\ ~Outside(a.failure_rate_ema_alpha, 0, 10) /\ ~Outside(a.latency_ema_alpha, 0, 10)
    /\ ~Outside(a.min_adaptive_threshold, 0, 1000)
    /\ ~Outside(a.max_adaptive_threshold, 0, 1000)
    /\ ~Less(a.max_adaptive_threshold, a.min_adaptive_threshold)
    /\ a.consecutive_failure_limit >= 0
    /\ ~Less(a.timeout_multiplier, 10) /\ a.max_timeout_seconds > 0

RetryValid(r) ==
    /\ r.max_retries >= 0 /\ r.interval_ms > 0
    /\ r.strategy \in {"fixed", "exponential", "exponential_random", "fibonacci"}
    /\ ~Less(r.multiplier, 10)

RateLimiterValid(rl) ==
    /\ ~(rl.rate # NaN /\ rl.rate <= 0) /\ rl.burst > 0
    /\ rl.type \in {"token_bucket", "sliding_window"}

Validate(c) ==
    /\ c["circuit_breaker"] # Nil => BreakerValid(c["circuit_breaker"])
    /\ c["adaptive"] # Nil        => AdaptiveValid(c["adaptive"])
    /\ c["retry"] # Nil           => RetryValid(c["retry"])
    /\ c["rate_limiter"] # Nil    => RateLimiterValid(c["rate_limiter"])
    /\ c["timeout"] # Nil         => c["timeout"].duration_ms > 0
    /\ c["bulkhead"] # Nil        => c["bulkhead"].max_concurrent > 0

-----------------------------------------------------------------------------
PresetConservative ==
    [DefaultConfig EXCEPT
        !.circuit_breaker.failure_rate_threshold = 30,
        !.circuit_breaker.slow_call_rate_threshold = 50,
        !.circuit_breaker.minimum_number_of_calls = 5,
        !.circuit_breaker.timeout_seconds = 30,
        !.retry.max_retries = 5, !.retry.interval_ms = 500,
        !.rate_limiter.rate = 500, !.rate_limiter.burst = 100,
        !.timeout.duration_ms = 3000, !.bulkhead.max_concurrent = 5]

PresetAggressive ==
    [DefaultConfig EXCEPT
        !.circuit_breaker.failure_rate_threshold = 80,
        !.circuit_breaker.slow_call_rate_threshold = 100,
        !.circuit_breaker.minimum_number_of_calls = 20,
        !.circuit_breaker.timeout_seconds = 120,
        !.retry.max_retries = 2, !.retry.interval_ms = 2000,
        !.rate_limiter.rate = 5000, !.rate_limiter.burst = 1000,
        !.timeout.duration_ms = 10000, !.bulkhead.max_concurrent = 50]

-----------------------------------------------------------------------------
VARIABLES
    env,        \* the environment; never changes
    file,       \* what the file holds
    current,    \* the program's configuration, Nil before it has one
    phase,      \* "starting", "running", or "exited" for want of a valid one
    edits       \* edits of the file, for their bound

vars == <<env, file, current, phase, edits>>

Init ==
    /\ env \in Environs /\ file \in Files
    /\ current = Nil /\ phase = "starting" /\ edits = 0

Start(c) ==
    /\ phase = "starting"
    /\ LET configured == ApplyEnvOverrides(c, env)
       IN  IF Validate(configured)
           THEN current' = configured /\ phase' = "running"
           ELSE phase' = "exited" /\ UNCHANGED current
    /\ UNCHANGED <<env, file, edits>>

StartFromFile == Unmarshals(file) /\ Start(LoadBytes(file))

StartFromPreset ==
    \E c \in {DefaultConfig, PresetConservative, PresetAggressive} : Start(c)

LoadFails ==
    /\ phase = "starting" /\ ~Unmarshals(file)
    /\ phase' = "exited"
    /\ UNCHANGED <<env, file, current, edits>>

Edit(document) ==
    /\ phase = "running" /\ edits < MaxEdits
    /\ file' = document /\ edits' = edits + 1
    /\ UNCHANGED <<env, current, phase>>

(* check, and an onChange that takes over what it is given.                *)
Reload ==
    /\ phase = "running"
    /\ Unmarshals(file) /\ Validate(LoadBytes(file))
    /\ current' = LoadBytes(file)
    /\ UNCHANGED <<env, file, phase, edits>>

Next ==
    \/ StartFromFile \/ StartFromPreset \/ LoadFails \/ Reload
    \/ \E document \in Files : Edit(document)

Spec == Init /\ [][Next]_vars

-----------------------------------------------------------------------------
TypeOK ==
    /\ env \in Environs /\ file \in Files
    /\ phase \in {"starting", "running", "exited"} /\ edits \in 0 .. MaxEdits
    /\ current # Nil =>
         /\ DOMAIN current = Sections
         /\ \A s \in Present(current) : DOMAIN current[s] = DOMAIN DefaultConfig[s]

(* A number that JSON cannot spell.                                       *)
NotFinite(text) == text.reads = "float" /\ text.number \in {NaN, Infinity}

(* A string that the environment has set, and that is not UTF-8.           *)
Mangled(s, f) ==
    /\ f \in Strings /\ <<s, f>> \in DOMAIN env
    /\ current[s][f] = env[<<s, f>>].word /\ current[s][f] \in DOMAIN Replaced

(* "DeepCopy returns a deep copy of the config." (config.go:352): it goes  *)
(* through JSON and drops both errors.  What a running program has loaded, *)
(* overridden and validated comes out of that as it went in - sections     *)
(* that are switched off stay off, numbers keep their value - save for the *)
(* strings that the environment has set and that are not UTF-8, which come *)
(* out with U+FFFD in them.  Or, if the environment has set a float64 to   *)
(* what JSON cannot spell, which Validate does not always refuse, nothing  *)
(* of it comes out at all.                                                 *)
CopyIsFaithful ==
    phase = "running" =>
        \/ DeepCopy(current) =
             [s \in Sections |->
                IF current[s] = Nil THEN Nil
                ELSE [f \in DOMAIN current[s] |->
                        IF Mangled(s, f) THEN Replaced[current[s][f]] ELSE current[s][f]]]
        \/ /\ DeepCopy(current) = EmptyConfig
           /\ \E v \in DOMAIN env : v[2] \in Floats /\ NotFinite(env[v])
=============================================================================
