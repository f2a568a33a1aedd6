------------------------------- MODULE MCConfig -------------------------------
(* The instance of Config that TLC checks: a file or an environment sets    *)
(* one field, of any type, to values of any type, or switches a section off.*)
EXTENDS Config, TLC

CONSTANTS nil, garbled

MCTexts ==
    {IntText(-1), IntText(0), IntText(1), IntText(40), IntText(300), FloatText(5),
     BoolText(FALSE), WordText("time")}

MCReplaced == "\\xff" :> "U+FFFD"

(* What only a variable can say.                                           *)
OnlyVariables == {FloatText(NaN), FloatText(Infinity), WordText("\\xff")}

Varied ==
    {<<"circuit_breaker", "failure_rate_threshold">>,
     <<"circuit_breaker", "sliding_window_size">>,
     <<"circuit_breaker", "timeout_seconds">>,
     <<"circuit_breaker", "sliding_window_type">>,
     <<"adaptive", "max_adaptive_threshold">>, <<"adaptive", "timeout_multiplier">>,
     <<"retry", "multiplier">>, <<"rate_limiter", "rate">>,
     <<"bulkhead", "max_concurrent">>, <<"metrics", "enabled">>, <<"http", "addr">>}

MCFiles ==
    {garbled} \cup {s :> nil : s \in Sections}
    \cup {v[1] :> (v[2] :> text) : v \in Varied, text \in MCTexts \cup {nil}}

MCEnvirons ==
    {<<>>} \cup {v :> text : v \in Varied, text \in MCTexts \cup OnlyVariables}
=============================================================================
