---------------------------- MODULE MCRegexMatch ----------------------------
(***************************************************************************)
(* Globs of at most three characters, each for itself without a cache, and *)
(* three small sets of uses that share one.                                *)
(***************************************************************************)
EXTENDS RegexMatch

MCCharacters == {"a", "*", "+", "?", "(", ".", "^", "$", "\\", "/"}

Globs ==
  UNION {[1..n -> {"a", ".", "*", "+", "?", "("}] : n \in 0..2}
    \cup [1..3 -> {"a", "*", "?"}] \cup {<<"/">>}

Use(text, via) == [text |-> text, via |-> via]

Plain(g) ==
  [caching |-> FALSE, uses |-> {Use(g, "is_match"), Use(g, "scope")},
   strings |-> UNION {[1..n -> {"a", ".", "("}] : n \in 0..2}]

Cached(us) == [caching |-> TRUE, uses |-> us, strings |-> {<<".", "a">>}]

\* Three keys, each used in one way, and two, of which one is used in two.
Shared ==
  Cached({Use(<<"a", "*">>, "is_match"), Use(<<"a", "*">>, "scope"),
          Use(<<"/", "a", "+", "/">>, "regex")})
Mixed ==
  Cached({Use(<<"a", "*">>, "is_match"), Use(<<"a", "*">>, "regex"),
          Use(<<"/", "a", "+", "/">>, "regex")})

MCShared == {Shared}

MCSimulations ==
  {Plain(g) : g \in Globs}
    \cup {Plain(<<"*", "*", "*", "*", "*">>), Shared, Mixed,
          Cached({Use(<<"*", "*", "*", "*", "*">>, "is_match"),
                  Use(<<"*", "*", "*", "*", "*">>, "scope"),
                  Use(<<"/", "/">>, "regex"), Use(<<"(">>, "regex")})}

\* Which handle malloc returns makes no difference.
HandleSymmetry == Permutations(Handles)
=============================================================================
