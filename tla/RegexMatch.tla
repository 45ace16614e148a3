----------------------------- MODULE RegexMatch -----------------------------
(***************************************************************************)
(* uvm_re_match of src/uvm-core/src/dpi/uvm_regex.svh over the functions   *)
(* of uvm_regex.cc, in its two variants: compiling every time, or with     *)
(* UVM_ENABLE_RE_MATCH_CACHE through uvm_regex_cache, which frees what it  *)
(* evicts.                                                                 *)
(*                                                                         *)
(* A use is a glob or an expression and the way it is matched with:        *)
(* uvm_is_match takes a glob, a resource's scope is a glob that was turned *)
(* into an expression by uvm_glob_to_re and goes to uvm_is_match as well,  *)
(* and uvm_re_match can be called with an expression.                      *)
(***************************************************************************)
EXTENDS RegexDpi, LruCache

CONSTANTS
  Simulations,  \* those to consider: whether the cache was compiled in, the
                \* uses made and the strings that are matched
  Sizes         \* the limits that are given to the cache

ASSUME RegexAssumption == MaxLength \in Nat /\ Sizes \subseteq Nat

VARIABLES
  simulation,  \* the one of Simulations
  cache,       \* the one uvm_regex_cache
  answer       \* the last call of uvm_re_match and its result, <<>> before one

dpiVars == <<live, compiled>>
vars == <<dpiVars, simulation, cache, answer>>

caching == simulation.caching
uses == simulation.uses

Init ==
  /\ live = {}
  /\ compiled = [h \in Handles |-> <<>>]
  /\ simulation \in Simulations
  /\ cache = NewCache(256)
  /\ answer = <<>>

\* The arguments of uvm_re_match; a null pointer is an empty string in
\* SystemVerilog.
Re(u) ==
  IF u.via # "scope" THEN u.text
  ELSE IF uvm_re_deglobbed(u.text, TRUE) = Null THEN <<>>
  ELSE uvm_re_deglobbed(u.text, TRUE)
Deglob(u) == u.via # "regex"

\* One bracket alone is the empty glob.
IsGlob(u) == Deglob(u) /\ (Bracketed(u.text) => Len(u.text) = 1)

\* The characters ^ $ \ { } | keep in a glob the meaning they have in an
\* expression; the globs considered have none.
ASSUME UsesAssumption ==
  \A s \in Simulations :
    /\ s.strings \subseteq Seq(Characters)
    /\ \A u \in s.uses :
         /\ u.text \in Seq(Characters)
         /\ IsGlob(u) =>
              \A i \in DOMAIN u.text : u.text[i] \notin {"^", "$", "\\", "{", "}", "|"}

\* The expression that is one bracket is copied with a negative length.
ASSUME BracketAssumption ==
  \A s \in Simulations : \A u \in s.uses : u.via = "regex" => u.text # <<"/">>

Answer(u, str, retval, reported) ==
  answer' = <<[use |-> u, str |-> str, retval |-> retval, reported |-> reported]>>

uvm_re_match(u, str) ==
  /\ ~caching
  /\ \E retval \in {0, REG_NOMATCH}, success \in BOOLEAN :
       /\ uvm_re_compexecfree(Re(u), str, Deglob(u), retval, success)
       /\ Answer(u, str, retval, ~success)
  /\ UNCHANGED <<simulation, cache>>

uvm_re_match_hit(u, str) ==
  /\ caching /\ ~cache.broken /\ exists(cache, Re(u))
  /\ cache' = Collected(get(cache, Re(u)))
  /\ Answer(u, str, uvm_re_exec(DataOf(cache, Re(u)), str), FALSE)
  /\ UNCHANGED <<dpiVars, simulation>>

\* Mutant: the cache is told of what was not compiled too.
StoredAnyway(re, rexp) == Collected(put(cache, re, rexp))

Stored(re, rexp) == IF rexp = Null THEN cache ELSE Collected(put(cache, re, rexp))

uvm_re_match_miss(u, str) ==
  /\ caching /\ ~cache.broken /\ ~exists(cache, Re(u))
  /\ DOMAIN cache.node # Nodes
  /\ \E rexp \in Handles \cup {Null}, retval \in {0, REG_NOMATCH} :
       /\ uvm_re_compexec(Re(u), str, Deglob(u), rexp, retval)
       /\ cache' = Stored(Re(u), rexp)
       /\ Answer(u, str, retval, rexp = Null)
  /\ UNCHANGED simulation

\* Every key that is evicted takes its handle with it.
Evicting(c) ==
  /\ caching /\ ~cache.broken
  /\ cache' = Collected(c)
  /\ uvm_re_free({DataOf(cache, k) : k \in keys(cache) \ keys(c)})
  /\ answer' = <<>>
  /\ UNCHANGED simulation

Evict == \E k \in keys(cache) : Evicting(evict(cache, k))
SetMaxSize == \E max \in Sizes : Evicting(set_max_size(cache, max))
Flush == \E order \in SetToSeqs(keys(cache)) : Evicting(flush(cache, order))

\* Following a null reference, or a loop without end, ends the simulation.
Next ==
  \/ \E u \in uses, str \in simulation.strings :
       uvm_re_match(u, str) \/ uvm_re_match_hit(u, str) \/ uvm_re_match_miss(u, str)
  \/ Evict
  \/ SetMaxSize
  \/ Flush

Spec == Init /\ [][Next]_vars

-----------------------------------------------------------------------------
(* Properties                                                              *)

TypeOK ==
  /\ live \subseteq Handles
  /\ DOMAIN compiled = Handles
  /\ \A k \in keys(cache) :
       cache.hash[k] \in DOMAIN cache.node /\ DataOf(cache, k) \in Handles
  /\ {cache.begin, cache.end} \subseteq DOMAIN cache.node \cup {None}
  /\ cache.max \in Nat
  /\ answer # <<>> => answer[1].retval \in {0, REG_NOMATCH}

\* The handles that are allocated are those in the cache, one for each key
\* and compiled from it, as a glob or as an expression: none is freed twice or
\* used after it was freed, and none is lost, whatever mixture of matches and
\* evictions there was.
CacheOwnsHandles ==
  /\ live = {DataOf(cache, k) : k \in keys(cache)}
  /\ \A j, k \in keys(cache) : DataOf(cache, j) = DataOf(cache, k) => j = k
  /\ \A k \in keys(cache) : \E u \in uses :
       Re(u) = k /\ compiled[DataOf(cache, k)] = Expression(k, Deglob(u))

\* What a call answers that compiles its arguments.
AnswersAfresh(a) ==
  a.retval = IF a.reported THEN REG_NOMATCH
             ELSE regexec(Expression(Re(a.use), Deglob(a.use)), a.str)

\* The cache's key is the text without deglob: nobody else uses the text of u
\* in another way, unless that makes no difference.
Unmixed(u) ==
  caching => \A w \in uses : Re(w) = Re(u) =>
               Expression(Re(w), Deglob(w)) = Expression(Re(u), Deglob(u))

\* The cache is not seen in the answers to a use whose text is used in one way
\* only: each is that of the expression its arguments stand for, whichever
\* handle was kept, for how long and since when, and only a call that reports
\* an error answers without one.
CacheIsTransparent ==
  \A i \in DOMAIN answer : Unmixed(answer[i].use) => AnswersAfresh(answer[i])

\* What a glob matches: it can be cut into pieces, one for each character of
\* the glob, `*' for any piece, `+' for any but the empty one, `?' for one
\* character, and any other character for itself.
Fits(c, str, p, q) ==
  CASE c = "*" -> p <= q
    [] c = "+" -> p < q
    [] c = "?" -> p + 1 = q
    [] OTHER -> p + 1 = q /\ c = str[q]

GlobMatches(glob, str) ==
  \E cut \in [0..Len(glob) -> 0..Len(str)] :
    /\ cut[0] = 0 /\ cut[Len(glob)] = Len(str)
    /\ \A i \in DOMAIN glob : Fits(glob[i], str, cut[i - 1], cut[i])

Matches(u, str) ==
  IF IsGlob(u) THEN GlobMatches(IF u.text = <<"/">> THEN <<>> ELSE u.text, str)
  ELSE regexec(Expression(u.text, FALSE), str) = 0

\* A string matches or not, whichever way the glob took, escaped, expanded
\* and bracketed, and whatever the cache had kept, if nobody uses the text in
\* another way; only an expression that
\* is malformed, a glob of more than a third of the buffer, or a lack of
\* memory is reported.
AnswersRight ==
  \A i \in DOMAIN answer :
    LET a == answer[i]
        small == 3 * Len(a.use.text) + 5 <= MaxLength
    IN
    /\ (~a.reported /\ small /\ Unmixed(a.use)) => (a.retval = 0 <=> Matches(a.use, a.str))
    /\ a.reported => \/ live = Handles \/ ~small
                     \/ ~IsGlob(a.use) /\ ~Parsed(Expression(a.use.text, FALSE)).valid

\* The keys in the order of the nodes, and whether that is the order of the
\* references in both directions.
Orders(c) == {order \in SetToSeqs({c.hash[k] : k \in keys(c)}) : Leads(c, order)}
RecentKeys(c) ==
  IF Orders(c) = {} THEN <<>>
  ELSE LET order == CHOOSE order \in Orders(c) : TRUE
       IN  [i \in DOMAIN order |-> c.node[order[i]].key]
WellLinked(c) == \E order \in Orders(c) : LeadsBack(c, order)

Lru == INSTANCE RecentlyUsed WITH recent <- RecentKeys(cache), max <- cache.max

\* The cache is the one that is documented: "If putting the key in the cache
\* causes the number of stored keys to exceed get_max_size, then the least
\* recently used key shall be evicted".
ImplementsLru == Lru!Spec

\* The two things that the code does otherwise: put adds a key whatever the
\* size, and a hit on the least recently used of several leaves m_end behind.
AddsBeyondLimit ==
  /\ keys(cache') \ keys(cache) # {}
  /\ cache.max # 0 /\ size(cache) >= cache.max
HitsLast ==
  LET recent == RecentKeys(cache)
  IN  Len(recent) > 1 /\ RecentKeys(cache')[1] = recent[Len(recent)]

\* Apart from them every operation on a list that is in order, its loops
\* included, does what is documented, follows no null reference and leaves a
\* list in order.
OrderIsKept ==
  [][WellLinked(cache) /\ ~AddsBeyondLimit =>
       /\ Lru!Next \/ UNCHANGED Lru!vars
       /\ cache'.broken = cache.broken
       /\ WellLinked(cache') \/ HitsLast]_vars
=============================================================================
