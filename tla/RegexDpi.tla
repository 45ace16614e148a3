------------------------------ MODULE RegexDpi ------------------------------
(***************************************************************************)
(* The C half of UVM's string matching, src/uvm-core/src/dpi/uvm_regex.cc. *)
(* Globs, expressions and strings are sequences of characters.  regcomp    *)
(* and regexec are modelled for expressions without alternatives, groups,  *)
(* sets and counts, those a glob expands to.                               *)
(***************************************************************************)
EXTENDS Integers, SequencesExt

CONSTANTS
  Characters, \* those of globs, expressions and strings
  Handles,    \* what malloc returns
  MaxLength,  \* UVM_REGEX_MAX_LENGTH
  Null        \* the null pointer

ASSUME HandlesAssumption == Null \notin Handles

ASSUME CharactersAssumption ==
  /\ {"^", "$", ".", "\\", "/"} \subseteq Characters
  /\ {"anything", "start", "end"} \cap Characters = {}
  /\ Null \notin Seq(Characters)

VARIABLES
  live,       \* the handles that are allocated
  compiled    \* the expression each handle was compiled from

REG_NOMATCH == 1

-----------------------------------------------------------------------------
(* Globs                                                                   *)

Bracketed(re) == re # <<>> /\ re[1] = "/" /\ Last(re) = "/"
Unbracketed(re) == SubSeq(re, 2, Len(re) - 1)

\* Mutant: a dot stands for itself without being escaped.
ExpansionUnescaped(c) ==
  CASE c \in {"*", "+"} -> <<".", c>>
    [] c \in {"[", "]", "(", ")"} -> <<"\\", c>>
    [] c = "?" -> <<".">>
    [] OTHER -> <<c>>

Expansion(c) ==
  CASE c \in {"*", "+"} -> <<".", c>>
    [] c \in {".", "[", "]", "(", ")"} -> <<"\\", c>>
    [] c = "?" -> <<".">>
    [] OTHER -> <<c>>

\* The count that is kept of the expansion's length: more than there are
\* characters, since a character that becomes two is counted as three.
glob_len(glob, brackets, added) ==
  Len(glob) + 2 * Cardinality({i \in DOMAIN glob : Len(Expansion(glob[i])) = 2})
    + 2 * Len(brackets) + added + 1

uvm_re_deglobbed(glob, with_brackets) ==
  LET brackets == IF with_brackets THEN <<"/">> ELSE <<>>
      body == FlattenSeq([i \in DOMAIN glob |-> Expansion(glob[i])])
      start == IF glob[1] = "^" THEN <<>> ELSE <<"^">>
      end == IF Last(body) = "$" THEN <<>> ELSE <<"$">>
  IN
  CASE glob \in {<<>>, <<"/">>} -> brackets \o <<"^", "$">> \o brackets
    [] Bracketed(glob) /\ Len(glob) > 1 ->
         IF Len(glob) > MaxLength THEN Null
         ELSE IF with_brackets THEN glob ELSE Unbracketed(glob)
    [] OTHER ->
         IF glob_len(glob, brackets, Len(start) + Len(end)) > MaxLength THEN Null
         ELSE brackets \o start \o body \o end \o brackets

-----------------------------------------------------------------------------
(* regcomp and regexec                                                     *)

\* The elements of an expression: a character, any character, or one end of
\* the string, once, any number of times, or at least once.
Append1(parsed, what) ==
  [parsed EXCEPT !.elements = Append(@, [what |-> what, times |-> "once"]),
                 !.escaped = FALSE]
Repeat(parsed, times) ==
  IF parsed.elements = <<>> THEN [parsed EXCEPT !.valid = FALSE]
  ELSE [parsed EXCEPT !.elements[Len(parsed.elements)].times = times]

ReadOn(parsed, c) ==
  CASE parsed.escaped -> Append1(parsed, c)
    [] ~parsed.escaped /\ c = "\\" -> [parsed EXCEPT !.escaped = TRUE]
    [] ~parsed.escaped /\ c = "*" -> Repeat(parsed, "any")
    [] ~parsed.escaped /\ c = "+" -> Repeat(parsed, "some")
    [] ~parsed.escaped /\ c = "." -> Append1(parsed, "anything")
    [] ~parsed.escaped /\ c = "^" -> Append1(parsed, "start")
    [] ~parsed.escaped /\ c = "$" -> Append1(parsed, "end")
    [] ~parsed.escaped /\ c = "(" -> [parsed EXCEPT !.valid = FALSE]
    [] OTHER -> Append1(parsed, c)

Parsed(expression) ==
  LET read[i \in 0..Len(expression)] ==
        IF i = 0 THEN [elements |-> <<>>, escaped |-> FALSE, valid |-> TRUE]
        ELSE ReadOn(read[i - 1], expression[i])
  IN read[Len(expression)]

\* Where in str a match may stand after an element, if before it it stood at
\* one of the positions in from.
Beyond(element, str, from) ==
  CASE element.what = "start" -> from \cap {0}
    [] element.what = "end" -> from \cap {Len(str)}
    [] OTHER ->
         {q \in 0..Len(str) : \E p \in from :
            /\ p <= q
            /\ \A i \in (p + 1)..q : element.what \in {"anything", str[i]}
            /\ element.times = "once" => q = p + 1
            /\ element.times = "some" => q > p}

Standing(elements, str) ==
  LET standing[i \in 0..Len(elements)] ==
        IF i = 0 THEN 0..Len(str) ELSE Beyond(elements[i], str, standing[i - 1])
  IN standing[Len(elements)]

regexec(expression, str) ==
  IF Standing(Parsed(expression).elements, str) # {} THEN 0 ELSE REG_NOMATCH

-----------------------------------------------------------------------------
(* The functions of the interface                                          *)

\* What uvm_re_comp gives to regcomp.
Expression(re, deglob) ==
  IF deglob THEN uvm_re_deglobbed(re, FALSE)
  ELSE IF Len(re) > MaxLength THEN Null
  ELSE IF Bracketed(re) THEN Unbracketed(re) ELSE re

Compiles(re, deglob) ==
  /\ Expression(re, deglob) # Null
  /\ Parsed(Expression(re, deglob)).valid
  /\ live # Handles

\* A handle allocated for an expression that regcomp refuses is freed again.
uvm_re_comp(re, deglob, rexp) ==
  \/ /\ ~Compiles(re, deglob)
     /\ rexp = Null
     /\ UNCHANGED <<live, compiled>>
  \/ /\ Compiles(re, deglob)
     /\ rexp \in Handles \ live
     /\ live' = live \cup {rexp}
     /\ compiled' = [compiled EXCEPT ![rexp] = Expression(re, deglob)]

uvm_re_exec(rexp, str) == regexec(compiled[rexp], str)

\* Several handles freed one after the other.
uvm_re_free(rexps) ==
  /\ live' = live \ rexps
  /\ compiled' = [h \in Handles |-> IF h \in rexps THEN <<>> ELSE compiled[h]]

uvm_re_compexec(re, str, deglob, rexp, exec_ret) ==
  /\ uvm_re_comp(re, deglob, rexp)
  /\ exec_ret = IF rexp = Null THEN REG_NOMATCH ELSE regexec(compiled'[rexp], str)

\* Mutant: the handle is not freed if the string does not match.
compexecfreeOnMatch(re, str, deglob, exec_ret, success) ==
  /\ success = Compiles(re, deglob)
  /\ exec_ret = IF success THEN regexec(Expression(re, deglob), str)
                ELSE REG_NOMATCH
  /\ IF success /\ exec_ret # 0
       THEN \E rexp \in Handles : uvm_re_comp(re, deglob, rexp)
       ELSE UNCHANGED <<live, compiled>>

\* The handle is allocated and freed again within the call.
uvm_re_compexecfree(re, str, deglob, exec_ret, success) ==
  /\ success = Compiles(re, deglob)
  /\ exec_ret = IF success THEN regexec(Expression(re, deglob), str)
                ELSE REG_NOMATCH
  /\ UNCHANGED <<live, compiled>>
=============================================================================
