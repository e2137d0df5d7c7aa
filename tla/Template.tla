------------------------------ MODULE Template ------------------------------
(***************************************************************************)
(* The template engine (template.py) as MRFCommon.render_template          *)
(* (common.py) calls it.  _Template compiles the names a caller passes     *)
(* into one regular expression, "@", then either a function name, "(",  *)
(* an argument of any characters but ")" and ")", or a variable name, then *)
(* "@".  The names of each alternation come in the iteration order of a   *)
(* frozenset, which changes with the string hash seed of the process;     *)
(* render() is re.sub with this pattern.  _load_template is              *)
(* functools.cache'd on the template name, the file type and the two name *)
(* sets.                                                                   *)
(*                                                                         *)
(* A text is a sequence of one-character strings and a name a sequence of  *)
(* letters.  What a function call or a variable is replaced by is opaque:  *)
(* FuncValue and VarValue record the name, the argument and the call that  *)
(* produced it, so a replacement never looks like template text.           *)
(***************************************************************************)
EXTENDS Integers, Sequences, SequencesExt, FiniteSets, TLC

CONSTANTS
  TemplateNames,        \* template_name values callers pass
  FileTypes,            \* file_type values
  TemplateText(_, _),   \* TemplateText(name, ft): text of <name>.inc<ft>
  AddrName,             \* "ADDR", the function MRFCommon always adds
  PvPrefixName,         \* "PV_PREFIX", the variable MRFCommon always adds
  CallerFunctionNames,  \* the sets of function names a caller may pass
  CallerVariableNames,  \* the sets of variable names a caller may pass
  MaxCalls              \* render_template calls in a behaviour

VARIABLES
  cache,  \* the functools.cache of _load_template: key -> _Template
  calls,  \* render_template calls made
  last    \* the last call: its arguments and what it returned

vars == <<cache, calls, last>>

\* The value functions[f](arg) and variables[v] have in the k-th call.
FuncValue(f, arg, k) == <<"[">> \o f \o <<"|">> \o arg \o <<ToString(k), "]">>
VarValue(v, k) == <<"<">> \o v \o <<ToString(k), ">">>

-----------------------------------------------------------------------------
(* _Template.__init__: the compiled pattern is the two alternations in the *)
(* order the frozensets were iterated; it is None when both are empty.     *)
Compile(text, funcOrder, varOrder) ==
  [text |-> text, funcs |-> funcOrder, vars |-> varOrder]

\* Mutant: (?P<func_arg>.*) instead of [^)]*, so the argument runs to the
\* last ")" that is followed by "@".
FuncMatchLenGreedy(t, f) ==
  LET ends == {i \in Len(f) + 3..Len(t) - 1 : t[i] = ")" /\ t[i + 1] = "@"}
  IN  IF IsPrefix(<<"@">> \o f \o <<"(">>, t) /\ ends # {}
      THEN Max(ends) + 1 ELSE 0

\* f\((?P<func_arg>[^)]*)\)@ after the "@" at the start of t: the length
\* of the match, 0 if there is none.  [^)]* stops at the first ")", and
\* backtracking into it cannot help, so that ")" must be followed by "@".
FuncMatchLen(t, f) ==
  LET j == SelectInSubSeq(t, Len(f) + 3, Len(t), LAMBDA c : c = ")")
  IN  IF /\ IsPrefix(<<"@">> \o f \o <<"(">>, t)
         /\ j > 0
         /\ j < Len(t)
         /\ t[j + 1] = "@"
      THEN j + 1
      ELSE 0

\* (?P<var_name>v)@ after the "@" at the start of t.
VarMatches(t, v) == IsPrefix(<<"@">> \o v \o <<"@">>, t)

NoMatch == [len |-> 0, kind |-> "none", name |-> <<>>, arg |-> <<>>]

\* The pattern matched at the start of t: the alternation takes the first
\* function name (in the compiled order) whose whole alternative matches,
\* and only then tries the variable names.
Match(p, t) ==
  LET fk == SelectInSeq(p.funcs, LAMBDA f : FuncMatchLen(t, f) > 0)
      vk == SelectInSeq(p.vars, LAMBDA v : VarMatches(t, v))
  IN  CASE fk > 0 ->
             LET f == p.funcs[fk]
                 n == FuncMatchLen(t, f)
             IN  [len |-> n, kind |-> "func", name |-> f,
                  arg |-> SubSeq(t, Len(f) + 3, n - 2)]
        [] vk > 0 ->
             [len |-> Len(p.vars[vk]) + 2, kind |-> "var",
              name |-> p.vars[vk], arg |-> <<>>]
        [] OTHER -> NoMatch

\* render()'s match callback: call the function with the argument, or
\* look the variable up.
Replacement(m, k) ==
  IF m.kind = "func" THEN FuncValue(m.name, m.arg, k) ELSE VarValue(m.name, k)

\* re.sub(pattern, match, text): where no match starts one character is
\* copied; after a match scanning resumes behind it, and what was
\* substituted is never scanned again.
RECURSIVE ReSub(_, _, _)
ReSub(p, t, k) ==
  IF t = <<>> THEN <<>>
  ELSE LET m == Match(p, t) IN
       IF m.len = 0 THEN <<Head(t)>> \o ReSub(p, Tail(t), k)
       ELSE Replacement(m, k) \o ReSub(p, SubSeq(t, m.len + 1, Len(t)), k)

\* _Template.render
Render(p, k) ==
  IF p.funcs = <<>> /\ p.vars = <<>> THEN p.text ELSE ReSub(p, p.text, k)

\* Mutant: the file name is built without the file type's suffix.
LoadTemplateIgnoringFileType(name, ft, funcOrder, varOrder) ==
  Compile(TemplateText(name, CHOOSE x \in FileTypes : TRUE), funcOrder, varOrder)

\* _load_template on a cache miss: read <name>.inc<ft> and compile it.
LoadTemplate(name, ft, funcOrder, varOrder) ==
  Compile(TemplateText(name, ft), funcOrder, varOrder)

\* Mutant: the cache is keyed on the template alone.
CacheKeyByName(name, ft, funcs, vs) == <<name, ft>>

\* The arguments functools.cache keys _load_template on.
CacheKey(name, ft, funcs, vs) == <<name, ft, funcs, vs>>

-----------------------------------------------------------------------------
Init ==
  /\ cache = <<>>
  /\ calls = 0
  /\ last = [name |-> CHOOSE n \in TemplateNames : TRUE,
             ft |-> CHOOSE ft \in FileTypes : TRUE,
             funcs |-> {}, vars |-> {}, output |-> <<>>]

\* MRFCommon.render_template adds ADDR and PV_PREFIX to the caller's names;
\* render_template passes both key sets to _load_template, which compiles
\* the template only on a cache miss; the template is then rendered.
RenderTemplate(name, ft, funcs, vs) ==
  LET fnames == funcs \cup {AddrName}
      vnames == vs \cup {PvPrefixName}
      key == CacheKey(name, ft, fnames, vnames)
      k == calls + 1
      compiled ==
        IF key \in DOMAIN cache THEN {cache[key]}
        ELSE {LoadTemplate(name, ft, fo, vo) :
                fo \in SetToSeqs(fnames), vo \in SetToSeqs(vnames)}
  IN  /\ \E p \in compiled :
           /\ cache' = IF key \in DOMAIN cache THEN cache
                       ELSE [x \in DOMAIN cache \cup {key} |->
                               IF x = key THEN p ELSE cache[x]]
           /\ last' = [name |-> name, ft |-> ft, funcs |-> fnames,
                       vars |-> vnames, output |-> Render(p, k)]
      /\ calls' = k

\* MaxCalls bounds the calls a behaviour makes.
Next ==
  /\ calls < MaxCalls
  /\ \E name \in TemplateNames, ft \in FileTypes,
        funcs \in CallerFunctionNames, vs \in CallerVariableNames :
       RenderTemplate(name, ft, funcs, vs)

Spec == Init /\ [][Next]_vars

-----------------------------------------------------------------------------
(* What the docstrings of render_template (template.py, common.py) say:   *)
(* @NAME(ARGUMENT)@ with NAME a function and an ARGUMENT without ")" is   *)
(* replaced by the function's result, @NAME@ with NAME a variable by its  *)
(* value, and all other text is kept.  Where placeholders overlap, the    *)
(* one that starts first is replaced.                                     *)
Placeholder(s, funcs, vs) ==
  \/ \E f \in funcs :
       LET arg == SubSeq(s, Len(f) + 3, Len(s) - 2) IN
       /\ s = <<"@">> \o f \o <<"(">> \o arg \o <<")", "@">>
       /\ ~ \E i \in DOMAIN arg : arg[i] = ")"
  \/ \E v \in vs : s = <<"@">> \o v \o <<"@">>

PlaceholderValue(s, funcs, vs, k) ==
  IF \E v \in vs : s = <<"@">> \o v \o <<"@">>
  THEN VarValue(SubSeq(s, 2, Len(s) - 1), k)
  ELSE LET f == CHOOSE f \in funcs : IsPrefix(<<"@">> \o f \o <<"(">>, s)
       IN  FuncValue(f, SubSeq(s, Len(f) + 3, Len(s) - 2), k)

RECURSIVE Documented(_, _, _, _)
Documented(t, funcs, vs, k) ==
  LET occ == {o \in (1..Len(t)) \X (1..Len(t)) :
                o[1] <= o[2] /\ Placeholder(SubSeq(t, o[1], o[2]), funcs, vs)}
  IN  IF occ = {} THEN t
      ELSE LET i == Min({o[1] : o \in occ})
               j == Min({o[2] : o \in {x \in occ : x[1] = i}})
           IN  SubSeq(t, 1, i - 1)
               \o PlaceholderValue(SubSeq(t, i, j), funcs, vs, k)
               \o Documented(SubSeq(t, j + 1, Len(t)), funcs, vs, k)

Names == UNION CallerFunctionNames \cup UNION CallerVariableNames
           \cup {AddrName, PvPrefixName}

TypeOK ==
  /\ calls \in 0..MaxCalls
  /\ \A key \in DOMAIN cache :
       /\ cache[key].text = TemplateText(key[1], key[2])
       /\ cache[key].funcs \in Seq(Names)
       /\ cache[key].vars \in Seq(Names)
  /\ last.funcs \subseteq Names /\ last.vars \subseteq Names

\* Whatever order the hash seed gives the alternations, and whichever
\* compiled pattern the cache hands back, every render_template call
\* returns the template with exactly its documented placeholders replaced
\* by the values of this call.
RenderedAsDocumented ==
  calls > 0 =>
    last.output = Documented(TemplateText(last.name, last.ft),
                             last.funcs, last.vars, calls)
=============================================================================
