---------------------------- MODULE MC_Template ----------------------------
(* Inputs for the Template runs.  Names: "a" stands for ADDR and "b" for  *)
(* PV_PREFIX; a caller may add the function "ab", whose name extends      *)
(* ADDR, and the variables "ba" or "a", the latter also a function name.  *)
EXTENDS Template

Chars == {"@", "(", ")", "a", "b"}

\* template_render: every text of up to six characters is a template.
AllTexts == SeqOf(Chars, 6)
AllTextTemplates(n, ft) == n

\* template_cache: two templates, each with a .db and a .req variant.
CachedTemplates(n, ft) ==
  CASE n = "t1" /\ ft = "DB" -> <<"@", "b", "a", "@", "a", "@", "a", "(", ")", "@">>
    [] n = "t1" /\ ft = "REQ" -> <<"@", "a", "b", "(", "b", ")", "@">>
    [] OTHER -> <<"@", "a", "@", "b", "@">>

A == <<"a">>
B == <<"b">>
CallerFuncs == {{}, {<<"a", "b">>}}
CallerVars == {{}, {<<"b", "a">>}, {<<"a">>}}
=============================================================================
