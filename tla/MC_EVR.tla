------------------------------- MODULE MC_EVR -------------------------------
(* The EVR generator over every configuration of _EVR_CONFIGS (evr.py), and *)
(* the EVR class given other EVRConfigs (it is public, so any may be       *)
(* passed): one output, at each placement in turn, carrying an OutputConfig *)
(* drawn from values that reach every branch of the output resolver.       *)
EXTENDS EVR

MCOutputConfigs ==
  { [cml_block_index |-> cml, fine_delay_available_macro |-> fdm,
     fine_delay_index |-> fdk, gtx_block_index |-> None,
     installed_description |-> inst[2], installed_macro |-> inst[1],
     name |-> None, optional |-> opt] :
      opt \in {None, TRUE, FALSE},
      inst \in {<<None, None>>, <<"M", None>>, <<"M", "D">>},
      fdk \in {None, 1, 15, 16},
      fdm \in {None, "F"},
      cml \in {None, 0} }

\* The front-panel, universal and transition-board output lists with `oc`
\* in the one at position `at`.
OneOutput(oc, at) == [k \in 1..3 |-> IF k = at THEN <<oc>> ELSE <<>>]

MCConfigs ==
  EVRConfigs \cup
  { EVRConfig("VME-EVR-300", level, <<>>, <<>>, FALSE, 0,
              OneOutput(oc, at)[1], <<>>, OneOutput(oc, at)[2], OneOutput(oc, at)[3]) :
      level \in {1, 2}, oc \in MCOutputConfigs, at \in 1..3 }
=============================================================================
