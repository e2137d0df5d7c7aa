------------------------- MODULE MC_EVRNegativeFineDelay -------------------------
(* The EVR class given an EVRConfig whose only universal output has          *)
(* OutputConfig(fine_delay_index=-1): _output_fine_delay rejects an index    *)
(* above 15 but none below 0.                                               *)
EXTENDS EVR

MCConfigs ==
  { EVRConfig("VME-EVR-300", 2, <<>>, <<>>, FALSE, 0, <<>>, <<>>,
              <<[DefaultOutput EXCEPT !.fine_delay_index = -1]>>, <<>>) }
=============================================================================
