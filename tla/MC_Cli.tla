------------------------------- MODULE MC_Cli -------------------------------
(* Command lines for generate_db_or_req.py: output file names built from    *)
(* the catalog's device names (typed exactly, in lower and in upper case),  *)
(* a device name the catalog lacks, known and unknown suffixes, and record  *)
(* types that argparse accepts or rejects.                                  *)
EXTENDS Cli

Stem(n, c) == [name |-> n, casing |-> c]

\* Every catalog name as written, two in another casing, and VME-EVM-300,
\* which constants.py does not list.
MCStems ==
  {Stem(d, "exact") : d \in DOMAIN Devices}
  \cup {Stem("VME-EVG-230", "lower"), Stem("VME-EVR-300", "upper"),
        Stem("VME-EVM-300", "exact")}
=============================================================================
