------------------------------ MODULE Fanout ------------------------------
(***************************************************************************)
(* MRFCommon.fanout (common.py), one loop iteration per step.  The code    *)
(* keeps a link index 1..7 and a fanout index; when the seventh target of  *)
(* the current record arrives it writes an FLNK to <name>:Fout<k+1>,       *)
(* closes the record and opens the next one.  Written text is abstracted   *)
(* to the records it defines: a record is closed when its "}" is written.  *)
(***************************************************************************)
EXTENDS Integers, Sequences, SequencesExt

CONSTANTS
  PvPrefix,     \* the generator's pv_prefix
  PvNames,      \* candidate pv_name arguments (unprefixed)
  TargetNames,  \* candidate target names (unprefixed)
  MaxTargets,   \* bound on the length of target_pv_names
  NoLink

VARIABLES
  fileType,     \* self._file_type
  pvName,       \* the pv_name argument, unprefixed
  targetPvNames,\* the target_pv_names argument, unprefixed
  records,      \* records written and closed so far
  cur,          \* the record currently open (its header has been written)
  fanoutIndex,  \* fanout_index
  linkIndex,    \* link_index
  i,            \* position of the loop in target_pv_names
  pc            \* "start", "loop" or "done"

vars == <<fileType, pvName, targetPvNames, records, cur, fanoutIndex,
          linkIndex, i, pc>>

FileTypes == {"DB", "REQ"}

LOCAL C == INSTANCE FanoutChain WITH
  name <- PvPrefix \o pvName,
  targets <- [j \in DOMAIN targetPvNames |-> PvPrefix \o targetPvNames[j]],
  done <- pc = "done"

Init ==
  /\ fileType \in FileTypes
  /\ pvName \in PvNames
  /\ targetPvNames \in BoundedSeq(TargetNames, MaxTargets)
  /\ records = <<>>
  /\ cur = [name |-> "", links |-> <<>>, flnk |-> NoLink]
  /\ fanoutIndex = 0
  /\ linkIndex = 1
  /\ i = 1
  /\ pc = "start"

\* Entry: a request file returns at once; otherwise the first record header
\* is written with the prefixed name.
Start ==
  /\ pc = "start"
  /\ IF fileType = "REQ"
       THEN pc' = "done" /\ UNCHANGED cur
       ELSE /\ cur' = [name |-> PvPrefix \o pvName, links |-> <<>>, flnk |-> NoLink]
            /\ pc' = "loop"
  /\ UNCHANGED <<fileType, pvName, targetPvNames, records, fanoutIndex, linkIndex, i>>

\* Mutant: the record counts as full one link late.
RecordFullAt8 == linkIndex = 8

\* The current record already holds six links.
RecordFull == linkIndex = 7

OverflowName(k) == PvPrefix \o pvName \o ":Fout" \o ToString(k)

\* A target while the current record has a free link field.
AddLink ==
  /\ pc = "loop"
  /\ i <= Len(targetPvNames)
  /\ ~RecordFull
  /\ cur' = [cur EXCEPT !.links = Append(@, PvPrefix \o targetPvNames[i])]
  /\ linkIndex' = linkIndex + 1
  /\ i' = i + 1
  /\ UNCHANGED <<fileType, pvName, targetPvNames, records, fanoutIndex, pc>>

\* The seventh target: FLNK to the next record, close, open :Fout<k>, then
\* the target becomes its LNK1.
Overflow ==
  /\ pc = "loop"
  /\ i <= Len(targetPvNames)
  /\ RecordFull
  /\ LET next == OverflowName(fanoutIndex + 1)
     IN  /\ records' = Append(records, [cur EXCEPT !.flnk = next])
         /\ cur' = [name |-> next,
                    links |-> <<PvPrefix \o targetPvNames[i]>>,
                    flnk |-> NoLink]
  /\ fanoutIndex' = fanoutIndex + 1
  /\ linkIndex' = 2
  /\ i' = i + 1
  /\ UNCHANGED <<fileType, pvName, targetPvNames, pc>>

\* After the loop the last record is closed without an FLNK.
Close ==
  /\ pc = "loop"
  /\ i > Len(targetPvNames)
  /\ records' = Append(records, cur)
  /\ pc' = "done"
  /\ UNCHANGED <<fileType, pvName, targetPvNames, cur, fanoutIndex, linkIndex, i>>

Returned == pc = "done" /\ UNCHANGED vars

Next == Start \/ AddLink \/ Overflow \/ Close \/ Returned

\* fanout() is a plain loop over a finite list: it always proceeds.
Spec == Init /\ [][Next]_vars /\ WF_vars(Next)

-----------------------------------------------------------------------------
TypeOK ==
  /\ fileType \in FileTypes
  /\ pvName \in PvNames
  /\ targetPvNames \in Seq(TargetNames)
  /\ linkIndex \in 1..7
  /\ i \in 1..(MaxTargets + 1)
  /\ pc \in {"start", "loop", "done"}
  /\ \A r \in ToSet(records) \cup {cur} : r.links \in Seq(STRING)

=============================================================================
