---------------------------- MODULE FanoutChain ----------------------------
(***************************************************************************)
(* What MRFCommon.fanout (common.py) promises, stated without its loop:    *)
(* for a record file, the targets are cut into consecutive chunks of at    *)
(* most six links; chunk k is written as one fanout record named           *)
(* <name>:Fout<k> (the first one is named <name>), each record except the  *)
(* last forward-links to the next one, and an empty target list still      *)
(* yields one record.  For a request file nothing is written.  Records     *)
(* are written one at a time, in chain order, and the chain is finished.   *)
(***************************************************************************)
EXTENDS Integers, Sequences, TLC

CONSTANTS
  NoLink      \* marks a record that has no FLNK field

VARIABLES
  fileType,   \* "DB" or "REQ"
  name,       \* the (prefixed) name of the first fanout record
  targets,    \* the (prefixed) target PV names, in order
  records,    \* the records written so far
  done        \* the call has returned

avars == <<fileType, name, targets, records, done>>

\* Number of link fields of an EPICS fanout record.
MaxLinks == 6

\* Name of the k-th record of the chain (k = 0 is the first record).
FoutName(base, k) == IF k = 0 THEN base ELSE base \o ":Fout" \o ToString(k)

LOCAL SmallerOf(a, b) == IF a < b THEN a ELSE b

\* The reference chain: one record per chunk of MaxLinks targets.
Chain(base, ts) ==
  LET n == Len(ts)
      k == IF n = 0 THEN 1 ELSE (n + MaxLinks - 1) \div MaxLinks
  IN  [j \in 1..k |->
         [name  |-> FoutName(base, j - 1),
          links |-> SubSeq(ts, (j - 1) * MaxLinks + 1, SmallerOf(j * MaxLinks, n)),
          flnk  |-> IF j < k THEN FoutName(base, j) ELSE NoLink]]

Expected == IF fileType = "REQ" THEN <<>> ELSE Chain(name, targets)

AInit ==
  /\ records = <<>>
  /\ done = FALSE

\* The next record of the chain is written; the call returns with the last.
WriteRecord ==
  /\ ~done
  /\ Len(records) < Len(Expected)
  /\ records' = Append(records, Expected[Len(records) + 1])
  /\ done' = (Len(records') = Len(Expected))
  /\ UNCHANGED <<fileType, name, targets>>

\* Request file: the call returns without writing anything.
Return ==
  /\ ~done
  /\ Expected = <<>>
  /\ done' = TRUE
  /\ UNCHANGED <<fileType, name, targets, records>>

ANext == WriteRecord \/ Return

ASpec == AInit /\ [][ANext]_avars /\ WF_avars(ANext)
=============================================================================
