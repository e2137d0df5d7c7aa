----------------------------- MODULE MRFCommon -----------------------------
(***************************************************************************)
(* The state and helpers MRFCommon (common.py) gives every generator: the  *)
(* output file, the "write all" list, address rendering, description and   *)
(* SFP records, and the fanout records written for a list of targets.     *)
(* Template text is opaque: writing a template is an item that names the   *)
(* template, the PV (or group) it is about and the addresses rendered into *)
(* it.  A fanout record is an item carrying its links and its FLNK.        *)
(***************************************************************************)
EXTENDS Integers, Sequences, SequencesExt, TLC

CONSTANTS
  DescriptionTypes,       \* description record types a run lets the caller pick
  AddressOffset,          \* self._address_offset
  PvPrefix,               \* self._pv_prefix
  NoLink

VARIABLES
  fileType,               \* self._file_type: "DB" or "REQ"
  descriptionRecordType,  \* self._description_record_type
  out,       \* everything written to self._output_file, as items
  writeAll,  \* self._write_all_pvs
  added      \* history: every name added to the list in this generate() pass

LOCAL FC == INSTANCE FanoutChain WITH
  fileType <- fileType, name <- "", targets <- <<>>, records <- <<>>, done <- FALSE

S(n) == ToString(n)

\* hex(): lower-case hexadecimal digits of a non-negative integer.
RECURSIVE HexDigits(_)
HexDigits(n) ==
  LET d == SubSeq("0123456789abcdef", (n % 16) + 1, (n % 16) + 1)
  IN  IF n < 16 THEN d ELSE HexDigits(n \div 16) \o d

LOCAL Zeros(k) == SubSeq("0000000000", 1, k)

\* render_address: "0x" and at least `width` digits, left-padded with zeros.
RenderAddress(address, width) ==
  LET result == "0x" \o HexDigits(AddressOffset + address)
      padding == width + 2 - Len(result)
  IN  IF padding <= 0 THEN result
      ELSE "0x" \o Zeros(padding) \o HexDigits(AddressOffset + address)

Addr(address) == RenderAddress(address, 4)

\* Reference decoding of a rendered address (int(s, 0) of a "0x..." string).
RECURSIVE HexValue(_)
HexValue(str) ==
  IF Len(str) = 0 THEN 0
  ELSE LET last == SubSeq(str, Len(str), Len(str))
           d == CHOOSE v \in 0..15 : SubSeq("0123456789abcdef", v + 1, v + 1) = last
       IN  16 * HexValue(SubSeq(str, 1, Len(str) - 1)) + d

AddressValue(rendered) == HexValue(SubSeq(rendered, 3, Len(rendered)))

(***************************************************************************)
(* The @ADDR(...)@ and @SFP_ADDR(...)@ functions a template calls with the  *)
(* text between the parentheses: an argument is a sequence of one-character *)
(* strings.                                                                 *)
(***************************************************************************)
DigitValue ==
  [c \in {"0", "1", "2", "3", "4", "5", "6", "7", "8", "9", "a", "b", "c", "d",
          "e", "f", "A", "B", "C", "D", "E", "F"} |->
     CASE c \in {"a", "A"} -> 10 [] c \in {"b", "B"} -> 11 [] c \in {"c", "C"} -> 12
       [] c \in {"d", "D"} -> 13 [] c \in {"e", "E"} -> 14 [] c \in {"f", "F"} -> 15
       [] OTHER -> CHOOSE v \in 0..9 : SubSeq("0123456789", v + 1, v + 1) = c]

\* The letter after a leading "0" that selects the base of int(s, 0).
PrefixBase == [c \in {"x", "X", "o", "O", "b", "B"} |->
                 IF c \in {"x", "X"} THEN 16 ELSE IF c \in {"o", "O"} THEN 8 ELSE 2]

\* str.split(","): the pieces between commas, one piece if there is none.
RECURSIVE SplitComma(_)
SplitComma(s) ==
  LET k == SelectInSeq(s, LAMBDA c : c = ",")
  IN  IF k = 0 THEN <<s>>
      ELSE <<SubSeq(s, 1, k - 1)>> \o SplitComma(SubSeq(s, k + 1, Len(s)))

\* str.strip() of the blanks around a piece.
Strip(s) ==
  LET inner == {i \in DOMAIN s : s[i] # " "}
  IN  IF inner = {} THEN <<>> ELSE SubSeq(s, Min(inner), Max(inner))

\* Digits of `base`, single underscores only between two digits.
DigitsOk(r, base) ==
  /\ r # <<>>
  /\ r[1] # "_" /\ r[Len(r)] # "_"
  /\ \A i \in 1..(Len(r) - 1) : ~(r[i] = "_" /\ r[i + 1] = "_")
  /\ \A i \in DOMAIN r : r[i] = "_" \/ (r[i] \in DOMAIN DigitValue /\ DigitValue[r[i]] < base)

DigitsValue(r, base) ==
  FoldLeft(LAMBDA acc, c : IF c = "_" THEN acc ELSE base * acc + DigitValue[c], 0, r)

\* int(s, 0): optional sign, then "0" and a base letter followed by digits
\* of that base (an underscore may follow the letter), or a decimal numeral
\* that starts with 0 only if it is all zeros; anything else is ValueError.
PyInt(s) ==
  LET neg == s # <<>> /\ s[1] = "-"
      u == IF s # <<>> /\ s[1] \in {"-", "+"} THEN Tail(s) ELSE s
      prefixed == Len(u) >= 2 /\ u[1] = "0" /\ u[2] \in DOMAIN PrefixBase
      base == IF prefixed THEN PrefixBase[u[2]] ELSE 10
      rest == SubSeq(u, 3, Len(u))
      r == IF ~prefixed THEN u
           ELSE IF rest # <<>> /\ rest[1] = "_" THEN Tail(rest) ELSE rest
      ok == /\ DigitsOk(r, base)
            /\ ~prefixed /\ r[1] = "0" => DigitsValue(r, 10) = 0
      mag == IF ok THEN DigitsValue(r, base) ELSE 0
  IN  [ok |-> ok, val |-> IF neg THEN -mag ELSE mag]

\* The arguments split at commas and stripped, as int(arg, 0) reads them.
ParsedArguments(argument) ==
  LET pieces == SplitComma(argument)
  IN  [i \in DOMAIN pieces |-> PyInt(Strip(pieces[i]))]

\* What a function of the two below returns: a rendered address, or the
\* ValueError of int() or of the function itself.
Rendered(s) == [ok |-> TRUE, val |-> s]
Invalid == [ok |-> FALSE, val |-> ""]

\* _addr_in_template: one argument is an address rendered with 4 digits, two
\* are an address and a width; any other count is a ValueError.
AddrInTemplate(argument) ==
  LET a == ParsedArguments(argument)
  IN  CASE Len(a) = 1 /\ a[1].ok -> Rendered(RenderAddress(a[1].val, 4))
        [] Len(a) = 2 /\ a[1].ok /\ a[2].ok -> Rendered(RenderAddress(a[1].val, a[2].val))
        [] OTHER -> Invalid

\* Mutant: the two-argument form forgets to add the module's base.
SfpAddrWidthWithoutBase(sfpBaseAddress, argument) ==
  LET a == ParsedArguments(argument)
  IN  CASE Len(a) = 1 /\ a[1].ok -> Rendered(RenderAddress(sfpBaseAddress + a[1].val, 4))
        [] Len(a) = 2 /\ a[1].ok /\ a[2].ok -> Rendered(RenderAddress(a[1].val, a[2].val))
        [] OTHER -> Invalid

\* sfp_module's sfp_addr: the same, relative to the SFP module's base.
SfpAddr(sfpBaseAddress, argument) ==
  LET a == ParsedArguments(argument)
  IN  CASE Len(a) = 1 /\ a[1].ok -> Rendered(RenderAddress(sfpBaseAddress + a[1].val, 4))
        [] Len(a) = 2 /\ a[1].ok /\ a[2].ok ->
             Rendered(RenderAddress(sfpBaseAddress + a[1].val, a[2].val))
        [] OTHER -> Invalid

\* One write_template call: the template, the PV or register group it is
\* about, and the values (mostly rendered addresses) substituted into it.
Tmpl(template, key, vals) ==
  [t |-> template, pv |-> PvPrefix \o key, val |-> vals,
   links |-> <<>>, flnk |-> NoLink]

\* Mutant: the record-type suffix is left out of the template name.
DescriptionUntyped(pvName) == Tmpl("common-description", pvName, <<>>)

\* description(pv_name, ...): the template depends on the record type.
Description(pvName) ==
  Tmpl("common-description-" \o descriptionRecordType, pvName, <<>>)

\* description() reads self._description_record_type.value, so with None
\* (what the command line passes when no record type is given) it raises
\* AttributeError before writing anything.
IsDescription(it) == it.t = "common-description-" \o descriptionRecordType

\* What a helper writing `items` gets written before a description() call
\* fails: everything when the record type is set.
WrittenBeforeDescription(items) ==
  LET k == SelectInSeq(items, IsDescription)
  IN  IF descriptionRecordType = "None" /\ k > 0 THEN SubSeq(items, 1, k - 1)
      ELSE items

DescriptionFails(items) == WrittenBeforeDescription(items) # items

\* The helper ends at the failing description(); every helper registers
\* its write-all PVs after its descriptions, so none of them is added.
FailAtDescription(items) ==
  /\ out' = out \o WrittenBeforeDescription(items)
  /\ UNCHANGED <<writeAll, added>>

\* sfp_module(name, base): @SFP_ADDR(x)@ renders base + x, so the template
\* is located by its base address.
SfpModule(sfpName, sfpBaseAddress) ==
  Tmpl("common-sfp", sfpName, <<Addr(sfpBaseAddress)>>)

\* Mutant: fanout_index is not incremented, every overflow is :Fout1.
FanoutRecordsIndexNotIncremented(pvName, targetPvNames) ==
  IF fileType = "REQ" THEN <<>>
  ELSE LET chain == FC!Chain(PvPrefix \o pvName,
                             [j \in DOMAIN targetPvNames |-> PvPrefix \o targetPvNames[j]])
           nm(j) == FC!FoutName(PvPrefix \o pvName, IF j = 1 THEN 0 ELSE 1)
       IN  [j \in DOMAIN chain |->
              [t |-> "fanout", pv |-> nm(j), val |-> <<>>, links |-> chain[j].links,
               flnk |-> IF j < Len(chain) THEN nm(j + 1) ELSE NoLink]]

\* fanout(pv_name, targets): nothing for a request file, otherwise the
\* chain of records with the PV prefix prepended to every name.
FanoutRecords(pvName, targetPvNames) ==
  IF fileType = "REQ" THEN <<>>
  ELSE LET chain == FC!Chain(PvPrefix \o pvName,
                             [j \in DOMAIN targetPvNames |-> PvPrefix \o targetPvNames[j]])
       IN  [j \in DOMAIN chain |->
              [t |-> "fanout", pv |-> chain[j].name, val |-> <<>>,
               links |-> chain[j].links, flnk |-> chain[j].flnk]]

\* A helper that writes `items` and adds `names` to the write-all list.
Emit(items, names) ==
  /\ out' = out \o items
  /\ writeAll' = writeAll \o names
  /\ added' = added \o names

\* clear_write_all_pvs_list at the start of generate().
ClearWriteAll ==
  /\ writeAll' = <<>>
  /\ added' = <<>>
  /\ UNCHANGED out

\* Mutant: the list is cleared before the fanout is written.
FanoutForWriteAllPvsClearedFirst(pvName) ==
  /\ out' = out \o FanoutRecords(pvName, <<>>)
  /\ writeAll' = <<>>
  /\ UNCHANGED added

\* fanout_for_write_all_pvs(pv_name): fanout over the list, then clear it.
FanoutForWriteAllPvs(pvName) ==
  /\ out' = out \o FanoutRecords(pvName, writeAll)
  /\ writeAll' = <<>>
  /\ UNCHANGED added

\* A record of the fanout chain named `base` (prefixed).
\* The templates the generators of common.py, evg.py and evr.py load, with
\* the register widths their configurations use; "fanout" is a record
\* fanout() writes without a template.
TemplateFiles ==
  {"fanout", "common-sfp"}
  \cup {"common-description-" \o d : d \in DescriptionTypes}
  \cup {"evg-" \o n : n \in {"common", "vme", "template-mxc", "template-input",
          "template-input-installed", "template-output", "template-output-installed"}}
  \cup {"evr-" \o n : n \in {"common", "common-gen2", "delay-compensation",
          "interrupts-mmap", "interrupts-udp-ip", "mtca-300", "vme-230-common",
          "template-dbus-bit-to-pulse-gen", "template-fp-input", "template-fp-input-read",
          "template-map-ram", "template-output", "template-output-gen2",
          "template-output-cml", "template-output-gtx", "template-output-fine-delay",
          "template-output-installed", "template-prescaler-to-pulse-gen",
          "template-pulse-gen-generic", "template-pulse-gens-header"}}
  \cup {"evr-template-" \o n \o "-" \o S(b) \o "-bit" :
          n \in {"prescaler", "pulse-gen-prescaler", "pulse-gen-delay", "pulse-gen-width"},
          b \in {8, 16, 32}}

\* Every item written names a template that exists.
ItemsTyped == \A j \in DOMAIN out : out[j].t \in TemplateFiles

InChain(it, base) ==
  /\ it.t = "fanout"
  /\ \E k \in 0..Len(out) : it.pv = FC!FoutName(base, k)

\* The links of the chain named `base`, in the order they were written.
ChainLinks(base) ==
  LET recs == SelectSeq(out, LAMBDA it : InChain(it, base))
  IN  FlattenSeq([j \in DOMAIN recs |-> recs[j].links])

Prefixed(names) == [j \in DOMAIN names |-> PvPrefix \o names[j]]
=============================================================================
