-------------------------------- MODULE EVR --------------------------------
(***************************************************************************)
(* EVR.generate() (evr.py): the helper calls that write the records of an  *)
(* event receiver.  `Program` is the list of calls generate() makes for a  *)
(* configuration (feature-level, form-factor and device branches, loops,   *)
(* outputs whose configuration is None skipped); each helper is one action *)
(* that writes its templates, its own fanout records and adds its PVs to   *)
(* the write-all list.  _output, the output descriptor resolver, may raise *)
(* ValueError after part of the output has been written.                  *)
(***************************************************************************)
EXTENDS MRFCommon, MRFConstants

CONSTANTS
  Configs,  \* EVRConfig values generate() may be given
  None      \* Python's None in OutputConfig fields and output lists

VARIABLES
  config,   \* self._config
  pc,       \* index into Program of the next helper call
  status    \* "running", "returned" or "raised" (ValueError)

vars == <<fileType, descriptionRecordType, out, writeAll, added, config, pc, status>>

\* OutputConfig() with every field left at its default.
DefaultOutput ==
  [cml_block_index |-> None, fine_delay_available_macro |-> None,
   fine_delay_index |-> None, gtx_block_index |-> None,
   installed_description |-> None, installed_macro |-> None,
   name |-> None, optional |-> None]

\* PrescalerConfig(size_in_bits) and PulseGeneratorConfig(delay, prescaler, width).
Prescaler(bits) == [size_in_bits |-> bits]
PulseGen(d, p, w) ==
  [delay_size_in_bits |-> d, prescaler_size_in_bits |-> p, width_size_in_bits |-> w]

Rep(x, n) == [j \in 1..n |-> x]

\* EVRConfig with the defaults of its optional fields.
EVRConfig(device, level, prescalers, pulseGens, useMmap, fpIn, fpOut, bpOut,
          univOut, tbOut) ==
  [device |-> device, feature_level |-> level, prescalers |-> prescalers,
   pulse_generators |-> pulseGens, use_mmap |-> useMmap,
   front_panel_inputs |-> fpIn, front_panel_outputs |-> fpOut,
   backplane_outputs |-> bpOut, universal_outputs |-> univOut,
   transition_board_outputs |-> tbOut]

\* _EVR_CONFIGS.  Descriptions are left out: no property depends on text.
EVRConfigs ==
  LET FD(k) == [DefaultOutput EXCEPT !.fine_delay_index = k]
      GTX(k) == [DefaultOutput EXCEPT !.gtx_block_index = k]
      CML(k) == [DefaultOutput EXCEPT !.cml_block_index = k]
      pg3216 == Rep(PulseGen(32, 16, 32), 4) \o Rep(PulseGen(32, 0, 16), 12)
      pg328 == Rep(PulseGen(32, 8, 16), 4) \o Rep(PulseGen(32, 0, 16), 12)
  IN
  { EVRConfig("mTCA-EVR-300", 2, Rep(Prescaler(32), 8), pg3216, TRUE, 2,
              Rep(DefaultOutput, 4), Rep(DefaultOutput, 8),
              Rep(None, 16) \o
                <<[GTX(0) EXCEPT !.name = "BPOut8", !.optional = FALSE],
                  [GTX(1) EXCEPT !.name = "BPOut9", !.optional = FALSE]>>,
              <<>>),
    EVRConfig("VME-EVR-230", 1, Rep(Prescaler(16), 3), pg328, FALSE, 2,
              Rep(DefaultOutput, 8), <<>>, [j \in 1..4 |-> FD(j - 1)],
              Rep(DefaultOutput, 16)),
    EVRConfig("VME-EVR-230RF", 1, Rep(Prescaler(16), 3), pg328, FALSE, 2,
              Rep(DefaultOutput, 4) \o <<CML(0), CML(1), CML(2)>>, <<>>,
              [j \in 1..4 |-> FD(j - 1)], Rep(DefaultOutput, 16)),
    EVRConfig("VME-EVR-300", 2, Rep(Prescaler(32), 8), pg3216, FALSE, 2,
              <<GTX(2), GTX(3)>>, <<>>,
              [j \in 1..6 |-> FD(j - 1)]
                \o <<[FD(6) EXCEPT !.gtx_block_index = 0],
                     [FD(7) EXCEPT !.gtx_block_index = 1]>>,
              Rep(DefaultOutput, 16)) }

Gen2 == config.feature_level = 2

Call(helper, index) == <<helper, index>>
Loop(helper, n) == [j \in 1..n |-> Call(helper, j - 1)]
Once(cond, helper) == IF cond THEN <<Call(helper, 0)>> ELSE <<>>
\* enumerate(outputs), skipping the entries that are None.
Present(helper, outputs) ==
  SelectSeq(Loop(helper, Len(outputs)), LAMBDA c : outputs[c[2] + 1] # None)

\* The helper calls of generate(), in order.
Program ==
  <<Call("generate", 0), Call("common", 0)>>
  \o Once(Gen2, "delaycomp")
  \o Loop("mapram", 2)
  \o <<Call("interrupts", 0)>>
  \o Once(Gen2, "gen2common")
  \o Once(Devices[config.device].form_factor = "VME"
          /\ Devices[config.device].series = "230", "vme230")
  \o Once(config.device = "mTCA-EVR-300", "mtca300")
  \o Loop("prescaler", Len(config.prescalers))
  \o Once(Gen2, "dbus2pg")
  \o <<Call("pgheader", 0)>>
  \o Loop("pulsegen", Len(config.pulse_generators))
  \o Present("fpout", config.front_panel_outputs)
  \o Present("bpout", config.backplane_outputs)
  \o Present("univout", config.universal_outputs)
  \o Present("tbout", config.transition_board_outputs)
  \o Loop("fpin", config.front_panel_inputs)
  \o <<Call("sfp", 0), Call("writeall", 0)>>

At(helper) == status = "running" /\ Program[pc][1] = helper
Index == Program[pc][2]
NumPulseGens == Len(config.pulse_generators)

\* The AttributeError of a description() without a record type.
DescriptionRaises(items) ==
  /\ FailAtDescription(items)
  /\ status' = "raised"
  /\ UNCHANGED <<fileType, descriptionRecordType, config, pc>>

Helper(items, names) ==
  IF DescriptionFails(items) THEN DescriptionRaises(items)
  ELSE /\ Emit(items, names)
       /\ pc' = pc + 1
       /\ UNCHANGED <<fileType, descriptionRecordType, config, status>>

\* A ValueError: what was written and added before it stays; generate() ends.
Raise(items, names) ==
  IF DescriptionFails(items) THEN DescriptionRaises(items)
  ELSE /\ Emit(items, names)
       /\ status' = "raised"
       /\ UNCHANGED <<fileType, descriptionRecordType, config, pc>>

\* Macro text of a two-output module, e.g. UNIV_OUT_0_1_INSTALLED.
ModuleMacro(kind, n, what) ==
  kind \o "_" \o S(n - (n % 2)) \o "_" \o S(n - (n % 2) + 1) \o what

-----------------------------------------------------------------------------
(* _output_cml_logic, _output_gtx_logic and _output_fine_delay.           *)

\* Mutant: CML blocks placed 0x10 apart instead of 0x20.
CmlItemStride10(name, k) ==
  LET base == \h0600 + \h0010 * k
  IN  Tmpl("evr-template-output-cml", name,
           <<Addr(base + \h10), Addr(base + \h14), Addr(base + \h16),
             Addr(base), Addr(base + \h04), Addr(base + \h08), Addr(base + \h0C),
             Addr(base + \h18), Addr(\h20000 + \h4000 * k)>>)

CmlItem(name, k) ==
  LET base == \h0600 + \h0020 * k
  IN  Tmpl("evr-template-output-cml", name,
           <<Addr(base + \h10), Addr(base + \h14), Addr(base + \h16),
             Addr(base), Addr(base + \h04), Addr(base + \h08), Addr(base + \h0C),
             Addr(base + \h18), Addr(\h20000 + \h4000 * k)>>)

GtxItem(name, k) ==
  LET base == \h0600 + \h0020 * k
      samples == \h20000 + \h4000 * k
  IN  Tmpl("evr-template-output-gtx", name,
           <<Addr(base + \h10), Addr(base + \h14), Addr(base + \h16)>>
           \o [j \in 1..8 |-> RenderAddress(samples + 4 * (j - 1), 5)]
           \o <<Addr(base + \h18), Addr(samples + \h20)>>)

\* Mutant: the value shift for the second output (odd index) is lost.
FineDelayItemNoValueShift(name, macro, k) ==
  Tmpl("evr-template-output-fine-delay", name, <<S(4 * (k \div 2)), "", macro>>)

\* Two values: the GPIO address bit shift and the value shift ("<<16" or "").
FineDelayItem(name, macro, k) ==
  Tmpl("evr-template-output-fine-delay", name,
       <<S(4 * (k \div 2)), IF k % 2 = 1 THEN "<<16" ELSE "", macro>>)

\* Mutant: off by one at the hardware limit.
FineDelayIndexInvalidAt15(k) == k >= 15

FineDelayIndexInvalid(k) == k > 15

\* optional=True without installed_description or installed_macro.
MissingInstalledFields(oc) ==
  oc.optional = TRUE /\ (oc.installed_description = None \/ oc.installed_macro = None)

\* optional=None: optional iff the caller passed both installed arguments.
IsOptional(oc, instMacro, instDescription) ==
  IF oc.optional = None THEN instMacro # None /\ instDescription # None
  ELSE oc.optional

\* Mutant: the caller's fine-delay macro is not used as the fallback.
FineDelayMacroConfigOnly(oc, fdMacro) == oc.fine_delay_available_macro

\* The config's fine-delay macro, else the caller's (None if neither).
FineDelayMacro(oc, fdMacro) ==
  IF oc.fine_delay_available_macro # None THEN oc.fine_delay_available_macro
  ELSE fdMacro

(* _output: the output descriptor resolver.                               *)
Output(defaultName, address, oc, fdMacro, instMacro, instDescription) ==
  LET name == IF oc.name = None THEN defaultName ELSE oc.name
      template == IF Gen2 THEN "evr-template-output-gen2" ELSE "evr-template-output"
      base == <<Tmpl(template, name, <<Addr(address)>>)>>
      macro == IF oc.optional = TRUE THEN oc.installed_macro ELSE instMacro
      gate == IF IsOptional(oc, instMacro, instDescription)
                THEN <<Tmpl("evr-template-output-installed", name, <<macro>>)>>
                ELSE <<>>
      maps == <<name \o ":Map">> \o (IF Gen2 THEN <<name \o ":Map2">> ELSE <<>>)
      cml == IF oc.cml_block_index = None THEN <<>>
             ELSE <<CmlItem(name, oc.cml_block_index)>>
      cmlPv == IF oc.cml_block_index = None THEN <<>>
               ELSE <<"Intrnl:WriteAll:" \o name \o ":CML">>
      gtx == IF oc.gtx_block_index = None THEN <<>>
             ELSE <<GtxItem(name, oc.gtx_block_index)>>
      gtxPv == IF oc.gtx_block_index = None THEN <<>>
               ELSE <<"Intrnl:WriteAll:" \o name \o ":GTX">>
      fdk == oc.fine_delay_index
      fdm == FineDelayMacro(oc, fdMacro)
      written == base \o gate \o <<Description(name \o ":Description")>> \o cml \o gtx
      pvs == maps \o cmlPv \o gtxPv
  IN  CASE MissingInstalledFields(oc) -> Raise(base, <<>>)
        [] fdk = None -> Helper(written, pvs)
        [] fdm = None \/ FineDelayIndexInvalid(fdk) -> Raise(written, pvs)
        [] OTHER -> Helper(written \o <<FineDelayItem(name, fdm, fdk)>>,
                           pvs \o <<name \o ":FineDelay">>)

-----------------------------------------------------------------------------
Init ==
  /\ fileType \in FileTypes
  /\ descriptionRecordType \in DescriptionTypes
  /\ config \in Configs
  /\ out = <<>>
  /\ writeAll = <<>>
  /\ added = <<>>
  /\ pc = 1
  /\ status = "running"

\* generate(): the device-class check, then a clean write-all list.
Generate ==
  /\ At("generate")
  /\ IF Devices[config.device].device_class # "EVR"
       THEN status' = "raised" /\ UNCHANGED <<out, writeAll, added, pc>>
       ELSE ClearWriteAll /\ pc' = pc + 1 /\ UNCHANGED status
  /\ UNCHANGED <<fileType, descriptionRecordType, config>>

Common ==
  /\ At("common")
  /\ Helper(<<Tmpl("evr-common", "", <<>>)>>, <<"Intrnl:WriteAll:Common">>)

DelayCompensation ==
  /\ At("delaycomp")
  /\ Helper(<<Tmpl("evr-delay-compensation", "", <<>>)>>,
            <<"DelayComp:Enabled", "DelayComp:TargetDelay">>)

MappingRam ==
  /\ At("mapram")
  /\ LET base == \h4000 + \h1000 * Index
     IN  Helper(<<Tmpl("evr-template-map-ram", "MapRAM" \o S(Index),
                       <<Addr(base), Addr(base + \h0C), Addr(base + \h08),
                         Addr(base + \h04)>>)>>,
                <<"Event:MapRAM" \o S(Index) \o ":WriteAll">>)

\* _interrupts_mmap or _interrupts_udp_ip, depending on use_mmap.
Interrupts ==
  /\ At("interrupts")
  /\ Helper(<<Tmpl(IF config.use_mmap THEN "evr-interrupts-mmap"
                   ELSE "evr-interrupts-udp-ip", "", <<>>)>>,
            <<"Intrnl:WriteAll:IRQ">>)

CommonGen2 ==
  /\ At("gen2common")
  /\ Helper(<<Tmpl("evr-common-gen2", "", <<>>)>>,
            <<"EventClock:ClkCleanerPLL:BandwidthSel",
              "IRQ:DataBuffer:Enabled:000To1FF", "IRQ:DataBuffer:Enabled:200To3FF",
              "IRQ:DataBuffer:Enabled:400To5FF", "IRQ:DataBuffer:Enabled:600To7FF">>)

Vme230Common ==
  /\ At("vme230")
  /\ Helper(<<Tmpl("evr-vme-230-common", "", <<>>)>>, <<>>)

Mtca300 ==
  /\ At("mtca300")
  /\ Helper(<<Tmpl("evr-mtca-300", "", <<>>)>>, <<"IFB300:Enabled">>)

\* _prescaler: its own fanout over a local list, then one write-all entry.
PrescalerHelper ==
  /\ At("prescaler")
  /\ LET n == S(Index)
         toPg == IF Gen2 THEN NumPulseGens ELSE 0
         local == <<"Prescaler" \o n>>
                  \o [j \in 1..toPg |-> "Prescaler" \o n \o ":MapTo:TrigPulseGen" \o S(j - 1)]
     IN  Helper(<<Tmpl("evr-template-prescaler-"
                       \o S(config.prescalers[Index + 1].size_in_bits) \o "-bit",
                       "Prescaler" \o n, <<Addr(\h0100 + 4 * Index)>>)>>
                \o [j \in 1..toPg |->
                      Tmpl("evr-template-prescaler-to-pulse-gen", "Prescaler" \o n,
                           <<Addr(\h0140 + 4 * Index)>>)]
                \o <<Description("Prescaler" \o n \o ":Description")>>
                \o FanoutRecords("Intrnl:WriteAll:Prescaler" \o n, local),
                <<"Intrnl:WriteAll:Prescaler" \o n>>)

\* _dbus_bits_to_pulse_gens: one mapping record per (bit, pulse generator).
DbusBitsToPulseGens ==
  /\ At("dbus2pg")
  /\ Helper([j \in 1..(8 * NumPulseGens) |->
               LET bit == (j - 1) \div NumPulseGens
               IN  Tmpl("evr-template-dbus-bit-to-pulse-gen", "DBus:B" \o S(bit),
                        <<Addr(\h0180 + 4 * bit)>>)],
            <<>>)

PulseGeneratorsHeader ==
  /\ At("pgheader")
  /\ Helper(<<Tmpl("evr-template-pulse-gens-header", "", <<S(NumPulseGens)>>)>>, <<>>)

\* _pulse_generator: generic, optional prescaler, delay and width records.
PulseGenerator ==
  /\ At("pulsegen")
  /\ LET n == S(Index)
         pg == config.pulse_generators[Index + 1]
         base == \h0200 + 16 * Index
         hasPrescaler == pg.prescaler_size_in_bits # 0
         local == <<"Intrnl:WriteAll:PulseGen" \o n \o ":Generic">>
                  \o (IF hasPrescaler THEN <<"PulseGen" \o n \o ":Prescaler">> ELSE <<>>)
                  \o <<"PulseGen" \o n \o ":Delay", "PulseGen" \o n \o ":Width">>
     IN  Helper(<<Tmpl("evr-template-pulse-gen-generic", "PulseGen" \o n, <<Addr(base)>>)>>
                \o (IF hasPrescaler
                      THEN <<Tmpl("evr-template-pulse-gen-prescaler-"
                                  \o S(pg.prescaler_size_in_bits) \o "-bit",
                                  "PulseGen" \o n, <<Addr(base + \h04)>>)>>
                      ELSE <<>>)
                \o <<Tmpl("evr-template-pulse-gen-delay-" \o S(pg.delay_size_in_bits) \o "-bit",
                          "PulseGen" \o n, <<Addr(base + \h08)>>),
                     Tmpl("evr-template-pulse-gen-width-" \o S(pg.width_size_in_bits) \o "-bit",
                          "PulseGen" \o n, <<Addr(base + \h0C)>>),
                     Description("PulseGen" \o n \o ":Description")>>
                \o FanoutRecords("Intrnl:WriteAll:PulseGen" \o n, local),
                <<"Intrnl:WriteAll:PulseGen" \o n>>)

FrontPanelOutput ==
  /\ At("fpout")
  /\ Output("FPOut" \o S(Index), \h0400 + 2 * Index,
            config.front_panel_outputs[Index + 1], None, None, None)

BackplaneOutput ==
  /\ At("bpout")
  /\ Output("BPOut" \o S(Index), \h04C0 + 2 * Index,
            config.backplane_outputs[Index + 1], None, None, None)

UniversalOutput ==
  /\ At("univout")
  /\ Output("UnivOut" \o S(Index), \h0440 + 2 * Index,
            config.universal_outputs[Index + 1],
            ModuleMacro("UNIV_OUT", Index, "_FD_AVAILABLE"),
            ModuleMacro("UNIV_OUT", Index, "_INSTALLED"),
            ModuleMacro("Universal output module", Index, ""))

TransitionBoardOutput ==
  /\ At("tbout")
  /\ Output("TBOut" \o S(Index), \h0480 + 2 * Index,
            config.transition_board_outputs[Index + 1], None,
            ModuleMacro("TB_UNIV_OUT", Index, "_INSTALLED"),
            ModuleMacro("TB univ. output module", Index, ""))

\* _front_panel_input: the read-back record only at feature level 2.
FrontPanelInput ==
  /\ At("fpin")
  /\ LET name == "FPIn" \o S(Index)
         address == \h0500 + 4 * Index
     IN  Helper(<<Tmpl("evr-template-fp-input", name, <<Addr(address)>>)>>
                \o (IF Gen2 THEN <<Tmpl("evr-template-fp-input-read", name, <<Addr(address)>>)>>
                    ELSE <<>>)
                \o <<Description(name \o ":Description")>>,
                <<"Intrnl:WriteAll:" \o name>>)

Sfp ==
  /\ At("sfp")
  /\ Helper(<<SfpModule("SFP", \h8200)>>, <<>>)

WriteAllFanout ==
  /\ At("writeall")
  /\ FanoutForWriteAllPvs("Intrnl:WriteAll")
  /\ pc' = pc + 1
  /\ status' = "returned"
  /\ UNCHANGED <<fileType, descriptionRecordType, config>>

Finished == status # "running" /\ UNCHANGED vars

Next ==
  \/ Generate \/ Common \/ DelayCompensation \/ MappingRam \/ Interrupts
  \/ CommonGen2 \/ Vme230Common \/ Mtca300 \/ PrescalerHelper
  \/ DbusBitsToPulseGens \/ PulseGeneratorsHeader \/ PulseGenerator
  \/ FrontPanelOutput \/ BackplaneOutput \/ UniversalOutput
  \/ TransitionBoardOutput \/ FrontPanelInput \/ Sfp \/ WriteAllFanout
  \/ Finished

Spec == Init /\ [][Next]_vars /\ WF_vars(Next)
-----------------------------------------------------------------------------
TypeOK ==
  /\ fileType \in FileTypes
  /\ descriptionRecordType \in DescriptionRecordTypes
  /\ config \in Configs
  /\ status \in {"running", "returned", "raised"}
  /\ pc \in 1..(Len(Program) + 1)
  /\ writeAll \in Seq(STRING)
  /\ added \in Seq(STRING)
  /\ ItemsTyped

Returned == status = "returned"

(* When generate() returns for a record file, the Intrnl:WriteAll chain   *)
(* links exactly the PVs registered during the pass, in order, although   *)
(* prescalers and pulse generators write fanout chains of their own over  *)
(* local lists in between.                                                *)
WriteAllLinksEveryRegisteredPv ==
  (Returned /\ fileType = "DB") =>
    /\ ChainLinks(PvPrefix \o "Intrnl:WriteAll") = Prefixed(added)
    /\ writeAll = <<>>

(* No two fanout records of one file share a name: the :Fout<k> overflow  *)
(* records of the per-prescaler, per-pulse-generator and write-all chains *)
(* never collide with each other.                                         *)
FanoutRecordNamesUnique ==
  Returned =>
    \A j, k \in DOMAIN out :
      (j # k /\ out[j].t = "fanout" /\ out[k].t = "fanout") => out[j].pv # out[k].pv

\* Templates whose values are register addresses.
AddressTemplates ==
  {"evr-template-output", "evr-template-output-gen2", "evr-template-output-cml",
   "evr-template-output-gtx", "evr-template-map-ram", "evr-template-prescaler-16-bit",
   "evr-template-prescaler-32-bit", "evr-template-prescaler-to-pulse-gen",
   "evr-template-dbus-bit-to-pulse-gen", "evr-template-pulse-gen-generic",
   "evr-template-pulse-gen-prescaler-8-bit", "evr-template-pulse-gen-prescaler-16-bit",
   "evr-template-pulse-gen-delay-32-bit", "evr-template-pulse-gen-width-16-bit",
   "evr-template-pulse-gen-width-32-bit", "evr-template-fp-input",
   "evr-template-fp-input-read", "common-sfp"}

(* No register address is rendered for two different outputs, inputs or   *)
(* blocks of one EVR: the base addresses and strides of outputs, CML/GTX  *)
(* blocks (including 5-digit sample addresses), mapping RAMs, prescalers, *)
(* pulse generators and the SFP never overlap for a configuration.        *)
RegisterBlocksDisjoint ==
  Returned =>
    LET owned == UNION {{<<AddressValue(out[j].val[v]), out[j].pv>> : v \in DOMAIN out[j].val}
                        : j \in {j \in DOMAIN out : out[j].t \in AddressTemplates}}
    IN  \A a, b \in owned : a[1] = b[1] => a[2] = b[2]

(* Every fine-delay output of an EVR drives its own half of a GPIO shift  *)
(* register: the (address bit shift, value shift) pairs are distinct and  *)
(* the address shift selects one of the eight 4-bit groups of the 32-bit  *)
(* GPIO register.                                                         *)
FineDelayFieldsDistinct ==
  LET fd == {j \in DOMAIN out : out[j].t = "evr-template-output-fine-delay"}
  IN  /\ \A j, k \in fd : j # k => SubSeq(out[j].val, 1, 2) # SubSeq(out[k].val, 1, 2)
      /\ \A j \in fd : out[j].val[1] \in {S(4 * g) : g \in 0..7}

(* Every catalog configuration is generated without a ValueError.         *)
CatalogNeverRaises == config \in EVRConfigs => status # "raised"

\* Output helpers of Program and the OutputConfig each one resolves.
OutputHelpers == {"fpout", "bpout", "univout", "tbout"}
OutputConfigOf(c) ==
  CASE c[1] = "fpout"   -> config.front_panel_outputs[c[2] + 1]
    [] c[1] = "bpout"   -> config.backplane_outputs[c[2] + 1]
    [] c[1] = "univout" -> config.universal_outputs[c[2] + 1]
    [] c[1] = "tbout"   -> config.transition_board_outputs[c[2] + 1]

\* The OutputConfig invariants of the specification, checked up front:
\* optional=True needs both installed fields, a fine delay needs an
\* availability macro (from the config or, for universal outputs, the
\* caller) and an index of at most 15.
ValidOutputConfig(oc, callerHasFdMacro) ==
  /\ oc.optional = TRUE => oc.installed_macro # None /\ oc.installed_description # None
  /\ oc.fine_delay_index # None =>
       /\ oc.fine_delay_available_macro # None \/ callerHasFdMacro
       /\ oc.fine_delay_index <= 15

(* generate() raises ValueError exactly when some output it resolves      *)
(* breaks the OutputConfig invariants, although _output checks them in    *)
(* three places, late, after the output's first records are written.     *)
RaisesExactlyOnInvalidOutput ==
  status # "running" =>
    (status = "raised" <=>
       \E j \in DOMAIN Program :
         /\ Program[j][1] \in OutputHelpers
         /\ ~ValidOutputConfig(OutputConfigOf(Program[j]), Program[j][1] = "univout"))

=============================================================================
