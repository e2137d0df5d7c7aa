-------------------------------- MODULE EVG --------------------------------
(***************************************************************************)
(* EVG.generate() (evg.py): the fixed sequence of helper calls that writes *)
(* the records of an event generator.  `Program` is the list of helper     *)
(* calls generate() makes for a configuration (its loops and its VME       *)
(* branch); pc walks through it and each helper is one action that writes  *)
(* its templates and adds its PVs to the write-all list, as the code does. *)
(***************************************************************************)
EXTENDS MRFCommon, MRFConstants

CONSTANTS
  Configs   \* EVGConfig values generate() may be given

VARIABLES
  config,   \* self._config
  pc,       \* index into Program of the next helper call
  status    \* "running", "returned" or "raised" (ValueError)

vars == <<fileType, descriptionRecordType, out, writeAll, added, config, pc, status>>

\* _EVG_CONFIGS
EVGConfigs ==
  { [device |-> "VME-EVG-230", front_panel_inputs |-> 2, front_panel_outputs |-> 4,
     universal_inputs |-> 4, universal_outputs |-> 4] }

Call(helper, index) == <<helper, index>>
Loop(helper, n) == [j \in 1..n |-> Call(helper, j - 1)]

\* The helper calls of generate(), in order.
Program ==
  <<Call("generate", 0), Call("common", 0)>>
  \o Loop("mxc", 8)
  \o Loop("univout", config.universal_outputs)
  \o Loop("fpin", config.front_panel_inputs)
  \o Loop("univin", config.universal_inputs)
  \o (IF Devices[config.device].form_factor = "VME"
        THEN <<Call("vme", 0)>> \o Loop("fpout", config.front_panel_outputs)
             \o Loop("tbin", 16)
        ELSE <<>>)
  \o <<Call("sfp", 0), Call("writeall", 0)>>

At(helper) == status = "running" /\ Program[pc][1] = helper
Index == Program[pc][2]

\* A helper call: write, add to the write-all list, go on with the next one;
\* or the AttributeError of a description() without a record type.
Helper(items, names) ==
  IF DescriptionFails(items)
  THEN /\ FailAtDescription(items)
       /\ status' = "raised"
       /\ UNCHANGED <<fileType, descriptionRecordType, config, pc>>
  ELSE /\ Emit(items, names)
       /\ pc' = pc + 1
       /\ UNCHANGED <<fileType, descriptionRecordType, config, status>>

\* _input: template, optional "installed" record, description, write-all.
InputItems(name, address, installedMacro) ==
  <<Tmpl("evg-template-input", name, <<Addr(address)>>)>>
  \o (IF installedMacro THEN <<Tmpl("evg-template-input-installed", name, <<>>)>>
      ELSE <<>>)
  \o <<Description(name \o ":Description")>>

\* _output: the same shape; the write-all PV is <name>:Map.
OutputItems(name, address, installedMacro) ==
  <<Tmpl("evg-template-output", name, <<Addr(address)>>)>>
  \o (IF installedMacro THEN <<Tmpl("evg-template-output-installed", name, <<>>)>>
      ELSE <<>>)
  \o <<Description(name \o ":Description")>>

Init ==
  /\ fileType \in FileTypes
  /\ descriptionRecordType \in DescriptionTypes
  /\ config \in Configs
  /\ out = <<>>
  /\ writeAll = <<>>
  /\ added = <<>>
  /\ pc = 1
  /\ status = "running"

\* generate(): the device-class check, then a clean write-all list.
Generate ==
  /\ At("generate")
  /\ IF Devices[config.device].device_class # "EVG"
       THEN status' = "raised" /\ UNCHANGED <<out, writeAll, added, pc>>
       ELSE ClearWriteAll /\ pc' = pc + 1 /\ UNCHANGED status
  /\ UNCHANGED <<fileType, descriptionRecordType, config>>

\* _common: evg-common, 8 dist. bus and 8 event trigger descriptions.
Common ==
  /\ At("common")
  /\ Helper(<<Tmpl("evg-common", "", <<>>)>>
            \o [j \in 1..8 |-> Description("DBus:B" \o S(j - 1) \o ":Description")]
            \o [j \in 1..8 |-> Description("Event:EvTrig" \o S(j - 1) \o ":Description")],
            <<"Intrnl:WriteAll:Common">>)

MultiplexedCounter ==
  /\ At("mxc")
  /\ Helper(<<Tmpl("evg-template-mxc", "MXC" \o S(Index),
                   <<Addr(\h0180 + 8 * Index), Addr(\h0184 + 8 * Index)>>),
              Description("MXC" \o S(Index) \o ":Description")>>,
            <<"Intrnl:WriteAll:MXC" \o S(Index)>>)

UniversalOutput ==
  /\ At("univout")
  /\ LET name == "UnivOut" \o S(Index)
     IN  Helper(OutputItems(name, \h0440 + 2 * Index, TRUE), <<name \o ":Map">>)

FrontPanelInput ==
  /\ At("fpin")
  /\ LET name == "FPIn" \o S(Index)
     IN  Helper(InputItems(name, \h0500 + 4 * Index, FALSE),
                <<"Intrnl:WriteAll:" \o name>>)

UniversalInput ==
  /\ At("univin")
  /\ LET name == "UnivIn" \o S(Index)
     IN  Helper(InputItems(name, \h0540 + 4 * Index, TRUE),
                <<"Intrnl:WriteAll:" \o name>>)

Vme ==
  /\ At("vme")
  /\ Helper(<<Tmpl("evg-vme", "", <<>>)>>, <<"Intrnl:WriteAll:VME">>)

FrontPanelOutput ==
  /\ At("fpout")
  /\ LET name == "FPOut" \o S(Index)
     IN  Helper(OutputItems(name, \h0400 + 2 * Index, FALSE), <<name \o ":Map">>)

\* Mutant: transition-board inputs at the front-panel input base 0x0500.
TransitionBoardInputAt0500 ==
  /\ At("tbin")
  /\ LET name == "TBIn" \o S(Index)
     IN  Helper(InputItems(name, \h0500 + 4 * Index, TRUE),
                <<"Intrnl:WriteAll:" \o name>>)

TransitionBoardInput ==
  /\ At("tbin")
  /\ LET name == "TBIn" \o S(Index)
     IN  Helper(InputItems(name, \h0600 + 4 * Index, TRUE),
                <<"Intrnl:WriteAll:" \o name>>)

\* The base address of the EVG's SFP module registers.
SfpBaseAddress == \h1200

Sfp ==
  /\ At("sfp")
  /\ Helper(<<SfpModule("SFP", SfpBaseAddress)>>, <<>>)

\* The record that links to all output records; generate() then returns.
WriteAllFanout ==
  /\ At("writeall")
  /\ FanoutForWriteAllPvs("Intrnl:WriteAll")
  /\ pc' = pc + 1
  /\ status' = "returned"
  /\ UNCHANGED <<fileType, descriptionRecordType, config>>

Finished == status # "running" /\ UNCHANGED vars

Next ==
  \/ Generate \/ Common \/ MultiplexedCounter \/ UniversalOutput
  \/ FrontPanelInput \/ UniversalInput \/ Vme \/ FrontPanelOutput
  \/ TransitionBoardInput \/ Sfp \/ WriteAllFanout \/ Finished

\* generate() is sequential code: every helper call is eventually made.
Spec == Init /\ [][Next]_vars /\ WF_vars(Next)

-----------------------------------------------------------------------------
TypeOK ==
  /\ fileType \in FileTypes
  /\ descriptionRecordType \in DescriptionTypes
  /\ config \in Configs
  /\ status \in {"running", "returned", "raised"}
  /\ pc \in 1..(Len(Program) + 1)
  /\ writeAll \in Seq(STRING)
  /\ added \in Seq(STRING)
  /\ ItemsTyped

(* When generate() returns for a record file, the Intrnl:WriteAll fanout  *)
(* chain links exactly the PVs the helpers registered during the pass, in *)
(* registration order and with the PV prefix (the end-to-end write-all    *)
(* contract), and the list is left empty for a later flush.               *)
WriteAllLinksEveryRegisteredPv ==
  (status = "returned" /\ fileType = "DB") =>
    /\ ChainLinks(PvPrefix \o "Intrnl:WriteAll") = Prefixed(added)
    /\ writeAll = <<>>

(* No two input or output register blocks of one EVG are rendered at the  *)
(* same register address: the per-group base addresses and strides of     *)
(* the _input/_output callers never overlap for the configured counts.    *)
IoRegistersDisjoint ==
  LET io == {j \in DOMAIN out : out[j].t \in {"evg-template-input", "evg-template-output"}}
  IN  \A j, k \in io : j # k => out[j].val # out[k].val
=============================================================================
