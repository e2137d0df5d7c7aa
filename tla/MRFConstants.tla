---------------------------- MODULE MRFConstants ----------------------------
(***************************************************************************)
(* The static catalog of constants.py: device classes, form factors, file  *)
(* types, description record types and the Device enumeration.  A device   *)
(* is identified by its device_name string.                                *)
(***************************************************************************)

\* FileType: the value is the file-name suffix.
FileTypes == {"DB", "REQ"}

\* DescriptionRecordType: the value is part of a template name.
DescriptionRecordTypes == {"lso", "stringout", "waveform"}

\* DeviceClass and FormFactor: enumerations whose values do not matter.
DeviceClasses == {"EVG", "EVM", "EVR"}
FormFactors == {"MTCA", "VME"}

\* DeviceType without device_name, which str() returns and which names the
\* device below.
DeviceTypes == [form_factor : FormFactors, device_class : DeviceClasses, series : STRING]

\* Device: (form_factor, device_class, device_name, series), by name.
Devices ==
  [ d \in {"mTCA-EVR-300", "VME-EVG-230", "VME-EVR-230", "VME-EVR-230RF",
           "VME-EVR-300"} |->
      CASE d = "mTCA-EVR-300"  -> [form_factor |-> "MTCA", device_class |-> "EVR", series |-> "300"]
        [] d = "VME-EVG-230"   -> [form_factor |-> "VME",  device_class |-> "EVG", series |-> "230"]
        [] d = "VME-EVR-230"   -> [form_factor |-> "VME",  device_class |-> "EVR", series |-> "230"]
        [] d = "VME-EVR-230RF" -> [form_factor |-> "VME",  device_class |-> "EVR", series |-> "230"]
        [] d = "VME-EVR-300"   -> [form_factor |-> "VME",  device_class |-> "EVR", series |-> "300"] ]
=============================================================================
