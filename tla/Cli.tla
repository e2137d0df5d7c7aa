-------------------------------- MODULE Cli --------------------------------
(***************************************************************************)
(* The command line (generate_db_or_req.py _main) with the dispatcher of   *)
(* mrf_db_gen (device_for_name, generate_file, and the generate_file of    *)
(* evg.py and evr.py) driving the EVG or EVR generator it picks.  _main    *)
(* parses its arguments, looks the device up by the file name's stem and   *)
(* the file type up by its suffix, opens (and so truncates) the output     *)
(* file, and generates into it; an exception it does not catch ends the    *)
(* process with a traceback and exit status 1.  The generators are the     *)
(* EVG and EVR modules, sharing this module's generator variables; the     *)
(* file holds what they wrote.                                             *)
(***************************************************************************)
EXTENDS Integers, Sequences, MRFConstants

CONSTANTS
  DescArgs,  \* --description-record-type values; "None" when it is left out
  Stems,     \* output_file.stem values, as [name, casing]: the name folded
             \* to one case, and the casing it was typed in
  Suffixes,  \* output_file.suffix values
  NoLink,
  None

VARIABLES
  fileType, descriptionRecordType, out, writeAll, added, config, pc, status,
  phase,       \* where _main is
  args,        \* the command line
  device,      \* what device_for_name returned
  fileOpened,  \* open(output_file, "w") has run: the file was truncated
  exitCode,    \* the process exit status
  message      \* what the process printed to stderr

genVars == <<fileType, descriptionRecordType, out, writeAll, added, config, pc, status>>
cliVars == <<phase, args, device, fileOpened, exitCode, message>>
vars == <<genVars, cliVars>>

G == INSTANCE EVG WITH DescriptionTypes <- DescriptionRecordTypes \cup {"None"},
                       AddressOffset <- 0, PvPrefix <- "$(P)$(R)", Configs <- {}
R == INSTANCE EVR WITH DescriptionTypes <- DescriptionRecordTypes \cup {"None"},
                       AddressOffset <- 0, PvPrefix <- "$(P)$(R)", Configs <- {}

\* Mutant: the comparison forgets lower(), so the casing must match.
DeviceForNameCaseSensitive(stem) ==
  {d \in DOMAIN Devices : d = stem.name /\ stem.casing = "exact"}

\* device_for_name: str(device).lower() == name.lower() over the catalog;
\* no match is a KeyError.  Device names differ in more than case, so at
\* most one device matches.
DeviceForName(stem) == {d \in DOMAIN Devices : d = stem.name}

\* Mutant: the suffix string itself is passed on as the file type.
FileTypeValueRaw == [s \in {".db", ".req"} |-> s]

\* FileType(value): the member whose value is the suffix; ValueError for
\* any other suffix.
FileTypeValue == [s \in {".db", ".req"} |-> IF s = ".db" THEN "DB" ELSE "REQ"]

Exit(code, msg) ==
  /\ phase' = "exited"
  /\ exitCode' = code
  /\ message' = msg

-----------------------------------------------------------------------------
Init ==
  /\ fileType = "DB"
  /\ descriptionRecordType = "None"
  /\ out = <<>>
  /\ writeAll = <<>>
  /\ added = <<>>
  /\ config = "none"
  /\ pc = 0
  /\ status = "idle"
  /\ phase = "parse"
  /\ args \in [desc : DescArgs, stem : Stems, suffix : Suffixes]
  /\ device = "none"
  /\ fileOpened = FALSE
  /\ exitCode = 0
  /\ message = "none"

\* parse_args: type=DescriptionRecordType rejects an unknown record type
\* with a usage message and exit status 2; a missing option is None.
ParseArgs ==
  /\ phase = "parse"
  /\ IF args.desc \in DescriptionRecordTypes \cup {"None"}
       THEN phase' = "lookup" /\ UNCHANGED <<exitCode, message>>
       ELSE Exit(2, "usage")
  /\ UNCHANGED <<genVars, args, device, fileOpened>>

\* device_for_name(output_file.stem); its KeyError is caught.
LookupDevice ==
  /\ phase = "lookup"
  /\ LET found == DeviceForName(args.stem) IN
       IF found = {}
         THEN Exit(1, "unknown_device") /\ UNCHANGED device
         ELSE /\ device' = CHOOSE d \in found : TRUE
              /\ phase' = "suffix"
              /\ UNCHANGED <<exitCode, message>>
  /\ UNCHANGED <<genVars, args, fileOpened>>

\* FileType(output_file.suffix) inside try/except KeyError: the ValueError
\* it raises for an unknown suffix is not caught.
ParseSuffix ==
  /\ phase = "suffix"
  /\ IF args.suffix \in DOMAIN FileTypeValue
       THEN phase' = "open" /\ UNCHANGED <<exitCode, message>>
       ELSE Exit(1, "traceback")
  /\ UNCHANGED <<genVars, args, device, fileOpened>>

\* with open(output_file, "w"): the file is created or truncated.
OpenOutputFile ==
  /\ phase = "open"
  /\ fileOpened' = TRUE
  /\ out' = <<>>
  /\ phase' = "dispatch"
  /\ UNCHANGED <<fileType, descriptionRecordType, writeAll, added, config, pc,
                 status, args, device, exitCode, message>>

\* The generator object a module's generate_file creates for a config.
StartGenerator(cfgs) ==
  /\ config' = CHOOSE c \in cfgs : TRUE
  /\ fileType' = FileTypeValue[args.suffix]
  /\ descriptionRecordType' = args.desc
  /\ writeAll' = <<>>
  /\ added' = <<>>
  /\ pc' = 1
  /\ status' = "running"
  /\ phase' = "generating"
  /\ UNCHANGED <<out, args, device, fileOpened, exitCode, message>>

\* mrf_db_gen.generate_file dispatches on the device class (anything but
\* EVG and EVR is NotImplementedError); evg/evr.generate_file look the
\* device's config up (ValueError if there is none) and call generate().
GenerateFile ==
  /\ phase = "dispatch"
  /\ LET cls == Devices[device].device_class
         cfgs == IF cls = "EVG" THEN {c \in G!EVGConfigs : c.device = device}
                 ELSE {c \in R!EVRConfigs : c.device = device}
     IN  IF cls \notin {"EVG", "EVR"} \/ cfgs = {}
           THEN Exit(1, "traceback") /\ UNCHANGED <<genVars, args, device, fileOpened>>
           ELSE StartGenerator(cfgs)

\* One helper call of the running generate().
Generating ==
  /\ phase = "generating"
  /\ status = "running"
  /\ IF Devices[device].device_class = "EVG" THEN G!Next ELSE R!Next
  /\ UNCHANGED cliVars

\* generate() has returned or raised; the with block closes the file and
\* an exception ends the process.
Finish ==
  /\ phase = "generating"
  /\ status # "running"
  /\ IF status = "returned" THEN Exit(0, "none") ELSE Exit(1, "traceback")
  /\ UNCHANGED <<genVars, args, device, fileOpened>>

Next ==
  \/ ParseArgs \/ LookupDevice \/ ParseSuffix \/ OpenOutputFile
  \/ GenerateFile \/ Generating \/ Finish

\* _main is sequential code.
Spec == Init /\ [][Next]_vars /\ WF_vars(Next)

-----------------------------------------------------------------------------
TypeOK ==
  /\ phase \in {"parse", "lookup", "suffix", "open", "dispatch", "generating", "exited"}
  /\ Devices \in [DOMAIN Devices -> DeviceTypes]
  /\ device \in DOMAIN Devices \cup {"none"}
  /\ phase \in {"generating", "exited"} /\ fileOpened => fileType \in FileTypes
  /\ exitCode \in {0, 1, 2}
  /\ message \in {"none", "usage", "unknown_device", "unknown_extension", "traceback"}

(* _main checks the device name and the suffix before it opens the output *)
(* file, and the catalog has a configuration for every device the         *)
(* dispatcher accepts, so once open() has truncated the file the process  *)
(* exits successfully: no run leaves a truncated or partial file behind.  *)
NoTruncatedOutputFile ==
  (phase = "exited" /\ fileOpened) => exitCode = 0

(* A file named after a catalog device, in any casing, with a .db or .req *)
(* suffix and a record type given, is generated: the process exits 0      *)
(* after generate() returned for that device's config, that file type and *)
(* that record type.                                                      *)
CatalogNamesAccepted ==
  (/\ phase = "exited"
   /\ args.desc \in DescriptionRecordTypes
   /\ args.suffix \in DOMAIN FileTypeValue
   /\ args.stem.name \in DOMAIN Devices)
  => /\ exitCode = 0
     /\ status = "returned"
     /\ config.device = args.stem.name
     /\ fileType = FileTypeValue[args.suffix]
     /\ descriptionRecordType = args.desc

(* _main catches the error of FileType(suffix) to print "Error: Unknown   *)
(* file extension" and exit with status 1: a known device with any other  *)
(* suffix ends with that message.                                         *)
UnknownExtensionReported ==
  (/\ phase = "exited"
   /\ args.suffix \notin DOMAIN FileTypeValue
   /\ message \notin {"usage", "unknown_device"})
  => message = "unknown_extension"
=============================================================================
