----------------------------- MODULE ScanMonitor -----------------------------
(***************************************************************************)
(* ddccontrol-scanmonitor: one scan of a monitor, from the choice of the   *)
(* device to the profile it writes, and the loader that previews it.       *)
(*                                                                         *)
(* The monitor sends its capability text in fragments, until an empty one: *)
(* the first is one of Beginnings, the others are tokens.  Every exchange  *)
(* may fail or bring a late reply, and is tried Tries times.               *)
(* What the monitor supports and which options.xml is installed are        *)
(* unknown until they matter and are chosen there.                         *)
(***************************************************************************)
EXTENDS CapsText, ProfileControls, Integers

CONSTANTS
  Beginnings,     \* first fragments of capability texts
  Ascending,      \* all codes, in order; they are the numbers of Hex too
  Vendor,         \* codes from 0xe0 on
  Vocabularies,   \* sequence of options.xml: sequences of option controls
  Monitors,       \* sequence of monitors: per supported code, whether its
                  \*   reading is a range with a current value in it
  NoNumber,       \* the hint of a value is absent or not a number
  MaxTokens,      \* the 65535-byte limit of a capability text
  Tries           \* attempts of retry

ASSUME ScanAssumption ==
  /\ Range(Ascending) = Hex /\ Vendor \subseteq Hex
  /\ MaxTokens \in Nat /\ Tries \in Nat \ {0}

VARIABLES
  phase,        \* where the program is
  tries,        \* failed attempts of the exchange under way
  text,         \* capability tokens: of the monitor, later of the profile
  parser,       \* the parser, after text
  capabilities, \* Caps of the monitor, later of the profile
  vocabulary,   \* index in Vocabularies, 0 while unknown
  monitor,      \* index in Monitors, 0 while unknown
  todo,         \* codes still to be read
  register,     \* the control reply the monitor holds, to whichever request
  readings,     \* per code that was read, the reading
  elements,     \* the active controls of the profile
  output        \* the output file

scanVars == <<phase, tries, text, parser, capabilities, vocabulary, monitor, todo, register,
              readings, elements, output>>

Ended == {"failed", "crashed", "loaded"}
(* No reply to a control request: what the monitor holds before the first. *)
NoReply == [code |-> "none", supported |-> FALSE, adjustable |-> FALSE]

Phases == {"choose", "edid", "caps", "codes", "read", "generate", "create", "write", "preview"} \cup Ended
OptionsXml == Vocabularies[vocabulary]

ScanInit ==
  /\ phase = "choose" /\ tries = 0
  /\ text = << >> /\ parser = Start /\ capabilities = NoCaps
  /\ vocabulary = 0 /\ monitor = 0
  /\ todo = {} /\ register = NoReply /\ readings = << >> /\ elements = << >>
  /\ output = "absent"

(***************************************************************************)
(* What the scan makes of its readings (xml.rs)                            *)
(***************************************************************************)

(* index_options: the options with a hint for a code, identical mappings   *)
(* once.                                                                   *)
Mapping(o) == [id |-> o.id, name |-> o.name, kind |-> o.kind,
               values |-> [n \in DOMAIN o.values |-> <<o.values[n].id, o.values[n].number>>]]
Candidates(options, code) ==
  {i \in DOMAIN options :
     /\ options[i].hint = code
     /\ \A j \in 1 .. i - 1 :
          options[j].hint = code => Mapping(options[j]) # Mapping(options[i])}
Hinted(options) == {options[i].hint : i \in DOMAIN options} \ {NoAddress}

Advertised(code) == IF code \in DOMAIN capabilities.vcp THEN capabilities.vcp[code] ELSE AllValues
MatchingValues(o, code) == SelectSeq(o.values, LAMBDA v : v.number \in Advertised(code))
AmbiguousValues(values) ==
  \E m, n \in DOMAIN values :
    m # n /\ (values[m].id = values[n].id \/ values[m].number = values[n].number)

(* A control is active when there is no reason to leave it to the user.    *)
OneMeaning(i, code) ==
  /\ Cardinality(Candidates(OptionsXml, code)) = 1
  /\ \A j \in DOMAIN OptionsXml :
       OptionsXml[j].hint \notin {code, NoAddress} => OptionsXml[j].id # OptionsXml[i].id

(* Variant of Active that does not ask for one meaning.                    *)
ActiveAnyMeaning(i, code) ==
  LET o == OptionsXml[i]
      values == MatchingValues(o, code)
  IN  /\ code \in DOMAIN readings
      /\ code \notin Vendor
      /\ o.kind # "command"
      /\ o.kind = "value" => readings[code].adjustable
      /\ o.kind = "list" => values # << >> /\ ~AmbiguousValues(values)

Active(i, code) ==
  LET o == OptionsXml[i]
      values == MatchingValues(o, code)
  IN  /\ code \in DOMAIN readings
      /\ OneMeaning(i, code)
      /\ code \notin Vendor
      /\ o.kind # "command"
      /\ o.kind = "value" => readings[code].adjustable
      /\ o.kind = "list" => values # << >> /\ ~AmbiguousValues(values)

(* control_xml: an element of the profile, as the loader will see it       *)
ControlXml(i, code) ==
  LET values == MatchingValues(OptionsXml[i], code) IN
  [tag |-> "control", id |-> OptionsXml[i].id, address |-> code, required |-> FALSE,
   delay |-> TRUE,
   values |-> [n \in DOMAIN values |-> [id |-> values[n].id, number |-> TRUE]]]

InOrder(codes) == SelectSeq(Ascending, LAMBDA c : c \in codes)
ProfileCodes == DOMAIN capabilities.vcp \cup DOMAIN readings

Generated ==
  FlattenSeq([n \in 1 .. Len(InOrder(ProfileCodes)) |->
    LET code == InOrder(ProfileCodes)[n]
        active == SelectSeq([i \in DOMAIN OptionsXml |-> i],
                            LAMBDA i : i \in Candidates(OptionsXml, code) /\ Active(i, code))
    IN  [m \in DOMAIN active |-> ControlXml(active[m], code)]])

(* normalized_caps: the text of the profile's <caps add>                   *)
NormalizedCaps ==
  LET Entry(c) == IF Advertised(c) = AllValues THEN <<c>>
                  ELSE <<c, "(">> \o InOrder(Advertised(c)) \o <<")">>
      codes == InOrder(ProfileCodes)
  IN  <<"(">> \o (IF capabilities.type = "unknown" THEN << >> ELSE <<"type", "(", capabilities.type, ")">>)
        \o <<"vcp", "(">> \o FlattenSeq([n \in DOMAIN codes |-> Entry(codes[n])])
        \o <<")", ")">>

(***************************************************************************)
(* The scan (main.rs, backend.rs)                                          *)
(***************************************************************************)

(* options.xml cannot be used, there is no device, or nobody chooses one.  *)
SetupFails ==
  /\ phase = "choose"
  /\ phase' = "failed"
  /\ UNCHANGED <<tries, text, parser, capabilities, vocabulary, monitor, todo,
                 register, readings, elements, output>>

(* choose_device, or the device of the command line                        *)
Choose ==
  /\ phase = "choose"
  /\ phase' = "edid"
  /\ UNCHANGED <<tries, text, parser, capabilities, vocabulary, monitor, todo,
                 register, readings, elements, output>>

(* retry: an attempt failed, and another one follows.                      *)
Retry ==
  /\ phase \in {"edid", "caps"} /\ tries < Tries - 1
  /\ tries' = tries + 1
  /\ UNCHANGED <<phase, text, parser, capabilities, vocabulary, monitor, todo,
                 register, readings, elements, output>>

EdidFails ==
  /\ phase = "edid" /\ tries = Tries - 1
  /\ phase' = "failed"
  /\ UNCHANGED <<tries, text, parser, capabilities, vocabulary, monitor, todo,
                 register, readings, elements, output>>

(* read_edid                                                               *)
EdidRead ==
  /\ phase = "edid"
  /\ phase' = "caps" /\ tries' = 0
  /\ UNCHANGED <<text, parser, capabilities, vocabulary, monitor, todo,
                 register, readings, elements, output>>

(* Variant of CapsFragment: the offset starts anew at the limit.           *)
CapsFragmentWraps ==
  /\ phase = "caps" /\ parser.ok
  /\ \E fragment \in IF text = << >> THEN Beginnings ELSE {<<t>> : t \in Tokens} :
       IF Len(text) + Len(fragment) <= MaxTokens
       THEN text' = text \o fragment /\ parser' = FoldLeft(ParseToken, parser, fragment)
       ELSE text' = << >> /\ parser' = Start
  /\ tries' = 0
  /\ UNCHANGED <<phase, capabilities, vocabulary, monitor, todo, register,
                 readings, elements, output>>

(* read_capabilities: a fragment at the offset that was asked for.  A text *)
(* that is malformed already is not continued: nothing would be changed.   *)
CapsFragment ==
  /\ phase = "caps" /\ parser.ok
  /\ \E fragment \in IF text = << >> THEN Beginnings ELSE {<<t>> : t \in Tokens} :
       /\ Len(text) + Len(fragment) <= MaxTokens
       /\ text' = text \o fragment
       /\ parser' = FoldLeft(ParseToken, parser, fragment)
  /\ tries' = 0
  /\ UNCHANGED <<phase, capabilities, vocabulary, monitor, todo, register,
                 readings, elements, output>>

(* The capabilities are complete, or are given up: after Tries attempts,   *)
(* or beyond the limit.  A text that is lost or malformed counts as empty. *)
CapsDone(complete) ==
  /\ phase = "caps"
  /\ ~complete => tries = Tries - 1 \/ Len(text) = MaxTokens
  /\ LET parsed == Parsed(parser) IN
     capabilities' = IF complete /\ parsed.ok THEN ApplyAdd(NoCaps, parsed) ELSE NoCaps
  /\ text' = << >> /\ parser' = Start /\ tries' = 0
  /\ phase' = "codes"
  /\ UNCHANGED <<vocabulary, monitor, todo, register, readings, elements,
                 output>>

(* The scan stops before its slow part if the output file exists.         *)
OutputExists ==
  /\ phase = "codes" /\ output # "absent"
  /\ phase' = "failed"
  /\ UNCHANGED <<tries, text, parser, capabilities, vocabulary, monitor, todo,
                 register, readings, elements, output>>

(* The codes to read are the ones of the capabilities and of options.xml.  *)
ListCodes ==
  /\ phase = "codes" /\ output = "absent"
  /\ phase' = "read"
  /\ vocabulary' \in DOMAIN Vocabularies /\ monitor' \in DOMAIN Monitors
  /\ todo' = (DOMAIN capabilities.vcp \cup Hinted(Vocabularies[vocabulary'])) \ Vendor
  /\ UNCHANGED <<tries, text, parser, capabilities, register, readings,
                 elements, output>>

(* The codes are read in order (BTreeSet).                                 *)
Reading == Head(InOrder(todo))

(* The monitor's own reply to a request for a code.                        *)
Answer(code) ==
  LET known == code \in DOMAIN Monitors[monitor] IN
  [code |-> code, supported |-> known, adjustable |-> known /\ Monitors[monitor][code]]

(* exchange: what is read is the answer, or what the monitor still holds   *)
(* because it missed the request or is late; the answer may come after it. *)
Exchange(reply) ==
  /\ reply \in {register, Answer(Reading)}
  /\ register' \in {reply, Answer(Reading)}

(* Variant of Accepts that takes the reply to any code.                    *)
AcceptsAny(reply, code) == TRUE

(* parse_vcp_reply: a reply is taken if it names the code asked for.       *)
Accepts(reply, code) == reply = code

ReadControl ==
  /\ phase = "read" /\ todo # {}
  /\ \E reply \in {register, Answer(Reading)} :
       /\ Exchange(reply)
       /\ Accepts(reply.code, Reading) /\ reply.supported
       /\ readings' = [c \in DOMAIN readings \cup {Reading} |->
                         IF c = Reading THEN [adjustable |-> reply.adjustable] ELSE readings[c]]
  /\ todo' = todo \ {Reading} /\ tries' = 0
  /\ UNCHANGED <<phase, text, parser, capabilities, vocabulary, monitor, elements, output>>

(* The monitor says that it does not support the code.                     *)
NotSupported ==
  /\ phase = "read" /\ todo # {}
  /\ \E reply \in {register, Answer(Reading)} :
       /\ Exchange(reply)
       /\ Accepts(reply.code, Reading) /\ ~reply.supported
  /\ todo' = todo \ {Reading} /\ tries' = 0
  /\ UNCHANGED <<phase, text, parser, capabilities, vocabulary, monitor, readings,
                 elements, output>>

(* An attempt fails: the request or the reply is lost, or it is to another *)
(* code.  After the last one the scan goes on with the next code.          *)
ReadFails ==
  /\ phase = "read" /\ todo # {}
  /\ \E reply \in {register, Answer(Reading)} : Exchange(reply)
  /\ IF tries < Tries - 1
     THEN tries' = tries + 1 /\ UNCHANGED todo
     ELSE tries' = 0 /\ todo' = todo \ {Reading}
  /\ UNCHANGED <<phase, text, parser, capabilities, vocabulary, monitor, readings,
                 elements, output>>

ReadingDone ==
  /\ phase = "read" /\ todo = {}
  /\ phase' = IF readings = << >> THEN "failed" ELSE "generate"
  /\ UNCHANGED <<tries, text, parser, capabilities, vocabulary, monitor, todo,
                 register, readings, elements, output>>

Generate ==
  /\ phase = "generate"
  /\ elements' = Generated /\ text' = NormalizedCaps
  /\ phase' = "create"
  /\ UNCHANGED <<tries, parser, capabilities, vocabulary, monitor, todo,
                 register, readings, output>>

(* Variant of Create without create_new.                                   *)
CreateAnyway ==
  /\ phase = "create"
  /\ phase' = "write" /\ output' = "partial"
  /\ UNCHANGED <<tries, text, parser, capabilities, vocabulary, monitor, todo,
                 register, readings, elements>>

(* write_new: the file must not exist yet.                                 *)
Create ==
  /\ phase = "create"
  /\ IF output = "absent"
     THEN phase' = "write" /\ output' = "partial"
     ELSE phase' = "failed" /\ UNCHANGED output
  /\ UNCHANGED <<tries, text, parser, capabilities, vocabulary, monitor, todo,
                 register, readings, elements>>

Write ==
  /\ phase = "write"
  /\ phase' = "preview" /\ output' = "whole" /\ capabilities' = NoCaps
  /\ UNCHANGED <<tries, text, parser, vocabulary, monitor, todo, register,
                 readings, elements>>

(* The write or the sync fails.  The result of remove_file is ignored: the *)
(* file may stay, with a part of the profile.                              *)
WriteFails ==
  /\ phase = "write"
  /\ phase' = "failed" /\ output' \in {"absent", "partial"}
  /\ UNCHANGED <<tries, text, parser, capabilities, vocabulary, monitor, todo,
                 register, readings, elements>>

(* The preview: the loader parses the caps of the profile, and adds them.  *)
PreviewToken ==
  /\ phase = "preview" /\ text # << >>
  /\ parser' = ParseToken(parser, Head(text)) /\ text' = Tail(text)
  /\ UNCHANGED <<phase, tries, capabilities, vocabulary, monitor, todo,
                 register, readings, elements, output>>

PreviewCaps ==
  /\ phase = "preview" /\ text = << >>
  /\ capabilities' = IF Parsed(parser).ok THEN ApplyAdd(NoCaps, Parsed(parser)) ELSE NoCaps
  /\ phase' = "loaded"
  /\ UNCHANGED <<tries, text, parser, vocabulary, monitor, todo, register,
                 readings, elements, output>>

Crash ==
  /\ phase \notin Ended \cup {"preview"}
  /\ phase' = "crashed"
  /\ text' = << >> /\ parser' = Start /\ capabilities' = NoCaps /\ tries' = 0
  /\ UNCHANGED <<vocabulary, monitor, todo, register, readings, elements,
                 output>>

(* Somebody else creates a file with the name of the output.               *)
OtherCreates ==
  /\ output = "absent" /\ phase \in {"codes", "generate", "create"}
  /\ output' = "other"
  /\ UNCHANGED <<phase, tries, text, parser, capabilities, vocabulary, monitor,
                 todo, register, readings, elements>>

ScanStep ==
  \/ SetupFails \/ Choose \/ Retry \/ EdidFails \/ EdidRead
  \/ CapsFragment \/ (\E complete \in BOOLEAN : CapsDone(complete))
  \/ OutputExists \/ ListCodes
  \/ ReadControl \/ NotSupported \/ ReadFails \/ ReadingDone
  \/ Generate \/ Create \/ Write \/ WriteFails
  \/ PreviewToken \/ PreviewCaps

ScanNext == ScanStep \/ Crash \/ OtherCreates

ScanSpec == ScanInit /\ [][ScanNext]_scanVars /\ WF_scanVars(ScanStep)

(***************************************************************************)
(* Properties                                                              *)
(***************************************************************************)

(* The variables have their types, and no exchange is tried more often     *)
(* than Tries times.                                                       *)
ScanTypeOK ==
  /\ phase \in Phases /\ tries \in 0 .. Tries - 1
  /\ text \in Seq(Tokens) /\ parser.ok \in BOOLEAN
  /\ DOMAIN capabilities.vcp \subseteq Hex /\ capabilities.type \in Types \cup {"unknown"}
  /\ vocabulary \in 0 .. Len(Vocabularies) /\ monitor \in 0 .. Len(Monitors)
  /\ register.code \in Hex \cup {NoReply.code}
  /\ todo \subseteq Hex \ Vendor /\ DOMAIN readings \subseteq Hex \ Vendor
  /\ output \in {"absent", "other", "partial", "whole"}

(* The meaning of a capability text, from positions and without a stack:   *)
(* Opens are the parentheses around a position, Header the name of one.    *)
Around(p, i) ==
  \A q \in p .. i - 1 :
    Cardinality({r \in p .. q : text[r] = "("}) > Cardinality({r \in p .. q : text[r] = ")"})
Opens(i) == {p \in 1 .. i - 1 : text[p] = "(" /\ Around(p, i)}
Header(p) == IF p > 1 /\ text[p - 1] \in Names THEN text[p - 1] ELSE "none"

InSections(i) == \A p \in Opens(i) : Header(p) = "none"
InVcp(i) ==
  /\ Opens(i) # {} /\ Header(Max(Opens(i))) = "vcp"
  /\ \A p \in Opens(i) : Header(p) \in {"none", "vcp"}
IsCode(i) == text[i] \in Hex /\ InVcp(i)
InValues(i) ==
  LET p == Max(Opens(i)) IN Opens(i) # {} /\ p > 1 /\ IsCode(p - 1)
IsType(i) ==
  /\ i > 2 /\ text[i] \in Types /\ text[i - 1] = "(" /\ text[i - 2] = "type"
  /\ InSections(i - 1)

(* Where a token may stand.                                                *)
Placed(i) ==
  /\ text[i] = ")" => Opens(i) # {}
  /\ InValues(i) => text[i] \in Hex \cup {"(", ")"}
  /\ InVcp(i) => IF text[i - 1] \in Names \ Hex THEN text[i] = "("
                 ELSE \/ text[i] \in (Names \ {"crt"}) \cup {")"}
                      \/ text[i] = "(" /\ text[i - 1] \in Hex

CodeAt(c) == {i \in DOMAIN text : text[i] = c /\ IsCode(i)}
ValuesAt(i) == {text[v] : v \in {w \in DOMAIN text :
                                   InValues(w) /\ Max(Opens(w)) = i + 1 /\ text[w] \in Hex}}
Meaning ==
  LET types == {i \in DOMAIN text : IsType(i)} IN
  [type |-> IF types = {} THEN "unknown" ELSE text[Max(types)],
   vcp  |-> [c \in {text[i] : i \in {j \in DOMAIN text : IsCode(j)}} |->
               ValuesAt(Max(CodeAt(c)))]]

(* Only after "type (" is a parenthesis taken for a value.                 *)
Ordinary ==
  \A i \in 3 .. Len(text) : ~(text[i - 2] = "type" /\ text[i - 1] = "(" /\ text[i] = "(")

(* The parser of capability strings accepts the texts whose tokens stand   *)
(* where they may, and finds in them exactly the codes, values and type    *)
(* that their nesting shows, however groups are nested, left open or       *)
(* repeated.  The variables keep their types with it.                      *)
ParsedAsNested ==
  /\ ScanTypeOK
  /\ phase = "caps" /\ Ordinary =>
       /\ parser.ok <=> \A i \in DOMAIN text : Placed(i)
       /\ parser.ok =>
            /\ Parsed(parser).ok <=> Opens(Len(text) + 1) = {}
            /\ Parsed(parser).ok => ApplyAdd(NoCaps, Parsed(parser)) = Meaning

(* What is kept for a code is what the monitor has for it: a code it does  *)
(* not support gets no reading, and none is of another code, however often *)
(* requests are missed and replies come late, lost ones tried again        *)
(* (read_control, parse_vcp_reply).                                        *)
ReadingsBelong ==
  \A c \in DOMAIN readings :
    Answer(c).supported /\ readings[c].adjustable = Answer(c).adjustable

(* A scan never changes a file that it did not create, although the file   *)
(* may appear between its check and its own creation of it.                *)
OthersFileKept == [][output = "other" => output' = "other"]_scanVars

(* The profile is complete when the scan reports that it was created.      *)
ReportedWhole == phase \in {"preview", "loaded"} => output = "whole"

(* A file of somebody else at the path of the output is never changed, and *)
(* a profile that a scan reports as created is whole.  A part of one may   *)
(* stay behind after a kill during the write, and after a failed write     *)
(* whose removal failed too (write_new).                                   *)
OutputSafe == []ReportedWhole /\ OthersFileKept

(* What the loader makes of an option (load_options_node), and the strict  *)
(* and the normal way it reads the profile.                                *)
LoaderOption(o) ==
  [id |-> o.id, unavailable |-> FALSE, command |-> o.kind = "command",
   values |-> {[id |-> o.values[n].id, named |-> o.values[n].named] : n \in DOMAIN o.values}]
LoaderOptions == [i \in DOMAIN OptionsXml |-> LoaderOption(OptionsXml[i])]
Loaded(tolerant) ==
  AddControls(LoaderOptions, elements, capabilities.vcp,
              [tolerant |-> tolerant, validate |-> ~tolerant],
              [tree |-> << >>, turn |-> 1, defined |-> {}])

(* Options with one id have the same values, and list values have names.   *)
SoundVocabulary ==
  /\ \A i, j \in DOMAIN OptionsXml :
       OptionsXml[i].id = OptionsXml[j].id => OptionsXml[i].values = OptionsXml[j].values
  /\ \A i \in DOMAIN OptionsXml : \A n \in DOMAIN OptionsXml[i].values : OptionsXml[i].values[n].named

(* The profile a scan has written passes the strict validation of          *)
(* --monitor-file, and loads with every control that the scan enabled, at  *)
(* its address, with every code of the scan supported.                     *)
ProfileLoads ==
  phase = "loaded" /\ SoundVocabulary =>
    /\ Loaded(FALSE).ok
    /\ Range(Loaded(TRUE).tree) = {[id |-> e.id, address |-> e.address] : e \in Range(elements)}
    /\ Cardinality(DOMAIN Loaded(TRUE).tree) = Len(elements)
    /\ DOMAIN readings \subseteq DOMAIN capabilities.vcp

(* A scan comes to an end, whatever the monitor sends or does not send.    *)
ScanEnds == <>(phase \in Ended)
=============================================================================
