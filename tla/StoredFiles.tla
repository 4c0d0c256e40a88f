----------------------------- MODULE StoredFiles -----------------------------
(***************************************************************************)
(* User profiles and the monitor list on disk: several processes save to   *)
(* one file while another loads it into a C structure.                     *)
(*                                                                         *)
(* A document is an element of Documents: the program version written in   *)
(* it, how many controls or monitors it has, and whether its texts hold    *)
(* only XML characters.  A file is the sequence of its lines, each with    *)
(* the document it comes from.  A missing file and an empty one load alike *)
(* and are both << >>.  Decoding and escaping are undone by each other and *)
(* left out.                                                               *)
(***************************************************************************)
EXTENDS CStruct

CONSTANTS
  Writers,       \* processes that save
  Documents,     \* sequence of [version, items, printable]
  Version,       \* the version of the program that loads
  MaxControls,   \* MAX_CONTROLS
  Trees,         \* monitor trees that ddcci_create_db hands out
  MaxSaves       \* bound on the saves of a behaviour

ASSUME BoundsAssumption == MaxControls \in Nat /\ MaxSaves \in Nat

ASSUME DocumentsAssumption ==
  /\ Documents \in Seq(Range(Documents))
  /\ \A d \in DOMAIN Documents : Documents[d].items \in Nat

VARIABLES
  kind,      \* the file is a "profile" or a "list"
  file,      \* its lines
  writer,    \* per writer, the document it is to write, 0 when it is idle
  saves,     \* saves begun
  intact,    \* the last save if it succeeded and no other one overlapped, or 0
  load,      \* the load or construction under way
  got        \* the lines that were read

fvars == <<kind, file, writer, saves, intact, load, got>>
vars == <<fvars, cvars>>

Docs == DOMAIN Documents
Phases == {"idle", "read", "build", "held"}
Idle == [phase |-> "idle", tree |-> FALSE, overlapped |-> FALSE]

(* serialize                                                               *)
Line(part, d) == [part |-> part, doc |-> d]
Text(d) == <<Line("head", d)>> \o [n \in 1 .. Documents[d].items |-> Line("item", d)]
             \o <<Line("end", d)>>

(* Variant of Serializable with a limit that is off by one.                *)
SerializableOneMore(d) ==
  Documents[d].printable /\ (kind = "profile" => Documents[d].items <= MaxControls + 1)

(* Everything that can be refused is refused before the file is opened.    *)
Serializable(d) ==
  Documents[d].printable /\ (kind = "profile" => Documents[d].items <= MaxControls)

(* parse: one root element, of the right version, with items in it.        *)
OneRoot(lines) ==
  /\ Len(lines) >= 2
  /\ lines[1].part = "head" /\ Last(lines).part = "end"
  /\ \A n \in 2 .. Len(lines) - 1 : lines[n].part = "item"
RightVersion(lines) == kind = "list" => Documents[lines[1].doc].version = Version
FewControls(lines) == kind = "profile" => Len(lines) - 2 <= MaxControls

(* Variant of Parses that takes a document cut short.                      *)
ParsesAnyEnd(lines) ==
  /\ Len(lines) >= 2 /\ lines[1].part = "head"
  /\ RightVersion(lines) /\ FewControls(lines)

Parses(lines) == OneRoot(lines) /\ RightVersion(lines) /\ FewControls(lines)

(* list_to_c, profile_to_c: what is allocated for the lines that parsed    *)
ListOf(lines) == [n \in 1 .. Len(lines) - 2 |-> ListNode]
Structure(lines) == IF kind = "list" THEN ListOf(lines) ELSE <<ProfileNode>>

Init ==
  /\ kind \in {"profile", "list"}
  /\ file \in {<< >>} \cup {Text(d) : d \in Docs}
  /\ writer = [w \in Writers |-> 0]
  /\ saves = 0 /\ intact = 0
  /\ load = Idle /\ got = << >>
  /\ CInit

(***************************************************************************)
(* Saving                                                                  *)
(***************************************************************************)

(* Only a load that is still reading can meet a change of the file.        *)
Touched == load' = [load EXCEPT !.overlapped = @ \/ load.phase = "read"]

(* The document is refused, or the file cannot be opened: nothing changes. *)
SaveRefused(w) ==
  /\ writer[w] = 0 /\ saves < MaxSaves
  /\ saves' = saves + 1
  /\ UNCHANGED <<kind, file, writer, intact, load, got, cvars>>

(* fs::write opens with truncation, and writes in a second step.           *)
SaveOpen(w, d) ==
  /\ writer[w] = 0 /\ Serializable(d) /\ saves < MaxSaves
  /\ writer' = [writer EXCEPT ![w] = d]
  /\ file' = << >> /\ intact' = 0 /\ saves' = saves + 1
  /\ Touched
  /\ UNCHANGED <<kind, got, cvars>>

Alone(w) == \A v \in Writers \ {w} : writer[v] = 0

(* The write starts at the beginning of the file, whatever others have     *)
(* written there since it was truncated.                                   *)
SaveWrite(w) ==
  /\ writer[w] # 0
  /\ LET text == Text(writer[w]) IN
     /\ file' = text \o SubSeq(file, Len(text) + 1, Len(file))
     /\ intact' = IF file = << >> /\ Alone(w) THEN writer[w] ELSE 0
  /\ writer' = [writer EXCEPT ![w] = 0]
  /\ Touched
  /\ UNCHANGED <<kind, saves, got, cvars>>

(* The disk is full: the write stops where the file would have to grow.    *)
SaveDiskFull(w) ==
  /\ writer[w] # 0
  /\ \E k \in Len(file) .. Len(Text(writer[w])) - 1 :
       file' = SubSeq(Text(writer[w]), 1, k)
  /\ writer' = [writer EXCEPT ![w] = 0]
  /\ intact' = 0
  /\ Touched
  /\ UNCHANGED <<kind, saves, got, cvars>>

(* The process ends between the truncation and the write.                  *)
SaveCrash(w) ==
  /\ writer[w] # 0
  /\ writer' = [writer EXCEPT ![w] = 0]
  /\ intact' = 0
  /\ UNCHANGED <<kind, file, saves, load, got, cvars>>

(***************************************************************************)
(* Loading                                                                 *)
(***************************************************************************)

LoadStart ==
  /\ load.phase = "idle"
  /\ load' = [Idle EXCEPT !.phase = "read"]
  /\ got' = << >>
  /\ UNCHANGED <<kind, file, writer, saves, intact, cvars>>

(* fs::read asks for more until it is told that there is none.             *)
LoadRead ==
  /\ load.phase = "read"
  /\ \E k \in Len(got) + 1 .. Len(file) : got' = got \o SubSeq(file, Len(got) + 1, k)
  /\ UNCHANGED <<kind, file, writer, saves, intact, load, cvars>>

LoadParsed ==
  /\ load.phase = "read" /\ Len(got) >= Len(file)
  /\ Parses(got)
  /\ load' = [load EXCEPT !.phase = "build"]
  /\ StartBuild(Structure(got))
  /\ UNCHANGED <<kind, file, writer, saves, intact, got>>

LoadRefused ==
  /\ load.phase = "read" /\ Len(got) >= Len(file)
  /\ ~Parses(got)
  /\ load' = Idle /\ got' = << >>
  /\ UNCHANGED <<kind, file, writer, saves, intact, cvars>>

(* alloc_monitor, for a tree the database loader has put together          *)
CreateTree ==
  /\ load.phase = "idle"
  /\ \E tree \in Trees : StartBuild(tree)
  /\ load' = [Idle EXCEPT !.phase = "build", !.tree = TRUE]
  /\ UNCHANGED <<kind, file, writer, saves, intact, got>>

Build ==
  /\ AllocString \/ AllocKids \/ AllocNode
  /\ UNCHANGED fvars

BuildReturns ==
  /\ ReturnList
  /\ load' = IF Building' THEN load ELSE [load EXCEPT !.phase = "held"]
  /\ UNCHANGED <<kind, file, writer, saves, intact, got>>

(* Out of memory: the call fails and its output is not written.            *)
BuildFails ==
  /\ AllocFails
  /\ load' = Idle /\ got' = << >>
  /\ UNCHANGED <<kind, file, writer, saves, intact>>

(* ddcci_free_profile, ddcci_free_list, ddcci_free_db                      *)
FreeHeld ==
  /\ load.phase = "held"
  /\ IF built = {} THEN UNCHANGED cvars ELSE FreeBuilt
  /\ load' = Idle /\ got' = << >>
  /\ UNCHANGED <<kind, file, writer, saves, intact>>

Next ==
  \/ \E w \in Writers, d \in Docs : SaveOpen(w, d)
  \/ \E w \in Writers : SaveRefused(w) \/ SaveWrite(w) \/ SaveDiskFull(w) \/ SaveCrash(w)
  \/ LoadStart \/ LoadRead \/ LoadParsed \/ LoadRefused
  \/ CreateTree \/ Build \/ BuildReturns \/ BuildFails \/ FreeHeld

Spec == Init /\ [][Next]_vars

(***************************************************************************)
(* Properties                                                              *)
(***************************************************************************)

(* The variables have their types; a profile that is being converted or    *)
(* was returned fits the arrays of struct profile.                         *)
TypeOK ==
  /\ kind \in {"profile", "list"}
  /\ file \in Seq([part : {"head", "item", "end"}, doc : Docs])
  /\ got \in Seq([part : {"head", "item", "end"}, doc : Docs])
  /\ writer \in [Writers -> {0} \cup Docs]
  /\ saves \in 0 .. MaxSaves /\ intact \in {0} \cup Docs
  /\ load \in [phase : Phases, tree : BOOLEAN, overlapped : BOOLEAN]
  /\ fresh \in Nat /\ live \subseteq 1 .. fresh - 1 /\ wild \in BOOLEAN
  /\ kind = "profile" /\ load.phase \in {"build", "held"} /\ ~load.tree
       => Len(got) - 2 <= MaxControls

(* A load that no save overlapped never returns a mixture, although saves  *)
(* overlap each other, stop at a full disk and are killed half-way: what C *)
(* gets is one document, complete, of the version the program has, with    *)
(* all its blocks.  A mixture, too, fits the arrays (TypeOK).              *)
LoadedWasSaved ==
  /\ TypeOK
  /\ load.phase = "held" /\ ~load.tree /\ ~load.overlapped =>
       \E d \in Docs :
         /\ got = Text(d)
         /\ kind = "list" => Documents[d].version = Version
         /\ Cardinality(built) = IF kind = "list" THEN 3 * Documents[d].items ELSE 4

(* What a save has reported as written can be loaded again, up to the      *)
(* largest profile, unless another save overlapped it.  A list of another  *)
(* version is a document the loader must not accept.                       *)
SavedIsLoadable ==
  intact # 0 =>
    /\ file = Text(intact)
    /\ Parses(file) <=> (kind = "list" => Documents[intact].version = Version)
=============================================================================
