------------------------------ MODULE CapsText ------------------------------
(***************************************************************************)
(* ddccontrol-caps: the parser of capability strings and the edits that    *)
(* the <caps> elements of profiles make with them.                         *)
(*                                                                         *)
(* A string is a sequence of tokens separated by white space: "(", ")",    *)
(* names ("vcp", "type", "lcd", "crt", or a Word), two-digit hexadecimal   *)
(* numbers (Hex, which are names too outside a vcp group) and Junk, which  *)
(* is none of these.  "crt" begins like a number, so a vcp group takes it  *)
(* for a malformed code.  The recursive descent of the parser is a stack   *)
(* of modes, moved by one token at a time.                                 *)
(*                                                                         *)
(* A capability set is [type, vcp]: vcp maps the codes to their values,    *)
(* where the empty set is the None of the code, "all values".  An empty    *)
(* list of values is read as None, and an entry whose last value is        *)
(* removed is removed, so no other empty set arises.                       *)
(***************************************************************************)
EXTENDS SequencesExt

CONSTANTS
  Hex,    \* tokens that are two hexadecimal digits
  Word,   \* tokens that are other names and begin with no hexadecimal digit
  Junk    \* tokens that are neither names nor parentheses

AllValues == {}
NoCaps == [type |-> "unknown", vcp |-> << >>]
Types == {"lcd", "crt"}

Names == Hex \cup Word \cup Types \cup {"vcp", "type"}
Tokens == Names \cup Junk \cup {"(", ")"}

-----------------------------------------------------------------------------
(* The parser.  "last" is the name or code a "(" would belong to.          *)

Start == [stack |-> <<"top">>, last |-> "none", items |-> << >>, type |-> "none", ok |-> TRUE]
Mode(s) == Last(s.stack)

Failed(s) == [s EXCEPT !.ok = FALSE]
Push(s, mode) == [s EXCEPT !.stack = Append(@, mode), !.last = "none"]
Pop(s) == [s EXCEPT !.stack = Front(@), !.last = "none"]
After(s, token) == [s EXCEPT !.last = token]

ParseSections(s, token) ==
  CASE token = "(" -> Push(s, CASE s.last = "type" -> "type_start"
                                [] s.last = "vcp"  -> "vcp"
                                [] s.last = "none" -> "paren"
                                [] OTHER           -> "skip")
    [] token = ")" -> IF Mode(s) = "paren" THEN Pop(s) ELSE Failed(s)
    [] OTHER       -> After(s, IF token \in Names THEN token ELSE "none")

(* A name in a vcp group must be that of a group; a code may have values.  *)
ParseVcp(s, token) ==
  LET named == s.last \notin Hex \cup {"none"} IN
  CASE token = "(" -> IF s.last = "none" THEN Failed(s)
                      ELSE Push(s, IF s.last \in Hex THEN "values"
                                   ELSE IF s.last = "vcp" THEN "vcp" ELSE "skip")
    [] named /\ token # "(" -> Failed(s)
    [] token = ")" -> Pop(s)
    [] token \in Hex ->
         [After(s, token) EXCEPT !.items = Append(@, [code |-> token, values |-> AllValues])]
    [] token \in Names \ (Hex \cup {"crt"}) -> After(s, token)
    [] OTHER -> Failed(s)

ParseVcpValues(s, token) ==
  CASE token = ")" -> Pop(s)
    [] token = "(" -> Push(s, "skip")
    [] token \in Hex ->
         [s EXCEPT !.items[Len(s.items)].values = @ \cup {token}]
    [] OTHER -> Failed(s)

(* Variant of SkipBalanced: the first parenthesis closes the section.      *)
SkipUncounted(s, token) == IF token = ")" THEN Pop(s) ELSE s

SkipBalanced(s, token) ==
  CASE token = "(" -> Push(s, "skip")
    [] token = ")" -> Pop(s)
    [] OTHER       -> s

(* The first token of a type group is its value, even when it is "(".      *)
ParseType(s, token) ==
  IF token = ")" THEN Pop(s)
  ELSE [s EXCEPT !.stack[Len(s.stack)] = "type",
                 !.type = IF token \in Types THEN token ELSE @]

ParseToken(s, token) ==
  CASE ~s.ok -> s
    [] s.ok /\ Mode(s) \in {"top", "paren"}  -> ParseSections(s, token)
    [] s.ok /\ Mode(s) = "vcp"               -> ParseVcp(s, token)
    [] s.ok /\ Mode(s) = "values"            -> ParseVcpValues(s, token)
    [] s.ok /\ Mode(s) = "type_start"        -> ParseType(s, token)
    [] s.ok /\ Mode(s) \in {"type", "skip"}  -> SkipBalanced(s, token)

(* What Parser::parse returns at the end of the text: items in order and a *)
(* type, or an error.                                                      *)
Parsed(s) == [ok |-> s.ok /\ s.stack = <<"top">>, items |-> s.items, type |-> s.type]

-----------------------------------------------------------------------------
(* Caps::apply, over all items of an edit.  The last item for a code is    *)
(* the one that stays; a removal takes the values of all its items for a   *)
(* code, and the entry when one names no values, the entry stood for all   *)
(* values, or none is left.                                                *)

ItemsFor(items, code) == {i \in DOMAIN items : items[i].code = code}
Codes(items) == {items[i].code : i \in DOMAIN items}

ApplyAdd(caps, parsed) ==
  [type |-> IF parsed.type = "none" THEN caps.type ELSE parsed.type,
   vcp  |-> [c \in DOMAIN caps.vcp \cup Codes(parsed.items) |->
               IF c \in Codes(parsed.items) THEN parsed.items[Max(ItemsFor(parsed.items, c))].values
               ELSE caps.vcp[c]]]

Kept(vcp, items, c) == vcp[c] \ UNION {items[i].values : i \in ItemsFor(items, c)}
Stays(vcp, items, c) ==
  \/ ItemsFor(items, c) = {}
  \/ /\ \A i \in ItemsFor(items, c) : items[i].values # AllValues
     /\ Kept(vcp, items, c) # {}

ApplyRemove(caps, parsed) ==
  [caps EXCEPT !.vcp = [c \in {d \in DOMAIN @ : Stays(@, parsed.items, d)} |->
                          Kept(@, parsed.items, c)]]
=============================================================================
