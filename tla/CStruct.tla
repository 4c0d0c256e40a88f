------------------------------- MODULE CStruct -------------------------------
(***************************************************************************)
(* How the Rust library builds structures that C owns: monitor trees, user *)
(* profiles, monitor lists.  Every string and every struct is a malloc of  *)
(* its own, any of which may fail, and C gets the whole structure or NULL. *)
(*                                                                         *)
(* A structure is a list of nodes [strings, kids]: the strings of a node   *)
(* are allocated, then the list of its kids, then its struct.  (In a       *)
(* monitor list the struct comes before the strings and is linked at once; *)
(* what is freed on a failure is the same.)  frames is the stack of the    *)
(* alloc_* functions: for the list being built, the node it is at, the     *)
(* blocks of that node, the list returned for its kids, and the blocks of  *)
(* the nodes before it, reachable from head.                               *)
(***************************************************************************)
EXTENDS Naturals, SequencesExt

CONSTANT NoList     \* the kids of a node have not been built yet

VARIABLES
  frames,    \* activations of alloc_*, innermost last
  live,      \* blocks malloc has handed out and free has not got back
  fresh,     \* the next block
  wild,      \* free was called for a block that is not live
  built      \* blocks of the structure C holds, {} for NULL

cvars == <<frames, live, fresh, wild, built>>

Node(strings, kids) == [strings |-> strings, kids |-> kids]
ValueNode == Node(2, << >>)
ControlNode(values) == Node(2, values)
SubgroupNode(pattern, controls) == Node(IF pattern THEN 2 ELSE 1, controls)
GroupNode(subgroups) == Node(1, subgroups)
MonitorNode(groups) == Node(1, groups)
ProfileNode == Node(3, << >>)
ListNode == Node(2, << >>)

CInit == frames = << >> /\ live = {} /\ fresh = 1 /\ wild = FALSE /\ built = {}

Frame(nodes) == [list |-> nodes, at |-> 1, own |-> {}, kids |-> NoList, head |-> {}]
Inner == frames[Len(frames)]
Current == Inner.list[Inner.at]
Building == frames # << >>
ListDone == Inner.at > Len(Inner.list)
Update(f) == frames' = [frames EXCEPT ![Len(frames)] = f]

(* free of a set of blocks, each once                                      *)
FreeAll(blocks) ==
  /\ live' = live \ blocks
  /\ wild' = (wild \/ ~(blocks \subseteq live))

StartBuild(nodes) ==
  /\ ~Building /\ built = {}
  /\ frames' = <<Frame(nodes)>>
  /\ UNCHANGED <<live, fresh, wild, built>>

(* c_bytes, c_string                                                       *)
AllocString ==
  /\ Building /\ ~ListDone /\ Cardinality(Inner.own) < Current.strings
  /\ Update([Inner EXCEPT !.own = @ \cup {fresh}])
  /\ live' = live \cup {fresh} /\ fresh' = fresh + 1
  /\ UNCHANGED <<wild, built>>

AllocKids ==
  /\ Building /\ ~ListDone
  /\ Cardinality(Inner.own) = Current.strings /\ Inner.kids = NoList
  /\ frames' = Append(frames, Frame(Current.kids))
  /\ UNCHANGED <<live, fresh, wild, built>>

AllocNode ==
  /\ Building /\ ~ListDone /\ Inner.kids # NoList
  /\ Update([Inner EXCEPT !.at = @ + 1, !.own = {}, !.kids = NoList,
                          !.head = @ \cup Inner.own \cup Inner.kids \cup {fresh}])
  /\ live' = live \cup {fresh} /\ fresh' = fresh + 1
  /\ UNCHANGED <<wild, built>>

(* The list is complete: its head goes to the caller.                      *)
ReturnList ==
  /\ Building /\ ListDone
  /\ IF Len(frames) = 1
     THEN frames' = << >> /\ built' = Inner.head
     ELSE /\ frames' = [Front(frames) EXCEPT ![Len(frames) - 1].kids = Inner.head]
          /\ UNCHANGED built
  /\ UNCHANGED <<live, fresh, wild>>

(* Variant of Dropped that forgets the kids.                               *)
DroppedHere(f) == f.own \cup f.head

(* What an activation frees before it returns None: its node so far, the   *)
(* list of its kids if that was built, and the nodes before.               *)
Dropped(f) == f.own \cup f.head \cup IF f.kids = NoList THEN {} ELSE f.kids

(* malloc fails: every activation frees its part and returns None to the   *)
(* one that called it, up to the outermost.                                *)
AllocFails ==
  /\ Building /\ ~ListDone
  /\ Cardinality(Inner.own) < Current.strings \/ Inner.kids # NoList
  /\ FreeAll(UNION {Dropped(frames[n]) : n \in DOMAIN frames})
  /\ frames' = << >> /\ fresh' = 1
  /\ UNCHANGED built

(* ddcci_free_db, ddcci_free_profile, ddcci_free_list                      *)
FreeBuilt ==
  /\ ~Building /\ built # {}
  /\ FreeAll(built) /\ built' = {} /\ fresh' = 1
  /\ UNCHANGED frames

(* No block is lost and none is freed twice, wherever malloc fails: what   *)
(* is live is held by C or by an activation, and by one only, in one place.*)
HeldBlocks == built \cup UNION {Dropped(frames[n]) : n \in DOMAIN frames}
HeldApart(f) ==
  f.own \cap f.head = {} /\ (f.kids # NoList => f.kids \cap (f.own \cup f.head) = {})
HeldOnce ==
  /\ \A n \in DOMAIN frames : HeldApart(frames[n])
  /\ \A m, n \in DOMAIN frames : m # n => Dropped(frames[m]) \cap Dropped(frames[n]) = {}
MemoryAccounted == live = HeldBlocks /\ HeldOnce /\ ~wild
=============================================================================
