-------------------------- MODULE MCControlAccess --------------------------
(* Two controls with different maxima, so that a reply about the wrong one *)
(* would show, and one operation of each kind.                             *)
EXTENDS ControlAccess

CONSTANTS brightness, contrast

Op(kind, items) == [kind |-> kind, items |-> items]
On(c, arg) == [ctrl |-> c, arg |-> arg]

MCMaximum == [c \in Controls |-> IF c = brightness THEN 2 ELSE 1]
MCGarbage == {3}

MCOps == { Op("look", <<On(contrast, 0)>>),
           Op("set", <<On(contrast, 0)>>),
           Op("relative", <<On(brightness, -1)>>),
           Op("relative", <<On(contrast, 1)>>),
           Op("toggle", <<On(contrast, <<0, 1>>)>>),
           Op("apply", <<On(brightness, 0), On(contrast, 0)>>) }
=============================================================================
