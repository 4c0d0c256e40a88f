---------------------------- MODULE MCDbSession ----------------------------
(* options.xml and two profiles, over three revisions: the second changes  *)
(* options.xml and adds a profile, the third changes one profile and       *)
(* removes the other.                                                      *)
EXTENDS DbSession

CONSTANTS options, a, b

MCOrder == <<a, b, options>>   \* "monitor/..." sorts before "options.xml"
MCRevisions == 1 .. 3
MCXml == << [p \in XmlPaths |-> CASE p = options -> 1 [] p = a -> 1 [] p = b -> Absent],
            [p \in XmlPaths |-> CASE p = options -> 2 [] p = a -> 1 [] p = b -> 2],
            [p \in XmlPaths |-> CASE p = options -> 2 [] p = a -> Absent [] p = b -> 3] >>
=============================================================================
