----------------------------- MODULE MCMonitorDb -----------------------------
(* Profiles A and B over the addresses "10" and "12".  A has up to two     *)
(* children of five kinds, or one of the Longer lists; B has one or two;    *)
(* includes may form cycles.  Options: x, an option s whose availability   *)
(* varies, and y.                                                          *)
EXTENDS MonitorDb

El(id, addr, req) == [tag |-> "control", id |-> id, address |-> addr, required |-> req,
                      delay |-> TRUE, values |-> << >>]
Controls(es) == [tag |-> "controls", required |-> FALSE, strange |-> FALSE, elements |-> es]
Edit(codes) == [ok |-> TRUE, type |-> "none",
                items |-> [i \in DOMAIN codes |-> [code |-> codes[i], values |-> AllValues]]]
Include(id) == [tag |-> "include", required |-> FALSE, file |-> id]
Caps(r, a) == [tag |-> "caps", required |-> FALSE, remove |-> r, add |-> a]

Plain    == Controls(<<El("x", "10", FALSE)>>)
Two      == Controls(<<El("y", "10", FALSE), El("x", "12", FALSE)>>)
Shared   == Controls(<<El("s", "10", FALSE), El("y", "12", FALSE)>>)
Needs    == Controls(<<El("z", "10", TRUE)>>)
NeedsBad == Controls(<<El("z", NoAddress, TRUE)>>)
SharedBad == Controls(<<El("s", NoAddress, FALSE)>>)
Odd      == Controls(<<El("u", "10", FALSE)>>)
BadValue == Controls(<<[El("x", "12", FALSE) EXCEPT !.values = <<[id |-> "v", number |-> FALSE]>>]>>)
Strange  == [Controls(<< >>) EXCEPT !.strange = TRUE]
Other    == [tag |-> "other", required |-> FALSE]
Unknown  == [tag |-> "other", required |-> TRUE]

AKids == <<Plain, Two, Shared, Needs, Include("B")>>
Longer == <<
  <<Caps(NoEdit, Edit(<<"10", "12">>)), Two>>, <<Other, Plain>>, <<Unknown>>, <<Plain, Unknown>>,
  <<Include("B"), Caps(Edit(<<"10">>), Edit(<<"12">>)), Two>>,
  <<Caps(NoEdit, Edit(<<"10">>)), Needs, Include("B")>>,
  <<Plain, Include("B"), Include("B")>>, <<Caps(Edit(<<"10">>), NoEdit), Include("B")>>,
  <<SharedBad>>, <<NeedsBad>>, <<Strange>>, <<Odd>>, <<BadValue>>, <<Plain, NeedsBad>>,
  <<Include(NoId)>>, <<Caps(NoEdit, NoEdit)>>, <<Caps(Edit(<< >>), NoEdit), Plain>> >>
BKids == << <<Two>>, <<Needs>>, <<Include("A")>>, <<Caps(Edit(<<"12">>), NoEdit), Shared>> >>

Profile(kids) == [required |-> FALSE, named |-> TRUE, init |-> "standard", deprecated |-> FALSE,
                  kids |-> kids]
Option(id, needs, command, values) ==
  [id |-> id, unavailable |-> needs, valid |-> ~needs, command |-> command, values |-> values]
Opts(s) == [bad |-> FALSE, controls |-> << Option("x", FALSE, FALSE, {[id |-> "v", named |-> TRUE]}),
                                           Option("s", s, FALSE, {}), Option("y", FALSE, TRUE, {}) >>]
Db(s, a, b) == [options |-> Opts(s), profiles |-> [i \in Ids |-> IF i = "A" THEN a ELSE b]]

Pairs == [n \in 1 .. Len(AKids) * Len(AKids) |->
            <<AKids[((n - 1) \div Len(AKids)) + 1], AKids[((n - 1) % Len(AKids)) + 1]>>]
ALists == << << >> >> \o [n \in DOMAIN AKids |-> <<AKids[n]>>] \o Pairs \o Longer
Made == [n \in 1 .. 2 * Len(ALists) * Len(BKids) |->
          LET rest == (n - 1) \div 2
          IN  Db(n % 2 = 0, Profile(ALists[(rest \div Len(BKids)) + 1]),
                            Profile(BKids[(rest % Len(BKids)) + 1]))]
Special ==
  << Db(FALSE, Profile(<<Include("B"), Plain>>), Missing),
     Db(FALSE, Profile(<<Include("B"), Plain>>), Broken),
     Db(FALSE, Profile(<<Include("B"), Plain>>), [Profile(<<Plain>>) EXCEPT !.required = TRUE]),
     Db(FALSE, Profile(<<Include("B"), Plain>>), [Profile(<<Plain>>) EXCEPT !.named = FALSE]),
     Db(FALSE, Profile(<<Include("B"), Plain>>), [Profile(<<Plain>>) EXCEPT !.init = "invalid"]),
     Db(FALSE, Profile(<<Include("B"), Plain>>), [Profile(<<Plain>>) EXCEPT !.deprecated = TRUE]),
     Db(FALSE, [Profile(<<Plain, Other>>) EXCEPT !.init = "unknown"], Profile(<<Plain>>)),
     [Db(FALSE, Profile(<<Plain>>), Profile(<<Plain>>)) EXCEPT !.options.bad = TRUE],
     [Db(FALSE, Profile(<<Plain>>), Profile(<<Plain>>)) EXCEPT !.options.controls[1].valid = FALSE],
     Db(FALSE, [Profile(<<Include("B")>>) EXCEPT !.init = "invalid", !.deprecated = TRUE], Profile(<<Plain>>)) >>
MCDatabases == Made \o Special

MCFiles == {[id |-> "A", root |-> r] : r \in
             {Profile(<<Plain, Include("A")>>), Profile(<<Include("B"), Needs>>),
              [Profile(<<Plain>>) EXCEPT !.init = "unknown"]}}
MCHeld == {NoCaps, [type |-> "lcd", vcp |-> [c \in {"10", "12"} |-> AllValues]]}
=============================================================================
