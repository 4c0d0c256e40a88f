---------------------------- MODULE MCScanMonitor ----------------------------
(* Instance of ScanMonitor: three codes, of which "e1" is a vendor code.   *)
EXTENDS ScanMonitor

MCAscending == <<"10", "12", "e1">>

MCBeginnings == {
  <<"(", "type", "(", "lcd", ")">>, <<"(", "model", "(", ")">>, <<"10", "type", "(">>,
  <<"?", "10", "(">>, <<"(", "vcp", "(">>, <<"vcp", "(", "10", "(">>,
  <<"vcp", "(", "12", "model", "(">> }

(* An option that is a scalar, or a list of the given values.              *)
Scalar(id, hint) == [id |-> id, name |-> id, kind |-> "value", hint |-> hint, values |-> << >>]
List(id, hint, values) == [Scalar(id, hint) EXCEPT !.kind = "list", !.values = values]
Val(id, number) == [id |-> id, named |-> TRUE, number |-> number]

MCVocabularies == <<
  (* one meaning each, one of them stated twice and one without a hint     *)
  <<Scalar("a", "10"), Scalar("a", "10"), Scalar("c", NoAddress),
    List("b", "12", <<Val("x", "10"), Val("y", "12"), Val("z", NoNumber)>>)>>,
  (* two options at an address, and a vendor address                       *)
  <<Scalar("a", "10"), Scalar("b", "10"), Scalar("c", "12"), Scalar("d", "e1")>>,
  (* an option at two addresses, and a command                             *)
  <<Scalar("a", "10"), Scalar("a", "12"),
    [Scalar("d", "12") EXCEPT !.kind = "command"]>>,
  (* a list whose values share an id                                       *)
  <<List("b", "10", <<Val("x", "10"), Val("x", "12")>>), Scalar("a", "12")>> >>

MCMonitors == <<
  [c \in {"10", "12"} |-> TRUE],
  [c \in {"10", "12", "e1"} |-> c = "12"],
  [c \in {"12"} |-> TRUE] >>
=============================================================================
