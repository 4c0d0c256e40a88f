---------------------------- MODULE ProfileSelect ----------------------------
(***************************************************************************)
(* Which database profile a monitor gets: the chain of three attempts that *)
(* ddcci_open_with_addr makes (src/src/lib/ddcci.c) and its copy in        *)
(* ddcci_dbus_open (src/src/daemon/dbus_client.c).                         *)
(*                                                                         *)
(* A database is a function from the three profile names tried for one     *)
(* monitor to what ddcci_create_db makes of each: a profile with standard  *)
(* or Samsung initialisation, NULL ("absent"), or NULL with                *)
(* ddcci_db_requirements_failed() ("required").                            *)
(***************************************************************************)
EXTENDS Integers

Names == {"pnp", "mfr", "vesa"}    \* DEL4091, DELlcd or DELcrt, VESA
Outcome == {"standard", "samsung", "absent", "required"}
Database == [Names -> Outcome]

Loaded(o) == o \in {"standard", "samsung"}

Choice(db, name, fallback) == [db |-> db, name |-> name, fallback |-> fallback]
Chosen(load, name, fallback) == Choice(load[name], name, fallback)

\* No profile, mon->fallback = -1, and ddcci_open returns -1.
Refused == Choice("none", "none", -1)

\* No profile, and the monitor is opened nevertheless.
NoProfile == Choice("none", "none", 2)

\* switch (mon->caps.type): no manufacturer profile for an unknown type.
Manufacturer(load, type) == IF type = "unk" THEN "absent" ELSE load["mfr"]

\* Variant of DirectSelect that forgets the check after the manufacturer
\* profile.
LaxDirectSelect(load, type, named) ==
  IF Loaded(load["pnp"]) THEN Chosen(load, "pnp", 0)
  ELSE IF named \/ load["pnp"] = "required" THEN Refused
  ELSE IF Loaded(Manufacturer(load, type)) THEN Chosen(load, "mfr", 1)
  ELSE IF Loaded(load["vesa"]) THEN Chosen(load, "vesa", 2)
  ELSE IF load["vesa"] = "required" THEN Refused
  ELSE NoProfile

\* ddcci_open_with_addr; named: ddcci_monitor_file_matches(mon->pnpid).
DirectSelect(load, type, named) ==
  IF Loaded(load["pnp"]) THEN Chosen(load, "pnp", 0)
  ELSE IF named \/ load["pnp"] = "required" THEN Refused
  ELSE IF Loaded(Manufacturer(load, type)) THEN Chosen(load, "mfr", 1)
  ELSE IF Manufacturer(load, type) = "required" THEN Refused
  ELSE IF Loaded(load["vesa"]) THEN Chosen(load, "vesa", 2)
  ELSE IF load["vesa"] = "required" THEN Refused
  ELSE NoProfile

\* ddcci_dbus_open: the same chain without the checks.
ClientSelect(load, type) ==
  IF Loaded(load["pnp"]) THEN Chosen(load, "pnp", 0)
  ELSE IF Loaded(Manufacturer(load, type)) THEN Chosen(load, "mfr", 1)
  ELSE IF Loaded(load["vesa"]) THEN Chosen(load, "vesa", 2)
  ELSE NoProfile

\* The profiles tried before the one chosen.
Passed(choice, type) ==
  IF choice.name = "pnp" THEN {}
  ELSE IF choice.name = "mfr" \/ type = "unk" THEN {"pnp"} ELSE {"pnp", "mfr"}

\* monitor_db_internal.h: "A required feature failure must never fall through
\* to generic profiles."
Bypasses(load, choice, type) ==
  /\ choice.db # "none"
  /\ \E name \in Passed(choice, type) : load[name] = "required"
=============================================================================
