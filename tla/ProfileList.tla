----------------------------- MODULE ProfileList -----------------------------
(***************************************************************************)
(* The profiles of a monitor: the linked list mon->profiles, the files in  *)
(* ~/.ddccontrol/profiles behind it (src/src/lib/conf.c), and the profile  *)
(* manager that works on both (src/src/gddccontrol/gprofile.c).  The       *)
(* buttons of the manager hold pointers into the list.                     *)
(*                                                                         *)
(* A profile stands for its structure and for its file.  Other processes   *)
(* may remove a file at any time.  Following a pointer to freed memory is  *)
(* undefined: a behaviour ends there.                                      *)
(***************************************************************************)
EXTENDS Sequences, FiniteSets, SequencesExt

CONSTANTS
  Profiles,   \* the profiles that exist or may be created
  NULL

ASSUME ProfileAssumption == NULL \notin Profiles /\ IsFiniteSet(Profiles)

VARIABLES
  open,      \* the monitor is open
  list,      \* mon->profiles, in the order of the next pointers
  freed,     \* structures that were freed
  disk,      \* the profiles that have a file
  used,      \* the profiles whose structure was allocated
  pending,   \* the profile whose "new profile" dialog is open, or NULL
  buttons,   \* the profiles the buttons of the manager point to
  stored     \* saved or loaded, and not deleted by the user (history)

listVars == <<open, list, freed, disk, used, pending, buttons, stored>>

Listed == ToSet(list)

\* The listed structures are live: the next handler may walk the list.
Sound == Listed \cap freed = {}

\* ddcci_open or ddcci_dbus_open, then ddcci_get_all_profiles: the files in
\* the order of readdir, without those that cannot be read.
ListInit ==
  /\ open = TRUE
  /\ disk \in SUBSET Profiles
  /\ \E readable \in SUBSET disk : list \in SetToSeqs(readable)
  /\ freed = {}
  /\ used = disk
  /\ pending = NULL
  /\ buttons = Listed
  /\ stored = Listed

\* A handler of the main window: no modal dialog is open.
Handler == open /\ pending = NULL /\ Sound

\* saveprofile_callback: ddcci_create_profile, then the dialog.
Create(p) ==
  /\ Handler
  /\ p \notin used
  /\ used' = used \cup {p}
  /\ pending' = p
  /\ UNCHANGED <<open, list, freed, disk, buttons, stored>>

\* Variant of Linked that appends without looking.
LinkedAgain(p) == Append(list, p)

\* ddcci_save_profile: appended unless it is in the list.
Linked(p) == IF p \in Listed THEN list ELSE Append(list, p)

\* refresh_profile_manager: new buttons, made by walking the list.
Refreshed == ToSet(list')

\* The file is written, the list updated and the manager refreshed.
Save(p) ==
  /\ disk' = disk \cup {p}
  /\ list' = Linked(p)
  /\ buttons' = Refreshed
  /\ stored' = stored \cup {p}

\* show_profile_information of a new profile, "Save profile".
SaveNew ==
  /\ pending # NULL
  /\ Save(pending)
  /\ pending' = NULL
  /\ UNCHANGED <<open, freed, used>>

\* "Abort creating profile", or the file cannot be written: the structure
\* is neither listed nor freed.
Abort ==
  /\ pending # NULL
  /\ pending' = NULL
  /\ UNCHANGED <<open, list, freed, disk, used, buttons, stored>>

\* show_profile_information of a listed profile, "Rename profile".
Rename(p) ==
  /\ Handler /\ p \in buttons
  /\ Save(p)
  /\ UNCHANGED <<open, freed, used, pending>>

Place(p) == CHOOSE i \in DOMAIN list : list[i] = p

\* Variant of Unlinked: *profileptr = NULL.
UnlinkedTail(p) == SubSeq(list, 1, Place(p) - 1)

\* *profileptr = profile->next
Unlinked(p) == RemoveAt(list, Place(p))

\* ddcci_free_profile(profile) frees the profiles behind it first.
FreedWith(p) == ToSet(SubSeq(list, Place(p), Len(list)))

\* delete_callback: unlink, take it out of the list, free it, refresh.  The
\* profile is always in the list: the buttons are made from it.
Delete(p) ==
  /\ Handler /\ p \in buttons
  /\ p \in disk
  /\ disk' = disk \ {p}
  /\ list' = Unlinked(p)
  /\ freed' = freed \cup FreedWith(p)
  /\ buttons' = Refreshed
  /\ stored' = stored \ {p}
  /\ UNCHANGED <<open, used, pending>>

\* unlink fails, because the file is gone or for lack of permission: the
\* profile stays, and the manager is refreshed.
DeleteFails(p) ==
  /\ Handler /\ p \in buttons
  /\ list' = list
  /\ buttons' = Refreshed
  /\ UNCHANGED <<open, freed, disk, used, pending, stored>>

\* ddcci_close frees the list; dbus_monitor_close forgets it.
Close ==
  /\ Handler
  /\ open' = FALSE
  /\ list' = <<>>
  /\ freed' = freed \cup Listed \/ UNCHANGED freed
  /\ buttons' = {}
  /\ stored' = {}
  /\ UNCHANGED <<disk, used, pending>>

\* Another process.
FileVanishes(p) ==
  /\ p \in disk
  /\ disk' = disk \ {p}
  /\ UNCHANGED <<open, list, freed, used, pending, buttons, stored>>

ListNext ==
  \/ \E p \in Profiles : Create(p) \/ Rename(p) \/ Delete(p) \/ DeleteFails(p) \/ FileVanishes(p)
  \/ SaveNew \/ Abort \/ Close

ListSpec == ListInit /\ [][ListNext]_listVars

-----------------------------------------------------------------------------
ListTypeOK ==
  /\ open \in BOOLEAN
  /\ list \in Seq(Profiles)
  /\ freed \subseteq used /\ disk \subseteq used /\ used \subseteq Profiles
  /\ buttons \subseteq Profiles
  /\ pending # NULL => pending \in used \ Listed

\* The list never runs into itself, although a profile is saved again under
\* a new name and saving appends.
ListedOnce == IsInjective(list)

\* What was loaded or saved and not deleted is in the list, whichever
\* deletions failed and whichever files other processes removed.
StoredIsListed == stored \subseteq Listed

\* While nothing that is listed was freed, no button applies, renames or
\* deletes a profile that is not listed, whether one was deleted or its
\* deletion failed.  After a deletion that freed the tail,
\* refresh_profile_manager has walked freed memory, and nothing is said.
ButtonsListed == Sound => buttons \subseteq Listed

\* The list has each profile once, however often profiles are saved again
\* under new names, and until a deletion frees listed profiles the manager
\* shows listed ones only.  That what is listed is live is not part of it:
\* that is OthersSurvive, which ddcci_delete_profile violates.
ListConsistent == ListTypeOK /\ ListedOnce /\ ButtonsListed

\* conf.h: "Delete a stored profile and unlink it from monitor profile
\* list": the other profiles are still there for refresh_profile_manager.
OthersSurvive == Sound
=============================================================================
