------------------------------ MODULE DbSession ------------------------------
(***************************************************************************)
(* Opening a database session, ddcci_init_db of                            *)
(* src/crates/ddccontrol-db/src/lib.rs, while the package that owns the    *)
(* files is being replaced.  The session pins what it read: the CBOR file, *)
(* or all XML files, read twice and compared, and compared with the        *)
(* manifest of digests if the package has one.                             *)
(*                                                                         *)
(* The package manager replaces the files one by one in an order of its    *)
(* own, some by renaming and some in place, and may stop half way.         *)
(***************************************************************************)
EXTENDS Integers, Sequences, FiniteSets

CONSTANTS
  Order,        \* the XML files in the order they are read, options.xml among them
  Options,      \* options.xml
  CborPath,     \* ddccontrol-db.cbor
  ManifestPath, \* ddccontrol-db.snapshot
  Revisions,    \* 1 .. the last revision of the package
  Xml,          \* [Revisions -> [XmlPaths -> contents or Absent]]
  Manifested,   \* the revisions with a manifest
  CborIn,       \* the revisions with a CBOR file
  CborOnly,     \* the revisions whose manifest prohibits the XML fallback
  MaxLoads,     \* bound: sessions opened
  Absent,       \* no such file
  None          \* no session

XmlPaths == { Order[i] : i \in DOMAIN Order }
Paths == XmlPaths \cup {CborPath, ManifestPath}

\* The files of a package; a manifest stands for the revision it describes.
Package(r, path) ==
  CASE path = CborPath     -> IF r \in CborIn THEN r ELSE Absent
    [] path = ManifestPath -> IF r \in Manifested THEN r ELSE Absent
    [] OTHER               -> Xml[r][path]

ASSUME SessionAssumption ==
  /\ IsFiniteSet(Revisions) /\ Revisions # {} /\ Revisions = 1 .. Cardinality(Revisions)
  /\ Order \in Seq(XmlPaths) /\ Absent \notin Int
  /\ Options \in XmlPaths /\ CborPath \notin XmlPaths /\ ManifestPath \notin XmlPaths
  /\ CborOnly \subseteq Manifested /\ MaxLoads \in Nat
  /\ \A r \in Revisions : /\ Xml[r][Options] # Absent
                          /\ \A p \in XmlPaths : Xml[r][p] = Absent \/ Xml[r][p] \in Nat \ {0}

\* An XML file that changes does not return to what it was.
ASSUME NoReturnAssumption ==
  \A p \in XmlPaths, q, r, s \in Revisions :
    q < r /\ r < s /\ Xml[q][p] = Xml[s][p] => Xml[r][p] = Xml[q][p]

VARIABLES
  disk,      \* what is in each file
  rev,       \* the revision being installed
  todo,      \* the files it has not replaced yet
  pc,        \* where ddcci_init_db is
  pass,      \* 1 or 2: which call of read_xml_snapshot
  names,     \* the files its directory listing found
  at,        \* the position in Order
  files,     \* what it has read
  first,     \* what the first call returned
  manifest,  \* the manifest read before the first call
  context,   \* the session: None, or what it pinned
  loads,     \* sessions opened so far
  seen       \* the XML files as they were at some time since the session was
             \* begun (history)

vars == <<disk, rev, todo, pc, pass, names, at, files, first, manifest, context, loads, seen>>
reader == <<pc, pass, names, at, files, first, manifest, context, loads>>

XmlPart(d) == [p \in { q \in XmlPaths : d[q] # Absent } |-> d[p]]
Nothing == [p \in {} |-> Absent]

-----------------------------------------------------------------------------
(* The package manager.                                                    *)

\* A file half written for revision r; whole contents are positive.
Torn(r) == -r

Put(path, value) ==
  /\ disk' = [disk EXCEPT ![path] = value]
  /\ seen' = seen \cup {XmlPart(disk')}

Upgrade ==
  /\ todo = {} /\ rev + 1 \in Revisions
  /\ rev' = rev + 1
  /\ todo' = { p \in Paths : Package(rev + 1, p) # disk[p] }
  /\ UNCHANGED <<disk, seen, reader>>

\* Copying in place begins.
Overwrite(path) ==
  /\ path \in todo
  /\ Package(rev, path) # Absent /\ disk[path] # Torn(rev)
  /\ Put(path, Torn(rev))
  /\ UNCHANGED <<rev, todo, reader>>

\* The copy is complete, or the file is renamed into place or removed.
Replace(path) ==
  /\ path \in todo
  /\ Put(path, Package(rev, path))
  /\ todo' = todo \ {path}
  /\ UNCHANGED <<rev, reader>>

-----------------------------------------------------------------------------
(* ddcci_init_db.                                                          *)

Stay == UNCHANGED <<disk, rev, todo>>

\* Return with no session.
Failed == /\ pc' = "idle"
          /\ UNCHANGED <<pass, names, at, files, first, manifest, context, loads, seen>>

\* init_db_inner: the old session is dropped first.
InitDb ==
  /\ pc = "idle" /\ loads < MaxLoads
  /\ loads' = loads + 1
  /\ context' = None
  /\ pc' = "cbor"
  /\ seen' = {XmlPart(disk)}
  /\ Stay /\ UNCHANGED <<pass, names, at, files, first, manifest>>

\* read_optional fails: an I/O error, or the file changed while it was read.
ReadError ==
  /\ pc # "idle" /\ pc # "list"
  /\ Failed /\ Stay

Pinned(source, pinned) == [source |-> source, files |-> pinned]

\* A CBOR file that is there decides: it is valid and pinned, or refused.
ReadCbor ==
  /\ pc = "cbor" /\ disk[CborPath] # Absent
  /\ IF disk[CborPath] \in Revisions
     THEN /\ context' = Pinned("cbor", XmlPart(Xml[disk[CborPath]]))
          /\ pc' = "idle"
          /\ UNCHANGED <<pass, names, at, files, first, manifest, loads, seen>>
     ELSE Failed
  /\ Stay

NoCbor ==
  /\ pc = "cbor" /\ disk[CborPath] = Absent
  /\ pc' = "manifest"
  /\ Stay /\ UNCHANGED <<pass, names, at, files, first, manifest, context, loads, seen>>

ReadManifest ==
  /\ pc = "manifest"
  /\ manifest' = disk[ManifestPath]
  /\ pc' = "list" /\ pass' = 1
  /\ Stay /\ UNCHANGED <<names, at, files, first, context, loads, seen>>

\* read_xml_snapshot, the listing.
List ==
  /\ pc = "list"
  /\ names' = {Options} \cup DOMAIN XmlPart(disk)
  /\ at' = 1 /\ files' = Nothing
  /\ pc' = "read"
  /\ Stay /\ UNCHANGED <<pass, first, manifest, context, loads, seen>>

\* read_xml_snapshot, one file after the other.
ReadFile ==
  /\ pc = "read" /\ at <= Len(Order)
  /\ LET p == Order[at] IN
     IF p \in names /\ disk[p] = Absent
     THEN Failed
     ELSE /\ files' = IF p \notin names THEN files
                      ELSE [q \in DOMAIN files \cup {p} |-> IF q = p THEN disk[p] ELSE files[q]]
          /\ at' = at + 1
          /\ UNCHANGED <<pc, pass, names, first, manifest, context, loads, seen>>
  /\ Stay

FirstRead ==
  /\ pc = "read" /\ at > Len(Order) /\ pass = 1
  /\ first' = files
  /\ pass' = 2 /\ pc' = "list"
  /\ Stay /\ UNCHANGED <<names, at, files, manifest, context, loads, seen>>

\* Variant of Unchanged that compares the profile names only.
UnchangedNames(old, new) == DOMAIN old = DOMAIN new

\* files != read_xml_snapshot(datadir)?
Unchanged(old, new) == old = new

\* Variant of Verified that checks the file set and not the digests.
VerifiedNames(m, read) ==
  m # Absent => m \in Revisions \ CborOnly /\ DOMAIN read = DOMAIN XmlPart(Xml[m])

\* verify_manifest: the fallback is allowed, and the file set and every
\* digest are those of the manifest.  Without a manifest all is well.
Verified(m, read) ==
  m # Absent => m \in Revisions \ CborOnly /\ read = XmlPart(Xml[m])

\* The comparisons after the second call, and the result.
SecondRead ==
  /\ pc = "read" /\ at > Len(Order) /\ pass = 2
  /\ IF /\ Unchanged(first, files)
        /\ manifest = disk[ManifestPath]
        /\ Verified(manifest, files)
     THEN /\ context' = Pinned("xml", files)
          /\ pc' = "idle"
          /\ UNCHANGED <<pass, names, at, files, first, manifest, loads, seen>>
     ELSE Failed
  /\ Stay

Init ==
  /\ rev = 1 /\ todo = {}
  /\ disk = [p \in Paths |-> Package(1, p)]
  /\ pc = "idle" /\ pass = 1 /\ at = 1
  /\ names = {} /\ files = Nothing /\ first = Nothing
  /\ manifest = Absent /\ context = None /\ loads = 0
  /\ seen = {}

Next ==
  \/ Upgrade
  \/ \E path \in Paths : Overwrite(path) \/ Replace(path)
  \/ InitDb \/ ReadError \/ ReadCbor \/ NoCbor \/ ReadManifest
  \/ List \/ ReadFile \/ FirstRead \/ SecondRead

Spec == Init /\ [][Next]_vars

-----------------------------------------------------------------------------
TypeOK ==
  /\ rev \in Revisions /\ todo \subseteq Paths
  /\ pc \in {"idle", "cbor", "manifest", "list", "read"} /\ pass \in {1, 2}
  /\ names \subseteq XmlPaths /\ DOMAIN files \subseteq names
  /\ at \in 1 .. Len(Order) + 1
  /\ context # None => pc = "idle"

\* What a session pinned from XML was on disk, all of it, at one moment
\* while the session was opened: reading twice makes a snapshot of files that
\* are replaced one by one, also of the set of their names.
PinnedAtOnce ==
  /\ TypeOK
  /\ context # None /\ context.source = "xml" => context.files \in seen

\* The files of the session are those of one revision, and from XML never of
\* one whose manifest prohibits it.
OneRevision ==
  \E r \in Revisions : /\ context.files = XmlPart(Xml[r])
                       /\ context.source = "xml" => r \notin CborOnly

\* A session that found a manifest (or a CBOR file) pins one revision,
\* wherever the replacement of the package is or has stopped.
VerifiedRevision ==
  context # None /\ (context.source = "xml" => manifest # Absent) => OneRevision
=============================================================================
