--------------------------- MODULE DbSessionProofs ---------------------------
(***************************************************************************)
(* Proofs about DbSession, for every package of any number of files and    *)
(* revisions and for any number of sessions.                               *)
(*                                                                         *)
(* Reading everything twice makes a snapshot because a file that changes   *)
(* does not return to what it was.  The argument needs that fact of the    *)
(* files on disk, half written ones included: a content that was replaced  *)
(* is Gone.  All of the first call comes before all of the second one, so  *)
(* a file that was the same to both was so in between.                     *)
(***************************************************************************)
EXTENDS DbSession, FiniteSetTheorems, TLAPS

\* What a set of files says of one of them.
Val(m, p) == IF p \in DOMAIN m THEN m[p] ELSE Absent

\* m is a set of files that exist.
Partial(m) ==
  /\ DOMAIN m \subseteq XmlPaths
  /\ m = [p \in DOMAIN m |-> m[p]]
  /\ \A p \in DOMAIN m : m[p] # Absent

\* The file does not hold v and never will.
Gone(p, v) ==
  /\ disk[p] # v
  /\ p \in todo => v # Xml[rev][p] /\ v # Torn(rev)
  /\ \A r \in Revisions : r > rev => v # Xml[r][p] /\ v # Torn(r)

\* A file is of the revision being installed, or to be replaced: it is then
\* of the one before, or half written.
DiskInv ==
  /\ rev \in Revisions /\ todo \subseteq Paths /\ DOMAIN disk = Paths
  /\ \A p \in XmlPaths \ todo : disk[p] = Xml[rev][p]
  /\ \A p \in XmlPaths \cap todo : /\ rev - 1 \in Revisions
                                   /\ Xml[rev - 1][p] # Xml[rev][p]
                                   /\ disk[p] \in {Xml[rev - 1][p], Torn(rev)}

\* The call of read_xml_snapshot that runs is through with the file.
Through(p) == p \notin names \/ p \in DOMAIN files

\* The files read so far are those of names before position at.
ReadInv ==
  /\ Partial(files) /\ Partial(first)
  /\ \A i \in 1 .. Len(Order) : pc = "read" /\ i < at => Through(Order[i])

\* What the first call has read is still there, or gone for good.
FirstInv ==
  pc = "read" /\ pass = 1 =>
    \A p \in XmlPaths : Through(p) => Val(files, p) = disk[p] \/ Gone(p, Val(files, p))

\* m was on disk between the calls.
Between(m) ==
  \A p \in XmlPaths :
    /\ Val(first, p) = Val(m, p) \/ Gone(p, Val(first, p))
    /\ pc = "read" /\ Through(p) /\ Val(files, p) = Val(first, p) => Val(first, p) = Val(m, p)

SecondInv == pc \in {"list", "read"} /\ pass = 2 => \E m \in seen : Between(m)

SeenInv ==
  /\ \A m \in seen : Partial(m)
  /\ pc # "idle" => XmlPart(disk) \in seen

IndInv ==
  /\ TypeOK /\ DiskInv /\ SeenInv /\ ReadInv /\ FirstInv /\ SecondInv
  /\ PinnedAtOnce /\ VerifiedRevision

-----------------------------------------------------------------------------
(* Revisions, packages and sets of files.                                  *)

LEMMA RevisionsAreInts ==
  /\ 1 \in Revisions
  /\ \A r \in Revisions : r \in Int /\ r >= 1
  /\ \A r \in Revisions : r = 1 \/ r - 1 \in Revisions
<1>1. Cardinality(Revisions) \in Nat
  BY SessionAssumption, FS_CardinalityType
<1>2. \E r \in Revisions : TRUE
  BY SessionAssumption
<1>3. QED
  BY <1>1, <1>2, SessionAssumption

LEMMA PackageOfXml == \A r : \A p \in XmlPaths : Package(r, p) = Xml[r][p]
BY SessionAssumption, Zenon DEF Package

\* A whole file is never like a half written one.
LEMMA TornIsNotWhole ==
  \A p \in XmlPaths, q, r \in Revisions : /\ Xml[q][p] # Torn(r)
                                          /\ Torn(q) = Torn(r) => q = r
<1> SUFFICES ASSUME NEW p \in XmlPaths, NEW q \in Revisions, NEW r \in Revisions
             PROVE  Xml[q][p] # Torn(r) /\ (Torn(q) = Torn(r) => q = r)
  OBVIOUS
<1>1. q \in Int /\ r \in Int /\ r >= 1
  BY RevisionsAreInts
<1>2. Xml[q][p] = Absent \/ Xml[q][p] \in Nat \ {0}
  BY SessionAssumption
<1>3. Absent \notin Int
  BY SessionAssumption
<1>4. QED
  BY <1>1, <1>2, <1>3 DEF Torn

LEMMA PartOfDisk ==
  /\ Partial(XmlPart(disk))
  /\ \A p \in XmlPaths : Val(XmlPart(disk), p) = disk[p]
BY DEF XmlPart, Partial, Val

\* Two sets of files that say the same of every file are the same.
LEMMA SameFiles ==
  ASSUME NEW f, NEW g, Partial(f), Partial(g), \A p \in XmlPaths : Val(f, p) = Val(g, p)
  PROVE  f = g
<1>1. \A p \in XmlPaths : p \in DOMAIN f <=> p \in DOMAIN g
  BY DEF Partial, Val
<1>2. DOMAIN f = DOMAIN g
  BY <1>1 DEF Partial
<1>3. \A p \in DOMAIN f : f[p] = g[p]
  BY <1>2 DEF Partial, Val
<1>4. [p \in DOMAIN f |-> f[p]] = [p \in DOMAIN g |-> g[p]]
  BY <1>2, <1>3
<1>5. QED
  BY <1>4 DEF Partial

-----------------------------------------------------------------------------
(* The package manager never brings back what it has replaced.             *)

PackageStep == Upgrade \/ \E path \in Paths : Overwrite(path) \/ Replace(path)

\* What disk[p] was before the step is gone if it is no more.
Ratchet(p) ==
  /\ \A v : Gone(p, v) => Gone(p, v)'
  /\ \A v : disk[p] = v /\ disk'[p] # v => Gone(p, v)'

LEMMA UpgradeStep ==
  ASSUME DiskInv, Upgrade
  PROVE  DiskInv' /\ \A p \in XmlPaths : Ratchet(p)
<1>1. /\ rev \in Revisions /\ rev \in Int /\ rev + 1 \in Revisions
      /\ rev' = rev + 1 /\ rev' - 1 = rev /\ disk' = disk
  BY RevisionsAreInts DEF DiskInv, Upgrade
<1>2. \A p \in XmlPaths : disk[p] = Xml[rev][p]
  BY DEF DiskInv, Upgrade
<1>3. \A p \in XmlPaths : p \in todo' <=> Xml[rev'][p] # Xml[rev][p]
  BY <1>1, <1>2, PackageOfXml DEF Upgrade, Paths
<1>4. todo' \subseteq Paths /\ DOMAIN disk' = Paths
  BY <1>1 DEF Upgrade, DiskInv
<1>5. DiskInv'
  BY <1>1, <1>2, <1>3, <1>4 DEF DiskInv
<1>6. \A p \in XmlPaths : Ratchet(p)
  BY <1>1, RevisionsAreInts DEF Ratchet, Gone
<1>7. QED
  BY <1>5, <1>6

\* What was in a file to be replaced is not what it will be.
LEMMA OldIsGone ==
  ASSUME DiskInv, NEW p \in XmlPaths, p \in todo
  PROVE  /\ disk[p] # Xml[rev][p]
         /\ \A r \in Revisions : r > rev => disk[p] # Xml[r][p] /\ disk[p] # Torn(r)
<1>1. /\ rev \in Revisions /\ rev - 1 \in Revisions /\ rev \in Int
      /\ Xml[rev - 1][p] # Xml[rev][p] /\ disk[p] \in {Xml[rev - 1][p], Torn(rev)}
  BY RevisionsAreInts DEF DiskInv
<1>2. CASE disk[p] = Torn(rev)
  BY <1>1, <1>2, TornIsNotWhole, RevisionsAreInts
<1>3. CASE disk[p] = Xml[rev - 1][p]
  <2>1. \A r \in Revisions : r > rev => Xml[rev - 1][p] # Xml[r][p]
    <3> SUFFICES ASSUME NEW r \in Revisions, r > rev PROVE Xml[rev - 1][p] # Xml[r][p]
      OBVIOUS
    <3>1. rev - 1 < rev
      BY <1>1
    <3>2. QED
      BY <3>1, <1>1, NoReturnAssumption
  <2>2. QED
    BY <2>1, <1>1, <1>3, TornIsNotWhole
<1>4. QED
  BY <1>1, <1>2, <1>3

LEMMA OverwriteStep ==
  ASSUME DiskInv, NEW path \in Paths, Overwrite(path)
  PROVE  DiskInv' /\ \A p \in XmlPaths : Ratchet(p)
<1>1. /\ path \in todo /\ disk[path] # Torn(rev)
      /\ disk' = [disk EXCEPT ![path] = Torn(rev)]
      /\ rev' = rev /\ todo' = todo
  BY DEF Overwrite, Put
<1>2. DOMAIN disk = Paths /\ XmlPaths \subseteq Paths
  BY DEF DiskInv, Paths
<1>3. /\ \A p \in XmlPaths : disk'[p] = IF p = path THEN Torn(rev) ELSE disk[p]
      /\ DOMAIN disk' = Paths
  BY <1>1, <1>2
<1>4. DiskInv'
  BY <1>1, <1>3 DEF DiskInv
<1>5. ASSUME NEW p \in XmlPaths PROVE Ratchet(p)
  <2>1. CASE p = path
    <3>1. \A r \in Revisions : r > rev => Torn(rev) # Torn(r)
      BY TornIsNotWhole, RevisionsAreInts DEF DiskInv
    <3>2. QED
      BY <2>1, <3>1, <1>1, <1>3, OldIsGone DEF Ratchet, Gone
  <2>2. CASE p # path
    BY <2>2, <1>1, <1>3 DEF Ratchet, Gone
  <2>3. QED
    BY <2>1, <2>2
<1>6. QED
  BY <1>4, <1>5

LEMMA ReplaceStep ==
  ASSUME DiskInv, NEW path \in Paths, Replace(path)
  PROVE  DiskInv' /\ \A p \in XmlPaths : Ratchet(p)
<1>1. /\ path \in todo /\ todo' = todo \ {path} /\ rev' = rev
      /\ disk' = [disk EXCEPT ![path] = Package(rev, path)]
  BY DEF Replace, Put
<1>2. DOMAIN disk = Paths /\ XmlPaths \subseteq Paths
  BY DEF DiskInv, Paths
<1>3. /\ \A p \in XmlPaths : disk'[p] = IF p = path THEN Xml[rev][p] ELSE disk[p]
      /\ DOMAIN disk' = Paths
  BY <1>1, <1>2, PackageOfXml
<1>4. DiskInv'
  BY <1>1, <1>3 DEF DiskInv
<1>5. ASSUME NEW p \in XmlPaths PROVE Ratchet(p)
  <2>1. CASE p = path
    BY <2>1, <1>1, <1>3, OldIsGone DEF Ratchet, Gone
  <2>2. CASE p # path
    BY <2>2, <1>1, <1>3 DEF Ratchet, Gone
  <2>3. QED
    BY <2>1, <2>2
<1>6. QED
  BY <1>4, <1>5

\* A step of the package manager may change what the reader will find, but
\* nothing the reader has established.
LEMMA PackageInv == IndInv /\ PackageStep => IndInv'
<1> SUFFICES ASSUME IndInv, PackageStep PROVE IndInv'
  OBVIOUS
<1>1. DiskInv' /\ \A p \in XmlPaths : Ratchet(p)
  BY UpgradeStep, OverwriteStep, ReplaceStep DEF PackageStep, IndInv
<1>2. UNCHANGED reader
  BY DEF PackageStep, Upgrade, Overwrite, Replace
<1>3. \/ disk' = disk /\ seen' = seen
      \/ seen' = seen \cup {XmlPart(disk')}
  BY DEF PackageStep, Upgrade, Overwrite, Replace, Put
<1>4. seen \subseteq seen'
  BY <1>3
<1>5. TypeOK'
  BY <1>1, <1>2 DEF TypeOK, IndInv, DiskInv, reader
<1>6. SeenInv'
  <2>1. Partial(XmlPart(disk'))
    BY DEF Partial, XmlPart
  <2>2. (\A m \in seen' : Partial(m))
    BY <2>1, <1>3 DEF SeenInv, IndInv
  <2>3. pc # "idle" => XmlPart(disk') \in seen'
    BY <1>3 DEF SeenInv, IndInv
  <2>4. QED
    BY <2>2, <2>3, <1>2 DEF SeenInv, reader, Partial, XmlPart
<1>7. ReadInv'
  BY <1>2 DEF ReadInv, IndInv, reader, Partial, Through
<1>8. FirstInv'
  <2> SUFFICES ASSUME pc = "read", pass = 1, NEW p \in XmlPaths, Through(p)
               PROVE  Val(files, p) = disk'[p] \/ Gone(p, Val(files, p))'
    BY <1>2 DEF FirstInv, reader, Through
  <2>1. Val(files, p) = disk[p] \/ Gone(p, Val(files, p))
    BY DEF FirstInv, IndInv
  <2>2. files' = files
    BY <1>2 DEF reader
  <2>3. \A v : v = disk[p] \/ Gone(p, v) => v = disk'[p] \/ Gone(p, v)'
    BY <1>1 DEF Ratchet
  <2> DEFINE v == Val(files, p)
  <2>4. v' = v
    BY <2>2 DEF Val
  <2>5. v = disk'[p] \/ (disk'[p] # v /\ (p \in todo' => v # Xml[rev'][p] /\ v # Torn(rev'))
            /\ \A r \in Revisions : r > rev' => v # Xml[r][p] /\ v # Torn(r))
    BY <2>1, <2>3 DEF Gone
  <2>6. QED
    BY <2>4, <2>5 DEF Gone
<1>9. SecondInv'
  <2> SUFFICES ASSUME pc \in {"list", "read"}, pass = 2
               PROVE  \E m \in seen' : Between(m)'
    BY <1>2 DEF SecondInv, reader
  <2>1. PICK m \in seen : Between(m)
    BY DEF SecondInv, IndInv
  <2>2. UNCHANGED <<pc, names, files, first>>
    BY <1>2 DEF reader
  <2>3. ASSUME NEW p \in XmlPaths
        PROVE  Val(first, p) = Val(m, p) \/ Gone(p, Val(first, p))'
    <3>1. \A v : Gone(p, v) => /\ disk'[p] # v
                               /\ p \in todo' => v # Xml[rev'][p] /\ v # Torn(rev')
                               /\ \A r \in Revisions : r > rev' => v # Xml[r][p] /\ v # Torn(r)
      BY <1>1 DEF Ratchet, Gone
    <3>2. Val(first, p)' = Val(first, p)
      BY <2>2 DEF Val
    <3>3. QED
      BY <3>1, <3>2, <2>1 DEF Between, Gone
  <2>4. Between(m)'
    BY <2>1, <2>2, <2>3 DEF Between, Val, Through
  <2>5. QED
    BY <2>4, <1>4
<1>10. PinnedAtOnce'
  BY <1>2, <1>4, <1>5 DEF PinnedAtOnce, IndInv, reader
<1>11. VerifiedRevision'
  BY <1>2 DEF VerifiedRevision, OneRevision, IndInv, reader, XmlPart
<1>12. QED
  BY <1>1, <1>5, <1>6, <1>7, <1>8, <1>9, <1>10, <1>11 DEF IndInv

-----------------------------------------------------------------------------
(* The steps of ddcci_init_db.                                             *)

\* While the package manager pauses, what is gone stays gone.
LEMMA StayKeeps ==
  ASSUME Stay
  PROVE  /\ DiskInv => DiskInv'
         /\ XmlPart(disk') = XmlPart(disk)
         /\ \A p, v : Gone(p, v) <=> Gone(p, v)'
BY DEF Stay, DiskInv, Gone

LEMMA InitInv == Init => IndInv
<1> SUFFICES ASSUME Init PROVE IndInv
  OBVIOUS
<1>1. DiskInv
  BY PackageOfXml, RevisionsAreInts DEF Init, DiskInv, Paths
<1>2. Len(Order) \in Nat
  BY SessionAssumption
<1>3. TypeOK
  BY <1>1, <1>2, RevisionsAreInts DEF Init, TypeOK, Nothing
<1>4. Partial(Nothing)
  BY DEF Partial, Nothing
<1>5. QED
  BY <1>1, <1>3, <1>4 DEF Init, IndInv, SeenInv, ReadInv, FirstInv, SecondInv, PinnedAtOnce, VerifiedRevision

\* Every error return.
LEMMA FailedInv == IndInv /\ Failed /\ Stay => IndInv'
<1> SUFFICES ASSUME IndInv, Failed, Stay PROVE IndInv'
  OBVIOUS
<1>1. DiskInv'
  BY StayKeeps DEF IndInv
<1>2. TypeOK'
  BY DEF TypeOK, IndInv, Failed, Stay
<1>3. ReadInv'
  BY DEF ReadInv, IndInv, Failed, Partial
<1>4. SeenInv' /\ FirstInv' /\ SecondInv'
  BY DEF SeenInv, FirstInv, SecondInv, IndInv, Failed, Partial
<1>5. PinnedAtOnce' /\ VerifiedRevision'
  BY <1>2 DEF PinnedAtOnce, VerifiedRevision, OneRevision, IndInv, Failed
<1>6. QED
  BY <1>1, <1>2, <1>3, <1>4, <1>5 DEF IndInv

LEMMA InitDbInv == IndInv /\ InitDb => IndInv'
<1> SUFFICES ASSUME IndInv, InitDb PROVE IndInv'
  OBVIOUS
<1>1. DiskInv' /\ XmlPart(disk') = XmlPart(disk)
  BY StayKeeps DEF IndInv, InitDb
<1>2. TypeOK'
  BY DEF TypeOK, IndInv, InitDb, Stay
<1>3. ReadInv'
  BY DEF ReadInv, IndInv, InitDb, Partial
<1>4. SeenInv'
  <2>1. pc' = "cbor" /\ seen' = {XmlPart(disk)}
    BY DEF InitDb
  <2>2. \A m \in seen' : Partial(m)'
    BY <2>1, PartOfDisk DEF Partial
  <2>3. QED
    BY <1>1, <2>1, <2>2 DEF SeenInv
<1>5. FirstInv' /\ SecondInv' /\ PinnedAtOnce' /\ VerifiedRevision'
  BY <1>2 DEF FirstInv, SecondInv, PinnedAtOnce, VerifiedRevision, InitDb
<1>6. QED
  BY <1>1, <1>2, <1>3, <1>4, <1>5 DEF IndInv

\* The revision of the CBOR file is the one that is pinned.
LEMMA ReadCborInv == IndInv /\ ReadCbor => IndInv'
<1> SUFFICES ASSUME IndInv, ReadCbor, disk[CborPath] \in Revisions PROVE IndInv'
  BY FailedInv DEF ReadCbor
<1>1. DiskInv'
  BY StayKeeps DEF IndInv, ReadCbor
<1>2. TypeOK'
  BY DEF TypeOK, IndInv, ReadCbor, Stay
<1>3. ReadInv' /\ SeenInv'
  BY DEF ReadInv, SeenInv, IndInv, ReadCbor, Partial
<1>4. FirstInv' /\ SecondInv'
  BY DEF FirstInv, SecondInv, ReadCbor
<1>5. context' = [source |-> "cbor", files |-> XmlPart(Xml[disk[CborPath]])]
  BY DEF ReadCbor, Pinned
<1>6. context'.source = "cbor" /\ context'.files = XmlPart(Xml[disk[CborPath]])
  BY <1>5
<1>7. PinnedAtOnce' /\ VerifiedRevision'
  BY <1>2, <1>6 DEF PinnedAtOnce, VerifiedRevision, OneRevision, XmlPart
<1>8. QED
  BY <1>1, <1>2, <1>3, <1>4, <1>7 DEF IndInv

\* While a session is being opened there is none.
LEMMA NoCborInv == IndInv /\ NoCbor => IndInv'
<1> SUFFICES ASSUME IndInv, NoCbor PROVE IndInv'
  OBVIOUS
<1>1. DiskInv' /\ XmlPart(disk') = XmlPart(disk)
  BY StayKeeps DEF IndInv, NoCbor
<1>2. TypeOK'
  BY DEF TypeOK, IndInv, NoCbor, Stay
<1>3. ReadInv' /\ SeenInv'
  BY <1>1 DEF ReadInv, SeenInv, IndInv, NoCbor, Partial
<1>4. FirstInv' /\ SecondInv'
  BY DEF FirstInv, SecondInv, NoCbor
<1>5. PinnedAtOnce' /\ VerifiedRevision'
  BY <1>2 DEF PinnedAtOnce, VerifiedRevision, OneRevision, IndInv, NoCbor
<1>6. QED
  BY <1>1, <1>2, <1>3, <1>4, <1>5 DEF IndInv

LEMMA ReadManifestInv == IndInv /\ ReadManifest => IndInv'
<1> SUFFICES ASSUME IndInv, ReadManifest PROVE IndInv'
  OBVIOUS
<1>1. DiskInv' /\ XmlPart(disk') = XmlPart(disk)
  BY StayKeeps DEF IndInv, ReadManifest
<1>2. TypeOK' /\ context' = None
  BY DEF TypeOK, IndInv, ReadManifest, Stay
<1>3. ReadInv' /\ SeenInv'
  BY <1>1 DEF ReadInv, SeenInv, IndInv, ReadManifest, Partial
<1>4. FirstInv' /\ SecondInv'
  BY DEF FirstInv, SecondInv, ReadManifest
<1>5. PinnedAtOnce' /\ VerifiedRevision'
  BY <1>2 DEF PinnedAtOnce, VerifiedRevision
<1>6. QED
  BY <1>1, <1>2, <1>3, <1>4, <1>5 DEF IndInv

\* A file that the listing does not have is absent, as if it had been read.
LEMMA ListInv == IndInv /\ List => IndInv'
<1> SUFFICES ASSUME IndInv, List PROVE IndInv'
  OBVIOUS
<1>1. DiskInv' /\ XmlPart(disk') = XmlPart(disk)
  BY StayKeeps DEF IndInv, List
<1>2. Len(Order) \in Nat
  BY SessionAssumption
<1>3. names' \subseteq XmlPaths /\ DOMAIN files' = {}
  BY SessionAssumption DEF List, XmlPart, Nothing
<1>4. TypeOK' /\ context' = None
  BY <1>2, <1>3 DEF TypeOK, IndInv, List, Stay
<1>5. \A p \in XmlPaths : Through(p)' => disk[p] = Absent /\ Val(files, p)' = Absent
  BY <1>3 DEF List, XmlPart, Through, Val
<1>6. Partial(files')
  BY DEF List, Nothing, Partial
<1>7. ReadInv'
  BY <1>6 DEF ReadInv, IndInv, List, Partial
<1>8. SeenInv'
  BY <1>1 DEF SeenInv, IndInv, List, Partial
<1>9. FirstInv'
  BY <1>5 DEF FirstInv, List, Stay
<1>10. SecondInv'
  <2> SUFFICES ASSUME pass = 2 PROVE \E m \in seen : Between(m)'
    BY DEF SecondInv, List
  <2>1. PICK m \in seen : Between(m)
    BY DEF SecondInv, IndInv, List
  <2>2. first' = first /\ UNCHANGED <<disk, rev, todo>>
    BY DEF List, Stay
  <2>3. ASSUME NEW p \in XmlPaths
        PROVE  /\ Val(first, p)' = Val(m, p)' \/ Gone(p, Val(first, p))'
               /\ Through(p)' /\ Val(files, p)' = Val(first, p)' => Val(first, p)' = Val(m, p)'
    <3>1. Val(first, p)' = Val(first, p) /\ Val(m, p)' = Val(m, p)
      BY <2>2 DEF Val
    <3>2. Val(first, p) = Val(m, p) \/ Gone(p, Val(first, p))
      BY <2>1 DEF Between
    <3>3. Gone(p, Val(first, p)) => Gone(p, Val(first, p))'
      BY <2>2, <3>1 DEF Gone
    <3>4. Gone(p, Val(first, p)) => disk[p] # Val(first, p)
      BY DEF Gone
    <3>5. QED
      BY <3>1, <3>2, <3>3, <3>4, <1>5
  <2>4. Between(m)'
    BY <2>3 DEF Between
  <2>5. QED
    BY <2>4
<1>11. PinnedAtOnce' /\ VerifiedRevision'
  BY <1>4 DEF PinnedAtOnce, VerifiedRevision
<1>12. QED
  BY <1>1, <1>4, <1>7, <1>8, <1>9, <1>10, <1>11 DEF IndInv

\* The second call cannot read again what is gone.
LEMMA ReadFileInv == IndInv /\ ReadFile => IndInv'
<1> DEFINE p0 == Order[at]
<1> SUFFICES ASSUME IndInv, ReadFile, ~(p0 \in names /\ disk[p0] = Absent) PROVE IndInv'
  BY FailedInv DEF ReadFile
<1>1. DiskInv' /\ XmlPart(disk') = XmlPart(disk)
  BY StayKeeps DEF IndInv, ReadFile
<1>2. /\ Len(Order) \in Nat /\ at \in 1 .. Len(Order) /\ at' = at + 1
      /\ p0 \in XmlPaths /\ pc = "read"
      /\ UNCHANGED <<disk, rev, todo, pc, pass, names, first, manifest, context, loads, seen>>
  BY SessionAssumption DEF ReadFile, TypeOK, IndInv, Stay
<1>3. files' = IF p0 \notin names THEN files
               ELSE [q \in DOMAIN files \cup {p0} |-> IF q = p0 THEN disk[p0] ELSE files[q]]
  BY DEF ReadFile
<1> HIDE DEF p0
<1>4. DOMAIN files' = DOMAIN files \cup ({p0} \cap names)
  BY <1>3
<1>5. TypeOK' /\ context' = None
  BY <1>2, <1>4 DEF TypeOK, IndInv
<1>6. Partial(files')
  BY <1>2, <1>3 DEF ReadInv, IndInv, Partial
<1>7. \A p \in XmlPaths : /\ p # p0 => (Through(p)' <=> Through(p)) /\ Val(files', p) = Val(files, p)
                          /\ p = p0 => Through(p)'
                          /\ p = p0 /\ p \in names => Val(files', p) = disk[p]
                          /\ p = p0 /\ p \notin names => Through(p) /\ files' = files
  BY <1>2, <1>3, <1>4 DEF Through, Val
<1>8. ReadInv'
  <2> SUFFICES ASSUME NEW i \in 1 .. Len(Order), i < at + 1 PROVE Through(Order[i])'
    BY <1>2, <1>6 DEF ReadInv, IndInv, Partial
  <2>1. CASE i = at
    BY <2>1, <1>2, <1>7 DEF p0
  <2>2. CASE i < at
    <3>1. Through(Order[i])
      BY <2>2, <1>2 DEF ReadInv, IndInv
    <3>2. QED
      BY <3>1, <1>2, <1>4 DEF Through
  <2>3. QED
    BY <2>1, <2>2, <1>2
<1>9. SeenInv'
  BY <1>1, <1>2 DEF SeenInv, IndInv, Partial
<1>10. FirstInv'
  <2> SUFFICES ASSUME pass = 1, NEW p \in XmlPaths, Through(p)'
               PROVE  Val(files', p) = disk[p] \/ Gone(p, Val(files, p))'
    BY <1>2 DEF FirstInv, Val
  <2>1. CASE p = p0 /\ p \in names
    BY <2>1, <1>7
  <2>2. CASE ~(p = p0 /\ p \in names)
    <3>1. Through(p) /\ Val(files', p) = Val(files, p)
      BY <2>2, <1>7
    <3>2. Val(files, p) = disk[p] \/ Gone(p, Val(files, p))
      BY <3>1, <1>2 DEF FirstInv, IndInv
    <3>3. Val(files, p)' = Val(files, p)
      BY <3>1 DEF Val
    <3>4. QED
      BY <3>1, <3>2, <3>3, <1>2 DEF Gone
  <2>3. QED
    BY <2>1, <2>2
<1>11. SecondInv'
  <2> SUFFICES ASSUME pass = 2 PROVE \E m \in seen : Between(m)'
    BY <1>2 DEF SecondInv
  <2>1. PICK m \in seen : Between(m)
    BY <1>2 DEF SecondInv, IndInv
  <2>2. ASSUME NEW p \in XmlPaths
        PROVE  /\ Val(first, p)' = Val(m, p)' \/ Gone(p, Val(first, p))'
               /\ Through(p)' /\ Val(files, p)' = Val(first, p)' => Val(first, p)' = Val(m, p)'
    <3>1. Val(first, p)' = Val(first, p) /\ Val(m, p)' = Val(m, p) /\ Val(files, p)' = Val(files', p)
      BY <1>2 DEF Val
    <3>2. /\ Val(first, p) = Val(m, p) \/ Gone(p, Val(first, p))
          /\ Through(p) /\ Val(files, p) = Val(first, p) => Val(first, p) = Val(m, p)
      BY <2>1, <1>2 DEF Between
    <3>3. Gone(p, Val(first, p)) => Gone(p, Val(first, p))'
      BY <1>2, <3>1 DEF Gone
    <3>4. Gone(p, Val(first, p)) => disk[p] # Val(first, p)
      BY DEF Gone
    <3>5. QED
      BY <3>1, <3>2, <3>3, <3>4, <1>7
  <2>3. Between(m)'
    BY <2>2 DEF Between
  <2>4. QED
    BY <2>3
<1>12. PinnedAtOnce' /\ VerifiedRevision'
  BY <1>5 DEF PinnedAtOnce, VerifiedRevision
<1>13. QED
  BY <1>1, <1>5, <1>8, <1>9, <1>10, <1>11, <1>12 DEF IndInv

\* After the last position every file has been read.
LEMMA AllThrough ==
  ASSUME IndInv, pc = "read", at > Len(Order)
  PROVE  \A p \in XmlPaths : Through(p)
<1>1. Len(Order) \in Nat /\ DOMAIN Order = 1 .. Len(Order) /\ at = Len(Order) + 1
  BY SessionAssumption DEF TypeOK, IndInv
<1>2. \A i \in 1 .. Len(Order) : Through(Order[i])
  BY <1>1 DEF ReadInv, IndInv
<1>3. QED
  BY <1>1, <1>2 DEF XmlPaths

\* What is on disk between the calls is what the second one must find.
LEMMA FirstReadInv == IndInv /\ FirstRead => IndInv'
<1> SUFFICES ASSUME IndInv, FirstRead PROVE IndInv'
  OBVIOUS
<1>1. DiskInv' /\ XmlPart(disk') = XmlPart(disk)
  BY StayKeeps DEF IndInv, FirstRead
<1>2. TypeOK' /\ context' = None
  BY DEF TypeOK, IndInv, FirstRead, Stay
<1>3. ReadInv' /\ SeenInv'
  BY <1>1 DEF ReadInv, SeenInv, IndInv, FirstRead, Partial
<1>4. FirstInv'
  BY DEF FirstInv, FirstRead
<1>5. Between(XmlPart(disk))'
  <2> SUFFICES ASSUME NEW p \in XmlPaths
               PROVE  Val(first, p)' = Val(XmlPart(disk), p)' \/ Gone(p, Val(first, p))'
    BY DEF Between, FirstRead
  <2>1. Val(first, p)' = Val(files, p) /\ Val(XmlPart(disk), p)' = Val(XmlPart(disk), p)
    BY <1>1 DEF FirstRead, Val
  <2>2. Val(files, p) = disk[p] \/ Gone(p, Val(files, p))
    BY AllThrough DEF FirstInv, IndInv, FirstRead
  <2>3. Gone(p, Val(files, p)) => Gone(p, Val(first, p))'
    BY <2>1 DEF Gone, FirstRead, Stay
  <2>4. QED
    BY <2>1, <2>2, <2>3, PartOfDisk
<1>6. SecondInv'
  <2>1. XmlPart(disk) \in seen /\ seen' = seen
    BY DEF SeenInv, IndInv, FirstRead
  <2>2. QED
    BY <2>1, <1>1, <1>5 DEF SecondInv
<1>7. PinnedAtOnce' /\ VerifiedRevision'
  BY <1>2 DEF PinnedAtOnce, VerifiedRevision
<1>8. QED
  BY <1>1, <1>2, <1>3, <1>4, <1>6, <1>7 DEF IndInv

LEMMA SecondReadInv == IndInv /\ SecondRead => IndInv'
<1> SUFFICES ASSUME IndInv, SecondRead,
                    first = files, Verified(manifest, files),
                    context' = Pinned("xml", files), pc' = "idle",
                    UNCHANGED <<pass, names, at, files, first, manifest, loads, seen>>, Stay
             PROVE  IndInv'
  BY FailedInv DEF SecondRead, Unchanged
<1>1. DiskInv'
  BY StayKeeps DEF IndInv
<1>2. TypeOK'
  BY DEF TypeOK, IndInv, Stay
<1>3. ReadInv' /\ SeenInv' /\ FirstInv' /\ SecondInv'
  BY DEF ReadInv, SeenInv, FirstInv, SecondInv, IndInv, Partial
<1>4. context'.source = "xml" /\ context'.files = files
  BY DEF Pinned
<1>5. files \in seen
  <2>1. PICK m \in seen : Between(m)
    BY DEF SecondInv, IndInv, SecondRead
  <2>2. \A p \in XmlPaths : Val(files, p) = Val(m, p)
    BY <2>1, AllThrough DEF Between, SecondRead
  <2>3. files = m
    BY <2>2, SameFiles DEF ReadInv, SeenInv, IndInv
  <2>4. QED
    BY <2>3
<1>6. PinnedAtOnce'
  BY <1>2, <1>4, <1>5 DEF PinnedAtOnce
<1>7. VerifiedRevision'
  BY <1>4 DEF VerifiedRevision, OneRevision, Verified, XmlPart
<1>8. QED
  BY <1>1, <1>2, <1>3, <1>6, <1>7 DEF IndInv

-----------------------------------------------------------------------------
(* The theorems.                                                           *)

LEMMA NextInv == IndInv /\ [Next]_vars => IndInv'
<1> SUFFICES ASSUME IndInv, [Next]_vars PROVE IndInv'
  OBVIOUS
<1>1. CASE UNCHANGED vars
  BY <1>1 DEF vars, IndInv, TypeOK, DiskInv, SeenInv, ReadInv, FirstInv, SecondInv, PinnedAtOnce,
              VerifiedRevision, OneRevision, Between, Gone, Through, Partial, Val, XmlPart
<1>2. CASE ReadError
  BY <1>2, FailedInv DEF ReadError
<1>3. QED
  BY <1>1, <1>2, PackageInv, InitDbInv, ReadCborInv, NoCborInv, ReadManifestInv, ListInv,
     ReadFileInv, FirstReadInv, SecondReadInv DEF Next, PackageStep

\* What a session has read so far is what the disk held when it was read, and
\* a file it has read twice did not change in between (ddcci_init_db).
THEOREM Invariance == Spec => []IndInv
BY InitInv, NextInv, PTL DEF Spec

\* The XML files that ddcci_init_db pins were all on disk at one moment
\* while it ran, whatever the package manager replaced between its reads.
THEOREM SessionIsASnapshot == Spec => []PinnedAtOnce
<1>1. IndInv => PinnedAtOnce
  BY DEF IndInv
<1>2. QED
  BY <1>1, Invariance, PTL

\* A session with a manifest or a CBOR file is one revision of the package,
\* and not one whose manifest prohibits the XML fallback.
THEOREM SessionIsOneRevision == Spec => []VerifiedRevision
<1>1. IndInv => VerifiedRevision
  BY DEF IndInv
<1>2. QED
  BY <1>1, Invariance, PTL
=============================================================================
