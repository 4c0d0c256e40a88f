----------------------------- MODULE DbGenProofs -----------------------------
(***************************************************************************)
(* Proofs about DbGen, for any number of profiles, edits and runs, any     *)
(* includes and any limits: the files on disk, the sources a database is   *)
(* made of, and, in the second half, which profiles the resolution of      *)
(* includes takes to be valid.                                             *)
(***************************************************************************)
EXTENDS DbGen, FiniteSetTheorems, TLAPS

Databases == [files : [Profiles -> Nat], needs : BOOLEAN, run : Nat]
Snapshots == [manifest : [Profiles -> Nat] \cup {Prohibited}, run : Nat]

-----------------------------------------------------------------------------
(* The files on disk.                                                      *)

(* The databases have their types, and each phase has the commands that    *)
(* reach it.                                                               *)
FilesOK ==
  /\ run \in 0 .. MaxRuns /\ content \in Databases
  /\ phase \in {"idle", "read", "count", "resolve", "loaded", "again", "snapshot",
                "output", "fail", "clear"}
  /\ cbor \in Databases \cup {Absent} /\ snapshot \in Snapshots \cup {Absent}
  /\ command \in {"convert", "rewrite", "load"}
  /\ phase \in {"again", "read", "clear"} => command = "convert"
  /\ phase \in {"snapshot", "output"} => command \in {"convert", "rewrite"}
  /\ phase # "idle" /\ command # "load" => content.run = run
  /\ result = "failed" => phase = "idle"

(* A run that is not over has not written its output, and has written its  *)
(* snapshot exactly when only the output is left to write.                 *)
Publishing ==
  /\ cbor # Absent => cbor.run <= run /\ (phase # "idle" => cbor.run < run)
  /\ phase = "output" => snapshot = [manifest |-> FallbackManifest(content), run |-> run]
  /\ phase = "clear" => cbor = Absent

FilesInv == FilesOK /\ Publishing /\ SnapshotCoversCbor /\ FailedClears

-----------------------------------------------------------------------------
(* The sources.  They only grow, so that a file that is the same when it   *)
(* is read again has been so since it was read.                            *)

Upto(k) == {p \in Profiles : p < k}

(* What has been read is not newer than the sources are.                   *)
ReadInv ==
  /\ phase = "read" => \A p \in Upto(at) : content.files[p] <= source[p]
  /\ phase \in {"count", "resolve"} => \A p \in Profiles : content.files[p] <= source[p]

(* m was on disk after the first reading and before the second.            *)
Between(m) ==
  /\ m \in [Profiles -> Nat]
  /\ \A p \in Profiles : content.files[p] <= m[p] /\ m[p] <= source[p]
  /\ \A p \in Upto(at) : content.files[p] = m[p]

AgainInv == phase = "again" => \E m \in seen : Between(m)

SourceInv ==
  /\ source \in [Profiles -> Nat] /\ at \in Profiles
  /\ phase \notin {"read", "again", "fail", "clear"} => at = 1
  /\ phase # "idle" => source \in seen
  /\ command = "convert" => ReadInv /\ AgainInv
  /\ ConvertedAtOnce

-----------------------------------------------------------------------------
(* The resolution of includes.                                             *)

Unresolved(p) == {n \in DOMAIN graph[p] : graph[p][n] \notin valid}

(* pending counts the includes that are not resolved.  A profile without   *)
(* one is ready, valid, or beyond the limits, and its measures are final.  *)
WalkInv ==
  /\ graph \in [Profiles -> Seq(Nat)]
  /\ pending \in [Profiles -> Nat] /\ visits \in [Profiles -> Int]
  /\ ready \subseteq Profiles \ valid /\ valid \subseteq Profiles
  /\ phase = "resolve" =>
       /\ \A p \in Profiles : pending[p] = Cardinality(Unresolved(p))
       /\ \A p \in valid : pending[p] = 0 /\ Within(p)
       /\ \A p \in ready : pending[p] = 0
       /\ \A p \in Profiles : pending[p] = 0 => p \in ready \/ p \in valid \/ ~Within(p)

(* When no profile is ready, the valid ones are those that are within the  *)
(* limits and include valid profiles only: a profile is blocked by its     *)
(* own includes and by nothing else.                                       *)
BlockedByIncludes ==
  phase = "resolve" /\ ready = {} =>
    \A p \in Profiles : p \in valid <=> Within(p) /\ \A n \in DOMAIN graph[p] : graph[p][n] \in valid

-----------------------------------------------------------------------------
(* The files on disk: every phase of a run.                                *)

LEMMA EmptyIsADatabase == Empty \in Databases /\ Zeros \in [Profiles -> Nat]
BY DEF Empty, Database, Databases, Zeros

LEMMA AbsentIsNothing == Absent \notin Databases /\ Absent \notin Snapshots
BY AbsentAssumption DEF Databases, Snapshots

LEMMA FilesInit == Init => FilesInv
<1> SUFFICES ASSUME Init PROVE FilesInv
  OBVIOUS
<1>1. run \in 0 .. MaxRuns
  BY GenAssumption DEF Init
<1>2. FilesOK
  BY <1>1, EmptyIsADatabase DEF Init, FilesOK, Snapshots
<1>3. Empty.run = 0 /\ Empty.needs = FALSE /\ Empty.files = Zeros
  BY DEF Empty, Database
<1>4. cbor # Absent => cbor = Empty /\ snapshot = [manifest |-> Zeros, run |-> 0]
  BY DEF Init
<1>5. SnapshotCoversCbor
  <2> SUFFICES ASSUME cbor # Absent
               PROVE  /\ snapshot # Absent /\ snapshot.run >= cbor.run
                      /\ snapshot.manifest = IF cbor.needs THEN Prohibited ELSE cbor.files
    BY DEF SnapshotCoversCbor
  <2>1. snapshot \in Snapshots /\ snapshot.run = 0 /\ snapshot.manifest = Zeros
    BY <1>4, EmptyIsADatabase DEF Snapshots
  <2>2. QED
    BY <2>1, <1>3, <1>4, AbsentIsNothing
<1>6. Publishing /\ FailedClears
  BY <1>3, <1>4 DEF Init, Publishing, FailedClears
<1>7. QED
  BY <1>2, <1>5, <1>6 DEF FilesInv

(* A run begins: everything on disk is of an earlier one.                  *)
LEMMA FilesBegin ==
  ASSUME FilesInv, NEW name \in {"convert", "rewrite", "load"}, NEW start \in {"read", "count"},
         start = "read" => name = "convert",
         Begin(name, start), content' \in Databases, name # "load" => content'.run = run'
  PROVE  FilesInv'
<1>1. /\ run' = run + 1 /\ run' \in 0 .. MaxRuns /\ UNCHANGED disk
      /\ phase' = start /\ command' = name /\ result' = "none"
  BY GenAssumption DEF Begin, FilesInv, FilesOK
<1>2. FilesOK'
  BY <1>1 DEF FilesInv, FilesOK, disk
<1>3. Publishing'
  <2>1. cbor # Absent => cbor.run \in Nat /\ cbor.run <= run
    BY DEF FilesInv, FilesOK, Publishing, Databases
  <2>2. cbor' # Absent => cbor'.run < run'
    BY <1>1, <2>1 DEF disk, FilesInv, FilesOK
  <2>3. cbor' # Absent => cbor'.run \in Nat /\ run' \in Nat
    BY <1>1, <2>1 DEF disk
  <2>4. QED
    BY <1>1, <2>2, <2>3 DEF Publishing
<1>4. SnapshotCoversCbor' /\ FailedClears'
  BY <1>1 DEF FilesInv, SnapshotCoversCbor, FailedClears, disk
<1>5. QED
  BY <1>2, <1>3, <1>4 DEF FilesInv

LEMMA FilesStart == FilesInv /\ (StartConvert \/ StartRewrite \/ StartLoad) => FilesInv'
<1> SUFFICES ASSUME FilesInv PROVE StartConvert \/ StartRewrite \/ StartLoad => FilesInv'
  OBVIOUS
<1>1. ASSUME run' \in Nat
      PROVE  /\ [Empty EXCEPT !.run = run'] \in Databases /\ [Empty EXCEPT !.run = run'].run = run'
             /\ \A needs \in BOOLEAN : /\ Database(Zeros, needs, run') \in Databases
                                       /\ Database(Zeros, needs, run').run = run'
  BY <1>1, EmptyIsADatabase DEF Database, Databases, Empty
<1>2. \A name, start : Begin(name, start) => run' \in Nat
  BY DEF Begin, FilesInv, FilesOK
<1>3. CASE StartConvert
  BY <1>1, <1>2, <1>3, FilesBegin DEF StartConvert
<1>4. CASE StartRewrite
  BY <1>1, <1>2, <1>4, FilesBegin DEF StartRewrite
<1>5. CASE StartLoad
  BY <1>5, EmptyIsADatabase, FilesBegin DEF StartLoad
<1>6. QED
  BY <1>3, <1>4, <1>5

(* A run ends.                                                             *)
LEMMA FilesEnd ==
  ASSUME FilesInv, phase # "idle", NEW r, End(r),
         UNCHANGED disk, r = "failed" => command # "convert"
  PROVE  FilesInv'
<1>1. /\ phase' = "idle" /\ content' \in Databases /\ result' = r
      /\ UNCHANGED <<run, command, cbor, snapshot>>
  BY EmptyIsADatabase DEF End, disk
<1>2. FilesOK'
  BY <1>1 DEF FilesInv, FilesOK
<1>3. Publishing' /\ SnapshotCoversCbor' /\ FailedClears'
  BY <1>1 DEF FilesInv, Publishing, SnapshotCoversCbor, FailedClears
<1>4. QED
  BY <1>2, <1>3 DEF FilesInv

(* The steps before anything is written.                                   *)
LEMMA FilesQuiet ==
  ASSUME FilesInv, phase # "idle", phase' # "idle",
         UNCHANGED <<disk, run, command, result>>,
         content' \in Databases, content'.run = content.run,
         phase' \in {"read", "again"} => command = "convert",
         phase' = "snapshot" => command \in {"convert", "rewrite"},
         phase' \in {"read", "count", "resolve", "loaded", "again", "snapshot", "fail"}
  PROVE  FilesInv'
<1>1. FilesOK'
  BY DEF FilesInv, FilesOK, disk
<1>2. Publishing' /\ SnapshotCoversCbor' /\ FailedClears'
  BY DEF FilesInv, Publishing, SnapshotCoversCbor, FailedClears, disk
<1>3. QED
  BY <1>1, <1>2 DEF FilesInv

LEMMA FilesNextQuiet ==
  ASSUME FilesInv, at \in Profiles, source \in [Profiles -> Nat],
         ReadSource \/ Count \/ Resolve \/ Resolved \/ ReadAgain \/ Error
  PROVE  FilesInv'
<1>1. CASE ReadSource
  <2>1. content' \in Databases /\ content'.run = content.run
    <3>1. content' = [content EXCEPT !.files = [content.files EXCEPT ![at] = source[at]]]
      BY <1>1 DEF ReadSource
    <3>2. [content.files EXCEPT ![at] = source[at]] \in [Profiles -> Nat]
      BY DEF FilesInv, FilesOK, Databases
    <3>3. QED
      BY <3>1, <3>2 DEF FilesInv, FilesOK, Databases
  <2>2. phase' \in {"count", "read"}
    BY <1>1 DEF ReadSource
  <2>3. QED
    BY <1>1, <2>1, <2>2, FilesQuiet DEF ReadSource, FilesInv, FilesOK
<1>2. CASE Count
  BY <1>2, FilesQuiet DEF Count, FilesInv, FilesOK
<1>3. CASE Resolve
  BY <1>3, FilesQuiet DEF Resolve, FilesInv, FilesOK
<1>4. CASE Resolved
  <2>1. /\ phase' \in {"loaded", "fail", "again", "snapshot"}
        /\ phase' = "again" => command = "convert"
    BY <1>4, Zenon DEF Resolved
  <2>2. phase' = "snapshot" => command \in {"convert", "rewrite"}
    <3>1. command \in {"convert", "rewrite", "load"}
      BY DEF FilesInv, FilesOK
    <3>2. QED
      BY <1>4, <3>1, Zenon DEF Resolved
  <2>3. QED
    BY <1>4, <2>1, <2>2, FilesQuiet DEF Resolved, FilesInv, FilesOK
<1>5. CASE ReadAgain
  BY <1>5, FilesQuiet DEF ReadAgain, FilesInv, FilesOK
<1>6. CASE Error
  BY <1>6, FilesQuiet DEF Error, FilesInv, FilesOK
<1>7. QED
  BY <1>1, <1>2, <1>3, <1>4, <1>5, <1>6

(* The snapshot is replaced first: it is then of a later run.              *)
LEMMA FilesPublishSnapshot == FilesInv /\ PublishSnapshot => FilesInv'
<1> SUFFICES ASSUME FilesInv, PublishSnapshot PROVE FilesInv'
  OBVIOUS
<1>1. /\ phase = "snapshot" /\ phase' = "output"
      /\ snapshot' = [manifest |-> FallbackManifest(content), run |-> run]
      /\ UNCHANGED <<cbor, run, command, content, result>>
  BY DEF PublishSnapshot
<1>2. run \in Nat
  BY DEF FilesInv, FilesOK
<1>3. snapshot' \in Snapshots /\ snapshot'.run = run
  BY <1>1, <1>2 DEF FilesInv, FilesOK, FallbackManifest, Snapshots, Databases
<1>4. FilesOK'
  BY <1>1, <1>3 DEF FilesInv, FilesOK
<1>5. Publishing'
  BY <1>1 DEF FilesInv, Publishing, FallbackManifest
<1>6. SnapshotCoversCbor'
  <2>1. cbor # Absent => cbor.run \in Nat /\ cbor.run < run
    BY <1>1 DEF FilesInv, FilesOK, Publishing, Databases
  <2>2. QED
    BY <1>1, <1>2, <1>3, <2>1, AbsentIsNothing DEF SnapshotCoversCbor
<1>7. FailedClears'
  BY <1>1 DEF FilesInv, FilesOK, FailedClears
<1>8. QED
  BY <1>4, <1>5, <1>6, <1>7 DEF FilesInv

LEMMA FilesPublishOutput == FilesInv /\ PublishOutput => FilesInv'
<1> SUFFICES ASSUME FilesInv, PublishOutput PROVE FilesInv'
  OBVIOUS
<1>1. /\ phase = "output" /\ phase' = "idle" /\ result' = "ok"
      /\ cbor' = content /\ content' = Empty
      /\ UNCHANGED <<snapshot, run, command>>
  BY DEF PublishOutput, End
<1>2. /\ content \in Databases /\ content.run = run /\ run \in Nat
      /\ snapshot = [manifest |-> FallbackManifest(content), run |-> run]
  BY <1>1 DEF FilesInv, FilesOK, Publishing
<1>3. snapshot.manifest = FallbackManifest(content) /\ snapshot.run = run
  BY <1>2
<1>4. FilesOK'
  BY <1>1, <1>2, EmptyIsADatabase DEF FilesInv, FilesOK
<1>5. Publishing'
  BY <1>1, <1>2 DEF Publishing
<1>6. snapshot # Absent
  BY <1>2, AbsentIsNothing DEF FilesInv, FilesOK, FallbackManifest, Snapshots, Databases
<1>7. SnapshotCoversCbor'
  BY <1>1, <1>2, <1>3, <1>6 DEF SnapshotCoversCbor, FallbackManifest
<1>8. FailedClears'
  BY <1>1 DEF FailedClears
<1>9. QED
  BY <1>4, <1>5, <1>7, <1>8 DEF FilesInv

(* A failed convert removes the output before the snapshot.                *)
LEMMA FilesFail == FilesInv /\ Fail => FilesInv'
<1> SUFFICES ASSUME FilesInv, Fail PROVE FilesInv'
  OBVIOUS
<1>1. CASE command = "convert"
  <2>1. /\ phase = "fail" /\ phase' = "clear" /\ cbor' = Absent
        /\ UNCHANGED <<snapshot, run, command, content, result>>
    BY <1>1 DEF Fail
  <2>2. FilesOK' /\ Publishing'
    BY <1>1, <2>1 DEF FilesInv, FilesOK, Publishing
  <2>3. SnapshotCoversCbor' /\ FailedClears'
    BY <2>1 DEF FilesInv, FilesOK, SnapshotCoversCbor, FailedClears
  <2>4. QED
    BY <2>2, <2>3 DEF FilesInv
<1>2. CASE command # "convert"
  BY <1>2, FilesEnd DEF Fail, disk
<1>3. QED
  BY <1>1, <1>2

LEMMA FilesClear == FilesInv /\ Clear => FilesInv'
<1> SUFFICES ASSUME FilesInv, Clear PROVE FilesInv'
  OBVIOUS
<1>1. /\ phase = "clear" /\ phase' = "idle" /\ result' = "failed" /\ content' = Empty
      /\ snapshot' = Absent /\ cbor' = cbor /\ UNCHANGED <<run, command>>
  BY DEF Clear, End
<1>2. cbor = Absent
  BY <1>1 DEF FilesInv, Publishing
<1>3. FilesOK'
  BY <1>1, <1>2, EmptyIsADatabase DEF FilesInv, FilesOK
<1>4. Publishing' /\ SnapshotCoversCbor' /\ FailedClears'
  BY <1>1, <1>2 DEF Publishing, SnapshotCoversCbor, FailedClears
<1>5. QED
  BY <1>3, <1>4 DEF FilesInv

LEMMA FilesNext ==
  ASSUME FilesInv, at \in Profiles, source \in [Profiles -> Nat], [Next]_vars
  PROVE  FilesInv'
<1>1. CASE UNCHANGED vars
  BY <1>1 DEF vars, disk, FilesInv, FilesOK, Publishing, SnapshotCoversCbor, FailedClears,
              FallbackManifest
<1>2. ASSUME NEW p \in Profiles, Edit(p) PROVE FilesInv'
  <2>1. UNCHANGED <<cbor, snapshot, run, phase, command, content, result>>
    BY <1>2 DEF Edit, disk
  <2>2. QED
    BY <2>1 DEF FilesInv, FilesOK, Publishing, SnapshotCoversCbor, FailedClears, FallbackManifest
<1>3. CASE LoadDone
  BY <1>3, FilesEnd DEF LoadDone
<1>4. CASE Crash
  BY <1>4, FilesEnd DEF Crash
<1>5. QED
  BY <1>1, <1>2, <1>3, <1>4, FilesStart, FilesNextQuiet, FilesPublishSnapshot, FilesPublishOutput,
     FilesFail, FilesClear DEF Next

-----------------------------------------------------------------------------
(* The sources.                                                            *)

LEMMA ProfilesAreInts ==
  /\ Cardinality(Profiles) \in Nat /\ Profiles = 1 .. Cardinality(Profiles)
  /\ 1 \in Profiles /\ Cardinality(Profiles) \in Profiles
<1>1. Cardinality(Profiles) \in Nat
  BY GenAssumption, FS_CardinalityType
<1>2. \E p \in Profiles : TRUE
  BY GenAssumption
<1>3. QED
  BY <1>1, <1>2, GenAssumption

LEMMA SourceInit == Init => SourceInv
BY ProfilesAreInts DEF Init, SourceInv, ConvertedAtOnce

LEMMA SourceEdit ==
  ASSUME FilesInv, SourceInv, NEW e \in Profiles, Edit(e)
  PROVE  SourceInv'
<1>1. /\ source' = [source EXCEPT ![e] = @ + 1] /\ seen' = seen \cup {source'}
      /\ UNCHANGED <<phase, command, at, content>>
  BY DEF Edit
<1>2. /\ source' \in [Profiles -> Nat]
      /\ \A p \in Profiles : source[p] \in Nat /\ source'[p] \in Nat /\ source[p] <= source'[p]
  BY <1>1 DEF SourceInv
<1>3. \A p \in Profiles : content.files[p] \in Nat
  BY DEF FilesInv, FilesOK, Databases
<1>4. command = "convert" => ReadInv'
  BY <1>1, <1>2, <1>3 DEF SourceInv, ReadInv, Upto
<1>5. command = "convert" => AgainInv'
  <2> SUFFICES ASSUME command = "convert", phase = "again" PROVE \E m \in seen' : Between(m)'
    BY <1>1 DEF AgainInv
  <2>1. PICK m \in seen : Between(m)
    BY DEF SourceInv, AgainInv
  <2>2. \A p \in Profiles : m[p] \in Nat
    BY <2>1 DEF Between
  <2>3. Between(m)'
    BY <1>1, <1>2, <2>1, <2>2 DEF Between, Upto
  <2>4. QED
    BY <1>1, <2>3
<1>6. QED
  BY <1>1, <1>2, <1>4, <1>5 DEF SourceInv, ConvertedAtOnce

LEMMA SourceStart == SourceInv /\ (StartConvert \/ StartRewrite \/ StartLoad) => SourceInv'
<1> SUFFICES ASSUME SourceInv, NEW name, NEW start \in {"read", "count"}, Begin(name, start),
                    start = "count" => name # "convert"
             PROVE  SourceInv'
  BY DEF StartConvert, StartRewrite, StartLoad
<1>1. /\ phase' = start /\ command' = name /\ at' = 1 /\ seen' = {source} /\ source' = source
  BY DEF Begin
<1>2. Upto(1)' = {}
  BY ProfilesAreInts DEF Upto
<1>3. command' = "convert" => ReadInv' /\ AgainInv'
  BY <1>1, <1>2 DEF ReadInv, AgainInv
<1>4. QED
  BY <1>1, <1>3, ProfilesAreInts DEF SourceInv, ConvertedAtOnce

LEMMA SourceEnd == SourceInv /\ (\E r : End(r)) => SourceInv'
BY ProfilesAreInts DEF SourceInv, ConvertedAtOnce, End, ReadInv, AgainInv

(* After the first reading nothing that was read is newer than its source. *)
LEMMA SourceRead == FilesInv /\ SourceInv /\ ReadSource => SourceInv'
<1> SUFFICES ASSUME FilesInv, SourceInv, ReadSource PROVE SourceInv'
  OBVIOUS
<1>1. /\ phase = "read" /\ command = "convert" /\ at \in Profiles /\ at \in Int
      /\ UNCHANGED <<source, seen, command>>
  BY ProfilesAreInts DEF ReadSource, FilesInv, FilesOK, SourceInv
<1>2. content.files \in [Profiles -> Nat]
  BY DEF FilesInv, FilesOK, Databases
<1>3. content'.files = [content.files EXCEPT ![at] = source[at]]
  BY DEF ReadSource, FilesInv, FilesOK, Databases
<1>4. \A p \in Profiles : content'.files[p] = IF p = at THEN source[p] ELSE content.files[p]
  BY <1>2, <1>3
<1>5. \A p \in Profiles : p <= at => content'.files[p] <= source[p]
  <2> SUFFICES ASSUME NEW p \in Profiles, p <= at PROVE content'.files[p] <= source[p]
    OBVIOUS
  <2>1. CASE p = at
    BY <2>1, <1>1, <1>4 DEF SourceInv
  <2>2. CASE p # at
    <3>1. p \in Upto(at)
      BY <2>2, <1>1, ProfilesAreInts DEF Upto
    <3>2. QED
      BY <2>2, <3>1, <1>1, <1>4 DEF SourceInv, ReadInv
  <2>3. QED
    BY <2>1, <2>2
<1>6. CASE at = Cardinality(Profiles)
  <2>1. phase' = "count" /\ at' = 1
    BY <1>6 DEF ReadSource
  <2>2. \A p \in Profiles : content'.files[p] <= source[p]
    BY <1>5, <1>6, ProfilesAreInts
  <2>3. QED
    BY <2>1, <2>2, <1>1, ProfilesAreInts DEF SourceInv, ReadInv, AgainInv, ConvertedAtOnce
<1>7. CASE at # Cardinality(Profiles)
  <2>1. phase' = "read" /\ at' = at + 1 /\ at + 1 \in Profiles
    BY <1>1, <1>7, ProfilesAreInts DEF ReadSource
  <2>2. \A p \in Upto(at + 1) : content'.files[p] <= source[p]
    BY <1>1, <1>5, ProfilesAreInts DEF Upto
  <2>3. QED
    BY <2>1, <2>2, <1>1 DEF SourceInv, ReadInv, AgainInv, ConvertedAtOnce, Upto
<1>8. QED
  BY <1>6, <1>7

(* The sources as they are when the second reading begins are what it has  *)
(* to find.                                                                *)
LEMMA SourceResolved == FilesInv /\ SourceInv /\ Resolved => SourceInv'
<1> SUFFICES ASSUME FilesInv, SourceInv, Resolved PROVE SourceInv'
  OBVIOUS
<1>1. phase = "resolve" /\ at = 1 /\ UNCHANGED <<source, seen, command, at, content>>
  BY DEF Resolved, SourceInv
<1>2. /\ phase' \in {"loaded", "fail", "again", "snapshot"}
      /\ phase' = "snapshot" => command # "convert"
  BY Zenon DEF Resolved
<1>3. ASSUME command = "convert" PROVE AgainInv'
  <2>1. Upto(1) = {}
    BY ProfilesAreInts DEF Upto
  <2>2. \A p \in Profiles : source[p] <= source[p] /\ content.files[p] <= source[p]
    <3>1. \A p \in Profiles : source[p] <= source[p]
      BY DEF SourceInv
    <3>2. QED
      BY <3>1, <1>1, <1>3 DEF SourceInv, ReadInv
  <2>3. Between(source)'
    BY <1>1, <2>1, <2>2 DEF Between, SourceInv, Upto
  <2>4. source' \in seen'
    BY <1>1 DEF SourceInv
  <2>5. QED
    BY <2>3, <2>4 DEF AgainInv
<1>4. QED
  BY <1>1, <1>2, <1>3, ProfilesAreInts DEF SourceInv, ReadInv, ConvertedAtOnce

LEMMA SourceAgain == FilesInv /\ SourceInv /\ ReadAgain => SourceInv'
<1> SUFFICES ASSUME FilesInv, SourceInv, ReadAgain PROVE SourceInv'
  OBVIOUS
<1>1. /\ phase = "again" /\ command = "convert" /\ at \in Profiles /\ at \in Int
      /\ UNCHANGED <<source, seen, command, content>>
  BY ProfilesAreInts DEF ReadAgain, FilesInv, FilesOK, SourceInv
<1>2. content.files \in [Profiles -> Nat]
  BY DEF FilesInv, FilesOK, Databases
<1>3. PICK m \in seen : Between(m)
  BY <1>1 DEF SourceInv, AgainInv
<1>4. CASE source[at] # content.files[at]
  <2>1. phase' = "fail" /\ at' = at
    BY <1>4 DEF ReadAgain
  <2>2. QED
    BY <2>1, <1>1 DEF SourceInv, ReadInv, AgainInv, ConvertedAtOnce
<1>5. ASSUME source[at] = content.files[at] PROVE \A p \in Profiles : p <= at => content.files[p] = m[p]
  <2> SUFFICES ASSUME NEW p \in Profiles, p <= at PROVE content.files[p] = m[p]
    OBVIOUS
  <2>1. m[p] \in Nat /\ source[p] \in Nat /\ content.files[p] \in Nat
    BY <1>2, <1>3 DEF Between, SourceInv
  <2>2. CASE p = at
    BY <2>1, <2>2, <1>3, <1>5 DEF Between
  <2>3. CASE p # at
    BY <2>3, <1>1, <1>3, ProfilesAreInts DEF Between, Upto
  <2>4. QED
    BY <2>2, <2>3
<1>6. CASE source[at] = content.files[at] /\ at = Cardinality(Profiles)
  <2>1. phase' = "snapshot" /\ at' = 1
    BY <1>6 DEF ReadAgain
  <2>2. \A p \in Profiles : content.files[p] = m[p]
    BY <1>5, <1>6, ProfilesAreInts
  <2>3. content.files = m
    BY <2>2, <1>2, <1>3 DEF Between
  <2>4. QED
    BY <2>1, <2>3, <1>1, ProfilesAreInts DEF SourceInv, ReadInv, AgainInv, ConvertedAtOnce
<1>7. CASE source[at] = content.files[at] /\ at # Cardinality(Profiles)
  <2>1. phase' = "again" /\ at' = at + 1 /\ at + 1 \in Profiles
    BY <1>1, <1>7, ProfilesAreInts DEF ReadAgain
  <2>2. Between(m)'
    BY <2>1, <1>1, <1>3, <1>5, <1>7, ProfilesAreInts DEF Between, Upto
  <2>3. QED
    BY <2>1, <2>2, <1>1 DEF SourceInv, ReadInv, AgainInv, ConvertedAtOnce
<1>8. QED
  BY <1>4, <1>6, <1>7

LEMMA SourceNext == FilesInv /\ SourceInv /\ [Next]_vars => SourceInv'
<1> SUFFICES ASSUME FilesInv, SourceInv, [Next]_vars PROVE SourceInv'
  OBVIOUS
<1>1. CASE UNCHANGED <<source, seen, command, at, content, phase>>
  BY <1>1 DEF SourceInv, ReadInv, AgainInv, Between, Upto, ConvertedAtOnce
<1>2. ASSUME UNCHANGED <<source, seen, command, at, content>>,
             \/ phase = "count" /\ phase' = "resolve"
             \/ phase = "snapshot" /\ phase' = "output"
             \/ phase # "idle" /\ phase' \in {"fail", "clear"}
      PROVE  SourceInv'
  BY <1>2 DEF SourceInv, ReadInv, AgainInv, Upto, ConvertedAtOnce
<1>3. CASE Count \/ Resolve \/ PublishSnapshot \/ Error
  BY <1>1, <1>2, <1>3 DEF Count, Resolve, PublishSnapshot, Error
<1>4. CASE Fail
  BY <1>2, <1>4, SourceEnd DEF Fail
<1>5. CASE LoadDone \/ PublishOutput \/ Clear \/ Crash
  BY <1>5, SourceEnd DEF LoadDone, PublishOutput, Clear, Crash
<1>6. QED
  BY <1>1, <1>3, <1>4, <1>5, SourceEdit, SourceStart, SourceRead, SourceResolved, SourceAgain
  DEF Next, vars

-----------------------------------------------------------------------------
(* The resolution of includes.                                             *)

(* The positions of a profile's includes with a property are finitely many.*)
LEMMA Positions ==
  ASSUME WalkInv, NEW p \in Profiles, NEW S, S \subseteq DOMAIN graph[p]
  PROVE  IsFiniteSet(S) /\ Cardinality(S) \in Nat /\ (Cardinality(S) = 0 <=> S = {})
<1>1. DOMAIN graph[p] = 1 .. Len(graph[p]) /\ Len(graph[p]) \in Nat
  BY DEF WalkInv
<1>2. IsFiniteSet(DOMAIN graph[p])
  <2>1. 1 \in Int /\ Len(graph[p]) \in Int
    BY <1>1
  <2>2. IsFiniteSet(1 .. Len(graph[p]))
    BY <2>1, FS_Interval
  <2>3. QED
    BY <1>1, <2>2
<1>3. IsFiniteSet(S)
  BY <1>2, FS_Subset
<1>4. QED
  BY <1>3, FS_CardinalityType, FS_EmptySet

(* Resolving q takes from pending[p] one for every include of q in p.      *)
LEMMA LeftIsUnresolved ==
  ASSUME WalkInv, NEW p \in Profiles, NEW q \in Profiles \ valid,
         pending[p] = Cardinality(Unresolved(p))
  PROVE  /\ Left(p, q) = Cardinality({n \in DOMAIN graph[p] : graph[p][n] \notin valid \cup {q}})
         /\ Left(p, q) \in Nat /\ Edges(p, q) \in Nat
         /\ Edges(p, q) > 0 => pending[p] # 0
         /\ Left(p, q) = 0 /\ Edges(p, q) = 0 => pending[p] = 0
<1> DEFINE E == {n \in DOMAIN graph[p] : graph[p][n] = q}
           L == {n \in DOMAIN graph[p] : graph[p][n] \notin valid \cup {q}}
<1>1. Unresolved(p) = E \cup L /\ E \cap L = {}
  BY DEF Unresolved
<1>2. /\ IsFiniteSet(E) /\ Cardinality(E) \in Nat
      /\ IsFiniteSet(L) /\ Cardinality(L) \in Nat
      /\ Cardinality(E \cap L) = 0
  BY <1>1, Positions, FS_EmptySet
<1>3. Cardinality(E \cup L) = Cardinality(E) + Cardinality(L) - Cardinality(E \cap L)
  BY <1>2, FS_Union
<1>4. Edges(p, q) = Cardinality(E)
  BY DEF Edges
<1> HIDE DEF E, L
<1>5. pending[p] = Cardinality(E) + Cardinality(L)
  BY <1>1, <1>2, <1>3
<1>6. Left(p, q) = Cardinality(L)
  BY <1>2, <1>4, <1>5 DEF Left
<1>7. QED
  BY <1>2, <1>4, <1>5, <1>6 DEF L

LEMMA WalkInit == Init => WalkInv
BY GenAssumption DEF Init, WalkInv, Zeros

(* Nothing else touches the walk.                                          *)
LEMMA WalkKept ==
  ASSUME WalkInv, UNCHANGED <<graph, walk>>, phase' # "resolve"
  PROVE  WalkInv'
BY DEF WalkInv, walk

LEMMA WalkEnd == WalkInv /\ (\E r : End(r)) => WalkInv'
BY DEF WalkInv, End, Zeros

LEMMA WalkCount == WalkInv /\ Count => WalkInv'
<1> SUFFICES ASSUME WalkInv, Count PROVE WalkInv'
  OBVIOUS
<1>1. /\ pending' = [p \in Profiles |-> Len(graph[p])] /\ valid' = {}
      /\ ready' = {p \in Profiles : Len(graph[p]) = 0}
      /\ visits' = [p \in Profiles |-> 1] /\ graph' = graph
  BY DEF Count, CountIncludes
<1>2. \A p \in Profiles : Len(graph[p]) \in Nat
  BY DEF WalkInv
<1>3. \A p \in Profiles : Cardinality(Unresolved(p))' = Len(graph[p])
  <2> SUFFICES ASSUME NEW p \in Profiles PROVE Cardinality(Unresolved(p)') = Len(graph[p])
    OBVIOUS
  <2>1. Unresolved(p)' = 1 .. Len(graph[p])
    BY <1>1 DEF Unresolved, WalkInv
  <2>2. QED
    BY <2>1, <1>2, FS_Interval
<1>4. QED
  BY <1>1, <1>2, <1>3 DEF WalkInv

LEMMA WalkResolve == WalkInv /\ Resolve => WalkInv'
<1> SUFFICES ASSUME WalkInv, Resolve PROVE WalkInv'
  OBVIOUS
<1> DEFINE p0 == CHOOSE q \in ready : TRUE
<1>1. /\ phase = "resolve" /\ phase' = "resolve" /\ UNCHANGED <<graph, command>>
      /\ p0 \in ready /\ p0 \in Profiles \ valid /\ pending[p0] = 0
  BY DEF Resolve, WalkInv
<1>2. \/ /\ Within(p0)
         /\ valid' = valid \cup {p0}
         /\ pending' = [q \in Profiles |-> Left(q, p0)]
         /\ heights' = [q \in Profiles |->
              IF Edges(q, p0) > 0 THEN Max({heights[q], heights[p0] + 1}) ELSE heights[q]]
         /\ visits' = [q \in Profiles |-> visits[q] + Edges(q, p0) * visits[p0]]
         /\ ready' = (ready \ {p0}) \cup {q \in Profiles : Edges(q, p0) > 0 /\ Left(q, p0) = 0}
      \/ /\ ~Within(p0)
         /\ ready' = ready \ {p0} /\ UNCHANGED <<valid, pending, heights, visits>>
  BY DEF Resolve
<1> HIDE DEF p0
<1>3. CASE ~Within(p0)
  <2>1. ready' = ready \ {p0} /\ UNCHANGED <<graph, command, valid, pending, heights, visits>>
    BY <1>1, <1>2, <1>3
  <2>2. \A p \in Profiles : /\ Unresolved(p)' = Unresolved(p)
                            /\ Within(p)' <=> Within(p)
    BY <2>1 DEF Unresolved, Within
  <2>3. QED
    BY <1>1, <1>3, <2>1, <2>2 DEF WalkInv
<1>4. CASE Within(p0)
  <2>1. /\ valid' = valid \cup {p0}
        /\ pending' = [q \in Profiles |-> Left(q, p0)]
        /\ heights' = [q \in Profiles |->
             IF Edges(q, p0) > 0 THEN Max({heights[q], heights[p0] + 1}) ELSE heights[q]]
        /\ visits' = [q \in Profiles |-> visits[q] + Edges(q, p0) * visits[p0]]
        /\ ready' = (ready \ {p0}) \cup {q \in Profiles : Edges(q, p0) > 0 /\ Left(q, p0) = 0}
    BY <1>2, <1>4
  <2>2. \A p \in Profiles : pending[p] = Cardinality(Unresolved(p))
    BY <1>1 DEF WalkInv
  <2>0. \A p \in Profiles :
          Left(p, p0) = Cardinality({n \in DOMAIN graph[p] : graph[p][n] \notin valid \cup {p0}})
    BY <1>1, <2>2, LeftIsUnresolved
  <2>3. \A p \in Profiles : /\ Left(p, p0) \in Nat /\ Edges(p, p0) \in Nat
                            /\ Edges(p, p0) > 0 => pending[p] # 0
                            /\ Left(p, p0) = 0 /\ Edges(p, p0) = 0 => pending[p] = 0
    BY <1>1, <2>2, LeftIsUnresolved
  <2>4. \A p \in Profiles : pending'[p] = Cardinality(Unresolved(p)')
    BY <1>1, <2>0, <2>1 DEF Unresolved
  <2>5. \A p \in Profiles : pending[p] = 0 => /\ Edges(p, p0) = 0
                                              /\ pending'[p] = 0
                                              /\ Within(p)' <=> Within(p)
    <3> SUFFICES ASSUME NEW p \in Profiles, pending[p] = 0
                 PROVE  Edges(p, p0) = 0 /\ pending'[p] = 0 /\ (Within(p)' <=> Within(p))
      OBVIOUS
    <3>1. Edges(p, p0) = 0
      BY <2>3
    <3>2. pending'[p] = 0
      BY <2>1, <3>1 DEF Left
    <3>3. visits[p] \in Int /\ visits[p0] \in Int
      BY <1>1 DEF WalkInv
    <3>4. heights'[p] = heights[p] /\ visits'[p] = visits[p]
      BY <2>1, <3>1, <3>3
    <3>5. QED
      BY <1>1, <3>1, <3>2, <3>4 DEF Within
  <2>6. pending' \in [Profiles -> Nat]
    BY <2>1, <2>3
  <2>7. visits' \in [Profiles -> Int]
    <3>1. \A q \in Profiles : visits[q] + Edges(q, p0) * visits[p0] \in Int
      BY <1>1, <2>3 DEF WalkInv
    <3>2. QED
      BY <2>1, <3>1
  <2>8. \A p \in Profiles : p \in valid' => pending'[p] = 0 /\ Within(p)'
    BY <1>1, <1>4, <2>1, <2>5 DEF WalkInv
  <2>9. \A p \in Profiles : p \in ready' => pending'[p] = 0
    BY <1>1, <2>1, <2>5 DEF WalkInv
  <2>10. ready' \subseteq Profiles \ valid' /\ valid' \subseteq Profiles
    <3>1. \A q \in Profiles : Edges(q, p0) > 0 => q \notin valid'
      BY <1>1, <2>1, <2>3 DEF WalkInv
    <3>2. QED
      BY <1>1, <2>1, <3>1 DEF WalkInv
  <2>11. \A p \in Profiles : pending'[p] = 0 => p \in ready' \/ p \in valid' \/ ~Within(p)'
    <3> SUFFICES ASSUME NEW p \in Profiles, pending'[p] = 0, p \notin ready', p \notin valid'
                 PROVE  ~Within(p)'
      OBVIOUS
    <3>1. Left(p, p0) = 0
      BY <2>1
    <3>2. Edges(p, p0) = 0
      BY <2>1, <2>3, <3>1
    <3>3. pending[p] = 0
      BY <2>3, <3>1, <3>2
    <3>4. p \notin ready /\ p \notin valid
      BY <2>1
    <3>5. QED
      BY <1>1, <2>5, <3>3, <3>4 DEF WalkInv
  <2>12. QED
    BY <1>1, <2>4, <2>6, <2>7, <2>8, <2>9, <2>10, <2>11 DEF WalkInv
<1>5. QED
  BY <1>3, <1>4

LEMMA WalkNext == WalkInv /\ [Next]_vars => WalkInv'
<1> SUFFICES ASSUME WalkInv, [Next]_vars PROVE WalkInv'
  OBVIOUS
<1>1. CASE UNCHANGED <<graph, walk, phase, command>>
  BY <1>1 DEF WalkInv, walk, Unresolved, Within
<1>2. CASE StartConvert \/ StartRewrite \/ StartLoad
  BY <1>2, WalkKept DEF StartConvert, StartRewrite, StartLoad, Begin
<1>3. CASE ReadSource \/ ReadAgain \/ PublishSnapshot \/ Error
  BY <1>3, WalkKept DEF ReadSource, ReadAgain, PublishSnapshot, Error
<1>4. CASE Resolved
  <2>1. phase' # "resolve"
    BY <1>4, Zenon DEF Resolved
  <2>2. QED
    BY <1>4, <2>1, WalkKept DEF Resolved
<1>5. CASE Fail
  BY <1>5, WalkKept, WalkEnd DEF Fail
<1>6. CASE LoadDone \/ PublishOutput \/ Clear \/ Crash
  BY <1>6, WalkEnd DEF LoadDone, PublishOutput, Clear, Crash
<1>7. CASE \E p \in Profiles : Edit(p)
  BY <1>1, <1>7 DEF Edit
<1>8. QED
  BY <1>1, <1>2, <1>3, <1>4, <1>5, <1>6, <1>7, WalkCount, WalkResolve DEF Next, vars

-----------------------------------------------------------------------------
(* The theorems.                                                           *)

IndInv == FilesInv /\ SourceInv /\ WalkInv

(* The files on disk, what was read of the sources and the resolution of   *)
(* includes agree at every step of convert and rewrite.                    *)
THEOREM Invariance == Spec => []IndInv
<1>1. Init => IndInv
  BY FilesInit, SourceInit, WalkInit DEF IndInv
<1>2. IndInv /\ [Next]_vars => IndInv'
  BY FilesNext, SourceNext, WalkNext DEF IndInv, SourceInv
<1>3. QED
  BY <1>1, <1>2, PTL DEF Spec

(* The variables have their types; no counter of invalid_reference_profiles*)
(* falls below zero, and no profile is taken twice.                        *)
THEOREM CountersStayNatural == Spec => []TypeOK
<1>1. IndInv => TypeOK
  BY DEF IndInv, FilesInv, FilesOK, SourceInv, WalkInv, TypeOK
<1>2. QED
  BY <1>1, Invariance, PTL

(* invalid_reference_profiles blocks a profile that includes a blocked or  *)
(* missing one or is beyond the limits, and no other.                      *)
THEOREM OnlyIncludesBlock == Spec => []BlockedByIncludes
<1>1. IndInv => BlockedByIncludes
  <2> SUFFICES ASSUME WalkInv, phase = "resolve", ready = {}, NEW p \in Profiles
               PROVE  p \in valid <=> Within(p) /\ \A n \in DOMAIN graph[p] : graph[p][n] \in valid
    BY DEF IndInv, BlockedByIncludes
  <2>1. pending[p] = 0 <=> Unresolved(p) = {}
    BY Positions DEF WalkInv, Unresolved
  <2>2. pending[p] = 0 <=> \A n \in DOMAIN graph[p] : graph[p][n] \in valid
    BY <2>1 DEF Unresolved
  <2>3. QED
    BY <2>2 DEF WalkInv
<1>2. QED
  BY <1>1, Invariance, PTL

(* What convert publishes is what all sources were at one moment of its    *)
(* run, however they were edited meanwhile: it reads them twice.           *)
THEOREM ConvertIsASnapshot == Spec => []ConvertedAtOnce
<1>1. IndInv => ConvertedAtOnce
  BY DEF IndInv, SourceInv
<1>2. QED
  BY <1>1, Invariance, PTL

(* Wherever convert or rewrite fails or is killed, the snapshot that a     *)
(* reader finds is not older than the CBOR file, and matches it if it is   *)
(* of the same run.                                                        *)
THEOREM SnapshotNeverOlder == Spec => []SnapshotCoversCbor
<1>1. IndInv => SnapshotCoversCbor
  BY DEF IndInv, FilesInv
<1>2. QED
  BY <1>1, Invariance, PTL

(* A convert that reports a failure has removed both files; rewrite and    *)
(* readers remove none.                                                    *)
THEOREM FailuresCleanUp == Spec => CleansUp
<1> DEFINE Keeps == command' # "convert" => /\ cbor # Absent => cbor' # Absent
                                            /\ snapshot # Absent => snapshot' # Absent
<1>1. IndInv => FailedClears
  BY DEF IndInv, FilesInv
<1>2. IndInv /\ IndInv' /\ [Next]_vars => [Keeps]_vars
  <2> SUFFICES ASSUME IndInv, IndInv', Next, command' # "convert"
               PROVE  /\ cbor # Absent => cbor' # Absent
                      /\ snapshot # Absent => snapshot' # Absent
    OBVIOUS
  <2>1. CASE UNCHANGED disk
    BY <2>1 DEF disk
  <2>2. CASE PublishSnapshot
    <3>1. snapshot' \in Snapshots /\ cbor' = cbor
      BY <2>2 DEF PublishSnapshot, IndInv, FilesInv, FilesOK, FallbackManifest, Snapshots, Databases
    <3>2. QED
      BY <3>1, AbsentIsNothing
  <2>3. CASE PublishOutput
    BY <2>3, AbsentIsNothing DEF PublishOutput, IndInv, FilesInv, FilesOK
  <2>4. CASE Fail
    BY <2>1, <2>4 DEF Fail, disk
  <2>5. CASE Clear
    BY <2>5 DEF Clear, End, IndInv, FilesInv, FilesOK
  <2>6. QED
    BY <2>1, <2>2, <2>3, <2>4, <2>5 DEF Next, Edit, StartConvert, StartRewrite, StartLoad, Begin,
       ReadSource, Count, Resolve, Resolved, LoadDone, ReadAgain, Error, Crash
<1>3. QED
  BY <1>1, <1>2, Invariance, PTL DEF Spec, CleansUp, OthersKeep

-----------------------------------------------------------------------------
(* Least elements: what stands for induction in the proofs that follow.    *)

LEMMA LeastNat ==
  ASSUME NEW T, T \subseteq Nat, T # {}
  PROVE  \E x \in T : \A y \in T : x <= y
<1> DEFINE I == {1 .. n : n \in T}
           R == StrictSubsetOrdering(Nat)
<1>1. I \subseteq FiniteSubsetsOf(Nat) /\ I # {}
  <2>1. \A n \in T : IsFiniteSet(1 .. n) /\ 1 .. n \subseteq Nat
    BY FS_Interval
  <2>2. QED
    BY <2>1 DEF FiniteSubsetsOf
<1>2. IsWellFoundedOn(R, FiniteSubsetsOf(Nat))
  BY FS_StrictSubsetOrderingWellFounded
<1> HIDE DEF R
<1>3. \E s \in I : \A t \in I : ~ (<<t, s>> \in R)
  <2> HIDE DEF I
  <2>1. QED
    BY <1>1, <1>2, WFMin
<1>4. PICK x \in T : \A y \in T : ~ (<<1 .. y, 1 .. x>> \in R)
  BY <1>3
<1>5. ASSUME NEW y \in T, y < x PROVE FALSE
  <2>1. 1 .. y \subseteq 1 .. x /\ 1 .. y # 1 .. x /\ 1 .. y \in SUBSET Nat /\ 1 .. x \in SUBSET Nat
    <3>1. x \in 1 .. x /\ x \notin 1 .. y
      BY <1>5
    <3>2. QED
      BY <1>5, <3>1
  <2>2. <<1 .. y, 1 .. x>> \in R
    BY <2>1 DEF R, StrictSubsetOrdering
  <2>3. QED
    BY <1>4, <2>2
<1>6. \A y \in T : x <= y
  BY <1>5
<1>7. QED
  BY <1>6

-----------------------------------------------------------------------------
(* Chains of includes.                                                     *)

GraphOK == graph \in [Profiles -> Seq(Nat)]

(* A chain with one more include before it.                                *)
Behind(include, s, k) == [j \in 1 .. k + 1 |-> IF j = 1 THEN include ELSE s[j - 1]]
Rest(s, k) == [j \in 1 .. k |-> s[j + 1]]

LEMMA IncludeFacts ==
  /\ \A p \in Profiles : \A n \in DOMAIN graph[p] : <<p, n>> \in Includes
  /\ \A i \in Includes : i[1] \in Profiles /\ i[2] \in DOMAIN graph[i[1]] /\ i = <<i[1], i[2]>>
  /\ \A p, n : Target(<<p, n>>) = graph[p][n]
<1>1. \A p \in Profiles : \A n \in DOMAIN graph[p] : <<p, n>> \in Includes
  BY DEF Includes
<1>2. ASSUME NEW i \in Includes
      PROVE  i[1] \in Profiles /\ i[2] \in DOMAIN graph[i[1]] /\ i = <<i[1], i[2]>>
  <2>1. PICK p \in Profiles : i \in {<<p, n>> : n \in DOMAIN graph[p]}
    BY DEF Includes
  <2>2. PICK n \in DOMAIN graph[p] : i = <<p, n>>
    BY <2>1
  <2>3. QED
    BY <2>2
<1>3. QED
  BY <1>1, <1>2 DEF Target

LEMMA OneInclude ==
  ASSUME NEW p \in Profiles, NEW n \in DOMAIN graph[p], NEW s
  PROVE  Behind(<<p, n>>, s, 0) \in Chains(p, 1) /\ Behind(<<p, n>>, s, 0)[1] = <<p, n>>
<1>1. <<p, n>> \in Includes /\ <<p, n>>[1] = p
  BY IncludeFacts
<1> DEFINE i == <<p, n>>
           c == Behind(i, s, 0)
<1> HIDE DEF i
<1>2. c = [j \in 1 .. 1 |-> i]
  BY DEF Behind
<1>3. c \in [1 .. 1 -> Includes] /\ c[1] = i
  BY <1>1, <1>2 DEF i
<1> HIDE DEF c
<1>4. \A m \in 1 .. 1 - 1 : Target(c[m]) = c[m + 1][1]
  OBVIOUS
<1>5. c \in Chains(p, 1)
  BY <1>1, <1>3, <1>4 DEF Chains, i
<1>6. QED
  BY <1>3, <1>5 DEF c, i

LEMMA ConsChain ==
  ASSUME NEW p \in Profiles, NEW n \in DOMAIN graph[p], NEW k \in Nat \ {0},
         NEW s \in Chains(graph[p][n], k)
  PROVE  Behind(<<p, n>>, s, k) \in Chains(p, k + 1) /\ Behind(<<p, n>>, s, k)[1] = <<p, n>>
<1> DEFINE i == <<p, n>>
           c == Behind(i, s, k)
<1>1. i \in Includes /\ i[1] = p /\ Target(i) = graph[p][n]
  BY IncludeFacts
<1> HIDE DEF i
<1>2. /\ s \in [1 .. k -> Includes] /\ s[1][1] = graph[p][n]
      /\ \A j \in 1 .. k - 1 : Target(s[j]) = s[j + 1][1]
  BY DEF Chains
<1>3. c \in [1 .. k + 1 -> Includes] /\ c[1] = i /\ \A j \in 1 .. k : c[j + 1] = s[j]
  <2>1. \A j \in 1 .. k + 1 : j # 1 => j - 1 \in 1 .. k
    OBVIOUS
  <2>2. c \in [1 .. k + 1 -> Includes]
    BY <1>1, <1>2, <2>1 DEF Behind
  <2>3. c[1] = i
    BY DEF Behind
  <2>4. ASSUME NEW j \in 1 .. k PROVE c[j + 1] = s[j]
    <3>1. j + 1 \in 1 .. k + 1 /\ j + 1 # 1 /\ (j + 1) - 1 = j
      OBVIOUS
    <3>2. QED
      BY <3>1 DEF Behind
  <2>5. QED
    BY <2>2, <2>3, <2>4
<1> HIDE DEF c
<1>4. ASSUME NEW j \in 1 .. (k + 1) - 1 PROVE Target(c[j]) = c[j + 1][1]
  <2>1. CASE j = 1
    <3>1. c[2] = s[1]
      <4>1. 1 \in 1 .. k
        OBVIOUS
      <4>2. c[1 + 1] = s[1]
        BY <1>3, <4>1
      <4>3. QED
        BY <4>2
    <3>2. QED
      BY <1>1, <1>2, <1>3, <2>1, <3>1
  <2>2. CASE j # 1
    <3>1. PICK m \in 1 .. k - 1 : j = m + 1
      <4>1. j - 1 \in 1 .. k - 1 /\ j = (j - 1) + 1
        BY <2>2
      <4>2. QED
        BY <4>1
    <3>2. m \in 1 .. k /\ m + 1 \in 1 .. k
      BY <3>1
    <3>3. c[j] = s[m] /\ c[j + 1] = s[m + 1]
      BY <1>3, <3>1, <3>2
    <3>4. QED
      BY <1>2, <3>1, <3>3
  <2>3. QED
    BY <2>1, <2>2
<1>5. c \in Chains(p, k + 1)
  BY <1>1, <1>3, <1>4 DEF Chains
<1>6. QED
  BY <1>3, <1>5 DEF c, i

LEMMA FirstInclude ==
  ASSUME NEW p \in Profiles, NEW k \in Nat \ {0}, NEW s \in Chains(p, k)
  PROVE  /\ \E n \in DOMAIN graph[p] : s[1] = <<p, n>> /\ Target(s[1]) = graph[p][n]
         /\ \A j \in 1 .. k : s[j] \in Includes
<1>1. s \in [1 .. k -> Includes] /\ s[1][1] = p
  BY DEF Chains
<1>2. s[1] \in Includes
  BY <1>1
<1>3. s[1] = <<p, s[1][2]>> /\ s[1][2] \in DOMAIN graph[p]
  BY <1>1, <1>2, IncludeFacts
<1>4. Target(s[1]) = graph[p][s[1][2]]
  BY <1>1 DEF Target
<1>5. QED
  BY <1>1, <1>3, <1>4

LEMMA RestChain ==
  ASSUME NEW p \in Profiles, NEW k \in Nat \ {0}, NEW s \in Chains(p, k + 1)
  PROVE  /\ Target(s[1]) \in Profiles
         /\ Rest(s, k) \in Chains(Target(s[1]), k) /\ s = Behind(s[1], Rest(s, k), k)
<1>1. /\ s \in [1 .. k + 1 -> Includes]
      /\ \A j \in 1 .. k : Target(s[j]) = s[j + 1][1]
  <2>1. (k + 1) - 1 = k
    OBVIOUS
  <2>2. QED
    BY <2>1 DEF Chains
<1> DEFINE r == Rest(s, k)
<1>2. r \in [1 .. k -> Includes] /\ \A j \in 1 .. k : r[j] = s[j + 1]
  BY <1>1 DEF Rest
<1> HIDE DEF r
<1>3. Target(s[1]) = s[2][1] /\ s[2] \in Includes /\ r[1] = s[2]
  <2>1. 1 \in 1 .. k /\ 1 + 1 = 2 /\ 2 \in 1 .. k + 1
    OBVIOUS
  <2>2. QED
    BY <1>1, <1>2, <2>1
<1>4. Target(s[1]) \in Profiles
  BY <1>3, IncludeFacts
<1>5. \A j \in 1 .. k - 1 : Target(r[j]) = r[j + 1][1]
  <2> TAKE j \in 1 .. k - 1
  <2>1. j \in 1 .. k /\ j + 1 \in 1 .. k
    OBVIOUS
  <2>2. QED
    BY <1>1, <1>2, <2>1
<1>6. r \in Chains(Target(s[1]), k)
  BY <1>2, <1>3, <1>5 DEF Chains
<1>7. s = Behind(s[1], r, k)
  <2>1. \A j \in 1 .. k + 1 : s[j] = IF j = 1 THEN s[1] ELSE r[j - 1]
    <3> TAKE j \in 1 .. k + 1
    <3>1. CASE j # 1
      <4>1. j - 1 \in 1 .. k /\ (j - 1) + 1 = j
        BY <3>1
      <4>2. r[j - 1] = s[(j - 1) + 1]
        BY <1>2, <4>1
      <4>3. QED
        BY <3>1, <4>1, <4>2
    <3>2. QED
      BY <3>1
  <2>2. s = [j \in 1 .. k + 1 |-> s[j]]
    BY <1>1
  <2>3. QED
    BY <2>1, <2>2 DEF Behind
<1>8. QED
  BY <1>4, <1>6, <1>7 DEF r

(* Where there is a chain there are all shorter ones.                      *)
LEMMA CutChain ==
  ASSUME NEW p, NEW k \in Nat \ {0}, NEW m \in Nat \ {0}, m <= k, Chains(p, m) = {}
  PROVE  Chains(p, k) = {}
<1> SUFFICES ASSUME NEW s \in Chains(p, k) PROVE FALSE
  OBVIOUS
<1>1. /\ s \in [1 .. k -> Includes] /\ s[1][1] = p
      /\ \A j \in 1 .. k - 1 : Target(s[j]) = s[j + 1][1]
  BY DEF Chains
<1> DEFINE c == [j \in 1 .. m |-> s[j]]
<1>2. c \in [1 .. m -> Includes] /\ \A j \in 1 .. m : c[j] = s[j]
  BY <1>1
<1> HIDE DEF c
<1>3. c[1][1] = p
  BY <1>1, <1>2
<1>4. \A j \in 1 .. m - 1 : Target(c[j]) = c[j + 1][1]
  <2> TAKE j \in 1 .. m - 1
  <2>1. j \in 1 .. m /\ j + 1 \in 1 .. m /\ j \in 1 .. k - 1
    OBVIOUS
  <2>2. QED
    BY <1>1, <1>2, <2>1
<1>5. c \in Chains(p, m)
  BY <1>2, <1>3, <1>4 DEF Chains
<1>6. QED
  BY <1>5

-----------------------------------------------------------------------------
(* What the resolution of includes measures.                               *)

Closed(p) == \A n \in DOMAIN graph[p] : graph[p][n] \in valid

(* The chains from p whose first include is resolved.                      *)
Known(p) == {s \in UNION {Chains(p, k) : k \in 1 .. MaxDepth} : Target(s[1]) \in valid}

(* The height of a profile is one more than the largest of its resolved    *)
(* includes, and its visits count itself and the known chains.             *)
HeightInv ==
  /\ heights \in [Profiles -> Nat \ {0}]
  /\ \A p \in Profiles : \A n \in DOMAIN graph[p] :
       graph[p][n] \in valid => heights[graph[p][n]] + 1 <= heights[p]
  /\ \A p \in Profiles :
       \/ heights[p] = 1
       \/ \E n \in DOMAIN graph[p] :
            graph[p][n] \in valid /\ heights[p] = heights[graph[p][n]] + 1
  /\ \A p \in valid : Closed(p)
VisitInv == \A p \in Profiles : IsFiniteSet(Known(p)) /\ visits[p] = 1 + Cardinality(Known(p))

TreeInv == phase = "resolve" => HeightInv /\ VisitInv

(* No chain from a profile whose includes are resolved is as long as its   *)
(* height ...                                                              *)
LEMMA HeightBounds ==
  ASSUME valid \subseteq Profiles, HeightInv, NEW p0 \in Profiles, Closed(p0)
  PROVE  Chains(p0, heights[p0]) = {}
<1> DEFINE Bad(p) == p \in Profiles /\ Closed(p) /\ Chains(p, heights[p]) # {}
           T == {heights[p] : p \in {q \in Profiles : Bad(q)}}
<1> SUFFICES ASSUME Bad(p0) PROVE FALSE
  OBVIOUS
<1>1. T \subseteq Nat /\ T # {}
  BY DEF HeightInv
<1>2. PICK h \in T : \A y \in T : h <= y
  <2> HIDE DEF T
  <2>1. QED
    BY <1>1, LeastNat
<1>3. PICK p \in Profiles : Bad(p) /\ heights[p] = h
  BY <1>2
<1>4. h \in Nat \ {0}
  BY <1>3 DEF HeightInv
<1>5. PICK s \in Chains(p, h) : TRUE
  BY <1>3
<1>6. PICK n \in DOMAIN graph[p] : s[1] = <<p, n>> /\ Target(s[1]) = graph[p][n]
  BY <1>4, FirstInclude
<1> DEFINE q == graph[p][n]
<1>7. q \in valid /\ q \in Profiles /\ Closed(q)
  BY <1>3 DEF HeightInv, Closed
<1>8. heights[q] + 1 <= h /\ heights[q] \in Nat \ {0}
  BY <1>3, <1>7 DEF HeightInv
<1> HIDE DEF q
<1>9. h - 1 \in Nat \ {0} /\ (h - 1) + 1 = h /\ heights[q] <= h - 1
  BY <1>4, <1>8
<1>10. Chains(q, h - 1) # {}
  <2>1. s \in Chains(p, (h - 1) + 1)
    BY <1>5, <1>9
  <2>2. Rest(s, h - 1) \in Chains(Target(s[1]), h - 1)
    BY <1>9, <2>1, RestChain
  <2>3. QED
    BY <1>6, <2>2 DEF q
<1>11. Chains(q, heights[q]) # {}
  BY <1>8, <1>9, <1>10, CutChain
<1>12. heights[q] \in T
  BY <1>7, <1>11
<1>13. h <= heights[q]
  BY <1>2, <1>12
<1>14. QED
  BY <1>4, <1>8, <1>13

(* ... and there is one that is one shorter.                               *)
LEMMA HeightReached ==
  ASSUME valid \subseteq Profiles, HeightInv, NEW p0 \in Profiles, heights[p0] # 1
  PROVE  Chains(p0, heights[p0] - 1) # {}
<1> DEFINE Bad(p) == heights[p] # 1 /\ Chains(p, heights[p] - 1) = {}
           T == {heights[p] : p \in {q \in Profiles : Bad(q)}}
<1> SUFFICES ASSUME Bad(p0) PROVE FALSE
  OBVIOUS
<1>1. T \subseteq Nat /\ T # {}
  BY DEF HeightInv
<1>2. PICK h \in T : \A y \in T : h <= y
  <2> HIDE DEF T
  <2>1. QED
    BY <1>1, LeastNat
<1>3. PICK p \in Profiles : Bad(p) /\ heights[p] = h
  BY <1>2
<1>4. PICK n \in DOMAIN graph[p] : graph[p][n] \in valid /\ h = heights[graph[p][n]] + 1
  BY <1>3 DEF HeightInv
<1> DEFINE q == graph[p][n]
<1>5. q \in Profiles /\ heights[q] \in Nat \ {0} /\ h = heights[q] + 1 /\ h - 1 = heights[q]
  BY <1>4 DEF HeightInv
<1>6. CASE heights[q] = 1
  <2>1. Chains(p, 1) # {}
    BY OneInclude
  <2>2. QED
    BY <1>3, <1>5, <1>6, <2>1
<1>7. CASE heights[q] # 1
  <2>1. Chains(q, heights[q] - 1) # {}
    <3>1. ASSUME Bad(q) PROVE FALSE
      <4>1. heights[q] \in T
        BY <1>5, <3>1
      <4>2. h <= heights[q]
        BY <1>2, <4>1
      <4>3. QED
        BY <1>5, <4>2
    <3>2. QED
      BY <1>7, <3>1
  <2>2. PICK s \in Chains(q, heights[q] - 1) : TRUE
    BY <2>1
  <2>3. heights[q] - 1 \in Nat \ {0} /\ (heights[q] - 1) + 1 = heights[q]
    BY <1>5, <1>7
  <2>4. Chains(p, heights[q]) # {}
    BY <2>2, <2>3, ConsChain
  <2>5. QED
    BY <1>3, <1>5, <2>4
<1>8. QED
  BY <1>6, <1>7

(* Chains from a valid profile stay among valid ones.                      *)
LEMMA ValidTargets ==
  ASSUME HeightInv, NEW p \in Profiles, p \in valid, NEW k \in Nat \ {0}, NEW s \in Chains(p, k)
  PROVE  Target(s[k]) \in valid
<1> DEFINE T == {j \in 1 .. k : Target(s[j]) \notin valid}
<1>1. /\ s[1][1] = p /\ \A j \in 1 .. k : s[j] \in Includes
      /\ \A j \in 1 .. k - 1 : Target(s[j]) = s[j + 1][1]
  BY DEF Chains
<1>2. \A j \in 1 .. k : s[j][1] \in valid => Target(s[j]) \in valid
  <2> SUFFICES ASSUME NEW j \in 1 .. k, s[j][1] \in valid PROVE Target(s[j]) \in valid
    OBVIOUS
  <2>1. s[j][2] \in DOMAIN graph[s[j][1]]
    BY <1>1, IncludeFacts
  <2>2. QED
    BY <2>1 DEF HeightInv, Closed, Target
<1>3. SUFFICES ASSUME T # {} PROVE FALSE
  <2>1. k \in 1 .. k
    OBVIOUS
  <2>2. QED
    BY <2>1
<1>4. PICK j \in T : \A i \in T : j <= i
  <2>1. T \subseteq Nat
    OBVIOUS
  <2> HIDE DEF T
  <2>2. QED
    BY <1>3, <2>1, LeastNat
<1>5. CASE j = 1
  BY <1>1, <1>2, <1>4, <1>5
<1>6. CASE j # 1
  <2>1. j - 1 \in 1 .. k /\ j - 1 \in 1 .. k - 1 /\ (j - 1) + 1 = j /\ ~(j <= j - 1)
    BY <1>4, <1>6
  <2>2. Target(s[j - 1]) \in valid
    BY <1>4, <2>1
  <2>3. s[j][1] \in valid
    BY <1>1, <2>1, <2>2
  <2>4. QED
    BY <1>2, <1>4, <2>3
<1>7. QED
  BY <1>5, <1>6

(* The chains from q whose first include is one of p.                      *)
Through(q, p) == {s \in UNION {Chains(q, k) : k \in 1 .. MaxDepth} : Target(s[1]) = p}

(* What may follow such an include: nothing, or a chain from p.            *)
Tails(p) == {<< >>} \cup Known(p)

LEMMA ChainLength ==
  ASSUME NEW p, NEW k \in Nat, NEW s \in Chains(p, k)
  PROVE  Len(s) = k /\ DOMAIN s = 1 .. k
<1>1. s \in [1 .. k -> Includes]
  BY DEF Chains
<1>2. s \in Seq(Includes)
  BY <1>1
<1>3. QED
  BY <1>1, <1>2

LEMMA TailFacts ==
  ASSUME valid \subseteq Profiles, HeightInv, NEW p \in Profiles, Closed(p), heights[p] <= MaxDepth,
         NEW t \in Tails(p)
  PROVE  /\ Len(t) \in 0 .. MaxDepth - 1 /\ DOMAIN t = 1 .. Len(t)
         /\ t = [j \in 1 .. Len(t) |-> t[j]]
         /\ Len(t) # 0 => t \in Chains(p, Len(t))
<1>1. CASE t = << >>
  <2>1. Len(t) = 0 /\ DOMAIN t = 1 .. 0 /\ t = [j \in 1 .. 0 |-> t[j]]
    BY <1>1
  <2>2. QED
    BY <2>1, GenAssumption
<1>2. CASE t # << >>
  <2>1. PICK k \in 1 .. MaxDepth : t \in Chains(p, k)
    BY <1>2 DEF Tails, Known
  <2>2. Len(t) = k /\ DOMAIN t = 1 .. k
    BY <2>1, ChainLength
  <2>3. ~(heights[p] <= k)
    <3>1. Chains(p, heights[p]) = {} /\ heights[p] \in Nat \ {0}
      BY HeightBounds DEF HeightInv
    <3>2. QED
      BY <2>1, <3>1, CutChain
  <2>4. k \in 0 .. MaxDepth - 1
    BY <2>1, <2>3, GenAssumption DEF HeightInv
  <2>5. t = [j \in 1 .. k |-> t[j]]
    BY <2>1 DEF Chains
  <2>6. QED
    BY <2>1, <2>2, <2>4, <2>5
<1>3. QED
  BY <1>1, <1>2

LEMMA TailThrough ==
  ASSUME valid \subseteq Profiles, HeightInv, NEW p \in Profiles, Closed(p), heights[p] <= MaxDepth,
         NEW q \in Profiles, NEW n \in DOMAIN graph[q], graph[q][n] = p, NEW t \in Tails(p)
  PROVE  Behind(<<q, n>>, t, Len(t)) \in Through(q, p)
<1> DEFINE c == Behind(<<q, n>>, t, Len(t))
<1>1. /\ Len(t) \in 0 .. MaxDepth - 1 /\ (Len(t) # 0 => t \in Chains(p, Len(t)))
  BY TailFacts
<1>2. Len(t) \in Nat /\ Len(t) + 1 \in 1 .. MaxDepth
  BY <1>1, GenAssumption
<1>3. c \in Chains(q, Len(t) + 1) /\ c[1] = <<q, n>>
  <2>1. CASE Len(t) = 0
    BY <2>1, OneInclude
  <2>2. CASE Len(t) # 0
    BY <1>1, <1>2, <2>2, ConsChain
  <2>3. QED
    BY <2>1, <2>2
<1> HIDE DEF c
<1>4. Target(c[1]) = p
  BY <1>3, IncludeFacts
<1>5. c \in UNION {Chains(q, k) : k \in 1 .. MaxDepth}
  BY <1>2, <1>3
<1>6. QED
  BY <1>4, <1>5 DEF Through, c

LEMMA ThroughTail ==
  ASSUME valid \subseteq Profiles, HeightInv, NEW p \in Profiles, Closed(p),
         NEW q \in Profiles, NEW s \in Through(q, p)
  PROVE  \E n \in DOMAIN graph[q] : \E t \in Tails(p) :
           graph[q][n] = p /\ s = Behind(<<q, n>>, t, Len(t))
<1>1. PICK k \in 1 .. MaxDepth : s \in Chains(q, k)
  BY DEF Through
<1>2. Target(s[1]) = p
  BY DEF Through
<1>3. k \in Nat \ {0}
  BY <1>1, GenAssumption
<1>4. PICK n \in DOMAIN graph[q] : s[1] = <<q, n>> /\ graph[q][n] = p
  BY <1>1, <1>2, <1>3, FirstInclude
<1>5. CASE k = 1
  <2>1. s = [j \in 1 .. 1 |-> s[1]]
    <3>1. s \in [1 .. 1 -> Includes]
      BY <1>1, <1>5 DEF Chains
    <3>2. QED
      BY <3>1
  <2>2. s = Behind(s[1], << >>, 0)
    <3>1. Behind(s[1], << >>, 0) = [j \in 1 .. 1 |-> s[1]]
      BY DEF Behind
    <3>2. QED
      BY <2>1, <3>1
  <2>3. << >> \in Tails(p) /\ Len(<< >>) = 0
    BY DEF Tails
  <2>4. QED
    BY <1>4, <2>2, <2>3
<1>6. CASE k # 1
  <2>1. k - 1 \in Nat \ {0} /\ (k - 1) + 1 = k /\ k - 1 \in 1 .. MaxDepth
    BY <1>1, <1>3, <1>6, GenAssumption
  <2> DEFINE t == Rest(s, k - 1)
  <2>2. s \in Chains(q, (k - 1) + 1)
    BY <1>1, <2>1
  <2>3. t \in Chains(p, k - 1) /\ s = Behind(s[1], t, k - 1)
    BY <1>2, <2>1, <2>2, RestChain
  <2> HIDE DEF t
  <2>4. Len(t) = k - 1
    BY <2>1, <2>3, ChainLength
  <2>5. Target(t[1]) \in valid
    BY <2>1, <2>3, FirstInclude DEF Closed
  <2>6. t \in Tails(p)
    BY <2>1, <2>3, <2>5 DEF Tails, Known
  <2>7. QED
    BY <1>4, <2>3, <2>4, <2>6
<1>7. QED
  BY <1>5, <1>6

(* An include and what follows it are found again in the chain.            *)
LEMMA BehindInjective ==
  ASSUME NEW i1, NEW i2, NEW k1 \in Nat, NEW k2 \in Nat, NEW t1, NEW t2,
         t1 = [j \in 1 .. k1 |-> t1[j]], t2 = [j \in 1 .. k2 |-> t2[j]],
         Behind(i1, t1, k1) = Behind(i2, t2, k2)
  PROVE  i1 = i2 /\ t1 = t2
<1> DEFINE c1 == Behind(i1, t1, k1)
           c2 == Behind(i2, t2, k2)
<1>1. DOMAIN c1 = 1 .. k1 + 1 /\ DOMAIN c2 = 1 .. k2 + 1
  BY DEF Behind
<1>2. k1 = k2
  <2>1. 1 .. k1 + 1 = 1 .. k2 + 1
    BY <1>1
  <2>2. k1 + 1 \in 1 .. k1 + 1 /\ k2 + 1 \in 1 .. k2 + 1
    OBVIOUS
  <2>3. k1 + 1 <= k2 + 1 /\ k2 + 1 <= k1 + 1
    BY <2>1, <2>2
  <2>4. QED
    BY <2>3
<1>3. c1[1] = i1 /\ c2[1] = i2
  BY DEF Behind
<1>4. ASSUME NEW j \in 1 .. k1 PROVE t1[j] = t2[j]
  <2>1. j + 1 \in 1 .. k1 + 1 /\ j + 1 # 1 /\ (j + 1) - 1 = j
    OBVIOUS
  <2>2. c1[j + 1] = t1[j]
    BY <2>1 DEF Behind
  <2>3. c2[j + 1] = t2[j]
    BY <1>2, <2>1 DEF Behind
  <2>4. QED
    BY <2>2, <2>3
<1>5. t1 = t2
  BY <1>2, <1>4
<1>6. QED
  BY <1>3, <1>5

(* One chain for every include of p in q and everything that may follow.   *)
LEMMA CountThrough ==
  ASSUME WalkInv, HeightInv, VisitInv, NEW p \in Profiles, Closed(p), heights[p] <= MaxDepth,
         NEW q \in Profiles
  PROVE  IsFiniteSet(Through(q, p)) /\ Cardinality(Through(q, p)) = Edges(q, p) * visits[p]
<1> DEFINE E == {n \in DOMAIN graph[q] : graph[q][n] = p}
           f == [e \in E \X Tails(p) |-> Behind(<<q, e[1]>>, e[2], Len(e[2]))]
<1>0. valid \subseteq Profiles
  BY DEF WalkInv
<1>1. IsFiniteSet(E) /\ Cardinality(E) \in Nat /\ Edges(q, p) = Cardinality(E)
  BY Positions DEF Edges
<1>2. IsFiniteSet(Tails(p)) /\ Cardinality(Tails(p)) = visits[p]
  <2>1. IsFiniteSet(Known(p)) /\ visits[p] = 1 + Cardinality(Known(p)) /\ Cardinality(Known(p)) \in Nat
    BY FS_CardinalityType DEF VisitInv
  <2>2. << >> \notin Known(p)
    <3> SUFFICES ASSUME << >> \in Known(p) PROVE FALSE
      OBVIOUS
    <3>1. PICK k \in 1 .. MaxDepth : << >> \in Chains(p, k)
      BY DEF Known
    <3>2. Len(<< >>) = k
      BY <3>1, ChainLength
    <3>3. QED
      BY <3>1, <3>2
  <2>3. /\ IsFiniteSet(Known(p) \cup {<< >>})
        /\ Cardinality(Known(p) \cup {<< >>}) = Cardinality(Known(p)) + 1
    BY <2>1, <2>2, FS_AddElement
  <2>4. Tails(p) = Known(p) \cup {<< >>}
    BY DEF Tails
  <2>5. QED
    BY <2>1, <2>3, <2>4
<1>3. IsFiniteSet(E \X Tails(p)) /\ Cardinality(E \X Tails(p)) = Cardinality(E) * Cardinality(Tails(p))
  BY <1>1, <1>2, FS_Product
<1>4. f \in [E \X Tails(p) -> Through(q, p)]
  BY <1>0, TailThrough
<1>5. ASSUME NEW a \in E \X Tails(p), NEW b \in E \X Tails(p), f[a] = f[b] PROVE a = b
  <2>1. Behind(<<q, a[1]>>, a[2], Len(a[2])) = Behind(<<q, b[1]>>, b[2], Len(b[2]))
    BY <1>5
  <2>2. /\ Len(a[2]) \in Nat /\ a[2] = [j \in 1 .. Len(a[2]) |-> a[2][j]]
        /\ Len(b[2]) \in Nat /\ b[2] = [j \in 1 .. Len(b[2]) |-> b[2][j]]
    BY <1>0, <1>5, TailFacts
  <2>3. <<q, a[1]>> = <<q, b[1]>> /\ a[2] = b[2]
    BY <2>1, <2>2, BehindInjective
  <2>4. QED
    BY <1>5, <2>3
<1>6. ASSUME NEW s \in Through(q, p) PROVE \E e \in E \X Tails(p) : f[e] = s
  <2>1. PICK n \in DOMAIN graph[q], t \in Tails(p) : graph[q][n] = p /\ s = Behind(<<q, n>>, t, Len(t))
    BY <1>0, ThroughTail
  <2>2. <<n, t>> \in E \X Tails(p) /\ <<n, t>>[1] = n /\ <<n, t>>[2] = t
    BY <2>1
  <2>3. f[<<n, t>>] = s
    BY <2>1, <2>2
  <2>4. QED
    BY <2>2, <2>3
<1> HIDE DEF f, E
<1>7. f \in Bijection(E \X Tails(p), Through(q, p))
  BY <1>4, <1>5, <1>6 DEF Bijection, Injection, Surjection, IsInjective
<1>8. ExistsBijection(E \X Tails(p), Through(q, p))
  BY <1>7 DEF ExistsBijection
<1>9. QED
  BY <1>1, <1>2, <1>3, <1>8, FS_Bijection

LEMMA MaxOfTwo ==
  ASSUME NEW a \in Int, NEW b \in Int
  PROVE  Max({a, b}) \in {a, b} /\ Max({a, b}) >= a /\ Max({a, b}) >= b
<1>1. \E x \in {a, b} : \A y \in {a, b} : x >= y
  <2>1. CASE a >= b
    BY <2>1
  <2>2. CASE b >= a
    BY <2>2
  <2>3. QED
    BY <2>1, <2>2
<1>2. QED
  BY <1>1 DEF Max

(* The chains are those of the graph, which stays as it is.                *)
LEMMA SameChains ==
  ASSUME graph' = graph
  PROVE  /\ \A p, k : Chains(p, k)' = Chains(p, k)
         /\ \A i : Target(i)' = Target(i)
<1>1. Includes' = Includes
  BY DEF Includes
<1>2. QED
  BY <1>1 DEF Chains, Target

LEMMA TreeSame ==
  ASSUME TreeInv, UNCHANGED <<graph, valid, heights, visits>>, phase' = "resolve" => phase = "resolve"
  PROVE  TreeInv'
<1>1. \A p : Known(p)' = Known(p)
  BY SameChains DEF Known
<1>2. HeightInv' <=> HeightInv
  BY DEF HeightInv, Closed
<1>3. QED
  BY <1>1, <1>2 DEF TreeInv, VisitInv

LEMMA TreeCount == Count => TreeInv'
<1> SUFFICES ASSUME Count PROVE TreeInv'
  OBVIOUS
<1>1. /\ heights' = [p \in Profiles |-> 1] /\ visits' = [p \in Profiles |-> 1] /\ valid' = {}
      /\ graph' = graph
  BY DEF Count
<1>2. HeightInv'
  BY <1>1 DEF HeightInv
<1>3. \A p \in Profiles : Known(p)' = {}
  BY <1>1 DEF Known
<1>4. VisitInv'
  BY <1>1, <1>3, FS_EmptySet DEF VisitInv
<1>5. QED
  BY <1>2, <1>4 DEF TreeInv

LEMMA TreeResolve == WalkInv /\ TreeInv /\ Resolve => TreeInv'
<1> SUFFICES ASSUME WalkInv, TreeInv, Resolve PROVE TreeInv'
  OBVIOUS
<1> DEFINE p0 == CHOOSE q \in ready : TRUE
<1>1. /\ phase = "resolve" /\ phase' = "resolve" /\ UNCHANGED <<graph, command>>
      /\ p0 \in ready /\ p0 \in Profiles \ valid /\ pending[p0] = 0
  BY DEF Resolve, WalkInv
<1>2. \/ /\ Within(p0)
         /\ valid' = valid \cup {p0}
         /\ heights' = [q \in Profiles |->
              IF Edges(q, p0) > 0 THEN Max({heights[q], heights[p0] + 1}) ELSE heights[q]]
         /\ visits' = [q \in Profiles |-> visits[q] + Edges(q, p0) * visits[p0]]
      \/ UNCHANGED <<valid, heights, visits>>
  BY DEF Resolve
<1> HIDE DEF p0
<1>3. CASE UNCHANGED <<valid, heights, visits>>
  BY <1>1, <1>3, TreeSame
<1>4. CASE /\ Within(p0)
           /\ valid' = valid \cup {p0}
           /\ heights' = [q \in Profiles |->
                IF Edges(q, p0) > 0 THEN Max({heights[q], heights[p0] + 1}) ELSE heights[q]]
           /\ visits' = [q \in Profiles |-> visits[q] + Edges(q, p0) * visits[p0]]
  <2>1. HeightInv /\ VisitInv /\ valid \subseteq Profiles /\ p0 \in Profiles /\ heights[p0] <= MaxDepth
    BY <1>1, <1>4 DEF TreeInv, WalkInv, Within
  <2>2. Closed(p0)
    <3>1. Cardinality(Unresolved(p0)) = 0
      BY <1>1 DEF WalkInv
    <3>2. Unresolved(p0) = {}
      BY <1>1, <3>1, Positions DEF Unresolved
    <3>3. QED
      BY <3>2 DEF Unresolved, Closed
  <2>3. \A q \in Profiles : /\ Edges(q, p0) \in Nat
                            /\ Edges(q, p0) > 0 <=> \E n \in DOMAIN graph[q] : graph[q][n] = p0
    <3> SUFFICES ASSUME NEW q \in Profiles
                 PROVE  /\ Edges(q, p0) \in Nat
                        /\ Edges(q, p0) > 0 <=> \E n \in DOMAIN graph[q] : graph[q][n] = p0
      OBVIOUS
    <3> DEFINE E == {n \in DOMAIN graph[q] : graph[q][n] = p0}
    <3>1. Edges(q, p0) = Cardinality(E) /\ Cardinality(E) \in Nat /\ (Cardinality(E) = 0 <=> E = {})
      BY Positions DEF Edges
    <3>2. E = {} <=> ~\E n \in DOMAIN graph[q] : graph[q][n] = p0
      OBVIOUS
    <3> HIDE DEF E
    <3>3. QED
      BY <3>1, <3>2
  <2>4. \A q \in valid' : heights'[q] = heights[q]
    <3> SUFFICES ASSUME NEW q \in valid' PROVE heights'[q] = heights[q]
      OBVIOUS
    <3>1. q \in Profiles /\ Closed(q)
      BY <1>4, <2>1, <2>2 DEF HeightInv
    <3>2. ~\E n \in DOMAIN graph[q] : graph[q][n] = p0
      BY <1>1, <3>1 DEF Closed
    <3>3. QED
      BY <1>4, <2>3, <3>1, <3>2
  <2>5. \A q \in Profiles : /\ heights'[q] \in {heights[q], heights[p0] + 1}
                            /\ heights'[q] \in Nat \ {0} /\ heights'[q] >= heights[q]
                            /\ Edges(q, p0) > 0 => heights'[q] >= heights[p0] + 1
                            /\ ~(Edges(q, p0) > 0) => heights'[q] = heights[q]
    <3> TAKE q \in Profiles
    <3>1. heights[q] \in Nat \ {0} /\ heights[p0] \in Nat \ {0} /\ heights[p0] + 1 \in Nat \ {0}
      BY <2>1 DEF HeightInv
    <3> DEFINE a == heights[q]
               b == heights[p0] + 1
    <3>2. Max({a, b}) \in {a, b} /\ Max({a, b}) >= a /\ Max({a, b}) >= b
      <4>1. a \in Int /\ b \in Int
        BY <3>1
      <4> HIDE DEF a, b
      <4>2. QED
        BY <4>1, MaxOfTwo
    <3>3. heights'[q] = IF Edges(q, p0) > 0 THEN Max({a, b}) ELSE a
      BY <1>4
    <3>4. a >= a
      BY <3>1
    <3> HIDE DEF a, b
    <3>5. QED
      BY <3>1, <3>2, <3>3, <3>4 DEF a, b
  <2>6. HeightInv'
    <3>1. heights' \in [Profiles -> Nat \ {0}]
      <4>1. heights' = [q \in Profiles |-> heights'[q]]
        BY <1>4
      <4>2. QED
        BY <2>5, <4>1
    <3>2. ASSUME NEW p \in Profiles, NEW n \in DOMAIN graph[p], graph[p][n] \in valid'
          PROVE  heights'[graph[p][n]] + 1 <= heights'[p]
      <4> DEFINE x == graph[p][n]
      <4>1. heights'[x] = heights[x] /\ x \in Profiles /\ heights[x] \in Nat
        BY <1>4, <2>1, <2>4, <3>2 DEF HeightInv
      <4>2. CASE x = p0
        <5>1. heights'[p] >= heights[p0] + 1
          BY <2>3, <2>5, <4>2
        <5>2. QED
          BY <2>5, <4>1, <4>2, <5>1
      <4>3. CASE x # p0
        <5>1. heights[x] + 1 <= heights[p] /\ heights'[p] >= heights[p]
          BY <1>4, <2>1, <2>5, <3>2, <4>3 DEF HeightInv
        <5>2. heights[p] \in Nat /\ heights'[p] \in Nat
          BY <2>1, <2>5 DEF HeightInv
        <5>3. QED
          BY <4>1, <5>1, <5>2
      <4>4. QED
        BY <4>2, <4>3
    <3>3. ASSUME NEW p \in Profiles, heights'[p] # 1
          PROVE  \E n \in DOMAIN graph[p] :
                   graph[p][n] \in valid' /\ heights'[p] = heights'[graph[p][n]] + 1
      <4>1. CASE heights'[p] = heights[p]
        <5>1. PICK n \in DOMAIN graph[p] : graph[p][n] \in valid /\ heights[p] = heights[graph[p][n]] + 1
          BY <2>1, <3>3, <4>1 DEF HeightInv
        <5>2. graph[p][n] \in valid' /\ heights'[graph[p][n]] = heights[graph[p][n]]
          BY <1>4, <2>4, <5>1
        <5>3. QED
          BY <4>1, <5>1, <5>2
      <4>2. CASE heights'[p] # heights[p]
        <5>1. Edges(p, p0) > 0 /\ heights'[p] = heights[p0] + 1
          BY <2>5, <4>2
        <5>2. PICK n \in DOMAIN graph[p] : graph[p][n] = p0
          BY <2>3, <5>1
        <5>3. p0 \in valid' /\ heights'[p0] = heights[p0]
          BY <1>4, <2>4
        <5>4. QED
          BY <5>1, <5>2, <5>3
      <4>3. QED
        BY <4>1, <4>2
    <3>4. \A p \in valid' : \A n \in DOMAIN graph[p] : graph[p][n] \in valid'
      BY <1>4, <2>1, <2>2 DEF HeightInv, Closed
    <3>5. QED
      BY <1>1, <3>1, <3>2, <3>3, <3>4 DEF HeightInv, Closed
  <2>7. VisitInv'
    <3> SUFFICES ASSUME NEW q \in Profiles
                 PROVE  IsFiniteSet(Known(q)') /\ visits'[q] = 1 + Cardinality(Known(q)')
      BY DEF VisitInv
    <3>1. Known(q)' = Known(q) \cup Through(q, p0)
      BY <1>1, <1>4, SameChains DEF Known, Through
    <3>2. Known(q) \cap Through(q, p0) = {}
      BY <1>1 DEF Known, Through
    <3>3. IsFiniteSet(Known(q)) /\ visits[q] = 1 + Cardinality(Known(q)) /\ Cardinality(Known(q)) \in Nat
      BY <2>1, FS_CardinalityType DEF VisitInv
    <3>4. /\ IsFiniteSet(Through(q, p0)) /\ Cardinality(Through(q, p0)) = Edges(q, p0) * visits[p0]
          /\ Cardinality(Through(q, p0)) \in Nat
      BY <2>1, <2>2, CountThrough, FS_CardinalityType
    <3> DEFINE A == Known(q)
               B == Through(q, p0)
    <3>5. /\ IsFiniteSet(A \cup B)
          /\ Cardinality(A \cup B) = Cardinality(A) + Cardinality(B) - Cardinality(A \cap B)
      BY <3>3, <3>4, FS_Union
    <3>6. Cardinality(A \cap B) = 0
      BY <3>2, FS_EmptySet
    <3>7. visits'[q] = visits[q] + Edges(q, p0) * visits[p0]
      BY <1>4
    <3> HIDE DEF A, B
    <3>8. visits'[q] = 1 + Cardinality(A) + Cardinality(B)
      BY <3>3, <3>4, <3>7 DEF A, B
    <3>9. Cardinality(A \cup B) = Cardinality(A) + Cardinality(B) /\ Cardinality(A) \in Nat /\ Cardinality(B) \in Nat
      BY <3>3, <3>4, <3>5, <3>6 DEF A, B
    <3>10. Known(q)' = A \cup B
      BY <3>1 DEF A, B
    <3>11. QED
      BY <3>5, <3>8, <3>9, <3>10
  <2>8. QED
    BY <2>6, <2>7 DEF TreeInv
<1>5. QED
  BY <1>2, <1>3, <1>4

LEMMA TreeNext == WalkInv /\ TreeInv /\ [Next]_vars => TreeInv'
<1> SUFFICES ASSUME WalkInv, TreeInv, [Next]_vars PROVE TreeInv'
  OBVIOUS
<1>1. ASSUME phase' # "resolve" PROVE TreeInv'
  BY <1>1 DEF TreeInv
<1>2. CASE UNCHANGED <<graph, walk, phase>>
  BY <1>2, TreeSame DEF walk
<1>3. CASE StartConvert \/ StartRewrite \/ StartLoad
  BY <1>1, <1>3 DEF StartConvert, StartRewrite, StartLoad, Begin
<1>4. CASE ReadSource \/ ReadAgain \/ PublishSnapshot \/ Error
  BY <1>4, TreeSame DEF ReadSource, ReadAgain, PublishSnapshot, Error, walk
<1>5. CASE Resolved
  BY <1>5, TreeSame DEF Resolved, walk
<1>6. CASE Fail
  BY <1>1, <1>6 DEF Fail, End
<1>7. CASE LoadDone \/ PublishOutput \/ Clear \/ Crash
  BY <1>1, <1>7 DEF LoadDone, PublishOutput, Clear, Crash, End
<1>8. CASE \E p \in Profiles : Edit(p)
  BY <1>2, <1>8 DEF Edit
<1>9. QED
  BY <1>2, <1>3, <1>4, <1>5, <1>6, <1>7, <1>8, TreeCount, TreeResolve DEF Next, vars

(* A profile whose includes are resolved, if it is not too deep, has been  *)
(* given the size of its tree.                                             *)
LEMMA VisitsAreSize ==
  ASSUME valid \subseteq Profiles, HeightInv, VisitInv, NEW p \in Profiles, Closed(p), heights[p] <= MaxDepth
  PROVE  visits[p] = TreeSize(p) /\ Chains(p, MaxDepth) = {}
<1> DEFINE D == UNION {Chains(p, k) : k \in 1 .. MaxDepth - 1}
<1>1. heights[p] \in Nat \ {0} /\ MaxDepth \in Nat \ {0}
  BY GenAssumption DEF HeightInv
<1>2. Chains(p, heights[p]) = {}
  BY HeightBounds
<1>3. Chains(p, MaxDepth) = {}
  BY <1>1, <1>2, CutChain
<1>4. Known(p) = D
  <2>1. ASSUME NEW s \in Known(p) PROVE s \in D
    <3>1. PICK k \in 1 .. MaxDepth : s \in Chains(p, k)
      BY DEF Known
    <3>2. k # MaxDepth
      BY <1>3, <3>1
    <3>3. k \in 1 .. MaxDepth - 1
      BY <1>1, <3>2
    <3>4. QED
      BY <3>1, <3>3
  <2>2. ASSUME NEW s \in D PROVE s \in Known(p)
    <3>1. PICK k \in 1 .. MaxDepth - 1 : s \in Chains(p, k)
      OBVIOUS
    <3>2. k \in 1 .. MaxDepth /\ k \in Nat \ {0}
      BY <1>1
    <3>3. Target(s[1]) \in valid
      BY <3>1, <3>2, FirstInclude DEF Closed
    <3>4. QED
      BY <3>1, <3>2, <3>3 DEF Known
  <2>3. QED
    BY <2>1, <2>2
<1>5. QED
  BY <1>3, <1>4 DEF VisitInv, TreeSize

(* The tree of a profile is finite.                                        *)
LEMMA FiniteChains ==
  ASSUME WalkInv, NEW p \in Profiles, NEW k \in Nat \ {0}
  PROVE  IsFiniteSet(Chains(p, k))
<1> DEFINE Good(m) == \A q \in Profiles : IsFiniteSet(Chains(q, m))
           T == {m \in Nat \ {0} : ~Good(m)}
<1>1. ASSUME NEW q \in Profiles PROVE IsFiniteSet(DOMAIN graph[q])
  BY <1>1, Positions
<1>2. Good(1)
  <2> SUFFICES ASSUME NEW q \in Profiles PROVE IsFiniteSet(Chains(q, 1))
    OBVIOUS
  <2> DEFINE f == [n \in DOMAIN graph[q] |-> Behind(<<q, n>>, << >>, 0)]
  <2>1. f \in [DOMAIN graph[q] -> Chains(q, 1)]
    BY OneInclude
  <2>2. ASSUME NEW s \in Chains(q, 1) PROVE \E n \in DOMAIN graph[q] : f[n] = s
    <3>1. PICK n \in DOMAIN graph[q] : s[1] = <<q, n>>
      BY FirstInclude
    <3>2. s = [j \in 1 .. 1 |-> s[1]]
      <4>1. s \in [1 .. 1 -> Includes]
        BY DEF Chains
      <4>2. QED
        BY <4>1
    <3>3. f[n] = [j \in 1 .. 1 |-> <<q, n>>]
      BY DEF Behind
    <3>4. QED
      BY <3>1, <3>2, <3>3
  <2> HIDE DEF f
  <2>3. f \in Surjection(DOMAIN graph[q], Chains(q, 1))
    BY <2>1, <2>2 DEF Surjection
  <2>4. QED
    BY <1>1, <2>3, FS_Surjection
<1>3. ASSUME NEW m \in Nat \ {0}, Good(m) PROVE Good(m + 1)
  <2> SUFFICES ASSUME NEW q \in Profiles PROVE IsFiniteSet(Chains(q, m + 1))
    OBVIOUS
  <2> DEFINE A == UNION {Chains(r, m) : r \in Profiles}
             B == (DOMAIN graph[q]) \X A
             f == [e \in B |-> Behind(<<q, e[1]>>, e[2], m)]
             C == {f[e] : e \in B}
  <2>1. IsFiniteSet(A)
    <3> DEFINE g == [r \in Profiles |-> Chains(r, m)]
               S == {Chains(r, m) : r \in Profiles}
    <3>1. g \in Surjection(Profiles, S)
      BY DEF Surjection
    <3> HIDE DEF g
    <3>2. IsFiniteSet(S)
      BY <3>1, FS_Surjection, GenAssumption
    <3>3. \A U \in S : IsFiniteSet(U)
      BY <1>3
    <3> HIDE DEF S
    <3>4. IsFiniteSet(UNION S)
      BY <3>2, <3>3, FS_UNION
    <3>5. QED
      BY <3>4 DEF S
  <2>2. IsFiniteSet(B)
    <3> HIDE DEF A
    <3>1. QED
      BY <1>1, <2>1, FS_Product
  <2>3. f \in Surjection(B, C)
    <3> HIDE DEF B
    <3>1. QED
      BY DEF Surjection
  <2>4. IsFiniteSet(C)
    <3> HIDE DEF B, C, f
    <3>1. QED
      BY <2>2, <2>3, FS_Surjection
  <2>5. Chains(q, m + 1) \subseteq C
    <3> SUFFICES ASSUME NEW s \in Chains(q, m + 1) PROVE s \in C
      OBVIOUS
    <3>1. /\ Target(s[1]) \in Profiles
          /\ Rest(s, m) \in Chains(Target(s[1]), m) /\ s = Behind(s[1], Rest(s, m), m)
      BY RestChain
    <3>2. m + 1 \in Nat \ {0}
      OBVIOUS
    <3>3. PICK n \in DOMAIN graph[q] : s[1] = <<q, n>>
      BY <3>2, FirstInclude
    <3> DEFINE e == <<n, Rest(s, m)>>
    <3>4. e \in B /\ e[1] = n /\ e[2] = Rest(s, m)
      BY <3>1, <3>3
    <3>5. f[e] = s
      BY <3>1, <3>3, <3>4
    <3>6. QED
      BY <3>4, <3>5
  <2> HIDE DEF C
  <2>6. QED
    BY <2>4, <2>5, FS_Subset
<1>4. T = {}
  <2> SUFFICES ASSUME T # {} PROVE FALSE
    OBVIOUS
  <2>1. PICK m \in T : \A y \in T : m <= y
    <3>1. T \subseteq Nat
      OBVIOUS
    <3> HIDE DEF T
    <3>2. QED
      BY <3>1, LeastNat
  <2>2. m # 1
    BY <1>2, <2>1
  <2>3. m - 1 \in Nat \ {0} /\ (m - 1) + 1 = m /\ ~(m <= m - 1)
    BY <2>1, <2>2
  <2>4. Good(m - 1)
    BY <2>1, <2>3
  <2>5. Good((m - 1) + 1)
    <3> HIDE DEF Good
    <3>1. QED
      BY <1>3, <2>3, <2>4
  <2>6. QED
    BY <2>1, <2>3, <2>5
<1>5. QED
  BY <1>4

Tree(p) == UNION {Chains(p, k) : k \in 1 .. MaxDepth - 1}

LEMMA FiniteTree ==
  ASSUME WalkInv, NEW p \in Profiles
  PROVE  IsFiniteSet(Tree(p)) /\ Cardinality(Tree(p)) \in Nat /\ TreeSize(p) = 1 + Cardinality(Tree(p))
<1> DEFINE K == 1 .. MaxDepth - 1
           S == {Chains(p, k) : k \in K}
           g == [k \in K |-> Chains(p, k)]
<1>1. IsFiniteSet(K) /\ K \subseteq Nat \ {0}
  <2>1. 1 \in Int /\ MaxDepth - 1 \in Int
    BY GenAssumption
  <2>2. QED
    BY <2>1, FS_Interval
<1>2. \A U \in S : IsFiniteSet(U)
  BY <1>1, FiniteChains
<1>3. g \in Surjection(K, S)
  <2> HIDE DEF K
  <2>1. QED
    BY DEF Surjection
<1>4. IsFiniteSet(S)
  <2> HIDE DEF K, S, g
  <2>1. QED
    BY <1>1, <1>3, FS_Surjection
<1>5. IsFiniteSet(UNION S)
  <2> HIDE DEF S
  <2>1. QED
    BY <1>2, <1>4, FS_UNION
<1>6. IsFiniteSet(Tree(p))
  BY <1>5 DEF Tree
<1>7. QED
  BY <1>6, FS_CardinalityType DEF Tree, TreeSize

(* What a sound profile includes is sound, and its tree is not larger.     *)
LEMMA SoundIncludes ==
  ASSUME WalkInv, NEW p \in Profiles, Sound(p), NEW n \in DOMAIN graph[p]
  PROVE  LET q == graph[p][n] IN
         /\ q \in Profiles /\ Sound(q) /\ TreeSize(q) <= TreeSize(p)
         /\ \A m \in Nat \ {0} : Chains(p, m + 1) = {} => Chains(q, m) = {}
<1> DEFINE q == graph[p][n]
           c1 == Behind(<<p, n>>, << >>, 0)
<1>1. c1 \in Chains(p, 1) /\ Target(c1[1]) = q
  BY OneInclude, IncludeFacts
<1>2. MaxDepth \in Nat \ {0} /\ MaxDepth - 1 \in Nat \ {0} /\ 1 \in 1 .. MaxDepth - 1
  <2>1. MaxDepth # 1
    BY <1>1 DEF Sound
  <2>2. QED
    BY <2>1, GenAssumption
<1>3. q \in Profiles
  BY <1>1, <1>2 DEF Sound
<1> HIDE DEF c1
<1>4. ASSUME NEW m \in Nat \ {0}, NEW s \in Chains(q, m)
      PROVE  Behind(<<p, n>>, s, m) \in Chains(p, m + 1)
  BY <1>4, ConsChain
<1>5. \A m \in Nat \ {0} : Chains(p, m + 1) = {} => Chains(q, m) = {}
  BY <1>4
<1> HIDE DEF q
<1>6. Chains(q, MaxDepth - 1) = {}
  <2>1. (MaxDepth - 1) + 1 = MaxDepth
    BY <1>2
  <2>2. QED
    BY <1>2, <1>5, <2>1 DEF Sound
<1>7. Chains(q, MaxDepth) = {}
  BY <1>2, <1>6, CutChain
<1>8. ASSUME NEW k \in 1 .. MaxDepth - 1, NEW s \in Chains(q, k)
      PROVE  k + 1 \in 1 .. MaxDepth - 1 /\ Behind(<<p, n>>, s, k) \in Chains(p, k + 1)
  <2>1. k # MaxDepth - 1 /\ k \in Nat \ {0}
    BY <1>6, <1>8
  <2>2. QED
    BY <1>2, <1>4, <1>8, <2>1
<1>9. Sound(q)
  <2>1. ASSUME NEW k \in 1 .. MaxDepth - 1, NEW s \in Chains(q, k)
        PROVE  Target(s[k]) \in Profiles
    <3> DEFINE c == Behind(<<p, n>>, s, k)
    <3>1. k + 1 \in 1 .. MaxDepth - 1 /\ c \in Chains(p, k + 1)
      BY <1>8, <2>1
    <3>2. c[k + 1] = s[k]
      <4>1. k + 1 \in 1 .. k + 1 /\ k + 1 # 1 /\ (k + 1) - 1 = k
        BY <1>2
      <4>2. QED
        BY <4>1 DEF Behind
    <3> HIDE DEF c
    <3>3. QED
      BY <3>1, <3>2 DEF Sound
  <2>2. QED
    BY <1>7, <2>1 DEF Sound
<1>10. TreeSize(q) <= TreeSize(p)
  <2> DEFINE f == [s \in Tree(q) |-> Behind(<<p, n>>, s, Len(s))]
  <2>1. \A s \in Tree(q) : /\ Len(s) \in Nat /\ s = [j \in 1 .. Len(s) |-> s[j]]
                           /\ Behind(<<p, n>>, s, Len(s)) \in Tree(p)
    <3> TAKE s \in Tree(q)
    <3>1. PICK k \in 1 .. MaxDepth - 1 : s \in Chains(q, k)
      BY DEF Tree
    <3>2. k \in Nat
      BY <1>2
    <3>3. Len(s) = k
      BY <3>1, <3>2, ChainLength
    <3>4. s = [j \in 1 .. k |-> s[j]]
      BY <3>1 DEF Chains
    <3>5. k + 1 \in 1 .. MaxDepth - 1 /\ Behind(<<p, n>>, s, k) \in Chains(p, k + 1)
      BY <1>8, <3>1
    <3>6. QED
      BY <3>2, <3>3, <3>4, <3>5 DEF Tree
  <2>2. f \in [Tree(q) -> Tree(p)]
    BY <2>1
  <2>3. ASSUME NEW a \in Tree(q), NEW b \in Tree(q), f[a] = f[b] PROVE a = b
    <3>1. Behind(<<p, n>>, a, Len(a)) = Behind(<<p, n>>, b, Len(b))
      BY <2>3
    <3>2. QED
      BY <2>1, <3>1, BehindInjective
  <2> HIDE DEF f
  <2>4. f \in Injection(Tree(q), Tree(p))
    BY <2>2, <2>3 DEF Injection, IsInjective
  <2>5. Cardinality(Tree(q)) <= Cardinality(Tree(p))
    BY <2>4, FiniteTree, FS_Injection
  <2>6. QED
    BY <1>3, <2>5, FiniteTree
<1>11. QED
  BY <1>3, <1>5, <1>9, <1>10 DEF q

Fits(p) == command # "load" => TreeSize(p) <= MaxVisits

(* What the resolution has found valid is sound.                           *)
LEMMA ValidAreSound ==
  ASSUME WalkInv, TreeInv, phase = "resolve", NEW p \in valid
  PROVE  Sound(p) /\ Fits(p)
<1>1. /\ valid \subseteq Profiles /\ p \in Profiles /\ Within(p) /\ HeightInv /\ VisitInv
  BY DEF WalkInv, TreeInv
<1>2. Closed(p) /\ heights[p] <= MaxDepth
  BY <1>1 DEF HeightInv, Within
<1>3. visits[p] = TreeSize(p) /\ Chains(p, MaxDepth) = {}
  BY <1>1, <1>2, VisitsAreSize
<1>4. ASSUME NEW k \in 1 .. MaxDepth - 1, NEW s \in Chains(p, k) PROVE Target(s[k]) \in Profiles
  <2>1. k \in Nat \ {0}
    BY GenAssumption
  <2>2. QED
    BY <1>1, <1>4, <2>1, ValidTargets
<1>5. QED
  BY <1>1, <1>3, <1>4 DEF Sound, Fits, Within

(* When nothing is ready, what is sound was found: a profile that was not, *)
(* with the shortest chains, would include another one that was not.       *)
LEMMA SoundAreValid ==
  ASSUME WalkInv, TreeInv, BlockedByIncludes, phase = "resolve", ready = {},
         NEW p0 \in Profiles, Sound(p0), Fits(p0)
  PROVE  p0 \in valid
<1> DEFINE Bad(p) == Sound(p) /\ Fits(p) /\ p \notin valid
           T == {m \in Nat \ {0} : \E p \in Profiles : Bad(p) /\ Chains(p, m) = {}}
<1> SUFFICES ASSUME Bad(p0) PROVE FALSE
  OBVIOUS
<1>0. valid \subseteq Profiles /\ HeightInv /\ VisitInv /\ MaxDepth \in Nat \ {0} /\ MaxVisits \in Nat
  BY GenAssumption DEF WalkInv, TreeInv
<1>1. T \subseteq Nat /\ T # {}
  <2>1. MaxDepth \in T
    BY <1>0 DEF Sound
  <2>2. QED
    BY <2>1
<1>2. PICK m \in T : \A y \in T : m <= y
  <2> HIDE DEF T
  <2>1. QED
    BY <1>1, LeastNat
<1>3. PICK p \in Profiles : Bad(p) /\ Chains(p, m) = {}
  BY <1>2
<1>4. CASE Closed(p)
  <2>1. ~Within(p)
    BY <1>3, <1>4 DEF BlockedByIncludes, Closed
  <2>2. CASE ~(heights[p] <= MaxDepth)
    <3>1. heights[p] \in Nat /\ heights[p] # 1 /\ heights[p] - 1 \in Nat \ {0} /\ MaxDepth <= heights[p] - 1
      BY <1>0, <2>2 DEF HeightInv
    <3>2. Chains(p, heights[p] - 1) # {}
      BY <1>0, <3>1, HeightReached
    <3>3. Chains(p, MaxDepth) # {}
      BY <1>0, <3>1, <3>2, CutChain
    <3>4. QED
      BY <1>3, <3>3 DEF Sound
  <2>3. CASE heights[p] <= MaxDepth
    <3>1. visits[p] = TreeSize(p)
      BY <1>0, <1>4, <2>3, VisitsAreSize
    <3>2. QED
      BY <1>3, <2>1, <2>3, <3>1 DEF Within, Fits
  <2>4. QED
    BY <2>2, <2>3
<1>5. CASE ~Closed(p)
  <2>1. PICK n \in DOMAIN graph[p] : graph[p][n] \notin valid
    BY <1>5 DEF Closed
  <2> DEFINE q == graph[p][n]
  <2>2. /\ q \in Profiles /\ Sound(q) /\ TreeSize(q) <= TreeSize(p)
        /\ \A k \in Nat \ {0} : Chains(p, k + 1) = {} => Chains(q, k) = {}
    BY <1>3, SoundIncludes
  <2>3. Fits(q)
    <3>1. TreeSize(q) \in Int /\ TreeSize(p) \in Int
      BY <2>2, FiniteTree
    <3>2. QED
      BY <1>0, <1>3, <2>2, <3>1 DEF Fits
  <2>4. m # 1
    BY <1>3, OneInclude
  <2>5. m - 1 \in Nat \ {0} /\ (m - 1) + 1 = m /\ ~(m <= m - 1)
    BY <1>2, <2>4
  <2>6. Chains(q, m - 1) = {}
    BY <1>3, <2>2, <2>5
  <2>7. m - 1 \in T
    BY <2>1, <2>2, <2>3, <2>5, <2>6
  <2>8. QED
    BY <1>2, <2>5, <2>7
<1>6. QED
  BY <1>4, <1>5

(* invalid_reference_profiles, for every graph of includes: when nothing   *)
(* is left to resolve, the valid profiles are exactly those all of whose   *)
(* chains of includes end within the depth limit in profiles that exist,   *)
(* with a tree within the limit on visits when a database is produced.     *)
THEOREM ResolvesExactly == Spec => []ResolvedExactly
<1>1. Init => TreeInv
  BY DEF Init, TreeInv
<1>2. WalkInv /\ TreeInv /\ [Next]_vars => TreeInv'
  BY TreeNext
<1>3. Spec => []TreeInv
  <2>1. IndInv /\ TreeInv /\ [Next]_vars => TreeInv'
    BY <1>2 DEF IndInv
  <2>2. QED
    BY <1>1, <2>1, Invariance, PTL DEF Spec
<1>4. TypeOK /\ IndInv /\ TreeInv /\ BlockedByIncludes => ResolvedExactly
  <2> SUFFICES ASSUME TypeOK, WalkInv, TreeInv, BlockedByIncludes PROVE ResolvedExactly
    BY DEF IndInv
  <2>1. ASSUME phase = "resolve", ready = {}
        PROVE  valid = {p \in Profiles : Sound(p) /\ (command # "load" => TreeSize(p) <= MaxVisits)}
    <3>1. \A p \in valid : p \in Profiles /\ Sound(p) /\ Fits(p)
      BY <2>1, ValidAreSound DEF WalkInv
    <3>2. \A p \in Profiles : Sound(p) /\ Fits(p) => p \in valid
      BY <2>1, SoundAreValid
    <3>3. QED
      BY <3>1, <3>2 DEF Fits
  <2>2. QED
    BY <2>1 DEF ResolvedExactly
<1>5. QED
  BY <1>3, <1>4, Invariance, CountersStayNatural, OnlyIncludesBlock, PTL
=============================================================================
