---------------------------- MODULE MemoryProofs ----------------------------
(***************************************************************************)
(* Proofs about memory that C code frees: the linked list of profiles and  *)
(* the pointers into it (ProfileList), for every finite set of profiles,   *)
(* and the structures that the Rust library builds for C (CStruct), of any *)
(* size and depth.  With them, the files those structures are loaded from  *)
(* (StoredFiles), for any documents, writers and overlapping saves.        *)
(***************************************************************************)
EXTENDS ProfileList, StoredFiles, FiniteSetTheorems, SequenceTheorems, TLAPS

-----------------------------------------------------------------------------
(* Sequences without repetition, as mon->profiles is one.                  *)

\* A list is the positions it has and what is at them.
LEMMA AppendNew ==
  ASSUME NEW s \in Seq(Profiles), IsInjective(s), NEW p \in Profiles, p \notin ToSet(s)
  PROVE  /\ Append(s, p) \in Seq(Profiles)
         /\ IsInjective(Append(s, p))
         /\ ToSet(Append(s, p)) = ToSet(s) \cup {p}
<1>1. /\ Len(Append(s, p)) = Len(s) + 1
      /\ \A i \in 1 .. Len(s) : Append(s, p)[i] = s[i]
      /\ Append(s, p)[Len(s) + 1] = p
  OBVIOUS
<1>2. DOMAIN Append(s, p) = 1 .. Len(s) + 1 /\ DOMAIN s = 1 .. Len(s) /\ Len(s) \in Nat
  OBVIOUS
<1>3. IsInjective(Append(s, p))
  BY <1>1, <1>2 DEF IsInjective, ToSet
<1>4. ToSet(Append(s, p)) = ToSet(s) \cup {p}
  BY <1>1, <1>2 DEF ToSet
<1>5. QED
  BY <1>3, <1>4

\* *profileptr = profile->next takes out one profile and moves the others up.
LEMMA RemoveOne ==
  ASSUME NEW s \in Seq(Profiles), IsInjective(s), NEW k \in DOMAIN s
  PROVE  /\ RemoveAt(s, k) \in Seq(Profiles)
         /\ IsInjective(RemoveAt(s, k))
         /\ ToSet(RemoveAt(s, k)) = ToSet(s) \ {s[k]}
<1> DEFINE A == SubSeq(s, 1, k - 1)
           B == SubSeq(s, k + 1, Len(s))
           R == RemoveAt(s, k)
<1>0. Len(s) \in Nat /\ DOMAIN s = 1 .. Len(s) /\ k \in 1 .. Len(s)
  OBVIOUS
<1>1. /\ A \in Seq(Profiles) /\ Len(A) = k - 1
      /\ \A i \in 1 .. k - 1 : A[i] = s[i]
  BY <1>0, SubSeqProperties
<1>2. /\ B \in Seq(Profiles) /\ Len(B) = Len(s) - k
      /\ \A i \in 1 .. Len(s) - k : B[i] = s[k + i]
  BY <1>0, SubSeqProperties
<1>3. R = A \o B
  BY DEF RemoveAt
<1> HIDE DEF A, B, R
<1>4. R \in Seq(Profiles) /\ Len(R) = Len(s) - 1 /\ DOMAIN R = 1 .. Len(s) - 1
  <2>1. A \o B \in Seq(Profiles) /\ Len(A \o B) = Len(A) + Len(B)
    BY <1>1, <1>2, ConcatProperties
  <2>2. Len(A) + Len(B) = Len(s) - 1
    BY <1>0, <1>1, <1>2
  <2>3. Len(R) = Len(s) - 1
    BY <2>1, <2>2, <1>3, Zenon
  <2>4. QED
    BY <2>1, <2>3, <1>3
<1>5. \A i \in 1 .. Len(s) - 1 : R[i] = IF i < k THEN s[i] ELSE s[i + 1]
  <2> SUFFICES ASSUME NEW i \in 1 .. Len(s) - 1
               PROVE  R[i] = IF i < k THEN s[i] ELSE s[i + 1]
    OBVIOUS
  <2>1. R[i] = IF i <= Len(A) THEN A[i] ELSE B[i - Len(A)]
    BY <1>0, <1>1, <1>2, <1>3, ConcatProperties
  <2>2. CASE i < k
    BY <2>1, <2>2, <1>0, <1>1
  <2>3. CASE ~(i < k)
    BY <2>1, <2>3, <1>0, <1>1, <1>2
  <2>4. QED
    BY <2>2, <2>3
<1>6. IsInjective(R)
  <2> SUFFICES ASSUME NEW i \in 1 .. Len(s) - 1, NEW j \in 1 .. Len(s) - 1, R[i] = R[j]
               PROVE  i = j
    BY <1>4 DEF IsInjective
  <2>1. \A a, b \in 1 .. Len(s) : s[a] = s[b] => a = b
    BY <1>0 DEF IsInjective
  <2>2. i + 1 \in 1 .. Len(s) /\ j + 1 \in 1 .. Len(s) /\ i \in 1 .. Len(s) /\ j \in 1 .. Len(s)
    BY <1>0
  <2>3. /\ R[i] = IF i < k THEN s[i] ELSE s[i + 1]
        /\ R[j] = IF j < k THEN s[j] ELSE s[j + 1]
    BY <1>5
  <2>4. CASE i < k /\ j < k
    BY <2>1, <2>2, <2>3, <2>4
  <2>5. CASE i < k /\ ~(j < k)
    <3>1. s[i] = s[j + 1]
      BY <2>3, <2>5
    <3>2. i = j + 1
      BY <3>1, <2>1, <2>2
    <3>3. QED
      BY <3>2, <2>5, <1>0
  <2>6. CASE ~(i < k) /\ j < k
    <3>1. s[i + 1] = s[j]
      BY <2>3, <2>6
    <3>2. i + 1 = j
      BY <3>1, <2>1, <2>2
    <3>3. QED
      BY <3>2, <2>6, <1>0
  <2>7. CASE ~(i < k) /\ ~(j < k)
    <3>1. s[i + 1] = s[j + 1]
      BY <2>3, <2>7
    <3>2. i + 1 = j + 1
      BY <3>1, <2>1, <2>2
    <3>3. QED
      BY <3>2
  <2>8. QED
    BY <2>4, <2>5, <2>6, <2>7
<1>7. ToSet(R) \subseteq ToSet(s) \ {s[k]}
  BY <1>0, <1>4, <1>5 DEF IsInjective, ToSet
<1>8. ASSUME NEW j \in DOMAIN s, s[j] # s[k]
      PROVE  s[j] \in ToSet(R)
  <2>1. CASE j < k
    BY <2>1, <1>0, <1>4, <1>5 DEF ToSet
  <2>2. CASE j > k
    <3>1. j - 1 \in DOMAIN R /\ R[j - 1] = s[j]
      BY <2>2, <1>0, <1>4, <1>5
    <3>2. QED
      BY <3>1 DEF ToSet
  <2>3. QED
    BY <2>1, <2>2, <1>0, <1>8
<1>9. QED
  BY <1>4, <1>6, <1>7, <1>8 DEF R, ToSet

\* The profiles that ddcci_free_profile frees were in the list.
LEMMA TailIsListed ==
  ASSUME NEW s \in Seq(Profiles), NEW k \in DOMAIN s
  PROVE  ToSet(SubSeq(s, k, Len(s))) \subseteq ToSet(s)
<1>0. Len(s) \in Nat /\ DOMAIN s = 1 .. Len(s) /\ k \in 1 .. Len(s)
  OBVIOUS
<1>1. /\ Len(SubSeq(s, k, Len(s))) = Len(s) - k + 1
      /\ \A i \in 1 .. Len(s) - k + 1 : SubSeq(s, k, Len(s))[i] = s[k + i - 1]
      /\ DOMAIN SubSeq(s, k, Len(s)) = 1 .. Len(s) - k + 1
  BY <1>0, SubSeqProperties
<1>2. QED
  BY <1>0, <1>1 DEF ToSet

-----------------------------------------------------------------------------
(* The invariant.  A profile in the list was allocated, so that one that   *)
(* is created is not in it; and the buttons are the list, so that what a   *)
(* button deletes is found in it.                                          *)
ListInv ==
  /\ ListTypeOK /\ ListedOnce /\ StoredIsListed
  /\ Listed \subseteq used /\ buttons \subseteq Listed

LEMMA ListInitInv == ListInit => ListInv
<1> SUFFICES ASSUME ListInit PROVE ListInv
  OBVIOUS
<1>1. PICK readable \in SUBSET disk : list \in SetToSeqs(readable)
  BY DEF ListInit
<1>2. IsFiniteSet(readable) /\ readable \subseteq Profiles
  BY <1>1, ProfileAssumption, FS_Subset DEF ListInit
<1>3. Cardinality(readable) \in Nat
  BY <1>2, FS_CardinalityType
<1>4. /\ list \in [1 .. Cardinality(readable) -> readable]
      /\ \A i, j \in 1 .. Cardinality(readable) : i # j => list[i] # list[j]
  BY <1>1 DEF SetToSeqs
<1>5. list \in Seq(Profiles) /\ IsInjective(list) /\ Listed \subseteq disk
  <2>1. list \in [1 .. Cardinality(readable) -> Profiles]
    BY <1>2, <1>4
  <2>2. list \in Seq(Profiles)
    BY <2>1, <1>3, IsASeq
  <2>3. IsInjective(list)
    BY <1>4 DEF IsInjective
  <2>4. Listed \subseteq disk
    BY <1>1, <1>4 DEF Listed, ToSet
  <2>5. QED
    BY <2>2, <2>3, <2>4
<1>6. QED
  BY <1>5 DEF ListInit, ListInv, ListTypeOK, ListedOnce, StoredIsListed

\* Saving a profile that was allocated and is not yet listed, or is.
LEMMA SaveInv ==
  ASSUME ListInv, NEW p \in used, Save(p), UNCHANGED <<open, freed, used>>,
         pending' = NULL
  PROVE  ListInv'
<1>0. p \in Profiles
  BY DEF ListInv, ListTypeOK
<1>1. /\ list' \in Seq(Profiles)
      /\ IsInjective(list')
      /\ ToSet(list') = Listed \cup {p}
  <2>1. CASE p \in Listed
    BY <2>1 DEF ListInv, ListTypeOK, ListedOnce, Save, Linked, Listed
  <2>2. CASE p \notin Listed
    BY <2>2, <1>0, AppendNew DEF ListInv, ListTypeOK, ListedOnce, Save, Linked, Listed
  <2>3. QED
    BY <2>1, <2>2
<1>2. QED
  BY <1>1 DEF ListInv, ListTypeOK, ListedOnce, StoredIsListed, Save, Refreshed, Listed

\* A button's profile has one place in the list, and Place is that one.
LEMMA PlaceOf ==
  ASSUME NEW p \in Listed
  PROVE  Place(p) \in DOMAIN list /\ list[Place(p)] = p
BY DEF Place, Listed, ToSet

LEMMA DeleteInv ==
  ASSUME ListInv, NEW p \in Profiles, Delete(p)
  PROVE  ListInv'
<1>1. p \in Listed
  BY DEF ListInv, Delete
<1>2. Place(p) \in DOMAIN list /\ list[Place(p)] = p
  BY <1>1, PlaceOf
<1>3. /\ list' \in Seq(Profiles)
      /\ IsInjective(list')
      /\ ToSet(list') = Listed \ {p}
  BY <1>2, RemoveOne DEF ListInv, ListTypeOK, ListedOnce, Delete, Unlinked, Listed
<1>4. FreedWith(p) \subseteq Listed
  BY <1>2, TailIsListed DEF ListInv, ListTypeOK, FreedWith, Listed
<1>5. QED
  BY <1>3, <1>4 DEF ListInv, ListTypeOK, ListedOnce, StoredIsListed, Delete, Handler, Refreshed, Listed

LEMMA ListNextInv == ListInv /\ [ListNext]_listVars => ListInv'
<1> SUFFICES ASSUME ListInv, [ListNext]_listVars PROVE ListInv'
  OBVIOUS
<1>1. ASSUME NEW p \in Profiles, Create(p) PROVE ListInv'
  BY <1>1 DEF ListInv, ListTypeOK, ListedOnce, StoredIsListed, Create, Listed
<1>2. ASSUME NEW p \in Profiles, Rename(p) PROVE ListInv'
  <2>1. p \in used /\ pending' = NULL
    BY <1>2 DEF ListInv, Rename, Handler
  <2>2. QED
    BY <1>2, <2>1, SaveInv DEF Rename
<1>3. ASSUME NEW p \in Profiles, Delete(p) PROVE ListInv'
  BY <1>3, DeleteInv
<1>4. ASSUME NEW p \in Profiles, DeleteFails(p) PROVE ListInv'
  BY <1>4 DEF ListInv, ListTypeOK, ListedOnce, StoredIsListed, DeleteFails, Refreshed, Listed
<1>5. ASSUME NEW p \in Profiles, FileVanishes(p) PROVE ListInv'
  BY <1>5 DEF ListInv, ListTypeOK, ListedOnce, StoredIsListed, FileVanishes, Listed
<1>6. CASE SaveNew
  <2>1. pending \in used
    BY <1>6 DEF ListInv, ListTypeOK, SaveNew
  <2>2. QED
    BY <1>6, <2>1, SaveInv DEF SaveNew
<1>7. CASE Abort
  BY <1>7 DEF ListInv, ListTypeOK, ListedOnce, StoredIsListed, Abort, Listed
<1>8. CASE Close
  <2>1. list' = <<>> /\ ToSet(list') = {}
    BY <1>8 DEF Close, ToSet
  <2>2. IsInjective(list') /\ list' \in Seq(Profiles)
    BY <2>1 DEF IsInjective
  <2>3. QED
    BY <1>8, <2>1, <2>2
       DEF ListInv, ListTypeOK, ListedOnce, StoredIsListed, Close, Handler, Listed
<1>9. CASE UNCHANGED listVars
  BY <1>9 DEF ListInv, ListTypeOK, ListedOnce, StoredIsListed, Listed, listVars
<1>10. QED
  BY <1>1, <1>2, <1>3, <1>4, <1>5, <1>6, <1>7, <1>8, <1>9 DEF ListNext

\* The list of profiles has no repetition, holds allocated structures only,
\* freed or not, and every stored profile is in it, after any calls of
\* conf.c and gprofile.c.
THEOREM ListInvariance == ListSpec => []ListInv
  BY ListInitInv, ListNextInv, PTL DEF ListSpec

-----------------------------------------------------------------------------
\* The linked list of profiles never runs into itself, whatever is created,
\* renamed and deleted, and until a deletion frees listed profiles the
\* buttons of the manager are for listed ones (ddcci_save_profile,
\* delete_callback, refresh_profile_manager).  It is not shown that listed
\* profiles are live, which ddcci_delete_profile does not keep.
THEOREM ListIsConsistent == ListSpec => []ListConsistent
<1>1. ListInv => ListConsistent
  BY DEF ListInv, ListConsistent, ButtonsListed
<1>2. QED
  BY <1>1, ListInvariance, PTL

\* A stored profile leaves the list only by its own deletion.
THEOREM StoredAreListed == ListSpec => []StoredIsListed
<1>1. ListInv => StoredIsListed
  BY DEF ListInv
<1>2. QED
  BY <1>1, ListInvariance, PTL

-----------------------------------------------------------------------------
(* The structures built for C.                                             *)

\* Every list of nodes that is part of some structure.
CONSTANT Lists

\* The children of nodes are lists of nodes again, and no set of blocks
\* stands for a list that was not built.
ListsAreTrees ==
  /\ \A nodes \in Lists : nodes \in Seq([strings : Nat, kids : Lists])
  /\ NoList \notin SUBSET Nat

CNext ==
  \/ \E nodes \in Lists : StartBuild(nodes)
  \/ AllocString \/ AllocKids \/ AllocNode \/ ReturnList \/ AllocFails \/ FreeBuilt

\* Structures are built and freed one after the other.  StoredFiles and the
\* loader take these steps and leave cvars alone in all others.
CSpec == CInit /\ [][CNext]_cvars

Frames == [list : Lists, at : Nat \ {0}, own : SUBSET Nat,
           kids : (SUBSET Nat) \cup {NoList}, head : SUBSET Nat]

Passed(f) == f.at > Len(f.list)

\* An activation that has a callee is at a node whose kids are being built,
\* and one at the end of its list holds only that list.
FrameInv ==
  /\ frames \in Seq(Frames)
  /\ frames # << >> => built = {}
  /\ \A n \in DOMAIN frames : n # Len(frames) => frames[n].kids = NoList /\ ~Passed(frames[n])
  /\ \A n \in DOMAIN frames : Passed(frames[n]) => frames[n].own = {} /\ frames[n].kids = NoList

BlockInv ==
  /\ fresh \in Nat \ {0} /\ built \subseteq Nat /\ wild = FALSE
  /\ live \subseteq 1 .. (fresh - 1)
  /\ live = HeldBlocks /\ HeldOnce

MemInv == FrameInv /\ BlockInv

LEMMA MemInit == CInit => MemInv
<1> SUFFICES ASSUME CInit PROVE MemInv
  OBVIOUS
<1>1. frames = << >> /\ DOMAIN frames = {} /\ frames \in Seq(Frames)
  BY DEF CInit
<1>2. QED
  BY <1>1 DEF CInit, MemInv, FrameInv, BlockInv, HeldBlocks, HeldOnce

\* The innermost activation.
LEMMA InnerFacts ==
  ASSUME ListsAreTrees, MemInv, Building
  PROVE  /\ Len(frames) \in Nat /\ DOMAIN frames = 1 .. Len(frames) /\ Len(frames) \in DOMAIN frames
         /\ Inner = frames[Len(frames)] /\ Inner \in Frames /\ built = {}
         /\ ListDone <=> Passed(Inner)
         /\ ~ListDone => Current \in [strings : Nat, kids : Lists]
         /\ Dropped(Inner) \subseteq live /\ fresh \notin live
         /\ Inner.own \in SUBSET Nat /\ Inner.head \in SUBSET Nat
         /\ Inner.kids # NoList => Inner.kids \in SUBSET Nat
<1>1. /\ Len(frames) \in Nat /\ DOMAIN frames = 1 .. Len(frames) /\ Len(frames) \in DOMAIN frames
      /\ frames \in Seq(Frames) /\ built = {}
  BY EmptySeq, LenProperties DEF MemInv, FrameInv, Building
<1>2. Inner = frames[Len(frames)] /\ Inner \in Frames
  BY <1>1, ElementOfSeq DEF Inner
<1>3. ListDone <=> Passed(Inner)
  BY DEF ListDone, Passed
<1>4. ASSUME ~ListDone PROVE Current \in [strings : Nat, kids : Lists]
  <2>1. Inner.list \in Seq([strings : Nat, kids : Lists]) /\ Inner.at \in Nat
    BY <1>2 DEF Frames, ListsAreTrees
  <2>2. Inner.at <= Len(Inner.list)
    BY <1>4, <2>1 DEF ListDone
  <2>3. Inner.at \in 1 .. Len(Inner.list)
    BY <1>2, <2>1, <2>2 DEF Frames
  <2>4. QED
    BY <2>1, <2>3, ElementOfSeq DEF Current
<1>5. Dropped(Inner) \subseteq live /\ fresh \notin live
  BY <1>1, <1>2 DEF MemInv, BlockInv, HeldBlocks
<1>6. QED
  BY <1>1, <1>2, <1>3, <1>4, <1>5 DEF Frames

\* The innermost activation gets one more block.
LEMMA GrowInner ==
  ASSUME ListsAreTrees, MemInv, Building, NEW f \in Frames,
         frames' = [frames EXCEPT ![Len(frames)] = f],
         Dropped(f) = Dropped(Inner) \cup {fresh}, HeldApart(f),
         Passed(f) => f.own = {} /\ f.kids = NoList,
         live' = live \cup {fresh}, fresh' = fresh + 1, UNCHANGED <<wild, built>>
  PROVE  MemInv'
<1>1. /\ Len(frames) \in Nat /\ DOMAIN frames = 1 .. Len(frames) /\ Len(frames) \in DOMAIN frames
      /\ Inner = frames[Len(frames)] /\ Dropped(Inner) \subseteq live /\ fresh \notin live /\ built = {}
  BY InnerFacts
<1>2. /\ frames' \in Seq(Frames) /\ Len(frames') = Len(frames) /\ DOMAIN frames' = DOMAIN frames
      /\ frames'[Len(frames)] = f
      /\ \A n \in DOMAIN frames : n # Len(frames) => frames'[n] = frames[n]
  BY <1>1, ExceptSeq DEF MemInv, FrameInv
<1>3. FrameInv'
  <2>1. \A n \in DOMAIN frames' :
          n # Len(frames') => frames'[n].kids = NoList /\ ~Passed(frames'[n])
    BY <1>2 DEF MemInv, FrameInv
  <2>2. \A n \in DOMAIN frames' :
          Passed(frames'[n]) => frames'[n].own = {} /\ frames'[n].kids = NoList
    BY <1>1, <1>2 DEF MemInv, FrameInv
  <2>3. QED
    BY <1>1, <1>2, <2>1, <2>2 DEF FrameInv, Passed
<1>4. \A n \in DOMAIN frames : Dropped(frames[n]) \subseteq live /\ fresh \notin Dropped(frames[n])
  BY <1>1 DEF MemInv, BlockInv, HeldBlocks
<1>5. live' = HeldBlocks'
  <2>1. HeldBlocks' = UNION {Dropped(frames'[n]) : n \in DOMAIN frames}
    BY <1>1, <1>2 DEF HeldBlocks, Dropped
  <2>2. live = UNION {Dropped(frames[n]) : n \in DOMAIN frames}
    BY <1>1 DEF MemInv, BlockInv, HeldBlocks
  <2>3. \A x : (\E n \in DOMAIN frames : x \in Dropped(frames'[n]))
                <=> (\E n \in DOMAIN frames : x \in Dropped(frames[n])) \/ x = fresh
    <3> SUFFICES ASSUME NEW x
                 PROVE  (\E n \in DOMAIN frames : x \in Dropped(frames'[n]))
                          <=> (\E n \in DOMAIN frames : x \in Dropped(frames[n])) \/ x = fresh
      OBVIOUS
    <3>1. ASSUME NEW n \in DOMAIN frames, x \in Dropped(frames'[n]), x # fresh
          PROVE  x \in Dropped(frames[n])
      BY <1>1, <1>2, <3>1
    <3>2. ASSUME NEW n \in DOMAIN frames, x \in Dropped(frames[n])
          PROVE  x \in Dropped(frames'[n])
      BY <1>1, <1>2, <3>2
    <3>3. fresh \in Dropped(frames'[Len(frames)])
      BY <1>2
    <3>4. QED
      BY <1>1, <3>1, <3>2, <3>3
  <2>4. \A x : x \in HeldBlocks' <=> x \in live'
    BY <2>1, <2>2, <2>3, Zenon
  <2>5. QED
    BY <2>4
<1>6. \A n \in DOMAIN frames' : HeldApart(frames'[n])
  BY <1>1, <1>2 DEF MemInv, BlockInv, HeldOnce
<1>7. \A m, n \in DOMAIN frames' : m # n => Dropped(frames'[m]) \cap Dropped(frames'[n]) = {}
  <2> SUFFICES ASSUME NEW m \in DOMAIN frames, NEW n \in DOMAIN frames, m # n
               PROVE  Dropped(frames'[m]) \cap Dropped(frames'[n]) = {}
    BY <1>2
  <2>1. Dropped(frames[m]) \cap Dropped(frames[n]) = {}
    BY DEF MemInv, BlockInv, HeldOnce
  <2>2. QED
    BY <1>1, <1>2, <1>4, <2>1
<1>8. HeldOnce'
  BY <1>6, <1>7 DEF HeldOnce, HeldApart, Dropped
<1>9. fresh' \in Nat \ {0} /\ live' \subseteq 1 .. (fresh' - 1)
  <2>1. fresh \in Nat \ {0} /\ live \subseteq 1 .. (fresh - 1)
    BY DEF MemInv, BlockInv
  <2>2. QED
    BY <2>1
<1>10. QED
  BY <1>3, <1>5, <1>8, <1>9 DEF MemInv, BlockInv

LEMMA AllocStringInv == ASSUME ListsAreTrees, MemInv, AllocString PROVE MemInv'
<1>1. Building /\ ~ListDone
  BY DEF AllocString
<1>2. /\ Inner \in Frames /\ ~Passed(Inner) /\ Dropped(Inner) \subseteq live /\ fresh \notin live
      /\ Inner = frames[Len(frames)] /\ Len(frames) \in DOMAIN frames
  BY <1>1, InnerFacts
<1> DEFINE f == [Inner EXCEPT !.own = Inner.own \cup {fresh}]
<1>3. /\ f \in Frames /\ f.own = Inner.own \cup {fresh} /\ f.head = Inner.head
      /\ f.kids = Inner.kids /\ f.at = Inner.at /\ f.list = Inner.list
  BY <1>2 DEF Frames, MemInv, BlockInv
<1>4. frames' = [frames EXCEPT ![Len(frames)] = f]
  BY DEF AllocString, Update
<1> HIDE DEF f
<1>5. Dropped(f) = Dropped(Inner) \cup {fresh}
  BY <1>3 DEF Dropped
<1>6. HeldApart(f)
  <2>1. HeldApart(Inner)
    BY <1>2 DEF MemInv, BlockInv, HeldOnce
  <2>2. /\ fresh \notin Inner.head /\ (Inner.kids # NoList => fresh \notin Inner.kids)
    BY <1>2 DEF Dropped
  <2>3. QED
    BY <1>3, <2>1, <2>2 DEF HeldApart
<1>7. ~Passed(f)
  BY <1>2, <1>3 DEF Passed
<1>8. QED
  BY <1>1, <1>3, <1>4, <1>5, <1>6, <1>7, GrowInner DEF AllocString

LEMMA AllocNodeInv == ASSUME ListsAreTrees, MemInv, AllocNode PROVE MemInv'
<1>1. Building /\ ~ListDone /\ Inner.kids # NoList
  BY DEF AllocNode
<1>2. /\ Inner \in Frames /\ Inner.kids \in SUBSET Nat
  BY <1>1, InnerFacts
<1> DEFINE h == Inner.head \cup Inner.own \cup Inner.kids \cup {fresh}
           f == [Inner EXCEPT !.at = Inner.at + 1, !.own = {}, !.kids = NoList, !.head = h]
<1>3. f \in Frames /\ f.own = {} /\ f.head = h /\ f.kids = NoList
  <2>1. h \in SUBSET Nat
    BY <1>2 DEF Frames, MemInv, BlockInv
  <2> HIDE DEF h
  <2>2. {} \in SUBSET Nat /\ Inner.at + 1 \in Nat \ {0}
    BY <1>2 DEF Frames
  <2>3. QED
    BY <1>2, <2>1, <2>2 DEF Frames
<1>4. frames' = [frames EXCEPT ![Len(frames)] = f]
  BY DEF AllocNode, Update
<1> HIDE DEF f
<1>5. Dropped(f) = Dropped(Inner) \cup {fresh}
  BY <1>1, <1>3 DEF Dropped
<1>6. HeldApart(f)
  BY <1>3 DEF HeldApart
<1>7. QED
  BY <1>1, <1>3, <1>4, <1>5, <1>6, GrowInner DEF AllocNode

LEMMA AllocKidsInv == ASSUME ListsAreTrees, MemInv, AllocKids PROVE MemInv'
<1>1. /\ Building /\ ~ListDone /\ Inner.kids = NoList
      /\ frames' = Append(frames, Frame(Current.kids)) /\ UNCHANGED <<live, fresh, wild, built>>
  BY DEF AllocKids
<1>2. /\ Len(frames) \in Nat /\ DOMAIN frames = 1 .. Len(frames) /\ ~Passed(Inner)
      /\ Inner = frames[Len(frames)] /\ Current \in [strings : Nat, kids : Lists] /\ built = {}
  BY <1>1, InnerFacts
<1> DEFINE f == Frame(Current.kids)
<1>3. f \in Frames /\ f.own = {} /\ f.head = {} /\ f.kids = NoList
  BY <1>2 DEF Frame, Frames
<1>4. frames' = Append(frames, f)
  BY <1>1
<1> HIDE DEF f
<1>5. /\ frames' \in Seq(Frames) /\ Len(frames') = Len(frames) + 1
      /\ frames'[Len(frames')] = f /\ \A n \in DOMAIN frames : frames'[n] = frames[n]
      /\ \A n \in DOMAIN frames' : n \in DOMAIN frames \/ n = Len(frames')
      /\ DOMAIN frames \subseteq DOMAIN frames' /\ Len(frames') \in DOMAIN frames'
  <2>1. frames \in Seq(Frames)
    BY DEF MemInv, FrameInv
  <2>2. /\ frames' \in Seq(Frames) /\ Len(frames') = Len(frames) + 1 /\ DOMAIN frames' = 1 .. (Len(frames) + 1)
        /\ frames'[Len(frames) + 1] = f /\ \A n \in DOMAIN frames : frames'[n] = frames[n]
    BY <1>2, <1>3, <1>4, <2>1, AppendProperties
  <2>3. QED
    BY <1>2, <2>2
<1>6. FrameInv'
  <2>1. \A n \in DOMAIN frames' :
          n # Len(frames') => frames'[n].kids = NoList /\ ~Passed(frames'[n])
    BY <1>1, <1>2, <1>5 DEF MemInv, FrameInv
  <2>2. \A n \in DOMAIN frames' :
          Passed(frames'[n]) => frames'[n].own = {} /\ frames'[n].kids = NoList
    BY <1>3, <1>5 DEF MemInv, FrameInv
  <2>3. QED
    BY <1>1, <1>2, <1>5, <2>1, <2>2 DEF FrameInv, Passed
<1>7. Dropped(f) = {} /\ HeldApart(f)
  BY <1>3 DEF Dropped, HeldApart
<1>8. HeldBlocks' = HeldBlocks
  <2>1. HeldBlocks' = UNION {Dropped(frames'[n]) : n \in DOMAIN frames'}
    BY <1>1, <1>2 DEF HeldBlocks, Dropped
  <2>2. HeldBlocks = UNION {Dropped(frames[n]) : n \in DOMAIN frames}
    BY <1>2 DEF HeldBlocks
  <2>3. QED
    BY <1>5, <1>7, <2>1, <2>2
<1>9. HeldOnce'
  <2>1. \A n \in DOMAIN frames' : HeldApart(frames'[n])
    BY <1>5, <1>7 DEF MemInv, BlockInv, HeldOnce
  <2>2. \A m, n \in DOMAIN frames' : m # n => Dropped(frames'[m]) \cap Dropped(frames'[n]) = {}
    BY <1>5, <1>7 DEF MemInv, BlockInv, HeldOnce
  <2>3. QED
    BY <2>1, <2>2 DEF HeldOnce, HeldApart, Dropped
<1>10. QED
  BY <1>1, <1>6, <1>8, <1>9 DEF MemInv, BlockInv

\* No activation: what is live is what C holds.
LEMMA NoFrames ==
  ASSUME frames' = << >>, fresh' \in Nat \ {0}, built' \subseteq Nat, wild' = FALSE,
         live' \subseteq 1 .. (fresh' - 1), live' = built'
  PROVE  MemInv'
<1>1. DOMAIN frames' = {} /\ frames' \in Seq(Frames)
  OBVIOUS
<1>2. HeldBlocks' = built'
  BY <1>1 DEF HeldBlocks
<1>3. QED
  BY <1>1, <1>2 DEF MemInv, FrameInv, BlockInv, HeldOnce

LEMMA StartBuildInv ==
  ASSUME ListsAreTrees, MemInv, NEW nodes \in Lists, StartBuild(nodes)
  PROVE  MemInv'
<1>1. /\ frames = << >> /\ built = {} /\ frames' = <<Frame(nodes)>> /\ UNCHANGED <<live, fresh, wild, built>>
  BY DEF StartBuild, Building
<1> DEFINE f == Frame(nodes)
<1>2. f \in Frames /\ f.own = {} /\ f.head = {} /\ f.kids = NoList
  BY DEF Frame, Frames
<1>3. frames' = <<f>>
  BY <1>1
<1> HIDE DEF f
<1>4. frames' \in Seq(Frames) /\ Len(frames') = 1 /\ DOMAIN frames' = 1 .. 1 /\ frames'[1] = f
  BY <1>2, <1>3
<1>5. \A n \in DOMAIN frames' : n = 1
  BY <1>4
<1>6. FrameInv'
  BY <1>1, <1>2, <1>4, <1>5 DEF FrameInv, Passed
<1>7. Dropped(f) = {} /\ HeldApart(f)
  BY <1>2 DEF Dropped, HeldApart
<1>8. live = {}
  BY <1>1 DEF MemInv, BlockInv, HeldBlocks
<1>9. HeldBlocks' = {}
  BY <1>1, <1>4, <1>5, <1>7 DEF HeldBlocks, Dropped
<1>10. HeldOnce'
  BY <1>4, <1>5, <1>7 DEF HeldOnce, HeldApart
<1>11. QED
  BY <1>1, <1>6, <1>8, <1>9, <1>10 DEF MemInv, BlockInv

LEMMA AllocFailsInv == ASSUME ListsAreTrees, MemInv, AllocFails PROVE MemInv'
<1>1. /\ Building /\ frames' = << >> /\ fresh' = 1 /\ built' = built
      /\ FreeAll(UNION {Dropped(frames[n]) : n \in DOMAIN frames})
  BY DEF AllocFails
<1>2. built = {}
  BY <1>1, InnerFacts
<1>3. live = UNION {Dropped(frames[n]) : n \in DOMAIN frames}
  BY <1>2 DEF MemInv, BlockInv, HeldBlocks
<1>4. live' = {} /\ wild' = FALSE
  BY <1>1, <1>3 DEF FreeAll, MemInv, BlockInv
<1>5. fresh' \in Nat \ {0} /\ built' \subseteq Nat /\ live' \subseteq 1 .. (fresh' - 1) /\ live' = built'
  BY <1>1, <1>2, <1>4
<1>6. QED
  BY <1>1, <1>4, <1>5, NoFrames

LEMMA FreeBuiltInv == ASSUME MemInv, FreeBuilt PROVE MemInv'
<1>1. frames = << >> /\ FreeAll(built) /\ built' = {} /\ fresh' = 1 /\ frames' = frames
  BY DEF FreeBuilt, Building
<1>2. live = built
  BY <1>1 DEF MemInv, BlockInv, HeldBlocks
<1>3. live' = {} /\ wild' = FALSE
  BY <1>1, <1>2 DEF FreeAll, MemInv, BlockInv
<1>4. fresh' \in Nat \ {0} /\ built' \subseteq Nat /\ live' \subseteq 1 .. (fresh' - 1) /\ live' = built'
  BY <1>1, <1>3
<1>5. frames' = << >>
  BY <1>1
<1>6. QED
  BY <1>3, <1>4, <1>5, NoFrames

\* The list of an activation becomes the kids of its caller's node.
LEMMA ReturnToCaller ==
  ASSUME ListsAreTrees, MemInv, Building, ListDone, Len(frames) # 1,
         frames' = [Front(frames) EXCEPT ![Len(frames) - 1].kids = Inner.head],
         UNCHANGED <<live, fresh, wild, built>>
  PROVE  MemInv'
<1>1. /\ Len(frames) \in Nat /\ DOMAIN frames = 1 .. Len(frames) /\ Len(frames) \in DOMAIN frames
      /\ Inner = frames[Len(frames)] /\ Inner \in Frames /\ Passed(Inner) /\ built = {}
      /\ Inner.head \in SUBSET Nat
  BY InnerFacts
<1> DEFINE k == Len(frames) - 1
           s == Front(frames)
           f == [frames[k] EXCEPT !.kids = Inner.head]
<1>2. k \in 1 .. k /\ k \in DOMAIN frames /\ k # Len(frames)
  <2>1. ASSUME NEW l \in Nat, l \in 1 .. l, l # 1
        PROVE  l - 1 \in 1 .. (l - 1) /\ l - 1 \in 1 .. l /\ l - 1 # l
    BY <2>1
  <2>2. QED
    BY <1>1, <2>1
<1>3. s \in Seq(Frames) /\ Len(s) = k /\ DOMAIN s = 1 .. k /\ \A n \in 1 .. k : s[n] = frames[n]
  <2>1. frames \in Seq(Frames)
    BY DEF MemInv, FrameInv
  <2>2. QED
    BY <1>1, <2>1 DEF Front
<1>4. frames[k] \in Frames /\ frames[k].kids = NoList /\ ~Passed(frames[k])
  BY <1>2, ElementOfSeq DEF MemInv, FrameInv
<1>5. /\ f \in Frames /\ f.own = frames[k].own /\ f.head = frames[k].head /\ f.kids = Inner.head
      /\ f.at = frames[k].at /\ f.list = frames[k].list
  BY <1>1, <1>4 DEF Frames
<1>6. frames' = [s EXCEPT ![k] = f]
  BY <1>2, <1>3
<1> HIDE DEF k, s, f
<1>7. /\ frames' \in Seq(Frames) /\ Len(frames') = k /\ DOMAIN frames' = 1 .. k
      /\ frames'[k] = f /\ \A n \in 1 .. k : n # k => frames'[n] = frames[n]
  <2>1. /\ [s EXCEPT ![k] = f] \in Seq(Frames) /\ Len([s EXCEPT ![k] = f]) = Len(s)
        /\ \A n \in 1 .. Len(s) : [s EXCEPT ![k] = f][n] = IF n = k THEN f ELSE s[n]
    BY <1>2, <1>3, <1>5, ExceptSeq
  <2>2. /\ frames' \in Seq(Frames) /\ Len(frames') = k
        /\ \A n \in 1 .. k : frames'[n] = IF n = k THEN f ELSE s[n]
    BY <1>3, <1>6, <2>1
  <2>3. DOMAIN frames' = 1 .. k
    BY <2>2, LenProperties
  <2>4. QED
    BY <1>2, <1>3, <2>2, <2>3
<1>8. ~Passed(f)
  BY <1>4, <1>5 DEF Passed
<1>9. \A n \in 1 .. k : n \in DOMAIN frames /\ n # Len(frames)
  BY <1>1 DEF k
<1>10. \A n \in DOMAIN frames : n \in 1 .. k \/ n = Len(frames)
  BY <1>1 DEF k
<1>11. FrameInv'
  <2>1. \A n \in DOMAIN frames' :
          n # Len(frames') => frames'[n].kids = NoList /\ ~Passed(frames'[n])
    BY <1>7, <1>9 DEF MemInv, FrameInv
  <2>2. \A n \in DOMAIN frames' :
          Passed(frames'[n]) => frames'[n].own = {} /\ frames'[n].kids = NoList
    BY <1>7, <1>8, <1>9 DEF MemInv, FrameInv
  <2>3. QED
    BY <1>1, <1>7, <2>1, <2>2 DEF FrameInv, Passed
<1>12. Dropped(Inner) = Inner.head /\ Inner.head # NoList
  <2>1. Inner.own = {} /\ Inner.kids = NoList
    BY <1>1 DEF MemInv, FrameInv
  <2>2. QED
    BY <1>1, <2>1 DEF Dropped, ListsAreTrees
<1>13. Dropped(f) = Dropped(frames[k]) \cup Dropped(Inner)
  BY <1>4, <1>5, <1>12 DEF Dropped
<1>14. \A m, n \in DOMAIN frames : m # n => Dropped(frames[m]) \cap Dropped(frames[n]) = {}
  BY DEF MemInv, BlockInv, HeldOnce
<1>15. HeldBlocks' = HeldBlocks
  <2>1. HeldBlocks' = UNION {Dropped(frames'[n]) : n \in 1 .. k}
    BY <1>1, <1>7 DEF HeldBlocks, Dropped
  <2>2. HeldBlocks = UNION {Dropped(frames[n]) : n \in DOMAIN frames}
    BY <1>1 DEF HeldBlocks
  <2>3. \A x : (\E n \in 1 .. k : x \in Dropped(frames'[n]))
                <=> (\E n \in DOMAIN frames : x \in Dropped(frames[n]))
    <3> SUFFICES ASSUME NEW x
                 PROVE  (\E n \in 1 .. k : x \in Dropped(frames'[n]))
                          <=> (\E n \in DOMAIN frames : x \in Dropped(frames[n]))
      OBVIOUS
    <3>1. ASSUME NEW n \in 1 .. k, x \in Dropped(frames'[n])
          PROVE  \E m \in DOMAIN frames : x \in Dropped(frames[m])
      BY <1>1, <1>2, <1>7, <1>9, <1>13, <3>1
    <3>2. ASSUME NEW n \in DOMAIN frames, x \in Dropped(frames[n])
          PROVE  \E m \in 1 .. k : x \in Dropped(frames'[m])
      BY <1>1, <1>2, <1>7, <1>10, <1>13, <3>2
    <3>3. QED
      BY <3>1, <3>2
  <2>4. \A x : x \in HeldBlocks' <=> x \in HeldBlocks
    BY <2>1, <2>2, <2>3, Zenon
  <2>5. QED
    BY <2>4
<1>16. HeldApart(f)
  <2>1. HeldApart(frames[k])
    BY <1>2 DEF MemInv, BlockInv, HeldOnce
  <2>2. Dropped(frames[k]) \cap Dropped(Inner) = {}
    BY <1>1, <1>2, <1>14
  <2>3. Inner.head \cap (frames[k].own \cup frames[k].head) = {}
    BY <1>12, <2>2 DEF Dropped
  <2>4. QED
    BY <1>5, <2>1, <2>3 DEF HeldApart
<1>17. \A n \in DOMAIN frames' : HeldApart(frames'[n])
  BY <1>7, <1>9, <1>16 DEF MemInv, BlockInv, HeldOnce
<1>18. \A m, n \in DOMAIN frames' : m # n => Dropped(frames'[m]) \cap Dropped(frames'[n]) = {}
  <2> TAKE m, n \in DOMAIN frames'
  <2> HAVE m # n
  <2>0. m \in 1 .. k /\ n \in 1 .. k
    BY <1>7
  <2>1. /\ Dropped(frames[m]) \cap Dropped(frames[n]) = {}
        /\ Dropped(frames[m]) \cap Dropped(Inner) = {} /\ Dropped(frames[n]) \cap Dropped(Inner) = {}
    BY <1>1, <1>9, <1>14, <2>0
  <2>2. QED
    BY <1>7, <1>13, <2>0, <2>1
<1>19. HeldOnce'
  BY <1>17, <1>18 DEF HeldOnce, HeldApart, Dropped
<1>20. QED
  BY <1>11, <1>15, <1>19 DEF MemInv, BlockInv

LEMMA ReturnListInv == ASSUME ListsAreTrees, MemInv, ReturnList PROVE MemInv'
<1>1. /\ Building /\ ListDone /\ UNCHANGED <<live, fresh, wild>>
  BY DEF ReturnList
<1>2. CASE Len(frames) = 1
  <2>1. frames' = << >> /\ built' = Inner.head
    BY <1>2 DEF ReturnList
  <2>2. /\ DOMAIN frames = 1 .. Len(frames) /\ Inner = frames[1] /\ Passed(Inner) /\ built = {}
        /\ Inner.head \in SUBSET Nat
    BY <1>1, <1>2, InnerFacts
  <2>3. \A n \in DOMAIN frames : n = 1
    BY <1>2, <2>2
  <2>4. Inner.own = {} /\ Inner.kids = NoList /\ 1 \in DOMAIN frames
    BY <1>2, <2>2 DEF MemInv, FrameInv
  <2>5. live = Inner.head
    BY <2>2, <2>3, <2>4 DEF MemInv, BlockInv, HeldBlocks, Dropped
  <2>6. QED
    BY <1>1, <2>1, <2>2, <2>5, NoFrames DEF MemInv, BlockInv
<1>3. CASE Len(frames) # 1
  BY <1>1, <1>3, ReturnToCaller DEF ReturnList
<1>4. QED
  BY <1>2, <1>3

LEMMA MemNext == ASSUME ListsAreTrees, MemInv, [CNext]_cvars PROVE MemInv'
<1>1. CASE UNCHANGED cvars
  <2>1. UNCHANGED <<frames, live, fresh, wild, built>>
    BY <1>1 DEF cvars
  <2>2. QED
    BY <2>1 DEF MemInv, FrameInv, BlockInv, HeldBlocks, HeldOnce, HeldApart, Dropped, Passed
<1>2. QED
  BY <1>1, StartBuildInv, AllocStringInv, AllocKidsInv, AllocNodeInv, ReturnListInv, AllocFailsInv,
     FreeBuiltInv DEF CNext

\* alloc_monitor, profile_to_c, list_to_c and the functions they call: for
\* structures of any size, wherever malloc fails, every block that is live is
\* held in one place, by C or by one activation, so that it is freed once.
THEOREM BlocksAreAccounted ==
  ASSUME ListsAreTrees
  PROVE  CSpec => []MemoryAccounted
<1>1. CInit => MemInv
  BY MemInit
<1>2. MemInv /\ [CNext]_cvars => MemInv'
  BY MemNext
<1>3. MemInv => MemoryAccounted
  BY DEF MemInv, BlockInv, MemoryAccounted
<1>4. QED
  BY <1>1, <1>2, <1>3, PTL DEF CSpec

-----------------------------------------------------------------------------
(* The files of StoredFiles.                                               *)

Lines == [part : {"head", "item", "end"}, doc : Docs]

\* A document has a line for each item between its head and its end.
LEMMA TextFacts ==
  ASSUME NEW d \in Docs
  PROVE  /\ Text(d) \in Seq(Lines) /\ Documents[d].items \in Nat
         /\ Len(Text(d)) = Documents[d].items + 2
         /\ Text(d)[1] = Line("head", d)
         /\ \A n \in 2 .. Documents[d].items + 1 : Text(d)[n] = Line("item", d)
         /\ Text(d)[Documents[d].items + 2] = Line("end", d)
<1> DEFINE k == Documents[d].items
           A == <<Line("head", d)>>
           B == [n \in 1 .. k |-> Line("item", d)]
           C == <<Line("end", d)>>
<1>1. k \in Nat
  BY DocumentsAssumption DEF Docs
<1>2. Line("head", d) \in Lines /\ Line("item", d) \in Lines /\ Line("end", d) \in Lines
  BY DEF Line, Lines
<1>3. A \in Seq(Lines) /\ Len(A) = 1 /\ A[1] = Line("head", d)
  BY <1>2
<1>4. C \in Seq(Lines) /\ Len(C) = 1 /\ C[1] = Line("end", d)
  BY <1>2
<1>5. B \in Seq(Lines) /\ Len(B) = k /\ \A n \in 1 .. k : B[n] = Line("item", d)
  BY <1>1, <1>2
<1> HIDE DEF A, B, C, k
<1>6. /\ A \o B \in Seq(Lines) /\ Len(A \o B) = k + 1 /\ (A \o B)[1] = Line("head", d)
      /\ \A n \in 2 .. k + 1 : (A \o B)[n] = Line("item", d)
  <2>1. /\ A \o B \in Seq(Lines) /\ Len(A \o B) = 1 + k
        /\ \A i \in 1 .. 1 + k : (A \o B)[i] = IF i <= 1 THEN A[i] ELSE B[i - 1]
    <3>1. /\ A \o B \in Seq(Lines) /\ Len(A \o B) = Len(A) + Len(B)
          /\ \A i \in 1 .. Len(A) + Len(B) : (A \o B)[i] = IF i <= Len(A) THEN A[i] ELSE B[i - Len(A)]
      BY <1>3, <1>5, ConcatProperties
    <3>2. Len(A) = 1 /\ Len(B) = k
      BY <1>3, <1>5
    <3>3. QED
      BY <3>1, <3>2
  <2>2. \A n \in 2 .. k + 1 : n \in 1 .. 1 + k /\ ~(n <= 1) /\ n - 1 \in 1 .. k
    BY <1>1
  <2>3. 1 \in 1 .. 1 + k /\ 1 + k = k + 1
    BY <1>1
  <2>4. QED
    BY <1>3, <1>5, <2>1, <2>2, <2>3
<1>7. Text(d) = (A \o B) \o C
  BY DEF Text, A, B, C, k
<1>8. QED
  <2> DEFINE T == (A \o B) \o C
  <2>1. /\ T \in Seq(Lines) /\ Len(T) = (k + 1) + 1
        /\ \A i \in 1 .. (k + 1) + 1 : T[i] = IF i <= k + 1 THEN (A \o B)[i] ELSE C[i - (k + 1)]
    <3> DEFINE D == A \o B
    <3>0. D \in Seq(Lines) /\ Len(D) = k + 1 /\ C \in Seq(Lines) /\ Len(C) = 1
      BY <1>4, <1>6
    <3> HIDE DEF D
    <3>1. /\ D \o C \in Seq(Lines) /\ Len(D \o C) = Len(D) + Len(C)
          /\ \A i \in 1 .. Len(D) + Len(C) : (D \o C)[i] = IF i <= Len(D) THEN D[i] ELSE C[i - Len(D)]
      BY <3>0, ConcatProperties
    <3>2. QED
      BY <3>0, <3>1 DEF D
  <2> HIDE DEF T
  <2>2. 1 \in 1 .. (k + 1) + 1 /\ 1 <= k + 1 /\ k + 2 = (k + 1) + 1
    BY <1>1
  <2>3. \A n \in 2 .. k + 1 : n \in 1 .. (k + 1) + 1 /\ n <= k + 1
    BY <1>1
  <2>4. k + 2 \in 1 .. (k + 1) + 1 /\ ~(k + 2 <= k + 1) /\ k + 2 - (k + 1) = 1
    BY <1>1
  <2>5. T[1] = Line("head", d) /\ \A n \in 2 .. k + 1 : T[n] = Line("item", d)
    BY <1>6, <2>1, <2>2, <2>3
  <2>6. T[k + 2] = Line("end", d)
    <3>1. PICK i \in 1 .. (k + 1) + 1 : i = k + 2 /\ ~(i <= k + 1) /\ i - (k + 1) = 1
      BY <1>1
    <3>2. T[i] = C[i - (k + 1)]
      BY <2>1, <3>1, Zenon
    <3>3. QED
      BY <1>4, <3>1, <3>2
  <2>7. T = Text(d) /\ Len(T) = k + 2
    <3>1. T = Text(d)
      BY <1>7, Zenon DEF T
    <3>2. Len(T) = k + 2
      BY <1>1, <2>1
    <3>3. QED
      BY <3>1, <3>2
  <2>8. /\ Text(d) \in Seq(Lines) /\ Len(Text(d)) = k + 2 /\ Text(d)[1] = Line("head", d)
        /\ \A n \in 2 .. k + 1 : Text(d)[n] = Line("item", d)
        /\ Text(d)[k + 2] = Line("end", d)
    BY <2>1, <2>5, <2>6, <2>7
  <2>9. QED
    BY <1>1, <2>8, Zenon DEF k

\* Where a file and a document both have a line, it is the same one.
Agrees(lines, d) == \A n \in 1 .. Len(lines) : n <= Len(Text(d)) => lines[n] = Text(d)[n]

\* A file with one root that agrees with a document is that document: its
\* end stands where the document ends.
LEMMA WholeDocument ==
  ASSUME NEW lines \in Seq(Lines), NEW d \in Docs, Agrees(lines, d), OneRoot(lines)
  PROVE  lines = Text(d)
<1> DEFINE k == Documents[d].items
           L == Len(lines)
<1>1. /\ Text(d) \in Seq(Lines) /\ k \in Nat /\ Len(Text(d)) = k + 2
      /\ Text(d)[1] = Line("head", d) /\ Text(d)[k + 2] = Line("end", d)
      /\ \A n \in 2 .. k + 1 : Text(d)[n] = Line("item", d)
  BY TextFacts
<1>2. L \in Nat /\ L >= 2 /\ lines[1].part = "head" /\ lines[L].part = "end"
      /\ \A n \in 2 .. L - 1 : lines[n].part = "item"
  BY DEF OneRoot, Last
<1>3. Line("head", d).part = "head" /\ Line("item", d).part = "item" /\ Line("end", d).part = "end"
  BY DEF Line
<1>4. ~(L < k + 2)
  <2> SUFFICES ASSUME L < k + 2 PROVE FALSE
    OBVIOUS
  <2>1. L \in 2 .. k + 1 /\ L \in 1 .. Len(lines) /\ L <= Len(Text(d))
    BY <1>1, <1>2
  <2>2. lines[L] = Line("item", d)
    BY <1>1, <2>1 DEF Agrees
  <2>3. QED
    BY <1>2, <1>3, <2>2
<1>5. ~(L > k + 2)
  <2> SUFFICES ASSUME L > k + 2 PROVE FALSE
    OBVIOUS
  <2>1. k + 2 \in 2 .. L - 1 /\ k + 2 \in 1 .. Len(lines) /\ k + 2 <= Len(Text(d))
    BY <1>1, <1>2
  <2>2. lines[k + 2] = Line("end", d)
    BY <1>1, <2>1 DEF Agrees
  <2>3. QED
    BY <1>2, <1>3, <2>1, <2>2
<1>6. L = k + 2
  BY <1>1, <1>2, <1>4, <1>5
<1>7. \A n \in 1 .. L : lines[n] = Text(d)[n]
  BY <1>1, <1>6 DEF Agrees
<1>8. QED
  BY <1>1, <1>6, <1>7, SeqEqual

\* What a save writes agrees with its document, whatever stays behind it.
LEMMA WrittenAgrees ==
  ASSUME NEW d \in Docs, NEW old \in Seq(Lines)
  PROVE  LET new == Text(d) \o SubSeq(old, Len(Text(d)) + 1, Len(old)) IN
         new \in Seq(Lines) /\ Agrees(new, d) /\ (old = << >> => new = Text(d))
<1> DEFINE rest == SubSeq(old, Len(Text(d)) + 1, Len(old))
<1>1. Text(d) \in Seq(Lines) /\ Len(Text(d)) \in Nat
  BY TextFacts
<1>2. rest \in Seq(Lines)
  BY <1>1
<1>3. old = << >> => rest = << >>
  BY <1>1
<1> HIDE DEF rest
<1>4. Text(d) \o rest \in Seq(Lines) /\ \A n \in 1 .. Len(Text(d)) : (Text(d) \o rest)[n] = Text(d)[n]
  BY <1>1, <1>2
<1>5. rest = << >> => Text(d) \o rest = Text(d)
  BY <1>1
<1>6. Agrees(Text(d) \o rest, d)
  BY <1>1, <1>4 DEF Agrees
<1>7. QED
  BY <1>3, <1>4, <1>5, <1>6 DEF rest

LEMMA CutAgrees ==
  ASSUME NEW d \in Docs, NEW k \in Nat, k < Len(Text(d))
  PROVE  SubSeq(Text(d), 1, k) \in Seq(Lines) /\ Agrees(SubSeq(Text(d), 1, k), d)
<1>1. Text(d) \in Seq(Lines) /\ Len(Text(d)) \in Nat
  BY TextFacts
<1>2. QED
  BY <1>1 DEF Agrees

Loads == [phase : Phases, tree : BOOLEAN, overlapped : BOOLEAN]

\* What is on disk agrees with one document; a save that nothing overlapped
\* is all there is and nobody is about to write.
DiskInv ==
  /\ kind \in {"profile", "list"} /\ file \in Seq(Lines) /\ saves \in 0 .. MaxSaves
  /\ file = << >> \/ \E d \in Docs : Agrees(file, d)
  /\ writer \in [Writers -> {0} \cup Docs]
  /\ \A w \in Writers : writer[w] # 0 => Serializable(writer[w])
  /\ intact \in {0} \cup Docs
  /\ intact # 0 => /\ file = Text(intact) /\ Serializable(intact)
                   /\ \A w \in Writers : writer[w] = 0

\* A load that met no save has read the beginning of the file, and what it
\* goes on with is a whole document.
LoadInv ==
  /\ load \in Loads /\ got \in Seq(Lines)
  /\ load.phase # "build" => ~Building
  /\ load.phase = "read" /\ ~load.overlapped =>
       Len(got) <= Len(file) /\ \A n \in 1 .. Len(got) : got[n] = file[n]
  /\ load.phase \in {"build", "held"} /\ ~load.tree =>
       Parses(got) /\ (~load.overlapped => \E d \in Docs : got = Text(d))

FileInv == DiskInv /\ LoadInv

LEMMA NoZeroDocument == 0 \notin Docs
<1>1. DOMAIN Documents = 1 .. Len(Documents)
  BY DocumentsAssumption
<1>2. QED
  BY <1>1 DEF Docs

LEMMA FileInit == Init => FileInv
<1> SUFFICES ASSUME Init PROVE FileInv
  OBVIOUS
<1>1. \A d \in Docs : Text(d) \in Seq(Lines) /\ Agrees(Text(d), d)
  BY TextFacts DEF Agrees
<1>2. DiskInv
  <2>1. file \in Seq(Lines) /\ (file = << >> \/ \E d \in Docs : Agrees(file, d))
    <3>1. file = << >> \/ \E d \in Docs : file = Text(d)
      BY DEF Init
    <3>2. << >> \in Seq(Lines)
      OBVIOUS
    <3>3. QED
      BY <1>1, <3>1, <3>2
  <2>2. saves \in 0 .. MaxSaves
    BY BoundsAssumption DEF Init
  <2>3. kind \in {"profile", "list"} /\ intact = 0 /\ writer = [w \in Writers |-> 0]
    BY DEF Init
  <2>4. QED
    BY <2>1, <2>2, <2>3 DEF DiskInv
<1>3. load \in Loads /\ load.phase = "idle"
  BY DEF Init, Idle, Loads, Phases
<1>4. LoadInv
  BY <1>3 DEF Init, LoadInv, CInit, Building
<1>5. QED
  BY <1>2, <1>4 DEF FileInv

\* A save touches the file: a load that is reading has been overlapped.
LEMMA TouchedLoad ==
  ASSUME LoadInv, Touched, kind' = kind, got' = got, UNCHANGED cvars
  PROVE  LoadInv'
<1>1. /\ load' \in Loads /\ load'.phase = load.phase /\ load'.tree = load.tree
      /\ load.phase = "read" => load'.overlapped
      /\ load.phase # "read" => load'.overlapped = load.overlapped
  BY DEF LoadInv, Loads, Touched
<1>2. Parses(got)' <=> Parses(got)
  BY DEF Parses, OneRoot, RightVersion, FewControls
<1>3. QED
  BY <1>1, <1>2 DEF LoadInv, Building, cvars

LEMMA SameLoad ==
  ASSUME LoadInv, load' = load, kind' = kind, got' = got, file' = file,
         load.phase # "build" => frames' = frames
  PROVE  LoadInv'
<1>1. Parses(got)' <=> Parses(got)
  BY DEF Parses, OneRoot, RightVersion, FewControls
<1>2. QED
  BY <1>1 DEF LoadInv, Building

LEMMA SameSerializable ==
  ASSUME kind' = kind
  PROVE  \A d : Serializable(d)' <=> Serializable(d)
BY DEF Serializable

LEMMA SaveOpenInv ==
  ASSUME FileInv, NEW w \in Writers, NEW d \in Docs, SaveOpen(w, d)
  PROVE  FileInv'
<1>1. /\ writer' = [writer EXCEPT ![w] = d] /\ file' = << >> /\ intact' = 0 /\ saves' = saves + 1
      /\ Serializable(d) /\ saves < MaxSaves /\ Touched /\ kind' = kind /\ got' = got
      /\ UNCHANGED cvars
  BY DEF SaveOpen
<1>2. LoadInv'
  BY <1>1, TouchedLoad DEF FileInv
<1>3. saves' \in 0 .. MaxSaves
  BY <1>1, BoundsAssumption DEF FileInv, DiskInv
<1>4. file' \in Seq(Lines)
  BY <1>1
<1>5. DiskInv'
  BY <1>1, <1>3, <1>4, SameSerializable DEF FileInv, DiskInv
<1>6. QED
  BY <1>2, <1>5 DEF FileInv

LEMMA SaveWriteInv ==
  ASSUME FileInv, NEW w \in Writers, SaveWrite(w)
  PROVE  FileInv'
<1>0. PICK d \in Docs : d = writer[w]
  BY DEF FileInv, DiskInv, SaveWrite
<1>1. /\ writer' = [writer EXCEPT ![w] = 0] /\ saves' = saves /\ kind' = kind /\ got' = got /\ Touched /\ UNCHANGED cvars
      /\ file' = Text(d) \o SubSeq(file, Len(Text(d)) + 1, Len(file))
      /\ intact' = IF file = << >> /\ Alone(w) THEN d ELSE 0
      /\ Serializable(d)
  BY <1>0 DEF FileInv, DiskInv, SaveWrite
<1>2. LoadInv'
  BY <1>1, TouchedLoad DEF FileInv
<1>3. file' \in Seq(Lines) /\ Agrees(file', d) /\ (file = << >> => file' = Text(d))
  BY <1>1, WrittenAgrees DEF FileInv, DiskInv
<1>4. intact' # 0 => file' = Text(intact') /\ Serializable(intact') /\ \A v \in Writers : writer'[v] = 0
  BY <1>1, <1>3 DEF Alone, FileInv, DiskInv
<1>5. writer' \in [Writers -> {0} \cup Docs] /\ \A v \in Writers : writer'[v] # 0 => Serializable(writer'[v])
  BY <1>1 DEF FileInv, DiskInv
<1>6. intact' \in {0} \cup Docs
  BY <1>1
<1>7. Agrees(file, d)' <=> Agrees(file', d)
  BY DEF Agrees
<1>8. DiskInv'
  BY <1>1, <1>3, <1>4, <1>5, <1>6, <1>7, SameSerializable DEF FileInv, DiskInv
<1>9. QED
  BY <1>2, <1>8 DEF FileInv

LEMMA SaveDiskFullInv ==
  ASSUME FileInv, NEW w \in Writers, SaveDiskFull(w)
  PROVE  FileInv'
<1>0. PICK d \in Docs : d = writer[w]
  BY DEF FileInv, DiskInv, SaveDiskFull
<1>1. /\ writer' = [writer EXCEPT ![w] = 0] /\ saves' = saves /\ kind' = kind /\ got' = got /\ Touched /\ UNCHANGED cvars
      /\ intact' = 0
      /\ \E k \in Len(file) .. Len(Text(d)) - 1 : file' = SubSeq(Text(d), 1, k)
  BY <1>0 DEF SaveDiskFull
<1>2. LoadInv'
  BY <1>1, TouchedLoad DEF FileInv
<1>3. PICK k \in Len(file) .. Len(Text(d)) - 1 : file' = SubSeq(Text(d), 1, k)
  BY <1>1
<1>4. k \in Nat /\ k < Len(Text(d))
  <2>1. Len(file) \in Nat /\ Len(Text(d)) \in Nat
    BY TextFacts DEF FileInv, DiskInv
  <2>2. QED
    BY <2>1
<1>5. file' \in Seq(Lines) /\ Agrees(file', d)
  BY <1>3, <1>4, CutAgrees
<1>6. writer' \in [Writers -> {0} \cup Docs] /\ \A v \in Writers : writer'[v] # 0 => Serializable(writer'[v])
  BY <1>1 DEF FileInv, DiskInv
<1>7. Agrees(file, d)' <=> Agrees(file', d)
  BY DEF Agrees
<1>8. DiskInv'
  BY <1>1, <1>5, <1>6, <1>7, SameSerializable DEF FileInv, DiskInv
<1>9. QED
  BY <1>2, <1>8 DEF FileInv

LEMMA SaveCrashInv ==
  ASSUME FileInv, NEW w \in Writers, SaveCrash(w) \/ SaveRefused(w)
  PROVE  FileInv'
<1>1. UNCHANGED <<kind, file, load, got, frames>> /\ intact' \in {0, intact} /\ saves' \in 0 .. MaxSaves
  BY BoundsAssumption DEF SaveCrash, SaveRefused, FileInv, DiskInv, cvars
<1>2. LoadInv'
  BY <1>1, SameLoad DEF FileInv
<1>3. writer' = writer \/ (writer' = [writer EXCEPT ![w] = 0] /\ intact' = 0)
  BY DEF SaveCrash, SaveRefused
<1>4. DiskInv'
  BY <1>1, <1>3, SameSerializable DEF FileInv, DiskInv, Agrees
<1>5. QED
  BY <1>2, <1>4 DEF FileInv

LEMMA ReadInv ==
  ASSUME FileInv, LoadRead
  PROVE  LoadInv'
<1>1. /\ load.phase = "read" /\ UNCHANGED <<kind, file, load, frames>>
      /\ \E k \in Len(got) + 1 .. Len(file) : got' = got \o SubSeq(file, Len(got) + 1, k)
  BY DEF LoadRead, cvars
<1>2. PICK k \in Len(got) + 1 .. Len(file) : got' = got \o SubSeq(file, Len(got) + 1, k)
  BY <1>1
<1> DEFINE g == Len(got)
           more == SubSeq(file, g + 1, k)
<1>3. g \in Nat /\ k \in Nat /\ g < k /\ k <= Len(file) /\ Len(file) \in Nat
  BY DEF FileInv, DiskInv, LoadInv
<1>4. /\ more \in Seq(Lines) /\ Len(more) = k - g
      /\ \A n \in 1 .. k - g : more[n] = file[g + n]
  <2>1. file \in Seq(Lines) /\ g + 1 \in Int /\ k \in Int
    BY <1>3 DEF FileInv, DiskInv
  <2>2. \A i \in g + 1 .. k : file[i] \in Lines
    <3> SUFFICES ASSUME NEW i \in g + 1 .. k PROVE file[i] \in Lines
      OBVIOUS
    <3>1. i \in 1 .. Len(file)
      BY <1>3
    <3>2. QED
      BY <2>1, <3>1, ElementOfSeq
  <2>3. /\ more \in Seq(Lines)
        /\ Len(more) = IF g + 1 <= k THEN k - (g + 1) + 1 ELSE 0
        /\ \A i \in 1 .. k - (g + 1) + 1 : more[i] = file[g + 1 + i - 1]
    BY <2>1, <2>2, SubSeqProperties
  <2> HIDE DEF more
  <2>4. k - (g + 1) + 1 = k - g /\ g + 1 <= k
    BY <1>3
  <2>5. \A i \in 1 .. k - g : g + 1 + i - 1 = g + i
    BY <1>3
  <2>6. QED
    BY <2>3, <2>4, <2>5
<1> HIDE DEF more, g
<1>5. /\ got' \in Seq(Lines) /\ Len(got') = g + (k - g)
      /\ \A i \in 1 .. g + (k - g) : got'[i] = IF i <= g THEN got[i] ELSE more[i - g]
  <2>1. got \in Seq(Lines) /\ Len(got) = g /\ got' = got \o more
    BY <1>2 DEF FileInv, LoadInv, g, more
  <2>2. /\ got \o more \in Seq(Lines) /\ Len(got \o more) = Len(got) + Len(more)
        /\ \A i \in 1 .. Len(got) + Len(more) :
             (got \o more)[i] = IF i <= Len(got) THEN got[i] ELSE more[i - Len(got)]
    BY <1>4, <2>1, ConcatProperties
  <2>3. QED
    BY <1>4, <2>1, <2>2
<1>6. g + (k - g) = k
  BY <1>3
<1>7. ASSUME ~load.overlapped, NEW i \in 1 .. k PROVE got'[i] = file[i]
  <2>1. \A n \in 1 .. g : got[n] = file[n]
    BY <1>1, <1>7 DEF FileInv, LoadInv, g
  <2>2. CASE i <= g
    <3>1. i \in 1 .. g
      BY <1>3, <2>2
    <3>2. QED
      BY <1>5, <1>6, <2>1, <2>2, <3>1
  <2>3. CASE ~(i <= g)
    <3>1. PICK n \in 1 .. k - g : n = i - g /\ g + n = i
      BY <1>3, <2>3
    <3>2. QED
      BY <1>4, <1>5, <1>6, <2>3, <3>1
  <2>4. QED
    BY <2>2, <2>3
<1>8. QED
  BY <1>1, <1>3, <1>5, <1>6, <1>7 DEF FileInv, LoadInv, Building

LEMMA ParsedInv ==
  ASSUME FileInv, LoadParsed
  PROVE  LoadInv'
<1>1. /\ load.phase = "read" /\ Len(got) >= Len(file) /\ Parses(got) /\ UNCHANGED <<kind, file, got>>
      /\ load' = [load EXCEPT !.phase = "build"]
  BY DEF LoadParsed
<1>2. /\ load' \in Loads /\ load'.phase = "build" /\ load'.overlapped = load.overlapped
  BY <1>1 DEF FileInv, LoadInv, Loads, Phases
<1>3. Parses(got)'
  BY <1>1 DEF Parses, OneRoot, RightVersion, FewControls
<1>4. ASSUME ~load.overlapped PROVE \E d \in Docs : got = Text(d)
  <2>1. /\ got \in Seq(Lines) /\ file \in Seq(Lines) /\ Len(got) <= Len(file)
        /\ \A n \in 1 .. Len(got) : got[n] = file[n]
    BY <1>1, <1>4 DEF FileInv, DiskInv, LoadInv
  <2>2. Len(got) = Len(file)
    BY <1>1, <2>1
  <2>3. got = file
    BY <2>1, <2>2, SeqEqual
  <2>4. OneRoot(got) /\ got # << >>
    BY <1>1 DEF Parses, OneRoot
  <2>5. PICK d \in Docs : Agrees(got, d)
    BY <2>3, <2>4 DEF FileInv, DiskInv
  <2>6. QED
    BY <2>1, <2>4, <2>5, WholeDocument
<1>5. QED
  BY <1>1, <1>2, <1>3, <1>4 DEF FileInv, LoadInv

LEMMA IdleInv ==
  ASSUME got' \in Seq(Lines), load' \in Loads, load'.phase \in {"idle", "build"},
         load'.phase = "build" => load'.tree, load'.phase = "idle" => frames' = << >>
  PROVE  LoadInv'
BY DEF LoadInv, Building

LEMMA FileNext == FileInv /\ [Next]_vars => FileInv'
<1> SUFFICES ASSUME FileInv, [Next]_vars PROVE FileInv'
  OBVIOUS
<1>1. ASSUME NEW w \in Writers, NEW d \in Docs, SaveOpen(w, d) PROVE FileInv'
  BY <1>1, SaveOpenInv
<1>2. ASSUME NEW w \in Writers, SaveRefused(w) \/ SaveWrite(w) \/ SaveDiskFull(w) \/ SaveCrash(w) PROVE FileInv'
  BY <1>2, SaveWriteInv, SaveDiskFullInv, SaveCrashInv
<1>3. ASSUME UNCHANGED <<kind, file, writer, saves, intact>>, LoadInv' PROVE FileInv'
  BY <1>3, SameSerializable DEF FileInv, DiskInv, Agrees
<1>4. Idle \in Loads /\ Idle.phase = "idle" /\ << >> \in Seq(Lines)
  BY DEF Idle, Loads, Phases
<1>5. CASE LoadStart
  <2>1. /\ load' \in Loads /\ load'.phase = "read" /\ got' = << >> /\ Len(got') = 0
        /\ UNCHANGED <<kind, file, writer, saves, intact, frames>> /\ load.phase = "idle"
    BY <1>5 DEF LoadStart, Idle, Loads, Phases, cvars
  <2>2. LoadInv'
    BY <2>1, <1>4 DEF LoadInv, FileInv, DiskInv, Building
  <2>3. QED
    BY <1>3, <2>1, <2>2
<1>6. CASE LoadRead
  BY <1>3, <1>6, ReadInv DEF LoadRead
<1>7. CASE LoadParsed
  BY <1>3, <1>7, ParsedInv DEF LoadParsed
<1>8. CASE LoadRefused \/ BuildFails \/ FreeHeld
  <2>1. load' = Idle /\ got' = << >> /\ UNCHANGED <<kind, file, writer, saves, intact>> /\ frames' = << >>
    BY <1>8 DEF LoadRefused, BuildFails, FreeHeld, AllocFails, FreeBuilt, FileInv, LoadInv, Building, cvars
  <2>2. QED
    BY <1>3, <1>4, <2>1, IdleInv
<1>9. CASE CreateTree
  <2>1. /\ load' \in Loads /\ load'.phase = "build" /\ load'.tree /\ got' = got
        /\ UNCHANGED <<kind, file, writer, saves, intact>>
    BY <1>9 DEF CreateTree, Idle, Loads, Phases
  <2>2. QED
    BY <1>3, <2>1, IdleInv DEF FileInv, LoadInv
<1>10. CASE Build \/ UNCHANGED vars
  <2>1. UNCHANGED <<kind, file, writer, saves, intact, load, got>> /\ (frames' = frames \/ Building)
    BY <1>10 DEF Build, fvars, vars, cvars, AllocString, AllocKids, AllocNode
  <2>2. QED
    BY <1>3, <2>1, SameLoad DEF FileInv, LoadInv
<1>11. CASE BuildReturns
  <2>1. UNCHANGED <<kind, file, writer, saves, intact, got>>
    BY <1>11 DEF BuildReturns
  <2>2. load.phase = "build"
    BY <1>11 DEF BuildReturns, ReturnList, FileInv, LoadInv
  <2>3. /\ load' \in Loads /\ load'.phase \in {"build", "held"} /\ load'.tree = load.tree
        /\ load'.overlapped = load.overlapped /\ (load'.phase # "build" => ~Building')
    BY <1>11, <2>2 DEF BuildReturns, FileInv, LoadInv, Loads, Phases
  <2>4. Parses(got)' <=> Parses(got)
    BY <2>1 DEF Parses, OneRoot, RightVersion, FewControls
  <2>5. LoadInv'
    BY <2>1, <2>2, <2>3, <2>4 DEF FileInv, LoadInv
  <2>6. QED
    BY <1>3, <2>1, <2>5
<1>12. QED
  BY <1>1, <1>2, <1>5, <1>6, <1>7, <1>8, <1>9, <1>10, <1>11 DEF Next

LEMMA FileInvariance == Spec => []FileInv
<1>1. FileInv /\ [Next]_vars => FileInv'
  BY FileNext
<1>2. QED
  BY <1>1, FileInit, PTL DEF Spec

\* What a save has reported as written, and no other one overlapped, is in
\* the file and loads again, up to a profile with MAX_CONTROLS controls; a
\* list is refused by a program of another version only.
THEOREM SavedLoads == Spec => []SavedIsLoadable
<1>1. FileInv => SavedIsLoadable
  <2> SUFFICES ASSUME FileInv, intact # 0
               PROVE  /\ file = Text(intact)
                      /\ Parses(file) <=> (kind = "list" => Documents[intact].version = Version)
    BY DEF SavedIsLoadable
  <2>1. intact \in Docs /\ file = Text(intact) /\ Serializable(intact)
    BY DEF FileInv, DiskInv
  <2> DEFINE k == Documents[intact].items
  <2>2. /\ Len(file) = k + 2 /\ k \in Nat /\ file[1] = Line("head", intact)
        /\ \A n \in 2 .. k + 1 : file[n] = Line("item", intact)
        /\ file[k + 2] = Line("end", intact)
    BY <2>1, TextFacts
  <2>3. /\ Line("head", intact).part = "head" /\ Line("item", intact).part = "item"
        /\ Line("end", intact).part = "end" /\ Line("head", intact).doc = intact
    BY DEF Line
  <2> HIDE DEF k
  <2>4. OneRoot(file)
    <3>1. k + 2 >= 2 /\ (k + 2) - 1 = k + 1
      BY <2>2
    <3>2. QED
      BY <2>2, <2>3, <3>1 DEF OneRoot, Last
  <2>5. FewControls(file)
    <3>1. kind = "profile" => k <= MaxControls
      BY <2>1 DEF Serializable, k
    <3>2. (k + 2) - 2 = k
      BY <2>2
    <3>3. QED
      BY <2>2, <3>1, <3>2 DEF FewControls
  <2>6. RightVersion(file) <=> (kind = "list" => Documents[intact].version = Version)
    BY <2>2, <2>3 DEF RightVersion
  <2>7. QED
    BY <2>1, <2>4, <2>5, <2>6 DEF Parses
<1>2. QED
  BY <1>1, FileInvariance, PTL

-----------------------------------------------------------------------------
(* The structures of StoredFiles.                                          *)

\* Lists has the trees, and what profiles and monitor lists are made of.
StructuresListed ==
  /\ ListsAreTrees
  /\ Trees \subseteq Lists /\ <<ProfileNode>> \in Lists /\ Seq({ListNode}) \subseteq Lists

LEMMA StructureFacts ==
  ASSUME got \in Seq(Lines), Parses(got), kind \in {"profile", "list"}
  PROVE  /\ Structure(got) \in Seq({ListNode}) \cup {<<ProfileNode>>}
         /\ kind = "list" => /\ Len(Structure(got)) = Len(got) - 2
                             /\ \A n \in 1 .. Len(Structure(got)) : Structure(got)[n] = ListNode
         /\ kind = "profile" => Structure(got) = <<ProfileNode>>
         /\ Len(got) - 2 \in Nat
<1>1. Len(got) \in Nat /\ Len(got) >= 2
  BY DEF Parses, OneRoot
<1> DEFINE L == [n \in 1 .. Len(got) - 2 |-> ListNode]
<1>2. Len(got) - 2 \in Nat
  BY <1>1
<1>3. L \in Seq({ListNode}) /\ Len(L) = Len(got) - 2 /\ \A n \in 1 .. Len(got) - 2 : L[n] = ListNode
  BY <1>2
<1>4. kind = "list" => Structure(got) = L
  BY DEF Structure, ListOf
<1>5. kind = "profile" => Structure(got) = <<ProfileNode>>
  BY DEF Structure
<1> HIDE DEF L
<1>6. QED
  BY <1>2, <1>3, <1>4, <1>5

LEMMA StoredMemory ==
  ASSUME StructuresListed, FileInv, MemInv, [Next]_vars
  PROVE  MemInv'
<1>1. ASSUME [CNext]_cvars PROVE MemInv'
  BY <1>1, MemNext DEF StructuresListed
<1>2. CASE LoadParsed
  <2>1. Structure(got) \in Lists /\ StartBuild(Structure(got))
    BY <1>2, StructureFacts DEF LoadParsed, FileInv, DiskInv, LoadInv, StructuresListed
  <2>2. QED
    BY <1>1, <2>1 DEF CNext
<1>3. CASE CreateTree
  BY <1>1, <1>3 DEF CreateTree, CNext, StructuresListed
<1>4. CASE ~LoadParsed /\ ~CreateTree
  <2>1. [CNext]_cvars
    BY <1>4 DEF Next, SaveOpen, SaveRefused, SaveWrite, SaveDiskFull, SaveCrash, LoadStart, LoadRead, LoadRefused,
       Build, BuildReturns, BuildFails, FreeHeld, CNext, vars
  <2>2. QED
    BY <1>1, <2>1
<1>5. QED
  BY <1>2, <1>3, <1>4

LEMMA StoredInvariance == ASSUME StructuresListed PROVE Spec => [](FileInv /\ MemInv)
<1>1. Init => FileInv /\ MemInv
  BY FileInit, MemInit DEF Init
<1>2. FileInv /\ MemInv /\ [Next]_vars => (FileInv /\ MemInv)'
  BY FileNext, StoredMemory
<1>3. QED
  BY <1>1, <1>2, PTL DEF Spec

\* Loading profiles and lists and creating trees, with saves in between and
\* malloc failing anywhere, loses no block and frees none twice.
THEOREM StoredBlocksAccounted ==
  ASSUME StructuresListed
  PROVE  Spec => []MemoryAccounted
<1>1. MemInv => MemoryAccounted
  BY DEF MemInv, BlockInv, MemoryAccounted
<1>2. QED
  BY <1>1, StoredInvariance, PTL

-----------------------------------------------------------------------------
(* How many blocks a loaded profile or list has.                           *)

\* The strings of a node, and the blocks of so many nodes: neither a profile
\* nor a monitor of a list has kids.
Strings == IF kind = "list" THEN 2 ELSE 3
Blocks(nodes) == IF kind = "list" THEN 3 * nodes ELSE 4 * nodes

\* The activation that builds the list has all the blocks of the nodes
\* before its own.
Counted(f) ==
  /\ f.list = Structure(got) /\ f.at \in 1 .. Len(Structure(got)) + 1
  /\ IsFiniteSet(f.head) /\ Cardinality(f.head) = Blocks(f.at - 1)
  /\ IsFiniteSet(f.own) /\ Cardinality(f.own) <= Strings
  /\ f.kids # NoList => f.kids = {} /\ Cardinality(f.own) = Strings

\* It calls for the empty list of kids once its strings are there.
CallInv ==
  \/ Len(frames) = 1
  \/ Len(frames) = 2 /\ Cardinality(frames[1].own) = Strings /\ frames[2] = Frame(<< >>)

BuildInv ==
  /\ load.phase = "build" /\ ~load.tree => Building /\ Counted(frames[1]) /\ CallInv
  /\ load.phase = "held" /\ ~load.tree =>
       IsFiniteSet(built) /\ Cardinality(built) = Blocks(Len(Structure(got)))

LoadedInv == FileInv /\ MemInv /\ BuildInv

LEMMA FlatNodes ==
  ASSUME got \in Seq(Lines), Parses(got), kind \in {"profile", "list"}
  PROVE  /\ Len(Structure(got)) \in Nat
         /\ \A n \in 1 .. Len(Structure(got)) :
              Structure(got)[n].strings = Strings /\ Structure(got)[n].kids = << >>
<1>1. /\ ListNode.strings = 2 /\ ListNode.kids = << >> /\ ProfileNode.strings = 3 /\ ProfileNode.kids = << >>
  BY DEF ListNode, ProfileNode, Node
<1>2. CASE kind = "list"
  BY <1>1, <1>2, StructureFacts DEF Strings
<1>3. CASE kind = "profile"
  <2>1. Structure(got) = <<ProfileNode>>
    BY <1>3, StructureFacts
  <2>2. Len(<<ProfileNode>>) = 1 /\ \A n \in 1 .. 1 : <<ProfileNode>>[n] = ProfileNode
    OBVIOUS
  <2>3. kind # "list"
    BY <1>3
  <2>4. QED
    BY <1>1, <2>1, <2>2, <2>3 DEF Strings
<1>4. QED
  BY <1>2, <1>3

\* What a definition says of kind and got stays true while they do.
LEMMA SameBlocks ==
  ASSUME kind' = kind, got' = got
  PROVE  /\ Strings' = Strings /\ Structure(got)' = Structure(got)
         /\ \A n : Blocks(n)' = Blocks(n)
         /\ \A f : Counted(f)' <=> Counted(f)
<1>1. Strings' = Strings /\ Structure(got)' = Structure(got) /\ \A n : Blocks(n)' = Blocks(n)
  BY DEF Strings, Structure, ListOf, Blocks
<1>2. QED
  BY <1>1 DEF Counted, Blocks

\* While a profile or a list is built.
LEMMA BuildFacts ==
  ASSUME StructuresListed, LoadedInv, Building, ~load.tree
  PROVE  /\ load.phase = "build" /\ Counted(frames[1]) /\ CallInv /\ Inner = frames[Len(frames)]
         /\ Len(frames) = 1 /\ ~ListDone => Current.strings = Strings /\ Current.kids = << >>
         /\ Len(frames) = 2 => ListDone /\ Inner.head = {}
         /\ Len(Structure(got)) \in Nat
<1>1. load.phase = "build" /\ Parses(got) /\ got \in Seq(Lines) /\ kind \in {"profile", "list"}
  BY DEF LoadedInv, FileInv, DiskInv, LoadInv
<1>2. Counted(frames[1]) /\ CallInv
  BY <1>1 DEF LoadedInv, BuildInv
<1>3. Len(Structure(got)) \in Nat
  BY <1>1, FlatNodes
<1>4. ASSUME Len(frames) = 1, ~ListDone PROVE Current.strings = Strings /\ Current.kids = << >>
  <2>1. Inner = frames[1]
    BY <1>4 DEF Inner
  <2>2. Inner.at \in 1 .. Len(Structure(got)) /\ Inner.list = Structure(got)
    BY <1>2, <1>3, <1>4, <2>1 DEF Counted, ListDone
  <2>3. QED
    BY <1>1, <2>2, FlatNodes DEF Current
<1>5. ASSUME Len(frames) = 2 PROVE ListDone /\ Inner.head = {}
  <2>1. Inner = Frame(<< >>)
    BY <1>2, <1>5 DEF CallInv, Inner
  <2>2. Inner.at = 1 /\ Inner.list = << >> /\ Inner.head = {} /\ Len(<< >>) = 0
    BY <2>1 DEF Frame
  <2>3. QED
    BY <2>2 DEF ListDone
<1>6. QED
  BY <1>1, <1>2, <1>3, <1>4, <1>5 DEF Inner

LEMMA BuildInit == Init => BuildInv
BY DEF Init, BuildInv, Idle

LEMMA BuildIdle ==
  ASSUME load'.phase \in {"idle", "read"} \/ load'.tree
  PROVE  BuildInv'
BY DEF BuildInv

LEMMA BuildSame ==
  ASSUME BuildInv, kind' = kind, got' = got, UNCHANGED cvars,
         load'.phase = load.phase, load'.tree = load.tree
  PROVE  BuildInv'
<1>1. frames' = frames /\ built' = built
  BY DEF cvars
<1>2. QED
  BY <1>1, SameBlocks DEF BuildInv, CallInv, Building, Frame

LEMMA BuildStarts ==
  ASSUME LoadedInv, LoadParsed
  PROVE  BuildInv'
<1>1. /\ kind' = kind /\ got' = got /\ frames' = <<Frame(Structure(got))>> /\ load'.phase = "build"
  <2>1. load \in Loads /\ load' = [load EXCEPT !.phase = "build"]
    BY DEF LoadParsed, LoadedInv, FileInv, LoadInv
  <2>2. QED
    BY <2>1 DEF LoadParsed, StartBuild, Loads
<1> DEFINE f == Frame(Structure(got))
<1>2. f.list = Structure(got) /\ f.at = 1 /\ f.own = {} /\ f.kids = NoList /\ f.head = {}
  BY DEF Frame
<1>3. Len(Structure(got)) \in Nat
  BY FlatNodes DEF LoadParsed, LoadedInv, FileInv, DiskInv, LoadInv
<1>4. frames' = <<f>>
  BY <1>1
<1> HIDE DEF f
<1>5. Len(frames') = 1 /\ frames'[1] = f /\ frames' # << >>
  BY <1>4
<1>6. IsFiniteSet({}) /\ Cardinality({}) = 0
  BY FS_EmptySet
<1>7. Blocks(0) = 0 /\ 0 <= Strings
  BY DEF Blocks, Strings
<1>8. Counted(f)
  BY <1>2, <1>3, <1>6, <1>7 DEF Counted
<1>9. QED
  BY <1>1, <1>5, <1>8, SameBlocks DEF BuildInv, Building, CallInv

\* The only activation changes.
LEMMA BuildStep ==
  ASSUME load.phase = "build", Len(frames) = 1, frames \in Seq(Frames), NEW f \in Frames, Counted(f),
         frames' = [frames EXCEPT ![Len(frames)] = f], kind' = kind, got' = got, load' = load
  PROVE  BuildInv'
<1>1. DOMAIN frames = 1 .. 1
  OBVIOUS
<1>2. frames' = [frames EXCEPT ![1] = f]
  OBVIOUS
<1>3. frames'[1] = f /\ Len(frames') = 1 /\ frames' # << >>
  <2>1. /\ [frames EXCEPT ![1] = f] \in Seq(Frames) /\ Len([frames EXCEPT ![1] = f]) = Len(frames)
    BY ExceptSeq
  <2>2. frames' \in Seq(Frames) /\ Len(frames') = 1
    BY <1>2, <2>1
  <2>3. frames'[1] = f
    BY <1>1, <1>2
  <2>4. frames' # << >>
    BY <2>2
  <2>5. QED
    BY <2>2, <2>3, <2>4
<1>4. Counted(frames[1])'
  BY <1>3, SameBlocks
<1>5. CallInv' /\ Building'
  BY <1>3 DEF CallInv, Building
<1>6. load'.phase # "held"
  OBVIOUS
<1>7. QED
  BY <1>4, <1>5, <1>6 DEF BuildInv

LEMMA BuildString ==
  ASSUME StructuresListed, LoadedInv, ~load.tree, AllocString, UNCHANGED fvars
  PROVE  BuildInv'
<1>1. /\ Building /\ ~ListDone /\ Cardinality(Inner.own) < Current.strings
      /\ kind' = kind /\ got' = got /\ load' = load
  BY DEF AllocString, fvars
<1>2. /\ load.phase = "build" /\ Counted(frames[1]) /\ CallInv /\ Inner = frames[Len(frames)]
      /\ Len(frames) = 1 /\ Current.strings = Strings
  BY <1>1, BuildFacts DEF CallInv
<1>3. /\ Inner \in Frames /\ Dropped(Inner) \subseteq live /\ fresh \notin live
  BY <1>1, InnerFacts DEF StructuresListed, LoadedInv
<1>4. Counted(Inner)
  BY <1>2
<1> DEFINE f == [Inner EXCEPT !.own = Inner.own \cup {fresh}]
<1>5. /\ f \in Frames /\ f.own = Inner.own \cup {fresh} /\ f.head = Inner.head
      /\ f.kids = Inner.kids /\ f.at = Inner.at /\ f.list = Inner.list
  BY <1>3 DEF Frames, LoadedInv, MemInv, BlockInv
<1>6. frames' = [frames EXCEPT ![Len(frames)] = f]
  BY DEF AllocString, Update
<1> HIDE DEF f
<1>7. fresh \notin Inner.own
  BY <1>3 DEF Dropped
<1>8. IsFiniteSet(f.own) /\ Cardinality(f.own) = Cardinality(Inner.own) + 1
  BY <1>4, <1>5, <1>7, FS_AddElement DEF Counted
<1>9. Cardinality(Inner.own) < Strings /\ Cardinality(Inner.own) \in Nat /\ Strings \in Nat
  BY <1>1, <1>2, <1>4, FS_CardinalityType DEF Counted, Strings
<1>10. Inner.kids = NoList
  BY <1>4, <1>9 DEF Counted
<1>11. Cardinality(f.own) <= Strings
  BY <1>8, <1>9
<1>12. Counted(f)
  BY <1>4, <1>5, <1>8, <1>10, <1>11 DEF Counted
<1>13. frames \in Seq(Frames)
  BY DEF LoadedInv, MemInv, FrameInv
<1>14. QED
  BY <1>1, <1>2, <1>5, <1>6, <1>12, <1>13, BuildStep

LEMMA BuildNode ==
  ASSUME StructuresListed, LoadedInv, ~load.tree, AllocNode, UNCHANGED fvars
  PROVE  BuildInv'
<1>1. /\ Building /\ ~ListDone /\ Inner.kids # NoList
      /\ kind' = kind /\ got' = got /\ load' = load
  BY DEF AllocNode, fvars
<1>2. /\ load.phase = "build" /\ Counted(frames[1]) /\ CallInv /\ Inner = frames[Len(frames)]
      /\ Len(frames) = 1 /\ Len(Structure(got)) \in Nat
  BY <1>1, BuildFacts DEF CallInv
<1>3. /\ Inner \in Frames /\ Dropped(Inner) \subseteq live /\ fresh \notin live /\ Len(frames) \in DOMAIN frames
  BY <1>1, InnerFacts DEF StructuresListed, LoadedInv
<1>4. Counted(Inner)
  BY <1>2
<1>5. Inner.kids = {} /\ Cardinality(Inner.own) = Strings
  BY <1>1, <1>4 DEF Counted
<1> DEFINE h == Inner.head \cup Inner.own \cup Inner.kids \cup {fresh}
           f == [Inner EXCEPT !.at = Inner.at + 1, !.own = {}, !.kids = NoList, !.head = h]
<1>6. /\ f \in Frames /\ f.own = {} /\ f.head = h /\ f.kids = NoList
      /\ f.at = Inner.at + 1 /\ f.list = Inner.list
  <2>1. h \in SUBSET Nat
    BY <1>3, <1>5 DEF Frames, LoadedInv, MemInv, BlockInv
  <2> HIDE DEF h
  <2>2. {} \in SUBSET Nat /\ Inner.at + 1 \in Nat \ {0}
    BY <1>3 DEF Frames
  <2>3. QED
    BY <1>3, <2>1, <2>2 DEF Frames
<1>7. frames' = [frames EXCEPT ![Len(frames)] = f]
  BY DEF AllocNode, Update
<1> HIDE DEF f
<1>8. fresh \notin Inner.head \cup Inner.own /\ Inner.head \cap Inner.own = {}
  <2>1. HeldApart(Inner)
    BY <1>2, <1>3 DEF LoadedInv, MemInv, BlockInv, HeldOnce
  <2>2. QED
    BY <1>3, <2>1 DEF Dropped, HeldApart
<1>9. IsFiniteSet(h) /\ Cardinality(h) = Cardinality(Inner.head) + Strings + 1
  <2> DEFINE S == Inner.head \cup Inner.own
  <2>1. IsFiniteSet(Inner.head) /\ IsFiniteSet(Inner.own)
    BY <1>4 DEF Counted
  <2>2. /\ IsFiniteSet(S)
        /\ Cardinality(S) = Cardinality(Inner.head) + Cardinality(Inner.own) - Cardinality(Inner.head \cap Inner.own)
    BY <2>1, FS_Union
  <2>3. Cardinality(Inner.head \cap Inner.own) = 0
    BY <1>8, FS_EmptySet
  <2>4. Cardinality(Inner.head) \in Nat /\ Strings \in Nat
    BY <2>1, FS_CardinalityType DEF Strings
  <2>5. Cardinality(S) = Cardinality(Inner.head) + Strings
    BY <1>5, <2>2, <2>3, <2>4
  <2>6. IsFiniteSet(S \cup {fresh}) /\ Cardinality(S \cup {fresh}) = Cardinality(S) + 1
    BY <1>8, <2>2, FS_AddElement
  <2>7. h = S \cup {fresh}
    BY <1>5
  <2>8. QED
    BY <2>5, <2>6, <2>7
<1> HIDE DEF h
<1>10. Inner.at \in 1 .. Len(Structure(got))
  BY <1>1, <1>2, <1>4 DEF Counted, ListDone
<1>11. Cardinality(f.head) = Blocks(f.at - 1) /\ f.at \in 1 .. Len(Structure(got)) + 1
  <2>1. ASSUME NEW a \in Nat \ {0}, Cardinality(Inner.head) = Blocks(a - 1)
        PROVE  Cardinality(h) = Blocks((a + 1) - 1)
    BY <1>9, <2>1 DEF Blocks, Strings
  <2>2. Inner.at \in Nat \ {0} /\ Cardinality(Inner.head) = Blocks(Inner.at - 1)
    BY <1>2, <1>4, <1>10 DEF Counted
  <2>3. Cardinality(h) = Blocks((Inner.at + 1) - 1)
    BY <2>1, <2>2
  <2>4. Inner.at + 1 \in 1 .. Len(Structure(got)) + 1
    BY <1>2, <1>10
  <2>5. QED
    BY <1>6, <2>3, <2>4
<1>12. Counted(f)
  <2>1. IsFiniteSet({}) /\ Cardinality({}) = 0 /\ 0 <= Strings
    BY FS_EmptySet DEF Strings
  <2>2. QED
    BY <1>4, <1>6, <1>9, <1>11, <2>1 DEF Counted
<1>13. frames \in Seq(Frames)
  BY DEF LoadedInv, MemInv, FrameInv
<1>14. QED
  BY <1>1, <1>2, <1>6, <1>7, <1>12, <1>13, BuildStep

LEMMA BuildKids ==
  ASSUME StructuresListed, LoadedInv, ~load.tree, AllocKids, UNCHANGED fvars
  PROVE  BuildInv'
<1>1. /\ Building /\ ~ListDone /\ Cardinality(Inner.own) = Current.strings
      /\ frames' = Append(frames, Frame(Current.kids))
      /\ kind' = kind /\ got' = got /\ load' = load
  BY DEF AllocKids, fvars
<1>2. /\ load.phase = "build" /\ Counted(frames[1]) /\ CallInv /\ Inner = frames[Len(frames)]
      /\ Len(frames) = 1 /\ Current.strings = Strings /\ Current.kids = << >>
  BY <1>1, BuildFacts DEF CallInv
<1>3. frames \in Seq(Frames) /\ Frame(<< >>) \in Frames
  <2>1. << >> \in Seq({ListNode})
    OBVIOUS
  <2>2. << >> \in Lists
    BY <2>1 DEF StructuresListed
  <2>3. QED
    BY <2>2 DEF LoadedInv, MemInv, FrameInv, Frame, Frames
<1> DEFINE f == Frame(<< >>)
<1>4. f \in Frames /\ frames' = Append(frames, f)
  BY <1>1, <1>2, <1>3
<1> HIDE DEF f
<1>5. Len(frames') = 2 /\ frames'[1] = frames[1] /\ frames'[2] = f /\ frames' # << >>
  <2>1. /\ frames' \in Seq(Frames) /\ Len(frames') = Len(frames) + 1
        /\ frames'[Len(frames) + 1] = f /\ \A n \in 1 .. Len(frames) : frames'[n] = frames[n]
    BY <1>3, <1>4, AppendProperties
  <2>2. Len(frames') = 2 /\ frames'[2] = f /\ frames'[1] = frames[1]
    BY <1>2, <2>1
  <2>3. frames' # << >>
    BY <2>1, <2>2
  <2>4. QED
    BY <2>2, <2>3
<1>6. Cardinality(frames'[1].own) = Strings
  BY <1>1, <1>2, <1>5
<1>7. CallInv' /\ Building'
  BY <1>1, <1>5, <1>6, SameBlocks DEF CallInv, Building, Frame, f
<1>8. Counted(frames[1])'
  BY <1>1, <1>2, <1>5, SameBlocks
<1>9. load'.phase # "held"
  BY <1>1, <1>2
<1>10. QED
  BY <1>7, <1>8, <1>9 DEF BuildInv

\* The empty list of kids comes back to the only other activation.
LEMMA BuildKidsReturn ==
  ASSUME StructuresListed, LoadedInv, ~load.tree, BuildReturns, Len(frames) = 2
  PROVE  BuildInv'
<1>1. /\ Building /\ ListDone /\ kind' = kind /\ got' = got
      /\ frames' = [Front(frames) EXCEPT ![Len(frames) - 1].kids = Inner.head]
  BY DEF BuildReturns, ReturnList
<1>2. load.phase = "build" /\ Counted(frames[1]) /\ CallInv /\ Inner.head = {}
  BY <1>1, BuildFacts
<1>3. Cardinality(frames[1].own) = Strings
  BY <1>2 DEF CallInv
<1>4. frames \in Seq(Frames) /\ frames[1] \in Frames
  BY DEF LoadedInv, MemInv, FrameInv
<1> DEFINE f == [frames[1] EXCEPT !.kids = {}]
           s == Front(frames)
<1>5. s \in Seq(Frames) /\ Len(s) = 1 /\ DOMAIN s = 1 .. 1 /\ s[1] = frames[1]
  BY <1>4 DEF Front
<1>6. /\ f \in Frames /\ f.own = frames[1].own /\ f.head = frames[1].head /\ f.kids = {}
      /\ f.at = frames[1].at /\ f.list = frames[1].list
  BY <1>4 DEF Frames
<1>7. frames' = [s EXCEPT ![1] = f]
  <2>1. frames' = [s EXCEPT ![1].kids = {}]
    BY <1>1, <1>2
  <2>2. QED
    BY <1>5, <2>1
<1> HIDE DEF f, s
<1>8. frames'[1] = f /\ Len(frames') = 1 /\ frames' # << >>
  <2>1. /\ [s EXCEPT ![1] = f] \in Seq(Frames) /\ Len([s EXCEPT ![1] = f]) = Len(s)
        /\ \A n \in 1 .. Len(s) : [s EXCEPT ![1] = f][n] = IF n = 1 THEN f ELSE s[n]
    <3>1. 1 \in 1 .. Len(s) /\ s \in Seq(Frames)
      BY <1>5
    <3>2. f \in Frames
      BY <1>6
    <3>3. QED
      BY <3>1, <3>2, ExceptSeq
  <2>2. frames' \in Seq(Frames) /\ Len(frames') = 1 /\ frames'[1] = f
    BY <1>5, <1>7, <2>1
  <2>3. frames' # << >>
    BY <2>2
  <2>4. QED
    BY <2>2, <2>3
<1>9. Counted(f)
  BY <1>2, <1>3, <1>6 DEF Counted
<1>10. CallInv' /\ Building'
  BY <1>8 DEF CallInv, Building
<1>11. load' = load
  BY <1>10 DEF BuildReturns
<1>12. Counted(frames[1])'
  BY <1>1, <1>8, <1>9, SameBlocks
<1>13. load'.phase # "held"
  BY <1>2, <1>11
<1>14. QED
  BY <1>10, <1>12, <1>13 DEF BuildInv

\* C gets the list.
LEMMA BuildEnds ==
  ASSUME StructuresListed, LoadedInv, ~load.tree, BuildReturns, Len(frames) = 1
  PROVE  BuildInv'
<1>1. /\ Building /\ ListDone /\ kind' = kind /\ got' = got /\ frames' = << >> /\ built' = Inner.head
  BY DEF BuildReturns, ReturnList
<1>2. load.phase = "build" /\ Counted(Inner) /\ Len(Structure(got)) \in Nat
  BY <1>1, BuildFacts
<1>3. load'.phase = "held"
  <2>1. load' = [load EXCEPT !.phase = "held"] /\ load \in Loads
    BY <1>1 DEF BuildReturns, Building, LoadedInv, FileInv, LoadInv
  <2>2. QED
    BY <2>1 DEF Loads
<1>4. Inner.at - 1 = Len(Structure(got))
  BY <1>1, <1>2 DEF Counted, ListDone
<1>5. IsFiniteSet(built') /\ Cardinality(built') = Blocks(Len(Structure(got)))
  BY <1>1, <1>2, <1>4 DEF Counted
<1>6. QED
  BY <1>1, <1>3, <1>5, SameBlocks DEF BuildInv

LEMMA LoadedNext ==
  ASSUME StructuresListed, LoadedInv, [Next]_vars
  PROVE  LoadedInv'
<1>1. SUFFICES BuildInv'
  BY FileNext, StoredMemory DEF LoadedInv
<1>2. load \in Loads
  BY DEF LoadedInv, FileInv, LoadInv
<1>3. ASSUME load'.phase \in {"idle", "read"} \/ load'.tree PROVE BuildInv'
  BY <1>3, BuildIdle
<1>4. ASSUME kind' = kind, got' = got, UNCHANGED cvars, load'.phase = load.phase, load'.tree = load.tree
      PROVE  BuildInv'
  BY <1>4, BuildSame DEF LoadedInv
<1>5. ASSUME NEW w \in Writers, NEW d \in Docs, SaveOpen(w, d) PROVE BuildInv'
  BY <1>2, <1>4, <1>5 DEF SaveOpen, Touched, Loads
<1>6. ASSUME NEW w \in Writers, SaveRefused(w) \/ SaveWrite(w) \/ SaveDiskFull(w) \/ SaveCrash(w)
      PROVE  BuildInv'
  <2>1. /\ kind' = kind /\ got' = got /\ UNCHANGED cvars
        /\ load' = load \/ Touched
    BY <1>6 DEF SaveRefused, SaveWrite, SaveDiskFull, SaveCrash
  <2>2. QED
    BY <1>2, <1>4, <2>1 DEF Touched, Loads
<1>7. CASE LoadStart \/ LoadRefused \/ BuildFails \/ FreeHeld \/ CreateTree
  <2>1. load' = Idle \/ load' = [Idle EXCEPT !.phase = "read"] \/ load' = [Idle EXCEPT !.phase = "build", !.tree = TRUE]
    BY <1>7 DEF LoadStart, LoadRefused, BuildFails, FreeHeld, CreateTree
  <2>2. CASE load' = Idle \/ load' = [Idle EXCEPT !.phase = "read"]
    <3>1. load'.phase \in {"idle", "read"}
      BY <2>2 DEF Idle
    <3>2. QED
      BY <1>3, <3>1
  <2>3. CASE load' = [Idle EXCEPT !.phase = "build", !.tree = TRUE]
    <3>1. load'.tree
      BY <2>3 DEF Idle
    <3>2. QED
      BY <1>3, <3>1
  <2>4. QED
    BY <2>1, <2>2, <2>3
<1>8. CASE LoadRead \/ UNCHANGED vars
  <2>1. CASE LoadRead
    BY <1>3, <2>1 DEF LoadRead
  <2>2. CASE UNCHANGED vars
    BY <1>4, <2>2 DEF vars, fvars
  <2>3. QED
    BY <1>8, <2>1, <2>2
<1>9. CASE LoadParsed
  BY <1>9, BuildStarts
<1>10. CASE Build
  <2>1. load' = load /\ UNCHANGED fvars /\ (AllocString \/ AllocKids \/ AllocNode)
    BY <1>10 DEF Build, fvars
  <2>2. CASE load.tree
    BY <1>3, <2>1, <2>2
  <2>3. CASE ~load.tree
    BY <2>1, <2>3, BuildString, BuildKids, BuildNode
  <2>4. QED
    BY <2>2, <2>3
<1>11. CASE BuildReturns
  <2>1. Building /\ (load' = load \/ load' = [load EXCEPT !.phase = "held"])
    BY <1>11 DEF BuildReturns, ReturnList
  <2>2. CASE load.tree
    BY <1>2, <1>3, <2>1, <2>2 DEF Loads
  <2>3. CASE ~load.tree
    <3>1. Len(frames) = 1 \/ Len(frames) = 2
      BY <2>1, <2>3, BuildFacts DEF CallInv
    <3>2. QED
      BY <1>11, <2>3, <3>1, BuildKidsReturn, BuildEnds
  <2>4. QED
    BY <2>2, <2>3
<1>12. QED
  BY <1>5, <1>6, <1>7, <1>8, <1>9, <1>10, <1>11 DEF Next

\* ddcci_load_profile, ddcci_load_list: whatever saves overlap each other,
\* stop half-way or are killed, a load that none of them overlapped hands C
\* one complete document, of the version of the program if it is a list,
\* with all the blocks it needs; and every profile, a mixture too, fits the
\* arrays of struct profile.
THEOREM LoadedWereSaved ==
  ASSUME StructuresListed
  PROVE  Spec => []LoadedWasSaved
<1>1. Init => LoadedInv
  BY FileInit, MemInit, BuildInit DEF LoadedInv, Init
<1>2. LoadedInv /\ [Next]_vars => LoadedInv'
  BY LoadedNext
<1>3. LoadedInv => TypeOK
  <2> SUFFICES ASSUME LoadedInv PROVE TypeOK
    OBVIOUS
  <2>1. /\ kind \in {"profile", "list"} /\ file \in Seq(Lines) /\ got \in Seq(Lines)
        /\ writer \in [Writers -> {0} \cup Docs] /\ saves \in 0 .. MaxSaves /\ intact \in {0} \cup Docs
        /\ load \in Loads
    BY DEF LoadedInv, FileInv, DiskInv, LoadInv
  <2>2. fresh \in Nat /\ live \subseteq 1 .. fresh - 1 /\ wild \in BOOLEAN
    BY DEF LoadedInv, MemInv, BlockInv
  <2>3. kind = "profile" /\ load.phase \in {"build", "held"} /\ ~load.tree => Len(got) - 2 <= MaxControls
    BY DEF LoadedInv, FileInv, LoadInv, Parses, FewControls
  <2>4. QED
    BY <2>1, <2>2, <2>3 DEF TypeOK, Lines, Loads
<1>4. ASSUME LoadedInv, load.phase = "held", ~load.tree, ~load.overlapped
      PROVE  \E d \in Docs :
               /\ got = Text(d)
               /\ kind = "list" => Documents[d].version = Version
               /\ Cardinality(built) = IF kind = "list" THEN 3 * Documents[d].items ELSE 4
  <2>1. /\ Parses(got) /\ got \in Seq(Lines) /\ kind \in {"profile", "list"}
        /\ Cardinality(built) = Blocks(Len(Structure(got)))
    BY <1>4 DEF LoadedInv, FileInv, DiskInv, LoadInv, BuildInv
  <2>2. PICK d \in Docs : got = Text(d)
    BY <1>4 DEF LoadedInv, FileInv, LoadInv
  <2> DEFINE k == Documents[d].items
  <2>3. k \in Nat /\ Len(got) = k + 2 /\ got[1] = Line("head", d)
    BY <2>2, TextFacts
  <2>4. kind = "list" => Documents[d].version = Version
    BY <2>1, <2>3 DEF Parses, RightVersion, Line
  <2>5. ASSUME kind = "list" PROVE Cardinality(built) = 3 * k
    <3>1. Len(Structure(got)) = k
      BY <2>1, <2>3, <2>5, StructureFacts
    <3>2. QED
      BY <2>1, <2>5, <3>1 DEF Blocks
  <2>6. ASSUME kind = "profile" PROVE Cardinality(built) = 4
    <3>1. Structure(got) = <<ProfileNode>> /\ Len(<<ProfileNode>>) = 1
      BY <2>1, <2>6, StructureFacts
    <3>2. QED
      BY <2>1, <2>6, <3>1 DEF Blocks
  <2>7. QED
    BY <2>1, <2>2, <2>4, <2>5, <2>6
<1>5. LoadedInv => LoadedWasSaved
  BY <1>3, <1>4 DEF LoadedWasSaved
<1>6. QED
  BY <1>1, <1>2, <1>5, PTL DEF Spec
=============================================================================
