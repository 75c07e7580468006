---------------------- MODULE CollectionSessionProofs ----------------------
(***************************************************************************)
(* The data set stays faithful and is only appended to, for any number of  *)
(* attempts, faults, and captures, whatever is killed or deleted, and it   *)
(* holds what the operator decided.  The first part is about the finalizer *)
(* processes alone, the second about the session, which never touches a    *)
(* capture that a finalizer works on, the third follows a label and a      *)
(* mode from the operator to the data set.                                 *)
(***************************************************************************)
EXTENDS CollectionSession, FiniteSetTheorems, WellFoundedInduction, TLAPS

Active == {"convert", "wait"} \union Locked
Renamed == {"list", "publish", "summarise"}
JobFields == {"step", "capture", "outcome", "index", "listing"}

-----------------------------------------------------------------------------
(* The invariant of the data set. *)

\* The domains, which every update with EXCEPT relies on.
Shape ==
  /\ DOMAIN capture = Captures
  /\ \A c \in Captures : DOMAIN capture[c] = {"state", "reward", "label"}
  /\ DOMAIN job = Finalizers
  /\ \A p \in Finalizers : /\ DOMAIN job[p] = JobFields
                           /\ job[p].step \in Steps
                           /\ job[p].index \in Nat
  /\ lock \in Finalizers \union {None}

\* A finalizer works on a capture, for a label, and no other one works on it.
Works ==
  \A p \in Finalizers : job[p].step \in Active =>
    /\ job[p].capture \in Captures
    /\ \A q \in Finalizers :
         job[q].step \in Active /\ job[q].capture = job[p].capture => q = p

Locking == \A p \in Finalizers : (lock = p) <=> job[p].step \in Locked

\* The directories, and an index above all of them for whoever may rename.
Bounded == \E n \in Nat : DOMAIN episodes \subseteq 0..n
Above(p) == \A j \in DOMAIN episodes : j < job[p].index
Indices == /\ Bounded
           /\ \A p \in Finalizers :
                job[p].step \in {"annotate", "rename"} => Above(p)

\* The labels a finalizer has written into its capture so far.
Labelled ==
  \A p \in Finalizers :
    /\ job[p].step \in {"wait", "annotate", "rename"} =>
         capture[job[p].capture].reward = job[p].outcome
    /\ job[p].step = "rename" =>
         capture[job[p].capture].label = job[p].outcome

\* The listing a finalizer has read and not yet finished with.
Covers(p) == \A i \in DOMAIN episodes :
               i \in DOMAIN job[p].listing /\ job[p].listing[i] = episodes[i].label
Listed ==
  \A p \in Finalizers :
    /\ job[p].step \in {"publish", "summarise"} => Covers(p)
    /\ job[p].step = "summarise" => manifest = job[p].listing

StoreInv == /\ Shape /\ Works /\ Locking /\ Indices /\ Labelled /\ Listed
            /\ CatalogueIsFaithful

-----------------------------------------------------------------------------
(* The index of a new episode is above all indices on disk. *)

\* A set of numbers with a bound has a greatest element: the least bound.
LEMMA GreatestExists ==
  ASSUME NEW S \in SUBSET Nat, S # {}, NEW n \in Nat, S \subseteq 0..n
  PROVE  \E m \in S : \A k \in S : m >= k
<1> DEFINE U == {b \in Nat : \A k \in S : b >= k}
<1> DEFINE Less == OpToRel(<, Nat)
<1>1. U \subseteq Nat /\ U # {}
  <2>1. n \in U OBVIOUS
  <2> QED BY <2>1
<1>2. PICK b \in U : \A y \in U : <<y, b>> \notin Less
  <2> HIDE DEF U
  <2> QED BY <1>1, NatLessThanWellFounded, WFMin
<1>3. \A y \in U : ~(y < b)
  <2> SUFFICES ASSUME NEW y \in U, y < b PROVE FALSE
    OBVIOUS
  <2>1. <<y, b>> \in Less BY DEF OpToRel
  <2> QED BY <2>1, <1>2
<1>4. b \in S
  <2> SUFFICES ASSUME b \notin S PROVE FALSE
    OBVIOUS
  <2>1. \A k \in S : b > k OBVIOUS
  <2>2. b # 0
    <3>1. PICK k \in S : TRUE OBVIOUS
    <3> QED BY <3>1, <2>1
  <2>3. b - 1 \in U BY <2>1, <2>2
  <2> QED BY <2>3, <1>3
<1> QED BY <1>4

\* NextIndex is a number above every index in use.
LEMMA NextIsAbove ==
  ASSUME Bounded
  PROVE  NextIndex \in Nat /\ \A j \in DOMAIN episodes : j < NextIndex
<1> DEFINE D == DOMAIN episodes
<1>0. D \in SUBSET Nat BY DEF Bounded
<1>1. CASE D = {} BY <1>1 DEF NextIndex
<1>2. CASE D # {}
  <2>1. PICK n \in Nat : D \subseteq 0..n BY DEF Bounded
  <2>2. \E m \in D : \A k \in D : m >= k
    <3> HIDE DEF D
    <3> QED BY <1>0, <1>2, <2>1, GreatestExists
  <2>3. Max(D) \in D /\ \A k \in D : Max(D) >= k BY <2>2 DEF Max
  <2> QED BY <1>2, <2>3 DEF NextIndex
<1> QED BY <1>1, <1>2

-----------------------------------------------------------------------------
(* One step of a finalizer. *)

\* The domain of an updated function is that of the function.
LEMMA GotoShape ==
  ASSUME Shape, NEW p \in Finalizers, NEW s \in Steps, Goto(p, s)
  PROVE  /\ DOMAIN job' = Finalizers
         /\ \A q \in Finalizers \ {p} : job'[q] = job[q]
         /\ DOMAIN job'[p] = JobFields
         /\ job'[p].step = s
         /\ job'[p].capture = job[p].capture
         /\ job'[p].outcome = job[p].outcome
         /\ job'[p].index = job[p].index
         /\ job'[p].listing = job[p].listing
BY DEF Shape, Goto, JobFields

\* Unsettled, as a predicate of an index.
Pending(i) == \/ i \in interrupted
              \/ \E p \in Finalizers : job[p].step \in Renamed /\ job[p].index = i

\* Pending is membership of Unsettled.
LEMMA PendingIsUnsettled == \A i : i \in Unsettled <=> Pending(i)
BY DEF Unsettled, Pending, Renamed

\* The catalogue, without the set of unsettled indices.
Catalogued ==
  /\ \A i \in DOMAIN episodes :
       /\ episodes[i].reward = episodes[i].label
       /\ \/ Pending(i)
          \/ i \in DOMAIN manifest /\ manifest[i] = episodes[i].label
  /\ \/ interrupted # {}
     \/ \E p \in Finalizers : job[p].step \in Renamed
     \/ summary = Count(manifest)

\* The catalogue is faithful in the one form and in the other.
LEMMA CatalogueUnfolds == CatalogueIsFaithful <=> Catalogued
<1>1. (Unsettled = {}) <=>
        (interrupted = {} /\ \A p \in Finalizers : job[p].step \notin Renamed)
  BY DEF Unsettled, Renamed
<1> QED BY <1>1, PendingIsUnsettled DEF CatalogueIsFaithful, Catalogued

\* Converting writes the label into the capture of the job alone.
LEMMA ConvertKeeps ==
  ASSUME StoreInv, NEW p \in Finalizers, Convert(p)
  PROVE  StoreInv'
<1> USE DEF StoreInv
<1>0. job[p].step = "convert" /\ job[p].capture \in Captures
  BY DEF Convert, At, Works, Active
<1>1. PICK s \in {"wait", "failed"} : Goto(p, s)
  BY DEF Convert
<1>2. /\ DOMAIN job' = Finalizers
      /\ \A q \in Finalizers \ {p} : job'[q] = job[q]
      /\ DOMAIN job'[p] = JobFields
      /\ job'[p].step = s
      /\ job'[p].capture = job[p].capture
      /\ job'[p].outcome = job[p].outcome
      /\ job'[p].index = job[p].index
      /\ job'[p].listing = job[p].listing
  BY <1>1, GotoShape DEF Steps
<1>3. UNCHANGED <<episodes, manifest, summary, lock, interrupted>>
  BY DEF Convert
<1>4. /\ DOMAIN capture' = Captures
      /\ \A c \in Captures : DOMAIN capture'[c] = {"state", "reward", "label"}
      /\ \A c \in Captures \ {job[p].capture} : capture'[c] = capture[c]
      /\ s = "wait" => capture'[job[p].capture].reward = job[p].outcome
  <2>1. CASE capture[job[p].capture].state = "usable"
    BY <2>1, <1>0 DEF Convert, Shape
  <2>2. CASE capture[job[p].capture].state # "usable"
    <3>1. Goto(p, "failed") /\ capture' = capture BY <2>2 DEF Convert
    <3>2. s = "failed" BY <3>1, <1>2, GotoShape DEF Steps
    <3> QED BY <3>1, <3>2 DEF Shape
  <2> QED BY <2>1, <2>2
<1>5. Shape' BY <1>2, <1>3, <1>4 DEF Shape, Steps
<1>6. Works' BY <1>0, <1>2 DEF Works, Active, Locked
<1>7. Locking' BY <1>0, <1>2, <1>3 DEF Locking, Locked
<1>8. Indices' BY <1>0, <1>2, <1>3 DEF Indices, Bounded, Above
<1>9. Labelled'
  <2> SUFFICES ASSUME NEW q \in Finalizers PROVE
        /\ job'[q].step \in {"wait", "annotate", "rename"} =>
             capture'[job'[q].capture].reward = job'[q].outcome
        /\ job'[q].step = "rename" =>
             capture'[job'[q].capture].label = job'[q].outcome
    BY DEF Labelled
  <2>1. CASE q = p BY <2>1, <1>2, <1>4
  <2>2. CASE q # p
    <3>1. job[q].step \in Active =>
            job[q].capture \in Captures \ {job[p].capture}
      BY <2>2, <1>0 DEF Works, Active
    <3> QED BY <2>2, <3>1, <1>2, <1>4 DEF Labelled, Active, Locked
  <2> QED BY <2>1, <2>2
<1>10. Listed' BY <1>0, <1>2, <1>3 DEF Listed, Covers
<1>11. Catalogued'
  BY <1>0, <1>2, <1>3, CatalogueUnfolds DEF Catalogued, Pending, Renamed
<1> QED BY <1>5, <1>6, <1>7, <1>8, <1>9, <1>10, <1>11, CatalogueUnfolds, PTL

\* The lock is free, so nobody else is between index and summary.
LEMMA AllocateKeeps ==
  ASSUME StoreInv, NEW p \in Finalizers, Allocate(p)
  PROVE  StoreInv'
<1> USE DEF StoreInv
<1>0. job[p].step = "wait" /\ lock = None /\ p # None
  BY FinalizerAssumption DEF Allocate, At, LockIsFree
<1>1. NextIndex \in Nat /\ \A j \in DOMAIN episodes : j < NextIndex
  BY NextIsAbove DEF Indices
<1>2. /\ DOMAIN job' = Finalizers
      /\ \A q \in Finalizers \ {p} : job'[q] = job[q]
      /\ DOMAIN job'[p] = JobFields
      /\ job'[p].step = "annotate"
      /\ job'[p].capture = job[p].capture
      /\ job'[p].outcome = job[p].outcome
      /\ job'[p].index = NextIndex
  BY DEF Allocate, Shape, JobFields
<1>3. lock' = p /\ UNCHANGED <<capture, episodes, manifest, summary, interrupted>>
  BY DEF Allocate
<1>4. \A q \in Finalizers : job[q].step \notin Locked
  BY <1>0, FinalizerAssumption DEF Locking
<1> HIDE DEF NextIndex
<1>5. Shape' BY <1>1, <1>2, <1>3 DEF Shape, Steps
<1>6. Works' BY <1>0, <1>2, <1>3 DEF Works, Active, Locked
<1>7. Locking' BY <1>2, <1>3, <1>4 DEF Locking, Locked
<1>8. Indices' BY <1>1, <1>2, <1>3 DEF Indices, Bounded, Above
<1>9. Labelled' BY <1>0, <1>2, <1>3 DEF Labelled
<1>10. Listed' BY <1>0, <1>2, <1>3 DEF Listed, Covers
<1>11. Catalogued'
  BY <1>0, <1>2, <1>3, CatalogueUnfolds DEF Catalogued, Pending, Renamed
<1> QED BY <1>5, <1>6, <1>7, <1>8, <1>9, <1>10, <1>11, CatalogueUnfolds, PTL

\* The metadata gets the label that the rewards have.
LEMMA AnnotateKeeps ==
  ASSUME StoreInv, NEW p \in Finalizers, Annotate(p)
  PROVE  StoreInv'
<1> USE DEF StoreInv
<1> DEFINE c == job[p].capture
<1>0. job[p].step = "annotate" /\ c \in Captures /\ Goto(p, "rename")
  BY DEF Annotate, At, Works, Active, Locked
<1>2. /\ DOMAIN job' = Finalizers
      /\ \A q \in Finalizers \ {p} : job'[q] = job[q]
      /\ DOMAIN job'[p] = JobFields
      /\ job'[p].step = "rename"
      /\ job'[p].capture = job[p].capture
      /\ job'[p].outcome = job[p].outcome
      /\ job'[p].index = job[p].index
  BY <1>0, GotoShape DEF Steps
<1>3. UNCHANGED <<episodes, manifest, summary, lock, interrupted>>
  BY DEF Annotate
<1>4. /\ DOMAIN capture' = Captures
      /\ \A d \in Captures : DOMAIN capture'[d] = {"state", "reward", "label"}
      /\ \A d \in Captures \ {c} : capture'[d] = capture[d]
      /\ capture'[c].reward = capture[c].reward
      /\ capture'[c].label = job[p].outcome
  BY <1>0 DEF Annotate, Shape
<1>5. Shape' BY <1>2, <1>3, <1>4 DEF Shape, Steps
<1>6. Works' BY <1>0, <1>2 DEF Works, Active, Locked
<1>7. Locking' BY <1>0, <1>2, <1>3 DEF Locking, Locked
<1>8. Indices' BY <1>0, <1>2, <1>3 DEF Indices, Bounded, Above
<1>9. Labelled'
  <2> SUFFICES ASSUME NEW q \in Finalizers PROVE
        /\ job'[q].step \in {"wait", "annotate", "rename"} =>
             capture'[job'[q].capture].reward = job'[q].outcome
        /\ job'[q].step = "rename" =>
             capture'[job'[q].capture].label = job'[q].outcome
    BY DEF Labelled
  <2>1. CASE q = p BY <2>1, <1>0, <1>2, <1>4 DEF Labelled
  <2>2. CASE q # p
    <3>1. job[q].step \in Active => job[q].capture \in Captures \ {c}
      BY <2>2, <1>0 DEF Works, Active, Locked
    <3> QED BY <2>2, <3>1, <1>2, <1>4 DEF Labelled, Active, Locked
  <2> QED BY <2>1, <2>2
<1>10. Listed' BY <1>0, <1>2, <1>3 DEF Listed, Covers
<1>11. Catalogued'
  BY <1>0, <1>2, <1>3, CatalogueUnfolds DEF Catalogued, Pending, Renamed
<1> QED BY <1>5, <1>6, <1>7, <1>8, <1>9, <1>10, <1>11, CatalogueUnfolds, PTL

\* The index of the lock holder is free, so that the rename succeeds.
LEMMA RenameKeeps ==
  ASSUME StoreInv, NEW p \in Finalizers, Rename(p)
  PROVE  StoreInv'
<1> USE DEF StoreInv
<1> DEFINE c == job[p].capture
           i == job[p].index
<1>0. job[p].step = "rename" /\ c \in Captures /\ i \in Nat /\ lock = p
  BY DEF Rename, At, Works, Active, Locked, Shape, Locking
<1>1. \A j \in DOMAIN episodes : j < i
  BY <1>0 DEF Indices, Above
<1>2. i \notin DOMAIN episodes /\ DOMAIN episodes \subseteq Nat
  BY <1>0, <1>1 DEF Indices, Bounded
<1>3. /\ capture' = [capture EXCEPT ![c] = Absent]
      /\ Goto(p, "list")
      /\ UNCHANGED <<lock, manifest, summary, interrupted>>
  BY <1>2 DEF Rename
<1>4. /\ DOMAIN episodes' = DOMAIN episodes \union {i}
      /\ episodes'[i].reward = capture[c].reward
      /\ episodes'[i].label = capture[c].label
      /\ \A j \in DOMAIN episodes : episodes'[j] = episodes[j]
  BY <1>2 DEF Rename
<1>5. /\ DOMAIN job' = Finalizers
      /\ \A q \in Finalizers \ {p} : job'[q] = job[q]
      /\ DOMAIN job'[p] = JobFields
      /\ job'[p].step = "list"
      /\ job'[p].capture = c
      /\ job'[p].index = i
  BY <1>3, GotoShape DEF Steps
<1>6. /\ DOMAIN capture' = Captures
      /\ \A d \in Captures : DOMAIN capture'[d] = {"state", "reward", "label"}
      /\ \A d \in Captures \ {c} : capture'[d] = capture[d]
  BY <1>3 DEF Shape, Absent
<1>7. \A q \in Finalizers \ {p} : job[q].step \notin Locked
  BY <1>0 DEF Locking
<1>8. Shape' BY <1>3, <1>5, <1>6 DEF Shape, Steps
<1>9. Works' BY <1>0, <1>5 DEF Works, Active, Locked
<1>10. Locking' BY <1>0, <1>3, <1>5 DEF Locking, Locked
<1>11. Indices'
  <2>1. PICK n \in Nat : DOMAIN episodes \subseteq 0..n BY DEF Indices, Bounded
  <2>2. n + i \in Nat /\ DOMAIN episodes' \subseteq 0..(n + i)
    BY <2>1, <1>0, <1>4
  <2>3. Bounded' BY <2>2 DEF Bounded
  <2>4. \A q \in Finalizers : job'[q].step \notin {"annotate", "rename"}
    BY <1>5, <1>7 DEF Locked
  <2> QED BY <2>3, <2>4 DEF Indices
<1>12. Labelled'
  <2> SUFFICES ASSUME NEW q \in Finalizers \ {p}, job[q].step = "wait"
               PROVE  capture'[job[q].capture].reward = job[q].outcome
    BY <1>5, <1>7 DEF Labelled, Locked
  <2>1. job[q].capture \in Captures \ {c}
    BY <1>0 DEF Works, Active, Locked
  <2> QED BY <2>1, <1>6 DEF Labelled
<1>13. Listed' BY <1>5, <1>7 DEF Listed, Locked
<1>14. Catalogued'
  <2>1. episodes'[i].reward = episodes'[i].label
    BY <1>0, <1>4 DEF Labelled
  <2>2. \A j : j = i => Pending(j)' BY <1>5 DEF Pending, Renamed
  <2>3. \A j : Pending(j) => Pending(j)'
    BY <1>0, <1>3, <1>5 DEF Pending, Renamed
  <2>4. \E q \in Finalizers : job'[q].step \in Renamed
    BY <1>5 DEF Renamed
  <2>5. Catalogued BY CatalogueUnfolds
  <2>6. ASSUME NEW j \in DOMAIN episodes'
        PROVE  /\ episodes'[j].reward = episodes'[j].label
               /\ \/ Pending(j)'
                  \/ j \in DOMAIN manifest' /\ manifest'[j] = episodes'[j].label
    <3>1. CASE j = i BY <3>1, <2>1, <2>2
    <3>2. CASE j \in DOMAIN episodes
      BY <3>2, <2>3, <2>5, <1>3, <1>4 DEF Catalogued
    <3> QED BY <3>1, <3>2, <1>4
  <2> QED BY <2>4, <2>6 DEF Catalogued
<1> QED BY <1>8, <1>9, <1>10, <1>11, <1>12, <1>13, <1>14, CatalogueUnfolds, PTL

\* The listing is what is on disk at this moment.
LEMMA ListKeeps ==
  ASSUME StoreInv, NEW p \in Finalizers, ListEpisodes(p)
  PROVE  StoreInv'
<1> USE DEF StoreInv
<1>0. job[p].step = "list" BY DEF ListEpisodes, At
<1>1. /\ DOMAIN job' = Finalizers
      /\ \A q \in Finalizers \ {p} : job'[q] = job[q]
      /\ DOMAIN job'[p] = JobFields
      /\ job'[p].step = "publish"
      /\ job'[p].capture = job[p].capture
      /\ job'[p].index = job[p].index
      /\ job'[p].listing = [i \in DOMAIN episodes |-> episodes[i].label]
  BY DEF ListEpisodes, Shape, JobFields
<1>2. UNCHANGED <<capture, episodes, manifest, summary, lock, interrupted>>
  BY DEF ListEpisodes
<1>3. Shape' BY <1>1, <1>2 DEF Shape, Steps
<1>4. Works' BY <1>0, <1>1, <1>2 DEF Works, Active, Locked
<1>5. Locking' BY <1>0, <1>1, <1>2 DEF Locking, Locked
<1>6. Indices' BY <1>1, <1>2 DEF Indices, Bounded, Above
<1>7. Labelled' BY <1>1, <1>2 DEF Labelled
<1>8. Listed' BY <1>1, <1>2 DEF Listed, Covers
<1>9. Catalogued'
  <2>1. \A j : Pending(j) => Pending(j)'
    BY <1>0, <1>1, <1>2 DEF Pending, Renamed
  <2>2. \E q \in Finalizers : job'[q].step \in Renamed BY <1>1 DEF Renamed
  <2>3. Catalogued BY CatalogueUnfolds
  <2> QED BY <2>1, <2>2, <2>3, <1>2 DEF Catalogued
<1> QED BY <1>3, <1>4, <1>5, <1>6, <1>7, <1>8, <1>9, CatalogueUnfolds, PTL

\* Nobody renames between the listing and the manifest.
LEMMA PublishKeeps ==
  ASSUME StoreInv, NEW p \in Finalizers, Publish(p)
  PROVE  StoreInv'
<1> USE DEF StoreInv
<1>0. job[p].step = "publish" /\ lock = p
  BY DEF Publish, At, Locking, Locked
<1>1. /\ DOMAIN job' = Finalizers
      /\ \A q \in Finalizers \ {p} : job'[q] = job[q]
      /\ DOMAIN job'[p] = JobFields
      /\ job'[p].step = "summarise"
      /\ job'[p].capture = job[p].capture
      /\ job'[p].index = job[p].index
      /\ job'[p].listing = job[p].listing
  BY GotoShape DEF Publish, Steps
<1>2. /\ UNCHANGED <<capture, episodes, summary, lock, interrupted>>
      /\ manifest' = job[p].listing
  BY DEF Publish
<1>3. \A q \in Finalizers \ {p} : job[q].step \notin Locked
  BY <1>0 DEF Locking
<1>4. Shape' BY <1>1, <1>2 DEF Shape, Steps
<1>5. Works' BY <1>0, <1>1, <1>2 DEF Works, Active, Locked
<1>6. Locking' BY <1>0, <1>1, <1>2 DEF Locking, Locked
<1>7. Indices' BY <1>1, <1>2 DEF Indices, Bounded, Above
<1>8. Labelled' BY <1>1, <1>2 DEF Labelled
<1>9. Covers(p) BY <1>0 DEF Listed
<1>10. Listed' BY <1>1, <1>2, <1>3, <1>9 DEF Listed, Covers, Locked
<1>11. Catalogued'
  <2>1. \E q \in Finalizers : job'[q].step \in Renamed BY <1>1 DEF Renamed
  <2>2. Catalogued BY CatalogueUnfolds
  <2> QED BY <2>1, <2>2, <1>2, <1>9 DEF Catalogued, Covers
<1> QED BY <1>4, <1>5, <1>6, <1>7, <1>8, <1>10, <1>11, CatalogueUnfolds, PTL

\* The summary counts the listing the manifest was made from.
LEMMA SummariseKeeps ==
  ASSUME StoreInv, NEW p \in Finalizers, Summarise(p)
  PROVE  StoreInv'
<1> USE DEF StoreInv
<1>0. job[p].step = "summarise" /\ lock = p /\ p # None
  BY FinalizerAssumption DEF Summarise, At, Locking, Locked
<1>1. /\ DOMAIN job' = Finalizers
      /\ \A q \in Finalizers \ {p} : job'[q] = job[q]
      /\ DOMAIN job'[p] = JobFields
      /\ job'[p].step = "saved"
      /\ job'[p].index = job[p].index
  BY DEF Summarise, Shape, JobFields
<1>2. /\ UNCHANGED <<capture, episodes, manifest>>
      /\ summary' = Count(job[p].listing)
      /\ lock' = None /\ interrupted' = {}
  BY DEF Summarise
<1>3. \A q \in Finalizers \ {p} : job[q].step \notin Locked
  BY <1>0 DEF Locking
<1>4. Covers(p) /\ manifest = job[p].listing BY <1>0 DEF Listed
<1>5. Shape' BY <1>1, <1>2 DEF Shape, Steps
<1>6. Works' BY <1>1, <1>2 DEF Works, Active, Locked
<1>7. Locking' BY <1>1, <1>2, <1>3, FinalizerAssumption DEF Locking, Locked
<1>8. Indices' BY <1>1, <1>2 DEF Indices, Bounded, Above
<1>9. Labelled' BY <1>1, <1>2 DEF Labelled
<1>10. Listed' BY <1>1, <1>2, <1>3 DEF Listed, Locked
<1>11. Catalogued'
  <2>1. Catalogued BY CatalogueUnfolds
  <2>2. summary' = Count(manifest') BY <1>2, <1>4
  <2> QED BY <2>1, <2>2, <1>2, <1>4 DEF Catalogued, Covers
<1> QED BY <1>5, <1>6, <1>7, <1>8, <1>9, <1>10, <1>11, CatalogueUnfolds, PTL

\* One step of one finalizer, whichever it is.
LEMMA FinalizerStepKeeps ==
  ASSUME StoreInv, NEW p \in Finalizers, FinalizerStep(p)
  PROVE  StoreInv'
BY ConvertKeeps, AllocateKeeps, AnnotateKeeps, RenameKeeps, ListKeeps,
   PublishKeeps, SummariseKeeps DEF FinalizerStep

-----------------------------------------------------------------------------
(* What else happens to the data set. *)

\* A finalizer that ends, or begins nothing, leaves the others alone.
LEMMA LeavingKeeps ==
  ASSUME StoreInv, NEW p \in Finalizers, NEW s \in Steps \ Active,
         DOMAIN job' = Finalizers,
         \A q \in Finalizers \ {p} : job'[q] = job[q],
         DOMAIN job'[p] = JobFields, job'[p].step = s, job'[p].index \in Nat,
         lock' = IF lock = p THEN None ELSE lock,
         interrupted' = IF job[p].step \in Renamed
                        THEN interrupted \union {job[p].index} ELSE interrupted,
         DOMAIN capture' = Captures,
         \A c \in Captures : DOMAIN capture'[c] = {"state", "reward", "label"},
         \A q \in Finalizers \ {p} : job[q].step \in Active =>
           capture'[job[q].capture] = capture[job[q].capture],
         UNCHANGED <<episodes, manifest, summary>>
  PROVE  StoreInv'
<1> USE DEF StoreInv
<1>0. p # None /\ s \notin Locked \union Renamed
  BY FinalizerAssumption DEF Active, Locked, Renamed
<1>1. Shape' BY DEF Shape
<1>2. Works' BY DEF Works
<1>3. Locking'
  <2> SUFFICES ASSUME NEW q \in Finalizers
               PROVE  (lock' = q) <=> job'[q].step \in Locked
    BY DEF Locking
  <2>1. (lock = q) <=> job[q].step \in Locked BY DEF Locking
  <2>2. q # None BY FinalizerAssumption
  <2> QED BY <1>0, <2>1, <2>2
<1>4. Indices' BY DEF Indices, Bounded, Above, Active, Locked
<1>5. Labelled' BY DEF Labelled, Active, Locked
<1>6. Listed' BY DEF Listed, Covers, Active, Locked
<1>7. Catalogued'
  <2>1. Catalogued BY CatalogueUnfolds
  <2>2. \A j : Pending(j) => Pending(j)' BY DEF Pending
  <2>3. (interrupted # {} \/ \E q \in Finalizers : job[q].step \in Renamed) =>
          (interrupted' # {} \/ \E q \in Finalizers : job'[q].step \in Renamed)
    OBVIOUS
  <2> QED BY <2>1, <2>2, <2>3 DEF Catalogued
<1> QED BY <1>1, <1>2, <1>3, <1>4, <1>5, <1>6, <1>7, CatalogueUnfolds, PTL

\* A finalizer that is killed leaves its index unsettled.
LEMMA KilledKeeps ==
  ASSUME StoreInv, NEW p \in Finalizers, Killed(p),
         UNCHANGED <<capture, episodes, manifest, summary>>
  PROVE  StoreInv'
<1>1. Shape BY DEF StoreInv
<1>2. /\ DOMAIN job' = Finalizers
      /\ \A q \in Finalizers \ {p} : job'[q] = job[q]
      /\ DOMAIN job'[p] = JobFields
      /\ job'[p].step = "failed"
      /\ job'[p].index = job[p].index
  BY <1>1 DEF Killed, Shape, JobFields
<1>3. "failed" \in Steps \ Active BY DEF Steps, Active, Locked
<1> QED BY <1>1, <1>2, <1>3, LeavingKeeps DEF Killed, Renamed, Shape

\* A capture that no other finalizer works on may be given to a finalizer.
LEMMA BeginKeeps ==
  ASSUME StoreInv, NEW p \in Finalizers, NEW c \in Captures,
         NEW outcome \in Outcomes, Begin(p, c, outcome),
         \A q \in Finalizers \ {p} :
           job[q].step \in Active => job[q].capture # c
  PROVE  StoreInv'
<1>0. Shape /\ Works /\ Locking BY DEF StoreInv
<1>1. job[p].step \in {"idle", "saved", "discarded", "failed"} BY DEF Begin
<1>2. /\ DOMAIN job' = Finalizers
      /\ \A q \in Finalizers \ {p} : job'[q] = job[q]
      /\ DOMAIN job'[p] = JobFields
      /\ job'[p].step = IF outcome = "discard" THEN "discarded" ELSE "convert"
      /\ job'[p].index = 0
      /\ job'[p].capture = c
  BY <1>0 DEF Begin, Shape, Idle, JobFields
<1>3. UNCHANGED <<episodes, manifest, summary, lock, interrupted>>
  BY DEF Begin
<1>4. CASE outcome = "discard"
  <2>1. /\ DOMAIN capture' = Captures
        /\ \A d \in Captures : DOMAIN capture'[d] = {"state", "reward", "label"}
        /\ \A d \in Captures \ {c} : capture'[d] = capture[d]
    BY <1>0, <1>4 DEF Begin, Shape, Absent
  <2>2. \A q \in Finalizers \ {p} : job[q].step \in Active =>
          capture'[job[q].capture] = capture[job[q].capture]
    BY <2>1, <1>0 DEF Works
  <2>3. lock # p BY <1>0, <1>1 DEF Locking, Locked
  <2>4. "discarded" \in Steps \ Active BY DEF Steps, Active, Locked
  <2>5. job[p].step \notin Renamed BY <1>1 DEF Renamed
  <2> QED BY <1>2, <1>3, <1>4, <2>1, <2>2, <2>3, <2>4, <2>5, LeavingKeeps
<1>5. CASE outcome # "discard"
  <2> USE DEF StoreInv
  <2>0. job'[p].step = "convert" /\ capture' = capture
    BY <1>2, <1>5 DEF Begin
  <2>1. Shape' BY <1>0, <1>2, <1>3, <2>0 DEF Shape, Steps
  <2>2. Works' BY <1>0, <1>2, <2>0 DEF Works, Active, Locked
  <2>3. Locking' BY <1>0, <1>1, <1>2, <1>3, <2>0 DEF Locking, Locked
  <2>4. Indices' BY <1>2, <1>3, <2>0 DEF Indices, Bounded, Above
  <2>5. Labelled' BY <1>2, <2>0 DEF Labelled
  <2>6. Listed' BY <1>2, <1>3, <2>0 DEF Listed, Covers
  <2>7. Catalogued'
    BY <1>1, <1>2, <1>3, <2>0, CatalogueUnfolds DEF Catalogued, Pending, Renamed
  <2> QED BY <2>1, <2>2, <2>3, <2>4, <2>5, <2>6, <2>7, CatalogueUnfolds, PTL
<1> QED BY <1>4, <1>5

\* A deleted episode needs no entry.
LEMMA DeleteKeeps ==
  ASSUME StoreInv, NEW i, DeleteEpisode(i)
  PROVE  StoreInv'
<1> USE DEF StoreInv
<1>1. /\ DOMAIN episodes' = DOMAIN episodes \ {i}
      /\ \A j \in DOMAIN episodes' : episodes'[j] = episodes[j]
      /\ UNCHANGED <<capture, manifest, summary, lock, job, interrupted>>
  BY DEF DeleteEpisode, Restrict
<1>2. Shape' /\ Works' /\ Locking' /\ Labelled'
  BY <1>1 DEF Shape, Works, Locking, Labelled
<1>3. Indices' BY <1>1 DEF Indices, Bounded, Above
<1>4. Listed' BY <1>1 DEF Listed, Covers
<1>5. Catalogued' BY <1>1, CatalogueUnfolds DEF Catalogued, Pending
<1> QED BY <1>2, <1>3, <1>4, <1>5, CatalogueUnfolds, PTL

\* Whatever is done to a capture that no finalizer works on.
LEMMA CaptureKeeps ==
  ASSUME StoreInv, NEW c, DOMAIN capture' = Captures,
         \A d \in Captures : DOMAIN capture'[d] = {"state", "reward", "label"},
         \A d \in Captures \ {c} : capture'[d] = capture[d],
         \A q \in Finalizers : job[q].step \in Active => job[q].capture # c,
         UNCHANGED <<episodes, manifest, summary, lock, job, interrupted>>
  PROVE  StoreInv'
<1> USE DEF StoreInv
<1>1. Shape' /\ Works' /\ Locking' /\ Indices' /\ Listed'
  BY DEF Shape, Works, Locking, Indices, Bounded, Above, Listed, Covers
<1>2. Labelled' BY DEF Labelled, Works, Active, Locked
<1>3. Catalogued' BY CatalogueUnfolds DEF Catalogued, Pending
<1> QED BY <1>1, <1>2, <1>3, CatalogueUnfolds, PTL

\* A step that leaves the data set alone.
LEMMA StoreStays == StoreInv /\ UNCHANGED storeVars => StoreInv'
<1> SUFFICES ASSUME StoreInv, UNCHANGED storeVars PROVE StoreInv'
  OBVIOUS
<1> USE DEF storeVars
<1>1. Shape' /\ Works' /\ Locking' /\ Indices' /\ Listed' /\ Labelled'
  BY DEF StoreInv, Shape, Works, Locking, Indices, Bounded, Above, Listed,
         Covers, Labelled
<1>2. Catalogued'
  BY CatalogueUnfolds DEF StoreInv, Catalogued, Pending
<1> QED BY <1>1, <1>2, CatalogueUnfolds, PTL DEF StoreInv
-----------------------------------------------------------------------------
(* The session. *)

Saving == {"saving", "saving_last"}
InRound == {"move", "watch", "close", "abnormal", "label", "review"}

\* Only the line that waits for the finalizer has one at work, on its attempt.
Owners ==
  /\ attempt \in Nat
  /\ current \in Attempts \union {None}
  /\ pc \in InRound => current \in Attempts
  /\ job[Session].step \in Active =>
       pc \in Saving /\ job[Session].capture \in Attempts
  /\ job[Manual].step \in Active => job[Manual].capture = Leftover
  /\ \A p \in Finalizers \ {Session, Manual} : job[p].step \notin Active

SessionInv == StoreInv /\ Owners

\* The data set is empty and no finalizer at work.
LEMMA InitSession == Init => SessionInv
<1> SUFFICES ASSUME Init PROVE SessionInv
  OBVIOUS
<1>1. PICK s \in {"unusable", "usable"} :
        StoreInit([c \in Captures |->
                     IF c = Leftover THEN [Absent EXCEPT !.state = s] ELSE Absent])
  BY DEF Init
<1> USE <1>1 DEF StoreInit
<1>2. \A p \in Finalizers : job[p] = Idle /\ p # None
  BY FinalizerAssumption
<1>3. DOMAIN episodes = {} OBVIOUS
<1>4. Shape
  <2>1. \A p \in Finalizers : DOMAIN job[p] = JobFields /\ job[p].index \in Nat
                              /\ job[p].step \in Steps
    BY <1>2 DEF Idle, JobFields, Steps
  <2>2. DOMAIN capture = Captures
        /\ \A c \in Captures : DOMAIN capture[c] = {"state", "reward", "label"}
    BY DEF Absent
  <2> QED BY <2>1, <2>2 DEF Shape
<1>5. Works /\ Labelled /\ Listed /\ Locking
  BY <1>2 DEF Works, Labelled, Listed, Locking, Idle, Active, Locked
<1>6. Indices
  <2>1. Bounded BY <1>3 DEF Bounded
  <2> QED BY <2>1, <1>2 DEF Indices, Idle
<1>7. Catalogued BY <1>3 DEF Catalogued
<1>8. Owners
  BY <1>2, SessionAssumption DEF Owners, Init, Idle, Active, Locked, InRound
<1> QED BY <1>4, <1>5, <1>6, <1>7, <1>8, CatalogueUnfolds DEF SessionInv, StoreInv

\* A line that touches neither the data set nor the current capture.
LEMMA QuietKeeps ==
  ASSUME SessionInv, UNCHANGED <<storeVars, attempt, current>>,
         pc' # pc => /\ pc \notin Saving
                     /\ pc' \in InRound => pc \in InRound
  PROVE  SessionInv'
<1>1. StoreInv' BY StoreStays DEF SessionInv
<1>2. Owners' BY DEF SessionInv, Owners, storeVars, Attempts
<1> QED BY <1>1, <1>2 DEF SessionInv

\* The session's finalizer is at work only while the script waits for it.
LEMMA SessionIsIdle ==
  ASSUME SessionInv, pc \notin Saving
  PROVE  \A q \in Finalizers, c \in Attempts \union {None} :
           job[q].step \in Active => job[q].capture # c
BY SessionAssumption, FinalizerAssumption
   DEF SessionInv, Owners, StoreInv, Works, Attempts

\* A new attempt has a staging directory of its own.
LEMMA StartRecorderKeeps == SessionInv /\ StartRecorder => SessionInv'
<1> SUFFICES ASSUME SessionInv, StartRecorder PROVE SessionInv'
  OBVIOUS
<1>1. /\ pc = "loop" /\ pc' \in {"move", "halt"}
      /\ attempt' = attempt + 1 /\ current' = attempt + 1
      /\ UNCHANGED <<episodes, manifest, summary, lock, job, interrupted>>
  BY DEF StartRecorder, Proceed, Exit
<1>2. attempt \in Nat /\ attempt + 1 \in Attempts
  BY SessionAssumption DEF StartRecorder, SessionInv, Owners, Attempts
<1>3. attempt + 1 \in Captures BY <1>2, SessionAssumption DEF Attempts
<1>4. /\ DOMAIN capture' = Captures
      /\ \A d \in Captures : DOMAIN capture'[d] = {"state", "reward", "label"}
      /\ \A d \in Captures \ {attempt + 1} : capture'[d] = capture[d]
  BY <1>3 DEF StartRecorder, SessionInv, StoreInv, Shape, Absent
<1>5. \A q \in Finalizers : job[q].step \in Active => job[q].capture # attempt + 1
  BY <1>1, <1>2, SessionIsIdle DEF Saving
<1>6. StoreInv' BY <1>1, <1>4, <1>5, CaptureKeeps DEF SessionInv
<1>7. Owners'
  BY <1>1, <1>2 DEF SessionInv, Owners, InRound, Saving, Attempts
<1> QED BY <1>6, <1>7 DEF SessionInv

\* What the recorder leaves behind is about a capture nobody finalizes yet.
LEMMA RecordingEndsKeeps ==
  ASSUME SessionInv, pc \in {"watch", "close", "abnormal"}, pc' \in {pc, "label", "review"},
         UNCHANGED capture \/ \E s \in {"usable", "unusable"} : LeftBehind(s),
         UNCHANGED <<episodes, manifest, summary, lock, job, interrupted, attempt, current>>
  PROVE  SessionInv'
<1>1. current \in Attempts /\ current \in Captures
  BY SessionAssumption DEF SessionInv, Owners, InRound, Attempts
<1>2. /\ DOMAIN capture' = Captures
      /\ \A d \in Captures : DOMAIN capture'[d] = {"state", "reward", "label"}
      /\ \A d \in Captures \ {current} : capture'[d] = capture[d]
  <2>1. CASE UNCHANGED capture BY <2>1 DEF SessionInv, StoreInv, Shape
  <2>2. CASE \E s \in {"usable", "unusable"} : LeftBehind(s)
    BY <1>1, <2>2 DEF LeftBehind, SessionInv, StoreInv, Shape
  <2> QED BY <2>1, <2>2
<1>3. \A q \in Finalizers : job[q].step \in Active => job[q].capture # current
  BY <1>1, SessionIsIdle DEF Saving
<1>4. StoreInv' BY <1>2, <1>3, CaptureKeeps DEF SessionInv
<1>5. Owners' BY <1>1 DEF SessionInv, Owners, InRound, Saving, Attempts
<1> QED BY <1>4, <1>5 DEF SessionInv

\* A round is closed when its recorder has ended.
LEMMA CloseRoundKeeps == SessionInv /\ CloseRound => SessionInv'
BY RecordingEndsKeeps DEF CloseRound, BestEffort, Proceed

\* A recorder that ends by itself leaves something behind, or nothing new.
LEMMA RecorderEndsKeeps == SessionInv /\ RecorderEnds => SessionInv'
<1> SUFFICES ASSUME SessionInv, RecorderEnds PROVE SessionInv'
  OBVIOUS
<1>1. CASE pc \in {"watch", "close", "abnormal"}
  BY <1>1, RecordingEndsKeeps DEF RecorderEnds
<1>2. CASE UNCHANGED capture
  BY <1>2, QuietKeeps DEF RecorderEnds, storeVars
<1> QED BY <1>1, <1>2 DEF RecorderEnds

\* The capture that is labelled is the session's own, and nobody's work.
LEMMA LabelKeeps ==
  ASSUME SessionInv, NEW outcome \in Outcomes, Label(outcome)
  PROVE  SessionInv'
<1>1. /\ pc \in {"label", "review"} /\ pc' \in Saving
      /\ Begin(Session, current, outcome)
      /\ UNCHANGED <<attempt, current>>
  BY DEF Label, Proceed, Saving
<1>2. /\ current \in Attempts /\ current \in Captures
      /\ Session \in Finalizers /\ Manual \in Finalizers /\ Session # Manual
  BY <1>1, SessionAssumption DEF SessionInv, Owners, InRound, Attempts
<1>3. \A q \in Finalizers : job[q].step \in Active => job[q].capture # current
  BY <1>1, <1>2, SessionIsIdle DEF Saving
<1>4. StoreInv' BY <1>1, <1>2, <1>3, BeginKeeps DEF SessionInv
<1>5. job'[Session].capture = current /\ \A q \in Finalizers \ {Session} : job'[q] = job[q]
  BY <1>1, <1>2 DEF Begin, SessionInv, StoreInv, Shape, Idle
<1>6. Owners'
  BY <1>1, <1>2, <1>5 DEF SessionInv, Owners, InRound, Saving, Attempts
<1> QED BY <1>4, <1>6 DEF SessionInv

\* A step of a finalizer stays with its capture and disturbs no other job.
LEMMA FinalizerStepIsOwn ==
  ASSUME StoreInv, NEW p \in Finalizers, FinalizerStep(p)
  PROVE  /\ job[p].step \in Active
         /\ job'[p].capture = job[p].capture
         /\ \A q \in Finalizers \ {p} : job'[q] = job[q]
BY DEF FinalizerStep, Convert, Allocate, Annotate, Rename, ListEpisodes, Publish,
       Summarise, At, Goto, StoreInv, Shape, JobFields, Active, Locked

\* The finalizer's step while the script waits for it.
LEMMA FinalizeRunsKeeps == SessionInv /\ FinalizeRuns => SessionInv'
<1> SUFFICES ASSUME SessionInv, FinalizeRuns PROVE SessionInv'
  OBVIOUS
<1>1. /\ Session \in Finalizers /\ Manual \in Finalizers /\ Session # Manual
      /\ StoreInv /\ FinalizerStep(Session)
      /\ UNCHANGED <<pc, attempt, current>>
  BY SessionAssumption DEF FinalizeRuns, SessionInv, sessionVars
<1>2. StoreInv' BY <1>1, FinalizerStepKeeps
<1>3. Owners'
  BY <1>1, FinalizerStepIsOwn DEF SessionInv, Owners, Attempts
<1> QED BY <1>2, <1>3 DEF SessionInv

\* The script goes on and the finalizer is idle again.
LEMMA FinalizedKeeps == SessionInv /\ Finalized => SessionInv'
<1> SUFFICES ASSUME SessionInv, Finalized PROVE SessionInv'
  OBVIOUS
<1>1. /\ job[Session].step \in {"saved", "discarded"}
      /\ job' = [job EXCEPT ![Session] = Idle]
      /\ pc' \in {"next", "halt"} /\ current' = None
      /\ UNCHANGED <<capture, episodes, manifest, summary, lock, interrupted, attempt>>
  BY DEF Finalized, Proceed, Exit
<1>2. Session \in Finalizers /\ Shape /\ Locking /\ Works
  BY SessionAssumption DEF SessionInv, StoreInv
<1>3. /\ DOMAIN job' = Finalizers
      /\ \A q \in Finalizers \ {Session} : job'[q] = job[q]
      /\ DOMAIN job'[Session] = JobFields
      /\ job'[Session].step = "idle" /\ job'[Session].index \in Nat
  BY <1>1, <1>2 DEF Shape, Idle, JobFields
<1>4. "idle" \in Steps \ Active BY DEF Steps, Active, Locked
<1>5. lock # Session /\ job[Session].step \notin Renamed
  BY <1>1, <1>2 DEF Locking, Locked, Renamed
<1>6. StoreInv'
  BY <1>1, <1>2, <1>3, <1>4, <1>5, LeavingKeeps DEF SessionInv, Shape
<1>7. Owners'
  BY <1>1, <1>2, <1>3, <1>4, SessionAssumption
     DEF SessionInv, Owners, InRound, Attempts
<1> QED BY <1>6, <1>7 DEF SessionInv

\* The trap deletes a capture that no finalizer works on.
LEMMA HaltDeleteKeeps == SessionInv /\ HaltDelete => SessionInv'
<1> SUFFICES ASSUME SessionInv, HaltDelete PROVE SessionInv'
  OBVIOUS
<1>1. /\ pc = "halt_delete" /\ pc' = "halt_stack" /\ current' = None
      /\ UNCHANGED <<episodes, manifest, summary, lock, job, interrupted, attempt>>
  BY DEF HaltDelete, Proceed
<1>2. /\ DOMAIN capture' = Captures
      /\ \A d \in Captures : DOMAIN capture'[d] = {"state", "reward", "label"}
      /\ \A d \in Captures \ {current} : capture'[d] = capture[d]
  BY DEF HaltDelete, SessionInv, StoreInv, Shape, Absent
<1>3. \A q \in Finalizers : job[q].step \in Active => job[q].capture # current
  BY <1>1, SessionIsIdle DEF Saving, SessionInv, Owners
<1>4. StoreInv' BY <1>1, <1>2, <1>3, CaptureKeeps DEF SessionInv
<1>5. Owners' BY <1>1 DEF SessionInv, Owners, InRound, Saving, Attempts
<1> QED BY <1>4, <1>5 DEF SessionInv

\* A signal ends the finalizer the session waits for.
LEMMA InterruptKeeps == SessionInv /\ Interrupt => SessionInv'
<1> SUFFICES ASSUME SessionInv, Interrupt PROVE SessionInv'
  OBVIOUS
<1>1. /\ pc' \in {"killed", "halt"}
      /\ UNCHANGED <<capture, episodes, manifest, summary, attempt, current>>
  BY DEF Interrupt, Exit
<1>2. Session \in Finalizers /\ Manual \in Finalizers /\ Session # Manual
  BY SessionAssumption
<1>3. CASE job[Session].step \in Active
  <2>1. Killed(Session) BY <1>3 DEF Interrupt, Active
  <2>2. StoreInv' BY <1>1, <1>2, <2>1, KilledKeeps DEF SessionInv
  <2>3. job'[Session].step = "failed"
        /\ \A q \in Finalizers \ {Session} : job'[q] = job[q]
    BY <1>2, <2>1 DEF Killed, SessionInv, StoreInv, Shape, JobFields
  <2>4. Owners'
    BY <1>1, <1>2, <2>3
       DEF SessionInv, Owners, InRound, Attempts, Active, Locked
  <2> QED BY <2>2, <2>4 DEF SessionInv
<1>4. CASE job[Session].step \notin Active
  <2>1. UNCHANGED storeVars BY <1>1, <1>4 DEF Interrupt, Active, storeVars
  <2>2. StoreInv' BY <2>1, StoreStays DEF SessionInv
  <2>3. Owners'
    BY <1>1, <1>4, <2>1 DEF SessionInv, Owners, InRound, Attempts, storeVars
  <2> QED BY <2>2, <2>3 DEF SessionInv
<1> QED BY <1>3, <1>4

\* The manual finalizer works on the leftover capture, never on an attempt.
LEMMA ManualStepKeeps == SessionInv /\ ManualStep => SessionInv'
<1> SUFFICES ASSUME SessionInv, ManualStep PROVE SessionInv'
  OBVIOUS
<1>1. /\ Session \in Finalizers /\ Manual \in Finalizers /\ Session # Manual
      /\ Leftover \in Captures /\ Leftover \notin Attempts /\ StoreInv
      /\ UNCHANGED <<pc, attempt, current>>
  BY SessionAssumption DEF ManualStep, SessionInv, Attempts
<1>2. CASE \E outcome \in Outcomes : Begin(Manual, Leftover, outcome)
  <2>1. PICK outcome \in Outcomes : Begin(Manual, Leftover, outcome) BY <1>2
  <2>2. \A q \in Finalizers \ {Manual} :
          job[q].step \in Active => job[q].capture # Leftover
    BY <1>1 DEF SessionInv, Owners
  <2>3. StoreInv' BY <1>1, <2>1, <2>2, BeginKeeps
  <2>4. job'[Manual].capture = Leftover
        /\ \A q \in Finalizers \ {Manual} : job'[q] = job[q]
    BY <1>1, <2>1 DEF Begin, StoreInv, Shape, Idle
  <2>5. Owners' BY <1>1, <2>4 DEF SessionInv, Owners, Attempts
  <2> QED BY <2>3, <2>5 DEF SessionInv
<1>3. CASE FinalizerStep(Manual)
  <2>1. StoreInv' BY <1>1, <1>3, FinalizerStepKeeps
  <2>2. Owners'
    BY <1>1, <1>3, FinalizerStepIsOwn DEF SessionInv, Owners, Attempts
  <2> QED BY <2>1, <2>2 DEF SessionInv
<1>4. CASE KillFinalizer(Manual)
  <2>1. StoreInv' BY <1>1, <1>4, KilledKeeps DEF KillFinalizer
  <2>2. job'[Manual].step = "failed"
        /\ \A q \in Finalizers \ {Manual} : job'[q] = job[q]
    BY <1>1, <1>4 DEF KillFinalizer, Killed, StoreInv, Shape, JobFields
  <2>3. Owners'
    BY <1>1, <2>2 DEF SessionInv, Owners, Attempts, Active, Locked
  <2> QED BY <2>1, <2>3 DEF SessionInv
<1> QED BY <1>2, <1>3, <1>4 DEF ManualStep

\* A deletion touches no job.
LEMMA DiscardedKeeps ==
  ASSUME SessionInv, NEW i \in DOMAIN episodes, Discarded(i)
  PROVE  SessionInv'
<1>1. StoreInv' BY DeleteKeeps DEF SessionInv, Discarded
<1>2. Owners' BY DEF SessionInv, Owners, Discarded, DeleteEpisode, Attempts
<1> QED BY <1>1, <1>2 DEF SessionInv
-----------------------------------------------------------------------------
(* The theorems. *)

\* Each line of the script, by its own lemma or as a quiet one.
LEMMA ScriptKeeps == SessionInv /\ Scripted => SessionInv'
<1> SUFFICES ASSUME SessionInv, Scripted PROVE SessionInv'
  OBVIOUS
<1> USE DEF Proceed, Exit, ProcessVars, Frame, Saving, InRound
<1>1. CASE Launch BY <1>1, QuietKeeps DEF Launch
<1>2. CASE StartRobotStack BY <1>2, QuietKeeps DEF StartRobotStack
<1>3. CASE FirstClient BY <1>3, QuietKeeps DEF FirstClient, StartClient
<1>4. CASE Servo BY <1>4, QuietKeeps DEF Servo, Command
<1>5. CASE RoundEnds BY <1>5, QuietKeeps DEF RoundEnds
<1>6. CASE FinalizerFails
  <2>1. /\ pc' = "halt" /\ job[Session].step = "failed"
        /\ UNCHANGED <<storeVars, attempt, current>>
    BY <1>6 DEF FinalizerFails, At
  <2>2. StoreInv' BY <2>1, StoreStays DEF SessionInv
  <2>3. Owners'
    BY <2>1 DEF SessionInv, Owners, storeVars, Attempts, Active, Locked
  <2> QED BY <2>2, <2>3 DEF SessionInv
<1>7. CASE FlushQueue BY <1>7, QuietKeeps DEF FlushQueue
<1>8. CASE StopPolicy BY <1>8, QuietKeeps DEF StopPolicy
<1>9. CASE AwaitPort BY <1>9, QuietKeeps DEF AwaitPort
<1>10. CASE ResetRobot BY <1>10, QuietKeeps DEF ResetRobot, Command
<1>11. CASE StartPolicy BY <1>11, QuietKeeps DEF StartPolicy, StartServer
<1>12. CASE StartPolicyClient BY <1>12, QuietKeeps DEF StartPolicyClient, StartClient
<1>13. CASE PolicyServo BY <1>13, QuietKeeps DEF PolicyServo, Command
<1>14. CASE HaltRecorder BY <1>14, QuietKeeps DEF HaltRecorder
<1>15. CASE HaltStack BY <1>15, QuietKeeps DEF HaltStack
<1>16. CASE HaltPolicy BY <1>16, QuietKeeps DEF HaltPolicy
<1> QED
  BY <1>1, <1>2, <1>3, <1>4, <1>5, <1>6, <1>7, <1>8, <1>9, <1>10, <1>11, <1>12, <1>13, <1>14, <1>15, <1>16,
     StartRecorderKeeps, CloseRoundKeeps, FinalizeRunsKeeps, FinalizedKeeps,
     HaltDeleteKeeps DEF Scripted, Halt

\* Each action of the operator.
LEMMA OperatorKeeps == SessionInv /\ Operator => SessionInv'
<1> SUFFICES ASSUME SessionInv, Operator PROVE SessionInv'
  OBVIOUS
<1> USE DEF Proceed, Exit, ProcessVars, Frame, Saving, InRound
<1>1. CASE Arm BY <1>1, QuietKeeps DEF Arm, Command
<1>2. CASE Move BY <1>2, QuietKeeps DEF Move, Command
<1>3. CASE OperatorEnds BY <1>3, QuietKeeps DEF OperatorEnds, BestEffort
<1>4. CASE OperatorAborts BY <1>4, QuietKeeps DEF OperatorAborts
<1>5. CASE Finish BY <1>5, QuietKeeps DEF Finish
<1>6. CASE ResetSameMode BY <1>6, QuietKeeps DEF ResetSameMode, Command
<1>7. CASE \E m \in Modes : ChooseMode(m) BY <1>7, QuietKeeps DEF ChooseMode
<1>8. CASE PressEnter BY <1>8, QuietKeeps DEF PressEnter
<1> QED
  BY <1>1, <1>2, <1>3, <1>4, <1>5, <1>6, <1>7, <1>8, LabelKeeps, InterruptKeeps
     DEF Operator

\* Each step of the robot and of other processes.
LEMMA EnvironmentKeeps == SessionInv /\ Environment => SessionInv'
<1> SUFFICES ASSUME SessionInv, Environment PROVE SessionInv'
  OBVIOUS
<1> USE DEF ProcessVars, Frame
<1>1. CASE TaskCompletes BY <1>1, QuietKeeps DEF TaskCompletes
<1>2. CASE MonitorEnds BY <1>2, QuietKeeps DEF MonitorEnds
<1>3. CASE RobotStops BY <1>3, QuietKeeps DEF RobotStops
<1>4. CASE ClientDies BY <1>4, QuietKeeps DEF ClientDies
<1>5. CASE RecorderSticks BY <1>5, QuietKeeps DEF RecorderSticks
<1>6. CASE SecondLauncher BY <1>6, QuietKeeps DEF SecondLauncher
<1> QED
  BY <1>1, <1>2, <1>3, <1>4, <1>5, <1>6, RecorderEndsKeeps, ManualStepKeeps,
     DiscardedKeeps DEF Environment

\* The strengthened invariant holds in every reachable state.
THEOREM SessionInvariant == Spec => []SessionInv
<1>1. SessionInv /\ UNCHANGED vars => SessionInv'
  BY QuietKeeps DEF vars, sessionVars
<1>2. SessionInv /\ [Next]_vars => SessionInv'
  BY <1>1, ScriptKeeps, OperatorKeeps, EnvironmentKeeps DEF Next
<1> QED BY <1>2, InitSession, PTL DEF Spec

(* Whatever processes finalize, are killed or started again, and whatever is
   deleted: every episode on disk carries one label in its rewards, its
   metadata and, once a finalization has ended, the manifest; and the summary
   counts that manifest. *)
THEOREM CatalogueStaysFaithful == Spec => []CatalogueIsFaithful
<1>1. SessionInv => CatalogueIsFaithful BY DEF SessionInv, StoreInv
<1> QED BY <1>1, SessionInvariant, PTL

\* What EpisodesOnlyAppended says of one step.
Appends ==
  \A i \in DOMAIN episodes' :
    IF i \in DOMAIN episodes THEN episodes'[i] = episodes[i]
    ELSE \A j \in DOMAIN episodes : j < i

\* A finalizer adds one episode at most, above all others.
LEMMA FinalizerStepAppends ==
  ASSUME StoreInv, NEW p \in Finalizers, FinalizerStep(p)
  PROVE  Appends
<1>1. CASE Rename(p)
  <2>1. \A j \in DOMAIN episodes : j < job[p].index
    BY <1>1 DEF Rename, At, StoreInv, Indices, Above
  <2> QED BY <1>1, <2>1 DEF Rename, Appends
<1>2. CASE UNCHANGED episodes BY <1>2 DEF Appends
<1> QED
  BY <1>1, <1>2 DEF FinalizerStep, Convert, Allocate, Annotate, ListEpisodes,
                    Publish, Summarise

\* Every step adds above, or removes, or leaves the episodes alone.
LEMMA NextAppends == SessionInv /\ Next => Appends
<1> SUFFICES ASSUME SessionInv, Next PROVE Appends
  OBVIOUS
<1> USE DEF storeVars
<1>0. StoreInv /\ Session \in Finalizers /\ Manual \in Finalizers
  BY SessionAssumption DEF SessionInv
<1>1. CASE FinalizeRuns BY <1>0, <1>1, FinalizerStepAppends DEF FinalizeRuns
<1>2. CASE ManualStep
  <2>1. CASE FinalizerStep(Manual) BY <1>0, <2>1, FinalizerStepAppends
  <2>2. CASE UNCHANGED episodes BY <2>2 DEF Appends
  <2> QED BY <1>2, <2>1, <2>2 DEF ManualStep, Begin, KillFinalizer
<1>3. CASE \E i \in DOMAIN episodes : Discarded(i)
  BY <1>3 DEF Discarded, DeleteEpisode, Restrict, Appends
<1>4. CASE UNCHANGED episodes BY <1>4 DEF Appends
<1>5. CASE Scripted
  BY <1>1, <1>4, <1>5
     DEF Scripted, Launch, StartRobotStack, FirstClient, Servo, StartRecorder,
         RoundEnds, CloseRound, Finalized, FinalizerFails, FlushQueue, StopPolicy,
         AwaitPort, ResetRobot, StartPolicy, StartPolicyClient, PolicyServo, Halt,
         HaltRecorder, HaltDelete, HaltStack, HaltPolicy
<1>6. CASE Operator
  BY <1>4, <1>6
     DEF Operator, Arm, Move, OperatorEnds, OperatorAborts, Finish, Label, Begin,
         ResetSameMode, ChooseMode, PressEnter, Interrupt
<1>7. CASE Environment
  BY <1>2, <1>3, <1>4, <1>7
     DEF Environment, TaskCompletes, MonitorEnds, RobotStops, ClientDies,
         RecorderSticks, RecorderEnds, SecondLauncher
<1> QED BY <1>5, <1>6, <1>7 DEF Next

(* No episode is ever replaced, and the index of a new one is above all that
   are on disk, for any number of episodes and of processes. *)
THEOREM EpisodesAreAppended == Spec => EpisodesOnlyAppended
<1>1. SessionInv /\ [Next]_vars => [Appends]_storeVars
  BY NextAppends DEF vars
<1>2. [][Appends]_storeVars => EpisodesOnlyAppended
  BY PTL DEF Appends, EpisodesOnlyAppended
<1> QED BY <1>1, <1>2, SessionInvariant, PTL DEF Spec

-----------------------------------------------------------------------------
(* What the operator decided is what the data set holds.  The argument follows
   one label: no attempt has one before its prompt; while the finalizer works
   on it, it is the label of the job; afterwards it is in the data set and
   counted, unless the session is about to end with an error or a signal. *)

\* The session ends with an error or a signal.
Troubled == pc \in Halting \union Over /\ code \notin {"ok", "abnormal"}

\* The attempts that were labelled S or F in a mode.
Marked(m) == {c \in Attempts : verdict[c] \in Labels /\ noted[c] = m}

\* Labels are given in order, to the current attempt, once.
InTurn ==
  /\ DOMAIN verdict = Attempts /\ DOMAIN noted = Attempts
  /\ DOMAIN saved = Modes /\ mode \in Modes
  /\ current \in Attempts => current = attempt
  /\ \A c \in Attempts : c > attempt => verdict[c] = None
  /\ pc \in InRound => verdict[current] = None

\* Every episode of the session carries the label of its attempt.
Own(e) == e.capture # Leftover =>
            /\ e.capture \in Attempts
            /\ verdict[e.capture] = e.label /\ e.label # None
Faithful == \A i \in DOMAIN episodes : Own(episodes[i])

\* The finalizer works for the label of the current attempt.
Underway ==
  pc \in Saving =>
    /\ current \in Attempts /\ verdict[current] \in Outcomes
    /\ noted[current] = mode
    /\ job[Session].capture = current
    /\ job[Session].outcome = verdict[current]
    /\ job[Session].step = "discarded" => verdict[current] = "discard"
    /\ job[Session].step \in Active \union {"saved"} => verdict[current] \in Labels
    /\ job[Session].step \in Renamed \union {"saved"} => InDataSet(current)

\* All labels but the one under way have reached the data set, and the counts.
Due == IF pc \in Saving THEN {current} ELSE {}
Counts ==
  ~Troubled => /\ \A c \in Attempts \ Due : verdict[c] \in Labels => InDataSet(c)
               /\ \A m \in Modes : saved[m] = Cardinality(Marked(m) \ Due)

LabelInv == InTurn /\ Faithful /\ Underway /\ Counts

-----------------------------------------------------------------------------
(* Facts about the pieces. *)

\* There are finitely many attempts, so their counts add up.
LEMMA MarkedIsFinite == \A m : IsFiniteSet(Marked(m))
<1>1. IsFiniteSet(Attempts)
  BY FS_Interval, SessionAssumption DEF Attempts
<1> QED BY <1>1, FS_Subset DEF Marked

\* Without a label nobody is marked.
LEMMA NobodyMarked ==
  ASSUME \A c \in Attempts : verdict[c] = None
  PROVE  \A m : Marked(m) = {}
BY FinalizerAssumption DEF Marked, Outcomes

\* A finalizer that has renamed its capture has put it into the data set, with
\* its label.
LEMMA StepOfData ==
  ASSUME StoreInv, NEW p \in Finalizers, FinalizerStep(p)
  PROVE  \/ /\ UNCHANGED episodes
            /\ job'[p].step \in Renamed \union {"saved"} => job[p].step \in Renamed
         \/ \E i : /\ DOMAIN episodes' = DOMAIN episodes \union {i}
                   /\ i \notin DOMAIN episodes
                   /\ \A j \in DOMAIN episodes : episodes'[j] = episodes[j]
                   /\ episodes'[i].capture = job[p].capture
                   /\ episodes'[i].label = job[p].outcome
<1> USE DEF StoreInv
<1>1. CASE Rename(p)
  <2> DEFINE i == job[p].index
  <2>1. job[p].step = "rename" /\ \A j \in DOMAIN episodes : j < i
    BY <1>1 DEF Rename, At, Indices, Above
  <2>2. i \notin DOMAIN episodes
    BY <2>1 DEF Shape
  <2>3. capture[job[p].capture].label = job[p].outcome
    BY <2>1 DEF Labelled
  <2>4. /\ DOMAIN episodes' = DOMAIN episodes \union {i}
        /\ \A j \in DOMAIN episodes : episodes'[j] = episodes[j]
        /\ episodes'[i].capture = job[p].capture
        /\ episodes'[i].label = job[p].outcome
    BY <1>1, <2>2, <2>3 DEF Rename
  <2> QED BY <2>2, <2>4
<1>2. CASE FinalizerStep(p) /\ ~Rename(p)
  <2> USE DEF At, Goto, Shape, JobFields, Renamed
  <2>1. CASE Convert(p) BY <2>1 DEF Convert
  <2>2. CASE Allocate(p) BY <2>2 DEF Allocate
  <2>3. CASE Annotate(p) BY <2>3 DEF Annotate
  <2>4. CASE ListEpisodes(p) BY <2>4 DEF ListEpisodes
  <2>5. CASE Publish(p) BY <2>5 DEF Publish
  <2>6. CASE Summarise(p) BY <2>6 DEF Summarise
  <2> QED BY <1>2, <2>1, <2>2, <2>3, <2>4, <2>5, <2>6 DEF FinalizerStep
<1> QED BY <1>1, <1>2

\* What follows the finalizer's steps.
LEMMA StepsForward ==
  ASSUME StoreInv, NEW p \in Finalizers, FinalizerStep(p)
  PROVE  /\ job'[p].outcome = job[p].outcome
         /\ job'[p].step # "discarded"
BY DEF FinalizerStep, Convert, Allocate, Annotate, Rename, ListEpisodes, Publish,
       Summarise, At, Goto, StoreInv, Shape, JobFields

\* An episode that is renamed stays in the data set.
LEMMA DataSetGrows ==
  ASSUME StoreInv, NEW p \in Finalizers, FinalizerStep(p), UNCHANGED deleted,
         NEW c, InDataSet(c)
  PROVE  InDataSet(c)'
BY StepOfData DEF InDataSet

\* A session starts without labels and with zero counts.
LEMMA InitLabels == Init => LabelInv
<1> SUFFICES ASSUME Init PROVE LabelInv
  OBVIOUS
<1>1. /\ pc = "launch" /\ code = "ok" /\ mode \in Modes /\ attempt = 0
      /\ current = None /\ DOMAIN episodes = {} /\ DOMAIN saved = Modes
      /\ DOMAIN verdict = Attempts /\ DOMAIN noted = Attempts
      /\ \A c \in Attempts : verdict[c] = None
      /\ \A m \in Modes : saved[m] = 0
  BY SessionAssumption DEF Init, StoreInit
<1>2. None \notin Attempts /\ None \notin Labels
  BY SessionAssumption, FinalizerAssumption DEF Attempts, Outcomes
<1>3. InTurn BY <1>1, <1>2 DEF InTurn, InRound
<1>4. Faithful /\ Underway BY <1>1 DEF Faithful, Underway, Saving
<1>5. Counts
  BY <1>1, <1>2, NobodyMarked, FS_EmptySet DEF Counts, Due, Saving
<1> QED BY <1>3, <1>4, <1>5 DEF LabelInv

-----------------------------------------------------------------------------
(* Steps that move no label. *)

\* A line of the script before or after the finalizer's.
LEMMA QuietLabels ==
  ASSUME SessionInv, LabelInv,
         UNCHANGED <<storeVars, deleted, verdict, noted, saved, attempt, current>>,
         mode' \in Modes,
         pc \in Saving => mode' = mode,
         pc' = pc \/ (pc \notin Saving /\ pc' \notin Saving),
         pc' \in InRound => pc \in InRound,
         Troubled => Troubled'
  PROVE  LabelInv'
<1> USE DEF LabelInv
<1>1. InTurn' BY DEF InTurn, Attempts
<1>2. Faithful' BY DEF Faithful, Own, Attempts, storeVars
<1>3. Underway' BY DEF Underway, InDataSet, Attempts, storeVars
<1>4. Due' = Due /\ \A m : Marked(m)' = Marked(m)
  BY DEF Due, Marked, Attempts
<1>5. Counts' BY <1>4 DEF Counts, InDataSet, Attempts, storeVars
<1> QED BY <1>1, <1>2, <1>3, <1>5

\* A change of a capture directory that is not an episode.
LEMMA CaptureLabels ==
  ASSUME SessionInv, LabelInv,
         UNCHANGED <<episodes, job, deleted, verdict, noted, saved, mode>>,
         pc \notin Saving, pc' \notin Saving,
         Troubled => Troubled',
         InTurn'
  PROVE  LabelInv'
<1> USE DEF LabelInv
<1>1. Faithful' BY DEF Faithful, Own, Attempts
<1>2. Underway' BY DEF Underway
<1>3. Due' = Due /\ \A m : Marked(m)' = Marked(m)
  BY DEF Due, Marked, Attempts
<1>4. Counts' BY <1>3 DEF Counts, InDataSet, Attempts
<1> QED BY <1>1, <1>2, <1>4

\* A step of the robot or of a process the script is not waiting for.
LEMMA StillLabels ==
  ASSUME SessionInv, LabelInv,
         UNCHANGED <<storeVars, deleted, verdict, noted, saved, attempt, current,
                     mode, pc, code>>
  PROVE  LabelInv'
<1> USE DEF LabelInv
<1>1. InTurn' BY DEF InTurn, Attempts
<1>2. Faithful' BY DEF Faithful, Own, Attempts, storeVars
<1>3. Underway' BY DEF Underway, InDataSet, Attempts, storeVars
<1>4. Due' = Due /\ \A m : Marked(m)' = Marked(m)
  BY DEF Due, Marked, Attempts
<1>5. Counts' BY <1>4 DEF Counts, Troubled, InDataSet, Attempts, storeVars
<1> QED BY <1>1, <1>2, <1>3, <1>5

\* A new attempt has no label yet.
LEMMA StartRecorderLabels == SessionInv /\ LabelInv /\ StartRecorder => LabelInv'
<1> SUFFICES ASSUME SessionInv, LabelInv, StartRecorder PROVE LabelInv'
  OBVIOUS
<1>1. /\ pc = "loop" /\ pc' \in {"move", "halt"}
      /\ attempt' = attempt + 1 /\ current' = attempt + 1
      /\ UNCHANGED <<episodes, job, deleted, verdict, noted, saved, mode>>
  BY DEF StartRecorder, Proceed, Exit, Frame
<1>2. attempt \in Nat /\ attempt + 1 \in Attempts
  BY SessionAssumption DEF StartRecorder, SessionInv, Owners, Attempts
<1>3. InTurn'
  <2>1. attempt + 1 > attempt BY <1>2
  <2>2. \A c \in Attempts : c > attempt + 1 => c > attempt BY <1>2 DEF Attempts
  <2> QED BY <1>1, <1>2, <2>1, <2>2 DEF LabelInv, InTurn, Attempts
<1> QED
  BY <1>1, <1>3, CaptureLabels DEF Troubled, Halting, Over, Saving

\* Closing the round decides whether the capture is usable, no more.
LEMMA CloseRoundLabels == SessionInv /\ LabelInv /\ CloseRound => LabelInv'
<1> SUFFICES ASSUME SessionInv, LabelInv, CloseRound PROVE LabelInv'
  OBVIOUS
<1>1. /\ pc \in {"close", "abnormal"} /\ pc' \in {"label", "review"}
      /\ UNCHANGED <<episodes, job, deleted, verdict, noted, saved, mode,
                     attempt, current>>
  BY DEF CloseRound, BestEffort, Proceed, Frame
<1>2. InTurn' BY <1>1 DEF LabelInv, InTurn, InRound, Attempts
<1> QED BY <1>1, <1>2, CaptureLabels DEF Troubled, Halting, Over, Saving

\* So does the recorder that ends by itself.
LEMMA RecorderEndsLabels == SessionInv /\ LabelInv /\ RecorderEnds => LabelInv'
<1> SUFFICES ASSUME SessionInv, LabelInv, RecorderEnds PROVE LabelInv'
  OBVIOUS
<1>1. UNCHANGED <<episodes, job, deleted, verdict, noted, saved, mode, attempt,
                  current, pc, code>>
  BY DEF RecorderEnds, Frame
<1>2. InTurn' BY <1>1 DEF LabelInv, InTurn, Attempts
<1>3. CASE pc \in {"watch", "close", "abnormal"}
  BY <1>1, <1>2, <1>3, CaptureLabels DEF Troubled, Saving
<1>4. CASE UNCHANGED capture
  BY <1>1, <1>4, StillLabels DEF RecorderEnds, storeVars
<1> QED BY <1>3, <1>4 DEF RecorderEnds

\* The trap deletes a capture, never an episode.
LEMMA HaltDeleteLabels == SessionInv /\ LabelInv /\ HaltDelete => LabelInv'
<1> SUFFICES ASSUME SessionInv, LabelInv, HaltDelete PROVE LabelInv'
  OBVIOUS
<1>1. /\ pc = "halt_delete" /\ pc' = "halt_stack" /\ current' = None
      /\ UNCHANGED <<episodes, job, deleted, verdict, noted, saved, mode, attempt,
                     code>>
  BY DEF HaltDelete, Proceed, Frame
<1>2. None \notin Attempts
  BY SessionAssumption, FinalizerAssumption DEF Attempts
<1>3. InTurn' BY <1>1, <1>2 DEF LabelInv, InTurn, InRound, Attempts
<1> QED BY <1>1, <1>3, CaptureLabels DEF Troubled, Halting, Over, Saving
-----------------------------------------------------------------------------
(* The way of a label. *)

\* The operator's answer is the label under way from here on.
LEMMA LabelLabels ==
  ASSUME SessionInv, LabelInv, NEW outcome \in Outcomes, Label(outcome)
  PROVE  LabelInv'
<1> USE DEF LabelInv
<1>1. /\ pc \in {"label", "review"} /\ pc' \in Saving
      /\ Begin(Session, current, outcome)
      /\ verdict' = [verdict EXCEPT ![current] = outcome]
      /\ noted' = [noted EXCEPT ![current] = mode]
      /\ UNCHANGED <<episodes, deleted, attempt, current, mode, saved, code>>
  BY DEF Label, Proceed, Saving, Begin, Frame
<1>2. /\ current \in Attempts /\ current = attempt /\ verdict[current] = None
      /\ Session \in Finalizers /\ attempt \in Nat
  BY <1>1, SessionAssumption DEF SessionInv, Owners, InRound, InTurn
<1>3. /\ verdict'[current] = outcome /\ noted'[current] = mode
      /\ \A c \in Attempts \ {current} :
           verdict'[c] = verdict[c] /\ noted'[c] = noted[c]
      /\ DOMAIN verdict' = Attempts /\ DOMAIN noted' = Attempts
  BY <1>1, <1>2 DEF InTurn
<1>4. InTurn'
  <2>1. pc' \notin InRound BY <1>1 DEF Saving, InRound
  <2> QED BY <2>1, <1>1, <1>2, <1>3 DEF InTurn, Attempts
<1>5. Faithful'
  BY <1>1, <1>2, <1>3 DEF Faithful, Own, Attempts
<1>6. Underway'
  <2>1. /\ job'[Session].capture = current /\ job'[Session].outcome = outcome
        /\ job'[Session].step = IF outcome = "discard" THEN "discarded" ELSE "convert"
    BY <1>1, <1>2 DEF Begin, SessionInv, StoreInv, Shape, Idle
  <2> QED BY <1>1, <1>2, <1>3, <2>1
          DEF Underway, Outcomes, Labels, Renamed, Active, Locked, Attempts
<1>7. Counts'
  <2>1. ~Troubled /\ Due = {} /\ Due' = {current}
    BY <1>1 DEF Troubled, Halting, Over, Due, Saving
  <2>2. \A m : Marked(m)' \ {current} = Marked(m)
    BY <1>1, <1>2, <1>3, FinalizerAssumption DEF Marked, Outcomes, Attempts
  <2>3. \A c : InDataSet(c) = InDataSet(c)'
    BY <1>1 DEF InDataSet
  <2>4. \A c \in Attempts : verdict[c] \in Labels => InDataSet(c)
    BY <2>1 DEF Counts
  <2>5. \A m \in Modes : saved[m] = Cardinality(Marked(m))
    <3>1. \A m : Marked(m) \ {} = Marked(m) OBVIOUS
    <3> QED BY <2>1, <3>1 DEF Counts
  <2>6. \A c \in Attempts' \ Due' : verdict'[c] \in Labels => InDataSet(c)'
    BY <2>1, <2>3, <2>4, <1>3 DEF Attempts
  <2>7. \A m \in Modes : saved'[m] = Cardinality(Marked(m)' \ Due')
    BY <2>1, <2>2, <2>5, <1>1
  <2> QED BY <2>6, <2>7 DEF Counts
<1> QED BY <1>4, <1>5, <1>6, <1>7

\* The finalizer carries the label of its job into the data set.
LEMMA FinalizeRunsLabels == SessionInv /\ LabelInv /\ FinalizeRuns => LabelInv'
<1> SUFFICES ASSUME SessionInv, LabelInv, FinalizeRuns PROVE LabelInv'
  OBVIOUS
<1> USE DEF LabelInv
<1>1. /\ pc \in Saving /\ FinalizerStep(Session) /\ StoreInv
      /\ Session \in Finalizers
      /\ UNCHANGED sessionVars
  BY SessionAssumption DEF FinalizeRuns, Saving, SessionInv
<1>2. /\ current \in Attempts /\ job[Session].capture = current
      /\ job[Session].outcome = verdict[current]
      /\ job[Session].step \in Active /\ verdict[current] \in Labels
  BY <1>1, FinalizerStepIsOwn DEF Underway
<1>3. InTurn' BY <1>1 DEF InTurn, sessionVars, Attempts
<1>4. Faithful'
  <2>1. CASE UNCHANGED episodes
    BY <1>1, <2>1 DEF Faithful, Own, sessionVars, Attempts
  <2>2. ASSUME NEW i, DOMAIN episodes' = DOMAIN episodes \union {i},
               \A j \in DOMAIN episodes : episodes'[j] = episodes[j],
               episodes'[i].capture = job[Session].capture,
               episodes'[i].label = job[Session].outcome
        PROVE  Faithful'
    <3>1. Own(episodes'[i])
      BY <1>2, <2>2, FinalizerAssumption DEF Own, Outcomes
    <3>2. \A j \in DOMAIN episodes' : Own(episodes'[j])
      BY <2>2, <3>1 DEF Faithful
    <3>3. verdict' = verdict BY <1>1 DEF sessionVars
    <3> QED BY <3>2, <3>3 DEF Faithful, Own, Attempts
  <2> QED BY <1>1, <2>1, <2>2, StepOfData
<1>5. \A c : InDataSet(c) => InDataSet(c)'
  BY <1>1, DataSetGrows DEF sessionVars
<1>6. Underway'
  <2>1. /\ job'[Session].capture = current
        /\ job'[Session].outcome = verdict[current]
        /\ job'[Session].step # "discarded"
    BY <1>1, <1>2, FinalizerStepIsOwn, StepsForward
  <2>2. job'[Session].step \in Renamed \union {"saved"} => InDataSet(current)'
    <3>1. CASE job[Session].step \in Renamed
      <4>1. InDataSet(current) /\ current' = current
        BY <1>1, <3>1 DEF Underway, sessionVars
      <4> QED BY <4>1, <1>5
    <3>2. CASE job[Session].step \notin Renamed
      <4> HAVE job'[Session].step \in Renamed \union {"saved"}
      <4>1. PICK i : i \in DOMAIN episodes' /\ episodes'[i].capture = current
        BY <1>1, <1>2, <3>2, StepOfData
      <4>2. current' = current BY <1>1 DEF sessionVars
      <4> QED BY <4>1, <4>2 DEF InDataSet
    <3> QED BY <3>1, <3>2
  <2>3. UNCHANGED <<pc, current, verdict, noted, mode>> BY <1>1 DEF sessionVars
  <2> QED BY <1>1, <1>2, <2>1, <2>2, <2>3 DEF Underway, Attempts
<1>7. Counts'
  <2>1. UNCHANGED <<pc, code, current, verdict, noted, saved>>
    BY <1>1 DEF sessionVars
  <2>2. Due' = Due /\ \A m : Marked(m)' = Marked(m)
    BY <2>1 DEF Due, Marked, Attempts
  <2> QED BY <2>1, <2>2, <1>5 DEF Counts, Troubled, Attempts
<1> QED BY <1>3, <1>4, <1>6, <1>7

\* The label that was under way has arrived and is counted, or was a discard.
LEMMA FinalizedLabels == SessionInv /\ LabelInv /\ Finalized => LabelInv'
<1> SUFFICES ASSUME SessionInv, LabelInv, Finalized PROVE LabelInv'
  OBVIOUS
<1> USE DEF LabelInv
<1>1. /\ pc \in Saving /\ job[Session].step \in {"saved", "discarded"}
      /\ saved' = Counted /\ current' = None /\ pc' \in {"next", "halt"}
      /\ pc' = "halt" => code' = "abnormal"
      /\ UNCHANGED <<episodes, deleted, verdict, noted, attempt, mode>>
  BY DEF Finalized, Proceed, Exit, Frame, Saving
<1>2. /\ current \in Attempts /\ noted[current] = mode
      /\ mode \in Modes /\ DOMAIN saved = Modes
  BY <1>1 DEF Underway, InTurn
<1>3. ~Troubled /\ Due = {current} /\ Due' = {}
  BY <1>1 DEF Troubled, Halting, Over, Due, Saving
<1>4. ~Troubled' BY <1>1 DEF Troubled, Halting, Over
<1>5. InTurn'
  <2>1. None \notin Attempts
    BY SessionAssumption, FinalizerAssumption DEF Attempts
  <2>2. DOMAIN saved' = Modes BY <1>1, <1>2 DEF Counted
  <2> QED BY <1>1, <2>1, <2>2 DEF InTurn, InRound, Attempts
<1>6. Faithful' BY <1>1 DEF Faithful, Own, Attempts
<1>7. Underway' BY <1>1 DEF Underway, Saving
<1>8. (\A m : Marked(m)' = Marked(m)) /\ \A c : InDataSet(c)' = InDataSet(c)
  BY <1>1 DEF Marked, InDataSet, Attempts
<1>9. \A c \in Attempts \ {current} : verdict[c] \in Labels => InDataSet(c)
  BY <1>3 DEF Counts
<1>10. \A m \in Modes : saved[m] = Cardinality(Marked(m) \ {current})
  BY <1>3 DEF Counts
<1>11. CASE job[Session].step = "saved"
  <2>1. verdict[current] \in Labels /\ InDataSet(current)
    BY <1>1, <1>11 DEF Underway
  <2>2. \A c \in Attempts : verdict[c] \in Labels => InDataSet(c)
    BY <1>9, <2>1
  <2>3. ASSUME NEW m \in Modes PROVE saved'[m] = Cardinality(Marked(m))
    <3>1. CASE m = mode
      <4>1. IsFiniteSet(Marked(m)) /\ current \in Marked(m)
        BY <1>2, <2>1, <3>1, MarkedIsFinite DEF Marked
      <4>2. Cardinality(Marked(m) \ {current}) = Cardinality(Marked(m)) - 1
        BY <4>1, FS_RemoveElement
      <4>3. Cardinality(Marked(m)) \in Nat BY <4>1, FS_CardinalityType
      <4>4. saved'[m] = saved[m] + 1
        BY <1>1, <1>2, <1>11, <3>1 DEF Counted, At
      <4> QED BY <4>2, <4>3, <4>4, <1>10
    <3>2. CASE m # mode
      <4>1. current \notin Marked(m) BY <1>2, <3>2 DEF Marked
      <4>2. Marked(m) \ {current} = Marked(m) BY <4>1
      <4>3. saved'[m] = saved[m] BY <1>1, <1>2, <1>11, <3>2 DEF Counted, At
      <4> QED BY <4>2, <4>3, <1>10
    <3> QED BY <3>1, <3>2
  <2>4. \A m : Marked(m) \ {} = Marked(m) OBVIOUS
  <2>5. /\ \A c \in Attempts' \ Due' : verdict'[c] \in Labels => InDataSet(c)'
        /\ \A m \in Modes : saved'[m] = Cardinality(Marked(m)' \ Due')
    BY <1>1, <1>3, <1>8, <2>2, <2>3, <2>4 DEF Attempts
  <2>6. Counts' BY <2>5 DEF Counts
  <2> QED BY <1>5, <1>6, <1>7, <2>6
<1>12. CASE job[Session].step = "discarded"
  <2>1. verdict[current] \notin Labels
    BY <1>1, <1>12 DEF Underway, Labels
  <2>2. \A c \in Attempts : verdict[c] \in Labels => InDataSet(c)
    BY <1>9, <2>1
  <2>3. \A m : Marked(m) \ {current} = Marked(m)
    BY <2>1 DEF Marked
  <2>4. saved' = saved BY <1>1, <1>12 DEF Counted, At
  <2>5. \A m : Marked(m) \ {} = Marked(m) OBVIOUS
  <2>6. /\ \A c \in Attempts' \ Due' : verdict'[c] \in Labels => InDataSet(c)'
        /\ \A m \in Modes : saved'[m] = Cardinality(Marked(m)' \ Due')
    BY <1>1, <1>3, <1>8, <1>10, <2>2, <2>3, <2>4, <2>5 DEF Attempts
  <2>7. Counts' BY <2>6 DEF Counts
  <2> QED BY <1>5, <1>6, <1>7, <2>7
<1> QED BY <1>1, <1>11, <1>12
-----------------------------------------------------------------------------
(* Interruptions. *)

\* The finalizer's failure and a signal leave the label open: trouble.
LEMMA TroubleLabels ==
  ASSUME SessionInv, LabelInv, pc' \in {"halt", "killed"},
         pc' = "halt" => code' \notin {"ok", "abnormal"},
         pc' = "killed" => pc \notin Saving /\ (Troubled => Troubled'),
         UNCHANGED <<episodes, deleted, verdict, noted, saved, mode, attempt, current>>
  PROVE  LabelInv'
<1> USE DEF LabelInv
<1>1. InTurn' BY DEF InTurn, InRound, Attempts
<1>2. Faithful' BY DEF Faithful, Own, Attempts
<1>3. Underway' BY DEF Underway, Saving
<1>4. CASE pc' = "halt"
  <2>1. Troubled' BY <1>4 DEF Troubled, Halting
  <2>2. Counts' BY <2>1 DEF Counts
  <2> QED BY <1>1, <1>2, <1>3, <2>2
<1>5. CASE pc' = "killed"
  <2>1. Due' = Due /\ (\A m : Marked(m)' = Marked(m))
        /\ \A c : InDataSet(c)' = InDataSet(c)
    BY <1>5 DEF Due, Marked, InDataSet, Saving, Attempts
  <2> QED BY <1>1, <1>2, <1>3, <1>5, <2>1 DEF Counts, Attempts
<1> QED BY <1>1, <1>2, <1>3, <1>4, <1>5

\* A finalizer that fails ends the session with an error.
LEMMA FinalizerFailsLabels == SessionInv /\ LabelInv /\ FinalizerFails => LabelInv'
BY TroubleLabels DEF FinalizerFails, Exit, Frame, storeVars

\* A second signal kills the trap, which is past the finalizer.
LEMMA InterruptLabels == SessionInv /\ LabelInv /\ Interrupt => LabelInv'
<1> SUFFICES ASSUME SessionInv, LabelInv, Interrupt PROVE LabelInv'
  OBVIOUS
<1>1. UNCHANGED <<episodes, deleted, verdict, noted, saved, mode, attempt, current>>
  BY DEF Interrupt, Frame
<1>2. CASE pc \in Halting
  <2>1. pc' = "killed" /\ UNCHANGED code /\ pc \notin Saving
    BY <1>2 DEF Interrupt, Halting, Saving
  <2>2. Troubled => Troubled' BY <2>1 DEF Troubled, Over
  <2> QED BY <1>1, <2>1, <2>2, TroubleLabels
<1>3. CASE pc \notin Halting
  <2>1. pc' = "halt" /\ code' = "signal" BY <1>3 DEF Interrupt, Exit
  <2> QED BY <1>1, <2>1, TroubleLabels
<1> QED BY <1>2, <1>3

\* The leftover capture belongs to no attempt.
LEMMA ManualLabels == SessionInv /\ LabelInv /\ ManualStep => LabelInv'
<1> SUFFICES ASSUME SessionInv, LabelInv, ManualStep PROVE LabelInv'
  OBVIOUS
<1> USE DEF LabelInv
<1>1. /\ Session \in Finalizers /\ Manual \in Finalizers /\ Session # Manual
      /\ StoreInv
      /\ UNCHANGED <<pc, code, deleted, verdict, noted, saved, mode, attempt, current>>
  BY SessionAssumption DEF ManualStep, SessionInv, Frame
<1>2. /\ job'[Session] = job[Session] /\ Faithful'
      /\ \A c : InDataSet(c) => InDataSet(c)'
  <2>1. CASE FinalizerStep(Manual)
    <3>1. job[Manual].capture = Leftover
      BY <1>1, <2>1, FinalizerStepIsOwn DEF SessionInv, Owners
    <3>2. CASE UNCHANGED episodes
      BY <1>1, <2>1, <3>2, FinalizerStepIsOwn, DataSetGrows
         DEF Faithful, Own, Attempts
    <3>3. ASSUME NEW i, DOMAIN episodes' = DOMAIN episodes \union {i},
                 \A j \in DOMAIN episodes : episodes'[j] = episodes[j],
                 episodes'[i].capture = job[Manual].capture
          PROVE  Faithful'
      <4>1. \A j \in DOMAIN episodes' : Own(episodes'[j])
        BY <3>1, <3>3 DEF Faithful, Own
      <4> QED BY <4>1, <1>1 DEF Faithful, Own, Attempts
    <3> QED BY <1>1, <2>1, <3>2, <3>3, FinalizerStepIsOwn, DataSetGrows, StepOfData
  <2>2. CASE \E outcome \in Outcomes : Begin(Manual, Leftover, outcome)
    BY <1>1, <2>2
       DEF Begin, StoreInv, Shape, Faithful, Own, InDataSet, Attempts
  <2>3. CASE KillFinalizer(Manual)
    BY <1>1, <2>3
       DEF KillFinalizer, Killed, StoreInv, Shape, Faithful, Own, InDataSet, Attempts
  <2> QED BY <2>1, <2>2, <2>3 DEF ManualStep
<1>3. InTurn' BY <1>1 DEF InTurn, Attempts
<1>4. Underway' BY <1>1, <1>2 DEF Underway, Attempts
<1>5. Due' = Due /\ \A m : Marked(m)' = Marked(m)
  BY <1>1 DEF Due, Marked, Attempts
<1>6. Counts' BY <1>1, <1>2, <1>5 DEF Counts, Troubled, Attempts
<1> QED BY <1>2, <1>3, <1>4, <1>6

\* A deleted episode counts as kept: it was deleted on purpose.
LEMMA DiscardedLabels ==
  ASSUME SessionInv, LabelInv, NEW i \in DOMAIN episodes, Discarded(i)
  PROVE  LabelInv'
<1> USE DEF LabelInv
<1>1. /\ DOMAIN episodes' = DOMAIN episodes \ {i}
      /\ \A j \in DOMAIN episodes' : episodes'[j] = episodes[j]
      /\ deleted' = deleted \union {episodes[i].capture}
      /\ UNCHANGED <<job, pc, code, verdict, noted, saved, mode, attempt, current>>
  BY DEF Discarded, DeleteEpisode, Restrict
<1>2. \A c : InDataSet(c) => InDataSet(c)'
  <2> SUFFICES ASSUME NEW c, InDataSet(c) PROVE InDataSet(c)'
    OBVIOUS
  <2>1. CASE c \in deleted BY <1>1, <2>1 DEF InDataSet
  <2>2. CASE \E j \in DOMAIN episodes : episodes[j].capture = c
    <3>1. PICK j \in DOMAIN episodes : episodes[j].capture = c BY <2>2
    <3>2. CASE j = i BY <1>1, <3>1, <3>2 DEF InDataSet
    <3>3. CASE j # i BY <1>1, <3>1, <3>3 DEF InDataSet
    <3> QED BY <3>2, <3>3
  <2> QED BY <2>1, <2>2 DEF InDataSet
<1>3. InTurn' BY <1>1 DEF InTurn, Attempts
<1>4. Faithful' BY <1>1 DEF Faithful, Own, Attempts
<1>5. Underway' BY <1>1, <1>2 DEF Underway, Attempts
<1>6. Due' = Due /\ \A m : Marked(m)' = Marked(m)
  BY <1>1 DEF Due, Marked, Attempts
<1>7. Counts' BY <1>1, <1>2, <1>6 DEF Counts, Troubled, Attempts
<1> QED BY <1>3, <1>4, <1>5, <1>7

-----------------------------------------------------------------------------
(* The theorem. *)

\* Each line of the script, by its own lemma or as a quiet one.
LEMMA ScriptLabels == SessionInv /\ LabelInv /\ Scripted => LabelInv'
<1> SUFFICES ASSUME SessionInv, LabelInv, Scripted PROVE LabelInv'
  OBVIOUS
<1>0. mode \in Modes BY DEF LabelInv, InTurn
<1> USE <1>0 DEF Proceed, Exit, ProcessVars, Frame, Saving, InRound, Troubled,
                 Halting, Over
<1>1. CASE Launch BY <1>1, QuietLabels DEF Launch
<1>2. CASE StartRobotStack BY <1>2, QuietLabels DEF StartRobotStack
<1>3. CASE FirstClient BY <1>3, QuietLabels DEF FirstClient, StartClient
<1>4. CASE Servo BY <1>4, QuietLabels DEF Servo, Command
<1>5. CASE RoundEnds BY <1>5, QuietLabels DEF RoundEnds
<1>6. CASE FlushQueue BY <1>6, QuietLabels DEF FlushQueue
<1>7. CASE StopPolicy BY <1>7, QuietLabels DEF StopPolicy
<1>8. CASE AwaitPort BY <1>8, QuietLabels DEF AwaitPort
<1>9. CASE ResetRobot BY <1>9, QuietLabels DEF ResetRobot, Command
<1>10. CASE StartPolicy BY <1>10, QuietLabels DEF StartPolicy, StartServer
<1>11. CASE StartPolicyClient BY <1>11, QuietLabels DEF StartPolicyClient, StartClient
<1>12. CASE PolicyServo BY <1>12, QuietLabels DEF PolicyServo, Command
<1>13. CASE HaltRecorder BY <1>13, QuietLabels DEF HaltRecorder
<1>14. CASE HaltStack BY <1>14, QuietLabels DEF HaltStack
<1>15. CASE HaltPolicy BY <1>15, QuietLabels DEF HaltPolicy
<1> QED
  BY <1>1, <1>2, <1>3, <1>4, <1>5, <1>6, <1>7, <1>8, <1>9, <1>10, <1>11,
     <1>12, <1>13, <1>14, <1>15, StartRecorderLabels, CloseRoundLabels,
     FinalizeRunsLabels, FinalizedLabels, FinalizerFailsLabels,
     HaltDeleteLabels DEF Scripted, Halt

\* Each action of the operator.
LEMMA OperatorLabels == SessionInv /\ LabelInv /\ Operator => LabelInv'
<1> SUFFICES ASSUME SessionInv, LabelInv, Operator PROVE LabelInv'
  OBVIOUS
<1>0. mode \in Modes BY DEF LabelInv, InTurn
<1> USE <1>0 DEF Proceed, Exit, ProcessVars, Frame, Saving, InRound, Troubled,
                 Halting, Over
<1>1. CASE Arm BY <1>1, QuietLabels DEF Arm, Command
<1>2. CASE Move BY <1>2, QuietLabels DEF Move, Command
<1>3. CASE OperatorEnds BY <1>3, QuietLabels DEF OperatorEnds, BestEffort
<1>4. CASE OperatorAborts BY <1>4, QuietLabels DEF OperatorAborts
<1>5. CASE Finish BY <1>5, QuietLabels DEF Finish
<1>6. CASE ResetSameMode BY <1>6, QuietLabels DEF ResetSameMode, Command
<1>7. CASE \E m \in Modes : ChooseMode(m) BY <1>7, QuietLabels DEF ChooseMode
<1>8. CASE PressEnter BY <1>8, QuietLabels DEF PressEnter
<1> QED
  BY <1>1, <1>2, <1>3, <1>4, <1>5, <1>6, <1>7, <1>8, LabelLabels, InterruptLabels
     DEF Operator

\* Each step of the robot and of other processes.
LEMMA EnvironmentLabels == SessionInv /\ LabelInv /\ Environment => LabelInv'
<1> SUFFICES ASSUME SessionInv, LabelInv, Environment PROVE LabelInv'
  OBVIOUS
<1> USE DEF Frame
<1>1. CASE TaskCompletes BY <1>1, StillLabels DEF TaskCompletes
<1>2. CASE MonitorEnds BY <1>2, StillLabels DEF MonitorEnds
<1>3. CASE RobotStops BY <1>3, StillLabels DEF RobotStops
<1>4. CASE ClientDies BY <1>4, StillLabels DEF ClientDies
<1>5. CASE RecorderSticks BY <1>5, StillLabels DEF RecorderSticks
<1>6. CASE SecondLauncher BY <1>6, StillLabels DEF SecondLauncher
<1> QED
  BY <1>1, <1>2, <1>3, <1>4, <1>5, <1>6, RecorderEndsLabels, ManualLabels,
     DiscardedLabels DEF Environment

\* The strengthened invariant holds in every reachable state.
THEOREM LabelInvariant == Spec => []LabelInv
<1>1. SessionInv /\ LabelInv /\ UNCHANGED vars => LabelInv'
  BY StillLabels DEF vars, sessionVars
<1>2. SessionInv /\ LabelInv /\ [Next]_vars => LabelInv'
  BY <1>1, ScriptLabels, OperatorLabels, EnvironmentLabels DEF Next
<1> QED BY <1>2, InitLabels, SessionInvariant, PTL DEF Spec

(* However often processes fail and the operator interrupts: an episode has the
   label the operator gave, and while rounds go on, or when the session ends
   well, every attempt labelled S or F is in the data set, unless it was deleted
   on purpose, and is counted once for its mode. *)
THEOREM OperatorsLabelsAreKept == Spec => []LabelsAreKept
<1>1. LabelInv => LabelsAreKept
  <2> SUFFICES ASSUME LabelInv PROVE LabelsAreKept
    OBVIOUS
  <2>1. \A i \in DOMAIN episodes :
          LET c == episodes[i].capture
          IN c # Leftover => verdict[c] = episodes[i].label
    BY DEF LabelInv, Faithful, Own
  <2>2. ASSUME Settled
        PROVE  /\ \A c \in Attempts : verdict[c] \in Labels => InDataSet(c)
               /\ \A m \in Modes : saved[m] = Cardinality(Marked(m))
    <3>1. ~Troubled /\ Due = {}
      BY <2>2 DEF Settled, Troubled, Halting, Over, Due, Saving
    <3>2. \A m : Marked(m) \ {} = Marked(m) OBVIOUS
    <3> QED BY <3>1, <3>2 DEF LabelInv, Counts
  <2> QED BY <2>1, <2>2 DEF LabelsAreKept, Marked
<1> QED BY <1>1, LabelInvariant, PTL
-----------------------------------------------------------------------------
(* The mode of a round. *)

(* A command of one line has the outcomes of the line.  The fold is a function
   on the subsets of the one index; `G` is its defining equation. *)
LEMMA OneLine ==
  ASSUME NEW line, NEW r, NEW c
  PROVE  CommandOutcomes(<<line>>, r, c)
           = UNION {After(line, o, c) : o \in {[robot |-> r, ok |-> TRUE, bad |-> 0]}}
<1> DEFINE base == {[robot |-> r, ok |-> TRUE, bad |-> 0]}
           G(g) == [s \in SUBSET DOMAIN <<line>> |->
                      IF s = {} THEN base
                      ELSE UNION {After(<<line>>[Max(s)], o, c) : o \in g[s \ {Max(s)}]}]
           iter == CHOOSE g : g = G(g)
<1>1. CommandOutcomes(<<line>>, r, c) = iter[DOMAIN <<line>>]
  BY DEF CommandOutcomes, FoldLeft, MapThenFoldSet
<1>2. DOMAIN <<line>> = {1} OBVIOUS
<1>3. Max({1}) = 1 BY DEF Max
<1>4. \E g : g = G(g)
  <2> DEFINE one == UNION {After(line, o, c) : o \in base}
             h == [s \in SUBSET DOMAIN <<line>> |-> IF s = {} THEN base ELSE one]
  <2> HIDE DEF base
  <2>1. \A s \in SUBSET DOMAIN <<line>> : s = {} \/ s = {1} BY <1>2
  <2>2. h[{}] = base BY DEF h
  <2>3. ASSUME NEW s \in SUBSET DOMAIN <<line>>, s # {}
        PROVE  one = UNION {After(<<line>>[Max(s)], o, c) : o \in h[s \ {Max(s)}]}
    <3> HIDE DEF h
    <3>1. s = {1} BY <2>1, <2>3
    <3>2. Max(s) = 1 BY <3>1, <1>3
    <3>3. s \ {Max(s)} = {} BY <3>1, <3>2
    <3>4. <<line>>[Max(s)] = line BY <3>2
    <3> QED BY <3>3, <3>4, <2>2 DEF one
  <2>4. h = G(h) BY <2>3
  <2> QED BY <2>4
<1>5. iter = G(iter)
  <2> HIDE DEF G
  <2> QED BY <1>4
<1>6. /\ iter[{1}] = UNION {After(<<line>>[1], o, c) : o \in iter[{}]}
      /\ iter[{}] = base
  <2> HIDE DEF iter, base
  <2>1. iter[{}] = base BY <1>5
  <2>2. iter[{1}] = UNION {After(<<line>>[Max({1})], o, c) : o \in iter[{1} \ {Max({1})}]}
    BY <1>5, <1>2
  <2>3. {1} \ {Max({1})} = {} BY <1>3
  <2> QED BY <2>1, <2>2, <2>3, <1>3
<1> QED
  <2> HIDE DEF iter, base
  <2>1. CommandOutcomes(<<line>>, r, c) = UNION {After(line, o, c) : o \in base}
    BY <1>1, <1>2, <1>6
  <2> QED BY <2>1 DEF base

\* Without a client the policy cannot be enabled.
LEMMA NoClientNoPolicy ==
  ASSUME NEW r, NEW o \in CommandOutcomes(EnablePolicy, r, FALSE)
  PROVE  ~o.ok
<1> DEFINE line == CallBool("policy", TRUE)
           start == [robot |-> r, ok |-> TRUE, bad |-> 0]
<1>1. o \in UNION {After(line, x, FALSE) : x \in {start}}
  <2> HIDE DEF line
  <2>1. EnablePolicy = <<line>> BY DEF EnablePolicy, line
  <2> QED BY <2>1, OneLine
<1>2. o \in After(line, start, FALSE)
  <2> HIDE DEF line, start
  <2> QED BY <1>1
<1>3. line.line = "call" /\ line.switch = "policy" /\ start.ok BY DEF CallBool
<1>4. After(line, start, FALSE) = {[start EXCEPT !.ok = FALSE]}
  <2> HIDE DEF line, start
  <2> QED BY <1>3 DEF After, Offered
<1> QED BY <1>2, <1>4

Starting == {"stack", "arm", "client", "policy_client"}
Restarting == {"reset", "policy"}
Serving == {"servo", "loop", "move", "watch", "close", "abnormal", "label", "review",
            "saving", "saving_last", "next", "flush", "policy_servo", "ready"}
Rolled == {"watch", "close", "abnormal", "label", "review"}

\* Nobody but a server of the present mode holds the port when a client starts,
\* and the client talks to no other.
Chain ==
  /\ pc \in Starting => listener \in {mode, None}
  /\ pc \in Restarting => listener = None
  /\ pc \in Serving => client \in {mode, None}

\* The mode that served a round, if it was recorded, is the present one until its
\* label is noted.
Noting ==
  /\ DOMAIN served = Attempts
  /\ pc \in Rolled => served[attempt] \in {mode, None}
  /\ \A c \in Attempts : verdict[c] # None => served[c] \in {noted[c], None}

ModeInv == Chain /\ Noting

\* No server of the session runs at the start.
LEMMA InitMode == Init => ModeInv
BY DEF Init, ModeInv, Chain, Noting, Starting, Restarting, Serving, Rolled

\* The launcher clears the port before it starts its server.
LEMMA LaunchMode == ModeInv /\ Launch => ModeInv'
BY DEF Launch, Proceed, Exit, ModeInv, Chain, Noting, Starting, Restarting,
       Serving, Rolled, Attempts

\* A line that notes nothing and rolls nothing.
LEMMA QuietMode ==
  ASSUME ModeInv, UNCHANGED <<verdict, noted, served>>, Chain',
         pc' \in Rolled => pc \in Rolled /\ UNCHANGED <<attempt, mode>>
  PROVE  ModeInv'
BY DEF ModeInv, Noting, Attempts

\* The server of the client a round begins with has the present mode.
LEMMA MoveMode == SessionInv /\ LabelInv /\ ModeInv /\ Move => ModeInv'
<1> SUFFICES ASSUME SessionInv, LabelInv, ModeInv, Move PROVE ModeInv'
  OBVIOUS
<1>1. /\ pc = "move" /\ pc' \in {"watch", "halt"}
      /\ UNCHANGED <<attempt, mode, client, verdict, noted>>
  BY DEF Move, Command, Proceed, Exit, ProcessVars
<1>2. /\ attempt \in Attempts /\ current = attempt /\ verdict[attempt] = None
      /\ client \in {mode, None} /\ DOMAIN served = Attempts
  BY <1>1 DEF SessionInv, Owners, LabelInv, InTurn, InRound, ModeInv, Chain,
              Serving, Noting
<1>3. CASE pc' = "halt"
  <2>1. served' = served BY <1>3 DEF Move
  <2>2. Chain' BY <1>3 DEF Chain, Starting, Restarting, Serving
  <2> QED BY <1>1, <1>3, <2>1, <2>2, QuietMode DEF Rolled
<1>4. CASE pc' = "watch"
  <2>1. served' = [served EXCEPT ![attempt] =
                     IF recorder = "recording" THEN client ELSE None]
    BY <1>4 DEF Move, Exit
  <2>2. Chain'
    BY <1>1, <1>2, <1>4 DEF Chain, Starting, Restarting, Serving
  <2>3. Noting'
    BY <1>1, <1>2, <1>4, <2>1 DEF ModeInv, Noting, Rolled, Attempts
  <2> QED BY <2>2, <2>3 DEF ModeInv
<1> QED BY <1>1, <1>3, <1>4

\* The mode is noted together with the label, before it can change.
LEMMA LabelMode ==
  ASSUME SessionInv, LabelInv, ModeInv, NEW outcome \in Outcomes, Label(outcome)
  PROVE  ModeInv'
<1>1. /\ pc \in {"label", "review"} /\ pc' \in Saving
      /\ verdict' = [verdict EXCEPT ![current] = outcome]
      /\ noted' = [noted EXCEPT ![current] = mode]
      /\ UNCHANGED <<served, attempt, mode, client, listener>>
  BY DEF Label, Proceed, Saving, ProcessVars
<1>2. /\ current \in Attempts /\ current = attempt
      /\ DOMAIN verdict = Attempts /\ DOMAIN noted = Attempts
  BY <1>1 DEF SessionInv, Owners, LabelInv, InTurn, InRound
<1>3. served[current] \in {mode, None} BY <1>1, <1>2 DEF ModeInv, Noting, Rolled
<1>4. Chain'
  BY <1>1 DEF ModeInv, Chain, Starting, Restarting, Serving, Saving
<1>5. Noting'
  BY <1>1, <1>2, <1>3 DEF ModeInv, Noting, Rolled, Saving, Attempts
<1> QED BY <1>4, <1>5 DEF ModeInv

\* Each line of the script; the mode changes before the port is cleared.
LEMMA ScriptMode == ModeInv /\ Scripted => ModeInv'
<1> SUFFICES ASSUME ModeInv, Scripted PROVE ModeInv'
  OBVIOUS
<1> USE DEF Proceed, Exit, ProcessVars, Frame, Chain, Rolled, Starting, Restarting,
            Serving
<1>0. Chain BY DEF ModeInv
<1>1. CASE StartRobotStack BY <1>0, <1>1, QuietMode DEF StartRobotStack
<1>2. CASE FirstClient BY <1>0, <1>2, QuietMode DEF FirstClient, StartClient, ClientStarted
<1>3. CASE Servo BY <1>0, <1>3, QuietMode DEF Servo, Command
<1>4. CASE StartRecorder BY <1>0, <1>4, QuietMode DEF StartRecorder
<1>5. CASE RoundEnds BY <1>0, <1>5, QuietMode DEF RoundEnds
<1>6. CASE CloseRound BY <1>0, <1>6, QuietMode DEF CloseRound, BestEffort
<1>7. CASE FinalizeRuns BY <1>0, <1>7, QuietMode DEF FinalizeRuns, sessionVars
<1>8. CASE Finalized BY <1>0, <1>8, QuietMode DEF Finalized
<1>9. CASE FinalizerFails BY <1>0, <1>9, QuietMode DEF FinalizerFails
<1>10. CASE FlushQueue BY <1>0, <1>10, QuietMode DEF FlushQueue
<1>11. CASE StopPolicy BY <1>0, <1>11, QuietMode DEF StopPolicy, ClientStopped
<1>12. CASE AwaitPort BY <1>0, <1>12, QuietMode DEF AwaitPort
<1>13. CASE ResetRobot BY <1>0, <1>13, QuietMode DEF ResetRobot, Command
<1>14. CASE StartPolicy BY <1>0, <1>14, QuietMode DEF StartPolicy, StartServer, ServerStarted
<1>15. CASE StartPolicyClient BY <1>0, <1>15, QuietMode DEF StartPolicyClient, StartClient, ClientStarted
<1>16. CASE PolicyServo BY <1>0, <1>16, QuietMode DEF PolicyServo, Command
<1>17. CASE HaltRecorder BY <1>0, <1>17, QuietMode DEF HaltRecorder
<1>18. CASE HaltDelete BY <1>0, <1>18, QuietMode DEF HaltDelete
<1>19. CASE HaltStack BY <1>0, <1>19, QuietMode DEF HaltStack
<1>20. CASE HaltPolicy BY <1>0, <1>20, QuietMode DEF HaltPolicy, ClientStopped
<1> QED
  BY <1>1, <1>2, <1>3, <1>4, <1>5, <1>6, <1>7, <1>8, <1>9, <1>10, <1>11,
     <1>12, <1>13, <1>14, <1>15, <1>16, <1>17, <1>18, <1>19, <1>20,
     LaunchMode DEF Scripted, Halt

\* Each action of the operator; a new mode stops the old client first.
LEMMA OperatorMode == SessionInv /\ LabelInv /\ ModeInv /\ Operator => ModeInv'
<1> SUFFICES ASSUME SessionInv, LabelInv, ModeInv, Operator PROVE ModeInv'
  OBVIOUS
<1> USE DEF Proceed, Exit, ProcessVars, Frame, Chain, Rolled, Starting, Restarting,
            Serving
<1>0. Chain BY DEF ModeInv
<1>1. CASE Arm BY <1>0, <1>1, QuietMode DEF Arm, Command
<1>2. CASE OperatorEnds BY <1>0, <1>2, QuietMode DEF OperatorEnds, BestEffort
<1>3. CASE OperatorAborts BY <1>0, <1>3, QuietMode DEF OperatorAborts
<1>4. CASE Finish BY <1>0, <1>4, QuietMode DEF Finish
<1>5. CASE ResetSameMode BY <1>0, <1>5, QuietMode DEF ResetSameMode, Command
<1>6. CASE \E m \in Modes : ChooseMode(m) BY <1>0, <1>6, QuietMode DEF ChooseMode
<1>7. CASE PressEnter BY <1>0, <1>7, QuietMode DEF PressEnter
<1>8. CASE Interrupt BY <1>0, <1>8, QuietMode DEF Interrupt, Halting
<1> QED
  BY <1>1, <1>2, <1>3, <1>4, <1>5, <1>6, <1>7, <1>8, MoveMode, LabelMode
     DEF Operator

\* A client or a server may disappear, but none changes its mode.
LEMMA EnvironmentMode == ModeInv /\ Environment => ModeInv'
<1> SUFFICES ASSUME ModeInv, Environment PROVE ModeInv'
  OBVIOUS
<1> USE DEF Proceed, Exit, ProcessVars, Frame, Chain, Rolled, Starting, Restarting,
            Serving
<1>0. Chain BY DEF ModeInv
<1>1. CASE TaskCompletes BY <1>0, <1>1, QuietMode DEF TaskCompletes
<1>2. CASE MonitorEnds BY <1>0, <1>2, QuietMode DEF MonitorEnds
<1>3. CASE RobotStops BY <1>0, <1>3, QuietMode DEF RobotStops
<1>4. CASE ClientDies BY <1>0, <1>4, QuietMode DEF ClientDies, ClientStopped
<1>5. CASE RecorderSticks BY <1>0, <1>5, QuietMode DEF RecorderSticks
<1>6. CASE SecondLauncher BY <1>0, <1>6, QuietMode DEF SecondLauncher
<1>7. CASE ManualStep BY <1>0, <1>7, QuietMode DEF ManualStep
<1>8. CASE \E i \in DOMAIN episodes : Discarded(i) BY <1>0, <1>8, QuietMode DEF Discarded
<1>9. CASE RecorderEnds BY <1>0, <1>9, QuietMode DEF RecorderEnds
<1> QED
  BY <1>1, <1>2, <1>3, <1>4, <1>5, <1>6, <1>7, <1>8, <1>9 DEF Environment

\* The strengthened invariant holds in every reachable state.
THEOREM ModeInvariant == Spec => []ModeInv
<1>1. ModeInv /\ UNCHANGED vars => ModeInv'
  BY DEF ModeInv, Chain, Noting, vars, sessionVars, Attempts
<1>2. SessionInv /\ LabelInv /\ ModeInv /\ [Next]_vars => ModeInv'
  BY <1>1, ScriptMode, OperatorMode, EnvironmentMode DEF Next
<1> QED BY <1>2, InitMode, SessionInvariant, LabelInvariant, PTL DEF Spec
=============================================================================
