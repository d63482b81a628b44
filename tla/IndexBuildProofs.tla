--------------------------- MODULE IndexBuildProofs ---------------------------
(***************************************************************************)
(* Proofs about ingest and the manifest, for every corpus, every way of    *)
(* batching it and any number of ingest commands, failed or not.           *)
(***************************************************************************)
EXTENDS IndexBuild, FiniteLemmas

\* The points a collection can hold: each chunk under its own id, at most once,
\* and nothing but chunks of the releases written since it was created.
Sound(collection) ==
    /\ \A p \in collection :
         /\ p.id = p.chunk
         /\ p.release \in since \cap Releases
         /\ p.chunk \in ChunksOf(p.release)
    /\ \A p, q \in collection : p.id = q.id => p = q

\* The first n batches of the release r are in the collection.
Written(n, r) ==
    \A i \in 1..n : \A k \in Batches[r][i] : \E p \in points : p.chunk = k /\ p.release = r

CollectionFacts == points # None => Sound(points)

\* A manifest or a service's copy of one tells the size of its release, or that
\* there was no manifest.
Tells(record) ==
    \/ record.chunk_count = 0
    \/ /\ record.snapshot \in Releases
       /\ record.chunk_count = Cardinality(ChunksOf(record.snapshot))

RecordFacts ==
    /\ manifest \notin {None, Torn} => Tells(manifest)
    /\ service # None => Tells(service)

\* How far the running command has got, and that nothing it wrote is lost.
BuildFacts == build # None =>
    /\ build \in [release : Releases, step : {"drop", "create", "write", "manifest"}, written : Nat]
    /\ build.written <= Len(Batches[build.release])
    /\ build.step \in {"drop", "create"} => build.written = 0
    /\ build.step \in {"write", "manifest"} =>
         Sound(points) /\ Written(build.written, build.release)
    /\ build.step = "manifest" => build.written = Len(Batches[build.release])

Inv == builds \in Nat /\ CollectionFacts /\ RecordFacts /\ BuildFacts

-----------------------------------------------------------------------------

\* The chunks of a release are those of its batches.
LEMMA ChunksOfBatches ==
    ASSUME NEW r \in Releases
    PROVE  /\ Len(Batches[r]) \in Nat
           /\ DOMAIN Batches[r] = 1..Len(Batches[r])
           /\ ChunksOf(r) \subseteq Chunks
           /\ IsFiniteSet(ChunksOf(r))
<1>1. Batches[r] \in Seq(SUBSET Chunks)
    BY IndexBuildAssumption
<1>2. Len(Batches[r]) \in Nat /\ DOMAIN Batches[r] = 1..Len(Batches[r])
    BY <1>1
<1>3. ChunksOf(r) \subseteq Chunks
    BY <1>1, <1>2 DEF ChunksOf
<1> QED
    BY <1>2, <1>3, IndexBuildAssumption, FS_Subset

\* Upserting a batch of a release keeps the collection sound, and adds the
\* batch to what is written.
LEMMA UpsertStep ==
    ASSUME Inv, WriteBatch
    PROVE  /\ Sound(points)'
           /\ Written(build.written, build.release)'
<1> DEFINE r == build.release
           batch == Batches[r][build.written + 1]
           new == PointsOf(r, batch, builds)
           row(k) == [id |-> k, chunk |-> k, release |-> r]
<1>1. /\ build.step = "write" /\ r \in Releases /\ build.written \in Nat
      /\ build.written <= Len(Batches[r]) /\ build.written # Len(Batches[r])
      /\ Sound(points) /\ Written(build.written, r)
      /\ points' = Upsert(points, new) /\ since' = since \cup {r}
    BY DEF Inv, BuildFacts, WriteBatch, At, Done
<1>2. build.written + 1 \in DOMAIN Batches[r] /\ batch \subseteq ChunksOf(r)
    BY <1>1, ChunksOfBatches DEF ChunksOf
<1>3. new = {row(k) : k \in batch}
    BY DEF PointsOf, PointId
<1>r. \A k : row(k).id = k /\ row(k).chunk = k /\ row(k).release = r
    OBVIOUS
<1>w. /\ build' = [build EXCEPT !.written = @ + 1]
      /\ build'.release = r /\ build'.written = build.written + 1
    BY DEF Inv, BuildFacts, WriteBatch, At
<1> HIDE DEF new, batch, r, row
<1>4. \A p \in new : p.id = p.chunk /\ p.release = r /\ p.chunk \in batch
    BY <1>3, <1>r
<1>5. \A k \in batch : \E p \in new : p.chunk = k /\ p.release = r
    BY <1>3, <1>r
<1>6. \A p, q \in new : p.id = q.id => p = q
    BY <1>3, <1>r
<1>7. points' = {p \in points : \A q \in new : q.id # p.id} \cup new
    BY <1>1 DEF Upsert
<1>8. ASSUME NEW p \in points'
      PROVE  /\ p.id = p.chunk
             /\ p.release \in since' \cap Releases
             /\ p.chunk \in ChunksOf(p.release)
    BY <1>1, <1>2, <1>4, <1>7 DEF Sound
<1>9. ASSUME NEW p \in points', NEW q \in points', p.id = q.id
      PROVE  p = q
    BY <1>1, <1>6, <1>7, <1>9 DEF Sound
<1>10. Sound(points)'
    BY <1>8, <1>9 DEF Sound, ChunksOf
<1>11. ASSUME NEW i \in 1..(build.written + 1), NEW k \in Batches[r][i]
       PROVE  \E p \in points' : p.chunk = k /\ p.release = r
  <2>1. CASE k \in batch
      BY <1>5, <1>7, <2>1
  <2>2. CASE k \notin batch
    <3>1. i \in 1..build.written
        BY <1>1, <1>11, <2>2 DEF batch, r
    <3>2. PICK p \in points : p.chunk = k /\ p.release = r
        BY <1>1, <1>11, <3>1 DEF Written
    <3>3. \A q \in new : q.id # p.id
        BY <1>1, <1>4, <2>2, <3>2 DEF Sound
    <3> QED
        BY <1>7, <3>2, <3>3
  <2> QED
      BY <2>1, <2>2
<1> QED
    BY <1>w, <1>10, <1>11 DEF Written

\* The invariant holds at first and in every step: one step per action.
LEMMA InitInv == Init => Inv
  BY DEF Init, Inv, CollectionFacts, RecordFacts, BuildFacts

LEMMA InvStep == Inv /\ [Next]_vars => Inv'
<1> SUFFICES ASSUME Inv, [Next]_vars PROVE Inv'
    OBVIOUS
<1>a. ASSUME UNCHANGED <<points, since>>
      PROVE  /\ Sound(points)' <=> Sound(points)
             /\ \A n, r : Written(n, r)' <=> Written(n, r)
    BY <1>a DEF Sound, Written, ChunksOf
<1>1. CASE Begin
  <2>1. PICK r \in Releases, recreate \in BOOLEAN :
          build' = [release |-> r, step |-> IF recreate THEN "drop" ELSE "create", written |-> 0]
      BY <1>1 DEF Begin
  <2>2. BuildFacts'
      BY <2>1, ChunksOfBatches DEF BuildFacts
  <2>3. UNCHANGED <<points, manifest, service, since>> /\ builds' \in Nat
      BY <1>1 DEF Begin, Inv
  <2> QED
      BY <1>a, <2>2, <2>3 DEF Inv, CollectionFacts, RecordFacts, Tells, ChunksOf
<1>2. CASE Drop
    BY <1>2 DEF Drop, At, Inv, CollectionFacts, RecordFacts, BuildFacts, Tells, ChunksOf
<1>3. CASE Create
  <2>1. Sound(points)'
      BY <1>3 DEF Create, Inv, CollectionFacts, Sound, ChunksOf
  <2>2. build \in [release : Releases, step : {"drop", "create", "write", "manifest"}, written : Nat]
        /\ build.written = 0 /\ build' = [build EXCEPT !.step = "write"]
      BY <1>3 DEF Create, At, Inv, BuildFacts
  <2>3. Written(0, build.release)'
      BY DEF Written
  <2>4. BuildFacts'
      BY <2>1, <2>2, <2>3, ChunksOfBatches DEF BuildFacts, Written
  <2> QED
      BY <1>3, <2>1, <2>4 DEF Create, Inv, CollectionFacts, RecordFacts, Tells, ChunksOf
<1>4. CASE WriteBatch
  <2>1. Sound(points)' /\ Written(build.written, build.release)'
      BY <1>4, UpsertStep
  <2>2. /\ build \in [release : Releases, step : {"drop", "create", "write", "manifest"}, written : Nat]
        /\ build.step = "write" /\ build.written < Len(Batches[build.release])
        /\ build' = [build EXCEPT !.written = @ + 1]
      BY <1>4, ChunksOfBatches DEF WriteBatch, At, Done, Inv, BuildFacts
  <2>3. BuildFacts'
      BY <2>1, <2>2, ChunksOfBatches DEF BuildFacts, Written
  <2> QED
      BY <1>4, <2>1, <2>3 DEF WriteBatch, Inv, CollectionFacts, RecordFacts, Tells, ChunksOf
<1>5. CASE Truncate
    BY <1>5, <1>a DEF Truncate, At, Done, Inv, CollectionFacts, RecordFacts, BuildFacts, Tells, ChunksOf
<1>6. CASE WriteManifest
  <2>1. build.release \in Releases
      BY <1>6 DEF WriteManifest, At, Inv, BuildFacts
  <2>2. Tells(manifest)'
      BY <1>6, <2>1 DEF WriteManifest, Tells, ChunksOf
  <2> QED
      BY <1>6, <1>a, <2>2 DEF WriteManifest, Inv, CollectionFacts, RecordFacts, BuildFacts, Tells, ChunksOf
<1>7. CASE Fail
    BY <1>7, <1>a DEF Fail, Inv, CollectionFacts, RecordFacts, BuildFacts, Tells, ChunksOf
<1>8. CASE Start
  <2>1. Tells(service)' /\ (manifest \notin {None, Torn} => Tells(manifest))'
      BY <1>8, <1>a DEF Start, Inv, RecordFacts, Tells, ChunksOf
  <2>2. CollectionFacts' /\ BuildFacts'
      BY <1>8, <1>a DEF Start, Inv, CollectionFacts, BuildFacts, ChunksOf
  <2> QED
      BY <1>8, <2>1, <2>2 DEF Start, Inv, RecordFacts
<1>9. CASE UNCHANGED vars
    BY <1>9, <1>a DEF vars, Inv, CollectionFacts, RecordFacts, BuildFacts, Tells, ChunksOf
<1> QED
    BY <1>1, <1>2, <1>3, <1>4, <1>5, <1>6, <1>7, <1>8, <1>9 DEF Next

\* The inductive invariant holds of every reachable state.
THEOREM Invariance == Spec => []Inv
  BY InitInv, InvStep, PTL DEF Spec

\* build_index: a manifest is only ever written over a collection that holds
\* every chunk of its release, whatever was there before and whichever earlier
\* commands failed half-way.
THEOREM ManifestsAreEarned == Spec => ManifestIsEarned
<1>1. Inv /\ [Next]_vars =>
        [manifest' \notin {manifest, Torn} =>
            \A k \in ChunksOf(manifest'.snapshot) :
                \E p \in points : p.chunk = k /\ p.release = manifest'.snapshot]_vars
  <2> SUFFICES ASSUME Inv, Next, manifest' \notin {manifest, Torn},
                      NEW k \in ChunksOf(manifest'.snapshot)
               PROVE  \E p \in points : p.chunk = k /\ p.release = manifest'.snapshot
      BY DEF vars
  <2>1. WriteManifest
      BY DEF Next, Begin, Drop, Create, WriteBatch, Truncate, Fail, Start
  <2>2. manifest'.snapshot = build.release
      BY <2>1 DEF WriteManifest
  <2>3. build.release \in Releases /\ Written(Len(Batches[build.release]), build.release)
      BY <2>1 DEF WriteManifest, At, Inv, BuildFacts
  <2>4. PICK i \in 1..Len(Batches[build.release]) : k \in Batches[build.release][i]
      BY <2>2, <2>3, ChunksOfBatches DEF ChunksOf
  <2> QED
      BY <2>2, <2>3, <2>4 DEF Written
<1> QED
    BY <1>1, Invariance, PTL DEF Spec, ManifestIsEarned

\* /health: while only the manifest's own release was written to the collection,
\* a healthy service queries the whole of it and every chunk once.
THEOREM HealthyHoldsRelease == Spec => []HealthyIsWhole
<1>1. Inv => HealthyIsWhole
  <2> SUFFICES ASSUME Inv, Healthy, since = {service.snapshot}
               PROVE  Holds(service.snapshot)
      BY DEF HealthyIsWhole
  <2> DEFINE r == service.snapshot
  <2>1. r \in Releases /\ service.chunk_count = Cardinality(ChunksOf(r))
      BY DEF Inv, RecordFacts, Tells, Healthy
  <2>2. points # None /\ Cardinality(points) = Cardinality(ChunksOf(r))
      BY <2>1 DEF Healthy, Health
  <2>3. Sound(points)
      BY <2>2 DEF Inv, CollectionFacts
  <2>4. \A p \in points : p.release = r /\ p.chunk \in ChunksOf(r) /\ p.id = p.chunk
      BY <2>3 DEF Sound
  <2>5. \A p, q \in points : p.chunk = q.chunk => p = q
      BY <2>3, <2>4 DEF Sound
  <2> DEFINE chunk == [p \in points |-> p.chunk]
  <2>6. chunk \in Injection(points, ChunksOf(r))
      BY <2>4, <2>5 DEF Injection, IsInjective
  <2>7. chunk \in Surjection(points, ChunksOf(r))
    <3>1. IsFiniteSet(ChunksOf(r))
        BY <2>1, ChunksOfBatches
    <3> HIDE DEF chunk, r
    <3> QED
        BY <2>2, <2>6, <3>1, FS_Injection
  <2>8. {p.chunk : p \in points} = ChunksOf(r)
      BY <2>4, <2>7 DEF Surjection
  <2> QED
      BY <2>4, <2>5, <2>8 DEF Holds
<1> QED
    BY <1>1, Invariance, PTL

=============================================================================
