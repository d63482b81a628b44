------------------------------ MODULE IndexBuild ------------------------------
(***************************************************************************)
(* The index a verdict is attributed to: build_index() of ingest/index.py  *)
(* writes the collection batch by batch and its manifest last, the service *)
(* reads the manifest once at startup, and /health compares the two.       *)
(* A release is a corpus, its selection of standards and the embedding     *)
(* model; compute_index_snapshot() and corpus_version_for() give each its  *)
(* own hash, so a release stands for both.  Vectors are abstracted.        *)
(***************************************************************************)
EXTENDS Naturals, Sequences, FiniteSets

CONSTANTS
    Releases,   \* what is ingested
    Chunks,     \* chunk ids
    Batches,    \* Batches[r]: the chunks of release r, in the batches written
    MaxBuilds,  \* bound: runs of the ingest command
    None,       \* no collection, no manifest, no build, no service
    Torn        \* a manifest file that was truncated and not written

ASSUME IndexBuildAssumption ==
    /\ IsFiniteSet(Chunks)
    /\ Batches \in [Releases -> Seq(SUBSET Chunks)]
    /\ \A r \in Releases : Len(Batches[r]) > 0
    /\ MaxBuilds \in Nat

VARIABLES
    points,    \* the collection: its points, or None
    build,     \* the running ingest command, or None
    manifest,  \* corpus/manifest.json: None, Torn or a manifest
    service,   \* app.state.manifest of the running service, or None
    builds,    \* history: ingest commands started
    since      \* history: releases written since the collection was created

vars == <<points, build, manifest, service, builds, since>>

ChunksOf(r) == UNION {Batches[r][i] : i \in DOMAIN Batches[r]}

\* Mutant of PointId: a fresh id for every upsert.
PointIdFresh(chunk, run) == <<chunk, run>>

\* Derived from the chunk id alone.
PointId(chunk, run) == chunk

PointsOf(r, batch, run) ==
    {[id |-> PointId(k, run), chunk |-> k, release |-> r] : k \in batch}

\* upsert: a point replaces the one with its id.
Upsert(old, new) == {p \in old : \A q \in new : q.id # p.id} \cup new

Init ==
    /\ points = None
    /\ build = None
    /\ manifest = None
    /\ service = None
    /\ builds = 0
    /\ since = {}

-----------------------------------------------------------------------------
(* The ingest command; one runs at a time *)

\* The first batch is embedded before the collection is touched.
Begin ==
    /\ build = None
    /\ builds < MaxBuilds
    /\ builds' = builds + 1
    /\ \E r \in Releases, recreate \in BOOLEAN :
         build' = [release |-> r, step |-> IF recreate THEN "drop" ELSE "create", written |-> 0]
    /\ UNCHANGED <<points, manifest, service, since>>

At(step) == build # None /\ build.step = step

\* ensure_collection
Drop ==
    /\ At("drop")
    /\ points' = None
    /\ since' = {}
    /\ build' = [build EXCEPT !.step = "create"]
    /\ UNCHANGED <<manifest, service, builds>>

Create ==
    /\ At("create")
    /\ points' = IF points = None THEN {} ELSE points
    /\ build' = [build EXCEPT !.step = "write"]
    /\ UNCHANGED <<manifest, service, builds, since>>

\* Mutant of Done: `range(batch, len(clauses) - batch, batch)`.
DoneEarly(written, r) == written >= Len(Batches[r]) - 1 /\ written > 0

Done(written, r) == written = Len(Batches[r])

WriteBatch ==
    /\ At("write")
    /\ ~Done(build.written, build.release)
    /\ points' = Upsert(points,
         PointsOf(build.release, Batches[build.release][build.written + 1], builds))
    /\ since' = since \cup {build.release}
    /\ build' = [build EXCEPT !.written = @ + 1]
    /\ UNCHANGED <<manifest, service, builds>>

\* write_text: the file is truncated, then written.
Truncate ==
    /\ At("write")
    /\ Done(build.written, build.release)
    /\ manifest' = Torn
    /\ build' = [build EXCEPT !.step = "manifest"]
    /\ UNCHANGED <<points, service, builds, since>>

WriteManifest ==
    /\ At("manifest")
    /\ manifest' = [snapshot    |-> build.release,
                    chunk_count |-> Cardinality(ChunksOf(build.release))]
    /\ build' = None
    /\ UNCHANGED <<points, service, builds, since>>

\* A provider or the store fails, or the command is killed: what was written stays.
Fail ==
    /\ build # None
    /\ build' = None
    /\ UNCHANGED <<points, manifest, service, builds, since>>

-----------------------------------------------------------------------------
(* The service *)

\* lifespan: no manifest is an empty one; one that does not parse is fatal.
Start ==
    /\ manifest # Torn
    /\ service' = IF manifest = None THEN [snapshot |-> "unknown", chunk_count |-> 0]
                  ELSE manifest
    /\ UNCHANGED <<points, build, manifest, builds, since>>

\* Mutant of Health: a collection with points in it is enough.
HealthNonEmpty ==
    CASE points = None -> "error"
      [] points = {} -> "empty"
      [] OTHER -> "ok"

\* The vector store's line of /health.
Health ==
    CASE points = None -> "error"
      [] points = {} -> "empty"
      [] /\ points \notin {None, {}}
         /\ service.chunk_count # 0
         /\ Cardinality(points) # service.chunk_count -> "manifest_mismatch"
      [] OTHER -> "ok"

Next == \/ Begin \/ Drop \/ Create \/ WriteBatch \/ Truncate \/ WriteManifest
        \/ Fail \/ Start

Spec == Init /\ [][Next]_vars

-----------------------------------------------------------------------------
(* Properties *)

\* The collection holds the release r, all of it and nothing else, once.
Holds(r) ==
    /\ {p.chunk : p \in points} = ChunksOf(r)
    /\ \A p \in points : p.release = r
    /\ \A p, q \in points : p.chunk = q.chunk => p = q

Healthy == service # None /\ service.chunk_count # 0 /\ Health = "ok"

\* index.py: the manifest is what makes verdicts replayable.  It is written
\* only when every chunk of its release is in the collection, whatever was
\* there before and whichever earlier commands failed half-way.
ManifestIsEarned == [][
    manifest' \notin {manifest, Torn} =>
        \A k \in ChunksOf(manifest'.snapshot) :
            \E p \in points : p.chunk = k /\ p.release = manifest'.snapshot]_vars

\* /health and the deterministic point ids together: as long as the collection
\* was written from the manifest's own release only, a healthy service queries
\* the whole release, and every chunk once, after any failures and re-runs.
HealthyIsWhole ==
    Healthy /\ since = {service.snapshot} => Holds(service.snapshot)

=============================================================================
