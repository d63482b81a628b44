-------------------------------- MODULE Corpus --------------------------------
(***************************************************************************)
(* The sharia-ingest command up to the index: main() of ingest/cli.py      *)
(* parses the source (Parsing), keeps the standards that parsed well, and  *)
(* turns each clause of theirs into one chunk or several (Chunking).       *)
(***************************************************************************)
EXTENDS Parsing, Chunking

CONSTANTS
    Selections,     \* values of --standards; None when it is omitted
    MinClauseChars, \* MIN_CLAUSE_CHARS
    MinClauses      \* MIN_CLAUSES_FOR_INDEXING

ASSUME CorpusAssumption ==
    /\ Standards \subseteq Nat /\ Paths \subseteq Nat
    /\ Selections \subseteq (SUBSET Standards) \cup {None}
    /\ MinClauseChars \in Nat
    /\ MinClauses \in Nat \ {0}
    /\ \A kept \in SUBSET (Standards \X Paths) : kept # None

VARIABLES
    todo,    \* None, or the clauses kept that are still to be chunked
    version, \* corpus_version: the text and the selection it hashes, or None
    clauses  \* the chunks produced so far

corpusVars == <<todo, version, clauses>>
vars == <<parseVars, corpusVars>>

Init == ParseInit /\ todo = None /\ version = None /\ clauses = <<>>

-----------------------------------------------------------------------------
(* What parse_standards returns *)

PathsOf(s) == {path \in Paths : <<s, path>> \in DOMAIN entries}

\* citable_entries: the others are heading context only.
Citable(s) == {path \in PathsOf(s) : Size(entries[<<s, path>>]) >= MinClauseChars}

\* A standard with no entry at all is not returned; an empty list of wanted
\* standards is no selection.
Parsed(wanted) ==
    {s \in DOMAIN firstName : PathsOf(s) # {} /\ (wanted \in {None, {}} \/ s \in wanted)}

\* Mutant of WellParsed: the number of clauses is not looked at.
WellParsedByName(s) == ResolveName(s) # None

\* is_well_parsed: the title was found, and enough clauses were.
WellParsed(s) ==
    /\ ResolveName(s) # None
    /\ Cardinality(Citable(s)) >= MinClauses

\* The sentences of an entry.  A sentence ends where a line of the text does.
Sentences(body) ==
    [i \in DOMAIN body |-> [n \in 1..text[body[i]].size |-> <<body[i], n>>]]

\* Mutant of ChunkId: the parts of a clause share its id.
ChunkIdOfClause(s, path, part, parts) == <<s, path, None>>

\* chunk_id_for: a part number only where there are several.
ChunkId(s, path, part, parts) == <<s, path, IF parts = 1 THEN None ELSE part>>

ChunksOf(s, path) ==
    LET parts == SplitLong(Sentences(entries[<<s, path>>]))
    IN  [i \in DOMAIN parts |->
            [chunk_id |-> ChunkId(s, path, i, Len(parts)),
             standard_no |-> s, clause_path |-> path,
             standard_name |-> ResolveName(s), text |-> parts[i]]]

-----------------------------------------------------------------------------

Parse == ParseNext /\ UNCHANGED corpusVars

\* A hash of the source's bytes and of the standards kept.
CorpusVersionFor(kept) == [source |-> text, standards |-> kept]

Select ==
    /\ ended /\ todo = None
    /\ \E wanted \in Selections :
         LET kept == {s \in Parsed(wanted) : WellParsed(s)}
         IN  /\ todo' = UNION {{s} \X Citable(s) : s \in kept}
             /\ version' = CorpusVersionFor(kept)
    /\ UNCHANGED <<parseVars, clauses>>

\* Standards are chunked by their numbers, the clauses of one by their paths.
Before(key, other) ==
    key[1] < other[1] \/ (key[1] = other[1] /\ key[2] < other[2])

\* One turn of clauses_from_standard.
ChunkClause ==
    /\ todo \notin {None, {}}
    /\ \E key \in todo :
         /\ \A other \in todo \ {key} : Before(key, other)
         /\ clauses' = clauses \o ChunksOf(key[1], key[2])
         /\ todo' = todo \ {key}
    /\ UNCHANGED <<parseVars, version>>

Next == Parse \/ Select \/ ChunkClause

\* The command is one loop after another; the file it reads is finite.
Spec == Init /\ [][Next]_vars

-----------------------------------------------------------------------------
(* Properties *)

KeyOf(c) == <<c.standard_no, c.clause_path>>

\* Where a piece of text occurs in another: the characters before it.
Occurs(piece, whole) ==
    {at \in 0..Len(whole) - Len(piece) : SubSeq(whole, at + 1, at + Len(piece)) = piece}

\* Where the text of a chunk is in the clause it is a part of.
Within(c) == Occurs(c.text, Text(Sentences(entries[KeyOf(c)])))

\* "The parts keep the parent clause path so a citation still resolves to a real
\* clause number": a chunk id names one chunk, that chunk's text is a piece of
\* the clause the id names, and the standards the corpus version was computed
\* from are those that have chunks.
CitationsResolve ==
    /\ \A i, j \in DOMAIN clauses :
         clauses[i].chunk_id = clauses[j].chunk_id => i = j
    /\ \A i \in DOMAIN clauses : LET c == clauses[i] IN
         /\ c.chunk_id[1] = c.standard_no /\ c.chunk_id[2] = c.clause_path
         /\ Within(c) # {}
    /\ todo = {} =>
         version.standards = {clauses[i].standard_no : i \in DOMAIN clauses}

\* "Split on sentence boundaries with overlap": every sentence of a clause that
\* is chunked is whole in one of its parts.  The parts follow one another in the
\* order of the text, and each begins before the one it follows ends, and ends
\* after it.
NothingLostBetweenParts ==
    /\ \A i \in DOMAIN clauses : \A n \in DOMAIN entries[KeyOf(clauses[i])] :
         \E j \in DOMAIN clauses :
            /\ KeyOf(clauses[j]) = KeyOf(clauses[i])
            /\ Occurs(Sentences(entries[KeyOf(clauses[i])])[n], clauses[j].text) # {}
    /\ \A i, j \in DOMAIN clauses : i < j /\ KeyOf(clauses[i]) = KeyOf(clauses[j]) =>
         LET c == clauses[i] next == clauses[i + 1]
         IN  /\ KeyOf(next) = KeyOf(c)
             /\ \E at \in Within(c), from \in Within(next) :
                  /\ at <= from
                  /\ from <= at + Len(c.text)
                  /\ at + Len(c.text) < from + Len(next.text)

\* MAX_CHUNK_CHARS: "beyond this a single vector stops being specific".  A part
\* is longer only where its last sentence leaves no room for the tail before it.
PartsFit ==
    \A i \in DOMAIN clauses :
        LET last == Last(clauses[i].text)[1]
        IN  \/ Len(clauses[i].text) <= MaxChunk
            \/ Len(clauses[i].text) <= Overlap + 1 + text[last].size

=============================================================================
