------------------------------- MODULE Chunking -------------------------------
(***************************************************************************)
(* _split_long() of ingest/chunk.py: a clause too long for one embedding   *)
(* is cut at sentence boundaries, and each part opens with the tail of the *)
(* one before it.  A sentence is the sequence of its characters; a         *)
(* character is where it stands, so that a part can be traced to the text. *)
(***************************************************************************)
EXTENDS Integers, Sequences, FiniteSets, SequencesExt

CONSTANTS
    MaxChunk,  \* MAX_CHUNK_CHARS
    Overlap    \* OVERLAP_CHARS

ASSUME ChunkingAssumption == MaxChunk \in Nat /\ Overlap \in 1..MaxChunk

Space == <<0, 0>>

\* f"{current} {sentence}".strip()
Joined(current, sentence) ==
    IF current = <<>> THEN sentence ELSE current \o <<Space>> \o sentence

\* The sentences of a text, put back together: runs of spaces were collapsed.
Text(sentences) == FoldLeft(Joined, <<>>, sentences)

\* current[-OVERLAP_CHARS:].strip(): a text has single spaces, and ends in none.
CarriedTail(current) ==
    LET tail == SubSeq(current, Len(current) - Overlap + 1, Len(current))
    IN  IF Len(current) <= Overlap THEN current
        ELSE IF Head(tail) = Space THEN Tail(tail) ELSE tail

\* Mutant of Overflows: the space between the two is not counted.
OverflowsLate(current, sentence) ==
    current # <<>> /\ Len(current) + Len(sentence) > MaxChunk

Overflows(current, sentence) ==
    current # <<>> /\ Len(current) + Len(sentence) + 1 > MaxChunk

\* One turn of the loop.
Take(state, sentence) ==
    IF Overflows(state.current, sentence)
    THEN [parts   |-> Append(state.parts, state.current),
          current |-> CarriedTail(state.current) \o <<Space>> \o sentence]
    ELSE [state EXCEPT !.current = Joined(@, sentence)]

\* Mutant of SplitLong: what the loop leaves in `current` is not appended.
SplitLongTruncated(sentences) ==
    IF Len(Text(sentences)) <= MaxChunk THEN <<Text(sentences)>>
    ELSE FoldLeft(Take, [parts |-> <<>>, current |-> <<>>], sentences).parts

SplitLong(sentences) ==
    IF Len(Text(sentences)) <= MaxChunk THEN <<Text(sentences)>>
    ELSE LET end == FoldLeft(Take, [parts |-> <<>>, current |-> <<>>], sentences)
         IN  Append(end.parts, end.current)

=============================================================================
