------------------------------- MODULE Parsing -------------------------------
(***************************************************************************)
(* parse_standards() of ingest/parse.py: one pass over the lines of the    *)
(* source text, which attributes numbered entries to the standard that was *)
(* announced last.  Every line read is one step.                           *)
(*                                                                         *)
(* A line is what the regular expressions see in it:                       *)
(*   "header"    STANDARD_HEADER: a standard's number and a title, or None *)
(*               where the title is on the next line                       *)
(*   "appendix"  APPENDIX                                                  *)
(*   "opener"    CLAUSE_OPEN: a path, and the first text of the entry      *)
(*   "noise"     empty, or a bare page number                              *)
(*   "prose"     anything else                                             *)
(* A text is the sequence of the positions of its lines, so that where it  *)
(* came from can be seen; the characters of a line are abstracted to their *)
(* number.  ParsedEntry.order, which nothing reads, is left out.           *)
(***************************************************************************)
EXTENDS Integers, Sequences, FiniteSets, SequencesExt

CONSTANTS
    Standards,   \* standard numbers a header can name
    Titles,      \* titles a header can carry
    Plausible,   \* those _plausible_title accepts
    Paths,       \* clause paths
    Lines,       \* the lines a text is made of
    MaxLines,    \* bound: lines of the text
    None

ASSUME ParsingAssumption ==
    /\ Plausible \subseteq Titles
    /\ None \notin Standards \cup Titles \cup Paths
    /\ MaxLines \in Nat
    /\ \A line \in Lines :
         \/ line.kind = "header" /\ line.standard \in Standards /\ line.title \in Titles \cup {None}
         \/ line.kind = "opener" /\ line.path \in Paths /\ line.size \in Nat \ {0}
         \/ line.kind = "prose" /\ line.size \in Nat \ {0}
         \/ line.kind \in {"appendix", "noise"}

VARIABLES
    text,      \* the lines read so far
    current,   \* number of the standard announced last, or None
    pending,   \* pending_path
    buffer,    \* buffer
    appendix,  \* in_appendix
    entries,   \* entries of all standards: <<number, path>> -> text
    firstName, \* name of every standard found, as its first header gave it
    votes,     \* name_votes: the titles counted for each, in order
    ended      \* the loop is over

parseVars == <<text, current, pending, buffer, appendix, entries, firstName, votes, ended>>

Position == Len(text) + 1

\* len(body): the lines joined by single spaces.
Size(body) == FoldSeq(LAMBDA i, n : text[i].size + n, Len(body) - 1, body)

ParseInit ==
    /\ text = <<>>
    /\ current = None
    /\ pending = None
    /\ buffer = <<>>
    /\ appendix = FALSE
    /\ entries = <<>>
    /\ firstName = <<>>
    /\ votes = [s \in Standards |-> <<>>]
    /\ ended = FALSE

-----------------------------------------------------------------------------

Key == <<current, pending>>

\* Mutant of Longer: the last occurrence of a path replaces the others.
LongerAlways(body, key) == TRUE

\* The table of contents yields a stub for the same path: the longest stays.
Longer(body, key) == key \in DOMAIN entries => Size(body) > Size(entries[key])

\* flush(): the entries once the one that is open is kept.
Flushed ==
    IF current = None \/ pending = None \/ ~Longer(buffer, Key) THEN entries
    ELSE [k \in DOMAIN entries \cup {Key} |-> IF k = Key THEN buffer ELSE entries[k]]

Flush == entries' = Flushed /\ pending' = None /\ buffer' = <<>>

Read(line) ==
    /\ ~ended
    /\ Len(text) < MaxLines
    /\ text' = Append(text, line)

\* A title page, a running page header and a cross-reference at the start of a
\* line all look the same.  A header without a title counts no vote.
Announce(line) ==
    /\ appendix' = FALSE
    /\ current' = line.standard
    /\ firstName' = IF line.standard \in DOMAIN firstName THEN firstName
                    ELSE [s \in DOMAIN firstName \cup {line.standard} |->
                             IF s = line.standard THEN line.title ELSE firstName[s]]
    /\ votes' = IF line.title = None THEN votes
                ELSE [votes EXCEPT ![line.standard] = Append(@, line.title)]

ReadHeader ==
    \E line \in Lines :
        /\ line.kind = "header"
        /\ Read(line)
        /\ Flush
        /\ Announce(line)
        /\ UNCHANGED ended

\* Nothing before the first header is read, and of an appendix nothing but the
\* header or the appendix that follows it.
Skip ==
    \E line \in Lines :
        /\ line.kind # "header"
        /\ current = None \/ (appendix /\ line.kind # "appendix")
        /\ Read(line)
        /\ UNCHANGED <<current, pending, buffer, appendix, entries, firstName, votes, ended>>

ReadAppendix ==
    \E line \in Lines :
        /\ line.kind = "appendix"
        /\ current # None
        /\ Read(line)
        /\ Flush
        /\ appendix' = TRUE
        /\ UNCHANGED <<current, firstName, votes, ended>>

\* Mutant of ReadOpener: in_appendix is not asked.
ReadOpenerAnywhere ==
    \E line \in Lines :
        /\ line.kind = "opener"
        /\ current # None
        /\ Read(line)
        /\ entries' = Flushed
        /\ pending' = line.path
        /\ buffer' = <<Position>>
        /\ UNCHANGED <<current, appendix, firstName, votes, ended>>

ReadOpener ==
    \E line \in Lines :
        /\ line.kind = "opener"
        /\ current # None /\ ~appendix
        /\ Read(line)
        /\ entries' = Flushed
        /\ pending' = line.path
        /\ buffer' = <<Position>>
        /\ UNCHANGED <<current, appendix, firstName, votes, ended>>

\* Text before a standard's first opener, or after a page header, is dropped.
ReadProse ==
    \E line \in Lines :
        /\ line.kind \in {"prose", "noise"}
        /\ current # None /\ ~appendix
        /\ Read(line)
        /\ buffer' = IF line.kind = "prose" /\ pending # None
                     THEN Append(buffer, Position) ELSE buffer
        /\ UNCHANGED <<current, pending, appendix, entries, firstName, votes, ended>>

EndOfText ==
    /\ ~ended
    /\ Flush
    /\ ended' = TRUE
    /\ UNCHANGED <<text, current, appendix, firstName, votes>>

ParseNext == \/ ReadHeader \/ Skip \/ ReadAppendix \/ ReadOpener \/ ReadProse
             \/ EndOfText

ParseSpec == ParseInit /\ [][ParseNext]_parseVars

-----------------------------------------------------------------------------
(* resolve_name and is_well_parsed *)

Votes(s, title) == Cardinality({i \in DOMAIN votes[s] : votes[s][i] = title})

\* Mutant of ResolveName: the first plausible title, whatever the votes.
ResolveNameFirst(s) ==
    LET plausible == {i \in DOMAIN votes[s] : votes[s][i] \in Plausible}
    IN  IF plausible = {} THEN firstName[s]
        ELSE votes[s][CHOOSE i \in plausible : \A j \in plausible : i <= j]

\* most_common: by votes, those seen first before the others; the first of them
\* that is plausible.  None is the fallback "Standard N": the name a standard
\* has whose first header carried no title.
ResolveName(s) ==
    LET plausible == {i \in DOMAIN votes[s] : votes[s][i] \in Plausible}
        best == {i \in plausible :
                   \A j \in plausible : Votes(s, votes[s][i]) >= Votes(s, votes[s][j])}
    IN  IF plausible = {} THEN firstName[s]
        ELSE votes[s][CHOOSE i \in best : \A j \in best : i <= j]

-----------------------------------------------------------------------------
(* Properties *)

\* Standard s is the one whose header was the last up to line i.
Announced(s, i) ==
    \E h \in 1..i :
        /\ text[h].kind = "header" /\ text[h].standard = s
        /\ \A g \in h + 1 .. i : text[g].kind # "header"

\* Line i is not an appendix's: a header comes between it and any appendix before.
InBody(i) ==
    \A h \in 1..i : text[h].kind = "appendix" => \E g \in h..i : text[g].kind = "header"

\* A text opened by `path` and what follows, up to where it ends: nothing in
\* between could end it earlier, and all of it that is prose is there.
OneRun(body, path) ==
    /\ body # <<>>
    /\ text[body[1]].kind = "opener"
    /\ text[body[1]].path = path
    /\ \A i \in DOMAIN body : body[i] \in DOMAIN text
    /\ \A i \in 1..Len(body) - 1 : body[i] < body[i + 1]
    /\ \A j \in body[1] + 1 .. Last(body) :
         /\ text[j].kind \in {"prose", "noise"}
         /\ text[j].kind = "prose" => \E i \in DOMAIN body : body[i] = j

\* "Assignment is positional": what is kept as clause p of standard s is one run
\* of text, opened by p outside of any appendix, with s the standard announced
\* last before it.  No text of another clause, of an appendix or of another
\* standard is in it.
EntryIsOneRun ==
    \A key \in DOMAIN entries :
        /\ OneRun(entries[key], key[2])
        /\ Announced(key[1], entries[key][1])
        /\ InBody(entries[key][1])

\* The characters of lines i to j - 1, their page numbers left out.
RunSize(i, j) ==
    LET lines == {h \in i .. j - 1 : text[h].kind # "noise"}
    IN  SumFunction([h \in lines |-> text[h].size]) + Cardinality(lines) - 1

\* Line i opens a clause of standard s, and line j, or the end of the text, is
\* the first after it that closes it.
ClosedRun(s, i, j) ==
    /\ i < j
    /\ text[i].kind = "opener"
    /\ Announced(s, i)
    /\ InBody(i)
    /\ \A h \in i + 1 .. j - 1 : text[h].kind \in {"prose", "noise"}
    /\ IF j <= Len(text) THEN text[j].kind \in {"header", "appendix", "opener"} ELSE ended

\* "Keeping the longest occurrence discards TOC entries": whatever the order in
\* which stubs, entries and repetitions of a path come, none that was closed is
\* longer than the one kept.
LongestKept ==
    \A s \in Standards, i \in DOMAIN text, j \in 2..Len(text) + 1 : ClosedRun(s, i, j) =>
        LET key == <<s, text[i].path>>
        IN  key \in DOMAIN entries /\ Size(entries[key]) >= RunSize(i, j)

\* resolve_name: "the title the running headers agree on".  A plausible title
\* that more lines gave a standard than any other plausible one is its name,
\* wherever in the text those lines are.
TitleByMajority ==
    \A s \in DOMAIN firstName, t \in Plausible :
        LET Count(u) == Cardinality({i \in DOMAIN text :
                /\ text[i].kind = "header" /\ text[i].standard = s /\ text[i].title = u})
        IN  (\A u \in Plausible \ {t} : Count(t) > Count(u)) /\ Count(t) > 0
                => ResolveName(s) = t

\* "Running headers re-announce the same standard, so they are harmless": a
\* page header of the standard being read interrupts neither the clause that
\* runs over the page nor the appendix.
RunningHeadersHarmless == [][
    \A line \in Lines :
        text' = Append(text, line) /\ line.kind = "header" /\ line.standard = current
            => pending' = pending /\ appendix' = appendix]_parseVars

=============================================================================
