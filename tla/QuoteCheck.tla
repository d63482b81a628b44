------------------------------ MODULE QuoteCheck ------------------------------
(***************************************************************************)
(* The polarity check of agent/guardrails.py, word by word: what module    *)
(* Guardrails calls a "flipped" quote.  A model quotes a clause: it copies *)
(* a span of it, may leave words out with an ellipsis, and may change a    *)
(* word of legal force inside what it copied.                              *)
(*                                                                         *)
(* difflib.SequenceMatcher is modelled by what it is documented to find:   *)
(* the longest match, of those the first in the quote, of those the first  *)
(* in the clause, and then the same to its left and to its right.          *)
(***************************************************************************)
EXTENDS Integers, Sequences, FiniteSetsExt, SequencesExt

CONSTANTS
    Words,    \* the words of clauses
    Polarity, \* _POLARITY, those that carry legal force
    Slack,    \* slack: words compared on either side of the anchor
    MaxWords, \* bound: words of a clause
    NoWord

ASSUME QuoteAssumption ==
    /\ Polarity \subseteq Words
    /\ Slack \in Nat
    /\ MaxWords \in Nat \ {0}
    /\ NoWord \notin Words

VARIABLES
    clause, \* the words of the clause
    quote,  \* the fragments of the quote, each a sequence of words
    edited, \* history: the fragment that was edited, or 0
    new     \* history: the word of force the edit put in, or NoWord

quoteVars == <<clause, quote, edited, new>>

-----------------------------------------------------------------------------
(* difflib *)

\* A stretch is the words q[i1 + 1 .. i2] of a quote beside c[j1 + 1 .. j2] of a
\* clause.  At first it is all of both.
Whole(q, c) == [i1 |-> 0, i2 |-> Len(q), j1 |-> 0, j2 |-> Len(c)]

Matches(q, c, s) ==
    {m \in [a : s.i1 .. s.i2, b : s.j1 .. s.j2, size : 0 .. s.i2 - s.i1] :
        /\ m.a + m.size <= s.i2 /\ m.b + m.size <= s.j2
        /\ \A n \in 1..m.size : q[m.a + n] = c[m.b + n]}

\* find_longest_match
LongestMatch(q, c, s) ==
    CHOOSE m \in Matches(q, c, s) : \A o \in Matches(q, c, s) :
        \/ m.size > o.size
        \/ m.size = o.size /\ (m.a < o.a \/ (m.a = o.a /\ m.b <= o.b))

\* What is left of a stretch on either side of its longest match.
Halves(q, c, s) ==
    LET m == LongestMatch(q, c, s)
    IN  IF m.size = 0 THEN {s}
        ELSE {[s EXCEPT !.i2 = m.a, !.j2 = m.b],
              [s EXCEPT !.i1 = m.a + m.size, !.j1 = m.b + m.size]}

\* A match takes a word of the quote at least: after as many rounds as it has
\* words, no stretch has one.
Stretches(q, c) ==
    FoldLeft(LAMBDA all, word : UNION {Halves(q, c, s) : s \in all}, {Whole(q, c)}, q)

\* get_opcodes, without the equal ones: words of the quote for words of the clause.
Edits(q, c) == {s \in Stretches(q, c) : s.i1 < s.i2 \/ s.j1 < s.j2}

-----------------------------------------------------------------------------
(* The check *)

\* Mutant of AlignedWindow: the slack is given at the front only.
AlignedWindowFront(q, c) ==
    LET m == LongestMatch(q, c, Whole(q, c))
        start == Max({0, m.b - m.a - Slack})
    IN  IF Len(q) >= Len(c) \/ m.size = 0 THEN c
        ELSE SubSeq(c, start + 1, Min({Len(c), start + Len(q)}))

\* _aligned_window: the span the quote most plausibly came from.
AlignedWindow(q, c) ==
    LET m == LongestMatch(q, c, Whole(q, c))
        start == Max({0, m.b - m.a - Slack})
    IN  IF Len(q) >= Len(c) \/ m.size = 0 THEN c
        ELSE SubSeq(c, start + 1, Min({Len(c), start + Len(q) + 2 * Slack}))

\* Mutant of AroundTheSpan: the first and the last insertion are let off
\* wherever they are.
AroundTheSpanAnywhere(edit, q) == edit.i1 = edit.i2

\* Words of the clause before or after the span the quote covers.
AroundTheSpan(edit, q) == edit.i1 = edit.i2 /\ edit.i1 \in {0, Len(q)}

\* polarity_mismatch: an edit inside the span touches a word of force.
PolarityMismatch(q, c) ==
    LET w == AlignedWindow(q, c)
    IN  \E edit \in Edits(q, w) :
            /\ ~AroundTheSpan(edit, q)
            /\ \/ \E i \in edit.i1 + 1 .. edit.i2 : q[i] \in Polarity
               \/ \E j \in edit.j1 + 1 .. edit.j2 : w[j] \in Polarity

\* verify_citations: each elided fragment is checked on its own terms.
Reported == \E n \in DOMAIN quote : quote[n] # <<>> /\ PolarityMismatch(quote[n], clause)

-----------------------------------------------------------------------------
(* What the model quotes *)

Span(c, i, j) == SubSeq(c, i, j)

IsSpan(q, c) == \E i \in 1 .. Len(c) - Len(q) + 1 : Span(c, i, i + Len(q) - 1) = q

QuoteInit ==
    /\ clause \in BoundedSeq(Words, MaxWords) \ {<<>>}
    /\ \E i \in DOMAIN clause : \E j \in i .. Len(clause) : quote = <<Span(clause, i, j)>>
    /\ edited = 0
    /\ new = NoWord

\* Words inside the quote are left out, and an ellipsis says so.
Elide ==
    /\ edited = 0 /\ Len(quote) = 1
    /\ \E i \in 1 .. Len(quote[1]) - 2 : \E j \in i + 2 .. Len(quote[1]) :
         quote' = <<Span(quote[1], 1, i), Span(quote[1], j, Len(quote[1]))>>
    /\ UNCHANGED <<clause, edited, new>>

\* What fragment q becomes with `word` for its words between i and j.
Reworded(q, i, word, j) ==
    Span(q, 1, i) \o (IF word = NoWord THEN <<>> ELSE <<word>>) \o Span(q, j, Len(q))

\* A word of force is introduced, dropped or swapped inside a fragment.
Edit ==
    /\ edited = 0
    /\ \E n \in DOMAIN quote, word \in Polarity \cup {NoWord} :
        \E i \in 1 .. Len(quote[n]) - 1 : \E j \in i + 1 .. Min({i + 2, Len(quote[n])}) :
         /\ j = i + 1 => word # NoWord
         /\ j = i + 2 => quote[n][i + 1] \in Polarity \ {word}
         /\ quote' = [quote EXCEPT ![n] = Reworded(@, i, word, j)]
         /\ edited' = n
         /\ new' = word
    /\ UNCHANGED clause

QuoteNext == Elide \/ Edit

QuoteSpec == QuoteInit /\ [][QuoteNext]_quoteVars

-----------------------------------------------------------------------------
(* Properties *)

\* "Reporting a polarity change where the quote is verbatim" (_aligned_window) is
\* what the window is there to avoid: whichever words of the clause recur, a
\* quote that copies it, elided or not, is never reported.
VerbatimAccepted == edited = 0 => ~Reported

Distinct(s) == \A i, j \in DOMAIN s : s[i] = s[j] => i = j

\* "If one of these is introduced, dropped or swapped inside the span a quote
\* claims to reproduce" (_POLARITY), the quote is reported, where no word of the
\* clause recurs and the word put in is none of them.
ForceChangeReported ==
    edited # 0 /\ Distinct(clause) /\ new \notin ToSet(clause) => Reported

\* "Name a legal-force token the quote changes, or None if polarity holds": the
\* same when the word put in stands somewhere else in the clause.
EveryForceChangeReported ==
    edited # 0 /\ Distinct(clause) /\ ~IsSpan(quote[edited], clause) => Reported

=============================================================================
