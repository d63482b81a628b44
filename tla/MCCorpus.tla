------------------------------- MODULE MCCorpus -------------------------------
\* Small instances of Corpus for TLC.
EXTENDS Corpus

CONSTANTS murabahah, sale, on_item_2

Header(s, t) == [kind |-> "header", standard |-> s, title |-> t]
Opener(p, n) == [kind |-> "opener", path |-> p, size |-> n]
Prose(n) == [kind |-> "prose", size |-> n]

TwoStandards == {8, 9}
ThreeTitles == {murabahah, sale, on_item_2}
TwoPlausible == {murabahah, sale}
TwoPaths == {1, 2}

\* Opener(1, 1) is a stub of the table of contents: too short to be a clause.
\* The title page of 9 has its title on the next line.
TwelveLines ==
    {Header(8, murabahah), Header(8, sale), Header(8, on_item_2),
     Header(9, None), Header(9, sale),
     Opener(1, 1), Opener(1, 4), Opener(2, 3), Prose(2), Prose(5),
     [kind |-> "appendix"], [kind |-> "noise"]}

SomeSelections == {None, {9}}
===============================================================================
