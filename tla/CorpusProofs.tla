----------------------------- MODULE CorpusProofs -----------------------------
(***************************************************************************)
(* Proofs about the parsing and the chunking of the corpus, for every      *)
(* text, every set of standards, every number of lines and every size.     *)
(***************************************************************************)
EXTENDS Corpus, FiniteLemmas, SequenceTheorems, TLAPS

\* What the loop knows of the entry it is inside of: all the lines since its
\* opener belong to it, and the standard announced last is the current one.
OpenRun ==
    pending # None =>
        /\ current # None /\ ~appendix
        /\ OneRun(buffer, pending)
        /\ Announced(current, buffer[1])
        /\ InBody(buffer[1])
        /\ \A j \in buffer[1] + 1 .. Len(text) :
             /\ text[j].kind \in {"prose", "noise"}
             /\ text[j].kind = "prose" => \E i \in DOMAIN buffer : buffer[i] = j

CurrentIsAnnounced == current # None => Announced(current, Len(text))

\* Where entries are read, the text is no appendix's.
BodyIsRead == current # None /\ ~appendix => InBody(Len(text))

\* The inductive invariant.
ParseInv ==
    /\ text \in Seq(Lines)
    /\ buffer \in Seq(Nat)
    /\ OpenRun
    /\ CurrentIsAnnounced
    /\ BodyIsRead
    /\ \A key \in DOMAIN entries : entries[key] \in Seq(Nat)
    /\ EntryIsOneRun

-----------------------------------------------------------------------------

\* What is known of lines already read stays so when another one is.
LEMMA ReadingKeeps ==
  ASSUME NEW line \in Lines, text \in Seq(Lines), text' = Append(text, line)
  PROVE  /\ Len(text') = Len(text) + 1
         /\ \A i \in 1..Len(text) : text'[i] = text[i]
         /\ text'[Len(text) + 1] = line
         /\ text' \in Seq(Lines)
         /\ Position = Len(text) + 1
  BY DEF Position

\* The standard announced before a line is not changed by the lines after it.
LEMMA AnnouncedStays ==
  ASSUME NEW line \in Lines, text \in Seq(Lines), text' = Append(text, line),
         NEW s, NEW i \in 0..Len(text), Announced(s, i)
  PROVE  Announced(s, i)'
<1>1. PICK h \in 1..i : /\ text[h].kind = "header" /\ text[h].standard = s
                        /\ \A g \in h + 1 .. i : text[g].kind # "header"
    BY DEF Announced
<1>2. \A g \in 1..i : text'[g] = text[g]
    BY ReadingKeeps
<1>3. \A g \in h + 1 .. i : g \in 1..i
    OBVIOUS
<1> QED
    BY <1>1, <1>2, <1>3 DEF Announced

\* So is what is in the body of a standard.
LEMMA InBodyStays ==
  ASSUME NEW line \in Lines, text \in Seq(Lines), text' = Append(text, line),
         NEW i \in 0..Len(text), InBody(i)
  PROVE  InBody(i)'
<1>1. \A g \in 1..i : text'[g] = text[g]
    BY ReadingKeeps
<1>2. \A h \in 1..i : \A g \in h..i : g \in 1..i
    OBVIOUS
<1> QED
    BY <1>1, <1>2 DEF InBody

\* Only an appendix leaves the body.
LEMMA InBodyGoesOn ==
  ASSUME NEW line \in Lines, text \in Seq(Lines), text' = Append(text, line),
         line.kind # "appendix", line.kind = "header" \/ InBody(Len(text))
  PROVE  InBody(Len(text))'
<1>1. Len(text) \in Nat /\ Len(text') = Len(text) + 1 /\ text'[Len(text) + 1] = line
    BY ReadingKeeps
<1>2. SUFFICES ASSUME NEW h \in 1..Len(text) + 1, text'[h].kind = "appendix"
               PROVE  \E g \in h..Len(text) + 1 : text'[g].kind = "header"
    BY <1>1 DEF InBody
<1>3. CASE line.kind = "header"
    BY <1>1, <1>3
<1>4. CASE InBody(Len(text))
  <2>1. h \in 1..Len(text) /\ text[h].kind = "appendix"
      BY <1>1, <1>2, ReadingKeeps
  <2>2. PICK g \in h..Len(text) : text[g].kind = "header"
      BY <1>4, <2>1 DEF InBody
  <2>3. g \in h..Len(text) + 1 /\ text'[g] = text[g]
      BY <1>1, <2>1, <2>2, ReadingKeeps
  <2> QED
      BY <2>2, <2>3
<1> QED
    BY <1>3, <1>4

\* A run of text stays one.
LEMMA OneRunStays ==
  ASSUME NEW line \in Lines, text \in Seq(Lines), text' = Append(text, line),
         NEW body \in Seq(Nat), NEW path, OneRun(body, path)
  PROVE  OneRun(body, path)'
<1>1. \A i \in 1..Len(text) : text'[i] = text[i]
    BY ReadingKeeps
<1>2. DOMAIN text = 1..Len(text) /\ DOMAIN text' = 1..(Len(text) + 1) /\ DOMAIN body = 1..Len(body)
    BY ReadingKeeps
<1>3. body # <<>> /\ Len(body) \in Nat \ {0}
    BY DEF OneRun
<1>4. Last(body) = body[Len(body)] /\ body[Len(body)] \in 1..Len(text) /\ body[1] \in 1..Len(text)
    BY <1>2, <1>3 DEF OneRun, Last
<1>5. \A j \in body[1] + 1 .. Last(body) : j \in 1..Len(text)
    BY <1>4
<1> QED
    BY <1>1, <1>2, <1>3, <1>4, <1>5 DEF OneRun

\* flush() keeps runs of text only, under the standard that was announced.
LEMMA FlushedIsOneRun ==
  ASSUME ParseInv
  PROVE  \A key \in DOMAIN Flushed :
           /\ Flushed[key] \in Seq(Nat)
           /\ OneRun(Flushed[key], key[2])
           /\ Announced(key[1], Flushed[key][1])
           /\ InBody(Flushed[key][1])
<1>1. CASE Flushed = entries
    BY <1>1 DEF ParseInv, EntryIsOneRun
<1>2. CASE /\ pending # None
           /\ Flushed = [k \in DOMAIN entries \cup {Key} |-> IF k = Key THEN buffer ELSE entries[k]]
  <2>1. Key[1] = current /\ Key[2] = pending
      BY DEF Key
  <2>2. /\ buffer \in Seq(Nat) /\ OneRun(buffer, pending)
        /\ Announced(current, buffer[1]) /\ InBody(buffer[1])
      BY <1>2 DEF ParseInv, OpenRun
  <2> QED
      BY <1>2, <2>1, <2>2 DEF ParseInv, EntryIsOneRun
<1> QED
    BY <1>1, <1>2 DEF Flushed

\* Whatever line is read, what was kept stays what it was.
LEMMA EntriesStay ==
  ASSUME ParseInv, NEW line \in Lines, text' = Append(text, line),
         entries' = entries \/ entries' = Flushed
  PROVE  EntryIsOneRun' /\ \A key \in DOMAIN entries' : entries'[key] \in Seq(Nat)
<1>1. \A key \in DOMAIN entries' :
        /\ entries'[key] \in Seq(Nat)
        /\ OneRun(entries'[key], key[2])
        /\ Announced(key[1], entries'[key][1])
        /\ InBody(entries'[key][1])
    BY FlushedIsOneRun DEF ParseInv, EntryIsOneRun
<1>2. ASSUME NEW key \in DOMAIN entries'
      PROVE  (/\ OneRun(entries[key], key[2])
              /\ Announced(key[1], entries[key][1])
              /\ InBody(entries[key][1]))'
  <2>1. PICK body : body = entries'[key]
      OBVIOUS
  <2>2. /\ body \in Seq(Nat) /\ OneRun(body, key[2])
        /\ Announced(key[1], body[1]) /\ InBody(body[1])
      BY <1>1, <1>2, <2>1
  <2>3. 1 \in DOMAIN body
      BY <2>2 DEF OneRun
  <2>4. text \in Seq(Lines) /\ body[1] \in 0..Len(text)
      BY <2>2, <2>3 DEF OneRun, ParseInv
  <2>5. OneRun(body, key[2])'
      BY <2>2, <2>4, OneRunStays
  <2>6. Announced(key[1], body[1])'
      BY <2>2, <2>4, AnnouncedStays
  <2>7. OneRun(entries[key], key[2])'
      BY <2>1, <2>5 DEF OneRun, Last
  <2>8. Announced(key[1], entries[key][1])'
      BY <2>1, <2>6 DEF Announced
  <2>9. InBody(body[1])'
      BY <2>2, <2>4, InBodyStays
  <2>10. InBody(entries[key][1])'
      BY <2>1, <2>9 DEF InBody
  <2> QED
      BY <2>7, <2>8, <2>10
<1> QED
    BY <1>1, <1>2 DEF EntryIsOneRun

\* A line that is no header does not change which standard is announced.
LEMMA AnnouncedGoesOn ==
  ASSUME NEW line \in Lines, text \in Seq(Lines), text' = Append(text, line),
         line.kind # "header", NEW s, Announced(s, Len(text))
  PROVE  Announced(s, Len(text))'
<1>1. PICK h \in 1..Len(text) :
        /\ text[h].kind = "header" /\ text[h].standard = s
        /\ \A g \in h + 1 .. Len(text) : text[g].kind # "header"
    BY DEF Announced
<1>2. /\ \A i \in 1..Len(text) : text'[i] = text[i]
      /\ text'[Len(text) + 1] = line
    BY ReadingKeeps
<1>3. \A g \in h + 1 .. Len(text) + 1 :
        g = Len(text) + 1 \/ (g \in h + 1 .. Len(text) /\ g \in 1..Len(text))
    OBVIOUS
<1>4. h \in 1..Len(text) + 1
    OBVIOUS
<1> QED
    BY <1>1, <1>2, <1>3, <1>4, ReadingKeeps DEF Announced

\* The same of a header: the standard it names is announced.
LEMMA AnnouncedByHeader ==
  ASSUME NEW line \in Lines, text \in Seq(Lines), text' = Append(text, line),
         line.kind = "header"
  PROVE  Announced(line.standard, Len(text))'
  BY ReadingKeeps DEF Announced

-----------------------------------------------------------------------------

\* At first there is no text and no entry.
LEMMA InitParse == ParseInit => ParseInv
  BY DEF ParseInit, ParseInv, OpenRun, CurrentIsAnnounced, BodyIsRead, EntryIsOneRun

\* Every line read keeps the invariant: one step per kind of line.
LEMMA ParseStep == ParseInv /\ [ParseNext]_parseVars => ParseInv'
<1> SUFFICES ASSUME ParseInv, [ParseNext]_parseVars PROVE ParseInv'
    OBVIOUS
<1>1. ASSUME ReadHeader PROVE ParseInv'
  <2>1. PICK line \in Lines : /\ line.kind = "header" /\ Read(line) /\ Flush /\ Announce(line)
      BY <1>1 DEF ReadHeader
  <2>2. text \in Seq(Lines) /\ text' = Append(text, line) /\ entries' = Flushed
      BY <2>1 DEF Read, Flush, ParseInv
  <2>3. EntryIsOneRun' /\ \A key \in DOMAIN entries' : entries'[key] \in Seq(Nat)
      BY <2>2, EntriesStay
  <2>4. Announced(line.standard, Len(text))'
      BY <2>1, <2>2, AnnouncedByHeader
  <2>5. CurrentIsAnnounced'
      BY <2>1, <2>4 DEF Announce, CurrentIsAnnounced, Announced
  <2>6. BodyIsRead'
      BY <2>1, <2>2, InBodyGoesOn DEF BodyIsRead
  <2> QED
      BY <2>1, <2>2, <2>3, <2>5, <2>6 DEF ParseInv, OpenRun, Flush
<1>2. ASSUME Skip PROVE ParseInv'
  <2>1. PICK line \in Lines : /\ line.kind # "header" /\ Read(line)
                              /\ current = None \/ appendix
                              /\ UNCHANGED <<current, pending, buffer, appendix, entries>>
      BY <1>2 DEF Skip
  <2>2. text \in Seq(Lines) /\ text' = Append(text, line)
      BY <2>1 DEF Read, ParseInv
  <2>3. EntryIsOneRun' /\ \A key \in DOMAIN entries' : entries'[key] \in Seq(Nat)
      BY <2>1, <2>2, EntriesStay
  <2>4. CurrentIsAnnounced'
    <3>1. \A s : Announced(s, Len(text)) => Announced(s, Len(text))'
        BY <2>1, <2>2, AnnouncedGoesOn
    <3>2. PICK s : s = current
        OBVIOUS
    <3> QED
        BY <2>1, <3>1, <3>2 DEF ParseInv, CurrentIsAnnounced, Announced
  <2> QED
      BY <2>1, <2>2, <2>3, <2>4 DEF ParseInv, OpenRun, BodyIsRead
<1>3. ASSUME ReadAppendix PROVE ParseInv'
  <2>1. PICK line \in Lines : /\ line.kind = "appendix" /\ Read(line) /\ Flush
                              /\ appendix' = TRUE /\ UNCHANGED current
      BY <1>3 DEF ReadAppendix
  <2>2. text \in Seq(Lines) /\ text' = Append(text, line) /\ entries' = Flushed
      BY <2>1 DEF Read, Flush, ParseInv
  <2>3. EntryIsOneRun' /\ \A key \in DOMAIN entries' : entries'[key] \in Seq(Nat)
      BY <2>2, EntriesStay
  <2>4. CurrentIsAnnounced'
    <3>1. \A s : Announced(s, Len(text)) => Announced(s, Len(text))'
        BY <2>1, <2>2, AnnouncedGoesOn
    <3>2. PICK s : s = current
        OBVIOUS
    <3> QED
        BY <2>1, <3>1, <3>2 DEF ParseInv, CurrentIsAnnounced, Announced
  <2> QED
      BY <2>1, <2>2, <2>3, <2>4 DEF ParseInv, OpenRun, BodyIsRead, Flush
<1>4. ASSUME ReadOpener PROVE ParseInv'
  <2>1. PICK line \in Lines : /\ line.kind = "opener" /\ Read(line)
                              /\ current # None /\ ~appendix
                              /\ entries' = Flushed
                              /\ pending' = line.path /\ buffer' = <<Position>>
                              /\ UNCHANGED <<current, appendix>>
      BY <1>4 DEF ReadOpener
  <2>2. text \in Seq(Lines) /\ text' = Append(text, line)
      BY <2>1 DEF Read, ParseInv
  <2>3. EntryIsOneRun' /\ \A key \in DOMAIN entries' : entries'[key] \in Seq(Nat)
      BY <2>1, <2>2, EntriesStay
  <2>4. Announced(current, Len(text))'
    <3>1. \A s : Announced(s, Len(text)) => Announced(s, Len(text))'
        BY <2>1, <2>2, AnnouncedGoesOn
    <3>2. PICK s : s = current
        OBVIOUS
    <3> QED
        BY <2>1, <3>1, <3>2 DEF ParseInv, CurrentIsAnnounced, Announced
  <2>5. /\ Len(buffer') = 1 /\ buffer' \in Seq(Nat)
        /\ buffer'[1] = Len(text') /\ buffer'[1] \in DOMAIN text'
        /\ text'[buffer'[1]] = line
      BY <2>1, <2>2, ReadingKeeps DEF Position
  <2>6. OneRun(buffer, pending)'
      BY <2>1, <2>5 DEF OneRun, Last
  <2>7. InBody(Len(text))'
      BY <2>1, <2>2, InBodyGoesOn DEF ParseInv, BodyIsRead
  <2>8. OpenRun'
      BY <2>1, <2>4, <2>5, <2>6, <2>7 DEF OpenRun, Announced, InBody
  <2> QED
      BY <2>1, <2>2, <2>3, <2>4, <2>5, <2>7, <2>8, ReadingKeeps
      DEF ParseInv, CurrentIsAnnounced, BodyIsRead
<1>5. ASSUME ReadProse PROVE ParseInv'
  <2>1. PICK line \in Lines : /\ line.kind \in {"prose", "noise"} /\ Read(line)
                              /\ current # None /\ ~appendix
                              /\ buffer' = IF line.kind = "prose" /\ pending # None
                                           THEN Append(buffer, Position) ELSE buffer
                              /\ UNCHANGED <<current, pending, appendix, entries>>
      BY <1>5 DEF ReadProse
  <2>2. text \in Seq(Lines) /\ text' = Append(text, line)
      BY <2>1 DEF Read, ParseInv
  <2>3. EntryIsOneRun' /\ \A key \in DOMAIN entries' : entries'[key] \in Seq(Nat)
      BY <2>1, <2>2, EntriesStay
  <2>4. CurrentIsAnnounced'
    <3>1. \A s : Announced(s, Len(text)) => Announced(s, Len(text))'
        BY <2>1, <2>2, AnnouncedGoesOn
    <3>2. PICK s : s = current
        OBVIOUS
    <3> QED
        BY <2>1, <3>1, <3>2 DEF ParseInv, CurrentIsAnnounced, Announced
  <2>5. buffer' \in Seq(Nat)
      BY <2>1, <2>2 DEF ParseInv, Position
  <2>6. ASSUME pending # None PROVE OpenRun'
    <3>1. /\ OneRun(buffer, pending) /\ Announced(current, buffer[1]) /\ InBody(buffer[1])
          /\ \A j \in buffer[1] + 1 .. Len(text) :
               /\ text[j].kind \in {"prose", "noise"}
               /\ text[j].kind = "prose" => \E i \in DOMAIN buffer : buffer[i] = j
        BY <2>6 DEF ParseInv, OpenRun
    <3>2. buffer \in Seq(Nat) /\ Len(buffer) \in Nat \ {0} /\ DOMAIN buffer = 1..Len(buffer)
        BY <3>1 DEF OneRun, ParseInv
    <3>3. /\ DOMAIN text = 1..Len(text) /\ DOMAIN text' = 1..Len(text')
          /\ buffer[1] \in 1..Len(text) /\ buffer[Len(buffer)] \in 1..Len(text)
        BY <2>2, <3>1, <3>2 DEF OneRun
    <3>4. Announced(current, buffer[1])'
      <4>1. PICK s, i : s = current /\ i = buffer[1]
          OBVIOUS
      <4>2. Announced(s, i)'
          BY <2>2, <3>1, <3>3, <4>1, AnnouncedStays
      <4>3. buffer'[1] = buffer[1]
          BY <2>1, <3>2 DEF Position
      <4> QED
          BY <2>1, <4>1, <4>2, <4>3 DEF Announced
    <3>5. InBody(buffer[1])'
      <4>1. PICK i : i = buffer[1]
          OBVIOUS
      <4>2. InBody(i)'
          BY <2>2, <3>1, <3>3, <4>1, InBodyStays
      <4>3. buffer'[1] = buffer[1]
          BY <2>1, <3>2 DEF Position
      <4> QED
          BY <4>1, <4>2, <4>3 DEF InBody
    <3>6. CASE line.kind = "prose"
      <4>1. /\ buffer' = Append(buffer, Len(text) + 1) /\ Len(buffer') = Len(buffer) + 1
            /\ \A i \in 1..Len(buffer) : buffer'[i] = buffer[i]
            /\ buffer'[Len(buffer) + 1] = Len(text) + 1
            /\ DOMAIN buffer' = 1..Len(buffer) + 1
          BY <2>1, <2>6, <3>2, <3>6 DEF Position
      <4>2. \A j \in buffer[1] + 1 .. Len(text) + 1 :
              /\ text'[j].kind \in {"prose", "noise"}
              /\ text'[j].kind = "prose" => \E i \in DOMAIN buffer' : buffer'[i] = j
          BY <2>2, <3>1, <3>2, <3>3, <3>6, <4>1, ReadingKeeps
      <4>3. /\ \A i \in DOMAIN buffer' : buffer'[i] \in DOMAIN text'
            /\ \A i \in 1..Len(buffer') - 1 : buffer'[i] < buffer'[i + 1]
          BY <2>2, <3>1, <3>2, <3>3, <4>1, ReadingKeeps DEF OneRun
      <4>4. buffer'[1] = buffer[1] /\ text'[buffer[1]] = text[buffer[1]] /\ Len(text') = Len(text) + 1
          BY <2>2, <3>2, <3>3, <4>1, ReadingKeeps
      <4>5. OneRun(buffer, pending)'
        <5>1. buffer' # <<>> /\ Last(buffer') = Len(text) + 1
            BY <3>2, <4>1 DEF Last
        <5>2. text'[buffer'[1]].kind = "opener" /\ text'[buffer'[1]].path = pending'
            BY <2>1, <3>1, <4>4 DEF OneRun
        <5>3. \A j \in buffer'[1] + 1 .. Last(buffer') :
                /\ text'[j].kind \in {"prose", "noise"}
                /\ text'[j].kind = "prose" => \E i \in DOMAIN buffer' : buffer'[i] = j
            BY <4>2, <4>4, <5>1
        <5> QED
            BY <4>3, <5>1, <5>2, <5>3 DEF OneRun
      <4> QED
          BY <2>1, <2>6, <3>4, <3>5, <4>2, <4>4, <4>5 DEF OpenRun
    <3>7. CASE line.kind = "noise"
      <4>1. PICK body, path : body = buffer /\ path = pending
          OBVIOUS
      <4>2. OneRun(body, path)'
          BY <2>2, <3>1, <3>2, <4>1, OneRunStays
      <4>3. OneRun(buffer, pending)'
          BY <2>1, <3>7, <4>1, <4>2 DEF OneRun, Last
      <4>4. \A j \in buffer[1] + 1 .. Len(text) + 1 :
              /\ text'[j].kind \in {"prose", "noise"}
              /\ text'[j].kind = "prose" => \E i \in DOMAIN buffer : buffer[i] = j
          BY <2>2, <3>1, <3>2, <3>3, <3>7, ReadingKeeps
      <4> QED
          BY <2>1, <2>2, <2>6, <3>4, <3>7, <3>5, <4>3, <4>4, ReadingKeeps DEF OpenRun
    <3> QED
        BY <2>1, <3>6, <3>7
  <2>7. ASSUME pending = None PROVE OpenRun'
      BY <2>1, <2>7 DEF OpenRun
  <2>8. BodyIsRead'
      BY <2>1, <2>2, InBodyGoesOn DEF ParseInv, BodyIsRead
  <2> QED
      BY <2>2, <2>3, <2>4, <2>5, <2>6, <2>7, <2>8, ReadingKeeps DEF ParseInv
<1>6. ASSUME EndOfText PROVE ParseInv'
  <2>1. Flush /\ UNCHANGED <<text, current, appendix>>
      BY <1>6 DEF EndOfText
  <2>2. EntryIsOneRun' /\ \A key \in DOMAIN entries' : entries'[key] \in Seq(Nat)
      BY <2>1, FlushedIsOneRun DEF Flush, EntryIsOneRun, OneRun, Announced, InBody
  <2> QED
      BY <2>1, <2>2
      DEF ParseInv, OpenRun, CurrentIsAnnounced, BodyIsRead, Announced, InBody, Flush
<1>7. CASE UNCHANGED parseVars
    BY <1>7 DEF parseVars, ParseInv, OpenRun, CurrentIsAnnounced, BodyIsRead, EntryIsOneRun,
                OneRun, Announced, InBody
<1> QED
    BY <1>1, <1>2, <1>3, <1>4, <1>5, <1>6, <1>7 DEF ParseNext

\* Positional assignment (docstring of parse_standards): whatever the text, with
\* its contents pages, page headers, cross-references and appendices, what is
\* kept as a clause of a standard is one run of text, opened by that clause's
\* path outside of any appendix, with that standard announced last before it.
THEOREM EntriesAreRuns == Spec => []EntryIsOneRun
<1>1. Init => ParseInv
    BY InitParse DEF Init
<1>2. ParseInv /\ [Next]_vars => ParseInv'
  <2> SUFFICES ASSUME ParseInv, [Next]_vars PROVE ParseInv'
      OBVIOUS
  <2> [ParseNext]_parseVars
      BY DEF Next, Parse, Select, ChunkClause, vars, parseVars
  <2> QED
      BY ParseStep
<1>3. ParseInv => EntryIsOneRun
    BY DEF ParseInv
<1> QED
    BY <1>1, <1>2, <1>3, PTL DEF Spec

-----------------------------------------------------------------------------
(* The title of a standard *)

\* The header lines that give standard s the title u.
Naming(s, u) == {line \in Lines : line.kind = "header" /\ line.standard = s /\ line.title = u}

\* Every line that gives a standard a title has cast one vote for it.
VoteInv ==
    /\ text \in Seq(Lines)
    /\ DOMAIN firstName \subseteq Standards
    /\ votes \in [Standards -> Seq(Titles)]
    /\ \A s \in Standards, u \in Titles :
         Cardinality(PlacesOf(text, Naming(s, u))) = Cardinality(PlacesOf(votes[s], {u}))

\* No vote has been cast at first.
LEMMA InitVotes == ParseInit => VoteInv
<1> SUFFICES ASSUME ParseInit PROVE VoteInv
    OBVIOUS
<1>1. ASSUME NEW s \in Standards, NEW u \in Titles
      PROVE  PlacesOf(text, Naming(s, u)) = PlacesOf(votes[s], {u})
    BY <1>1 DEF ParseInit, PlacesOf
<1> QED
    BY <1>1 DEF ParseInit, VoteInv

\* A line that is no header casts no vote.
LEMMA OtherLinesAreNoVotes ==
  ASSUME VoteInv, NEW line \in Lines, line.kind # "header",
         text' = Append(text, line), UNCHANGED <<firstName, votes>>
  PROVE  VoteInv'
<1>1. text \in Seq(Lines) /\ text' \in Seq(Lines)
    BY DEF VoteInv
<1>2. ASSUME NEW s \in Standards, NEW u \in Titles
      PROVE  Cardinality(PlacesOf(Append(text, line), Naming(s, u)))
               = Cardinality(PlacesOf(text, Naming(s, u)))
  <2>1. line \notin Naming(s, u)
      BY DEF Naming
  <2>2. Cardinality(PlacesOf(text, Naming(s, u))) \in Nat
      BY <1>1, PlacesAreFinite
  <2> QED
      BY <1>1, <2>1, <2>2, OneMorePlace
<1> QED
    BY <1>1, <1>2 DEF VoteInv

\* A header casts one vote, for the title it carries, if it carries one.
LEMMA HeadersAreVotes ==
  ASSUME VoteInv, NEW line \in Lines, line.kind = "header",
         text' = Append(text, line), Announce(line)
  PROVE  VoteInv'
<1>1. text \in Seq(Lines) /\ text' \in Seq(Lines)
    BY DEF VoteInv
<1>2. line.standard \in Standards /\ line.title \in Titles \cup {None} /\ None \notin Titles
    BY ParsingAssumption
<1>3. DOMAIN firstName' \subseteq Standards
    BY <1>2 DEF Announce, VoteInv
<1>4. votes' \in [Standards -> Seq(Titles)]
    BY <1>2 DEF Announce, VoteInv
<1>5. ASSUME NEW s \in Standards, NEW u \in Titles
      PROVE  Cardinality(PlacesOf(text', Naming(s, u))) = Cardinality(PlacesOf(votes'[s], {u}))
  <2>1. line \in Naming(s, u) <=> line.standard = s /\ line.title = u
      BY DEF Naming
  <2>2. /\ Cardinality(PlacesOf(text, Naming(s, u))) = Cardinality(PlacesOf(votes[s], {u}))
        /\ votes[s] \in Seq(Titles)
      BY DEF VoteInv
  <2>3. Cardinality(PlacesOf(votes[s], {u})) \in Nat
      BY <2>2, PlacesAreFinite
  <2>4. Cardinality(PlacesOf(text', Naming(s, u))) =
          Cardinality(PlacesOf(text, Naming(s, u))) + (IF line \in Naming(s, u) THEN 1 ELSE 0)
      BY <1>1, OneMorePlace
  <2>5. CASE line.standard = s /\ line.title # None
    <3>1. votes'[s] = Append(votes[s], line.title) /\ line.title \in Titles
        BY <1>2, <2>5 DEF Announce, VoteInv
    <3>2. Cardinality(PlacesOf(votes'[s], {u})) =
            Cardinality(PlacesOf(votes[s], {u})) + (IF line.title \in {u} THEN 1 ELSE 0)
        BY <2>2, <3>1, OneMorePlace
    <3> QED
        BY <2>1, <2>2, <2>4, <2>5, <3>2
  <2>6. CASE line.standard # s \/ line.title = None
    <3>1. votes'[s] = votes[s]
        BY <1>2, <2>6 DEF Announce, VoteInv
    <3>2. line \notin Naming(s, u)
        BY <1>2, <2>1, <2>6
    <3> QED
        BY <2>2, <2>3, <2>4, <3>1, <3>2
  <2> QED
      BY <2>5, <2>6
<1> QED
    BY <1>1, <1>3, <1>4, <1>5 DEF VoteInv

\* Every line read keeps the count.
LEMMA VoteStep == VoteInv /\ [ParseNext]_parseVars => VoteInv'
<1> SUFFICES ASSUME VoteInv, [ParseNext]_parseVars PROVE VoteInv'
    OBVIOUS
<1>1. ASSUME ReadHeader PROVE VoteInv'
    BY <1>1, HeadersAreVotes DEF ReadHeader, Read
<1>2. ASSUME Skip \/ ReadAppendix \/ ReadOpener \/ ReadProse PROVE VoteInv'
  <2>1. PICK line \in Lines : /\ line.kind # "header" /\ text' = Append(text, line)
                              /\ UNCHANGED <<firstName, votes>>
      BY <1>2 DEF Skip, ReadAppendix, ReadOpener, ReadProse, Read
  <2> QED
      BY <2>1, OtherLinesAreNoVotes
<1>3. ASSUME EndOfText \/ UNCHANGED parseVars PROVE VoteInv'
    BY <1>3 DEF EndOfText, parseVars, VoteInv
<1> QED
    BY <1>1, <1>2, <1>3 DEF ParseNext

\* The votes for a title are the lines that give it.
LEMMA VotesAreLines ==
  ASSUME VoteInv, NEW s \in Standards, NEW u \in Titles
  PROVE  /\ Votes(s, u) = Cardinality({i \in DOMAIN text :
               /\ text[i].kind = "header" /\ text[i].standard = s /\ text[i].title = u})
         /\ Votes(s, u) \in Nat
         /\ Votes(s, u) > 0 => \E i \in DOMAIN votes[s] : votes[s][i] = u
<1>1. votes[s] \in Seq(Titles) /\ text \in Seq(Lines)
    BY DEF VoteInv
<1>2. Votes(s, u) = Cardinality(PlacesOf(votes[s], {u}))
  <2>1. {i \in DOMAIN votes[s] : votes[s][i] = u} = PlacesOf(votes[s], {u})
      BY DEF PlacesOf
  <2> QED
      BY <2>1 DEF Votes
<1>3. {i \in DOMAIN text : /\ text[i].kind = "header" /\ text[i].standard = s
                           /\ text[i].title = u} = PlacesOf(text, Naming(s, u))
  <2>1. \A i \in DOMAIN text : text[i] \in Lines
      BY <1>1
  <2> QED
      BY <2>1 DEF PlacesOf, Naming
<1>4. Votes(s, u) \in Nat
    BY <1>1, <1>2, PlacesAreFinite
<1>5. Votes(s, u) > 0 => PlacesOf(votes[s], {u}) # {}
    BY <1>2, FS_EmptySet
<1> QED
    BY <1>2, <1>3, <1>4, <1>5 DEF PlacesOf, VoteInv

\* The title with more votes than any other is the one chosen.
LEMMA MajorityIsChosen ==
  ASSUME VoteInv, NEW s \in Standards, NEW t \in Plausible, Votes(s, t) > 0,
         \A u \in Plausible \ {t} : Votes(s, t) > Votes(s, u)
  PROVE  ResolveName(s) = t
<1> DEFINE plausible == {i \in DOMAIN votes[s] : votes[s][i] \in Plausible}
<1> DEFINE best == {i \in plausible :
                      \A j \in plausible : Votes(s, votes[s][i]) >= Votes(s, votes[s][j])}
<1>1. \A u \in Plausible : Votes(s, u) \in Nat
    BY VotesAreLines, ParsingAssumption
<1>2. PICK k \in DOMAIN votes[s] : votes[s][k] = t
    BY VotesAreLines, ParsingAssumption
<1>3. \A j \in plausible : Votes(s, t) >= Votes(s, votes[s][j])
    BY <1>1
<1>4. k \in best
    BY <1>2, <1>3
<1>5. ASSUME NEW i \in best PROVE votes[s][i] = t
  <2>1. Votes(s, votes[s][i]) >= Votes(s, t)
      BY <1>2
  <2>2. votes[s][i] \in Plausible
      OBVIOUS
  <2> QED
      BY <1>1, <2>1, <2>2
<1>6. best \in SUBSET Nat /\ best # {}
  <2>1. votes[s] \in Seq(Titles)
      BY DEF VoteInv
  <2>2. DOMAIN votes[s] = 1..Len(votes[s]) /\ Len(votes[s]) \in Nat
      BY <2>1
  <2> QED
      BY <1>4, <2>2
<1>7. \E i \in best : \A j \in best : i <= j
  <2> HIDE DEF best
  <2> QED
      BY <1>6, LeastNatural
<1>8. ResolveName(s) = votes[s][CHOOSE i \in best : \A j \in best : i <= j]
    BY <1>4 DEF ResolveName
<1> HIDE DEF best
<1> QED
    BY <1>5, <1>7, <1>8

\* resolve_name ("the title the running headers agree on"): whatever the text,
\* a plausible title that more of its header lines give a standard than any
\* other plausible one is the name every chunk and every verdict carries.
THEOREM TitlesByMajority == Spec => []TitleByMajority
<1>1. Init => VoteInv
    BY InitVotes DEF Init
<1>2. VoteInv /\ [Next]_vars => VoteInv'
  <2> SUFFICES ASSUME VoteInv, [Next]_vars PROVE VoteInv'
      OBVIOUS
  <2> [ParseNext]_parseVars
      BY DEF Next, Parse, Select, ChunkClause, vars, parseVars
  <2> QED
      BY VoteStep
<1>3. VoteInv => TitleByMajority
  <2> SUFFICES ASSUME VoteInv, NEW s \in DOMAIN firstName, NEW t \in Plausible
               PROVE  LET Count(u) == Cardinality({i \in DOMAIN text :
                              /\ text[i].kind = "header" /\ text[i].standard = s
                              /\ text[i].title = u})
                      IN  (\A u \in Plausible \ {t} : Count(t) > Count(u)) /\ Count(t) > 0
                              => ResolveName(s) = t
      BY DEF TitleByMajority
  <2> DEFINE Count(u) == Cardinality({i \in DOMAIN text :
                 /\ text[i].kind = "header" /\ text[i].standard = s /\ text[i].title = u})
  <2>1. s \in Standards /\ Plausible \subseteq Titles
      BY ParsingAssumption DEF VoteInv
  <2>2. \A u \in Plausible : Count(u) = Votes(s, u)
      BY <2>1, VotesAreLines
  <2> HIDE DEF Count
  <2>3. (\A u \in Plausible \ {t} : Count(t) > Count(u)) /\ Count(t) > 0 => ResolveName(s) = t
      BY <2>1, <2>2, MajorityIsChosen
  <2> QED
      BY <2>3 DEF Count
<1> QED
    BY <1>1, <1>2, <1>3, PTL DEF Spec

-----------------------------------------------------------------------------
(* The longest occurrence of a clause *)

\* Size and RunSize, of any text.
SizeIn(t, body) == FoldSeq(LAMBDA i, n : t[i].size + n, Len(body) - 1, body)

RunSizeIn(t, i, j) ==
    LET lines == {h \in i .. j - 1 : t[h].kind # "noise"}
    IN  SumFunction([h \in lines |-> t[h].size]) + Cardinality(lines) - 1

Sized(t, body) == \A i \in DOMAIN body : t[body[i]].size \in Nat \ {0}

\* len(body) counts the characters of the lines, and the spaces between them.
LEMMA SizeIsMarks ==
  ASSUME NEW t, NEW body \in Seq(Nat), Sized(t, body)
  PROVE  /\ SizeIn(t, body) = Len(body) - 1
              + Cardinality(Marks([i \in 1..Len(body) |-> t[body[i]].size], 1..Len(body)))
         /\ SizeIn(t, body) \in Int
<1> DEFINE D == 1..Len(body)
<1> DEFINE f == [i \in D |-> t[body[i]].size]
<1>1. D = DOMAIN body /\ Len(body) - 1 \in Int /\ IsFiniteSet(D) /\ f \in [D -> Nat]
  <2>1. Len(body) \in Int /\ D = DOMAIN body
      OBVIOUS
  <2>2. IsFiniteSet(D)
      BY <2>1, FS_Interval
  <2>3. f \in [D -> Nat]
      BY <2>1 DEF Sized
  <2> QED
      BY <2>1, <2>2, <2>3
<1>2. SizeIn(t, body) = (CHOOSE g : g = SumStep(f, D, Len(body) - 1, g))[D]
  <2>1. ASSUME NEW s \in SUBSET D, s # {}
        PROVE  f[CHOOSE x \in s : TRUE] = t[body[CHOOSE x \in s : TRUE]].size
      BY <2>1
  <2> DEFINE own(g) == [s \in SUBSET D |->
                 IF s = {} THEN Len(body) - 1
                 ELSE t[body[CHOOSE x \in s : TRUE]].size + g[s \ {CHOOSE x \in s : TRUE}]]
  <2>2. \A g : own(g) = SumStep(f, D, Len(body) - 1, g)
    <3> HIDE DEF f
    <3> QED
        BY <2>1 DEF SumStep
  <2>3. SizeIn(t, body) = (CHOOSE g : g = own(g))[D]
      BY <1>1 DEF SizeIn, FoldSeq, FoldFunction, FoldFunctionOnSet, MapThenFoldSet
  <2> HIDE DEF own, f, D
  <2> QED
      BY <2>2, <2>3
<1>3. Cardinality(Marks(f, D)) \in Nat
    BY <1>1, MarksAreFinite, FS_CardinalityType
<1> HIDE DEF f, D
<1>4. SizeIn(t, body) = Len(body) - 1 + Cardinality(Marks(f, D))
    BY <1>1, <1>2, SumIsMarks
<1> QED
    BY <1>1, <1>3, <1>4 DEF f, D

\* Texts that agree on the lines of a body give it one size.
LEMMA SizeStays ==
  ASSUME NEW t, NEW u, NEW body \in Seq(Nat), Sized(t, body),
         \A i \in DOMAIN body : u[body[i]] = t[body[i]]
  PROVE  Sized(u, body) /\ SizeIn(u, body) = SizeIn(t, body)
<1>1. Sized(u, body)
    BY DEF Sized
<1>2. DOMAIN body = 1..Len(body)
    OBVIOUS
<1>3. [i \in 1..Len(body) |-> u[body[i]].size] = [i \in 1..Len(body) |-> t[body[i]].size]
    BY <1>2
<1> QED
    BY <1>1, <1>3, SizeIsMarks

\* A body goes through the lines i to j - 1, all but the page numbers.
GoesThrough(t, body, i, j) ==
    /\ \A k \in DOMAIN body : body[k] \in i .. j - 1 /\ t[body[k]].kind # "noise"
    /\ \A k, l \in DOMAIN body : k < l => body[k] < body[l]
    /\ \A h \in i .. j - 1 : t[h].kind # "noise" => \E k \in DOMAIN body : body[k] = h

\* Lines are as many, and as long, in whatever order they are counted.
LEMMA SameLines ==
  ASSUME NEW S, IsFiniteSet(S), NEW T, NEW body, body \in Bijection(T, S),
         NEW f, f \in [S -> Nat], NEW g, g \in [T -> Nat], \A k \in T : g[k] = f[body[k]]
  PROVE  /\ Cardinality(T) = Cardinality(S)
         /\ Cardinality(Marks(g, T)) = SumFunction(f)
         /\ SumFunction(f) \in Int
<1>1. Cardinality(T) = Cardinality(S) /\ Cardinality(Marks(g, T)) = Cardinality(Marks(f, S))
    BY RenamedMarks
<1>2. SumFunction(f) = Cardinality(Marks(f, S)) /\ Cardinality(Marks(f, S)) \in Nat
    BY SumFunctionCountsMarks, MarksAreFinite, FS_CardinalityType
<1> QED
    BY <1>1, <1>2

\* A body that goes through a run has the size of that run.
LEMMA RunIsSized ==
  ASSUME NEW t, NEW i, NEW j, i \in Nat, j \in Nat, NEW body, body \in Seq(Nat),
         Sized(t, body), GoesThrough(t, body, i, j)
  PROVE  SizeIn(t, body) = RunSizeIn(t, i, j)
<1> DEFINE S0 == {h \in i .. j - 1 : t[h].kind # "noise"}
<1>1. PICK S, T : S = S0 /\ T = 1..Len(body)
    OBVIOUS
<1>2. PICK f, g : f = [h \in S |-> t[h].size] /\ g = [k \in T |-> t[body[k]].size]
    OBVIOUS
<1>3. T = DOMAIN body /\ Len(body) \in Nat
    BY <1>1
<1>4. IsFiniteSet(S)
  <2>1. IsFiniteSet(i .. j - 1)
      BY FS_Interval
  <2>2. S \subseteq i .. j - 1
      BY <1>1
  <2> QED
      BY <2>1, <2>2, FS_Subset
<1>5. body \in [T -> S] /\ \A y \in S : \E x \in T : body[x] = y
    BY <1>1, <1>3 DEF GoesThrough
<1>6. \A x, y \in T : body[x] = body[y] => x = y
  <2> SUFFICES ASSUME NEW x \in T, NEW y \in T, body[x] = body[y], x # y PROVE FALSE
      OBVIOUS
  <2>1. body[x] \in Nat /\ body[y] \in Nat /\ (x < y \/ y < x)
      BY <1>1, <1>3
  <2> QED
      BY <1>3, <2>1 DEF GoesThrough
<1>7. body \in Bijection(T, S)
    BY <1>5, <1>6 DEF Bijection, Injection, Surjection, IsInjective
<1>8. f \in [S -> Nat]
    BY <1>2, <1>3, <1>5 DEF Sized
<1>9. g \in [T -> Nat] /\ \A k \in T : g[k] = f[body[k]]
    BY <1>2, <1>3, <1>5 DEF Sized
<1>10. Cardinality(T) = Len(body)
  <2>1. \A n \in Nat : Cardinality(1..n) = n
      BY FS_Interval
  <2> QED
      BY <1>1, <1>3, <2>1
<1>11. /\ Cardinality(T) = Cardinality(S)
       /\ Cardinality(Marks(g, T)) = SumFunction(f)
       /\ SumFunction(f) \in Int
    BY <1>4, <1>7, <1>8, <1>9, SameLines, SMTT(60)
<1>12. SizeIn(t, body) = Len(body) - 1 + Cardinality(Marks(g, T))
    BY <1>1, <1>2, SizeIsMarks
<1>13. RunSizeIn(t, i, j) = SumFunction(f) + Cardinality(S) - 1
    BY <1>1, <1>2 DEF RunSizeIn
<1>14. PICK len, c, m : len = Len(body) /\ c = Cardinality(S) /\ m = SumFunction(f)
    OBVIOUS
<1>15. len \in Int /\ m \in Int /\ c = len
  <2>1. len \in Int
      BY <1>14
  <2>2. m \in Int
      BY <1>11, <1>14
  <2>3. c = len
      BY <1>10, <1>11, <1>14
  <2> QED
      BY <2>1, <2>2, <2>3
<1>16. SizeIn(t, body) = len - 1 + m /\ RunSizeIn(t, i, j) = m + c - 1
    BY <1>11, <1>12, <1>13, <1>14
<1> QED
    BY <1>15, <1>16

\* Line i opens a clause of standard s that nothing has closed yet.
Unclosed(s, i) ==
    /\ text[i].kind = "opener"
    /\ Announced(s, i)
    /\ \A h \in 1..i : text[h].kind = "appendix" => \E g \in h..i : text[g].kind = "header"
    /\ \A h \in i + 1 .. Len(text) : text[h].kind \in {"prose", "noise"}

\* An appendix that is being read was announced after the last header.
AppendixSeen ==
    appendix => \E h \in DOMAIN text :
        /\ text[h].kind = "appendix"
        /\ \A g \in h .. Len(text) : text[g].kind # "header"

AnnouncedIsCurrent == \A s \in Standards : Announced(s, Len(text)) => current = s

\* What is open has only lines with characters, each once.
BufferIsRun ==
    pending # None =>
        /\ \A i \in DOMAIN buffer :
             /\ buffer[i] \in buffer[1] .. Len(text)
             /\ text[buffer[i]].kind \in {"opener", "prose"}
        /\ \A i, j \in DOMAIN buffer : i < j => buffer[i] < buffer[j]

\* A clause that nothing has closed is the one that is open.
UnclosedIsOpen ==
    ~ended => \A s \in Standards, i \in DOMAIN text : Unclosed(s, i) =>
        current = s /\ pending = text[i].path /\ buffer[1] = i

EntriesAreSized ==
    \A key \in DOMAIN entries : \A i \in DOMAIN entries[key] :
        entries[key][i] \in DOMAIN text /\ text[entries[key][i]].size \in Nat \ {0}

\* Together with ParseInv, inductive.
LongestInv ==
    AppendixSeen /\ AnnouncedIsCurrent /\ BufferIsRun /\ UnclosedIsOpen
    /\ EntriesAreSized /\ LongestKept

LEMMA SizesOfText ==
  ASSUME NEW body, NEW i, NEW j
  PROVE  /\ Size(body) = SizeIn(text, body) /\ Size(body)' = SizeIn(text', body)
         /\ RunSize(i, j) = RunSizeIn(text, i, j) /\ RunSize(i, j)' = RunSizeIn(text', i, j)
<1>1. Size(body) = SizeIn(text, body) /\ Size(body)' = SizeIn(text', body)
    BY DEF Size, SizeIn, FoldSeq, FoldFunction, FoldFunctionOnSet, MapThenFoldSet
<1>2. RunSize(i, j) = RunSizeIn(text, i, j) /\ RunSize(i, j)' = RunSizeIn(text', i, j)
    BY DEF RunSize, RunSizeIn
<1> QED
    BY <1>1, <1>2

\* A header announces one standard.
LEMMA AnnouncedBefore ==
  ASSUME NEW line \in Lines, text \in Seq(Lines), text' = Append(text, line),
         NEW s, NEW i \in 1..Len(text), Announced(s, i)'
  PROVE  Announced(s, i)
<1>1. \A h \in 1..Len(text) : text'[h] = text[h]
    BY ReadingKeeps
<1>2. \A h \in 1..i : h \in 1..Len(text) /\ \A g \in h + 1 .. i : g \in 1..Len(text)
    OBVIOUS
<1> QED
    BY <1>1, <1>2 DEF Announced

\* A line that is no header leaves the standard announced as it was.
LEMMA AnnouncedBeforeOther ==
  ASSUME NEW line \in Lines, text \in Seq(Lines), text' = Append(text, line),
         line.kind # "header", NEW s, NEW n, n = Len(text) + 1, Announced(s, n)'
  PROVE  Announced(s, Len(text))
<1>1. PICK h \in 1..Len(text) + 1 :
        /\ text'[h].kind = "header" /\ text'[h].standard = s
        /\ \A g \in h + 1 .. Len(text) + 1 : text'[g].kind # "header"
    BY DEF Announced
<1>2. text'[Len(text) + 1] = line /\ \A g \in 1..Len(text) : text'[g] = text[g]
    BY ReadingKeeps
<1>3. h \in 1..Len(text)
    BY <1>1, <1>2
<1>4. \A g \in h + 1 .. Len(text) : g \in h + 1 .. Len(text) + 1 /\ g \in 1..Len(text)
    BY <1>3
<1> QED
    BY <1>1, <1>2, <1>3, <1>4 DEF Announced

\* The text that is open has the size of the run it goes through.
LEMMA BufferSize ==
  ASSUME ParseInv, BufferIsRun, pending # None
  PROVE  /\ buffer \in Seq(Nat) /\ Sized(text, buffer)
         /\ buffer[1] \in DOMAIN text /\ \A k \in DOMAIN buffer : buffer[k] \in DOMAIN text
         /\ SizeIn(text, buffer) = RunSizeIn(text, buffer[1], Len(text) + 1)
<1>1. /\ buffer \in Seq(Nat) /\ text \in Seq(Lines) /\ OneRun(buffer, pending)
      /\ \A j \in buffer[1] + 1 .. Len(text) :
           text[j].kind = "prose" => \E i \in DOMAIN buffer : buffer[i] = j
      /\ \A j \in buffer[1] + 1 .. Len(text) : text[j].kind \in {"prose", "noise"}
    BY DEF ParseInv, OpenRun
<1>2. /\ DOMAIN text = 1..Len(text) /\ Len(text) \in Nat
      /\ DOMAIN buffer = 1..Len(buffer) /\ 1 \in DOMAIN buffer
      /\ buffer[1] \in Nat /\ \A k \in DOMAIN buffer : buffer[k] \in DOMAIN text
    BY <1>1 DEF OneRun
<1>3. /\ \A k \in DOMAIN buffer : buffer[k] \in buffer[1] .. Len(text)
                                  /\ text[buffer[k]].kind \in {"opener", "prose"}
      /\ \A k, l \in DOMAIN buffer : k < l => buffer[k] < buffer[l]
    BY DEF BufferIsRun
<1>4. Sized(text, buffer)
  <2>1. \A h \in DOMAIN text : text[h] \in Lines
      BY <1>1
  <2>2. \A line \in Lines : line.kind \in {"opener", "prose"} => line.size \in Nat \ {0}
      BY ParsingAssumption
  <2> QED
      BY <1>2, <1>3, <2>1, <2>2 DEF Sized
<1>5. \A h \in buffer[1] .. Len(text) :
        text[h].kind # "noise" => \E k \in DOMAIN buffer : buffer[k] = h
    BY <1>1, <1>2
<1>6. (Len(text) + 1) - 1 = Len(text) /\ Len(text) + 1 \in Nat
    BY <1>2
<1>7. SizeIn(text, buffer) = RunSizeIn(text, buffer[1], Len(text) + 1)
  <2>1. GoesThrough(text, buffer, buffer[1], Len(text) + 1)
      BY <1>3, <1>5, <1>6 DEF GoesThrough
  <2> QED
      BY <1>1, <1>2, <1>4, <1>6, <2>1, RunIsSized
<1> QED
    BY <1>1, <1>2, <1>4, <1>7

\* flush() keeps the longer of two, and never lets a path go.
LEMMA FlushedIsLonger ==
  ASSUME ParseInv, LongestInv
  PROVE  /\ \A key \in DOMAIN Flushed :
              /\ Flushed[key] \in Seq(Nat) /\ Sized(text, Flushed[key])
              /\ \A i \in DOMAIN Flushed[key] : Flushed[key][i] \in DOMAIN text
         /\ \A key \in DOMAIN entries : /\ key \in DOMAIN Flushed
                                        /\ SizeIn(text, Flushed[key]) >= SizeIn(text, entries[key])
         /\ pending # None => /\ Key \in DOMAIN Flushed
                              /\ SizeIn(text, Flushed[Key]) >= SizeIn(text, buffer)
<1>1. \A key \in DOMAIN entries :
        /\ entries[key] \in Seq(Nat) /\ Sized(text, entries[key])
        /\ \A i \in DOMAIN entries[key] : entries[key][i] \in DOMAIN text
        /\ SizeIn(text, entries[key]) \in Int
    BY SizeIsMarks DEF ParseInv, LongestInv, EntriesAreSized, Sized
<1>2. CASE current = None \/ pending = None
  <2>1. Flushed = entries /\ pending = None
      BY <1>2 DEF Flushed, ParseInv, OpenRun
  <2> QED
      BY <1>1, <2>1
<1>3. CASE ~(current = None \/ pending = None)
  <2>1. /\ buffer \in Seq(Nat) /\ Sized(text, buffer)
        /\ \A k \in DOMAIN buffer : buffer[k] \in DOMAIN text
      BY <1>3, BufferSize DEF LongestInv
  <2>2. SizeIn(text, buffer) \in Int
      BY <2>1, SizeIsMarks
  <2>3. Longer(buffer, Key) <=>
          (Key \in DOMAIN entries => SizeIn(text, buffer) > SizeIn(text, entries[Key]))
      BY SizesOfText DEF Longer
  <2>4. CASE Longer(buffer, Key)
    <3>1. Flushed = [k \in DOMAIN entries \cup {Key} |-> IF k = Key THEN buffer ELSE entries[k]]
        BY <1>3, <2>4 DEF Flushed
    <3> QED
        BY <1>1, <2>1, <2>2, <2>3, <2>4, <3>1
  <2>5. CASE ~Longer(buffer, Key)
    <3>1. Flushed = entries
        BY <2>5 DEF Flushed
    <3> QED
        BY <1>1, <2>2, <2>3, <2>5, <3>1
  <2> QED
      BY <2>4, <2>5
<1> QED
    BY <1>2, <1>3

\* Texts that agree on the lines of a run give it one size.
SameRun(t, u, i, j) == \A h \in i .. j - 1 : u[h] = t[h]

LEMMA RunStays ==
  ASSUME NEW t, NEW u, NEW i, NEW j, SameRun(t, u, i, j)
  PROVE  RunSizeIn(u, i, j) = RunSizeIn(t, i, j)
<1>1. {h \in i .. j - 1 : u[h].kind # "noise"} = {h \in i .. j - 1 : t[h].kind # "noise"}
    BY DEF SameRun
<1>2. [h \in {k \in i .. j - 1 : t[k].kind # "noise"} |-> u[h].size]
        = [h \in {k \in i .. j - 1 : t[k].kind # "noise"} |-> t[h].size]
    BY DEF SameRun
<1> QED
    BY <1>1, <1>2 DEF RunSizeIn

\* The size of a run of lines that have characters is a number.
RunHasSizes(t, i, j) == \A h \in i .. j - 1 : t[h].kind # "noise" => t[h].size \in Nat

LEMMA RunSizeType ==
  ASSUME NEW t, NEW i \in Nat, NEW j \in Nat, RunHasSizes(t, i, j)
  PROVE  RunSizeIn(t, i, j) \in Int
<1> DEFINE S == {h \in i .. j - 1 : t[h].kind # "noise"}
<1> DEFINE f == [h \in S |-> t[h].size]
<1>1. IsFiniteSet(S)
  <2>1. IsFiniteSet(i .. j - 1)
      BY FS_Interval
  <2> QED
      BY <2>1, FS_Subset
<1>2. f \in [S -> Nat]
    BY DEF RunHasSizes
<1>3. RunSizeIn(t, i, j) = SumFunction(f) + Cardinality(S) - 1
    BY DEF RunSizeIn
<1> HIDE DEF f, S
<1>4. SumFunction(f) \in Nat /\ Cardinality(S) \in Nat
    BY <1>1, <1>2, SumFunctionCountsMarks, MarksAreFinite, FS_CardinalityType
<1> QED
    BY <1>3, <1>4

\* Whether a run was closed is seen from the text up to its end.
LEMMA ClosedBefore ==
  ASSUME NEW line \in Lines, text \in Seq(Lines), text' = Append(text, line), ~ended',
         NEW s, NEW i \in DOMAIN text', NEW j \in 2..Len(text') + 1, ClosedRun(s, i, j)'
  PROVE  /\ i \in DOMAIN text /\ j \in 2..Len(text) + 1 /\ i < j /\ text'[i] = text[i]
         /\ j <= Len(text) => ClosedRun(s, i, j)
         /\ j = Len(text) + 1 => Unclosed(s, i) /\ line.kind \in {"header", "appendix", "opener"}
<1>1. /\ DOMAIN text' = 1..Len(text) + 1 /\ Len(text') = Len(text) + 1 /\ Len(text) \in Nat
      /\ \A h \in 1..Len(text) : text'[h] = text[h]
      /\ text'[Len(text) + 1] = line /\ DOMAIN text = 1..Len(text)
    BY ReadingKeeps
<1>2. /\ i < j /\ text'[i].kind = "opener" /\ Announced(s, i)'
      /\ \A h \in 1..i : text'[h].kind = "appendix" => \E g \in h..i : text'[g].kind = "header"
      /\ \A h \in i + 1 .. j - 1 : text'[h].kind \in {"prose", "noise"}
      /\ j <= Len(text') /\ text'[j].kind \in {"header", "appendix", "opener"}
    BY DEF ClosedRun, InBody
<1>3. j \in 2..Len(text) + 1 /\ i \in 1..Len(text)
    BY <1>1, <1>2
<1>4. Announced(s, i)
    BY <1>2, <1>3, AnnouncedBefore
<1>5. \A h \in 1..i : text[h].kind = "appendix" => \E g \in h..i : text[g].kind = "header"
    BY <1>1, <1>2, <1>3
<1>6. \A h \in i + 1 .. j - 1 : text[h].kind \in {"prose", "noise"}
    BY <1>1, <1>2, <1>3
<1>7. text[i].kind = "opener" /\ text'[i] = text[i]
    BY <1>1, <1>2, <1>3
<1>8. ASSUME j <= Len(text) PROVE ClosedRun(s, i, j)
  <2>1. text[j].kind \in {"header", "appendix", "opener"}
      BY <1>1, <1>2, <1>3, <1>8
  <2> QED
      BY <1>2, <1>4, <1>5, <1>6, <1>7, <1>8, <2>1 DEF ClosedRun, InBody
<1>9. ASSUME j = Len(text) + 1
      PROVE  Unclosed(s, i) /\ line.kind \in {"header", "appendix", "opener"}
  <2>1. \A h \in i + 1 .. Len(text) : h \in i + 1 .. j - 1
      BY <1>1, <1>3, <1>9
  <2>2. \A h \in i + 1 .. Len(text) : text[h].kind \in {"prose", "noise"}
      BY <1>6, <2>1
  <2>3. line.kind \in {"header", "appendix", "opener"}
      BY <1>1, <1>2, <1>9
  <2> QED
      BY <1>4, <1>5, <1>7, <2>2, <2>3 DEF Unclosed
<1> QED
    BY <1>1, <1>2, <1>3, <1>7, <1>8, <1>9

\* Entries keep their size when a line is read.
LEMMA EntriesStaySized ==
  ASSUME NEW line \in Lines, text \in Seq(Lines), text' = Append(text, line),
         NEW body \in Seq(Nat), Sized(text, body),
         \A i \in DOMAIN body : body[i] \in DOMAIN text
  PROVE  /\ Sized(text', body) /\ SizeIn(text', body) = SizeIn(text, body)
         /\ \A i \in DOMAIN body : body[i] \in DOMAIN text'
<1>1. /\ \A h \in DOMAIN text : text'[h] = text[h] /\ h \in DOMAIN text'
    BY ReadingKeeps
<1>2. \A i \in DOMAIN body : text'[body[i]] = text[body[i]]
    BY <1>1
<1> QED
    BY <1>1, <1>2, SizeStays

\* Whatever line is read, nothing longer than what is kept has been closed.
LEMMA LongestStays ==
  ASSUME ParseInv, LongestInv, NEW line \in Lines, text' = Append(text, line),
         ~ended, ~ended',
         entries' = Flushed \/ (entries' = entries /\ line.kind \in {"prose", "noise"})
  PROVE  EntriesAreSized' /\ LongestKept'
<1>1. text \in Seq(Lines) /\ text' \in Seq(Lines)
    BY DEF ParseInv
<1>2. \A key \in DOMAIN entries :
        /\ entries[key] \in Seq(Nat) /\ Sized(text, entries[key])
        /\ \A i \in DOMAIN entries[key] : entries[key][i] \in DOMAIN text
        /\ SizeIn(text, entries[key]) \in Int
    BY SizeIsMarks DEF ParseInv, LongestInv, EntriesAreSized, Sized
<1>3. /\ \A key \in DOMAIN entries' :
           /\ entries'[key] \in Seq(Nat) /\ Sized(text, entries'[key])
           /\ \A i \in DOMAIN entries'[key] : entries'[key][i] \in DOMAIN text
      /\ \A key \in DOMAIN entries : /\ key \in DOMAIN entries'
                                     /\ SizeIn(text, entries'[key]) >= SizeIn(text, entries[key])
    BY <1>2, FlushedIsLonger
<1>4. \A key \in DOMAIN entries' :
        /\ Sized(text', entries'[key]) /\ SizeIn(text', entries'[key]) = SizeIn(text, entries'[key])
        /\ SizeIn(text, entries'[key]) \in Int
        /\ \A i \in DOMAIN entries'[key] : entries'[key][i] \in DOMAIN text'
    BY <1>1, <1>3, EntriesStaySized, SizeIsMarks
<1>5. EntriesAreSized'
    BY <1>4 DEF EntriesAreSized, Sized
<1>6. ASSUME NEW s \in Standards, NEW i \in DOMAIN text', NEW j \in 2..Len(text') + 1,
             ClosedRun(s, i, j)'
      PROVE  /\ <<s, text'[i].path>> \in DOMAIN entries'
             /\ SizeIn(text', entries'[<<s, text'[i].path>>]) >= RunSizeIn(text', i, j)
  <2> DEFINE key == <<s, text[i].path>>
  <2>1. /\ i \in DOMAIN text /\ j \in 2..Len(text) + 1 /\ i < j /\ text'[i] = text[i]
        /\ j <= Len(text) => ClosedRun(s, i, j)
        /\ j = Len(text) + 1 => Unclosed(s, i) /\ line.kind \in {"header", "appendix", "opener"}
      BY <1>1, <1>6, ClosedBefore
  <2>2. Len(text) \in Nat /\ DOMAIN text = 1..Len(text)
      BY <1>1
  <2>3. RunSizeIn(text', i, j) = RunSizeIn(text, i, j)
    <3>1. \A h \in i .. j - 1 : text'[h] = text[h]
        BY <1>1, <2>1, <2>2, ReadingKeeps
    <3>2. SameRun(text, text', i, j)
        BY <3>1 DEF SameRun
    <3> QED
        BY <3>2, RunStays
  <2>4. CASE j <= Len(text)
    <3>1. key \in DOMAIN entries /\ Size(entries[key]) >= RunSize(i, j)
        BY <2>1, <2>4 DEF LongestInv, LongestKept
    <3>2. key \in DOMAIN entries /\ SizeIn(text, entries[key]) >= RunSizeIn(text, i, j)
        BY <3>1, SizesOfText
    <3>3. RunSizeIn(text, i, j) \in Int
      <4>1. \A h \in i .. j - 1 : text[h] \in Lines /\ text[h].kind \in {"opener", "prose", "noise"}
          BY <1>1, <2>1, <2>2, <2>4 DEF ClosedRun, InBody
      <4>2. RunHasSizes(text, i, j)
          BY <4>1, ParsingAssumption DEF RunHasSizes
      <4>3. i \in Nat /\ j \in Nat
          BY <2>1, <2>2
      <4> QED
          BY <4>2, <4>3, RunSizeType
    <3>4. /\ key \in DOMAIN entries'
          /\ SizeIn(text, entries'[key]) >= SizeIn(text, entries[key])
          /\ SizeIn(text', entries'[key]) = SizeIn(text, entries'[key])
          /\ SizeIn(text, entries[key]) \in Int /\ SizeIn(text, entries'[key]) \in Int
        BY <1>2, <1>3, <1>4, <3>2
    <3> HIDE DEF key
    <3>5. SizeIn(text', entries'[key]) >= RunSizeIn(text', i, j)
        BY <2>3, <3>2, <3>3, <3>4
    <3> QED
        BY <2>1, <3>4, <3>5 DEF key
  <2>5. CASE j = Len(text) + 1
    <3>1. current = s /\ pending = text[i].path /\ buffer[1] = i
        BY <2>1, <2>5 DEF LongestInv, UnclosedIsOpen
    <3>2. pending # None
      <4>1. text[i] \in Lines /\ text[i].kind = "opener"
          BY <1>1, <2>1, <2>5 DEF Unclosed
      <4> QED
          BY <3>1, <4>1, ParsingAssumption
    <3>3. entries' = Flushed /\ Key = key
        BY <2>1, <2>5, <3>1 DEF Key
    <3>4. key \in DOMAIN entries' /\ SizeIn(text, entries'[key]) >= SizeIn(text, buffer)
        BY <3>2, <3>3, FlushedIsLonger
    <3>5. SizeIn(text, buffer) = RunSizeIn(text, i, j)
        BY <2>5, <3>1, <3>2, BufferSize DEF LongestInv
    <3> QED
        BY <1>4, <2>1, <2>3, <3>4, <3>5
  <2> QED
      BY <2>1, <2>2, <2>4, <2>5
<1>7. LongestKept'
    BY <1>6 DEF LongestKept, Size, SizeIn, RunSize, RunSizeIn,
                FoldSeq, FoldFunction, FoldFunctionOnSet, MapThenFoldSet
<1> QED
    BY <1>5, <1>7

\* The end of the text closes what is open.
LEMMA LongestAtEnd ==
  ASSUME ParseInv, LongestInv, EndOfText
  PROVE  EntriesAreSized' /\ LongestKept'
<1>1. /\ ~ended /\ entries' = Flushed /\ text' = text /\ ended' = TRUE
      /\ text \in Seq(Lines)
    BY DEF EndOfText, Flush, ParseInv
<1>2. \A key \in DOMAIN entries : entries[key] \in Seq(Nat) /\ SizeIn(text, entries[key]) \in Int
    BY SizeIsMarks DEF ParseInv, LongestInv, EntriesAreSized, Sized
<1>3. /\ \A key \in DOMAIN entries' :
           /\ entries'[key] \in Seq(Nat) /\ Sized(text, entries'[key])
           /\ \A i \in DOMAIN entries'[key] : entries'[key][i] \in DOMAIN text
      /\ \A key \in DOMAIN entries : /\ key \in DOMAIN entries'
                                     /\ SizeIn(text, entries'[key]) >= SizeIn(text, entries[key])
    BY <1>1, FlushedIsLonger
<1>4. \A key \in DOMAIN entries' : SizeIn(text, entries'[key]) \in Int
    BY <1>3, SizeIsMarks
<1>5. EntriesAreSized'
    BY <1>1, <1>3 DEF EntriesAreSized, Sized
<1>6. ASSUME NEW s \in Standards, NEW i \in DOMAIN text, NEW j \in 2..Len(text) + 1,
             ClosedRun(s, i, j)'
      PROVE  /\ <<s, text[i].path>> \in DOMAIN entries'
             /\ SizeIn(text, entries'[<<s, text[i].path>>]) >= RunSizeIn(text, i, j)
  <2> DEFINE key == <<s, text[i].path>>
  <2>1. /\ i < j /\ text[i].kind = "opener" /\ Announced(s, i)
        /\ \A h \in 1..i : text[h].kind = "appendix" => \E g \in h..i : text[g].kind = "header"
        /\ \A h \in i + 1 .. j - 1 : text[h].kind \in {"prose", "noise"}
        /\ j <= Len(text) => text[j].kind \in {"header", "appendix", "opener"}
      BY <1>1, <1>6 DEF ClosedRun, InBody, Announced
  <2>2. Len(text) \in Nat /\ DOMAIN text = 1..Len(text) /\ i \in Nat /\ j \in Nat
      BY <1>1
  <2>3. CASE j <= Len(text)
    <3>1. ClosedRun(s, i, j)
        BY <2>1, <2>3 DEF ClosedRun, InBody
    <3>2. key \in DOMAIN entries /\ Size(entries[key]) >= RunSize(i, j)
        BY <3>1 DEF LongestInv, LongestKept
    <3>3. key \in DOMAIN entries /\ SizeIn(text, entries[key]) >= RunSizeIn(text, i, j)
        BY <3>2, SizesOfText
    <3>4. RunSizeIn(text, i, j) \in Int
      <4>1. \A h \in i .. j - 1 : text[h] \in Lines /\ text[h].kind \in {"opener", "prose", "noise"}
          BY <1>1, <2>1, <2>2, <2>3
      <4>2. RunHasSizes(text, i, j)
          BY <4>1, ParsingAssumption DEF RunHasSizes
      <4> QED
          BY <2>2, <4>2, RunSizeType
    <3>5. /\ key \in DOMAIN entries'
          /\ SizeIn(text, entries'[key]) >= SizeIn(text, entries[key])
          /\ SizeIn(text, entries[key]) \in Int /\ SizeIn(text, entries'[key]) \in Int
        BY <1>2, <1>3, <1>4, <3>3
    <3> HIDE DEF key
    <3>6. SizeIn(text, entries'[key]) >= RunSizeIn(text, i, j)
        BY <3>3, <3>4, <3>5
    <3> QED
        BY <3>5, <3>6 DEF key
  <2>4. CASE j = Len(text) + 1
    <3>1. \A h \in i + 1 .. Len(text) : h \in i + 1 .. j - 1
        BY <2>2, <2>4
    <3>2. Unclosed(s, i)
        BY <2>1, <3>1 DEF Unclosed
    <3>3. current = s /\ pending = text[i].path /\ buffer[1] = i
        BY <1>1, <3>2 DEF LongestInv, UnclosedIsOpen
    <3>4. pending # None
      <4>1. text[i] \in Lines
          BY <1>1
      <4> QED
          BY <2>1, <3>3, <4>1, ParsingAssumption
    <3>5. Key = key
        BY <3>3 DEF Key
    <3>6. key \in DOMAIN entries' /\ SizeIn(text, entries'[key]) >= SizeIn(text, buffer)
        BY <1>1, <3>4, <3>5, FlushedIsLonger
    <3>7. SizeIn(text, buffer) = RunSizeIn(text, i, j)
        BY <2>4, <3>3, <3>4, BufferSize DEF LongestInv
    <3> QED
        BY <3>6, <3>7
  <2> QED
      BY <2>2, <2>3, <2>4
<1>7. ASSUME NEW s \in Standards, NEW i \in DOMAIN text', NEW j \in 2..Len(text') + 1,
             ClosedRun(s, i, j)'
      PROVE  /\ <<s, text'[i].path>> \in DOMAIN entries'
             /\ SizeIn(text', entries'[<<s, text'[i].path>>]) >= RunSizeIn(text', i, j)
    BY <1>1, <1>6, <1>7
<1>8. LongestKept'
    BY <1>7 DEF LongestKept, Size, SizeIn, RunSize, RunSizeIn,
                FoldSeq, FoldFunction, FoldFunctionOnSet, MapThenFoldSet
<1> QED
    BY <1>5, <1>8

\* What is known of an unclosed clause before the last line was read.
LEMMA UnclosedBefore ==
  ASSUME NEW line \in Lines, text \in Seq(Lines), text' = Append(text, line),
         NEW s, NEW i \in DOMAIN text', Unclosed(s, i)'
  PROVE  \/ /\ i \in DOMAIN text /\ text'[i] = text[i] /\ Unclosed(s, i)
            /\ line.kind \in {"prose", "noise"}
         \/ /\ i = Len(text) + 1 /\ text'[i] = line /\ line.kind = "opener"
            /\ Announced(s, Len(text))
            /\ \A h \in 1..Len(text) : text[h].kind = "appendix" =>
                 \E g \in h..Len(text) : text[g].kind = "header"
<1>1. /\ DOMAIN text' = 1..Len(text) + 1 /\ Len(text') = Len(text) + 1 /\ Len(text) \in Nat
      /\ \A h \in 1..Len(text) : text'[h] = text[h]
      /\ text'[Len(text) + 1] = line /\ DOMAIN text = 1..Len(text)
    BY ReadingKeeps
<1>2. /\ text'[i].kind = "opener" /\ Announced(s, i)'
      /\ \A h \in 1..i : text'[h].kind = "appendix" => \E g \in h..i : text'[g].kind = "header"
      /\ \A h \in i + 1 .. Len(text) + 1 : text'[h].kind \in {"prose", "noise"}
    BY <1>1 DEF Unclosed
<1>3. CASE i \in 1..Len(text)
  <2>1. Announced(s, i)
      BY <1>2, <1>3, AnnouncedBefore
  <2>2. \A h \in 1..i : text[h].kind = "appendix" => \E g \in h..i : text[g].kind = "header"
      BY <1>1, <1>2, <1>3
  <2>3. \A h \in i + 1 .. Len(text) : text[h].kind \in {"prose", "noise"}
      BY <1>1, <1>2, <1>3
  <2>4. line.kind \in {"prose", "noise"}
      BY <1>1, <1>2, <1>3
  <2> QED
      BY <1>1, <1>2, <1>3, <2>1, <2>2, <2>3, <2>4 DEF Unclosed
<1>4. CASE i = Len(text) + 1
  <2>1. text'[i] = line /\ line.kind = "opener"
      BY <1>1, <1>2, <1>4
  <2>2. Announced(s, Len(text))
      BY <1>2, <1>4, <2>1, AnnouncedBeforeOther
  <2>3. \A h \in 1..Len(text) : text[h].kind = "appendix" =>
          \E g \in h..Len(text) : text[g].kind = "header"
    <3> SUFFICES ASSUME NEW h \in 1..Len(text), text[h].kind = "appendix"
                 PROVE  \E g \in h..Len(text) : text[g].kind = "header"
        OBVIOUS
    <3>1. PICK g \in h..Len(text) + 1 : text'[g].kind = "header"
        BY <1>1, <1>2, <1>4
    <3>2. g # Len(text) + 1
        BY <1>1, <2>1, <3>1
    <3> QED
        BY <1>1, <3>1, <3>2
  <2> QED
      BY <1>4, <2>1, <2>2, <2>3
<1> QED
    BY <1>1, <1>3, <1>4

\* Every line read keeps what is known of the line before it, and of what is open.
LEMMA LongestStep == ParseInv /\ LongestInv /\ [ParseNext]_parseVars => LongestInv'
<1> SUFFICES ASSUME ParseInv, LongestInv, [ParseNext]_parseVars PROVE LongestInv'
    OBVIOUS
<1> USE DEF LongestInv
<1>1. text \in Seq(Lines) /\ buffer \in Seq(Nat)
    BY DEF ParseInv
<1>2. ASSUME NEW line \in Lines, text' = Append(text, line), line.kind # "header"
      PROVE  \A s : Announced(s, Len(text))' => Announced(s, Len(text))
  <2>1. PICK n : n = Len(text) + 1
      OBVIOUS
  <2>2. \A s : Announced(s, n)' => Announced(s, Len(text))
      BY <1>1, <1>2, <2>1, AnnouncedBeforeOther
  <2>3. Len(text') = n
      BY <1>1, <1>2, <2>1, ReadingKeeps
  <2> QED
      BY <2>2, <2>3 DEF Announced
<1>3. ASSUME ReadHeader PROVE LongestInv'
  <2>1. PICK line \in Lines : /\ line.kind = "header" /\ ~ended /\ text' = Append(text, line)
                              /\ Flush /\ appendix' = FALSE /\ current' = line.standard
                              /\ ended' = ended
      BY <1>3 DEF ReadHeader, Read, Announce
  <2>2. /\ Len(text') = Len(text) + 1 /\ Len(text) \in Nat /\ DOMAIN text' = 1..Len(text')
        /\ text'[Len(text')] = line
      BY <1>1, <2>1, ReadingKeeps
  <2>3. EntriesAreSized' /\ LongestKept'
      BY <2>1, LongestStays DEF Flush
  <2>4. AnnouncedIsCurrent'
      BY <2>1, <2>2 DEF AnnouncedIsCurrent, Announced
  <2>5. UnclosedIsOpen'
    <3>1. \A s, i : i \in DOMAIN text' => ~ Unclosed(s, i)'
        BY <1>1, <2>1, UnclosedBefore
    <3> QED
        BY <3>1 DEF UnclosedIsOpen
  <2> QED
      BY <2>1, <2>3, <2>4, <2>5 DEF AppendixSeen, BufferIsRun, Flush
<1>4. ASSUME Skip PROVE LongestInv'
  <2>1. PICK line \in Lines :
          /\ line.kind # "header" /\ ~ended /\ text' = Append(text, line)
          /\ current = None \/ (appendix /\ line.kind # "appendix")
          /\ UNCHANGED <<current, pending, buffer, appendix, entries, ended>>
      BY <1>4 DEF Skip, Read
  <2>2. /\ Len(text') = Len(text) + 1 /\ Len(text) \in Nat /\ DOMAIN text' = 1..Len(text')
        /\ DOMAIN text = 1..Len(text) /\ text'[Len(text')] = line
        /\ \A h \in 1..Len(text) : text'[h] = text[h]
      BY <1>1, <2>1, ReadingKeeps
  <2>3. pending = None
      BY <2>1 DEF ParseInv, OpenRun
  <2>4. EntriesAreSized' /\ LongestKept'
    <3>1. Flushed = entries
        BY <2>3 DEF Flushed
    <3> QED
        BY <2>1, <3>1, LongestStays
  <2>5. AnnouncedIsCurrent'
      BY <1>2, <2>1 DEF AnnouncedIsCurrent
  <2>6. AppendixSeen'
      BY <2>1, <2>2 DEF AppendixSeen
  <2>7. UnclosedIsOpen'
    <3> SUFFICES ASSUME NEW s \in Standards, NEW i \in DOMAIN text', Unclosed(s, i)'
                 PROVE  current = s /\ pending = text'[i].path /\ buffer[1] = i
        BY <2>1 DEF UnclosedIsOpen
    <3>1. CASE i \in DOMAIN text /\ text'[i] = text[i] /\ Unclosed(s, i)
        BY <2>1, <3>1 DEF UnclosedIsOpen
    <3>2. CASE /\ Announced(s, Len(text)) /\ line.kind = "opener"
               /\ \A h \in 1..Len(text) : text[h].kind = "appendix" =>
                    \E g \in h..Len(text) : text[g].kind = "header"
      <4>1. current = s /\ current # None
          BY <3>2, ParsingAssumption DEF AnnouncedIsCurrent
      <4> QED
          BY <2>1, <2>2, <3>2, <4>1 DEF AppendixSeen
    <3> QED
        BY <1>1, <2>1, <3>1, <3>2, UnclosedBefore
  <2> QED
      BY <2>1, <2>3, <2>4, <2>5, <2>6, <2>7 DEF BufferIsRun
<1>5. ASSUME ReadAppendix PROVE LongestInv'
  <2>1. PICK line \in Lines :
          /\ line.kind = "appendix" /\ ~ended /\ text' = Append(text, line)
          /\ Flush /\ appendix' = TRUE /\ current' = current /\ ended' = ended
      BY <1>5 DEF ReadAppendix, Read
  <2>2. /\ Len(text') = Len(text) + 1 /\ Len(text) \in Nat /\ DOMAIN text' = 1..Len(text')
        /\ text'[Len(text')] = line
      BY <1>1, <2>1, ReadingKeeps
  <2>3. EntriesAreSized' /\ LongestKept'
      BY <2>1, LongestStays DEF Flush
  <2>4. AnnouncedIsCurrent'
      BY <1>2, <2>1 DEF AnnouncedIsCurrent
  <2>5. AppendixSeen'
      BY <2>1, <2>2 DEF AppendixSeen
  <2>6. UnclosedIsOpen'
    <3>1. \A s, i : i \in DOMAIN text' => ~ Unclosed(s, i)'
        BY <1>1, <2>1, UnclosedBefore
    <3> QED
        BY <3>1 DEF UnclosedIsOpen
  <2> QED
      BY <2>1, <2>3, <2>4, <2>5, <2>6 DEF BufferIsRun, Flush
<1>6. ASSUME ReadOpener PROVE LongestInv'
  <2>1. PICK line \in Lines :
          /\ line.kind = "opener" /\ ~ended /\ text' = Append(text, line)
          /\ current # None /\ ~appendix /\ entries' = Flushed
          /\ pending' = line.path /\ buffer' = <<Position>>
          /\ UNCHANGED <<current, appendix, ended>>
      BY <1>6 DEF ReadOpener, Read
  <2>2. /\ Len(text') = Len(text) + 1 /\ Len(text) \in Nat /\ DOMAIN text' = 1..Len(text')
        /\ text'[Len(text')] = line /\ Position = Len(text')
      BY <1>1, <2>1, ReadingKeeps
  <2>3. EntriesAreSized' /\ LongestKept'
      BY <2>1, LongestStays
  <2>4. AnnouncedIsCurrent'
      BY <1>2, <2>1 DEF AnnouncedIsCurrent
  <2>5. BufferIsRun'
    <3>1. DOMAIN buffer' = {1} /\ buffer'[1] = Len(text')
        BY <2>1, <2>2
    <3> QED
        BY <2>1, <2>2, <3>1 DEF BufferIsRun
  <2>6. UnclosedIsOpen'
    <3> SUFFICES ASSUME NEW s \in Standards, NEW i \in DOMAIN text', Unclosed(s, i)'
                 PROVE  current = s /\ line.path = text'[i].path /\ buffer'[1] = i
        BY <2>1 DEF UnclosedIsOpen
    <3>1. i = Len(text) + 1 /\ text'[i] = line /\ Announced(s, Len(text))
        BY <1>1, <2>1, UnclosedBefore
    <3> QED
        BY <2>1, <2>2, <3>1 DEF AnnouncedIsCurrent
  <2> QED
      BY <2>1, <2>3, <2>4, <2>5, <2>6 DEF AppendixSeen
<1>7. ASSUME ReadProse PROVE LongestInv'
  <2>1. PICK line \in Lines :
          /\ line.kind \in {"prose", "noise"} /\ ~ended /\ text' = Append(text, line)
          /\ current # None /\ ~appendix
          /\ buffer' = IF line.kind = "prose" /\ pending # None
                       THEN Append(buffer, Position) ELSE buffer
          /\ UNCHANGED <<current, pending, appendix, entries, ended>>
      BY <1>7 DEF ReadProse, Read
  <2>2. /\ Len(text') = Len(text) + 1 /\ Len(text) \in Nat /\ DOMAIN text' = 1..Len(text')
        /\ text'[Len(text')] = line /\ Position = Len(text')
        /\ \A h \in 1..Len(text) : text'[h] = text[h]
      BY <1>1, <2>1, ReadingKeeps
  <2>3. EntriesAreSized' /\ LongestKept'
      BY <2>1, LongestStays
  <2>4. AnnouncedIsCurrent'
      BY <1>2, <2>1 DEF AnnouncedIsCurrent
  <2>5. ASSUME pending # None
        PROVE  BufferIsRun' /\ buffer'[1] = buffer[1]
    <3>1. buffer # <<>> /\ buffer[1] \in 1..Len(text)
      <4>1. OneRun(buffer, pending)
          BY <2>5 DEF ParseInv, OpenRun
      <4> QED
          BY <1>1, <4>1 DEF OneRun
    <3>2. /\ DOMAIN buffer = 1..Len(buffer) /\ Len(buffer) \in Nat \ {0}
          /\ \A i \in DOMAIN buffer : buffer[i] \in buffer[1] .. Len(text)
                                      /\ text[buffer[i]].kind \in {"opener", "prose"}
          /\ \A i, j \in DOMAIN buffer : i < j => buffer[i] < buffer[j]
        BY <1>1, <2>5, <3>1 DEF BufferIsRun
    <3>3. CASE line.kind = "prose"
      <4>1. /\ DOMAIN buffer' = 1..Len(buffer) + 1 /\ buffer'[Len(buffer) + 1] = Len(text')
            /\ \A i \in 1..Len(buffer) : buffer'[i] = buffer[i]
          BY <1>1, <2>1, <2>2, <2>5, <3>3
      <4>2. \A i \in DOMAIN buffer' : /\ buffer'[i] \in buffer'[1] .. Len(text')
                                      /\ text'[buffer'[i]].kind \in {"opener", "prose"}
          BY <2>2, <3>1, <3>2, <3>3, <4>1
      <4>3. \A i, j \in DOMAIN buffer' : i < j => buffer'[i] < buffer'[j]
          BY <2>2, <3>1, <3>2, <4>1
      <4> QED
          BY <3>2, <4>1, <4>2, <4>3 DEF BufferIsRun
    <3>4. CASE line.kind = "noise"
      <4>1. buffer' = buffer
          BY <2>1, <3>4
      <4> QED
          BY <2>2, <3>1, <3>2, <4>1 DEF BufferIsRun
    <3> QED
        BY <2>1, <3>3, <3>4
  <2>6. BufferIsRun'
    <3>1. CASE pending = None
        BY <2>1, <3>1 DEF BufferIsRun
    <3> QED
        BY <2>5, <3>1
  <2>7. UnclosedIsOpen'
    <3> SUFFICES ASSUME NEW s \in Standards, NEW i \in DOMAIN text', Unclosed(s, i)'
                 PROVE  current = s /\ pending = text'[i].path /\ buffer'[1] = i
        BY <2>1 DEF UnclosedIsOpen
    <3>1. i \in DOMAIN text /\ text'[i] = text[i] /\ Unclosed(s, i)
        BY <1>1, <2>1, UnclosedBefore
    <3>2. current = s /\ pending = text[i].path /\ buffer[1] = i
        BY <2>1, <3>1 DEF UnclosedIsOpen
    <3>3. pending # None
      <4>1. text[i] \in Lines /\ text[i].kind = "opener"
          BY <1>1, <3>1 DEF Unclosed
      <4> QED
          BY <3>2, <4>1, ParsingAssumption
    <3> QED
        BY <2>5, <3>1, <3>2, <3>3
  <2> QED
      BY <2>1, <2>3, <2>4, <2>6, <2>7 DEF AppendixSeen
<1>8. ASSUME EndOfText PROVE LongestInv'
  <2>1. EntriesAreSized' /\ LongestKept'
      BY <1>8, LongestAtEnd
  <2> QED
      BY <1>8, <2>1 DEF EndOfText, Flush, AppendixSeen, AnnouncedIsCurrent, Announced,
                        BufferIsRun, UnclosedIsOpen
<1>9. CASE UNCHANGED parseVars
  <2>1. LongestKept'
    <3>1. ASSUME NEW s \in Standards, NEW i \in DOMAIN text', NEW j \in 2..Len(text') + 1,
                 ClosedRun(s, i, j)'
          PROVE  /\ <<s, text'[i].path>> \in DOMAIN entries'
                 /\ SizeIn(text', entries'[<<s, text'[i].path>>]) >= RunSizeIn(text', i, j)
      <4>1. text' = text /\ entries' = entries /\ ClosedRun(s, i, j)
          BY <1>9, <3>1 DEF parseVars, ClosedRun, InBody, Announced
      <4>2. /\ <<s, text[i].path>> \in DOMAIN entries
            /\ Size(entries[<<s, text[i].path>>]) >= RunSize(i, j)
          BY <4>1 DEF LongestKept
      <4> QED
          BY <4>1, <4>2, SizesOfText
    <3> QED
        BY <3>1 DEF LongestKept, Size, SizeIn, RunSize, RunSizeIn,
                    FoldSeq, FoldFunction, FoldFunctionOnSet, MapThenFoldSet
  <2> QED
      BY <1>9, <2>1 DEF parseVars, AppendixSeen, AnnouncedIsCurrent, Announced,
                        BufferIsRun, UnclosedIsOpen, Unclosed, EntriesAreSized
<1> QED
    BY <1>3, <1>4, <1>5, <1>6, <1>7, <1>8, <1>9 DEF ParseNext

\* parse_standards ("keeping the longest occurrence discards TOC entries"):
\* whatever the text, of all the runs that were closed for a clause of a
\* standard, none is longer than the one kept.
THEOREM LongestIsKept == Spec => []LongestKept
<1>1. Init => ParseInv /\ LongestInv
  <2>1. ParseInit => LongestInv
      BY DEF ParseInit, LongestInv, AppendixSeen, AnnouncedIsCurrent, Announced, BufferIsRun,
             UnclosedIsOpen, EntriesAreSized, LongestKept
  <2> QED
      BY <2>1, InitParse DEF Init
<1>2. ParseInv /\ LongestInv /\ [Next]_vars => ParseInv' /\ LongestInv'
  <2> SUFFICES ASSUME ParseInv, LongestInv, [Next]_vars PROVE ParseInv' /\ LongestInv'
      OBVIOUS
  <2> [ParseNext]_parseVars
      BY DEF Next, Parse, Select, ChunkClause, vars, parseVars
  <2> QED
      BY ParseStep, LongestStep
<1>3. LongestInv => LongestKept
    BY DEF LongestInv
<1> QED
    BY <1>1, <1>2, <1>3, PTL DEF Spec

-----------------------------------------------------------------------------
(* The parts of a clause *)

Strings == Seq(Nat \X Nat)

\* A piece of text stands in another one, after its first `at` characters.
Stands(piece, whole, at) ==
    /\ at \in Nat
    /\ at + Len(piece) <= Len(whole)
    /\ \A i \in 1..Len(piece) : whole[at + i] = piece[i]

\* Then it occurs there.
LEMMA StandsOccurs ==
  ASSUME NEW piece \in Strings, NEW whole \in Strings, NEW at, Stands(piece, whole, at)
  PROVE  at \in Occurs(piece, whole)
<1>1. /\ at \in 0..Len(whole) - Len(piece) /\ Len(piece) \in Nat /\ Len(whole) \in Nat
      /\ DOMAIN piece = 1..Len(piece)
    BY DEF Stands, Strings
<1>2. SubSeq(whole, at + 1, at + Len(piece)) = piece
  <2> DEFINE cut == SubSeq(whole, at + 1, at + Len(piece))
  <2>1. PICK len \in Nat : len = Len(piece)
      BY <1>1
  <2>2. at + 1 \in Int /\ at + len \in Int /\ at \in Nat
      BY <1>1, <2>1
  <2>3. \A i \in at + 1 .. at + len : whole[i] \in Nat \X Nat
    <3>1. \A i \in at + 1 .. at + len : i \in 1..Len(whole)
        BY <1>1, <2>1
    <3> QED
        BY <3>1 DEF Strings
  <2>4. /\ cut \in Seq(Nat \X Nat) /\ Len(cut) = len
        /\ \A i \in 1..len : cut[i] = whole[at + i]
    <3>1. /\ SubSeq(whole, at + 1, at + len) \in Seq(Nat \X Nat)
          /\ Len(SubSeq(whole, at + 1, at + len)) =
                IF at + 1 <= at + len THEN at + len - (at + 1) + 1 ELSE 0
          /\ \A i \in 1 .. at + len - (at + 1) + 1 :
               SubSeq(whole, at + 1, at + len)[i] = whole[at + 1 + i - 1]
        BY <2>2, <2>3, SubSeqProperties
    <3>2. at + len - (at + 1) + 1 = len /\ (at + 1 <= at + len \/ len = 0)
        BY <2>1, <2>2
    <3>3. \A i \in 1..len : at + 1 + i - 1 = at + i
        BY <2>1, <2>2
    <3>4. cut = SubSeq(whole, at + 1, at + len)
        BY <2>1
    <3> HIDE DEF cut
    <3> QED
        BY <3>1, <3>2, <3>3, <3>4
  <2> HIDE DEF cut
  <2>5. \A i \in 1..len : cut[i] = piece[i]
      BY <2>1, <2>4 DEF Stands
  <2>6. cut = piece
      BY <2>1, <2>4, <2>5, SeqEqual DEF Strings
  <2> QED
      BY <2>6 DEF cut
<1> QED
    BY <1>1, <1>2 DEF Occurs

\* The length of a string, and of one that is not empty.
LEMMA StringLength ==
  ASSUME NEW s \in Strings
  PROVE  Len(s) \in Nat /\ (s # <<>> => Len(s) \in Nat \ {0})
  BY DEF Strings

\* One more sentence, after a space.
LEMMA OneMoreSentence ==
  ASSUME NEW front \in Strings, NEW s \in Strings
  PROVE  LET whole == front \o <<Space>> \o s
         IN  /\ whole \in Strings
             /\ Len(whole) = Len(front) + 1 + Len(s)
             /\ \A i \in 1..Len(front) : whole[i] = front[i]
             /\ whole[Len(front) + 1] = Space
             /\ \A i \in 1..Len(s) : whole[Len(front) + 1 + i] = s[i]
<1>1. Space \in Nat \X Nat
    BY DEF Space
<1>2. front \o <<Space>> \in Strings /\ Len(front \o <<Space>>) = Len(front) + 1
      /\ (\A i \in 1..Len(front) : (front \o <<Space>>)[i] = front[i])
      /\ (front \o <<Space>>)[Len(front) + 1] = Space
    BY <1>1 DEF Strings
<1> QED
    BY <1>2 DEF Strings

\* What stands in a text still does when a sentence is added, and so does that.
LEMMA StandsOn ==
  ASSUME NEW front \in Strings, NEW s \in Strings
  PROVE  /\ Stands(s, front \o <<Space>> \o s, Len(front) + 1)
         /\ \A piece \in Strings, at \in Nat :
              Stands(piece, front, at) => Stands(piece, front \o <<Space>> \o s, at)
<1> DEFINE whole == front \o <<Space>> \o s
<1>1. /\ Len(whole) = Len(front) + 1 + Len(s) /\ Len(front) \in Nat /\ Len(s) \in Nat
      /\ \A i \in 1..Len(front) : whole[i] = front[i]
      /\ \A i \in 1..Len(s) : whole[Len(front) + 1 + i] = s[i]
  <2>1. Len(front) \in Nat /\ Len(s) \in Nat
      BY StringLength
  <2> QED
      BY <2>1, OneMoreSentence
<1> HIDE DEF whole
<1>2. Stands(s, whole, Len(front) + 1)
    BY <1>1 DEF Stands
<1>3. ASSUME NEW piece \in Strings, NEW at \in Nat, Stands(piece, front, at)
      PROVE  Stands(piece, whole, at)
  <2>1. PICK len \in Nat : len = Len(piece)
      BY DEF Strings
  <2>2. at + len <= Len(front) /\ \A i \in 1..len : front[at + i] = piece[i]
      BY <1>3, <2>1 DEF Stands
  <2>3. \A i \in 1..len : at + i \in 1..Len(front)
      BY <1>1, <2>1, <2>2
  <2>4. \A i \in 1..len : whole[at + i] = piece[i]
      BY <1>1, <2>2, <2>3
  <2>5. at + len <= Len(whole)
      BY <1>1, <2>1, <2>2
  <2> QED
      BY <2>1, <2>4, <2>5 DEF Stands
<1> QED
    BY <1>2, <1>3 DEF whole

\* `current[-OVERLAP_CHARS:].strip()` is the end of a part, of bounded length.
LEMMA TailIsCarried ==
  ASSUME NEW part \in Strings
  PROVE  LET tail == CarriedTail(part)
         IN  /\ tail \in Strings
             /\ Len(tail) <= Overlap /\ Len(tail) <= Len(part)
             /\ Stands(tail, part, Len(part) - Len(tail))
<1>1. Len(part) \in Nat /\ Overlap \in Nat \ {0}
    BY ChunkingAssumption DEF Strings
<1>2. CASE Len(part) <= Overlap
    BY <1>1, <1>2 DEF CarriedTail, Stands, Strings
<1>3. CASE Len(part) > Overlap
  <2> DEFINE tail == SubSeq(part, Len(part) - Overlap + 1, Len(part))
  <2>1. /\ tail \in Strings /\ Len(tail) = Overlap
        /\ \A i \in 1..Overlap : tail[i] = part[Len(part) - Overlap + i]
    <3>1. /\ Len(part) - Overlap + 1 \in Int /\ Len(part) \in Int
          /\ Len(part) - Overlap + 1 <= Len(part)
          /\ Len(part) - (Len(part) - Overlap + 1) + 1 = Overlap
          /\ \A i \in 1..Overlap : Len(part) - Overlap + 1 + i - 1 = Len(part) - Overlap + i
        BY <1>1, <1>3
    <3>2. \A i \in Len(part) - Overlap + 1 .. Len(part) : part[i] \in Nat \X Nat
      <4>1. \A i \in Len(part) - Overlap + 1 .. Len(part) : i \in 1..Len(part)
          BY <1>1, <1>3
      <4> QED
          BY <4>1 DEF Strings
    <3>3. /\ tail \in Seq(Nat \X Nat)
          /\ Len(tail) = IF Len(part) - Overlap + 1 <= Len(part)
                         THEN Len(part) - (Len(part) - Overlap + 1) + 1 ELSE 0
          /\ \A i \in 1 .. Len(part) - (Len(part) - Overlap + 1) + 1 :
               tail[i] = part[Len(part) - Overlap + 1 + i - 1]
        BY <3>1, <3>2, SubSeqProperties
    <3> HIDE DEF tail
    <3> QED
        BY <3>1, <3>3 DEF Strings
  <2> HIDE DEF tail
  <2>2. /\ Tail(tail) \in Strings /\ Len(Tail(tail)) = Overlap - 1
        /\ \A i \in 1..Overlap - 1 : Tail(tail)[i] = tail[i + 1]
      BY <1>1, <2>1 DEF Strings
  <2>3. Stands(tail, part, Len(part) - Len(tail))
      BY <1>1, <1>3, <2>1 DEF Stands
  <2>4. Stands(Tail(tail), part, Len(part) - Len(Tail(tail)))
    <3>1. ASSUME NEW i \in 1..Overlap - 1
          PROVE  part[Len(part) - (Overlap - 1) + i] = Tail(tail)[i]
      <4>1. i + 1 \in 1..Overlap /\ Len(part) - Overlap + (i + 1) = Len(part) - (Overlap - 1) + i
          BY <1>1
      <4> QED
          BY <2>1, <2>2, <4>1
    <3>2. Len(part) - (Overlap - 1) \in Nat
          /\ Len(part) - (Overlap - 1) + (Overlap - 1) <= Len(part)
        BY <1>1, <1>3
    <3> QED
        BY <2>2, <3>1, <3>2 DEF Stands
  <2>5. CarriedTail(part) = tail \/ CarriedTail(part) = Tail(tail)
      BY <1>1, <1>3 DEF CarriedTail, tail
  <2>6. CASE CarriedTail(part) = tail
      BY <1>1, <1>3, <2>1, <2>3, <2>6
  <2>7. CASE CarriedTail(part) = Tail(tail)
    <3>1. Overlap - 1 <= Overlap /\ Overlap - 1 <= Len(part)
        BY <1>1, <1>3
    <3> QED
        BY <2>2, <2>4, <2>7, <3>1
  <2> QED
      BY <2>5, <2>6, <2>7
<1> QED
    BY <1>1, <1>2, <1>3

\* The text is put together sentence by sentence.
LEMMA TextIsBuilt ==
  ASSUME NEW ss \in Seq(Strings)
  PROVE  \E T \in [0..Len(ss) -> Strings] :
           /\ T[0] = <<>>
           /\ \A n \in 1..Len(ss) : T[n] = Joined(T[n - 1], ss[n])
           /\ T[Len(ss)] = Text(ss)
<1> DEFINE F == [p \in Strings \X Strings |-> Joined(p[1], p[2])]
<1> DEFINE Built(g) == g = [s \in SUBSET DOMAIN ss |->
             IF s = {} THEN <<>> ELSE Joined(g[s \ {Max(s)}], ss[Max(s)])]
<1> DEFINE it == CHOOSE g : Built(g)
<1>1. Len(ss) \in Nat /\ DOMAIN ss = 1..Len(ss) /\ <<>> \in Strings
    BY DEF Strings
<1>2. F \in [Strings \X Strings -> Strings]
    BY OneMoreSentence DEF Joined
<1>3. \A s \in SUBSET DOMAIN ss : s # {} => ss[Max(s)] \in Strings
    BY <1>1, MaxIsIn
<1>4. \E g : Built(g)
  <2>1. PICK g \in [SUBSET (DOMAIN ss) -> Strings] : IsFold(g, F, <<>>, ss)
    <3> HIDE DEF F
    <3> QED
        BY <1>1, <1>2, FoldIsDefined
  <2>2. ASSUME NEW s \in SUBSET DOMAIN ss, s # {}
        PROVE  F[<<g[s \ {Max(s)}], ss[Max(s)]>>] = Joined(g[s \ {Max(s)}], ss[Max(s)])
      BY <1>3, <2>2
  <2>3. Built(g)
    <3> HIDE DEF F
    <3> QED
        BY <2>1, <2>2 DEF IsFold
  <2> QED
      BY <2>3
<1>5. Built(it)
    BY <1>4
<1>6. Text(ss) = it[DOMAIN ss]
    BY DEF Text, FoldLeft, MapThenFoldSet
<1> HIDE DEF it
<1>7. it[{}] = <<>>
    BY <1>5
<1>8. FoldsWithin(it, Strings, F, <<>>, ss)
    BY <1>3, <1>5, <1>7 DEF FoldsWithin
<1>9. PICK T \in [0..Len(ss) -> Strings] :
        /\ T[0] = <<>>
        /\ \A n \in 1..Len(ss) : T[n] = F[<<T[n - 1], ss[n]>>]
        /\ T[Len(ss)] = it[DOMAIN ss]
  <2> HIDE DEF F
  <2>1. RunsTo(Strings, F, <<>>, ss, it[DOMAIN ss])
      BY <1>1, <1>2, <1>8, FoldIsRun
  <2> QED
      BY <2>1 DEF RunsTo
<1>10. ASSUME NEW n \in 1..Len(ss) PROVE T[n] = Joined(T[n - 1], ss[n])
  <2>1. T[n - 1] \in Strings /\ ss[n] \in Strings
      BY <1>1, <1>9
  <2> QED
      BY <1>9, <2>1
<1> QED
    BY <1>6, <1>9, <1>10

\* The loop of _split_long takes the sentences one by one.
States == [parts : Seq(Strings), current : Strings]
Start == [parts |-> <<>>, current |-> <<>>]

LEMMA TakeType ==
  ASSUME NEW state \in States, NEW s \in Strings
  PROVE  Take(state, s) \in States
<1>1. state.parts \in Seq(Strings) /\ state.current \in Strings
    BY DEF States
<1>2. CASE Overflows(state.current, s)
  <2>1. CarriedTail(state.current) \in Strings
      BY <1>1, TailIsCarried
  <2>2. CarriedTail(state.current) \o <<Space>> \o s \in Strings
      BY <2>1, OneMoreSentence
  <2>3. Append(state.parts, state.current) \in Seq(Strings)
      BY <1>1
  <2> QED
      BY <1>2, <2>2, <2>3 DEF Take, States
<1>3. CASE ~ Overflows(state.current, s)
  <2>1. Joined(state.current, s) \in Strings
      BY <1>1, OneMoreSentence DEF Joined
  <2> QED
      BY <1>3, <2>1 DEF Take, States
<1> QED
    BY <1>2, <1>3

LEMMA PartsAreTaken ==
  ASSUME NEW ss \in Seq(Strings)
  PROVE  \E R \in [0..Len(ss) -> States] :
           /\ R[0] = Start
           /\ \A n \in 1..Len(ss) : R[n] = Take(R[n - 1], ss[n])
           /\ R[Len(ss)] = FoldLeft(Take, Start, ss)
<1> DEFINE F == [p \in States \X Strings |-> Take(p[1], p[2])]
<1> DEFINE Built(g) == g = [s \in SUBSET DOMAIN ss |->
             IF s = {} THEN Start ELSE Take(g[s \ {Max(s)}], ss[Max(s)])]
<1> DEFINE it == CHOOSE g : Built(g)
<1>1. Len(ss) \in Nat /\ DOMAIN ss = 1..Len(ss) /\ Start \in States
    BY DEF Strings, States, Start
<1>2. F \in [States \X Strings -> States]
    BY TakeType
<1>3. \A s \in SUBSET DOMAIN ss : s # {} => ss[Max(s)] \in Strings
    BY <1>1, MaxIsIn
<1>4. \E g : Built(g)
  <2>1. PICK g \in [SUBSET (DOMAIN ss) -> States] : IsFold(g, F, Start, ss)
    <3> HIDE DEF F
    <3> QED
        BY <1>1, <1>2, FoldIsDefined
  <2>2. ASSUME NEW s \in SUBSET DOMAIN ss, s # {}
        PROVE  F[<<g[s \ {Max(s)}], ss[Max(s)]>>] = Take(g[s \ {Max(s)}], ss[Max(s)])
      BY <1>3, <2>2
  <2>3. Built(g)
    <3> HIDE DEF F
    <3> QED
        BY <2>1, <2>2 DEF IsFold
  <2> QED
      BY <2>3
<1>5. Built(it)
    BY <1>4
<1>6. FoldLeft(Take, Start, ss) = it[DOMAIN ss]
    BY DEF FoldLeft, MapThenFoldSet
<1> HIDE DEF it
<1>7. it[{}] = Start
    BY <1>5
<1>8. FoldsWithin(it, States, F, Start, ss)
    BY <1>3, <1>5, <1>7 DEF FoldsWithin
<1>9. PICK R \in [0..Len(ss) -> States] :
        /\ R[0] = Start
        /\ \A n \in 1..Len(ss) : R[n] = F[<<R[n - 1], ss[n]>>]
        /\ R[Len(ss)] = it[DOMAIN ss]
  <2> HIDE DEF F
  <2>1. RunsTo(States, F, Start, ss, it[DOMAIN ss])
      BY <1>1, <1>2, <1>8, FoldIsRun
  <2> QED
      BY <2>1 DEF RunsTo
<1>10. ASSUME NEW n \in 1..Len(ss) PROVE R[n] = Take(R[n - 1], ss[n])
  <2>1. R[n - 1] \in States /\ ss[n] \in Strings
      BY <1>1, <1>9
  <2> QED
      BY <1>9, <2>1
<1> QED
    BY <1>6, <1>9, <1>10

\* What is known of a text once its first n sentences have been put together.
TextFacts(ss, n, whole) ==
    /\ whole \in Strings \ {<<>>}
    /\ \A m \in 1..n : \E at \in Nat : Stands(ss[m], whole, at)
    /\ whole[Len(whole)] = ss[n][Len(ss[n])]

\* What is known of a part: the sentence it ends in, and how long it is.
Fits(part, ss, n) ==
    \E m \in 1..n :
        /\ part[Len(part)] = ss[m][Len(ss[m])]
        /\ Len(part) <= MaxChunk \/ Len(part) <= Overlap + 1 + Len(ss[m])

\* Where the parts of a text stand in it.
InOrder(parts, whole, at) ==
    /\ \A k \in DOMAIN parts : Stands(parts[k], whole, at[k])
    /\ \A k \in 1..Len(parts) - 1 :
         /\ at[k] <= at[k + 1] /\ at[k + 1] <= at[k] + Len(parts[k])
         /\ at[k] + Len(parts[k]) < at[k + 1] + Len(parts[k + 1])

\* The loop's invariant: `parts` and the part that is still open cover the text
\* of the first n sentences, in its order.
SplitFacts(ss, n, whole, parts) ==
    /\ parts \in Seq(Strings \ {<<>>}) /\ parts # <<>>
    /\ \E at \in [DOMAIN parts -> Nat] :
         /\ InOrder(parts, whole, at)
         /\ at[Len(parts)] + Len(parts[Len(parts)]) = Len(whole)
    /\ \A m \in 1..n : \E k \in DOMAIN parts, o \in Nat : Stands(ss[m], parts[k], o)
    /\ \A k \in DOMAIN parts : Fits(parts[k], ss, n)

\* A sentence has a last character, and stands in itself.
LEMMA SentenceType ==
  ASSUME NEW ss \in Seq(Strings \ {<<>>}), NEW n \in 1..Len(ss)
  PROVE  /\ ss[n] \in Strings /\ ss[n] # <<>> /\ Len(ss[n]) \in Nat \ {0}
         /\ Stands(ss[n], ss[n], 0)
<1>1. ss[n] \in Strings /\ ss[n] # <<>>
    OBVIOUS
<1>2. Len(ss[n]) \in Nat \ {0}
    BY <1>1, StringLength
<1> QED
    BY <1>1, <1>2 DEF Stands

\* The first sentence is the whole text, and the part that is open.
LEMMA FirstSentence ==
  ASSUME NEW ss \in Seq(Strings \ {<<>>}), ss # <<>>
  PROVE  TextFacts(ss, 1, ss[1]) /\ SplitFacts(ss, 1, ss[1], <<ss[1]>>)
<1>1. 1 \in 1..Len(ss)
    OBVIOUS
<1>2. ss[1] \in Strings \ {<<>>} /\ Stands(ss[1], ss[1], 0) /\ Len(ss[1]) \in Nat \ {0}
    BY <1>1, SentenceType
<1>3. PICK s : s = ss[1]
    OBVIOUS
<1>4. TextFacts(ss, 1, s)
    BY <1>2, <1>3 DEF TextFacts
<1>5. /\ <<s>> \in Seq(Strings \ {<<>>}) /\ <<s>> # <<>>
      /\ DOMAIN <<s>> = {1} /\ <<s>>[1] = s /\ Len(<<s>>) = 1
    BY <1>2, <1>3
<1>6. Fits(s, ss, 1)
  <2>1. Overlap \in Nat /\ Len(s) \in Nat
      BY <1>2, <1>3, ChunkingAssumption
  <2>2. Len(s) <= Overlap + 1 + Len(s)
      BY <2>1
  <2> QED
      BY <1>3, <2>2 DEF Fits
<1>7. \E at \in [DOMAIN <<s>> -> Nat] :
        InOrder(<<s>>, s, at) /\ at[Len(<<s>>)] + Len(<<s>>[Len(<<s>>)]) = Len(s)
  <2>1. [k \in {1} |-> 0] \in [DOMAIN <<s>> -> Nat]
      BY <1>5
  <2>2. InOrder(<<s>>, s, [k \in {1} |-> 0])
      BY <1>2, <1>3, <1>5 DEF InOrder
  <2> QED
      BY <1>2, <1>3, <1>5, <2>1, <2>2
<1>8. SplitFacts(ss, 1, s, <<s>>)
    BY <1>2, <1>3, <1>5, <1>6, <1>7 DEF SplitFacts
<1> QED
    BY <1>3, <1>4, <1>8

\* Where what follows a part that the text ends with stands.
LEMMA EndsTogether ==
  ASSUME NEW start \in Nat, NEW tail \in Nat, NEW whole \in Nat, start + tail = whole
  PROVE  /\ start + (tail + 1) = whole + 1
         /\ \A j \in Nat : start + (tail + 1 + j) = whole + 1 + j
OBVIOUS

\* The next sentence of the text.
LEMMA NextOfText ==
  ASSUME NEW ss \in Seq(Strings \ {<<>>}), NEW n \in 2..Len(ss), NEW whole, TextFacts(ss, n - 1, whole)
  PROVE  TextFacts(ss, n, whole \o <<Space>> \o ss[n])
<1>0. PICK s : s = ss[n]
    OBVIOUS
<1> DEFINE longer == whole \o <<Space>> \o s
<1>1. n \in 1..Len(ss) /\ n \in Nat
    OBVIOUS
<1>2. s \in Strings /\ Len(s) \in Nat \ {0} /\ whole \in Strings /\ Len(whole) \in Nat
    BY <1>0, <1>1, SentenceType, StringLength DEF TextFacts
<1>3. /\ longer \in Strings /\ Len(longer) = Len(whole) + 1 + Len(s)
      /\ longer[Len(whole) + 1 + Len(s)] = s[Len(s)]
  <2>1. /\ longer \in Strings /\ Len(longer) = Len(whole) + 1 + Len(s)
        /\ \A i \in 1..Len(s) : longer[Len(whole) + 1 + i] = s[i]
      BY <1>2, OneMoreSentence
  <2>2. Len(s) \in 1..Len(s)
      BY <1>2
  <2> HIDE DEF longer
  <2> QED
      BY <2>1, <2>2
<1> HIDE DEF longer
<1>4. ASSUME NEW m \in 1..n PROVE \E at \in Nat : Stands(ss[m], longer, at)
  <2>1. CASE m = n
    <3>1. Stands(s, longer, Len(whole) + 1)
        BY <1>2, StandsOn DEF longer
    <3> QED
        BY <1>0, <1>2, <2>1, <3>1
  <2>2. CASE m # n
    <3>1. m \in 1..n - 1 /\ m \in 1..Len(ss)
        BY <1>1, <2>2
    <3>2. PICK at \in Nat : Stands(ss[m], whole, at)
        BY <3>1 DEF TextFacts
    <3>3. ss[m] \in Strings
        BY <3>1, SentenceType
    <3>4. Stands(ss[m], longer, at)
        BY <1>2, <3>2, <3>3, StandsOn DEF longer
    <3> QED
        BY <3>4
  <2> QED
      BY <2>1, <2>2
<1>5. longer # <<>>
  <2>1. Len(<<>>) = 0
      OBVIOUS
  <2> QED
      BY <1>2, <1>3, <2>1
<1>6. TextFacts(ss, n, longer)
    BY <1>0, <1>3, <1>4, <1>5 DEF TextFacts
<1> QED
    BY <1>0, <1>6 DEF longer

\* The next sentence goes into the part that is open.
LEMMA NextInPart ==
  ASSUME NEW ss \in Seq(Strings \ {<<>>}), NEW n \in 2..Len(ss), NEW whole \in Strings,
         NEW parts \in Seq(Strings), NEW part \in Strings,
         SplitFacts(ss, n - 1, whole, Append(parts, part)),
         ~ Overflows(part, ss[n])
  PROVE  SplitFacts(ss, n, whole \o <<Space>> \o ss[n], Append(parts, Joined(part, ss[n])))
<1>0. PICK s : s = ss[n]
    OBVIOUS
<1> DEFINE longer == whole \o <<Space>> \o s
<1> DEFINE old == Append(parts, part)
<1> DEFINE last == part \o <<Space>> \o s
<1> DEFINE new == Append(parts, last)
<1> DEFINE K == Len(parts) + 1
<1>1. n \in 1..Len(ss) /\ n \in Nat /\ K \in Nat \ {0} /\ MaxChunk \in Nat
    BY ChunkingAssumption
<1>2. /\ s \in Strings /\ Len(s) \in Nat \ {0}
      /\ Len(whole) \in Nat /\ Len(part) \in Nat
    BY <1>0, <1>1, SentenceType, StringLength
<1>3. /\ longer \in Strings /\ Len(longer) = Len(whole) + 1 + Len(s)
      /\ (\A i \in 1..Len(whole) : longer[i] = whole[i])
      /\ longer[Len(whole) + 1] = Space
      /\ (\A i \in 1..Len(s) : longer[Len(whole) + 1 + i] = s[i])
    BY <1>2, OneMoreSentence
<1> HIDE DEF longer
<1>4. /\ last \in Strings /\ Len(last) = Len(part) + 1 + Len(s)
      /\ (\A i \in 1..Len(part) : last[i] = part[i])
      /\ last[Len(part) + 1] = Space
      /\ (\A i \in 1..Len(s) : last[Len(part) + 1 + i] = s[i])
    BY <1>2, OneMoreSentence
<1>5. /\ Len(old) = K /\ DOMAIN old = 1..K /\ old[K] = part
      /\ \A k \in 1..K - 1 : old[k] = parts[k]
    OBVIOUS
<1>6. /\ old \in Seq(Strings \ {<<>>})
      /\ \A k \in 1..K - 1 : parts[k] \in Strings /\ parts[k] # <<>>
      /\ part # <<>>
  <2>1. old \in Seq(Strings \ {<<>>})
      BY DEF SplitFacts
  <2>2. \A k \in 1..K : old[k] \in Strings \ {<<>>}
    <3> HIDE DEF old
    <3> QED
        BY <1>5, <2>1
  <2> QED
      BY <1>1, <1>5, <2>1, <2>2
<1> HIDE DEF old
<1>7. Joined(part, s) = last
    BY <1>6 DEF Joined
<1> HIDE DEF last
<1>8. Len(last) <= MaxChunk /\ last # <<>>
  <2>1. ~ (Len(part) + Len(s) + 1 > MaxChunk)
      BY <1>0, <1>6 DEF Overflows
  <2>2. Len(<<>>) = 0
      OBVIOUS
  <2> QED
      BY <1>1, <1>2, <1>4, <2>1, <2>2
<1>9. /\ Len(new) = K /\ DOMAIN new = 1..K /\ new[K] = last
      /\ (\A k \in 1..K - 1 : new[k] = parts[k])
      /\ new \in Seq(Strings \ {<<>>}) /\ new # <<>>
  <2>1. new \in Seq(Strings)
      BY <1>4
  <2>2. /\ Len(new) = K /\ DOMAIN new = 1..K /\ new[K] = last
        /\ \A k \in 1..K - 1 : new[k] = parts[k]
      BY <1>4
  <2>3. \A k \in 1..K : new[k] \in Strings \ {<<>>}
      BY <1>1, <1>4, <1>6, <1>8, <2>2
  <2> HIDE DEF new, K
  <2> QED
      BY <1>1, <2>1, <2>2, <2>3
<1> HIDE DEF new, K
<1>10. PICK at \in [1..K -> Nat] :
         InOrder(old, whole, at) /\ at[K] + Len(part) = Len(whole)
    BY <1>5 DEF SplitFacts, old
<1>11. InOrder(new, longer, at) /\ at[K] + Len(last) = Len(longer)
  <2>1. ASSUME NEW k \in 1..K - 1 PROVE Stands(new[k], longer, at[k])
    <3>1. k \in 1..K /\ parts[k] \in Strings /\ at[k] \in Nat
        BY <1>1, <1>6
    <3>2. Stands(parts[k], whole, at[k])
        BY <1>5, <1>10, <3>1 DEF InOrder
    <3>3. Stands(parts[k], longer, at[k])
        BY <1>2, <3>1, <3>2, StandsOn DEF longer
    <3> QED
        BY <1>9, <3>3
  <2>2. Stands(last, longer, at[K])
    <3>1. PICK a \in Nat : a = at[K]
        BY <1>1
    <3>2. \A i \in 1..Len(part) : whole[a + i] = part[i]
      <4>1. Stands(part, whole, a)
        <5>1. K \in 1..K
            BY <1>1
        <5> QED
            BY <1>5, <1>10, <3>1, <5>1 DEF InOrder
      <4> QED
          BY <1>10, <3>1, <4>1 DEF Stands
    <3>3. a + Len(part) = Len(whole)
        BY <1>10, <3>1
    <3>4. /\ a + (Len(part) + 1) = Len(whole) + 1
          /\ \A j \in Nat : a + (Len(part) + 1 + j) = Len(whole) + 1 + j
        BY <1>2, <3>3, EndsTogether
    <3>5. ASSUME NEW i \in 1..Len(last) PROVE longer[a + i] = last[i]
      <4>1. CASE i \in 1..Len(part)
        <5>1. a + i \in 1..Len(whole)
            BY <1>2, <3>3, <4>1
        <5> QED
            BY <1>3, <1>4, <3>2, <4>1, <5>1
      <4>2. CASE i = Len(part) + 1
        <5>1. a + i = Len(whole) + 1
            BY <3>4, <4>2
        <5> QED
            BY <1>3, <1>4, <4>2, <5>1
      <4>3. CASE i > Len(part) + 1
        <5>1. PICK j \in 1..Len(s) : i = Len(part) + 1 + j
          <6>1. i \in Nat /\ i <= Len(part) + 1 + Len(s)
              BY <1>2, <1>4
          <6>2. /\ i - (Len(part) + 1) \in 1..Len(s)
                /\ i = Len(part) + 1 + (i - (Len(part) + 1))
              BY <1>2, <4>3, <6>1
          <6> QED
              BY <6>2
        <5>2. a + i = Len(whole) + 1 + j
            BY <3>4, <5>1
        <5> QED
            BY <1>3, <1>4, <5>1, <5>2
      <4>4. i \in Nat \ {0} /\ Len(part) \in Nat
          BY <1>2, <1>4
      <4>5. i \in 1..Len(part) \/ i = Len(part) + 1 \/ i > Len(part) + 1
          BY <4>4
      <4> QED
          BY <4>1, <4>2, <4>3, <4>5
    <3>6. a + Len(last) <= Len(longer)
        BY <1>2, <1>3, <1>4, <3>3
    <3> QED
        BY <3>1, <3>5, <3>6 DEF Stands
  <2>3. ASSUME NEW k \in 1..K - 1
        PROVE  /\ at[k] <= at[k + 1] /\ at[k + 1] <= at[k] + Len(new[k])
               /\ at[k] + Len(new[k]) < at[k + 1] + Len(new[k + 1])
    <3>1. /\ at[k] <= at[k + 1] /\ at[k + 1] <= at[k] + Len(old[k])
          /\ at[k] + Len(old[k]) < at[k + 1] + Len(old[k + 1])
        BY <1>5, <1>10 DEF InOrder, K
    <3>2. new[k] = old[k]
        BY <1>5, <1>9
    <3>3. k + 1 \in 1..K /\ k \in 1..K /\ at[k] \in Nat /\ at[k + 1] \in Nat
        BY <1>1
    <3>4. PICK a0, a1, len, was, is : /\ a0 = at[k] /\ a1 = at[k + 1] /\ len = Len(old[k])
                                      /\ was = Len(old[k + 1]) /\ is = Len(new[k + 1])
        OBVIOUS
    <3>5. is >= was /\ is \in Nat /\ was \in Nat
      <4>1. CASE k + 1 = K
        <5>1. was = Len(part) /\ is = Len(last)
            BY <1>5, <1>9, <3>4, <4>1
        <5>2. Len(last) >= Len(part) /\ Len(last) \in Nat /\ Len(part) \in Nat
            BY <1>2, <1>4
        <5> QED
            BY <5>1, <5>2
      <4>2. CASE k + 1 # K
        <5>1. k + 1 \in 1..K - 1
            BY <1>1, <3>3, <4>2
        <5>2. new[k + 1] = parts[k + 1] /\ old[k + 1] = parts[k + 1] /\ parts[k + 1] \in Strings
            BY <1>5, <1>6, <1>9, <5>1
        <5>3. was \in Nat /\ is = was
            BY <3>4, <5>2, StringLength
        <5> QED
            BY <5>3
      <4> QED
          BY <4>1, <4>2
    <3>6. len \in Nat
        BY <1>5, <1>6, <3>4, StringLength
    <3>7. a0 <= a1 /\ a1 <= a0 + len /\ a0 + len < a1 + is
      <4>1. a0 <= a1 /\ a1 <= a0 + len /\ a0 + len < a1 + was /\ a0 \in Nat /\ a1 \in Nat
          BY <3>1, <3>3, <3>4
      <4> QED
          BY <3>5, <3>6, <4>1
    <3> QED
        BY <3>2, <3>4, <3>7
  <2>4. \A k \in 1..K : Stands(new[k], longer, at[k])
      BY <1>1, <1>9, <2>1, <2>2
  <2>5. at[K] + Len(last) = Len(longer)
    <3>1. PICK a \in Nat : a = at[K]
        BY <1>1
    <3>2. a + Len(part) = Len(whole)
        BY <1>10, <3>1
    <3>3. a + Len(last) = Len(longer)
      <4>1. Len(last) = Len(part) + 1 + Len(s) /\ Len(longer) = Len(whole) + 1 + Len(s)
          BY <1>3, <1>4
      <4>2. PICK p, w, m \in Nat : p = Len(part) /\ w = Len(whole) /\ m = Len(s)
          BY <1>2
      <4>3. a + p = w
          BY <3>2, <4>2
      <4>4. a + (p + 1 + m) = w + 1 + m
          BY <4>3
      <4> QED
          BY <4>1, <4>2, <4>4
    <3> QED
        BY <3>1, <3>3
  <2> QED
      BY <1>9, <2>3, <2>4, <2>5 DEF InOrder
<1>12. ASSUME NEW m \in 1..n PROVE \E k \in 1..K, o \in Nat : Stands(ss[m], new[k], o)
  <2>1. CASE m = n
    <3>1. Stands(s, last, Len(part) + 1)
        BY <1>2, StandsOn DEF last
    <3> QED
        BY <1>0, <1>1, <1>2, <1>9, <2>1, <3>1
  <2>2. CASE m # n
    <3>1. m \in 1..n - 1 /\ m \in 1..Len(ss)
        BY <1>1, <2>2
    <3>2. PICK k \in 1..K, o \in Nat : Stands(ss[m], old[k], o)
      <4>1. \A l \in 1..n - 1 : \E k \in DOMAIN old, o \in Nat : Stands(ss[l], old[k], o)
          BY DEF SplitFacts, old
      <4> QED
          BY <1>5, <3>1, <4>1
    <3>3. ss[m] \in Strings
        BY <3>1, SentenceType
    <3>4. CASE k = K
      <4>1. Stands(ss[m], part, o)
          BY <1>5, <3>2, <3>4
      <4>2. Stands(ss[m], last, o)
          BY <1>2, <3>3, <4>1, StandsOn DEF last
      <4> QED
          BY <1>1, <1>9, <4>2
    <3>5. CASE k # K
      <4>1. new[k] = old[k]
          BY <1>1, <1>5, <1>9, <3>5
      <4> QED
          BY <3>2, <4>1
    <3> QED
        BY <3>4, <3>5
  <2> QED
      BY <2>1, <2>2
<1>13. ASSUME NEW k \in 1..K PROVE Fits(new[k], ss, n)
  <2>1. CASE k = K
    <3>1. last[Len(last)] = s[Len(s)]
      <4>1. Len(s) \in 1..Len(s)
          BY <1>2
      <4> QED
          BY <1>4, <4>1
    <3>2. Fits(last, ss, n)
        BY <1>0, <1>1, <1>8, <3>1 DEF Fits
    <3> QED
        BY <1>9, <2>1, <3>2
  <2>2. CASE k # K
    <3>1. new[k] = old[k] /\ Fits(old[k], ss, n - 1)
      <4>1. k \in 1..K - 1
          BY <1>1, <2>2
      <4>2. \A j \in DOMAIN old : Fits(old[j], ss, n - 1)
          BY DEF SplitFacts, old
      <4> QED
          BY <1>5, <1>9, <4>1, <4>2
    <3>2. \A m \in 1..n - 1 : m \in 1..n
        BY <1>1
    <3>3. Fits(old[k], ss, n)
        BY <3>1, <3>2 DEF Fits
    <3> QED
        BY <3>1, <3>3
  <2> QED
      BY <2>1, <2>2
<1>14. SplitFacts(ss, n, longer, new)
    BY <1>9, <1>10, <1>11, <1>12, <1>13 DEF SplitFacts
<1> QED
    BY <1>0, <1>7, <1>14 DEF new, longer

\* The next sentence opens a part, after the tail of the one before it.
LEMMA NextPart ==
  ASSUME NEW ss \in Seq(Strings \ {<<>>}), NEW n \in 2..Len(ss), NEW whole \in Strings,
         NEW old \in Seq(Strings), old # <<>>,
         SplitFacts(ss, n - 1, whole, old)
  PROVE  SplitFacts(ss, n, whole \o <<Space>> \o ss[n],
                    Append(old, CarriedTail(old[Len(old)]) \o <<Space>> \o ss[n]))
<1>0. PICK s, K, part : s = ss[n] /\ K = Len(old) /\ part = old[Len(old)]
    OBVIOUS
<1> DEFINE tail == CarriedTail(part)
<1> DEFINE longer == whole \o <<Space>> \o s
<1> DEFINE last == tail \o <<Space>> \o s
<1> DEFINE new == Append(old, last)
<1>1. n \in 1..Len(ss) /\ n \in Nat /\ K \in Nat \ {0} /\ Overlap \in Nat
    BY <1>0, ChunkingAssumption
<1>2. /\ s \in Strings /\ Len(s) \in Nat \ {0}
      /\ Len(whole) \in Nat /\ part \in Strings /\ Len(part) \in Nat
  <2>1. part \in Strings
      BY <1>0, <1>1
  <2> QED
      BY <1>0, <1>1, <2>1, SentenceType, StringLength
<1>3. /\ tail \in Strings /\ Len(tail) \in Nat
      /\ Len(tail) <= Overlap /\ Len(tail) <= Len(part)
    BY <1>2, TailIsCarried, StringLength
<1>19. Stands(tail, part, Len(part) - Len(tail))
    BY <1>2, TailIsCarried
<1> HIDE DEF tail
<1>4. /\ longer \in Strings /\ Len(longer) = Len(whole) + 1 + Len(s)
      /\ (\A i \in 1..Len(whole) : longer[i] = whole[i])
      /\ longer[Len(whole) + 1] = Space
      /\ (\A i \in 1..Len(s) : longer[Len(whole) + 1 + i] = s[i])
    BY <1>2, OneMoreSentence
<1> HIDE DEF longer
<1>5. /\ last \in Strings /\ Len(last) = Len(tail) + 1 + Len(s)
      /\ (\A i \in 1..Len(tail) : last[i] = tail[i])
      /\ last[Len(tail) + 1] = Space
      /\ (\A i \in 1..Len(s) : last[Len(tail) + 1 + i] = s[i])
    BY <1>2, <1>3, OneMoreSentence
<1> HIDE DEF last
<1>6. /\ DOMAIN old = 1..K /\ K \in 1..K /\ old[K] = part
      /\ \A k \in 1..K : old[k] \in Strings /\ old[k] # <<>>
  <2>1. old \in Seq(Strings \ {<<>>})
      BY DEF SplitFacts
  <2> QED
      BY <1>0, <1>1, <2>1
<1>7. Len(last) \in Nat \ {0} /\ last # <<>>
  <2>1. Len(<<>>) = 0
      OBVIOUS
  <2>2. Len(last) \in Nat \ {0}
      BY <1>2, <1>3, <1>5
  <2> QED
      BY <2>1, <2>2
<1>8. /\ Len(new) = K + 1 /\ DOMAIN new = 1..K + 1 /\ new[K + 1] = last
      /\ (\A k \in 1..K : new[k] = old[k])
      /\ new \in Seq(Strings \ {<<>>}) /\ new # <<>>
  <2>1. old \in Seq(Strings \ {<<>>}) /\ last \in Strings \ {<<>>}
      BY <1>5, <1>7 DEF SplitFacts
  <2> QED
      BY <1>0, <1>1, <2>1
<1> HIDE DEF new
<1>9. PICK at \in [1..K -> Nat] :
        InOrder(old, whole, at) /\ at[K] + Len(part) = Len(whole)
    BY <1>0, <1>6 DEF SplitFacts
<1>10. PICK a \in Nat, start \in Nat :
         /\ a = at[K] /\ start + Len(tail) = Len(whole)
         /\ a + Len(part) = Len(whole)
  <2>1. PICK a \in Nat : a = at[K]
      BY <1>6
  <2>2. a + Len(part) = Len(whole)
      BY <1>9, <2>1
  <2>3. Len(whole) - Len(tail) \in Nat /\ (Len(whole) - Len(tail)) + Len(tail) = Len(whole)
      BY <1>2, <1>3, <2>2
  <2> QED
      BY <2>1, <2>2, <2>3
<1>11. /\ start + Len(tail) = Len(whole) /\ a + Len(part) = Len(whole)
       /\ a <= start /\ start <= a + Len(part)
    BY <1>2, <1>3, <1>10
<1> DEFINE to == [k \in 1..K + 1 |-> IF k = K + 1 THEN start ELSE at[k]]
<1>12. to \in [1..K + 1 -> Nat] /\ to[K + 1] = start /\ \A k \in 1..K : to[k] = at[k]
    BY <1>1, <1>10
<1> HIDE DEF to
<1>13. Stands(last, longer, start)
  <2>1. ASSUME NEW i \in 1..Len(tail) PROVE longer[start + i] = tail[i]
    <3>1. Stands(part, whole, a)
        BY <1>6, <1>9, <1>10 DEF InOrder
    <3>2. part[Len(part) - Len(tail) + i] = tail[i]
        BY <1>19 DEF Stands
    <3>3. Len(part) - Len(tail) + i \in 1..Len(part)
        BY <1>2, <1>3
    <3>4. whole[a + (Len(part) - Len(tail) + i)] = tail[i]
        BY <3>1, <3>2, <3>3 DEF Stands
    <3>5. a + (Len(part) - Len(tail) + i) = start + i /\ start + i \in 1..Len(whole)
        BY <1>2, <1>3, <1>11
    <3> QED
        BY <1>4, <3>4, <3>5
  <2>2. /\ start + (Len(tail) + 1) = Len(whole) + 1
        /\ \A j \in 1..Len(s) : start + (Len(tail) + 1 + j) = Len(whole) + 1 + j
    <3>1. start + Len(tail) = Len(whole)
        BY <1>11
    <3>2. Len(s) \in Nat /\ Len(tail) \in Nat /\ Len(whole) \in Nat
        BY <1>2, <1>3
    <3>3. /\ start + (Len(tail) + 1) = Len(whole) + 1
          /\ \A j \in Nat : start + (Len(tail) + 1 + j) = Len(whole) + 1 + j
        BY <3>1, <3>2, EndsTogether
    <3>4. \A j \in 1..Len(s) : j \in Nat
        BY <3>2
    <3> QED
        BY <3>3, <3>4
  <2>3. ASSUME NEW i \in 1..Len(last) PROVE longer[start + i] = last[i]
    <3>1. CASE i \in 1..Len(tail)
        BY <1>5, <2>1, <3>1
    <3>2. CASE i = Len(tail) + 1
        BY <1>4, <1>5, <2>2, <3>2
    <3>3. CASE i > Len(tail) + 1
      <4>1. PICK j \in 1..Len(s) : i = Len(tail) + 1 + j
        <5>1. i \in Nat /\ i <= Len(tail) + 1 + Len(s)
            BY <1>2, <1>3, <1>5
        <5>2. /\ i - (Len(tail) + 1) \in 1..Len(s)
              /\ i = Len(tail) + 1 + (i - (Len(tail) + 1))
            BY <1>2, <1>3, <3>3, <5>1
        <5> QED
            BY <5>2
      <4> QED
          BY <1>4, <1>5, <2>2, <4>1
    <3>4. i \in Nat \ {0} /\ Len(tail) \in Nat
        BY <1>3, <1>7
    <3>5. i \in 1..Len(tail) \/ i = Len(tail) + 1 \/ i > Len(tail) + 1
        BY <3>4
    <3> QED
        BY <3>1, <3>2, <3>3, <3>5
  <2>4. start + Len(last) <= Len(longer)
    <3>1. Len(last) = Len(tail) + 1 + Len(s) /\ Len(longer) = Len(whole) + 1 + Len(s)
        BY <1>4, <1>5
    <3>2. PICK t, w, m \in Nat : t = Len(tail) /\ w = Len(whole) /\ m = Len(s)
        BY <1>2, <1>3
    <3>3. start + t = w
        BY <1>11, <3>2
    <3>4. start + (t + 1 + m) <= w + 1 + m
        BY <3>3
    <3> QED
        BY <3>1, <3>2, <3>4
  <2> QED
      BY <1>10, <2>3, <2>4 DEF Stands
<1>14. InOrder(new, longer, to)
  <2>1. ASSUME NEW k \in 1..K PROVE Stands(new[k], longer, to[k])
    <3>1. Stands(old[k], whole, at[k]) /\ at[k] \in Nat
        BY <1>6, <1>9 DEF InOrder
    <3>2. Stands(old[k], longer, at[k])
        BY <1>0, <1>2, <1>6, <3>1, StandsOn DEF longer
    <3> QED
        BY <1>8, <1>12, <3>2
  <2>2. \A k \in 1..K + 1 : k = K + 1 \/ k \in 1..K
      BY <1>1
  <2>3. \A k \in 1..K + 1 : Stands(new[k], longer, to[k])
      BY <1>8, <1>12, <1>13, <2>1, <2>2
  <2>4. ASSUME NEW k \in 1..K
        PROVE  /\ to[k] <= to[k + 1] /\ to[k + 1] <= to[k] + Len(new[k])
               /\ to[k] + Len(new[k]) < to[k + 1] + Len(new[k + 1])
    <3>1. CASE k = K
      <4>0. Len(last) = Len(tail) + 1 + Len(s) /\ Len(longer) = Len(whole) + 1 + Len(s)
          BY <1>4, <1>5
      <4>1. start + Len(last) = Len(longer) /\ a + Len(part) < Len(longer)
        <5>1. start + Len(tail) = Len(whole) /\ a + Len(part) = Len(whole)
            BY <1>11
        <5>2. /\ Len(s) \in Nat \ {0} /\ Len(tail) \in Nat /\ Len(whole) \in Nat
              /\ Len(part) \in Nat
            BY <1>2, <1>3
        <5>3. start + Len(last) = Len(longer)
          <6>1. start + Len(tail) = Len(whole)
              BY <5>1
          <6>2. PICK t, w, m \in Nat : t = Len(tail) /\ w = Len(whole) /\ m = Len(s)
              BY <5>2
          <6>3. start + t = w
              BY <6>1, <6>2
          <6>4. start + (t + 1 + m) = w + 1 + m
              BY <6>3
          <6> QED
              BY <4>0, <6>2, <6>4
        <5>4. a + Len(part) < Len(longer)
          <6>1. a + Len(part) = Len(whole)
              BY <5>1
          <6>2. Len(whole) < Len(whole) + 1 + Len(s)
              BY <5>2
          <6> QED
              BY <4>0, <6>1, <6>2
        <5> QED
            BY <5>3, <5>4
      <4>2. a <= start /\ start <= a + Len(part) /\ a + Len(part) < start + Len(last)
          BY <1>11, <4>1
      <4>3. to[k] = a /\ to[k + 1] = start /\ new[k] = part /\ new[k + 1] = last
          BY <1>6, <1>8, <1>10, <1>12, <3>1
      <4> QED
          BY <4>2, <4>3
    <3>2. CASE k # K
      <4>1. k \in 1..K - 1 /\ k + 1 \in 1..K
          BY <1>1, <3>2
      <4>2. /\ at[k] <= at[k + 1] /\ at[k + 1] <= at[k] + Len(old[k])
            /\ at[k] + Len(old[k]) < at[k + 1] + Len(old[k + 1])
          BY <1>0, <1>9, <4>1 DEF InOrder
      <4> QED
          BY <1>8, <1>12, <4>1, <4>2
    <3> QED
        BY <3>1, <3>2
  <2>5. (K + 1) - 1 = K
      BY <1>1
  <2> QED
      BY <1>8, <2>3, <2>4, <2>5 DEF InOrder
<1>15. to[K + 1] + Len(new[K + 1]) = Len(longer)
  <2>1. start + Len(last) = Len(longer)
    <3>1. Len(last) = Len(tail) + 1 + Len(s) /\ Len(longer) = Len(whole) + 1 + Len(s)
        BY <1>4, <1>5
    <3>2. PICK t, w, m \in Nat : t = Len(tail) /\ w = Len(whole) /\ m = Len(s)
        BY <1>2, <1>3
    <3>3. start + t = w
        BY <1>11, <3>2
    <3>4. start + (t + 1 + m) = w + 1 + m
        BY <3>3
    <3> QED
        BY <3>1, <3>2, <3>4
  <2> QED
      BY <1>8, <1>12, <2>1
<1>16. ASSUME NEW m \in 1..n PROVE \E k \in 1..K + 1, o \in Nat : Stands(ss[m], new[k], o)
  <2>1. CASE m = n
    <3>1. Stands(s, last, Len(tail) + 1) /\ Len(tail) + 1 \in Nat /\ K + 1 \in 1..K + 1
      <4>1. Stands(s, last, Len(tail) + 1)
          BY <1>2, <1>3, StandsOn DEF last
      <4> QED
          BY <1>1, <1>3, <4>1
    <3> QED
        BY <1>0, <1>8, <2>1, <3>1
  <2>2. CASE m # n
    <3>1. m \in 1..n - 1
        BY <1>1, <2>2
    <3>2. \A l \in 1..n - 1 : \E k \in DOMAIN old, o \in Nat : Stands(ss[l], old[k], o)
        BY DEF SplitFacts
    <3>3. PICK k \in 1..K, o \in Nat : Stands(ss[m], old[k], o)
        BY <1>6, <3>1, <3>2
    <3>4. k \in 1..K + 1 /\ new[k] = old[k]
        BY <1>1, <1>8
    <3> QED
        BY <3>3, <3>4
  <2> QED
      BY <2>1, <2>2
<1>17. ASSUME NEW k \in 1..K + 1 PROVE Fits(new[k], ss, n)
  <2>1. CASE k = K + 1
    <3>1. last[Len(last)] = s[Len(s)]
      <4>1. Len(s) \in 1..Len(s)
          BY <1>2
      <4> QED
          BY <1>5, <4>1
    <3>2. Len(last) <= Overlap + 1 + Len(s)
        BY <1>1, <1>2, <1>3, <1>5
    <3>3. Fits(last, ss, n)
      <4>1. n \in 1..n
          BY <1>1
      <4> QED
          BY <1>0, <3>1, <3>2, <4>1 DEF Fits
    <3> QED
        BY <1>8, <2>1, <3>3
  <2>2. CASE k # K + 1
    <3>1. k \in 1..K
        BY <1>1, <2>2
    <3>2. \A j \in DOMAIN old : Fits(old[j], ss, n - 1)
        BY DEF SplitFacts
    <3>3. \A m \in 1..n - 1 : m \in 1..n
        BY <1>1
    <3>4. Fits(old[k], ss, n)
        BY <1>6, <3>1, <3>2, <3>3 DEF Fits
    <3> QED
        BY <1>8, <3>1, <3>4
  <2> QED
      BY <2>1, <2>2
<1>18. SplitFacts(ss, n, longer, new)
    BY <1>8, <1>12, <1>14, <1>15, <1>16, <1>17 DEF SplitFacts
<1> QED
    BY <1>0, <1>18 DEF new, longer, last, tail

\* A text that is one part covers itself.
LEMMA OnePart ==
  ASSUME NEW ss \in Seq(Strings \ {<<>>}), NEW n \in 1..Len(ss), NEW whole,
         TextFacts(ss, n, whole), Len(whole) <= MaxChunk
  PROVE  SplitFacts(ss, n, whole, <<whole>>)
<1>1. whole \in Strings \ {<<>>} /\ Len(whole) \in Nat \ {0}
    BY StringLength DEF TextFacts
<1>2. /\ <<whole>> \in Seq(Strings \ {<<>>}) /\ <<whole>> # <<>>
      /\ DOMAIN <<whole>> = {1} /\ <<whole>>[1] = whole /\ Len(<<whole>>) = 1
    BY <1>1
<1>3. Fits(whole, ss, n)
  <2>1. n \in 1..n
      OBVIOUS
  <2> QED
      BY <2>1 DEF Fits, TextFacts
<1>4. Stands(whole, whole, 0)
    BY <1>1 DEF Stands
<1>5. \E at \in [DOMAIN <<whole>> -> Nat] :
        InOrder(<<whole>>, whole, at) /\ at[Len(<<whole>>)] + Len(<<whole>>[Len(<<whole>>)]) = Len(whole)
  <2>1. [k \in {1} |-> 0] \in [DOMAIN <<whole>> -> Nat]
      BY <1>2
  <2>2. InOrder(<<whole>>, whole, [k \in {1} |-> 0])
      BY <1>2, <1>4 DEF InOrder
  <2> QED
      BY <1>1, <1>2, <2>1, <2>2
<1> QED
    BY <1>2, <1>3, <1>5 DEF SplitFacts, TextFacts

\* _split_long: the parts it returns cover the text, in its order.
LEMMA PartsCover ==
  ASSUME NEW ss \in Seq(Strings \ {<<>>}), ss # <<>>
  PROVE  TextFacts(ss, Len(ss), Text(ss)) /\ SplitFacts(ss, Len(ss), Text(ss), SplitLong(ss))
<1>1. ss \in Seq(Strings) /\ Len(ss) \in Nat \ {0} /\ DOMAIN ss = 1..Len(ss)
    OBVIOUS
<1>2. PICK T \in [0..Len(ss) -> Strings] :
        /\ T[0] = <<>>
        /\ \A n \in 1..Len(ss) : T[n] = Joined(T[n - 1], ss[n])
        /\ T[Len(ss)] = Text(ss)
    BY <1>1, TextIsBuilt
<1>3. PICK R \in [0..Len(ss) -> States] :
        /\ R[0] = Start
        /\ \A n \in 1..Len(ss) : R[n] = Take(R[n - 1], ss[n])
        /\ R[Len(ss)] = FoldLeft(Take, Start, ss)
    BY <1>1, PartsAreTaken
<1> DEFINE All(n) == Append(R[n].parts, R[n].current)
<1> DEFINE G == {n \in 0..Len(ss) : n = 0 \/ (/\ TextFacts(ss, n, T[n])
                                              /\ SplitFacts(ss, n, T[n], All(n)))}
<1>4. ASSUME NEW n \in 1..Len(ss), n - 1 \in G PROVE n \in G
  <2>1. CASE n = 1
    <3>1. T[1] = ss[1]
        BY <1>1, <1>2, <2>1 DEF Joined
    <3>2. R[1] = Take(Start, ss[1])
        BY <1>1, <1>3, <2>1
    <3>3. Take(Start, ss[1]) = [parts |-> <<>>, current |-> ss[1]]
        BY DEF Take, Start, Overflows, Joined
    <3>4. All(1) = <<ss[1]>>
        BY <3>2, <3>3
    <3>5. TextFacts(ss, 1, ss[1]) /\ SplitFacts(ss, 1, ss[1], <<ss[1]>>)
        BY FirstSentence
    <3> HIDE DEF All
    <3> QED
        BY <1>1, <2>1, <3>1, <3>4, <3>5
  <2>2. CASE n # 1
    <3>1. n \in 2..Len(ss) /\ n - 1 \in 0..Len(ss) /\ n - 1 # 0
        BY <1>1, <2>2
    <3>2. TextFacts(ss, n - 1, T[n - 1]) /\ SplitFacts(ss, n - 1, T[n - 1], All(n - 1))
      <4> HIDE DEF All
      <4> QED
          BY <1>4, <3>1
    <3>3. T[n] = T[n - 1] \o <<Space>> \o ss[n] /\ T[n - 1] \in Strings
        BY <1>2, <3>1, <3>2 DEF Joined, TextFacts
    <3>4. TextFacts(ss, n, T[n])
        BY <3>1, <3>2, <3>3, NextOfText
    <3>5. PICK done, part : done = R[n - 1].parts /\ part = R[n - 1].current
        OBVIOUS
    <3>6. done \in Seq(Strings) /\ part \in Strings
        BY <1>3, <3>1, <3>5 DEF States
    <3>7. SplitFacts(ss, n - 1, T[n - 1], Append(done, part))
        BY <3>2, <3>5
    <3>8. R[n] = Take(R[n - 1], ss[n]) /\ R[n - 1] \in States
        BY <1>3, <3>1
    <3>9. CASE Overflows(part, ss[n])
      <4>1. R[n].parts = Append(done, part)
            /\ R[n].current = CarriedTail(part) \o <<Space>> \o ss[n]
        <5>1. PICK state : state = R[n - 1]
            OBVIOUS
        <5>2. /\ Take(state, ss[n]).parts = Append(done, part)
              /\ Take(state, ss[n]).current = CarriedTail(part) \o <<Space>> \o ss[n]
            BY <3>5, <3>9, <5>1 DEF Take
        <5> QED
            BY <3>8, <5>1, <5>2
      <4>2. /\ Append(done, part) \in Seq(Strings) /\ Append(done, part) # <<>>
            /\ Append(done, part)[Len(Append(done, part))] = part
          BY <3>6
      <4>3. SplitFacts(ss, n, T[n - 1] \o <<Space>> \o ss[n],
                Append(Append(done, part), CarriedTail(part) \o <<Space>> \o ss[n]))
          BY <3>1, <3>3, <3>6, <3>7, <4>2, NextPart
      <4> QED
        <5>1. SplitFacts(ss, n, T[n], All(n))
            BY <3>3, <4>1, <4>3
        <5> HIDE DEF All
        <5> QED
            BY <3>4, <5>1
    <3>10. CASE ~ Overflows(part, ss[n])
      <4>1. R[n].parts = done /\ R[n].current = Joined(part, ss[n])
          BY <3>5, <3>8, <3>10 DEF Take, States
      <4>2. SplitFacts(ss, n, T[n - 1] \o <<Space>> \o ss[n], Append(done, Joined(part, ss[n])))
          BY <3>1, <3>3, <3>6, <3>7, <3>10, NextInPart
      <4> QED
        <5>1. SplitFacts(ss, n, T[n], All(n))
            BY <3>3, <4>1, <4>2
        <5> HIDE DEF All
        <5> QED
            BY <3>4, <5>1
    <3> QED
        BY <3>9, <3>10
  <2> QED
      BY <2>1, <2>2
<1>5. G = 0..Len(ss)
  <2>1. G \in SUBSET (0..Len(ss)) /\ 0 \in G
      BY <1>1
  <2> HIDE DEF G
  <2> QED
      BY <1>1, <1>4, <2>1, HoldsThroughout
<1>6. TextFacts(ss, Len(ss), Text(ss)) /\ SplitFacts(ss, Len(ss), Text(ss), All(Len(ss)))
  <2>1. Len(ss) \in G
    <3> HIDE DEF G
    <3> QED
        BY <1>1, <1>5
  <2> HIDE DEF All
  <2> QED
      BY <1>1, <1>2, <2>1
<1>7. CASE Len(Text(ss)) <= MaxChunk
  <2>1. SplitLong(ss) = <<Text(ss)>>
      BY <1>7 DEF SplitLong
  <2> QED
      BY <1>1, <1>6, <1>7, <2>1, OnePart
<1>8. CASE ~ (Len(Text(ss)) <= MaxChunk)
  <2>1. SplitLong(ss) = LET end == FoldLeft(Take, Start, ss) IN Append(end.parts, end.current)
      BY <1>8 DEF SplitLong, Start
  <2>2. SplitLong(ss) = All(Len(ss))
      BY <1>3, <2>1
  <2> QED
      BY <1>6, <2>2
<1> QED
    BY <1>7, <1>8

-----------------------------------------------------------------------------
(* The chunks of the clauses *)

\* The chunks of a clause stand together in the list, in their order, after its
\* first `start` members, and nowhere else.
IsBlock(list, chunks, key, start) ==
    /\ start \in Nat
    /\ start + Len(chunks) <= Len(list)
    /\ \A k \in 1..Len(chunks) : list[start + k] = chunks[k]
    /\ \A j \in DOMAIN list : KeyOf(list[j]) = key => j \in start + 1 .. start + Len(chunks)

\* What ChunkClause keeps: what has been chunked is in blocks, one of each
\* clause, and the standards of the version are those chunked or still to be.
ChunkInv ==
    /\ clauses \in Seq(Range(clauses))
    /\ todo = None => clauses = <<>>
    /\ todo # None =>
         /\ ended
         /\ todo \subseteq DOMAIN entries
         /\ todo \in SUBSET (Standards \X Paths)
         /\ \A i \in DOMAIN clauses :
              LET key == KeyOf(clauses[i])
              IN  /\ key \in DOMAIN entries \ todo
                  /\ \E start \in Nat :
                       IsBlock(clauses, ChunksOf(key[1], key[2]), key, start)
         /\ version.standards =
              {clauses[i].standard_no : i \in DOMAIN clauses} \cup {key[1] : key \in todo}

\* The sentences of an entry are strings of at least one character.
LEMMA SentencesOfEntry ==
  ASSUME ParseInv, EntriesAreSized, NEW key \in DOMAIN entries
  PROVE  LET body == entries[key]
             ss == Sentences(body)
         IN  /\ ss \in Seq(Strings \ {<<>>}) /\ ss # <<>>
             /\ DOMAIN ss = DOMAIN body /\ Len(ss) = Len(body)
             /\ \A m \in 1..Len(ss) :
                  /\ Len(ss[m]) = text[body[m]].size
                  /\ ss[m][Len(ss[m])][1] = body[m]
<1> DEFINE body == entries[key]
<1> DEFINE ss == Sentences(body)
<1>1. /\ body \in Seq(Nat) /\ body # <<>> /\ OneRun(body, key[2])
      /\ \A i \in DOMAIN body : text[body[i]].size \in Nat \ {0}
    BY DEF ParseInv, EntryIsOneRun, OneRun, EntriesAreSized
<1>2. DOMAIN body = 1..Len(body) /\ Len(body) \in Nat \ {0}
    BY <1>1
<1> DEFINE Sentence(i) == [n \in 1..text[body[i]].size |-> <<body[i], n>>]
<1>3. ss = [i \in DOMAIN body |-> Sentence(i)]
    BY DEF Sentences
<1> HIDE DEF body, ss
<1>4. ASSUME NEW i \in DOMAIN body
      PROVE  /\ Sentence(i) \in Strings \ {<<>>} /\ Len(Sentence(i)) = text[body[i]].size
             /\ Sentence(i)[Len(Sentence(i))][1] = body[i]
  <2>a. text[body[i]].size \in Nat \ {0}
      BY <1>1
  <2>b. body[i] \in Nat
      BY <1>1, <1>2
  <2>1. PICK size \in Nat \ {0}, line \in Nat : size = text[body[i]].size /\ line = body[i]
      BY <2>a, <2>b
  <2>2. [n \in 1..size |-> <<line, n>>] \in Strings /\ Len([n \in 1..size |-> <<line, n>>]) = size
    <3>1. \A n \in 1..size : <<line, n>> \in Nat \X Nat
        OBVIOUS
    <3>2. [n \in 1..size |-> <<line, n>>] \in [1..size -> Nat \X Nat]
        BY <3>1
    <3> QED
        BY <3>2 DEF Strings
  <2>3. Sentence(i) = [n \in 1..size |-> <<line, n>>]
      BY <2>1
  <2>4. [n \in 1..size |-> <<line, n>>][size][1] = line
      OBVIOUS
  <2>5. Len(<<>>) = 0
      OBVIOUS
  <2> HIDE DEF Sentence
  <2> QED
      BY <2>1, <2>2, <2>3, <2>4, <2>5
<1> HIDE DEF Sentence
<1>5. ss \in Seq(Strings \ {<<>>}) /\ Len(ss) = Len(body) /\ DOMAIN ss = DOMAIN body
  <2>1. ss \in [1..Len(body) -> Strings \ {<<>>}]
      BY <1>2, <1>3, <1>4
  <2> QED
      BY <1>2, <2>1
<1>6. ss # <<>>
    BY <1>2, <1>5
<1>7. \A m \in 1..Len(ss) : Len(ss[m]) = text[body[m]].size /\ ss[m][Len(ss[m])][1] = body[m]
    BY <1>2, <1>3, <1>4, <1>5
<1> QED
    BY <1>5, <1>6, <1>7 DEF body, ss

\* The chunks of a clause: its parts, in order, each under an id of its own.
LEMMA ChunksOfEntry ==
  ASSUME ParseInv, EntriesAreSized, NEW key \in DOMAIN entries, key = <<key[1], key[2]>>
  PROVE  LET ss == Sentences(entries[key])
             C == ChunksOf(key[1], key[2])
             parts == [k \in DOMAIN C |-> C[k].text]
         IN  /\ C \in Seq(Range(C)) /\ Len(C) \in Nat \ {0}
             /\ \A k \in 1..Len(C) :
                  /\ KeyOf(C[k]) = key /\ C[k].standard_no = key[1]
                  /\ C[k].chunk_id[1] = key[1] /\ C[k].chunk_id[2] = key[2]
             /\ \A k, l \in 1..Len(C) : C[k].chunk_id = C[l].chunk_id => k = l
             /\ parts \in Seq(Strings) /\ Len(parts) = Len(C)
             /\ Text(ss) \in Strings
             /\ SplitFacts(ss, Len(ss), Text(ss), parts)
<1> DEFINE ss == Sentences(entries[key])
<1> DEFINE C == ChunksOf(key[1], key[2])
<1> DEFINE P == SplitLong(ss)
<1>1. ss \in Seq(Strings \ {<<>>}) /\ ss # <<>>
    BY SentencesOfEntry
<1>2. /\ SplitFacts(ss, Len(ss), Text(ss), P) /\ Text(ss) \in Strings
      /\ P \in Seq(Strings \ {<<>>}) /\ P # <<>>
  <2> HIDE DEF ss, P
  <2>1. TextFacts(ss, Len(ss), Text(ss)) /\ SplitFacts(ss, Len(ss), Text(ss), SplitLong(ss))
      BY <1>1, PartsCover
  <2> QED
      BY <2>1 DEF P, TextFacts, SplitFacts
<1>3. C = [i \in DOMAIN P |->
            [chunk_id |-> ChunkId(key[1], key[2], i, Len(P)),
             standard_no |-> key[1], clause_path |-> key[2],
             standard_name |-> ResolveName(key[1]), text |-> P[i]]]
    BY DEF ChunksOf
<1> HIDE DEF C, P, ss
<1>4. P \in Seq(Strings) /\ Len(P) \in Nat \ {0} /\ DOMAIN P = 1..Len(P)
  <2>1. P \in Seq(Strings)
      BY <1>2
  <2> QED
      BY <1>2, <2>1
<1>5. /\ C \in [1..Len(P) -> Range(C)] /\ DOMAIN C = 1..Len(P)
      /\ \A k \in 1..Len(P) : C[k] = [chunk_id |-> ChunkId(key[1], key[2], k, Len(P)),
             standard_no |-> key[1], clause_path |-> key[2],
             standard_name |-> ResolveName(key[1]), text |-> P[k]]
  <2>1. DOMAIN C = 1..Len(P) /\ C = [k \in 1..Len(P) |-> C[k]]
      BY <1>3, <1>4
  <2>2. \A k \in 1..Len(P) : C[k] \in Range(C)
      BY <2>1 DEF Range
  <2>3. C \in [1..Len(P) -> Range(C)]
      BY <2>1, <2>2
  <2> QED
      BY <1>3, <1>4, <2>1, <2>3
<1>6. C \in Seq(Range(C)) /\ Len(C) = Len(P)
    BY <1>4, <1>5
<1>7. \A k \in 1..Len(P) : /\ C[k].standard_no = key[1] /\ C[k].clause_path = key[2]
                           /\ C[k].chunk_id = ChunkId(key[1], key[2], k, Len(P))
                           /\ C[k].text = P[k]
    BY <1>5
<1>8. \A k \in 1..Len(P) : KeyOf(C[k]) = key
    BY <1>7 DEF KeyOf
<1>9. \A k \in 1..Len(P) : C[k].chunk_id[1] = key[1] /\ C[k].chunk_id[2] = key[2]
    BY <1>7 DEF ChunkId
<1>10. ASSUME NEW k \in 1..Len(P), NEW l \in 1..Len(P), C[k].chunk_id = C[l].chunk_id
       PROVE  k = l
  <2>1. C[k].chunk_id[3] = C[l].chunk_id[3]
      BY <1>10
  <2>2. CASE Len(P) = 1
      BY <2>2
  <2>3. CASE Len(P) # 1
    <3>1. C[k].chunk_id[3] = k /\ C[l].chunk_id[3] = l
        BY <1>7, <2>3 DEF ChunkId
    <3> QED
        BY <2>1, <3>1
  <2> QED
      BY <2>2, <2>3
<1>11. [k \in DOMAIN C |-> C[k].text] = P
    BY <1>4, <1>5, <1>7
<1> QED
    BY <1>2, <1>4, <1>6, <1>7, <1>8, <1>9, <1>10, <1>11 DEF C, ss

\* While the loop does not go on, the chunks of a clause are the same.
LEMMA ChunksStay ==
  ASSUME UNCHANGED parseVars, NEW s, NEW path
  PROVE  ChunksOf(s, path)' = ChunksOf(s, path)
  BY DEF parseVars, ChunksOf, Sentences, ResolveName, Votes

\* A block stays where it is when other chunks are added.
LEMMA BlockStays ==
  ASSUME NEW S, NEW list \in Seq(S), NEW C \in Seq(S), NEW key, NEW chunks, NEW start,
         Len(chunks) \in Nat, IsBlock(list, chunks, key, start),
         \A l \in 1..Len(C) : KeyOf(C[l]) # key
  PROVE  IsBlock(list \o C, chunks, key, start)
<1>1. /\ list \o C \in Seq(S) /\ Len(list \o C) = Len(list) + Len(C)
      /\ Len(list) \in Nat /\ Len(C) \in Nat
      /\ DOMAIN (list \o C) = 1..Len(list) + Len(C) /\ DOMAIN list = 1..Len(list)
      /\ \A i \in 1..Len(list) : (list \o C)[i] = list[i]
      /\ \A i \in 1..Len(C) : (list \o C)[Len(list) + i] = C[i]
    OBVIOUS
<1> DEFINE longer == list \o C
<1> HIDE DEF longer
<1>2. /\ start \in Nat /\ start + Len(chunks) <= Len(list)
      /\ \A k \in 1..Len(chunks) : list[start + k] = chunks[k]
      /\ \A j \in DOMAIN list : KeyOf(list[j]) = key => j \in start + 1 .. start + Len(chunks)
    BY DEF IsBlock
<1>3. \A k \in 1..Len(chunks) : start + k \in 1..Len(list)
    BY <1>1, <1>2
<1>4. \A k \in 1..Len(chunks) : longer[start + k] = chunks[k]
    BY <1>1, <1>2, <1>3 DEF longer
<1>5. ASSUME NEW j \in 1..Len(list) + Len(C), KeyOf(longer[j]) = key
      PROVE  j \in start + 1 .. start + Len(chunks)
  <2>1. CASE j \in 1..Len(list)
      BY <1>1, <1>2, <1>5, <2>1 DEF longer
  <2>2. CASE j \notin 1..Len(list)
    <3>1. PICK i \in 1..Len(C) : j = Len(list) + i
      <4>1. j - Len(list) \in 1..Len(C) /\ j = Len(list) + (j - Len(list))
          BY <1>1, <2>2
      <4> QED
          BY <4>1
    <3> QED
        BY <1>1, <1>5, <3>1 DEF longer
  <2> QED
      BY <2>1, <2>2
<1>6. start + Len(chunks) <= Len(list) + Len(C)
    BY <1>1, <1>2
<1>7. DOMAIN longer = 1..Len(list) + Len(C) /\ Len(longer) = Len(list) + Len(C)
    BY <1>1 DEF longer
<1>8. IsBlock(longer, chunks, key, start)
    BY <1>2, <1>4, <1>5, <1>6, <1>7 DEF IsBlock
<1> QED
    BY <1>8 DEF longer

\* What is added is a block of its own.
LEMMA NewBlock ==
  ASSUME NEW S, NEW list \in Seq(S), NEW C \in Seq(S), NEW key,
         \A j \in 1..Len(list) : KeyOf(list[j]) # key
  PROVE  IsBlock(list \o C, C, key, Len(list))
<1>1. /\ Len(list \o C) = Len(list) + Len(C)
      /\ Len(list) \in Nat /\ Len(C) \in Nat
      /\ DOMAIN (list \o C) = 1..Len(list) + Len(C)
      /\ \A i \in 1..Len(list) : (list \o C)[i] = list[i]
      /\ \A i \in 1..Len(C) : (list \o C)[Len(list) + i] = C[i]
    OBVIOUS
<1>2. \A j \in 1..Len(list) + Len(C) :
        j \in 1..Len(list) \/ j \in Len(list) + 1 .. Len(list) + Len(C)
    BY <1>1
<1> QED
    BY <1>1, <1>2 DEF IsBlock

\* A list is a sequence of its members.
LEMMA OfItsRange ==
  ASSUME NEW S, NEW list \in Seq(S)
  PROVE  list \in Seq(Range(list)) /\ Range(list) \subseteq S
<1>1. list \in [1..Len(list) -> S] /\ Len(list) \in Nat /\ DOMAIN list = 1..Len(list)
    OBVIOUS
<1>2. list \in [1..Len(list) -> Range(list)]
    BY <1>1 DEF Range
<1>3. Range(list) \subseteq S
    BY <1>1 DEF Range
<1>4. list \in Seq(Range(list))
    BY <1>1, <1>2, SeqDef
<1> QED
    BY <1>3, <1>4

\* Before the first clause is chunked there is nothing to say.
LEMMA InitChunks == Init => ChunkInv
<1>1. <<>> \in Seq(Range(<<>>))
    BY DEF Range
<1> QED
    BY <1>1 DEF Init, ChunkInv

\* Once the loop over the lines is over, it stays so.
LEMMA ParsingEnds == ended /\ [ParseNext]_parseVars => UNCHANGED parseVars
  BY DEF ParseNext, ReadHeader, Skip, ReadAppendix, ReadOpener, ReadProse, EndOfText, Read

\* A step that changes neither what was parsed nor what was chunked.
LEMMA ChunksKeep ==
  ASSUME ChunkInv, UNCHANGED corpusVars, todo = None \/ UNCHANGED parseVars
  PROVE  ChunkInv'
<1>1. todo' = todo /\ version' = version /\ clauses' = clauses
    BY DEF corpusVars
<1>2. CASE todo = None
    BY <1>1, <1>2 DEF ChunkInv
<1>3. CASE todo # None
  <2>1. \A s, path : ChunksOf(s, path)' = ChunksOf(s, path)
      BY <1>3, ChunksStay
  <2>2. entries' = entries /\ ended' = ended
      BY <1>3 DEF parseVars
  <2> QED
      BY <1>1, <1>3, <2>1, <2>2 DEF ChunkInv
<1> QED
    BY <1>2, <1>3

\* What is selected: the clauses of the standards kept.
LEMMA SelectStep ==
  ASSUME VoteInv, ChunkInv, Select
  PROVE  ChunkInv'
<1>1. PICK wanted \in Selections :
        LET kept == {s \in Parsed(wanted) : WellParsed(s)}
        IN  /\ todo' = UNION {{s} \X Citable(s) : s \in kept}
            /\ version' = CorpusVersionFor(kept)
    BY DEF Select
<1>2. PICK kept : kept = {s \in Parsed(wanted) : WellParsed(s)}
    OBVIOUS
<1>3. todo' = UNION {{s} \X Citable(s) : s \in kept} /\ version'.standards = kept
    BY <1>1, <1>2 DEF CorpusVersionFor
<1>4. /\ ended' /\ clauses' = <<>> /\ entries' = entries
    BY DEF Select, ChunkInv, parseVars
<1>5. \A s \in kept : /\ s \in Standards
                      /\ Citable(s) \subseteq Paths
                      /\ \A path \in Citable(s) : <<s, path>> \in DOMAIN entries
    BY <1>2 DEF Parsed, VoteInv, Citable, PathsOf
<1>6. \A s \in kept : Citable(s) # {}
  <2> SUFFICES ASSUME NEW s \in kept, Citable(s) = {} PROVE FALSE
      OBVIOUS
  <2>1. Cardinality(Citable(s)) >= MinClauses
      BY <1>2 DEF WellParsed
  <2>2. Cardinality({}) = 0
      BY FS_EmptySet
  <2>3. MinClauses \in Nat \ {0}
      BY CorpusAssumption
  <2> QED
      BY <2>1, <2>2, <2>3
<1>7. todo' \subseteq DOMAIN entries' /\ todo' \in SUBSET (Standards \X Paths)
    BY <1>3, <1>4, <1>5
<1>8. kept = {key[1] : key \in todo'}
  <2>1. \A s \in kept : \E key \in todo' : s = key[1]
    <3> SUFFICES ASSUME NEW s \in kept PROVE \E key \in todo' : s = key[1]
        OBVIOUS
    <3>1. PICK path \in Citable(s) : TRUE
        BY <1>6
    <3>2. <<s, path>> \in todo' /\ <<s, path>>[1] = s
        BY <1>3, <3>1
    <3> QED
        BY <3>2
  <2>2. \A key \in todo' : key[1] \in kept
      BY <1>3
  <2> QED
      BY <2>1, <2>2
<1>9. <<>> \in Seq(Range(<<>>)) /\ DOMAIN <<>> = {}
    BY DEF Range
<1>10. {clauses'[i].standard_no : i \in DOMAIN clauses'} = {}
    BY <1>4, <1>9
<1> QED
    BY <1>3, <1>4, <1>7, <1>8, <1>9, <1>10 DEF ChunkInv

\* One clause is chunked.
LEMMA ChunkClauseStep ==
  ASSUME ParseInv, LongestInv, ChunkInv, ChunkClause
  PROVE  ChunkInv'
<1>1. PICK key \in todo : /\ clauses' = clauses \o ChunksOf(key[1], key[2])
                          /\ todo' = todo \ {key}
    BY DEF ChunkClause
<1>2. todo # None /\ version' = version /\ UNCHANGED parseVars
    BY DEF ChunkClause
<1>3. /\ clauses \in Seq(Range(clauses)) /\ ended
      /\ todo \subseteq DOMAIN entries /\ todo \in SUBSET (Standards \X Paths)
      /\ \A i \in DOMAIN clauses :
           /\ KeyOf(clauses[i]) \in DOMAIN entries \ todo
           /\ \E start \in Nat :
                IsBlock(clauses, ChunksOf(KeyOf(clauses[i])[1], KeyOf(clauses[i])[2]),
                        KeyOf(clauses[i]), start)
      /\ version.standards =
           {clauses[i].standard_no : i \in DOMAIN clauses} \cup {k[1] : k \in todo}
    BY <1>2 DEF ChunkInv
<1>4. EntriesAreSized
    BY DEF LongestInv
<1>5. PICK C : C = ChunksOf(key[1], key[2])
    OBVIOUS
<1>6. key \in DOMAIN entries /\ key = <<key[1], key[2]>>
    BY <1>3
<1>7. /\ C \in Seq(Range(C)) /\ Len(C) \in Nat \ {0}
      /\ \A k \in 1..Len(C) : KeyOf(C[k]) = key /\ C[k].standard_no = key[1]
    BY <1>4, <1>5, <1>6, ChunksOfEntry
<1>8. PICK S : S = Range(clauses) \cup Range(C)
    OBVIOUS
<1>9. clauses \in Seq(S) /\ C \in Seq(S)
  <2>1. Range(clauses) \subseteq S /\ Range(C) \subseteq S
      BY <1>8
  <2> QED
      BY <1>3, <1>7, <2>1, SeqMonotonic
<1>10. clauses' = clauses \o C
    BY <1>1, <1>5
<1>11. /\ clauses' \in Seq(S) /\ Len(clauses') = Len(clauses) + Len(C)
       /\ DOMAIN clauses' = 1..Len(clauses) + Len(C) /\ DOMAIN clauses = 1..Len(clauses)
       /\ Len(clauses) \in Nat
       /\ \A i \in 1..Len(clauses) : clauses'[i] = clauses[i]
       /\ \A k \in 1..Len(C) : clauses'[Len(clauses) + k] = C[k]
    BY <1>9, <1>10
<1>12. clauses' \in Seq(Range(clauses'))
    BY <1>11, OfItsRange
<1>13. \A i \in DOMAIN clauses' : \/ i \in 1..Len(clauses)
                                  \/ \E k \in 1..Len(C) : i = Len(clauses) + k
  <2> TAKE i \in DOMAIN clauses'
  <2>1. i \in 1..Len(clauses) + Len(C) /\ Len(C) \in Nat /\ Len(clauses) \in Nat
      BY <1>7, <1>11
  <2>2. i \in 1..Len(clauses) \/ (i - Len(clauses) \in 1..Len(C) /\ i = Len(clauses) + (i - Len(clauses)))
      BY <2>1
  <2> QED
      BY <2>2
<1>14. todo' # None /\ todo' \subseteq DOMAIN entries /\ todo' \in SUBSET (Standards \X Paths)
  <2>1. todo' \in SUBSET (Standards \X Paths)
      BY <1>1, <1>3
  <2> QED
      BY <1>1, <1>3, <2>1, CorpusAssumption
<1>15. ASSUME NEW i \in 1..Len(clauses)
       PROVE  /\ KeyOf(clauses[i]) \in DOMAIN entries \ todo'
              /\ KeyOf(clauses[i]) # key
              /\ \E start \in Nat :
                   IsBlock(clauses', ChunksOf(KeyOf(clauses[i])[1], KeyOf(clauses[i])[2]),
                           KeyOf(clauses[i]), start)
  <2>a. PICK start \in Nat :
          IsBlock(clauses, ChunksOf(KeyOf(clauses[i])[1], KeyOf(clauses[i])[2]),
                  KeyOf(clauses[i]), start)
      BY <1>3, <1>11
  <2>b. PICK own : own = KeyOf(clauses[i])
      OBVIOUS
  <2>c. PICK chunks : chunks = ChunksOf(own[1], own[2])
      OBVIOUS
  <2>1. /\ own = KeyOf(clauses[i]) /\ chunks = ChunksOf(own[1], own[2])
        /\ IsBlock(clauses, chunks, own, start)
      BY <2>a, <2>b, <2>c
  <2>2. own \in DOMAIN entries \ todo
      BY <1>3, <1>11, <2>1
  <2>3. own = <<own[1], own[2]>>
      BY <2>1 DEF KeyOf
  <2>4. Len(chunks) \in Nat
      BY <1>4, <2>1, <2>2, <2>3, ChunksOfEntry
  <2>5. own # key
      BY <2>2
  <2>6. \A l \in 1..Len(C) : KeyOf(C[l]) # own
      BY <1>7, <2>5
  <2>7. IsBlock(clauses \o C, chunks, own, start)
      BY <1>9, <2>1, <2>4, <2>6, BlockStays
  <2> QED
      BY <1>1, <1>10, <2>1, <2>2, <2>5, <2>7
<1>16. IsBlock(clauses', C, key, Len(clauses))
  <2>1. \A j \in 1..Len(clauses) : KeyOf(clauses[j]) # key
      BY <1>15
  <2> QED
      BY <1>9, <1>10, <2>1, NewBlock
<1>17. ASSUME NEW i \in DOMAIN clauses'
       PROVE  /\ KeyOf(clauses'[i]) \in DOMAIN entries \ todo'
              /\ \E start \in Nat :
                   IsBlock(clauses', ChunksOf(KeyOf(clauses'[i])[1], KeyOf(clauses'[i])[2]),
                           KeyOf(clauses'[i]), start)
  <2>1. CASE i \in 1..Len(clauses)
    <3>1. clauses'[i] = clauses[i]
        BY <1>11, <2>1
    <3> QED
        BY <1>15, <2>1, <3>1
  <2>2. CASE \E k \in 1..Len(C) : i = Len(clauses) + k
    <3>1. KeyOf(clauses'[i]) = key
        BY <1>7, <1>11, <2>2
    <3> QED
        BY <1>1, <1>5, <1>6, <1>11, <1>16, <3>1
  <2> QED
      BY <1>13, <2>1, <2>2
<1>18. version'.standards =
         {clauses'[i].standard_no : i \in DOMAIN clauses'} \cup {k[1] : k \in todo'}
  <2>1. \A i \in DOMAIN clauses : i \in DOMAIN clauses' /\ clauses'[i] = clauses[i]
      BY <1>7, <1>11
  <2>2. Len(clauses) + 1 \in DOMAIN clauses' /\ clauses'[Len(clauses) + 1].standard_no = key[1]
      BY <1>7, <1>11
  <2>3. \A i \in DOMAIN clauses' : i \in DOMAIN clauses \/ clauses'[i].standard_no = key[1]
      BY <1>7, <1>11, <1>13
  <2> DEFINE old == {clauses[i].standard_no : i \in DOMAIN clauses}
  <2> DEFINE new == {clauses'[i].standard_no : i \in DOMAIN clauses'}
  <2>4. new = old \cup {key[1]}
      BY <2>1, <2>2, <2>3
  <2>5. {k[1] : k \in todo} = {k[1] : k \in todo'} \cup {key[1]}
      BY <1>1
  <2> QED
      BY <1>2, <1>3, <2>4, <2>5
<1>19. \A s, path : ChunksOf(s, path)' = ChunksOf(s, path)
    BY <1>2, ChunksStay
<1>20. entries' = entries /\ ended' = ended
    BY <1>2 DEF parseVars
<1> QED
    BY <1>3, <1>12, <1>14, <1>17, <1>18, <1>19, <1>20 DEF ChunkInv

\* What is known of the block a chunk is in: the parts of its clause.
BlockFacts(list, key, parts, start) ==
    /\ start \in Nat /\ Len(parts) \in Nat /\ start + Len(parts) <= Len(list)
    /\ \A k \in 1..Len(parts) :
         LET c == list[start + k]
         IN  /\ c.text = parts[k] /\ KeyOf(c) = key
             /\ c.chunk_id[1] = key[1] /\ c.chunk_id[2] = key[2]
    /\ \A k, l \in 1..Len(parts) : list[start + k].chunk_id = list[start + l].chunk_id => k = l
    /\ \A j \in DOMAIN list : KeyOf(list[j]) = key => \E k \in 1..Len(parts) : j = start + k

\* Every chunk is in such a block.
LEMMA ChunkIsInBlock ==
  ASSUME ParseInv, EntriesAreSized, ChunkInv, NEW i \in DOMAIN clauses
  PROVE  LET key == KeyOf(clauses[i])
             ss == Sentences(entries[key])
         IN  /\ key \in DOMAIN entries /\ Text(ss) \in Strings
             /\ \E parts \in Seq(Strings), start \in Nat :
                  /\ BlockFacts(clauses, key, parts, start)
                  /\ SplitFacts(ss, Len(ss), Text(ss), parts)
<1>1. todo # None /\ clauses \in Seq(Range(clauses))
  <2>1. DOMAIN <<>> = {}
      OBVIOUS
  <2> QED
      BY <2>1 DEF ChunkInv
<1>2. PICK key : key = KeyOf(clauses[i])
    OBVIOUS
<1>3. /\ key \in DOMAIN entries
      /\ \E start \in Nat : IsBlock(clauses, ChunksOf(key[1], key[2]), key, start)
    BY <1>1, <1>2 DEF ChunkInv
<1>4. key = <<key[1], key[2]>>
    BY <1>2 DEF KeyOf
<1>5. PICK C : C = ChunksOf(key[1], key[2])
    OBVIOUS
<1>6. PICK start \in Nat : IsBlock(clauses, C, key, start)
    BY <1>3, <1>5
<1>7. PICK ss : ss = Sentences(entries[key])
    OBVIOUS
<1>8. PICK parts : parts = [k \in DOMAIN C |-> C[k].text]
    OBVIOUS
<1>9. /\ C \in Seq(Range(C)) /\ Len(C) \in Nat \ {0}
      /\ \A k \in 1..Len(C) :
           /\ KeyOf(C[k]) = key /\ C[k].standard_no = key[1]
           /\ C[k].chunk_id[1] = key[1] /\ C[k].chunk_id[2] = key[2]
      /\ \A k, l \in 1..Len(C) : C[k].chunk_id = C[l].chunk_id => k = l
      /\ parts \in Seq(Strings) /\ Len(parts) = Len(C)
      /\ Text(ss) \in Strings
      /\ SplitFacts(ss, Len(ss), Text(ss), parts)
    BY <1>3, <1>4, <1>5, <1>7, <1>8, ChunksOfEntry
<1>10. /\ start + Len(C) <= Len(clauses)
       /\ \A k \in 1..Len(C) : clauses[start + k] = C[k]
       /\ \A j \in DOMAIN clauses : KeyOf(clauses[j]) = key => j \in start + 1 .. start + Len(C)
    BY <1>6 DEF IsBlock
<1>11. \A k \in 1..Len(C) : parts[k] = C[k].text
    BY <1>8, <1>9
<1>12. ASSUME NEW j \in DOMAIN clauses, KeyOf(clauses[j]) = key
       PROVE  \E k \in 1..Len(parts) : j = start + k
  <2>1. j \in start + 1 .. start + Len(C) /\ Len(C) \in Nat
      BY <1>9, <1>10, <1>12
  <2>2. j - start \in 1..Len(C) /\ j = start + (j - start)
      BY <2>1
  <2> QED
      BY <1>9, <2>2
<1>13. BlockFacts(clauses, key, parts, start)
  <2>1. \A k \in 1..Len(parts) : k \in 1..Len(C) /\ clauses[start + k] = C[k]
      BY <1>9, <1>10
  <2>2. \A k \in 1..Len(parts) :
          LET c == clauses[start + k]
          IN  /\ c.text = parts[k] /\ KeyOf(c) = key
              /\ c.chunk_id[1] = key[1] /\ c.chunk_id[2] = key[2]
      BY <1>9, <1>11, <2>1
  <2>3. \A k, l \in 1..Len(parts) :
          clauses[start + k].chunk_id = clauses[start + l].chunk_id => k = l
      BY <1>9, <2>1
  <2>4. start \in Nat /\ Len(parts) \in Nat /\ start + Len(parts) <= Len(clauses)
      BY <1>9, <1>10
  <2> QED
      BY <1>12, <2>2, <2>3, <2>4 DEF BlockFacts
<1> QED
    BY <1>2, <1>3, <1>7, <1>9, <1>13

\* A citation resolves.
LEMMA ChunksAreCited ==
  ASSUME ParseInv, EntriesAreSized, ChunkInv
  PROVE  CitationsResolve
<1>1. ASSUME NEW i \in DOMAIN clauses
      PROVE  LET c == clauses[i]
             IN  /\ c.chunk_id[1] = c.standard_no /\ c.chunk_id[2] = c.clause_path
                 /\ Within(c) # {}
  <2>1. PICK key, ss : key = KeyOf(clauses[i]) /\ ss = Sentences(entries[key])
      OBVIOUS
  <2>2. PICK parts \in Seq(Strings), start \in Nat :
          /\ BlockFacts(clauses, key, parts, start)
          /\ SplitFacts(ss, Len(ss), Text(ss), parts)
      BY <2>1, ChunkIsInBlock
  <2>3. PICK k \in 1..Len(parts) : i = start + k
      BY <2>1, <2>2 DEF BlockFacts
  <2>4. /\ clauses[i].text = parts[k]
        /\ clauses[i].chunk_id[1] = key[1] /\ clauses[i].chunk_id[2] = key[2]
      BY <2>2, <2>3 DEF BlockFacts
  <2>5. key[1] = clauses[i].standard_no /\ key[2] = clauses[i].clause_path
      BY <2>1 DEF KeyOf
  <2>6. PICK at : InOrder(parts, Text(ss), at)
      BY <2>2 DEF SplitFacts
  <2>7. Stands(parts[k], Text(ss), at[k]) /\ parts[k] \in Strings
      BY <2>6 DEF InOrder
  <2>8. at[k] \in Occurs(parts[k], Text(ss))
      BY <2>1, <2>7, ChunkIsInBlock, StandsOccurs
  <2>9. Within(clauses[i]) = Occurs(parts[k], Text(ss))
      BY <2>1, <2>4 DEF Within
  <2> QED
      BY <2>4, <2>5, <2>8, <2>9
<1>2. ASSUME NEW i \in DOMAIN clauses, NEW j \in DOMAIN clauses,
             clauses[i].chunk_id = clauses[j].chunk_id
      PROVE  i = j
  <2>1. PICK key, ss : key = KeyOf(clauses[i]) /\ ss = Sentences(entries[key])
      OBVIOUS
  <2>2. PICK parts \in Seq(Strings), start \in Nat : BlockFacts(clauses, key, parts, start)
      BY <2>1, ChunkIsInBlock
  <2>3. KeyOf(clauses[j]) = key
      BY <1>1, <1>2, <2>1 DEF KeyOf
  <2>4. PICK k, l \in 1..Len(parts) : i = start + k /\ j = start + l
      BY <2>1, <2>2, <2>3 DEF BlockFacts
  <2>5. k = l
      BY <1>2, <2>2, <2>4 DEF BlockFacts
  <2> QED
      BY <2>4, <2>5
<1>3. ASSUME todo = {}
      PROVE  version.standards = {clauses[i].standard_no : i \in DOMAIN clauses}
  <2>1. todo # None
      BY <1>3, CorpusAssumption
  <2>2. version.standards =
          {clauses[i].standard_no : i \in DOMAIN clauses} \cup {key[1] : key \in todo}
      BY <2>1 DEF ChunkInv
  <2> QED
      BY <1>3, <2>2
<1> QED
    BY <1>1, <1>2, <1>3 DEF CitationsResolve

\* Nothing of a clause is lost.
LEMMA ChunksCover ==
  ASSUME ParseInv, EntriesAreSized, ChunkInv
  PROVE  NothingLostBetweenParts
<1>0. clauses \in Seq(Range(clauses)) /\ DOMAIN clauses = 1..Len(clauses) /\ Len(clauses) \in Nat
  <2>1. clauses \in Seq(Range(clauses))
      BY DEF ChunkInv
  <2> QED
      BY <2>1
<1>1. ASSUME NEW i \in DOMAIN clauses, NEW n \in DOMAIN entries[KeyOf(clauses[i])]
      PROVE  \E j \in DOMAIN clauses :
               /\ KeyOf(clauses[j]) = KeyOf(clauses[i])
               /\ Occurs(Sentences(entries[KeyOf(clauses[i])])[n], clauses[j].text) # {}
  <2>1. PICK key, ss : key = KeyOf(clauses[i]) /\ ss = Sentences(entries[key])
      OBVIOUS
  <2>2. PICK parts \in Seq(Strings), start \in Nat :
          /\ BlockFacts(clauses, key, parts, start)
          /\ SplitFacts(ss, Len(ss), Text(ss), parts)
      BY <2>1, ChunkIsInBlock
  <2>3. key \in DOMAIN entries
      BY <2>1, ChunkIsInBlock
  <2>4. ss \in Seq(Strings \ {<<>>}) /\ DOMAIN ss = DOMAIN entries[key]
      BY <2>1, <2>3, SentencesOfEntry
  <2>5. n \in 1..Len(ss) /\ ss[n] \in Strings
      BY <2>1, <2>4
  <2>6. PICK k \in DOMAIN parts, o \in Nat : Stands(ss[n], parts[k], o)
      BY <2>2, <2>5 DEF SplitFacts
  <2>7. k \in 1..Len(parts) /\ parts[k] \in Strings
      BY <2>6
  <2>8. o \in Occurs(ss[n], parts[k])
      BY <2>5, <2>6, <2>7, StandsOccurs
  <2>9. start + k \in DOMAIN clauses /\ clauses[start + k].text = parts[k] /\ KeyOf(clauses[start + k]) = key
      BY <1>0, <2>2, <2>7 DEF BlockFacts
  <2> QED
      BY <2>1, <2>8, <2>9
<1>2. ASSUME NEW i \in DOMAIN clauses, NEW j \in DOMAIN clauses, i < j,
             KeyOf(clauses[i]) = KeyOf(clauses[j])
      PROVE  LET c == clauses[i] next == clauses[i + 1]
             IN  /\ KeyOf(next) = KeyOf(c)
                 /\ \E at \in Within(c), from \in Within(next) :
                      /\ at <= from
                      /\ from <= at + Len(c.text)
                      /\ at + Len(c.text) < from + Len(next.text)
  <2>1. PICK key, ss : key = KeyOf(clauses[i]) /\ ss = Sentences(entries[key])
      OBVIOUS
  <2>2. PICK parts \in Seq(Strings), start \in Nat :
          /\ BlockFacts(clauses, key, parts, start)
          /\ SplitFacts(ss, Len(ss), Text(ss), parts)
      BY <2>1, ChunkIsInBlock
  <2>3. PICK k, l \in 1..Len(parts) : i = start + k /\ j = start + l
      BY <1>2, <2>1, <2>2 DEF BlockFacts
  <2>4. k \in 1..Len(parts) - 1 /\ k + 1 \in 1..Len(parts) /\ i + 1 = start + (k + 1)
      BY <1>2, <2>3
  <2>5. /\ clauses[i].text = parts[k]
        /\ clauses[i + 1].text = parts[k + 1] /\ KeyOf(clauses[i + 1]) = key
      BY <2>2, <2>3, <2>4 DEF BlockFacts
  <2>6. PICK at : InOrder(parts, Text(ss), at)
      BY <2>2 DEF SplitFacts
  <2>7. /\ Stands(parts[k], Text(ss), at[k]) /\ Stands(parts[k + 1], Text(ss), at[k + 1])
        /\ at[k] <= at[k + 1] /\ at[k + 1] <= at[k] + Len(parts[k])
        /\ at[k] + Len(parts[k]) < at[k + 1] + Len(parts[k + 1])
        /\ parts[k] \in Strings /\ parts[k + 1] \in Strings
      BY <2>4, <2>6 DEF InOrder
  <2>8. at[k] \in Occurs(parts[k], Text(ss)) /\ at[k + 1] \in Occurs(parts[k + 1], Text(ss))
      BY <2>1, <2>7, ChunkIsInBlock, StandsOccurs
  <2>9. /\ Within(clauses[i]) = Occurs(parts[k], Text(ss))
        /\ Within(clauses[i + 1]) = Occurs(parts[k + 1], Text(ss))
      BY <2>1, <2>5 DEF Within
  <2> QED
      BY <2>1, <2>5, <2>7, <2>8, <2>9
<1> QED
    BY <1>1, <1>2 DEF NothingLostBetweenParts

\* A part is too long only where it has to be.
LEMMA ChunksFit ==
  ASSUME ParseInv, EntriesAreSized, ChunkInv
  PROVE  PartsFit
<1>1. ASSUME NEW i \in DOMAIN clauses
      PROVE  LET last == Last(clauses[i].text)[1]
             IN  \/ Len(clauses[i].text) <= MaxChunk
                 \/ Len(clauses[i].text) <= Overlap + 1 + text[last].size
  <2>1. PICK key, ss : key = KeyOf(clauses[i]) /\ ss = Sentences(entries[key])
      OBVIOUS
  <2>2. PICK parts \in Seq(Strings), start \in Nat :
          /\ BlockFacts(clauses, key, parts, start)
          /\ SplitFacts(ss, Len(ss), Text(ss), parts)
      BY <2>1, ChunkIsInBlock
  <2>3. PICK k \in 1..Len(parts) : i = start + k
      BY <2>1, <2>2 DEF BlockFacts
  <2>4. clauses[i].text = parts[k]
      BY <2>2, <2>3 DEF BlockFacts
  <2>5. PICK m \in 1..Len(ss) :
          /\ parts[k][Len(parts[k])] = ss[m][Len(ss[m])]
          /\ Len(parts[k]) <= MaxChunk \/ Len(parts[k]) <= Overlap + 1 + Len(ss[m])
    <3>1. Fits(parts[k], ss, Len(ss))
        BY <2>2, <2>3 DEF SplitFacts
    <3> QED
        BY <3>1 DEF Fits
  <2>6. key \in DOMAIN entries
      BY <2>1, ChunkIsInBlock
  <2>7. Len(ss[m]) = text[entries[key][m]].size /\ ss[m][Len(ss[m])][1] = entries[key][m]
      BY <2>1, <2>5, <2>6, SentencesOfEntry
  <2>8. Last(clauses[i].text)[1] = entries[key][m]
      BY <2>4, <2>5, <2>7 DEF Last
  <2> QED
      BY <2>4, <2>5, <2>7, <2>8
<1> QED
    BY <1>1 DEF PartsFit

\* What ingest keeps through every line read and every clause chunked.
IngestInv == ParseInv /\ VoteInv /\ LongestInv /\ ChunkInv

LEMMA IngestInvariant == Spec => []IngestInv
<1>1. Init => IngestInv
  <2> SUFFICES ASSUME Init PROVE IngestInv
      OBVIOUS
  <2>1. ParseInit
      BY DEF Init
  <2>2. LongestInv
      BY <2>1 DEF ParseInit, LongestInv, AppendixSeen, AnnouncedIsCurrent, Announced,
                  BufferIsRun, UnclosedIsOpen, EntriesAreSized, LongestKept
  <2> QED
      BY <2>1, <2>2, InitParse, InitVotes, InitChunks DEF IngestInv
<1>2. IngestInv /\ [Next]_vars => IngestInv'
  <2> SUFFICES ASSUME IngestInv, [Next]_vars PROVE IngestInv'
      OBVIOUS
  <2>1. [ParseNext]_parseVars
      BY DEF Next, Parse, Select, ChunkClause, vars, parseVars
  <2>2. ParseInv' /\ VoteInv' /\ LongestInv'
      BY <2>1, ParseStep, VoteStep, LongestStep DEF IngestInv
  <2>3. CASE Parse
    <3>1. UNCHANGED corpusVars /\ ParseNext
        BY <2>3 DEF Parse
    <3>2. todo = None \/ UNCHANGED parseVars
        BY <2>1, ParsingEnds DEF IngestInv, ChunkInv
    <3> QED
        BY <2>2, <3>1, <3>2, ChunksKeep DEF IngestInv
  <2>4. CASE Select
      BY <2>2, <2>4, SelectStep DEF IngestInv
  <2>5. CASE ChunkClause
      BY <2>2, <2>5, ChunkClauseStep DEF IngestInv
  <2>6. CASE UNCHANGED vars
    <3>1. UNCHANGED corpusVars /\ UNCHANGED parseVars
        BY <2>6 DEF vars
    <3> QED
        BY <2>2, <3>1, ChunksKeep DEF IngestInv
  <2> QED
      BY <2>3, <2>4, <2>5, <2>6 DEF Next
<1> QED
    BY <1>1, <1>2, PTL DEF Spec

\* _split_long ("the parts keep the parent clause path so a citation still
\* resolves to a real clause number") and corpus_version_for: whatever the text,
\* no two chunks share an id, what a chunk says is a piece of the clause its id
\* names, and the standards hashed into the version are those that have chunks.
THEOREM CitationsAlwaysResolve == Spec => []CitationsResolve
<1>1. IngestInv => CitationsResolve
    BY ChunksAreCited DEF IngestInv, LongestInv
<1> QED
    BY <1>1, IngestInvariant, PTL

\* _split_long ("split on sentence boundaries with overlap"): whatever the text
\* and whatever the sizes, every sentence of a clause that is chunked is whole in
\* one of its parts, and no character between two parts is lost.
THEOREM NothingIsLost == Spec => []NothingLostBetweenParts
<1>1. IngestInv => NothingLostBetweenParts
    BY ChunksCover DEF IngestInv, LongestInv
<1> QED
    BY <1>1, IngestInvariant, PTL

\* MAX_CHUNK_CHARS: no part is longer, but for one whose last sentence leaves no
\* room for the tail it opens with.
THEOREM PartsAlwaysFit == Spec => []PartsFit
<1>1. IngestInv => PartsFit
    BY ChunksFit DEF IngestInv, LongestInv
<1> QED
    BY <1>1, IngestInvariant, PTL

=============================================================================
