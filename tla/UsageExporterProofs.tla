-------------------------- MODULE UsageExporterProofs --------------------------
(***************************************************************************)
(* Theorems about UsageExporter for every number of sources, files and     *)
(* messages: no message that has an id is counted twice, and the numbers   *)
(* scanned from transcripts never fall, whatever is written while they are *)
(* read; what stats-cache.json tells may fall.                             *)
(***************************************************************************)
EXTENDS UsageExporter, TLAPS, FiniteSetTheorems

\* Every set of ids is finite, and a part of one has no more of them.
LEMMA IdSets ==
    ASSUME NEW S \in SUBSET Ids
    PROVE  /\ IsFiniteSet(S) /\ Cardinality(S) \in Nat
           /\ \A T \in SUBSET S : Cardinality(T) <= Cardinality(S)
<1>1. IsFiniteSet(S)
  BY FilesAssumption, FS_Subset
<1>2. \A T \in SUBSET S : Cardinality(T) <= Cardinality(S)
  BY <1>1, FS_Subset
<1> QED
  BY <1>1, <1>2, FS_CardinalityType

\* What is written and what lies ahead are sets of ids.
LEMMA WrittenIds ==
    ASSUME TypeOK, NEW s \in Sources
    PROVE  Written(s) \in SUBSET Ids /\ Ahead(s) \in SUBSET Ids
BY DEF TypeOK, Written, Ahead

\* A set gains what another has that it lacks.
LEMMA CountNew ==
    ASSUME NEW S \in SUBSET Ids, NEW T \in SUBSET Ids
    PROVE  Cardinality(S \cup T) = Cardinality(S) + Cardinality(T \ S)
<1>1. IsFiniteSet(S) /\ IsFiniteSet(T \ S) /\ S \cap (T \ S) = {}
  <2>1. T \ S \in SUBSET Ids
    OBVIOUS
  <2> QED
    BY <2>1, IdSets
<1>2. Cardinality(S \cup (T \ S))
         = Cardinality(S) + Cardinality(T \ S) - Cardinality(S \cap (T \ S))
  BY <1>1, FS_Union
<1>3. S \cup (T \ S) = S \cup T
  OBVIOUS
<1>4. Cardinality(S \cap (T \ S)) = 0
  BY <1>1, FS_EmptySet, Zenon
<1>5. Cardinality(S) \in Nat /\ Cardinality(T \ S) \in Nat
  BY <1>1, FS_CardinalityType
<1>6. Cardinality(S \cup (T \ S)) = Cardinality(S) + Cardinality(T \ S)
  <2> DEFINE c == Cardinality(S \cap (T \ S))
  <2> HIDE DEF c
  <2> QED
    BY <1>2, <1>4, <1>5 DEF c
<1> QED
  BY <1>3, <1>6, Zenon

--------------------------------------------------------------------------------
(***************************************************************************)
(* The invariant.                                                          *)
(***************************************************************************)

\* The first source is Claude Code, and its files only grow.
LEMMA ClaudeIsASource == 1 \in Sources \ Documents
BY SourcesAssumption DEF Sources

\* Nothing is written, scanned or told yet.
LEMMA InitInv ==
    ASSUME Init
    PROVE  IInv
<1> USE DEF Init
<1>1. TypeOK
  BY SourcesAssumption, BoundsAssumption DEF TypeOK, Sources, Scanned
<1>2. FilesApart
  BY DEF FilesApart
<1>3. CountsSeen
  BY FS_EmptySet DEF CountsSeen, Sources
<1>4. AtMost
  BY <1>1, WrittenIds, IdSets DEF AtMost
<1>5. AllScanned
  BY DEF AllScanned, Sources
<1>6. Forward
  BY DEF Forward, Sources
<1>7. OneOfTwo
  BY ClaudeIsASource DEF OneOfTwo, Scanned
<1> QED
  BY <1>1, <1>2, <1>3, <1>4, <1>5, <1>6, <1>7 DEF IInv

\* Files grow, each source's by ids it had not written or, when they are
\* counted by id, by any, and nothing else that matters changes.
LEMMA GrowInv ==
    ASSUME IInv, TypeOK', UNCHANGED <<scanning, good, page, scraped>>,
           \A s \in Sources, f \in Files : content[s][f] \subseteq content'[s][f],
           \A s \in Sources \ Keyed :
              \/ content'[s] = content[s]
              \/ \E g \in Files :
                    /\ \A f \in Files \ {g} : content'[s][f] = content[s][f]
                    /\ (content'[s][g] \ content[s][g]) \cap Written(s) = {}
    PROVE  IInv'
<1> USE DEF scanning, page, scraped
<1>1. TypeOK
  BY DEF IInv
<1>2. ASSUME NEW s \in Sources
      PROVE  /\ Written(s) \subseteq Written(s)' /\ Ahead(s) \subseteq Ahead(s)'
             /\ Cardinality(Written(s)) <= Cardinality(Written(s)')
             /\ Cardinality(Ahead(s)) <= Cardinality(Ahead(s)')
             /\ Cardinality(Written(s)) \in Nat /\ Cardinality(Written(s)') \in Nat
             /\ Cardinality(Ahead(s)) \in Nat /\ Cardinality(Ahead(s)') \in Nat
  <2>1. Written(s) \subseteq Written(s)'
    BY DEF Written
  <2>2. Ahead(s) \subseteq Ahead(s)'
    BY <1>1 DEF Ahead, TypeOK
  <2>3. Written(s) \in SUBSET Ids /\ Ahead(s) \in SUBSET Ids
    BY <1>1, WrittenIds
  <2>4. Written(s)' \in SUBSET Ids /\ Ahead(s)' \in SUBSET Ids
    BY DEF TypeOK, Written, Ahead
  <2> QED
    BY <2>1, <2>2, <2>3, <2>4, IdSets
<1>3. FilesApart'
  <2> SUFFICES ASSUME NEW s \in Sources \ Keyed, NEW f \in Files, NEW g \in Files, f # g
               PROVE  content'[s][f] \cap content'[s][g] = {}
    BY DEF FilesApart
  <2>1. CASE content'[s] = content[s]
    BY <2>1 DEF IInv, FilesApart
  <2> SUFFICES ASSUME NEW h \in Files,
                      \A e \in Files \ {h} : content'[s][e] = content[s][e],
                      (content'[s][h] \ content[s][h]) \cap Written(s) = {}
               PROVE  content'[s][f] \cap content'[s][g] = {}
    BY <2>1
  <2>2. content[s][f] \cap content[s][g] = {}
    BY DEF IInv, FilesApart
  <2>3. content[s][f] \subseteq Written(s) /\ content[s][g] \subseteq Written(s)
    BY DEF Written
  <2> QED
    BY <2>2, <2>3
<1>4. CountsSeen'
  <2>1. at \in Sources => seen \subseteq Written(at)'
    BY <1>2 DEF IInv, CountsSeen
  <2>2. ASSUME at \in Sources \ Keyed, NEW f \in toRead
        PROVE  content'[at][f] \cap seen = {}
    <3>1. f \in Files /\ content[at][f] \cap seen = {} /\ seen \subseteq Written(at)
      BY <1>1, <2>2 DEF IInv, CountsSeen, TypeOK
    <3> QED
      BY <2>2, <3>1
  <2> QED
    BY <2>1, <2>2 DEF IInv, CountsSeen, Written
<1>5. AtMost'
  <2> SUFFICES ASSUME NEW s \in Sources
               PROVE  /\ good[s] # None => good[s] <= Cardinality(Written(s)')
                      /\ text # None => text[s] <= Cardinality(Written(s)')
                      /\ told[s] <= Cardinality(Written(s)')
    BY DEF AtMost
  <2> QED
    BY <1>1, <1>2 DEF IInv, AtMost, TypeOK
<1>6. AllScanned'
  BY DEF IInv, AllScanned
<1>7. Forward'
  <2> SUFFICES ASSUME NEW s \in Sources \ Documents, at = s
               PROVE  /\ told[s] <= Cardinality(Ahead(s)')
                      /\ good[s] # None => good[s] <= Cardinality(Ahead(s)')
    BY DEF IInv, Forward
  <2> QED
    BY <1>1, <1>2 DEF IInv, Forward, TypeOK
<1>8. OneOfTwo'
  BY DEF IInv, OneOfTwo
<1> QED
  BY <1>3, <1>4, <1>5, <1>6, <1>7, <1>8 DEF IInv

\* A scan begins, or the round ends: nothing of the next source is seen yet, and
\* all that it has written is still to read.
LEMMA EnterInv ==
    ASSUME IInv, TypeOK', NEW k \in 0 .. N + 1, Enter(k), content' = content,
           AllScanned', OneOfTwo', \A s \in Sources : s < k => good'[s] # None,
           \A s \in Sources :
              /\ good'[s] # None => good'[s] <= Cardinality(Written(s))
              /\ text' # None => text'[s] <= Cardinality(Written(s))
              /\ told'[s] <= Cardinality(Written(s)),
           \A s \in Sources \ Documents :
              /\ text' # None => told'[s] <= text'[s] /\ text'[s] <= good'[s]
              /\ good'[s] # None => told'[s] <= good'[s]
    PROVE  IInv'
<1> USE DEF Enter
<1>1. FilesApart'
  BY DEF IInv, FilesApart
<1>2. CountsSeen'
  BY FS_EmptySet DEF CountsSeen
<1>3. \A s \in Sources : Written(s)' = Written(s)
  BY DEF Written
<1>4. AtMost'
  BY <1>3 DEF AtMost
<1>5. ASSUME at' \in Sources
      PROVE  Ahead(at)' = Written(at)'
  <2>1. seen' = {} /\ toRead' = {f \in Files : content'[at'][f] # {}}
    BY <1>5
  <2> QED
    BY <2>1 DEF Ahead, Written
<1>6. Forward'
  BY <1>3, <1>5 DEF Forward
<1> QED
  BY <1>1, <1>2, <1>4, <1>6 DEF IInv

\* A scan begins in its types.
LEMMA EnterTypes ==
    ASSUME TypeOK, NEW k \in 0 .. N + 1, Enter(k)
    PROVE  /\ toRead' \subseteq Files /\ at' \in 0 .. N + 1
           /\ seen' \subseteq Ids /\ count' \in Nat /\ stat' \in Totals \cup {None}
BY DEF Enter, TypeOK

\* A round begins, ends, or ends with a source that was never scanned.
LEMMA BeginInv ==
    ASSUME IInv, Begin \/ Render
    PROVE  IInv'
<1> DEFINE k == IF at = 0 THEN 1 ELSE 0
<1>1. TypeOK /\ k \in 0 .. N + 1 /\ N \in Nat \ {0}
  BY SourcesAssumption DEF IInv
<1>2. /\ Enter(k) /\ content' = content /\ good' = good
      /\ UNCHANGED <<torn, broken, cache, told, shown, faults>>
  BY <1>1, SourcesAssumption DEF Begin, Render, disk, scraped
<1>3. text' = text \/ (text' = good /\ \A s \in Sources : good[s] # None)
  BY <1>1 DEF Begin, Render, IInv, AllScanned, Sources, page
<1> HIDE DEF k
<1>4. TypeOK'
  <2>1. text' \in [Sources -> Nat] \cup {None}
    BY <1>1, <1>3 DEF TypeOK
  <2>2. /\ toRead' \subseteq Files /\ at' \in 0 .. N + 1
        /\ seen' \subseteq Ids /\ count' \in Nat /\ stat' \in Totals \cup {None}
    BY <1>1, <1>2, EnterTypes
  <2>3. total' \in [cached : BOOLEAN, n : Nat]
    <3>1. CASE Begin
      BY <1>1, <3>1 DEF Begin, page, TypeOK
    <3>2. CASE Render
      <4>1. good[1] \in Nat
        BY <1>1, <3>2, ClaudeIsASource DEF Render, IInv, AllScanned, TypeOK, Sources
      <4>2. stat # None => stat \in Nat
        BY <1>1, TotalsAssumption DEF TypeOK
      <4> QED
        BY <3>2, <4>1, <4>2 DEF Render, Scanned, Cached
    <3> QED
      BY <3>1, <3>2
  <2> QED
    BY <1>1, <1>2, <2>1, <2>2, <2>3 DEF TypeOK
<1>5. AllScanned' /\ \A s \in Sources : s < k => good'[s] # None
  <2>1. at' = k
    BY <1>2 DEF Enter
  <2>2. \A s \in Sources : ~(s < k)
    BY SourcesAssumption DEF Sources, k
  <2> QED
    BY <1>2, <1>3, <2>1, <2>2 DEF IInv, AllScanned
<1>6. \A s \in Sources :
         /\ good'[s] # None => good'[s] <= Cardinality(Written(s))
         /\ text' # None => text'[s] <= Cardinality(Written(s))
         /\ told'[s] <= Cardinality(Written(s))
  BY <1>2, <1>3 DEF IInv, AtMost
<1>7. \A s \in Sources \ Documents :
         /\ text' # None => told'[s] <= text'[s] /\ text'[s] <= good'[s]
         /\ good'[s] # None => told'[s] <= good'[s]
  BY <1>1, <1>2, <1>3 DEF IInv, Forward, TypeOK
<1>8. OneOfTwo'
  <2>1. ~shown'.cached => shown'.n = told'[1]
    BY <1>2 DEF IInv, OneOfTwo
  <2>2. CASE Begin
    BY <2>1, <2>2 DEF Begin, page, IInv, OneOfTwo
  <2>3. CASE Render
    BY <2>1, <2>3 DEF Render, OneOfTwo, Scanned, Cached
  <2> QED
    BY <2>2, <2>3
<1> QED
  BY <1>1, <1>2, <1>4, <1>5, <1>6, <1>7, <1>8, EnterInv

\* What a file tells of is in what is written, and what the scan did not see
\* before is added to the number of what it saw.
LEMMA CountFileInv ==
    ASSUME IInv, CountFile
    PROVE  IInv'
<1> USE DEF CountFile, disk, page, scraped
<1>1. TypeOK /\ at \in Sources
  BY DEF IInv
<1>2. PICK f \in toRead :
         /\ toRead' = toRead \ {f} /\ seen' = seen \cup Readable(f)
         /\ count' = count + Cardinality(IF at \in Keyed THEN ById(f) ELSE AsItIs(f))
  OBVIOUS
<1>3. f \in Files /\ Readable(f) \subseteq content[at][f] /\ content[at][f] \subseteq Ids
  BY <1>1 DEF TypeOK, Readable
<1>4. count' = count + Cardinality(Readable(f) \ seen)
  <2>1. CASE at \in Keyed
    BY <2>1, <1>2 DEF ById
  <2>2. CASE at \notin Keyed
    <3>1. Readable(f) \ seen = Readable(f)
      BY <1>1, <1>3, <2>2 DEF IInv, CountsSeen
    <3> QED
      BY <1>2, <2>2, <3>1 DEF AsItIs
  <2> QED
    BY <2>1, <2>2
<1>5. count' = Cardinality(seen') /\ count' \in Nat /\ seen' \subseteq Ids
  <2>1. seen \in SUBSET Ids /\ Readable(f) \in SUBSET Ids
    BY <1>1, <1>3 DEF TypeOK
  <2>2. count' = Cardinality(seen \cup Readable(f))
    BY <2>1, <1>4, CountNew DEF IInv, CountsSeen
  <2>3. Cardinality(seen \cup Readable(f)) \in Nat
    BY <2>1, IdSets
  <2> QED
    BY <2>1, <2>2, <2>3, <1>2
<1>6. TypeOK'
  BY <1>1, <1>2, <1>5 DEF TypeOK
<1>7. FilesApart'
  BY DEF IInv, FilesApart
<1>8. CountsSeen'
  <2>1. seen' \subseteq Written(at)'
    BY <1>1, <1>2, <1>3 DEF IInv, CountsSeen, Written
  <2>2. ASSUME at \in Sources \ Keyed, NEW g \in toRead'
        PROVE  content[at][g] \cap seen' = {}
    <3>1. g \in Files /\ g # f /\ g \in toRead
      BY <1>1, <1>2, <2>2 DEF TypeOK
    <3>2. content[at][g] \cap content[at][f] = {}
      BY <1>1, <1>3, <2>2, <3>1 DEF IInv, FilesApart
    <3>3. content[at][g] \cap seen = {}
      BY <2>2, <3>1 DEF IInv, CountsSeen
    <3> QED
      BY <1>2, <1>3, <3>2, <3>3
  <2> QED
    BY <1>5, <2>1, <2>2 DEF CountsSeen
<1>9. AtMost'
  BY DEF IInv, AtMost, Written
<1>10. AllScanned'
  BY DEF IInv, AllScanned
<1>11. ASSUME at \notin Documents
       PROVE  Ahead(at)' = Ahead(at)
  <2>1. Readable(f) = content[at][f]
    <3>1. <<at, f>> \notin torn
      BY <1>1, <1>11 DEF TypeOK
    <3> QED
      BY <3>1 DEF Readable
  <2> QED
    BY <1>2, <2>1 DEF Ahead
<1>12. Forward'
  BY <1>11 DEF IInv, Forward
<1>13. OneOfTwo'
  BY DEF IInv, OneOfTwo
<1> QED
  BY <1>6, <1>7, <1>8, <1>9, <1>10, <1>12, <1>13 DEF IInv

\* Once all files are read, what was seen is what was ahead.
LEMMA ScanDoneInv ==
    ASSUME IInv, ScanDone
    PROVE  IInv'
<1> USE DEF ScanDone, disk, page, scraped
<1>1. /\ TypeOK /\ at \in Sources /\ N \in Nat \ {0} /\ at + 1 \in 0 .. N + 1
      /\ at \in Nat /\ toRead = {} /\ Enter(at + 1)
  BY SourcesAssumption DEF IInv, Sources
<1>2. \A s \in Sources : good'[s] = IF s = at THEN count ELSE good[s]
  BY <1>1 DEF TypeOK
<1>3. count = Cardinality(seen) /\ count \in Nat /\ Ahead(at) = seen /\ count # None
  BY <1>1, NoneAssumption DEF IInv, CountsSeen, TypeOK, Ahead
<1>4. count <= Cardinality(Written(at))
  <2>1. seen \subseteq Written(at) /\ Written(at) \in SUBSET Ids
    BY <1>1, WrittenIds DEF IInv, CountsSeen
  <2> QED
    BY <1>3, <2>1, IdSets
<1>5. TypeOK'
  <2>1. good' \in [Sources -> Nat \cup {None}]
    BY <1>1, <1>3 DEF TypeOK
  <2>2. /\ toRead' \subseteq Files /\ at' \in 0 .. N + 1
        /\ seen' \subseteq Ids /\ count' \in Nat /\ stat' \in Totals \cup {None}
    BY <1>1, EnterTypes
  <2> QED
    BY <1>1, <2>1, <2>2 DEF TypeOK
<1>6. AllScanned' /\ \A s \in Sources : s < at + 1 => good'[s] # None
  <2>1. at' = at + 1
    BY <1>1 DEF Enter
  <2>2. ASSUME NEW s \in Sources, s < at + 1
        PROVE  good'[s] # None
    <3>1. s = at \/ s < at
      BY <1>1, <2>2 DEF Sources
    <3> QED
      BY <3>1, <1>2, <1>3 DEF IInv, AllScanned
  <2> QED
    BY <1>2, <1>3, <2>1, <2>2 DEF IInv, AllScanned
<1>7. \A s \in Sources :
         /\ good'[s] # None => good'[s] <= Cardinality(Written(s))
         /\ text' # None => text'[s] <= Cardinality(Written(s))
         /\ told'[s] <= Cardinality(Written(s))
  BY <1>2, <1>4 DEF IInv, AtMost
<1>8. ASSUME NEW s \in Sources \ Documents
      PROVE  /\ text' # None => told'[s] <= text'[s] /\ text'[s] <= good'[s]
             /\ good'[s] # None => told'[s] <= good'[s]
  <2>1. CASE s # at
    BY <2>1, <1>2 DEF IInv, Forward
  <2>2. CASE s = at
    <3>1. told[s] <= count /\ (good[s] # None => good[s] <= count) /\ good'[s] = count
      BY <2>2, <1>2, <1>3 DEF IInv, Forward
    <3>2. text # None => good[s] # None
      BY DEF IInv, AllScanned
    <3>3. /\ text # None => text[s] \in Nat
          /\ good[s] # None => good[s] \in Nat
      BY <1>1 DEF TypeOK
    <3>4. text # None => told[s] <= text[s] /\ text[s] <= good[s]
      BY DEF IInv, Forward
    <3> QED
      BY <1>3, <3>1, <3>2, <3>3, <3>4
  <2> QED
    BY <2>1, <2>2
<1>9. OneOfTwo'
  BY DEF IInv, OneOfTwo
<1> QED
  BY <1>1, <1>5, <1>6, <1>7, <1>8, <1>9, EnterInv

\* A scan that fails leaves the result of the one before.
LEMMA ScanFailsInv ==
    ASSUME IInv, ScanFails
    PROVE  IInv'
<1> USE DEF disk
<1> DEFINE k == IF good[at] = None THEN 0 ELSE at + 1
<1>1. /\ TypeOK /\ at \in Sources /\ N \in Nat \ {0} /\ k \in 0 .. N + 1 /\ at \in Nat
      /\ Enter(k)
  BY SourcesAssumption DEF IInv, Sources, ScanFails, Raises
<1>2. /\ content' = content /\ good' = good /\ text' = text /\ told' = told
      /\ UNCHANGED <<torn, broken, cache, total, shown>>
  BY DEF ScanFails, page, scraped
<1>3. faults' \in 0 .. MaxFaults
  BY <1>1, BoundsAssumption DEF TypeOK, ScanFails, Raises, Fault
<1>4. TypeOK'
  <2>1. /\ toRead' \subseteq Files /\ at' \in 0 .. N + 1
        /\ seen' \subseteq Ids /\ count' \in Nat /\ stat' \in Totals \cup {None}
    BY <1>1, EnterTypes
  <2> QED
    BY <1>1, <1>2, <1>3, <2>1 DEF TypeOK
<1>5. \A s \in Sources : s < k => good[s] # None
  BY <1>1 DEF IInv, AllScanned, Sources
<1>6. AllScanned'
  BY <1>1, <1>2, <1>5 DEF IInv, AllScanned, Enter
<1> HIDE DEF k
<1>7. /\ \A s \in Sources :
            /\ good'[s] # None => good'[s] <= Cardinality(Written(s))
            /\ text' # None => text'[s] <= Cardinality(Written(s))
            /\ told'[s] <= Cardinality(Written(s))
      /\ \A s \in Sources \ Documents :
            /\ text' # None => told'[s] <= text'[s] /\ text'[s] <= good'[s]
            /\ good'[s] # None => told'[s] <= good'[s]
  BY <1>2 DEF IInv, AtMost, Forward
<1>8. OneOfTwo'
  BY <1>2 DEF IInv, OneOfTwo
<1> QED
  BY <1>1, <1>2, <1>4, <1>5, <1>6, <1>7, <1>8, EnterInv

\* After a restart nothing is known, and nothing is told until a round is done.
LEMMA RestartInv ==
    ASSUME IInv, Restart
    PROVE  IInv'
<1> USE DEF Restart, disk, scraped, Scanned
<1>1. TypeOK /\ Enter(0) /\ 0 \in 0 .. N + 1
  BY SourcesAssumption DEF IInv
<1>2. TypeOK'
  <2>1. /\ toRead' \subseteq Files /\ at' \in 0 .. N + 1
        /\ seen' \subseteq Ids /\ count' \in Nat /\ stat' \in Totals \cup {None}
    BY <1>1, EnterTypes
  <2>2. faults' \in 0 .. MaxFaults
    BY <1>1, BoundsAssumption DEF TypeOK, Fault
  <2> QED
    BY <1>1, <2>1, <2>2 DEF TypeOK
<1>3. AllScanned' /\ \A s \in Sources : s < 0 => good'[s] # None
  BY <1>1 DEF AllScanned, Enter, Sources
<1>4. /\ \A s \in Sources :
            /\ good'[s] # None => good'[s] <= Cardinality(Written(s))
            /\ text' # None => text'[s] <= Cardinality(Written(s))
            /\ told'[s] <= Cardinality(Written(s))
      /\ \A s \in Sources \ Documents :
            /\ text' # None => told'[s] <= text'[s] /\ text'[s] <= good'[s]
            /\ good'[s] # None => told'[s] <= good'[s]
  BY DEF IInv, AtMost
<1>5. OneOfTwo'
  BY DEF IInv, OneOfTwo
<1> QED
  BY <1>1, <1>2, <1>3, <1>4, <1>5, EnterInv

\* What is scraped is what was rendered.
LEMMA ScrapeInv ==
    ASSUME IInv, Scrape
    PROVE  IInv'
<1> USE DEF Scrape, disk, scanning, page
<1>1. TypeOK /\ text \in [Sources -> Nat]
  BY DEF IInv, TypeOK
<1>2. TypeOK'
  BY <1>1 DEF TypeOK
<1>3. FilesApart' /\ CountsSeen' /\ AllScanned'
  BY DEF IInv, FilesApart, CountsSeen, AllScanned, Written
<1>4. AtMost'
  BY DEF IInv, AtMost, Written
<1>5. ASSUME NEW s \in Sources \ Documents
      PROVE  /\ text[s] <= text[s] /\ text[s] <= good[s]
             /\ at = s => /\ text[s] <= Cardinality(Ahead(s))
                          /\ good[s] <= Cardinality(Ahead(s))
  <2>1. text[s] <= good[s] /\ good[s] # None
    BY DEF IInv, Forward, AllScanned
  <2>2. text[s] \in Nat /\ good[s] \in Nat
    BY <1>1, <2>1 DEF TypeOK
  <2>3. Cardinality(Ahead(s)) \in Nat
    BY <1>1, WrittenIds, IdSets
  <2> QED
    BY <2>1, <2>2, <2>3 DEF IInv, Forward
<1>6. Forward'
  BY <1>5 DEF Forward, Ahead
<1>7. OneOfTwo'
  BY DEF IInv, OneOfTwo
<1> QED
  BY <1>2, <1>3, <1>4, <1>6, <1>7 DEF IInv

\* The tools only add: a line or a document a new id, a resumed session, which is
\* counted by id, any.
LEMMA ToolsInv ==
    ASSUME IInv, Log \/ Resume \/ Truncate \/ Rewrite \/ ChangeFormat \/ WriteCache
              \/ UNCHANGED vars
    PROVE  IInv'
<1> USE DEF disk
<1>1. TypeOK /\ UNCHANGED <<scanning, good, page, scraped>>
  BY DEF IInv, vars, Log, Resume, Truncate, Rewrite, ChangeFormat, WriteCache
<1>2. CASE Log
  <2>1. PICK s \in Sources \ Documents, f \in Files : \E i \in Ids \ Written(s) :
           content' = [content EXCEPT ![s][f] = @ \cup {i}]
    BY <1>2 DEF Log
  <2>2. PICK i \in Ids \ Written(s) : content' = [content EXCEPT ![s][f] = @ \cup {i}]
    BY <2>1
  <2>3. \A t \in Sources, g \in Files :
           content'[t][g] = IF t = s /\ g = f THEN content[s][f] \cup {i} ELSE content[t][g]
    BY <1>1, <2>2 DEF TypeOK
  <2>4. content' \in [Sources -> [Files -> SUBSET Ids]]
    BY <1>1, <2>2 DEF TypeOK
  <2>5. TypeOK'
    BY <1>1, <1>2, <2>4 DEF TypeOK, Log, scanning, page, scraped
  <2> QED
    BY <1>1, <2>1, <2>2, <2>3, <2>5, GrowInv
<1>3. CASE Resume
  <2>1. PICK s \in Keyed, f \in Files, g \in Files :
           content[s][f] = {} /\ content' = [content EXCEPT ![s][f] = content[s][g]]
    BY <1>3 DEF Resume
  <2>2. s \in Sources
    BY SourcesAssumption DEF Sources
  <2>3. \A t \in Sources, h \in Files :
           content'[t][h] = IF t = s /\ h = f THEN content[s][g] ELSE content[t][h]
    BY <1>1, <2>1, <2>2 DEF TypeOK
  <2>4. content' \in [Sources -> [Files -> SUBSET Ids]]
    BY <1>1, <2>1, <2>2 DEF TypeOK
  <2>5. TypeOK'
    BY <1>1, <1>3, <2>4 DEF TypeOK, Resume, scanning, page, scraped
  <2> QED
    BY <1>1, <2>1, <2>3, <2>5, GrowInv
<1>4. CASE Rewrite
  <2>0. PICK d \in torn :
           /\ torn' = torn \ {d}
           /\ \E new \in IF Ids = Written(d[1]) THEN {{}} ELSE {{i} : i \in Ids \ Written(d[1])} :
                 content' = [content EXCEPT ![d[1]][d[2]] = @ \cup new]
    BY <1>4 DEF Rewrite
  <2>1. \E new \in SUBSET (Ids \ Written(d[1])) :
           content' = [content EXCEPT ![d[1]][d[2]] = @ \cup new]
    BY <2>0
  <2>2. PICK new \in SUBSET (Ids \ Written(d[1])) :
           content' = [content EXCEPT ![d[1]][d[2]] = @ \cup new]
    BY <2>1
  <2>3. d[1] \in Sources /\ d[2] \in Files
    BY <1>1, SourcesAssumption DEF TypeOK, Sources
  <2>4. \A t \in Sources, h \in Files :
           content'[t][h] = IF t = d[1] /\ h = d[2] THEN content[t][h] \cup new ELSE content[t][h]
    BY <1>1, <2>2, <2>3 DEF TypeOK
  <2>5. content' \in [Sources -> [Files -> SUBSET Ids]]
    BY <1>1, <2>2, <2>3 DEF TypeOK
  <2>6. TypeOK'
    BY <1>1, <1>4, <2>0, <2>5 DEF TypeOK, Rewrite, scanning, page, scraped
  <2> QED
    BY <1>1, <2>3, <2>4, <2>6, GrowInv
<1>5. CASE Truncate \/ ChangeFormat \/ WriteCache \/ UNCHANGED vars
  <2>1. content' = content
    BY <1>5 DEF Truncate, ChangeFormat, WriteCache, vars
  <2>2. torn' \subseteq Documents \X Files
    <3>1. CASE Truncate
      <4>1. PICK s \in Documents, f \in Files : torn' = torn \cup {<<s, f>>}
        BY <3>1 DEF Truncate
      <4> QED
        BY <1>1, <4>1 DEF TypeOK
    <3>2. CASE ChangeFormat \/ WriteCache \/ UNCHANGED vars
      BY <1>1, <3>2 DEF TypeOK, ChangeFormat, WriteCache, vars
    <3> QED
      BY <1>5, <3>1, <3>2
  <2>3. broken' \subseteq Sources /\ faults' \in 0 .. MaxFaults
    BY <1>1, <1>5, BoundsAssumption DEF TypeOK, Truncate, ChangeFormat, WriteCache, Fault, vars
  <2>4. cache' \in Totals \cup {None}
    <3>1. CASE WriteCache
      BY <3>1 DEF WriteCache
    <3>2. CASE ~WriteCache
      BY <1>1, <1>5, <3>2 DEF TypeOK, Truncate, ChangeFormat, vars
    <3> QED
      BY <3>1, <3>2
  <2>5. TypeOK'
    BY <1>1, <2>1, <2>2, <2>3, <2>4 DEF TypeOK, scanning, page, scraped
  <2> QED
    BY <1>1, <2>1, <2>5, GrowInv
<1> QED
  BY <1>2, <1>3, <1>4, <1>5

\* Every step keeps the invariant.
LEMMA NextInv ==
    ASSUME IInv, [Next]_vars
    PROVE  IInv'
BY BeginInv, CountFileInv, ScanDoneInv, ScanFailsInv, RestartInv, ScrapeInv, ToolsInv DEF Next

--------------------------------------------------------------------------------
(***************************************************************************)
(* The theorems.                                                           *)
(***************************************************************************)

\* The invariant of the scan, its results and what was told holds in every state.
THEOREM ExporterInvariant == Spec => []IInv
<1>1. Init => IInv
  BY InitInv
<1>2. IInv /\ [Next]_vars => IInv'
  BY NextInv
<1> QED
  BY <1>1, <1>2, PTL DEF Spec

\* Types, and no source is ever told to have more messages (those that have an
\* id) than it has written.
THEOREM ToldOnce == Spec => []Safe
<1>1. IInv => Safe
  BY DEF IInv, AtMost, Safe, CountedOnce
<1> QED
  BY <1>1, ExporterInvariant, PTL

\* What was scanned of a source whose files only grow never falls between
\* scrapes, across restarts and failed scans; and claude_stats_total_messages
\* falls only when one of the two scrapes tells the total of stats-cache.json.
THEOREM TotalsNeverFall == Spec => NeverFalls
<1> DEFINE Step == /\ \A s \in Sources \ Documents : told'[s] >= told[s]
                   /\ shown'.n < shown.n => shown.cached \/ shown'.cached
<1>1. ASSUME IInv, [Next]_vars
      PROVE  [Step]_scraped
  <2>1. CASE Scrape
    <3>1. /\ told' = text /\ text # None /\ text \in [Sources -> Nat] /\ told \in [Sources -> Nat]
          /\ shown' = total /\ shown.n \in Nat /\ total.n \in Nat
      BY <1>1, <2>1 DEF Scrape, IInv, TypeOK
    <3>2. \A s \in Sources \ Documents : told'[s] >= told[s]
      BY <1>1, <3>1 DEF IInv, Forward
    <3>3. ASSUME ~shown.cached, ~shown'.cached
          PROVE  ~(shown'.n < shown.n)
      <4>1. shown.n = told[1] /\ shown'.n = text[1]
        BY <1>1, <3>1, <3>3 DEF IInv, OneOfTwo
      <4> QED
        BY <3>1, <3>2, <4>1, ClaudeIsASource
    <3> QED
      BY <3>2, <3>3
  <2>2. CASE ~Scrape
    BY <1>1, <2>2 DEF Next, Begin, CountFile, ScanDone, ScanFails, Render, Log, Resume, Truncate,
       Rewrite, ChangeFormat, WriteCache, Restart, vars, scraped
  <2> QED
    BY <2>1, <2>2
<1> QED
  BY <1>1, ExporterInvariant, PTL DEF Spec, NeverFalls
================================================================================
