--------------------------- MODULE BrainReaderProofs ---------------------------
(***************************************************************************)
(* Theorems about BrainReader for every set of notes and any number of     *)
(* commits and faults: what a snapshot that mixes commits can be relied    *)
(* on for, that callers never see a note go back, and that the snapshot is *)
(* a FolderMirror of main.                                                 *)
(***************************************************************************)
EXTENDS BrainReader, TLAPS, WellFoundedInduction

\* Numbers that do not exceed a bound have a greatest one.
LEMMA GreatestBelow ==
    ASSUME NEW d \in Nat, NEW S \in SUBSET (0 .. d), S # {}
    PROVE  Max(S) \in S /\ \A y \in S : y <= Max(S)
<1> DEFINE Gaps == {d - x : x \in S}
<1>1. Gaps \subseteq Nat /\ Gaps # {}
  <2>1. \A x \in S : d - x \in Nat
    OBVIOUS
  <2> QED
    BY <2>1
<1>2. PICK n \in Gaps : \A k \in Gaps : ~(<<k, n>> \in OpToRel(<, Nat))
  <2> HIDE DEF Gaps
  <2> QED
    BY <1>1, NatLessThanWellFounded, WFMin
<1>3. PICK x \in S : n = d - x
  OBVIOUS
<1>4. \A y \in S : x >= y
  <2> SUFFICES ASSUME NEW y \in S, y > x
               PROVE  FALSE
    OBVIOUS
  <2>1. d - y \in Gaps /\ d - y \in Nat /\ n \in Nat /\ d - y < n
    BY <1>3
  <2> QED
    BY <1>2, <2>1 DEF OpToRel
<1>5. Max(S) \in S /\ \A y \in S : Max(S) >= y
  BY <1>4 DEF Max
<1> QED
  BY <1>5

\* The greatest of some numbers is their maximum.
LEMMA MaxIs ==
    ASSUME NEW S \in SUBSET Int, NEW m \in S, \A x \in S : x <= m
    PROVE  Max(S) = m
<1>1. \E x \in S : \A y \in S : x >= y
  OBVIOUS
<1>2. Max(S) \in S /\ \A y \in S : Max(S) >= y
  BY <1>1 DEF Max
<1>3. Max(S) \in Int /\ m \in Int
  BY <1>2
<1> QED
  BY <1>2, <1>3

\* A commit that touched a file is found, and later commits find no older one.
LEMMA VersionIs ==
    ASSUME NEW t, NEW f, NEW c \in Nat
    PROVE  /\ VersionIn(t, f, c) \in 0 .. c
           /\ \A d \in 0 .. c : VersionIn(t, f, d) <= VersionIn(t, f, c)
           /\ VersionIn(t, f, 0) = 0
<1> DEFINE S(d) == {i \in 1 .. d : f \in t[i]} \cup {0}
<1>1. ASSUME NEW d \in Nat
      PROVE  /\ VersionIn(t, f, d) = Max(S(d)) /\ S(d) \in SUBSET Nat
             /\ Max(S(d)) \in S(d) /\ \A x \in S(d) : x <= Max(S(d))
  <2>1. S(d) \in SUBSET Nat
    OBVIOUS
  <2>2. S(d) \subseteq 0 .. d /\ S(d) # {}
    OBVIOUS
  <2>3. Max(S(d)) \in S(d) /\ \A x \in S(d) : x <= Max(S(d))
    <3> HIDE DEF S
    <3> QED
      BY <2>2, GreatestBelow
  <2>4. VersionIn(t, f, d) = Max(S(d))
    BY DEF VersionIn
  <2> QED
    BY <2>1, <2>3, <2>4
<1>2. ASSUME NEW d \in 0 .. c
      PROVE  S(d) \subseteq S(c) /\ S(d) \subseteq 0 .. d
  <2>1. 1 .. d \subseteq 1 .. c
    OBVIOUS
  <2> QED
    BY <2>1
<1>3. \A d \in 0 .. c : VersionIn(t, f, d) \in S(d) /\ \A x \in S(d) : x <= VersionIn(t, f, d)
  <2> TAKE d \in 0 .. c
  <2>1. d \in Nat
    OBVIOUS
  <2> QED
    BY <2>1, <1>1
<1> HIDE DEF S
<1>4. \A d \in 0 .. c : VersionIn(t, f, d) \in 0 .. d
  BY <1>2, <1>3
<1>5. \A d \in 0 .. c : VersionIn(t, f, d) <= VersionIn(t, f, c)
  BY <1>2, <1>3
<1> QED
  BY <1>4, <1>5

\* A new commit leaves what older ones touched as it was.
LEMMA VersionAppended ==
    ASSUME NEW t \in Seq(SUBSET Files), NEW s \in SUBSET Files, NEW f \in Files
    PROVE  /\ \A c \in 0 .. Len(t) : VersionIn(Append(t, s), f, c) = VersionIn(t, f, c)
           /\ VersionIn(Append(t, s), f, Len(t) + 1)
                  = IF f \in s THEN Len(t) + 1 ELSE VersionIn(t, f, Len(t))
<1> DEFINE u == Append(t, s)
           n == Len(t)
<1>0. n \in Nat /\ \A i \in 1 .. n : u[i] = t[i]
  OBVIOUS
<1>1. u[n + 1] = s
  OBVIOUS
<1> HIDE DEF u, n
<1>2. ASSUME NEW c \in 0 .. n
      PROVE  VersionIn(u, f, c) = VersionIn(t, f, c)
  <2>1. {i \in 1 .. c : f \in u[i]} = {i \in 1 .. c : f \in t[i]}
    BY <1>0
  <2> QED
    BY <2>1 DEF VersionIn
<1>3. CASE f \in s
  <2> DEFINE S == {i \in 1 .. n + 1 : f \in u[i]} \cup {0}
  <2>1. S \in SUBSET Int /\ n + 1 \in S /\ \A x \in S : x <= n + 1
    BY <1>0, <1>1, <1>3
  <2> HIDE DEF S
  <2>2. Max(S) = n + 1
    BY <2>1, MaxIs
  <2> QED
    BY <2>2, <1>2, <1>3 DEF VersionIn, S, u, n
<1>4. CASE f \notin s
  <2>1. {i \in 1 .. n + 1 : f \in u[i]} = {i \in 1 .. n : f \in t[i]}
    BY <1>0, <1>1, <1>4
  <2>2. VersionIn(u, f, n + 1) = VersionIn(t, f, n)
    BY <2>1 DEF VersionIn
  <2> QED
    BY <2>2, <1>2, <1>4 DEF u, n
<1> QED
  BY <1>3, <1>4

--------------------------------------------------------------------------------
(***************************************************************************)
(* The invariant.                                                          *)
(***************************************************************************)

\* What the types say of the numbers.
LEMMA Numbers ==
    ASSUME TypeOK
    PROVE  /\ touched \in Seq(SUBSET Files) /\ Len(touched) \in Nat
           /\ target \in Nat /\ head \in Nat /\ lastmod \in Nat /\ headFile \in Nat
           /\ snap.head \in Nat /\ snap.dates \in Nat /\ new.head \in Nat /\ new.dates \in Nat
           /\ work \in [Files -> Texts] /\ told \in [Files -> Nat]
           /\ snap.notes \in [Files -> Texts] /\ new.notes \in [Files -> Texts]
           /\ todo \subseteq Files /\ half \in Nat
           /\ \A x \in Texts : x = Torn \/ x \in Nat
BY BoundsAssumption DEF TypeOK, Commits, Texts, Snapshots

\* The versions of the files at some commit.
LEMMA VersionType ==
    ASSUME NEW c \in Nat, NEW f
    PROVE  /\ Version(f, c) \in Nat /\ Version(f, c) <= c
           /\ \A d \in Nat : d <= c => Version(f, d) <= Version(f, c)
           /\ Version(f, 0) = 0
<1>1. /\ Version(f, c) \in 0 .. c
      /\ \A d \in 0 .. c : Version(f, d) <= Version(f, c)
      /\ Version(f, 0) = 0
  BY VersionIs DEF Version
<1> QED
  BY <1>1

\* At first nothing is cloned, published or read.
LEMMA InitInv ==
    ASSUME Init
    PROVE  IInv
<1> USE DEF Init
<1>1. TypeOK
  <2>1. 0 \in Commits /\ 0 \in Texts /\ Torn \in Texts
    BY BoundsAssumption DEF Commits, Texts
  <2>2. NoSnapshot \in Snapshots
    BY <2>1 DEF NoSnapshot, Snapshots
  <2>3. touched \in Seq(SUBSET Files) /\ Len(touched) = 1
    OBVIOUS
  <2> QED
    BY <2>1, <2>2, <2>3, BoundsAssumption DEF TypeOK
<1>2. InOrder
  BY DEF InOrder, NoSnapshot
<1>3. CloneBetween
  <2>1. \A f \in Files : Version(f, 0) = 0
    BY VersionType
  <2> QED
    BY <2>1 DEF CloneBetween
<1>4. ReadsForward
  BY DEF ReadsForward, NoSnapshot
<1> QED
  BY <1>1, <1>2, <1>3, <1>4 DEF IInv

\* Steps that leave main, the clone and the snapshots alone.
LEMMA QuietInv ==
    ASSUME IInv, UNCHANGED <<touched, target, work, head, server, told, half, headFile>>,
           git' \in {"poll", "clone", "reset", "log", "head"}, last' \in Commits,
           faults' \in 0 .. MaxFaults,
           git' \in {"clone", "reset"} => git' = git,
           \/ UNCHANGED lastmod /\ (git' = "head" => git = "head")
           \/ lastmod' = head
    PROVE  IInv'
<1> USE DEF server
<1>1. TypeOK
  BY DEF IInv
<1>2. TypeOK'
  BY <1>1 DEF TypeOK
<1>3. InOrder'
  BY <1>1, Numbers DEF IInv, InOrder
<1>4. CloneBetween'
  BY DEF IInv, CloneBetween, Version
<1>5. ReadsForward'
  BY DEF IInv, ReadsForward, ReadWell, Version
<1> QED
  BY <1>2, <1>3, <1>4, <1>5 DEF IInv

\* HEAD is published: of a clone that was not checked out, its commit is half.
LEMMA PublishInv ==
    ASSUME IInv, Publish
    PROVE  IInv'
<1> USE DEF Publish, sidecar, meta, server
<1>1. TypeOK
  BY DEF IInv
<1>2. half' \in {half, head} /\ (head = target /\ Behind # {} => half' = head)
      /\ (half' = half \/ (half' = head /\ head = target))
  OBVIOUS
<1>3. TypeOK'
  BY <1>1, <1>2 DEF TypeOK
<1>4. InOrder'
  BY <1>1, <1>2, Numbers DEF IInv, InOrder
<1>5. CloneBetween'
  <2>1. CASE headFile' = target /\ half' # target
    <3>1. \A f \in Files : work[f] = Version(f, target)
      BY <1>2, <2>1 DEF Behind
    <3> QED
      BY <3>1 DEF IInv, CloneBetween, Version
  <2>2. CASE headFile' # target \/ half' = target
    BY <2>2 DEF IInv, CloneBetween, Version
  <2> QED
    BY <2>1, <2>2
\* A commit that was half before is older than the one that is half now.
<1>6. ASSUME NEW h \in Nat, h = half
      PROVE  h = half' \/ h < target
  BY <1>1, <1>2, <1>6, Numbers DEF IInv, InOrder
<1>7. half \in Nat
  BY <1>1, Numbers
<1>8. ReadsForward'
  BY <1>6, <1>7 DEF IInv, ReadsForward, ReadWell, Version
<1> QED
  BY <1>3, <1>4, <1>5, <1>8 DEF IInv

\* The versions at the commits main had do not change.
LEMMA CommitInv ==
    ASSUME IInv, Commit
    PROVE  IInv'
<1> USE DEF Commit, sidecar, meta, server
<1>1. TypeOK
  BY DEF IInv
<1>2. PICK s \in SUBSET Files : touched' = Append(touched, s)
  OBVIOUS
<1>3. /\ touched' \in Seq(SUBSET Files) /\ Len(touched') = Len(touched) + 1
      /\ Len(touched) \in 1 .. MaxCommits
  BY <1>1, <1>2 DEF TypeOK
<1>4. TypeOK'
  <2>1. Len(touched') \in 1 .. MaxCommits
    BY <1>3, BoundsAssumption
  <2> QED
    BY <1>1, <1>3, <2>1 DEF TypeOK
<1>5. InOrder'
  BY <1>1, <1>3, Numbers DEF IInv, InOrder
<1>6. ASSUME NEW f \in Files, NEW c \in Nat, c <= Len(touched)
      PROVE  VersionIn(touched', f, c) = VersionIn(touched, f, c)
  <2>1. touched \in Seq(SUBSET Files) /\ c \in 0 .. Len(touched)
    BY <1>1, <1>6, Numbers
  <2> QED
    BY <2>1, <1>2, VersionAppended
<1>7. /\ head <= Len(touched) /\ target <= Len(touched)
      /\ head \in Nat /\ target \in Nat
  BY <1>1, Numbers DEF IInv, InOrder
<1>8. CloneBetween'
  BY <1>6, <1>7 DEF IInv, CloneBetween, Version
<1>9. ASSUME NEW c \in {snap.head, snap.dates}
      PROVE  c \in Nat /\ c <= Len(touched)
  BY <1>1, Numbers DEF IInv, InOrder
<1>10. ASSUME srv = "walk", NEW c \in {new.head, new.dates}
       PROVE  c \in Nat /\ c <= Len(touched)
  BY <1>1, <1>10, Numbers DEF IInv, InOrder
<1>11. ReadsForward'
  <2>1. snap.head # 0 => ReadWell(snap, Files)'
    BY <1>6, <1>7, <1>9 DEF IInv, ReadsForward, ReadWell, Version
  <2>2. srv = "walk" => ReadWell(new, Files \ todo)'
    BY <1>6, <1>7, <1>10 DEF IInv, ReadsForward, ReadWell, Version
  <2> QED
    BY <2>1, <2>2 DEF IInv, ReadsForward
<1> QED
  BY <1>4, <1>5, <1>8, <1>11 DEF IInv

\* What is fetched is at least what was fetched before.
LEMMA FetchInv ==
    ASSUME IInv, Fetch
    PROVE  IInv'
<1> USE DEF Fetch, sidecar, meta, server
<1>1. TypeOK /\ target <= target' /\ target' \in Nat /\ target' # 0
  BY Numbers DEF IInv, InOrder, TypeOK
<1>2. TypeOK'
  BY <1>1, BoundsAssumption DEF TypeOK, Commits
<1>3. InOrder'
  BY <1>1, Numbers DEF IInv, InOrder
<1>4. \A f \in Files : Version(f, target) <= Version(f, target')
  BY <1>1, Numbers, VersionType
<1>5. \A f \in Files : Version(f, head) \in Nat /\ Version(f, target) \in Nat
                       /\ Version(f, target') \in Nat
  BY <1>1, Numbers, VersionType
<1>6. headFile \in Nat /\ headFile <= target /\ (head = 0 => headFile = 0)
  BY <1>1, Numbers DEF IInv, InOrder
<1>7. CloneBetween'
  <2> SUFFICES ASSUME NEW f \in Files
               PROVE  /\ head' = 0 => work[f] = Torn
                      /\ \/ work[f] = Torn
                         \/ Version(f, head') <= work[f] /\ work[f] <= Version(f, target')
                      /\ headFile = target' /\ target' # 0 =>
                            half = target' \/ work[f] = Version(f, target')
                      /\ told[f] <= Version(f, target')
                      /\ work[f] = Torn \/ told[f] <= work[f]
    BY DEF CloneBetween, Version
  <2>1. work[f] = Torn \/ work[f] \in Nat
    BY <1>1, Numbers
  <2>2. told[f] <= Version(f, target')
    BY <1>1, <1>4, <1>5, Numbers DEF IInv, CloneBetween
  <2>3. headFile = target' /\ target' # 0 => half = target' \/ work[f] = Version(f, target')
    <3> SUFFICES ASSUME headFile = target', target' # 0
                 PROVE  half = target' \/ work[f] = Version(f, target')
      OBVIOUS
    <3>1. target' = target
      BY <1>1, <1>6, Numbers
    <3> QED
      BY <3>1 DEF IInv, CloneBetween
  <2>4. CASE head = 0
    <3>1. work[f] = Torn
      BY <2>4 DEF IInv, CloneBetween
    <3> QED
      BY <2>2, <2>3, <3>1
  <2>5. CASE head # 0 /\ head' = head
    BY <2>1, <2>2, <2>3, <2>5, <1>1, <1>4, <1>5, Numbers DEF IInv, CloneBetween
  <2> QED
    BY <2>4, <2>5
<1>8. ASSUME NEW s \in Snapshots, NEW fs \in SUBSET Files, s.head <= target, ReadWell(s, fs)
      PROVE  \A f \in fs :
                /\ \/ s.notes[f] = Torn
                   \/ Version(f, s.dates) <= s.notes[f] /\ s.notes[f] <= Version(f, target')
                /\ s.notes[f] = Torn \/ work[f] = Torn \/ s.notes[f] <= work[f]
                /\ s.notes[f] = Torn \/ told[f] <= s.notes[f]
                /\ s.notes[f] = Version(f, s.head) \/ s.head < target' \/ s.head = half
  <2> TAKE f \in fs
  <2>1. s.notes[f] = Torn \/ s.notes[f] \in Nat
    BY DEF Snapshots, Texts, Commits
  <2>2. s.head \in Nat /\ s.dates \in Nat
    BY DEF Snapshots, Commits
  <2> QED
    <3>1. /\ \/ s.notes[f] = Torn
             \/ Version(f, s.dates) <= s.notes[f] /\ s.notes[f] <= Version(f, target)
          /\ s.notes[f] = Torn \/ work[f] = Torn \/ s.notes[f] <= work[f]
          /\ s.notes[f] = Torn \/ told[f] <= s.notes[f]
          /\ s.notes[f] = Version(f, s.head) \/ s.head < target \/ s.head = half
      BY <1>8 DEF ReadWell
    <3>2. Version(f, target) <= Version(f, target') /\ Version(f, target) \in Nat
          /\ Version(f, target') \in Nat
      BY <1>4, <1>5
    <3>3. target \in Nat /\ Version(f, s.dates) \in Nat
      BY <1>1, <2>2, Numbers, VersionType
    <3> QED
      BY <1>1, <2>1, <2>2, <3>1, <3>2, <3>3
<1>9. ReadsForward'
  <2>1. snap \in Snapshots /\ new \in Snapshots /\ snap.head <= target
        /\ (srv = "walk" => new.head <= target)
    BY <1>1, Numbers DEF IInv, InOrder, TypeOK
  <2>2. snap.head # 0 => ReadWell(snap, Files)'
    BY <1>8, <2>1 DEF IInv, ReadsForward, ReadWell, Version
  <2>3. ASSUME srv = "walk"
        PROVE  ReadWell(new, Files \ todo)'
    <3>1. ReadWell(new, Files \ todo) /\ Files \ todo \in SUBSET Files
      BY <2>3 DEF IInv, ReadsForward
    <3> QED
      BY <1>8, <2>1, <2>3, <3>1 DEF ReadWell, Version
  <2> QED
    BY <2>2, <2>3 DEF IInv, ReadsForward
<1> QED
  BY <1>2, <1>3, <1>7, <1>9 DEF IInv

\* Git unlinks a file, or writes its version at the commit fetched.
LEMMA ReplaceInv ==
    ASSUME IInv, Replace
    PROVE  IInv'
<1> USE DEF Replace, sidecar, meta, server
<1>1. TypeOK /\ head <= target /\ head \in Nat /\ target \in Nat /\ target \in Commits
  BY Numbers DEF IInv, InOrder, TypeOK
<1>2. PICK g \in Behind :
          work' = [work EXCEPT ![g] = IF @ = Torn THEN Version(g, target) ELSE Torn]
  OBVIOUS
<1>3. g \in Files /\ work[g] # Version(g, target)
  BY DEF Behind
<1>4. \A f \in Files : /\ Version(f, head) \in Nat /\ Version(f, target) \in Nat
                       /\ Version(f, head) <= Version(f, target)
                       /\ Version(f, target) <= target
  BY <1>1, VersionType
<1>5. headFile = target /\ target # 0 => half = target
  BY <1>3 DEF IInv, CloneBetween
<1>6. \A f \in Files : work'[f] = work[f] \/ work'[f] = Torn \/ work'[f] = Version(f, target)
  BY <1>1, <1>2, Numbers
<1>7. TypeOK'
  <2>1. Version(g, target) \in Texts
    BY <1>1, <1>3, <1>4, BoundsAssumption DEF Texts, Commits
  <2>2. work' \in [Files -> Texts]
    BY <1>1, <1>2, <2>1, Numbers DEF Texts
  <2> QED
    BY <1>1, <2>2 DEF TypeOK
<1>8. InOrder'
  BY DEF IInv, InOrder
<1>9. CloneBetween'
  <2> SUFFICES ASSUME NEW f \in Files
               PROVE  /\ \/ work'[f] = Torn
                         \/ Version(f, head) <= work'[f] /\ work'[f] <= Version(f, target)
                      /\ head = 0 => work'[f] = Torn
                      /\ told[f] <= Version(f, target)
                      /\ work'[f] = Torn \/ told[f] <= work'[f]
    BY <1>5 DEF CloneBetween, Version
  <2>1. head # 0
    BY DEF IInv, InOrder
  <2> QED
    BY <1>4, <1>6, <2>1, Numbers DEF IInv, CloneBetween
<1>10. ASSUME NEW s, NEW fs \in SUBSET Files, ReadWell(s, fs)
       PROVE  \A f \in fs : s.notes[f] = Torn \/ work'[f] = Torn \/ s.notes[f] <= work'[f]
  BY <1>6, <1>10 DEF ReadWell
<1>11. ReadsForward'
  <2>1. snap.head # 0 => ReadWell(snap, Files)'
    BY <1>10 DEF IInv, ReadsForward, ReadWell, Version
  <2>2. srv = "walk" => ReadWell(new, Files \ todo)'
    BY <1>10 DEF IInv, ReadsForward, ReadWell, Version
  <2> QED
    BY <2>1, <2>2 DEF IInv, ReadsForward
<1> QED
  BY <1>7, <1>8, <1>9, <1>11 DEF IInv

\* HEAD moves once every file is there.
LEMMA ResetDoneInv ==
    ASSUME IInv, ResetDone
    PROVE  IInv'
<1> USE DEF ResetDone, sidecar, meta, server
<1>1. TypeOK
  BY DEF IInv
<1>2. TypeOK'
  BY <1>1 DEF TypeOK
<1>3. InOrder'
  BY <1>1, Numbers DEF IInv, InOrder
<1>4. \A f \in Files : work[f] = Version(f, target) /\ Version(f, target) \in Nat
  BY <1>1, Numbers, VersionType DEF Behind
<1>5. CloneBetween'
  <2>1. head' # 0
    BY <1>1, Numbers DEF IInv, InOrder
  <2> QED
    BY <1>4, <2>1 DEF IInv, CloneBetween, Version
<1>6. ReadsForward'
  BY DEF IInv, ReadsForward, ReadWell, Version
<1> QED
  BY <1>2, <1>3, <1>5, <1>6 DEF IInv

\* A note is told only as the snapshot has it.
LEMMA TellInv ==
    ASSUME IInv, Tell
    PROVE  IInv'
<1> USE DEF Tell, sidecar, meta, server
<1>1. TypeOK /\ snap.head # 0 /\ ReadWell(snap, Files)
  BY DEF IInv, ReadsForward, Ready
<1>2. PICK g \in Files : snap.notes[g] # Torn /\ told' = [told EXCEPT ![g] = snap.notes[g]]
  OBVIOUS
<1>3. \A f \in Files : told'[f] = IF f = g THEN snap.notes[g] ELSE told[f]
  BY <1>1, <1>2, Numbers
<1>4. TypeOK'
  BY <1>1, <1>2 DEF TypeOK, Snapshots, Texts
<1>5. InOrder'
  BY DEF IInv, InOrder
<1>6. CloneBetween'
  BY <1>1, <1>2, <1>3 DEF IInv, CloneBetween, ReadWell, Version
<1>7. ReadsForward'
  <2>1. ReadWell(snap, Files)'
    BY <1>1, <1>2, <1>3, Numbers DEF ReadWell, Version
  <2>2. srv = "walk" => ReadWell(new, Files \ todo)'
    BY <1>2, <1>3 DEF IInv, ReadsForward, ReadWell, Version
  <2> QED
    BY <2>1, <2>2 DEF IInv, ReadsForward
<1> QED
  BY <1>4, <1>5, <1>6, <1>7 DEF IInv

\* A load takes the commit published last.
LEMMA LoadInv ==
    ASSUME IInv, Load
    PROVE  IInv'
<1> USE DEF Load, sidecar, meta, server
<1>1. TypeOK
  BY DEF IInv
<1>2. new' \in Snapshots /\ new'.head = headFile
  BY <1>1, BoundsAssumption DEF TypeOK, Snapshots, NoSnapshot, Commits, Texts
<1>3. TypeOK'
  BY <1>1, <1>2 DEF TypeOK
<1>4. InOrder'
  BY <1>1, <1>2, Numbers DEF IInv, InOrder
<1>5. CloneBetween'
  BY DEF IInv, CloneBetween, Version
<1>6. ReadsForward'
  BY DEF IInv, ReadsForward, ReadWell, Version
<1> QED
  BY <1>3, <1>4, <1>5, <1>6 DEF IInv

\* The dates read are those of that commit or of a later one.
LEMMA ReadLastmodInv ==
    ASSUME IInv, ReadLastmod
    PROVE  IInv'
<1> USE DEF ReadLastmod, sidecar, meta, server
<1>1. TypeOK
  BY DEF IInv
<1>2. new' \in Snapshots /\ new'.head = new.head /\ new'.dates = lastmod
  BY <1>1 DEF TypeOK, Snapshots
<1>3. TypeOK'
  BY <1>1, <1>2 DEF TypeOK
<1>4. InOrder'
  BY <1>1, <1>2, Numbers DEF IInv, InOrder
<1>5. CloneBetween'
  BY DEF IInv, CloneBetween, Version
<1>6. Files \ todo' = {}
  OBVIOUS
<1>7. ReadsForward'
  BY <1>6 DEF IInv, ReadsForward, ReadWell, Version
<1> QED
  BY <1>3, <1>4, <1>5, <1>7 DEF IInv

\* A note is read as the clone has it, which is at least what its dates say,
\* and if that is not its text at the commit loaded, the clone has moved on.
LEMMA ReadNoteInv ==
    ASSUME IInv, ReadNote
    PROVE  IInv'
<1> USE DEF ReadNote, sidecar, meta, server
<1>1. TypeOK
  BY DEF IInv
<1>2. PICK g \in todo : todo' = todo \ {g} /\ new' = [new EXCEPT !.notes[g] = work[g]]
  OBVIOUS
<1>3. /\ g \in Files /\ new' \in Snapshots /\ new'.head = new.head /\ new'.dates = new.dates
      /\ \A f \in Files : new'.notes[f] = IF f = g THEN work[g] ELSE new.notes[f]
  BY <1>1, <1>2 DEF TypeOK, Snapshots
<1>4. TypeOK'
  BY <1>1, <1>2, <1>3 DEF TypeOK
<1>5. InOrder'
  BY <1>1, <1>3 DEF IInv, InOrder
<1>6. CloneBetween'
  BY DEF IInv, CloneBetween, Version
<1>7. new.head <= new.dates /\ new.dates <= lastmod /\ lastmod <= head /\ head <= target
      /\ new.head <= target
  BY <1>1, Numbers DEF IInv, InOrder
<1>8. /\ new.dates \in Nat /\ head \in Nat /\ target \in Nat /\ new.head \in Nat
      /\ lastmod \in Nat
  BY <1>1, Numbers
<1>9. /\ Version(g, new.dates) <= Version(g, head)
      /\ Version(g, new.dates) \in Nat /\ Version(g, head) \in Nat
  BY <1>7, <1>8, VersionType
<1>10. /\ work[g] = Torn \/ (Version(g, head) <= work[g] /\ work[g] <= Version(g, target))
       /\ headFile = target /\ target # 0 =>
             half = target \/ work[g] = Version(g, target)
       /\ work[g] = Torn \/ told[g] <= work[g]
       /\ work[g] = Torn \/ work[g] \in Nat
  BY <1>1, <1>3, Numbers DEF IInv, CloneBetween
<1>11. /\ work[g] = Torn \/ (Version(g, new.dates) <= work[g] /\ work[g] <= Version(g, target))
       /\ work[g] = Version(g, new.head) \/ new.head < target \/ new.head = half
  <2>1. work[g] = Torn \/ Version(g, new.dates) <= work[g]
    BY <1>9, <1>10
  <2>2. CASE new.head = target
    <3>1. headFile = target /\ target # 0
      BY <2>2, <1>1, <1>7, <1>8, Numbers DEF IInv, InOrder
    <3> QED
      BY <2>2, <3>1, <2>1, <1>10
  <2>3. CASE new.head # target
    BY <2>1, <2>3, <1>7, <1>8, <1>10
  <2> QED
    BY <2>2, <2>3
<1>12. ReadsForward'
  <2>1. snap.head # 0 => ReadWell(snap, Files)'
    BY DEF IInv, ReadsForward, ReadWell, Version
  <2>2. ReadWell(new, Files \ todo) /\ Files \ todo' = (Files \ todo) \cup {g}
    BY <1>2, <1>3 DEF IInv, ReadsForward
  <2>3. ReadWell(new, Files \ todo)'
    <3> SUFFICES ASSUME NEW f \in Files \ todo'
                 PROVE  /\ \/ new'.notes[f] = Torn
                           \/ Version(f, new.dates) <= new'.notes[f]
                              /\ new'.notes[f] <= Version(f, target)
                        /\ new'.notes[f] = Torn \/ work[f] = Torn \/ new'.notes[f] <= work[f]
                        /\ new'.notes[f] = Torn \/ told[f] <= new'.notes[f]
                        /\ \/ new'.notes[f] = Version(f, new.head)
                           \/ new.head < target \/ new.head = half
      BY <1>3 DEF ReadWell, Version
    <3>1. CASE f = g
      BY <3>1, <1>3, <1>10, <1>11
    <3>2. CASE f # g
      BY <3>2, <1>3, <2>2 DEF ReadWell
    <3> QED
      BY <3>1, <3>2
  <2>4. \A f \in Files \ todo' :
           snap.notes[f] = Torn \/ new'.notes[f] = Torn \/ snap.notes[f] <= new'.notes[f]
    <3> TAKE f \in Files \ todo'
    <3>1. CASE f # g
      BY <3>1, <1>3, <2>2 DEF IInv, ReadsForward
    <3>2. CASE f = g /\ snap.head # 0
      BY <3>2, <1>3 DEF IInv, ReadsForward, ReadWell
    <3>3. CASE f = g /\ snap.head = 0
      <4>1. snap.notes[g] = 0
        BY <3>3, <1>3 DEF IInv, InOrder, NoSnapshot
      <4> QED
        BY <3>3, <4>1, <1>3, <1>10
    <3> QED
      BY <3>1, <3>2, <3>3
  <2> QED
    BY <2>1, <2>3, <2>4 DEF ReadsForward
<1> QED
  BY <1>4, <1>5, <1>6, <1>12 DEF IInv

\* The snapshot is shown once every note was read.
LEMMA SwapInv ==
    ASSUME IInv, Swap
    PROVE  IInv'
<1> USE DEF Swap, sidecar, meta, server
<1>1. TypeOK /\ Files \ todo = Files
  BY DEF IInv
<1>2. TypeOK'
  BY <1>1 DEF TypeOK
<1>3. InOrder'
  BY <1>1, Numbers DEF IInv, InOrder
<1>4. CloneBetween'
  BY DEF IInv, CloneBetween, Version
<1>5. ReadsForward'
  <2>1. ReadWell(new, Files)
    BY <1>1 DEF IInv, ReadsForward
  <2>2. ReadWell(snap, Files)'
    BY <2>1 DEF ReadWell, Version
  <2> QED
    BY <2>2 DEF ReadsForward
<1> QED
  BY <1>2, <1>3, <1>4, <1>5 DEF IInv

\* A server that restarts has no snapshot.
LEMMA ServerRestartsInv ==
    ASSUME IInv, ServerRestarts
    PROVE  IInv'
<1> USE DEF ServerRestarts, sidecar, meta, server
<1>1. TypeOK
  BY DEF IInv
<1>2. NoSnapshot \in Snapshots /\ NoSnapshot.head = 0 /\ NoSnapshot.dates = 0
  BY BoundsAssumption DEF NoSnapshot, Snapshots, Commits, Texts
<1>3. TypeOK'
  BY <1>1, <1>2, BoundsAssumption DEF TypeOK
<1>4. InOrder'
  BY <1>1, <1>2, Numbers DEF IInv, InOrder
<1>5. CloneBetween'
  BY DEF IInv, CloneBetween, Version
<1>6. ReadsForward'
  BY <1>2 DEF ReadsForward
<1> QED
  BY <1>3, <1>4, <1>5, <1>6 DEF IInv

\* Every step keeps the invariant.
LEMMA NextInv ==
    ASSUME IInv, [Next]_vars
    PROVE  IInv'
<1>0. TypeOK
  BY DEF IInv
<1>1. CASE UNCHANGED vars
  <2>1. /\ UNCHANGED <<touched, target, work, head, server, told, half, lastmod, headFile>>
        /\ git' = git /\ last' = last /\ faults' = faults
    BY <1>1 DEF vars, sidecar, meta
  <2> QED
    BY <2>1, <1>0, QuietInv DEF TypeOK
<1>2. CASE Log
  <2>1. head \in Commits /\ last \in Commits /\ faults \in 0 .. MaxFaults
    BY <1>0 DEF TypeOK
  <2>2. UNCHANGED <<touched, target, work, head, server, told, half, headFile>>
        /\ faults' = faults
    BY <1>2 DEF Log
  <2>3. git' \in {"poll", "head"} /\ last' \in Commits
    BY <1>2, <2>1 DEF Log
  <2>4. \/ UNCHANGED lastmod /\ (git' = "head" => git = "head")
        \/ lastmod' = head
    BY <1>2 DEF Log
  <2> QED
    BY <2>1, <2>2, <2>3, <2>4, QuietInv
<1>3. CASE FetchFails \/ CheckoutFails \/ ResetFails \/ LogFails \/ SidecarRestarts
  <2>1. last \in Commits /\ faults \in 0 .. MaxFaults /\ 0 \in Commits
    BY <1>0, BoundsAssumption DEF TypeOK, Commits
  <2>2. UNCHANGED <<touched, target, work, head, server, told, half, lastmod, headFile>>
    BY <1>3 DEF FetchFails, CheckoutFails, ResetFails, LogFails, SidecarRestarts, meta
  <2>3. git' \in {"poll", "log"} /\ last' \in Commits
    BY <1>3, <2>1 DEF FetchFails, CheckoutFails, ResetFails, LogFails, SidecarRestarts
  <2>4. faults' \in 0 .. MaxFaults
    BY <1>3, <2>1, BoundsAssumption
    DEF FetchFails, CheckoutFails, ResetFails, LogFails, SidecarRestarts
  <2> QED
    BY <2>2, <2>3, <2>4, QuietInv
<1>4. CASE Commit \/ Fetch \/ Replace \/ ResetDone \/ Publish \/ Tell
  BY <1>4, CommitInv, FetchInv, ReplaceInv, ResetDoneInv, PublishInv, TellInv
<1>5. CASE Reload \/ ServerRestarts
  BY <1>5, LoadInv, ReadLastmodInv, ReadNoteInv, SwapInv, ServerRestartsInv DEF Reload
<1> QED
  BY <1>1, <1>2, <1>3, <1>4, <1>5 DEF Next, GitSync

--------------------------------------------------------------------------------
(***************************************************************************)
(* The theorems.                                                           *)
(***************************************************************************)

\* The invariant of the clone, META_DIR and the snapshots holds in every state.
THEOREM ReaderInvariant == Spec => []IInv
<1>1. Init => IInv
  BY InitInv
<1>2. IInv /\ [Next]_vars => IInv'
  BY NextInv
<1> QED
  BY <1>1, <1>2, PTL DEF Spec

\* A snapshot, whatever commits it mixes, dates its notes right, and one with
\* notes of another commit than it names will be replaced, however many clones,
\* fetches and resets fail; the one commit excepted that git-sync published from
\* a clone whose checkout had failed.
THEOREM SnapshotsSound == Spec => []Safe
<1>1. ASSUME IInv
      PROVE  Safe
  <2>1. TypeOK
    BY <1>1 DEF IInv
  <2>2. ASSUME snap.head # 0
        PROVE  DatedRight(snap) /\ TornIsPassing(snap)
    <3>1. ReadWell(snap, Files)
      BY <1>1, <2>2 DEF IInv, ReadsForward
    <3>2. \A f \in Files : Version(f, snap.head) <= Version(f, snap.dates)
      BY <1>1, <2>1, Numbers, VersionType DEF IInv, InOrder
    <3> QED
      BY <3>1, <3>2 DEF DatedRight, TornIsPassing, ReadWell
  <2> QED
    BY <2>1, <2>2 DEF Safe, SnapshotSound
<1> QED
  BY <1>1, ReaderInvariant, PTL

\* What a caller was told of a note is never followed by an older text of it,
\* through reloads, torn snapshots and restarts of both containers.
THEOREM NeverBack == Spec => NeverGoesBack
<1>1. ASSUME IInv, [Next]_vars
      PROVE  [\A f \in Files : told[f] <= told'[f]]_vars
  <2>1. told \in [Files -> Nat]
    BY <1>1, Numbers DEF IInv
  <2>2. CASE Tell
    <3>1. PICK g \in Files : snap.notes[g] # Torn /\ told' = [told EXCEPT ![g] = snap.notes[g]]
      BY <2>2 DEF Tell
    <3>2. told[g] <= snap.notes[g]
      BY <1>1, <2>2, <3>1 DEF IInv, ReadsForward, ReadWell, Tell, Ready
    <3> QED
      BY <2>1, <3>1, <3>2
  <2>3. CASE ~Tell
    <3>1. told' = told
      BY <1>1, <2>3 DEF Next, GitSync, Reload, Commit, Fetch, Replace, ResetDone, Log, Publish,
         Load, ReadLastmod, ReadNote, Swap, FetchFails, CheckoutFails, ResetFails, LogFails,
         SidecarRestarts, ServerRestarts, vars
    <3> QED
      BY <2>1, <3>1
  <2> QED
    BY <2>2, <2>3
<1> QED
  BY <1>1, ReaderInvariant, PTL DEF Spec, NeverGoesBack

(***************************************************************************)
(* The refinement.                                                         *)
(***************************************************************************)

\* What main has, and what the snapshot says it shows.
Source == [f \in Files |-> Version(f, Len(touched))]
Label == [f \in Files |-> Version(f, snap.head)]

\* Nothing is shown at first.
LEMMA InitMirrors ==
    ASSUME Init
    PROVE  Mirror!Init
<1>1. Len(touched) = 1 /\ snap.head = 0 /\ snap.notes = [f \in Files |-> 0]
  BY DEF Init, NoSnapshot
<1>2. \A f \in Files : Version(f, 1) \in 0 .. 1 /\ Version(f, 0) = 0
  <2>1. \A f \in Files : Version(f, 1) \in Nat /\ Version(f, 1) <= 1 /\ Version(f, 0) = 0
    BY VersionType
  <2> QED
    BY <2>1
<1>3. Source \in [Files -> 0 .. 1] /\ Label = [f \in Files |-> 0]
  BY <1>1, <1>2 DEF Source, Label
<1> QED
  BY <1>1, <1>3 DEF Mirror!Init, Source, Label

\* A push is a push; the snapshot still names the commit it named.
LEMMA CommitMirrors ==
    ASSUME IInv, Commit
    PROVE  Mirror!Commit
<1> USE DEF Commit, server
<1>1. PICK t \in SUBSET Files : touched' = Append(touched, t)
  OBVIOUS
<1>2. /\ touched \in Seq(SUBSET Files) /\ Len(touched) \in Nat /\ snap.head \in Nat
      /\ snap.head <= Len(touched)
  BY Numbers DEF IInv, InOrder
<1>3. Len(touched') = Len(touched) + 1
  BY <1>1, <1>2
<1>4. \A f \in Files : Version(f, snap.head)' = Version(f, snap.head)
  BY <1>1, <1>2, VersionAppended DEF Version
<1>5. \A f \in Files : VersionIn(touched', f, Len(touched) + 1)
                          = IF f \in t THEN Len(touched) + 1 ELSE Version(f, Len(touched))
  BY <1>1, <1>2, VersionAppended DEF Version
<1>6. Source' = [f \in Files |-> IF f \in t THEN Len(touched) + 1 ELSE Source[f]]
  BY <1>3, <1>5 DEF Source, Version
<1>7. Label' = Label
  BY <1>4 DEF Label
<1> QED
  BY <1>3, <1>6, <1>7 DEF Mirror!Commit, Source, Label

\* A new snapshot shows nothing older than the one before it, or than what it
\* names, and nothing main does not have.
LEMMA SwapMirrors ==
    ASSUME IInv, Swap
    PROVE  Mirror!Refresh
<1> USE DEF Swap
<1>1. /\ touched' = touched /\ snap' = new /\ srv = "walk" /\ Files \ todo = Files
      /\ IInv' /\ TypeOK
  BY SwapInv DEF IInv
<1>2. /\ ReadWell(new, Files) /\ snap.head <= new.head /\ new.head <= new.dates
      /\ new.dates <= Len(touched) /\ target <= Len(touched)
      /\ \A f \in Files :
            snap.notes[f] = Torn \/ new.notes[f] = Torn \/ snap.notes[f] <= new.notes[f]
  BY <1>1, Numbers DEF IInv, InOrder, ReadsForward
<1>3. /\ snap.head \in Nat /\ new.head \in Nat /\ new.dates \in Nat /\ target \in Nat
      /\ Len(touched) \in Nat /\ new.notes \in [Files -> Texts]
      /\ \A x \in Texts : x = Torn \/ x \in Nat
  BY <1>1, Numbers
<1>4. ASSUME NEW f \in Files
      PROVE  /\ Version(f, snap.head) <= Version(f, new.head)
             /\ Version(f, new.head) <= Version(f, new.dates)
             /\ Version(f, new.dates) <= Version(f, Len(touched))
             /\ Version(f, target) <= Version(f, Len(touched))
             /\ Version(f, new.head) <= Version(f, Len(touched))
             /\ Version(f, Len(touched)) <= Len(touched)
             /\ Version(f, new.head) \in Nat /\ Version(f, new.dates) \in Nat
             /\ Version(f, target) \in Nat /\ Version(f, Len(touched)) \in Nat
  <2>1. new.head <= Len(touched)
    BY <1>2, <1>3
  <2> QED
    BY <2>1, <1>2, <1>3, VersionType
<1>5. ASSUME NEW f \in Files
      PROVE  /\ new.notes[f] \in (0 .. Len(touched)) \cup {Torn}
             /\ new.notes[f] # Torn => /\ Version(f, new.head) <= new.notes[f]
                                       /\ new.notes[f] <= Version(f, Len(touched))
             /\ Version(f, new.head) \in 0 .. Len(touched)
  <2>1. \/ new.notes[f] = Torn
        \/ Version(f, new.dates) <= new.notes[f] /\ new.notes[f] <= Version(f, target)
    BY <1>2 DEF ReadWell
  <2>2. new.notes[f] = Torn \/ new.notes[f] \in Nat
    BY <1>3
  <2> QED
    BY <2>1, <2>2, <1>3, <1>4
<1>6. Label' = [f \in Files |-> Version(f, new.head)] /\ Source' = Source
  BY <1>1 DEF Label, Source, Version
<1>7. /\ Label' \in [Files -> 0 .. Len(touched)]
      /\ new.notes \in [Files -> (0 .. Len(touched)) \cup {Torn}]
  BY <1>3, <1>5, <1>6
<1>8. \A f \in Files :
         /\ Label[f] <= Label'[f] /\ Label'[f] <= Source[f]
         /\ new.notes[f] # Torn => Label'[f] <= new.notes[f] /\ new.notes[f] <= Source[f]
         /\ snap.notes[f] # Torn /\ new.notes[f] # Torn => snap.notes[f] <= new.notes[f]
  BY <1>2, <1>4, <1>5, <1>6 DEF Label, Source
<1> QED
  BY <1>1, <1>6, <1>7, <1>8 DEF Mirror!Refresh, Label, Source

\* A server that restarts shows nothing.
LEMMA RestartMirrors ==
    ASSUME ServerRestarts
    PROVE  Mirror!Lose
<1>1. /\ touched' = touched /\ snap'.head = 0
      /\ snap'.notes = [f \in Files |-> 0]
  BY DEF ServerRestarts, NoSnapshot
<1>2. \A f \in Files : VersionIn(touched', f, 0) = 0
  BY VersionIs
<1>3. Label' = [f \in Files |-> 0] /\ Source' = Source
  BY <1>1, <1>2 DEF Label, Source, Version
<1> QED
  BY <1>1, <1>3 DEF Mirror!Lose, Label, Source

\* The snapshot is a FolderMirror of main: a push is a push, the swap a refresh,
\* a restart of the server a loss, and nothing else is seen.
THEOREM ReaderMirrors == Spec => IsMirror
<1>1. Init => Mirror!Init
  BY InitMirrors
<1>2. ASSUME IInv, [Next]_vars
      PROVE  [Mirror!Next]_(Mirror!vars)
  <2>1. CASE Commit \/ Swap \/ ServerRestarts
    BY <1>2, <2>1, CommitMirrors, SwapMirrors, RestartMirrors DEF Mirror!Next
  <2>2. CASE ~(Commit \/ Swap \/ ServerRestarts)
    <3>1. touched' = touched /\ snap' = snap
      BY <1>2, <2>2 DEF Next, GitSync, Reload, Fetch, Replace, ResetDone, Log, Publish, Load,
         ReadLastmod, ReadNote, Tell, FetchFails, CheckoutFails, ResetFails, LogFails, SidecarRestarts,
         vars, server
    <3> QED
      BY <3>1 DEF Mirror!vars, Version
  <2> QED
    BY <2>1, <2>2
<1> QED
  BY <1>1, <1>2, ReaderInvariant, PTL DEF Spec, IsMirror, Mirror!Spec
================================================================================
