--------------------------- MODULE MessagesSyncProofs --------------------------
(***************************************************************************)
(* Theorems about MessagesSync, for every set of messages, chats and       *)
(* threads, every page size and budget and any number of events: that what *)
(* the cursors have passed is in the notes, and that no step takes a       *)
(* message out of a note.  The second half is about the other source whose *)
(* items are threads: GmailSync, for every set of threads, subjects and    *)
(* people, every budget and any number of changes and failures.  Of both,  *)
(* that they implement ConditionalCommits.                                 *)
(***************************************************************************)
EXTENDS MessagesSync, Integers, TLAPS, FiniteSetTheorems, WellFoundedInduction

Assumptions ==
    MessagesAssumption /\ ThreadsAssumption /\ BoundsAssumption /\ DistinctAssumption

--------------------------------------------------------------------------------
(***************************************************************************)
(* Least and greatest dates.                                               *)
(***************************************************************************)
LEMMA LeastOf ==
    ASSUME NEW S \in SUBSET Nat, S # {}
    PROVE  Least(S) \in S /\ \A y \in S : Least(S) <= y
<1> DEFINE R == OpToRel(<, Nat)
<1>1. IsWellFoundedOn(R, Nat)
  BY NatLessThanWellFounded
<1>2. \A x, y \in Nat : x < y => <<x, y>> \in R
  BY DEF OpToRel
<1> HIDE DEF R
<1>3. PICK m \in S : \A y \in S : ~(<<y, m>> \in R)
  BY <1>1, WFMin
<1>4. \A y \in S : m <= y
  <2>1. TAKE y \in S
  <2>2. m \in Nat /\ y \in Nat
    OBVIOUS
  <2>3. y < m => <<y, m>> \in R
    BY <1>2, <2>2
  <2>4. ~(<<y, m>> \in R)
    BY <1>3
  <2> QED
    BY <2>2, <2>3, <2>4
<1>5. \E x \in S : \A y \in S : x <= y
  BY <1>4
<1> QED
  BY <1>5 DEF Least

LEMMA GreatestOf ==
    ASSUME NEW S \in SUBSET Nat, IsFiniteSet(S), S # {}
    PROVE  Greatest(S) \in S /\ \A y \in S : y <= Greatest(S)
<1> DEFINE Above(x) == {y \in S : y > x}
           Counts == {Cardinality(Above(x)) : x \in S}
<1>1. ASSUME NEW x \in S
      PROVE  IsFiniteSet(Above(x)) /\ Cardinality(Above(x)) \in Nat
  BY FS_Subset, FS_CardinalityType
<1>2. Counts \subseteq Nat /\ Counts # {}
  BY <1>1
<1>3. PICK n \in Counts : \A k \in Counts : n <= k
  <2> HIDE DEF Counts
  <2> QED
    BY <1>2, LeastOf
<1>4. PICK x \in S : n = Cardinality(Above(x))
  OBVIOUS
<1>5. ASSUME NEW y \in S
      PROVE  y <= x
  <2> SUFFICES ASSUME y > x
               PROVE  FALSE
    OBVIOUS
  <2>0. y \in Above(x) /\ y \notin Above(y)
    BY <1>5
  <2>1. Above(y) \subseteq Above(x) /\ Above(x) # Above(y)
    <3>1. \A z \in S : z > y => z > x
      BY <1>5
    <3> QED
      BY <2>0, <3>1
  <2>2. Cardinality(Above(y)) <= Cardinality(Above(x))
        /\ Cardinality(Above(y)) # Cardinality(Above(x))
    <3> HIDE DEF Above
    <3> QED
      BY <2>1, <1>1, FS_Subset
  <2>3. Cardinality(Above(y)) < n /\ Cardinality(Above(y)) \in Nat /\ n \in Nat
    <3> HIDE DEF Above
    <3> QED
      BY <2>2, <1>1, <1>4, <1>5
  <2>4. Cardinality(Above(y)) \in Counts
    BY <1>5
  <2> HIDE DEF Above, Counts
  <2>5. n <= Cardinality(Above(y))
    BY <2>4, <1>3
  <2> QED
    BY <2>3, <2>5
<1>6. \E z \in S : \A y \in S : z >= y
  BY <1>5
<1>7. Greatest(S) \in S /\ \A y \in S : Greatest(S) >= y
  BY <1>6 DEF Greatest
<1> QED
  BY <1>7

--------------------------------------------------------------------------------
(***************************************************************************)
(* Months.                                                                 *)
(***************************************************************************)
LEMMA MonthBounds ==
    ASSUME Assumptions, NEW d \in Nat
    PROVE  /\ Month(d) \in Nat /\ MonthStart(d) \in Nat
           /\ MonthStart(d) = MonthLength * Month(d)
           /\ MonthStart(d) <= d /\ d < MonthStart(d) + MonthLength
<1>1. MonthLength \in Nat \ {0}
  BY DEF Assumptions, BoundsAssumption
<1> DEFINE L == MonthLength
<1>2. d \div L \in Nat /\ L * (d \div L) \in Nat /\ L * (d \div L) <= d /\ d < L * (d \div L) + L
  BY <1>1
<1> QED
  BY <1>2 DEF Month, MonthStart

\* A date is before the first of a month when its month is before that month.
LEMMA MonthOrder ==
    ASSUME Assumptions, NEW d \in Nat, NEW x \in Nat
    PROVE  /\ Month(MonthStart(x)) = Month(x)
           /\ d < MonthStart(x) <=> Month(d) < Month(x)
<1>0. MonthLength \in Nat \ {0}
  BY DEF Assumptions, BoundsAssumption
<1>1. ASSUME NEW q \in Nat, NEW r \in Nat, q < r
      PROVE  MonthLength * q + MonthLength <= MonthLength * r
  <2> DEFINE k == r - q - 1
  <2>1. r = q + 1 + k /\ k \in Nat
    BY <1>1
  <2>2. MonthLength * r = MonthLength * q + MonthLength + MonthLength * k
    BY <1>0, <2>1
  <2>3. MonthLength * k >= 0
    BY <1>0, <2>1
  <2> QED
    BY <1>0, <2>2, <2>3
<1>2. ASSUME NEW e \in Nat, NEW y \in Nat
      PROVE  e < MonthStart(y) <=> Month(e) < Month(y)
  <2>1. /\ Month(e) \in Nat /\ MonthStart(e) = MonthLength * Month(e)
        /\ MonthStart(e) <= e /\ e < MonthStart(e) + MonthLength /\ MonthStart(e) \in Nat
        /\ Month(y) \in Nat /\ MonthStart(y) = MonthLength * Month(y) /\ MonthStart(y) \in Nat
    BY MonthBounds
  <2>2. CASE Month(e) < Month(y)
    <3>1. MonthLength * Month(e) + MonthLength <= MonthLength * Month(y)
      BY <1>1, <2>1, <2>2
    <3> QED
      BY <1>0, <2>1, <2>2, <3>1
  <2>3. CASE Month(e) = Month(y)
    BY <1>0, <2>1, <2>3
  <2>4. CASE Month(y) < Month(e)
    <3>1. MonthLength * Month(y) + MonthLength <= MonthLength * Month(e)
      BY <1>1, <2>1, <2>4
    <3> QED
      BY <1>0, <2>1, <2>4, <3>1
  <2> QED
    BY <2>1, <2>2, <2>3, <2>4
<1>3. Month(MonthStart(x)) = Month(x)
  <2>1. MonthStart(x) \in Nat /\ Month(x) \in Nat /\ MonthStart(x) <= x
    BY MonthBounds
  <2>2. Month(MonthStart(x)) \in Nat
    BY <2>1, MonthBounds
  <2>3. ~(Month(MonthStart(x)) < Month(x))
    BY <1>2, <2>1
  <2>4. ~(Month(x) < Month(MonthStart(x)))
    <3>1. MonthStart(MonthStart(x)) <= MonthStart(x) /\ MonthStart(MonthStart(x)) \in Nat
      BY <2>1, MonthBounds
    <3>2. ~(x < MonthStart(MonthStart(x)))
      BY <2>1, <3>1
    <3> QED
      BY <1>2, <2>1, <3>2
  <2> QED
    BY <2>1, <2>2, <2>3, <2>4
<1> QED
  BY <1>2, <1>3

--------------------------------------------------------------------------------
(***************************************************************************)
(* Dates, paths and blobs.                                                 *)
(***************************************************************************)

\* Cursors are the first of a month, so they are compared as months are.
LEMMA CursorOrder ==
    ASSUME Assumptions, NEW x \in MonthStarts, NEW d \in Nat
    PROVE  x \in Nat /\ Month(x) \in Nat /\ (d < x <=> Month(d) < Month(x))
<1>1. PICK y \in Nat : x = MonthStart(y)
  <2>1. MonthLength \in Nat \ {0}
    BY DEF Assumptions, BoundsAssumption
  <2>2. 0 = MonthStart(0)
    BY <2>1 DEF MonthStart, Month
  <2>3. \A z \in Dates : z \in Nat
    BY DEF Dates, Assumptions, MessagesAssumption
  <2> QED
    BY <2>2, <2>3 DEF MonthStarts
<1>2. x \in Nat /\ Month(y) \in Nat
  BY <1>1, MonthBounds
<1>3. Month(x) = Month(y) /\ (d < x <=> Month(d) < Month(y))
  BY <1>1, MonthOrder
<1> QED
  BY <1>2, <1>3

\* Dates and months of messages.
LEMMA DateTypes ==
    ASSUME Assumptions
    PROVE  /\ Dates \subseteq Nat /\ 0 \in Dates /\ 0 \in MonthStarts
           /\ \A m \in Messages : Date[m] \in Nat \ {0} /\ Date[m] \in Dates
           /\ \A d \in Dates : MonthStart(d) \in MonthStarts /\ MonthStart(d) <= d
           /\ \A m \in Messages : ChatOf[m] \in Chats
<1>1. \A m \in Messages : Date[m] \in Nat \ {0} /\ Date[m] \in Dates
  BY DEF Dates, Assumptions, MessagesAssumption
<1>2. Dates \subseteq Nat /\ 0 \in Dates /\ 0 \in MonthStarts
  BY <1>1 DEF Dates, MonthStarts
<1>3. \A d \in Dates : MonthStart(d) \in MonthStarts /\ MonthStart(d) <= d
  BY <1>2, MonthBounds DEF MonthStarts
<1>4. \A m \in Messages : ChatOf[m] \in Chats
  BY DEF Assumptions, MessagesAssumption
<1> QED
  BY <1>1, <1>2, <1>3, <1>4

\* A chat belongs to one thread.
LEMMA ThreadIs ==
    ASSUME Assumptions, NEW m \in Messages
    PROVE  /\ ThreadOf(m) \in Threads /\ ChatOf[m] \in ChatsOf[ThreadOf(m)]
           /\ \A t \in Threads : ChatOf[m] \in ChatsOf[t] => t = ThreadOf(m)
<1>1. \E t \in Threads : ChatOf[m] \in ChatsOf[t]
  BY DateTypes DEF Chats
<1>2. ThreadOf(m) \in Threads /\ ChatOf[m] \in ChatsOf[ThreadOf(m)]
  BY <1>1 DEF ThreadOf
<1>3. ASSUME NEW t \in Threads, ChatOf[m] \in ChatsOf[t]
      PROVE  t = ThreadOf(m)
  <2>1. ChatsOf[t] \cap ChatsOf[ThreadOf(m)] # {}
    BY <1>2, <1>3
  <2> QED
    BY <2>1, <1>2 DEF Assumptions, ThreadsAssumption
<1> QED
  BY <1>2, <1>3

\* The note of a message.
LEMMA PathFacts ==
    ASSUME Assumptions, NEW t \in Threads, NEW m \in OfThread(Messages, t)
    PROVE  /\ PathOf(t, m) \in NotePaths
           /\ PathOf(t, m)[1] = t /\ PathOf(t, m)[2] = Month(Date[m])
           /\ m \in Messages /\ ChatOf[m] \in ChatsOf[t]
<1>1. PathOf(t, m) = <<t, Month(Date[m])>>
  BY DEF PathOf
<1>2. PathOf(t, m) \in NotePaths
  BY DEF NotePaths
<1> QED
  BY <1>1, <1>2 DEF OfThread

\* A note is of a thread and a month.
LEMMA NoteFacts ==
    ASSUME Assumptions, NEW p \in NotePaths
    PROVE  /\ p[1] \in Threads /\ p \in Paths /\ p # IndexPath
           /\ \A t \in Threads : \A m \in OfThread(Messages, t) :
                 PathOf(t, m) = p <=> t = p[1] /\ Month(Date[m]) = p[2]
<1>0. PICK t \in Threads : \E m \in OfThread(Messages, t) : p = PathOf(t, m)
  BY DEF NotePaths
<1>1. PICK m \in OfThread(Messages, t) : p = PathOf(t, m)
  BY <1>0
<1>2. p = <<t, Month(Date[m])>>
  BY <1>1 DEF PathOf
<1>3. p \in Paths /\ p # IndexPath
  BY DEF Paths, Assumptions, DistinctAssumption
<1>4. \A u \in Threads : \A n \in OfThread(Messages, u) :
         PathOf(u, n) = p <=> u = p[1] /\ Month(Date[n]) = p[2]
  BY <1>2 DEF PathOf
<1> QED
  BY <1>2, <1>3, <1>4

\* What belongs into it.
LEMMA OfIs ==
    ASSUME Assumptions, NEW S \in SUBSET Messages, NEW p \in NotePaths, NEW m
    PROVE  /\ m \in Of(S, p) <=> m \in OfThread(S, p[1]) /\ PathOf(p[1], m) = p
           /\ m \in Of(S, p) => m \in S /\ m \in Messages /\ ChatOf[m] \in ChatsOf[p[1]]
                                /\ Month(Date[m]) = p[2] /\ Date[m] \in Nat
           /\ m \in OfThread(S, p[1]) <=> m \in S /\ ChatOf[m] \in ChatsOf[p[1]]
<1>1. m \in OfThread(S, p[1]) <=> m \in S /\ ChatOf[m] \in ChatsOf[p[1]]
  BY DEF OfThread
<1>2. m \in Of(S, p) <=> m \in OfThread(S, p[1]) /\ PathOf(p[1], m) = p
  BY DEF Of
<1>3. ASSUME m \in Of(S, p)
      PROVE  Month(Date[m]) = p[2] /\ Date[m] \in Nat
  <2>1. m \in OfThread(Messages, p[1]) /\ PathOf(p[1], m) = p
    BY <1>1, <1>2, <1>3 DEF OfThread
  <2>2. p[1] \in Threads
    BY NoteFacts
  <2>3. Date[m] \in Nat
    BY <2>1, DateTypes DEF OfThread
  <2> QED
    BY <2>1, <2>2, <2>3, NoteFacts
<1> QED
  BY <1>1, <1>2, <1>3

\* Records are no markers, and the empty values are of their types.
LEMMA BlobTypes ==
    ASSUME Assumptions
    PROVE  /\ Hand # Absent /\ None \notin Threads
           /\ \A n \in Note : n \notin {Hand, Absent} /\ MessagesIn(n) = n.messages
           /\ \A n \in IndexFile : n \notin {Hand, Absent} /\ Loaded(n) = n.threads
           /\ \A st \in State : st # Absent /\ st.cursor \in MonthStarts /\ st.cursor \in Nat
                                /\ st.last \in Dates /\ st.sig \in Sigs
           /\ MessagesIn(Absent) = {} /\ MessagesIn(Hand) = {}
           /\ NoStates \in [Threads -> State \cup {Absent}] /\ NoDates \in [Chats -> Dates]
           /\ IsFolder(NoFiles) /\ \A p \in Paths : Shown(NoFiles, p) = {}
           /\ Loaded(Absent) = NoStates /\ Loaded(Hand) = NoStates
<1>1. Hand # Absent /\ None \notin Threads
  BY DEF Assumptions, DistinctAssumption
<1>2. \A n \in Note : n \notin {Hand, Absent} /\ MessagesIn(n) = n.messages
  BY DEF Assumptions, DistinctAssumption, MessagesIn
<1>3. \A n \in IndexFile : n \notin {Hand, Absent} /\ Loaded(n) = n.threads
  BY DEF Assumptions, DistinctAssumption, Loaded
<1>4. \A st \in State : st # Absent /\ st.cursor \in MonthStarts /\ st.last \in Dates
        /\ st.sig \in Sigs
  BY DEF Assumptions, DistinctAssumption, State
<1>5. \A x \in MonthStarts : x \in Nat
  BY CursorOrder
<1>6. MessagesIn(Absent) = {} /\ MessagesIn(Hand) = {} /\ Loaded(Absent) = NoStates
        /\ Loaded(Hand) = NoStates
  BY DEF MessagesIn, Loaded
<1>7. NoStates \in [Threads -> State \cup {Absent}] /\ NoDates \in [Chats -> Dates]
  BY DateTypes DEF NoStates, NoDates
<1>8. IsFolder(NoFiles) /\ \A p \in Paths : Shown(NoFiles, p) = {}
  BY <1>6 DEF IsFolder, NoFiles, Paths, Shown
<1> QED
  BY <1>1, <1>2, <1>3, <1>4, <1>5, <1>6, <1>7, <1>8

\* The index of a folder.
LEMMA LoadedType ==
    ASSUME Assumptions, NEW f, IsFolder(f)
    PROVE  Loaded(f[IndexPath]) \in [Threads -> State \cup {Absent}]
<1>1. f[IndexPath] \in IndexFile \cup {Hand, Absent}
  BY DEF IsFolder
<1>2. \A n \in IndexFile : n.threads \in [Threads -> State \cup {Absent}]
  BY DEF IndexFile
<1> QED
  BY <1>1, <1>2, BlobTypes

--------------------------------------------------------------------------------
(***************************************************************************)
(* Commits.                                                                *)
(***************************************************************************)
OnePerPath(ops) == \A c, d \in ops : c.path = d.path => c = d

\* What a commit makes of one path.
LEMMA CommittedAt ==
    ASSUME NEW f, NEW p \in DOMAIN f, NEW b, OnePerPath(b)
    PROVE  /\ \A c \in b : c.path = p => Committed(f, b)[p] = c.to
           /\ (\A c \in b : c.path # p) => Committed(f, b)[p] = f[p]
<1>1. Committed(f, b)[p] =
         IF \E c \in b : c.path = p THEN (CHOOSE c \in b : c.path = p).to ELSE f[p]
  BY DEF Committed
<1>2. ASSUME NEW c \in b, c.path = p
      PROVE  Committed(f, b)[p] = c.to
  <2> DEFINE d == CHOOSE e \in b : e.path = p
  <2>1. d \in b /\ d.path = p
    BY <1>2
  <2>2. d = c
    BY <2>1, <1>2 DEF OnePerPath
  <2> QED
    BY <1>1, <1>2, <2>2
<1> QED
  BY <1>1, <1>2

\* A commit writes the paths there are.
LEMMA CommittedDomain ==
    ASSUME NEW f, NEW b
    PROVE  DOMAIN Committed(f, b) = DOMAIN f
BY DEF Committed

\* Two folders of the same paths that agree in each are equal.
LEMMA SameCommitted ==
    ASSUME NEW f, NEW b, NEW g, NEW c, DOMAIN f = DOMAIN g,
           \A p \in DOMAIN f : Committed(f, b)[p] = Committed(g, c)[p]
    PROVE  Committed(f, b) = Committed(g, c)
<1> DEFINE F == Committed(f, b)
           G == Committed(g, c)
<1>1. F = [p \in DOMAIN f |-> F[p]] /\ G = [p \in DOMAIN f |-> G[p]]
  BY DEF Committed
<1> HIDE DEF F, G
<1>2. \A p \in DOMAIN f : F[p] = G[p]
  BY DEF F, G
<1>3. F = G
  BY <1>1, <1>2
<1> QED
  BY <1>3 DEF F, G

\* Posting a batch leads nowhere but where the operations led before.
LEMMA BatchTarget ==
    ASSUME NEW f, NEW ops, OnePerPath(ops), NEW b \in SUBSET ops
    PROVE  Committed(Committed(f, b), ops \ b) = Committed(f, ops)
<1> DEFINE g == Committed(f, b)
<1>1. OnePerPath(b) /\ OnePerPath(ops \ b)
  BY DEF OnePerPath
<1>2. DOMAIN g = DOMAIN f
  BY CommittedDomain
<1> HIDE DEF g
<1>3. ASSUME NEW p \in DOMAIN f
      PROVE  Committed(g, ops \ b)[p] = Committed(f, ops)[p]
  <2>1. CASE \E c \in ops \ b : c.path = p
    <3>1. PICK c \in ops \ b : c.path = p
      BY <2>1
    <3>2. Committed(g, ops \ b)[p] = c.to
      BY <1>1, <1>2, <3>1, CommittedAt
    <3>3. Committed(f, ops)[p] = c.to
      BY <3>1, CommittedAt
    <3> QED
      BY <3>2, <3>3
  <2>2. CASE \A c \in ops \ b : c.path # p
    <3>1. Committed(g, ops \ b)[p] = g[p]
      BY <1>1, <1>2, <2>2, CommittedAt
    <3>2. CASE \E c \in b : c.path = p
      <4>1. PICK c \in b : c.path = p
        BY <3>2
      <4>2. g[p] = c.to
        BY <1>1, <4>1, CommittedAt DEF g
      <4>3. Committed(f, ops)[p] = c.to
        BY <4>1, CommittedAt
      <4> QED
        BY <3>1, <4>2, <4>3
    <3>3. CASE \A c \in b : c.path # p
      <4>1. g[p] = f[p]
        BY <1>1, <3>3, CommittedAt DEF g
      <4>2. Committed(f, ops)[p] = f[p]
        BY <2>2, <3>3, CommittedAt
      <4> QED
        BY <3>1, <4>1, <4>2
    <3> QED
      BY <3>2, <3>3
  <2> QED
    BY <2>1, <2>2
<1> QED
  BY <1>2, <1>3, SameCommitted DEF g

\* The operations of a diff, and where they lead: what is wanted is there, what is
\* kept stays, the rest goes.
LEMMA DiffLeads ==
    ASSUME NEW g, NEW f, NEW keep
    PROVE  LET ops == Diff(g, f, keep)
           IN  /\ OnePerPath(ops)
               /\ \A c \in ops : c.path \in DOMAIN f /\ c.from = f[c.path] /\ c.to = g[c.path]
               /\ \A p \in DOMAIN f : Committed(f, ops)[p] =
                     IF g[p] = Absent /\ p \in keep THEN f[p] ELSE g[p]
<1> DEFINE ops == Diff(g, f, keep)
           S == {q \in DOMAIN f : g[q] # f[q] /\ (g[q] = Absent => q \notin keep)}
<1>1. ops = {Change(p, f[p], g[p]) : p \in S}
  BY DEF Diff
<1> HIDE DEF ops
<1>2. OnePerPath(ops)
  BY <1>1 DEF OnePerPath, Change
<1>3. \A c \in ops : c.path \in S /\ c.from = f[c.path] /\ c.to = g[c.path]
  BY <1>1 DEF Change
<1>4. ASSUME NEW p \in DOMAIN f
      PROVE  Committed(f, ops)[p] = IF g[p] = Absent /\ p \in keep THEN f[p] ELSE g[p]
  <2>1. CASE p \in S
    <3>1. Change(p, f[p], g[p]) \in ops
      BY <1>1, <2>1
    <3>2. Change(p, f[p], g[p]).path = p /\ Change(p, f[p], g[p]).to = g[p]
      BY DEF Change
    <3>3. Committed(f, ops)[p] = g[p]
      BY <1>2, <3>1, <3>2, CommittedAt
    <3> QED
      BY <2>1, <3>3
  <2>2. CASE p \notin S
    <3>1. Committed(f, ops)[p] = f[p]
      BY <1>2, <1>3, <2>2, CommittedAt
    <3> QED
      BY <2>2, <3>1
  <2> QED
    BY <2>1, <2>2
<1> QED
  BY <1>2, <1>3, <1>4 DEF ops

\* The operations of a diff.
LEMMA DiffIs ==
    ASSUME NEW g, NEW f, NEW keep
    PROVE  /\ \A c \in Diff(g, f, keep) :
                 /\ c.path \in DOMAIN f /\ c.from = f[c.path] /\ c.to = g[c.path] /\ c.to # c.from
                 /\ c.to = Absent => c.path \notin keep
           /\ \A p \in DOMAIN f : g[p] # f[p] /\ g[p] # Absent =>
                 \E c \in Diff(g, f, keep) : c.path = p
           /\ OnePerPath(Diff(g, f, keep))
<1> DEFINE S == {q \in DOMAIN f : g[q] # f[q] /\ (g[q] = Absent => q \notin keep)}
<1>1. Diff(g, f, keep) = {Change(p, f[p], g[p]) : p \in S}
  BY DEF Diff
<1>2. \A p : Change(p, f[p], g[p]).path = p /\ Change(p, f[p], g[p]).from = f[p]
             /\ Change(p, f[p], g[p]).to = g[p]
  BY DEF Change
<1>3. \A c \in Diff(g, f, keep) : c.path \in S /\ c = Change(c.path, f[c.path], g[c.path])
  BY <1>1, <1>2
<1>4. \A p \in S : \E c \in Diff(g, f, keep) : c.path = p
  BY <1>1, <1>2
<1>5. OnePerPath(Diff(g, f, keep))
  BY <1>3 DEF OnePerPath
<1> QED
  BY <1>2, <1>3, <1>4, <1>5

--------------------------------------------------------------------------------
(***************************************************************************)
(* Fetching.                                                               *)
(***************************************************************************)

\* Sets of messages are finite.
LEMMA SetTypes ==
    ASSUME Assumptions, NEW S \in SUBSET Messages
    PROVE  /\ IsFiniteSet(S) /\ Cardinality(S) \in Nat
           /\ IsFiniteSet(DatesOf(S)) /\ DatesOf(S) \subseteq Dates /\ (S # {} => DatesOf(S) # {})
<1>1. IsFiniteSet(S) /\ Cardinality(S) \in Nat
  BY FS_Subset, FS_CardinalityType DEF Assumptions, MessagesAssumption
<1>2. IsFiniteSet(DatesOf(S))
  <2> DEFINE dates == [m \in S |-> Date[m]]
  <2>1. dates \in Surjection(S, DatesOf(S))
    BY DEF Surjection, DatesOf
  <2> QED
    BY <1>1, <2>1, FS_Surjection
<1>3. DatesOf(S) \subseteq Dates /\ (S # {} => DatesOf(S) # {})
  BY DateTypes DEF DatesOf
<1> QED
  BY <1>1, <1>2, <1>3

\* The last date of some messages.
LEMMA LastDate ==
    ASSUME Assumptions, NEW S \in SUBSET Messages, S # {}
    PROVE  /\ \E n \in S : Greatest(DatesOf(S)) = Date[n]
           /\ \A m \in S : Date[m] <= Greatest(DatesOf(S))
<1>1. DatesOf(S) \subseteq Nat /\ IsFiniteSet(DatesOf(S)) /\ DatesOf(S) # {}
  BY SetTypes, DateTypes
<1>2. Greatest(DatesOf(S)) \in DatesOf(S) /\ \A y \in DatesOf(S) : y <= Greatest(DatesOf(S))
  BY <1>1, GreatestOf
<1>3. \A m \in S : Date[m] \in DatesOf(S)
  BY DEF DatesOf
<1>4. \E n \in S : Greatest(DatesOf(S)) = Date[n]
  BY <1>2 DEF DatesOf
<1> QED
  BY <1>2, <1>3, <1>4

\* The date a thread was last written to, as far as is known.
LEMMA LatestDate ==
    ASSUME Assumptions, NEW S \in SUBSET Messages, NEW d \in Dates
    PROVE  Greatest({d} \cup DatesOf(S)) \in Dates
<1>1. IsFiniteSet({d} \cup DatesOf(S))
  <2>1. IsFiniteSet(DatesOf(S))
    BY SetTypes
  <2> QED
    BY <2>1, FS_Singleton, FS_Union
<1>2. {d} \cup DatesOf(S) \subseteq Dates /\ {d} \cup DatesOf(S) \subseteq Nat
  BY SetTypes, DateTypes
<1>3. Greatest({d} \cup DatesOf(S)) \in {d} \cup DatesOf(S)
  BY <1>1, <1>2, GreatestOf
<1> QED
  BY <1>2, <1>3

\* The oldest messages of a chat: all of them, or some that are older than all others.
LEMMA OldestOf ==
    ASSUME Assumptions, NEW S \in SUBSET Messages, NEW k \in Nat \ {0}
    PROVE  /\ Oldest(S, k) \subseteq S
           /\ Cardinality(S) < k => Oldest(S, k) = S
           /\ S # {} => Oldest(S, k) # {}
           /\ \A n \in Oldest(S, k), m \in S \ Oldest(S, k) : Date[n] < Date[m]
<1> DEFINE Before(m) == {n \in S : Date[n] < Date[m]}
<1>1. \A m \in S : /\ IsFiniteSet(Before(m)) /\ Cardinality(Before(m)) \in Nat
                   /\ Cardinality(Before(m)) <= Cardinality(S)
  <2> SUFFICES ASSUME NEW m \in S
               PROVE  /\ IsFiniteSet(Before(m)) /\ Cardinality(Before(m)) \in Nat
                      /\ Cardinality(Before(m)) <= Cardinality(S)
    OBVIOUS
  <2>1. IsFiniteSet(S)
    BY SetTypes
  <2>2. Before(m) \subseteq S /\ Before(m) \in SUBSET Messages
    OBVIOUS
  <2> HIDE DEF Before
  <2> QED
    BY <2>1, <2>2, FS_Subset, SetTypes
<1>2. \A m \in S : m \in Oldest(S, k) <=> Cardinality(Before(m)) < k
  BY DEF Oldest
<1>3. Oldest(S, k) \subseteq S
  BY DEF Oldest
<1>4. ASSUME Cardinality(S) < k
      PROVE  Oldest(S, k) = S
  <2>1. Cardinality(S) \in Nat
    BY SetTypes
  <2>2. \A m \in S : Cardinality(Before(m)) < k
    <3> HIDE DEF Before
    <3> QED
      BY <1>1, <1>4, <2>1
  <2> HIDE DEF Before
  <2> QED
    BY <1>2, <1>3, <2>2
<1>5. ASSUME S # {}
      PROVE  Oldest(S, k) # {}
  <2>1. DatesOf(S) \subseteq Nat /\ DatesOf(S) # {}
    BY SetTypes, DateTypes, <1>5
  <2>2. Least(DatesOf(S)) \in DatesOf(S) /\ \A y \in DatesOf(S) : Least(DatesOf(S)) <= y
    BY <2>1, LeastOf
  <2>3. PICK m \in S : Least(DatesOf(S)) = Date[m]
    BY <2>2 DEF DatesOf
  <2>4. \A n \in S : Date[m] <= Date[n] /\ Date[n] \in Nat /\ Date[m] \in Nat
    BY <2>2, <2>3, DateTypes DEF DatesOf
  <2>5. Before(m) = {}
    BY <2>4
  <2>6. Cardinality(Before(m)) = 0
    BY <2>5, FS_EmptySet
  <2> HIDE DEF Before
  <2> QED
    BY <1>2, <2>3, <2>6
<1>6. ASSUME NEW n \in Oldest(S, k), NEW m \in S \ Oldest(S, k)
      PROVE  Date[n] < Date[m]
  <2>1. Date[n] \in Nat /\ Date[m] \in Nat /\ n \in S
    BY <1>3, DateTypes
  <2>2. SUFFICES ASSUME Date[m] <= Date[n]
                 PROVE  FALSE
    BY <2>1
  <2>3. Before(m) \subseteq Before(n)
    <3>1. \A x \in S : Date[x] \in Nat
      BY DateTypes
    <3> QED
      BY <2>1, <2>2, <3>1
  <2>4. Cardinality(Before(m)) <= Cardinality(Before(n))
    <3> HIDE DEF Before
    <3> QED
      BY <1>1, <2>1, <2>3, FS_Subset
  <2>5. Cardinality(Before(n)) < k /\ ~(Cardinality(Before(m)) < k)
    BY <1>2, <2>1
  <2>6. Cardinality(Before(n)) \in Nat /\ Cardinality(Before(m)) \in Nat
    <3> HIDE DEF Before
    <3> QED
      BY <1>1, <2>1
  <2> HIDE DEF Before
  <2> QED
    BY <2>4, <2>5, <2>6
<1> HIDE DEF Before
<1> QED
  BY <1>3, <1>4, <1>5, <1>6

\* How many pages are fetched.
LEMMA PagesType ==
    ASSUME Assumptions, NEW S \in SUBSET Messages, NEW budget
    PROVE  Pages(S, budget) \in Nat \ {0} /\ Pages(S, budget) * PageSize \in Nat \ {0}
<1> DEFINE K == {k \in 1 .. Cardinality(S) + 1 : StopsAt(S, k, budget)}
<1>1. PageSize \in Nat \ {0} /\ Cardinality(S) \in Nat
  BY SetTypes DEF Assumptions, BoundsAssumption
<1>2. K \subseteq Nat \ {0}
  BY <1>1
<1>3. Cardinality(S) + 1 \in K
  <2>1. ASSUME NEW a \in Nat, NEW b \in Nat \ {0}
        PROVE  a < (a + 1) * b
    <3>1. PICK e \in Nat : b = e + 1
      <4>1. b - 1 \in Nat /\ b = (b - 1) + 1
        OBVIOUS
      <4> QED
        BY <4>1
    <3>2. (a + 1) * b = (a + 1) * e + a + 1 /\ (a + 1) * e \in Nat
      BY <3>1
    <3> QED
      BY <3>2
  <2>2. IsShort(S, Cardinality(S) + 1)
    BY <1>1, <2>1 DEF IsShort
  <2> QED
    BY <1>1, <2>2 DEF StopsAt
<1>4. Least(K) \in K
  <2>1. K \in SUBSET Nat /\ K # {}
    BY <1>2, <1>3
  <2> HIDE DEF K
  <2> QED
    BY <2>1, LeastOf
<1>5. Pages(S, budget) = Least(K)
  BY DEF Pages
<1>6. Pages(S, budget) \in Nat \ {0}
  <2> HIDE DEF K
  <2> QED
    BY <1>2, <1>4, <1>5
<1>7. ASSUME NEW a \in Nat \ {0}, NEW b \in Nat \ {0}
      PROVE  a * b \in Nat \ {0}
  OBVIOUS
<1> QED
  BY <1>1, <1>6, <1>7

\* What a fetch brings of a chat: all there is, or all before some date it cuts at.
LEMMA FetchBrings ==
    ASSUME Assumptions, NEW S \in SUBSET Messages, NEW budget
    PROVE  LET pages == Pages(S, budget)
               part  == Oldest(S, pages * PageSize)
           IN  /\ part \subseteq S
               /\ IsShort(S, pages) => part = S
               /\ ~IsShort(S, pages) =>
                     /\ \E n \in part : CutOf(part) = MonthStart(Date[n])
                     /\ \A m \in S \ part : CutOf(part) <= Date[m]
<1> DEFINE k == Pages(S, budget) * PageSize
           part == Oldest(S, k)
<1>1. k \in Nat \ {0} /\ Cardinality(S) \in Nat
  BY PagesType, SetTypes
<1> HIDE DEF k
<1>2. /\ part \subseteq S /\ (Cardinality(S) < k => part = S) /\ (S # {} => part # {})
      /\ \A n \in part, m \in S \ part : Date[n] < Date[m]
  BY <1>1, OldestOf
<1> HIDE DEF part
<1>3. IsShort(S, Pages(S, budget)) <=> Cardinality(S) < k
  BY DEF IsShort, k
<1>4. ASSUME ~(Cardinality(S) < k)
      PROVE  /\ \E n \in part : CutOf(part) = MonthStart(Date[n])
             /\ \A m \in S \ part : CutOf(part) <= Date[m]
  <2>1. S # {}
    <3>1. Cardinality({}) = 0
      BY FS_EmptySet
    <3> QED
      BY <1>1, <1>4, <3>1
  <2>2. part # {} /\ part \in SUBSET Messages
    BY <1>2, <2>1
  <2>3. PICK n \in part : Greatest(DatesOf(part)) = Date[n]
    BY <2>2, LastDate
  <2>4. CutOf(part) = MonthStart(Date[n])
    BY <2>3 DEF CutOf
  <2>5. n \in Messages /\ Date[n] \in Dates /\ MonthStart(Date[n]) <= Date[n]
    BY <2>2, DateTypes
  <2>6. MonthStart(Date[n]) \in Nat /\ Date[n] \in Nat
    BY <2>5, DateTypes, MonthBounds
  <2>7. ASSUME NEW m \in S \ part
        PROVE  CutOf(part) <= Date[m]
    <3>1. Date[n] < Date[m] /\ Date[m] \in Nat
      BY <1>2, DateTypes
    <3> QED
      BY <2>4, <2>5, <2>6, <3>1
  <2> QED
    BY <2>4, <2>7
<1> QED
  BY <1>2, <1>3, <1>4 DEF part, k

--------------------------------------------------------------------------------
(***************************************************************************)
(* Steps that end a run, and steps before the first thread is fetched.     *)
(***************************************************************************)
LEMMA EntriesType ==
    ASSUME Assumptions, TypeOK
    PROVE  Entries \in [Threads -> State \cup {Absent}]
BY LoadedType DEF Entries, TypeOK

\* Nothing is asked of a run that is over.
LEMMA EndSound ==
    ASSUME Assumptions, EndRun
    PROVE  PendingSound' /\ CursorsSound' /\ FolderListed' /\ FetchComplete'
<1>1. \A t \in Threads : NoStates[t] = Absent
  BY DEF NoStates
<1>2. PendingSound' /\ FolderListed' /\ FetchComplete'
  BY DEF EndRun, PendingSound, FolderListed, FetchComplete
<1>3. CursorsSound'
  BY <1>1 DEF EndRun, CursorsSound
<1> QED
  BY <1>2, <1>3

\* Nor of its variables.
LEMMA EndTypes ==
    ASSUME Assumptions, EndRun,
           server' \subseteq Messages, chosen' \subseteq Threads, sig' \in [Threads -> Sigs],
           IsFolder(folder'), events' \in 0 .. MaxEvents,
           late' \subseteq Messages, damaged' \subseteq NotePaths
    PROVE  TypeOK'
<1>1. NoStates \in [Threads -> State \cup {Absent}] /\ NoDates \in [Chats -> Dates]
        /\ IsFolder(NoFiles)
  BY BlobTypes
<1> QED
  BY <1>1 DEF EndRun, TypeOK

\* A run ends and the folder stays as it is.
LEMMA Ends ==
    ASSUME Assumptions, IInv, EndRun, UNCHANGED <<outside, folder, history>>,
           events' \in 0 .. MaxEvents
    PROVE  IInv'
<1> USE DEF outside, history
<1>1. TypeOK'
  <2>1. TypeOK
    BY DEF IInv
  <2> QED
    BY <2>1, EndTypes DEF TypeOK
<1>2. PendingSound' /\ CursorsSound' /\ FolderListed' /\ FetchComplete'
  BY EndSound
<1>3. NothingSkipped'
  BY DEF IInv, NothingSkipped, Entries
<1>4. NotesTrue'
  <2>1. \A p \in NotePaths : Shown(NoFiles, p) = {}
    BY BlobTypes DEF Paths
  <2> QED
    BY <2>1 DEF IInv, NotesTrue, EndRun
<1>5. CursorsReached'
  <2>1. \A t \in Threads : NoStates[t] = Absent
    BY DEF NoStates
  <2> QED
    BY <2>1 DEF IInv, CursorsReached, IsReached, Entries, EndRun
<1> QED
  BY <1>1, <1>2, <1>3, <1>4, <1>5 DEF IInv

\* Where the run has not listed the notes, nothing is left to post.
LEMMA NothingPending ==
    ASSUME IInv, pc \in {"idle", "chats", "list"}
    PROVE  pending = {} /\ current = None /\ left = {}
<1>1. pending = {}
  BY DEF IInv, PendingSound
<1>2. left = {}
  BY DEF IInv, FetchComplete
<1>3. current = None
  BY <1>2 DEF IInv, FetchComplete
<1> QED
  BY <1>1, <1>2, <1>3

LEMMA BeginSteps ==
    ASSUME Assumptions, IInv, Begin
    PROVE  IInv'
<1> USE DEF outside, history, thread
<1>1. pending = {} /\ current = None /\ left = {}
  BY NothingPending DEF Begin
<1>2. Entries \in [Threads -> State \cup {Absent}] /\ states' = Entries
  BY EntriesType DEF IInv, Begin, Entries
<1>3. TypeOK'
  BY <1>1, <1>2 DEF IInv, TypeOK, Begin
<1>4. NothingSkipped' /\ NotesTrue'
  BY DEF IInv, NothingSkipped, NotesTrue, Entries, Begin
<1>5. CursorsReached'
  BY <1>2 DEF IInv, CursorsReached, IsReached, Entries, Begin
<1>6. PendingSound' /\ FolderListed' /\ FetchComplete'
  BY <1>1 DEF IInv, PendingSound, FolderListed, FetchComplete, Begin
<1>7. CursorsSound'
  <2>1. \A t \in Threads : \A m \in OfThread(server \ late, t) :
           Entries[t] # Absent /\ Date[m] < Entries[t].cursor =>
              PathOf(t, m) \in damaged \/ m \in Shown(folder, PathOf(t, m))
    BY DEF IInv, NothingSkipped
  <2> QED
    BY <1>2, <2>1 DEF CursorsSound, Begin
<1> QED
  BY <1>3, <1>4, <1>5, <1>6, <1>7 DEF IInv

LEMMA ListChatsSteps ==
    ASSUME Assumptions, IInv, ListChats
    PROVE  IInv'
<1> USE DEF outside, history, thread
<1>1. pending = {} /\ current = None /\ left = {}
  BY NothingPending DEF ListChats
<1>2. newest' \in [Chats -> Dates]
  <2>1. ASSUME NEW c \in Chats
        PROVE  Greatest({0} \cup {Date[m] : m \in {n \in server : ChatOf[n] = c}}) \in Dates
    <3> DEFINE S == {n \in server : ChatOf[n] = c}
    <3>1. S \in SUBSET Messages /\ 0 \in Dates
      BY DateTypes DEF IInv, TypeOK
    <3> HIDE DEF S
    <3>2. Greatest({0} \cup DatesOf(S)) \in Dates
      BY <3>1, LatestDate
    <3> QED
      BY <3>2 DEF DatesOf, S
  <2> QED
    BY <2>1 DEF ListChats
<1>3. TypeOK'
  BY <1>1, <1>2 DEF IInv, TypeOK, ListChats
<1>4. NothingSkipped' /\ NotesTrue'
  BY DEF IInv, NothingSkipped, NotesTrue, Entries, ListChats
<1>5. CursorsReached'
  BY DEF IInv, CursorsReached, IsReached, Entries, ListChats
<1>6. PendingSound' /\ FolderListed' /\ FetchComplete'
  BY <1>1 DEF IInv, PendingSound, FolderListed, FetchComplete, ListChats
<1>7. CursorsSound'
  BY DEF IInv, CursorsSound, ListChats
<1> QED
  BY <1>3, <1>4, <1>5, <1>6, <1>7 DEF IInv

\* The states a run starts its threads with.
LEMMA StatesListed ==
    ASSUME Assumptions, TypeOK, ListNotes
    PROVE  /\ states' \in [Threads -> State \cup {Absent}]
           /\ \A t \in Threads : states'[t] # Absent <=> t \in selected
           /\ \A t \in Threads : states'[t] = Absent \/ states'[t].cursor = 0
                                 \/ (states[t] # Absent /\ states'[t] = states[t])
<1>1. \A t \in Threads :
         Reset(t) \in State /\ Reset(t).cursor = 0 /\ Reset(t) # Absent
  <2> SUFFICES ASSUME NEW t \in Threads
               PROVE  Reset(t) \in State /\ Reset(t).cursor = 0 /\ Reset(t) # Absent
    OBVIOUS
  <2>1. Reset(t) \in State
    BY DateTypes DEF Reset, State, TypeOK
  <2> QED
    BY <2>1, BlobTypes DEF Reset
<1>2. \A t \in Threads :
         states'[t] = IF t \notin selected THEN Absent
                      ELSE IF states[t] = Absent \/ states[t].sig # sig[t]
                      THEN Reset(t) ELSE states[t]
  BY DEF ListNotes
<1>3. \A t \in Threads : states[t] \in State \cup {Absent}
  BY DEF TypeOK
<1>4. \A t \in Threads : states'[t] \in State \cup {Absent}
  BY <1>1, <1>2, <1>3
<1>5. states' = [t \in Threads |-> states'[t]]
  BY DEF ListNotes
<1>6. states' \in [Threads -> State \cup {Absent}]
  BY <1>4, <1>5
<1> QED
  BY <1>1, <1>2, <1>6

LEMMA ListNotesSteps ==
    ASSUME Assumptions, IInv, ListNotes
    PROVE  IInv'
<1> USE DEF outside, history, thread
<1>1. pending = {} /\ current = None /\ left = {}
  BY NothingPending DEF ListNotes
<1>2. /\ states' \in [Threads -> State \cup {Absent}]
      /\ \A t \in Threads : states'[t] # Absent <=> t \in selected
      /\ \A t \in Threads : states'[t] = Absent \/ states'[t].cursor = 0
                            \/ (states[t] # Absent /\ states'[t] = states[t])
  BY StatesListed DEF IInv
<1>3. TypeOK'
  BY <1>1, <1>2 DEF IInv, TypeOK, ListNotes
<1>4. NothingSkipped' /\ NotesTrue'
  BY DEF IInv, NothingSkipped, NotesTrue, Entries, ListNotes
<1>5. CursorsReached'
  <2>1. UNCHANGED <<folder, server>>
    BY DEF ListNotes
  <2>2. \A t \in Threads : IsReached(Entries[t], t) /\ IsReached(states[t], t)
    BY DEF IInv, CursorsReached
  <2> QED
    BY <1>2, <2>1, <2>2 DEF CursorsReached, IsReached, Entries
<1>6. PendingSound' /\ FolderListed' /\ FetchComplete'
  BY <1>1 DEF IInv, PendingSound, FolderListed, FetchComplete, ListNotes
<1>7. CursorsSound'
  <2>1. selected = {t \in Threads : states'[t] # Absent}
    BY <1>2 DEF IInv, TypeOK
  <2>2. ASSUME NEW t \in Threads, states'[t] # Absent,
               NEW m \in OfThread(server \ late, t), Date[m] < states'[t].cursor
        PROVE  PathOf(t, m) \in damaged \/ m \in Shown(folder, PathOf(t, m))
    <3>1. Date[m] \in Nat
      BY DateTypes DEF OfThread, IInv, TypeOK
    <3>2. states'[t].cursor # 0
      BY <3>1, <2>2
    <3>3. states[t] # Absent /\ states'[t] = states[t]
      BY <3>2, <2>2, <1>2
    <3> QED
      BY <1>1, <2>2, <3>3 DEF IInv, CursorsSound
  <2>3. UNCHANGED <<folder, server, late, damaged, selected>>
    BY DEF ListNotes
  <2> QED
    BY <2>1, <2>2, <2>3 DEF CursorsSound
<1> QED
  BY <1>3, <1>4, <1>5, <1>6, <1>7 DEF IInv

LEMMA SkipThreadSteps ==
    ASSUME Assumptions, IInv, SkipThread
    PROVE  IInv'
<1> USE DEF outside, history, thread
<1>1. PICK t \in left : left' = left \ {t}
  BY DEF SkipThread
<1>2. UNCHANGED <<outside, folder, pc, selected, states, newest, existing, thread, spent, pending,
                  events, history>> /\ pc = "threads" /\ current = None
  BY DEF SkipThread
<1>3. TypeOK'
  BY <1>1, <1>2 DEF IInv, TypeOK
<1>4. NothingSkipped' /\ NotesTrue'
  BY <1>2 DEF IInv, NothingSkipped, NotesTrue, Entries
<1>5. CursorsReached'
  BY <1>2 DEF IInv, CursorsReached, IsReached, Entries
<1>6. PendingSound'
  BY <1>1, <1>2 DEF IInv, PendingSound, IsWhole, Entries
<1>7. FolderListed' /\ FetchComplete'
  BY <1>1, <1>2 DEF IInv, FolderListed, FetchComplete
<1>8. CursorsSound'
  BY <1>2 DEF IInv, CursorsSound
<1> QED
  BY <1>3, <1>4, <1>5, <1>6, <1>7, <1>8 DEF IInv

LEMMA StartThreadSteps ==
    ASSUME Assumptions, IInv, StartThread
    PROVE  IInv'
<1> USE DEF outside, history
<1>1. PICK t \in left : current' = t /\ waiting' = ChatsOf[t]
  BY DEF StartThread
<1>2. UNCHANGED <<outside, folder, pc, selected, states, newest, existing, left, got,
                  cuts, spent, pending, events, history>> /\ pc = "threads" /\ current = None
  BY DEF StartThread
<1>3. t \in Threads /\ ChatsOf[t] \subseteq Chats /\ t # None
  BY BlobTypes DEF Chats, IInv, TypeOK
<1>4. TypeOK'
  BY <1>1, <1>2, <1>3 DEF IInv, TypeOK
<1>5. NothingSkipped' /\ NotesTrue'
  BY <1>2 DEF IInv, NothingSkipped, NotesTrue, Entries
<1>6. CursorsReached'
  BY <1>2 DEF IInv, CursorsReached, IsReached, Entries
<1>7. PendingSound' /\ FolderListed'
  BY <1>2 DEF IInv, PendingSound, FolderListed, IsWhole, Entries
<1>8. FetchComplete'
  <2>1. got = {} /\ cuts = {}
    BY <1>2 DEF IInv, FetchComplete
  <2>2. \A m \in OfThread(server, t) : ChatOf[m] \in ChatsOf[t]
    BY DEF OfThread
  <2> QED
    BY <1>1, <1>2, <1>3, <2>1, <2>2 DEF FetchComplete
<1>9. CursorsSound'
  BY <1>2 DEF IInv, CursorsSound
<1> QED
  BY <1>4, <1>5, <1>6, <1>7, <1>8, <1>9 DEF IInv

--------------------------------------------------------------------------------
(***************************************************************************)
(* Fetching and rendering a thread.                                        *)
(***************************************************************************)

\* The thread at work.
LEMMA CurrentIs ==
    ASSUME Assumptions, IInv, current # None
    PROVE  /\ current \in left /\ current \in selected /\ current \in Threads /\ pc = "threads"
           /\ states[current] \in State /\ states[current].cursor \in MonthStarts
           /\ states[current].cursor \in Nat
<1>1. current \in left /\ current \in selected /\ current \in Threads /\ pc = "threads"
  BY DEF IInv, FetchComplete, TypeOK
<1>2. states[current] # Absent
  BY <1>1 DEF IInv, CursorsSound
<1>3. states[current] \in State
  BY <1>1, <1>2 DEF IInv, TypeOK
<1> QED
  BY <1>1, <1>3, BlobTypes

\* One chat more has been fetched completely, up to its cut.
LEMMA FetchChatCompletes ==
    ASSUME Assumptions, IInv, FetchChat
    PROVE  FetchComplete' /\ cuts' \subseteq MonthStarts /\ got' \subseteq Messages
<1>0. UNCHANGED <<server, current, left, pc, states, late, existing>> /\ current # None
  BY DEF FetchChat, outside, history
<1> DEFINE cursor == states[current].cursor
           budget == Greatest({1, IF spent + Cardinality(got) < Budget
                                  THEN Budget - spent - Cardinality(got) ELSE 1})
           All(c) == FromCursor(c, cursor)
           Part(c) == Oldest(All(c), Pages(All(c), budget) * PageSize)
<1>1. PICK c \in waiting :
         /\ waiting' = waiting \ {c}
         /\ got' = got \cup Part(c)
         /\ cuts' = IF IsShort(All(c), Pages(All(c), budget)) THEN cuts
              ELSE cuts \cup {CutOf(Part(c))}
  BY DEF FetchChat
<1> DEFINE all == All(c)
           part == Part(c)
           short == IsShort(all, Pages(all, budget))
<1>2. /\ current \in left /\ waiting \subseteq ChatsOf[current]
      /\ got \subseteq {m \in OfThread(server, current) : cursor <= Date[m]}
      /\ cuts \subseteq {MonthStart(Date[n]) : n \in got}
      /\ \A m \in OfThread(server, current) \ got :
            \/ Date[m] < cursor \/ ChatOf[m] \in waiting
            \/ m \in late /\ m \notin Shown(existing, PathOf(current, m))
            \/ \E x \in cuts : x <= Date[m]
  BY <1>0 DEF IInv, FetchComplete
<1>3. \A m : m \in all <=> m \in server /\ ChatOf[m] = c /\ Date[m] >= cursor
  BY DEF FromCursor
<1>4. server \subseteq Messages /\ all \in SUBSET Messages
  BY <1>3 DEF IInv, TypeOK
<1>5. /\ part \subseteq all
      /\ short => part = all
      /\ ~short => /\ \E n \in part : CutOf(part) = MonthStart(Date[n])
                   /\ \A m \in all \ part : CutOf(part) <= Date[m]
  <2> HIDE DEF All, budget
  <2> QED
    BY <1>4, FetchBrings
<1>6. cursor \in Nat /\ \A m \in Messages : Date[m] \in Nat
  BY <1>0, CurrentIs, DateTypes
<1>7. waiting' = waiting \ {c} /\ got' = got \cup part
      /\ cuts' = IF short THEN cuts ELSE cuts \cup {CutOf(part)}
  BY <1>1
<1> HIDE DEF All, Part, budget, cursor, all, part, short
<1>8. ASSUME NEW m \in part
      PROVE  m \in OfThread(server, current) /\ cursor <= Date[m]
  <2>1. m \in server /\ ChatOf[m] \in ChatsOf[current] /\ Date[m] >= cursor /\ m \in Messages
    BY <1>2, <1>3, <1>4, <1>5
  <2> QED
    BY <2>1, <1>6 DEF OfThread
<1>9. got' \subseteq {m \in OfThread(server, current) : cursor <= Date[m]}
  BY <1>2, <1>7, <1>8
<1>10. cuts' \subseteq {MonthStart(Date[n]) : n \in got'}
  BY <1>2, <1>5, <1>7
<1>11. ASSUME NEW m \in OfThread(server, current) \ got'
       PROVE  \/ Date[m] < cursor \/ ChatOf[m] \in waiting'
              \/ m \in late /\ m \notin Shown(existing, PathOf(current, m))
              \/ \E x \in cuts' : x <= Date[m]
  <2>1. m \in server /\ m \in Messages /\ m \notin got /\ m \notin part
    BY <1>4, <1>7, <1>11 DEF OfThread
  <2>2. CASE ChatOf[m] = c /\ ~(Date[m] < cursor)
    <3>1. m \in all
      BY <1>3, <1>6, <2>1, <2>2
    <3>2. ~short /\ CutOf(part) <= Date[m]
      BY <1>5, <2>1, <3>1
    <3> QED
      BY <1>7, <3>2
  <2>3. CASE ChatOf[m] # c
    <3>1. \/ Date[m] < cursor \/ ChatOf[m] \in waiting
          \/ m \in late /\ m \notin Shown(existing, PathOf(current, m))
          \/ \E x \in cuts : x <= Date[m]
      BY <1>2, <1>11, <2>1
    <3>2. cuts \subseteq cuts' /\ (ChatOf[m] \in waiting => ChatOf[m] \in waiting')
      BY <1>7, <2>3
    <3> QED
      BY <3>1, <3>2
  <2> QED
    BY <2>2, <2>3
<1>12. FetchComplete'
  <2>1. states'[current'].cursor = cursor /\ left' # {} /\ pc' = "threads"
    BY <1>0, <1>2, CurrentIs DEF cursor
  <2>2. waiting' \subseteq ChatsOf[current]
    BY <1>2, <1>7
  <2> QED
    BY <1>0, <1>2, <1>9, <1>10, <1>11, <2>1, <2>2 DEF FetchComplete
<1>13. got' \subseteq Messages
  BY <1>4, <1>9 DEF OfThread
<1>14. cuts' \subseteq MonthStarts
  BY <1>10, <1>13, DateTypes
<1> QED
  BY <1>12, <1>13, <1>14

LEMMA FetchChatSteps ==
    ASSUME Assumptions, IInv, FetchChat
    PROVE  IInv'
<1> USE DEF outside, history
<1>1. UNCHANGED <<outside, folder, pc, selected, states, newest, existing, left,
                  current, spent, pending, events, history>> /\ waiting' \subseteq waiting
  BY DEF FetchChat
<1>2. FetchComplete' /\ cuts' \subseteq MonthStarts /\ got' \subseteq Messages
  BY FetchChatCompletes
<1>3. TypeOK'
  BY <1>1, <1>2 DEF IInv, TypeOK
<1>4. NothingSkipped' /\ NotesTrue'
  BY <1>1 DEF IInv, NothingSkipped, NotesTrue, Entries
<1>5. CursorsReached'
  BY <1>1 DEF IInv, CursorsReached, IsReached, Entries
<1>6. PendingSound' /\ FolderListed'
  BY <1>1 DEF IInv, PendingSound, FolderListed, IsWhole, Entries
<1>7. CursorsSound'
  BY <1>1 DEF IInv, CursorsSound
<1> QED
  BY <1>2, <1>3, <1>4, <1>5, <1>6, <1>7 DEF IInv

\* Where the thread is cut.
LEMMA CutIs ==
    ASSUME Assumptions, IInv
    PROVE  /\ \A x \in cuts : x \in Nat /\ x \in MonthStarts
           /\ cuts # {} => Cutoff \in cuts /\ \A x \in cuts : Cutoff <= x
<1>1. \A x \in cuts : x \in Nat /\ x \in MonthStarts
  BY CursorOrder DEF IInv, TypeOK
<1>2. cuts # {} => Least(cuts) \in cuts /\ \A x \in cuts : Least(cuts) <= x
  BY <1>1, LeastOf
<1> QED
  BY <1>1, <1>2 DEF Cutoff

\* What is rendered is of a month in range.
LEMMA KeptIs ==
    ASSUME Assumptions, IInv, current # None, NEW m \in Kept
    PROVE  /\ m \in got /\ m \in OfThread(server, current) /\ m \in OfThread(Messages, current)
           /\ PathOf(current, m) \in NotePaths /\ PathOf(current, m)[1] = current
           /\ m \in Of(server, PathOf(current, m)) /\ InRange(PathOf(current, m)[2])
<1> DEFINE p == PathOf(current, m)
<1>1. /\ current \in Threads /\ states[current].cursor \in MonthStarts
      /\ states[current].cursor \in Nat
  BY CurrentIs
<1>2. m \in OfThread(server, current) /\ states[current].cursor <= Date[m]
        /\ server \subseteq Messages
  BY DEF Kept, IInv, FetchComplete, TypeOK
<1>3. m \in OfThread(Messages, current) /\ m \in Messages /\ Date[m] \in Nat
  BY <1>2, DateTypes DEF OfThread
<1>4. p \in NotePaths /\ p[1] = current /\ p[2] = Month(Date[m])
  BY <1>1, <1>3, PathFacts
<1>5. m \in Of(server, p)
  BY <1>2, <1>4, OfIs
<1>6. Month(states[current].cursor) <= p[2]
  <2>1. ~(Date[m] < states[current].cursor)
    BY <1>1, <1>2, <1>3
  <2>2. ~(Month(Date[m]) < Month(states[current].cursor)) /\ Month(states[current].cursor) \in Nat
    BY <1>1, <1>3, <2>1, CursorOrder
  <2>3. Month(Date[m]) \in Nat
    BY <1>3, MonthBounds
  <2> QED
    BY <1>4, <2>2, <2>3
<1>7. cuts = {} \/ p[2] < Month(Cutoff)
  <2>1. SUFFICES ASSUME cuts # {}
                 PROVE  p[2] < Month(Cutoff)
    OBVIOUS
  <2>2. Cutoff \in MonthStarts
    BY <2>1, CutIs
  <2>3. Date[m] < Cutoff
    BY <2>1 DEF Kept
  <2> QED
    BY <1>3, <1>4, <2>2, <2>3, CursorOrder
<1> QED
  BY <1>2, <1>3, <1>4, <1>5, <1>6, <1>7 DEF InRange, Kept

\* A month in range is rendered whole: only what came late may be missing, and the
\* note did not show that before.
LEMMA RangeComplete ==
    ASSUME Assumptions, IInv, current # None, waiting = {},
           NEW p \in NotePaths, p[1] = current, InRange(p[2]), NEW m \in Of(server, p),
             m \notin Kept
    PROVE  m \in late /\ m \notin Shown(existing, p)
<1>1. /\ current \in Threads /\ states[current].cursor \in MonthStarts
      /\ states[current].cursor \in Nat
  BY CurrentIs
<1>2. /\ m \in OfThread(server, current) /\ PathOf(current, m) = p
      /\ Month(Date[m]) = p[2] /\ Date[m] \in Nat /\ Month(Date[m]) \in Nat
  BY OfIs, MonthBounds DEF IInv, TypeOK
<1>3. ~(Date[m] < states[current].cursor)
  <2>1. Month(states[current].cursor) \in Nat
        /\ (Date[m] < states[current].cursor => Month(Date[m]) < Month(states[current].cursor))
    BY <1>1, <1>2, CursorOrder
  <2>2. Month(states[current].cursor) <= Month(Date[m])
    BY <1>2 DEF InRange
  <2> QED
    BY <1>2, <2>1, <2>2
<1>4. cuts = {} \/ Date[m] < Cutoff
  <2>1. SUFFICES ASSUME cuts # {}
                 PROVE  Date[m] < Cutoff
    OBVIOUS
  <2>2. Cutoff \in MonthStarts
    BY <2>1, CutIs
  <2>3. Month(Date[m]) < Month(Cutoff)
    BY <1>2, <2>1 DEF InRange
  <2> QED
    BY <1>2, <2>2, <2>3, CursorOrder
<1>5. m \notin got
  BY <1>4 DEF Kept
<1>6. \A x \in cuts : ~(x <= Date[m])
  <2> TAKE x \in cuts
  <2>1. x \in Nat /\ Cutoff \in Nat /\ Cutoff <= x
    BY CutIs
  <2> QED
    BY <1>2, <1>4, <2>1
<1> QED
  BY <1>2, <1>3, <1>5, <1>6 DEF IInv, FetchComplete

\* Where the thread goes on: what its cursor passes has been fetched, if it had not
\* passed it before.
LEMMA StateAfterIs ==
    ASSUME Assumptions, IInv, current # None, waiting = {}
    PROVE  LET st == StateAfter(states[current])
           IN  /\ st \in State /\ st # Absent
               /\ st.cursor = 0 \/ \E n \in OfThread(server, current) : st.cursor <= Date[n]
               /\ \A m \in OfThread(server \ late, current) :
                     Date[m] < st.cursor => Date[m] < states[current].cursor \/ m \in Kept
<1> DEFINE begun == states[current]
           st == StateAfter(begun)
           last == Greatest(DatesOf(got))
<1>1. current \in Threads /\ begun \in State /\ begun.cursor \in MonthStarts
        /\ begun.cursor \in Nat
  BY CurrentIs
<1>2. /\ got \subseteq {m \in OfThread(server, current) : begun.cursor <= Date[m]}
      /\ cuts \subseteq {MonthStart(Date[n]) : n \in got}
      /\ \A m \in OfThread(server, current) \ got :
            Date[m] < begun.cursor \/ m \in late \/ \E x \in cuts : x <= Date[m]
      /\ got \in SUBSET Messages /\ server \subseteq Messages
  BY DEF IInv, FetchComplete, TypeOK
<1>3. \A m \in OfThread(server, current) : m \in Messages /\ Date[m] \in Nat
  BY <1>2, DateTypes DEF OfThread
<1>4. begun.cursor = 0 \/ \E n \in OfThread(server, current) : begun.cursor <= Date[n]
  BY <1>1, BlobTypes DEF IInv, CursorsReached, IsReached
<1>5. Greatest({begun.last} \cup DatesOf(got)) \in Dates
  BY <1>1, <1>2, BlobTypes, LatestDate
<1>6. CASE cuts # {}
  <2>1. Cutoff \in MonthStarts /\ Cutoff \in Nat /\ Cutoff \in cuts
          /\ \A x \in cuts : Cutoff <= x /\ x \in Nat
    BY <1>6, CutIs
  <2>2. st = [begun EXCEPT !.cursor = Cutoff, !.pending = TRUE]
    BY <1>6 DEF StateAfter
  <2>3. st \in State /\ st.cursor = Cutoff
    BY <1>1, <2>1, <2>2 DEF State
  <2>4. \E n \in OfThread(server, current) : Cutoff <= Date[n]
    <3>1. PICK n \in got : Cutoff = MonthStart(Date[n])
      BY <1>2, <2>1
    <3>2. n \in OfThread(server, current) /\ MonthStart(Date[n]) <= Date[n]
      BY <1>2, <1>3, DateTypes
    <3> QED
      BY <3>1, <3>2
  <2>5. ASSUME NEW m \in OfThread(server \ late, current), Date[m] < Cutoff,
               ~(Date[m] < begun.cursor)
        PROVE  m \in Kept
    <3>1. m \in OfThread(server, current) /\ m \notin late /\ Date[m] \in Nat
      BY <1>3 DEF OfThread
    <3>2. \A x \in cuts : ~(x <= Date[m])
      BY <2>1, <2>5, <3>1
    <3>3. m \in got
      BY <1>2, <2>5, <3>1, <3>2
    <3> QED
      BY <2>5, <3>3 DEF Kept
  <2> HIDE DEF st, begun
  <2> QED
    BY <2>3, <2>4, <2>5, BlobTypes DEF st, begun
<1>7. CASE cuts = {} /\ got = {}
  <2>1. st = [begun EXCEPT !.last = Greatest({@} \cup DatesOf(got)), !.cursor = @,
          !.pending = FALSE]
    BY <1>7 DEF StateAfter
  <2>2. st \in State /\ st.cursor = begun.cursor
    BY <1>1, <1>5, <2>1 DEF State
  <2> HIDE DEF st, begun
  <2> QED
    BY <1>4, <2>2, BlobTypes DEF st, begun
<1>8. CASE cuts = {} /\ got # {}
  <2>1. st = [begun EXCEPT !.last = Greatest({@} \cup DatesOf(got)), !.cursor = MonthStart(last),
                         !.pending = FALSE]
    BY <1>8 DEF StateAfter
  <2>2. PICK n \in got : last = Date[n]
    BY <1>2, <1>8, LastDate
  <2>3. n \in OfThread(server, current) /\ MonthStart(last) \in MonthStarts
          /\ MonthStart(last) <= Date[n]
    BY <1>2, <1>3, <2>2, DateTypes
  <2> HIDE DEF last
  <2>4. st \in State /\ st.cursor = MonthStart(last)
    BY <1>1, <1>5, <2>1, <2>3 DEF State
  <2>5. ASSUME NEW m \in OfThread(server \ late, current), ~(Date[m] < begun.cursor)
        PROVE  m \in Kept
    <3>1. m \in OfThread(server, current) /\ m \notin late
      BY DEF OfThread
    <3>2. m \in got
      BY <1>2, <1>8, <2>5, <3>1
    <3> QED
      BY <1>8, <3>2 DEF Kept
  <2> HIDE DEF st, begun
  <2> QED
    BY <2>3, <2>4, <2>5, BlobTypes DEF st, begun
<1> QED
  BY <1>6, <1>7, <1>8

\* The notes of the thread, and what will be made of them.
KeptIn(p) == {m \in Kept : PathOf(current, m) = p}

Rendered ==
    [p \in Paths |-> IF p \in NotePaths /\ p[1] = current /\ KeptIn(p) # {}
                     THEN [messages |-> KeptIn(p), sig |-> states[current].sig] ELSE Absent]

RenderOps ==
    Diff(Rendered, existing, Paths \ {p \in NotePaths : p[1] = current /\ InRange(p[2])})

\* A rendered note is a note; a month without messages has none.
LEMMA RenderedIs ==
    ASSUME Assumptions, IInv, current # None, NEW p \in Paths
    PROVE  /\ Rendered[p] \in Note \cup {Absent}
           /\ MessagesIn(Rendered[p]) \subseteq KeptIn(p)
           /\ p \in NotePaths /\ p[1] = current => MessagesIn(Rendered[p]) = KeptIn(p)
           /\ Rendered[p] # Absent =>
                 p \in NotePaths /\ p[1] = current /\ InRange(p[2]) /\ KeptIn(p) # {}
<1> DEFINE note == [messages |-> KeptIn(p), sig |-> states[current].sig]
<1>1. Rendered[p] = IF p \in NotePaths /\ p[1] = current /\ KeptIn(p) # {} THEN note ELSE Absent
  BY DEF Rendered
<1>2. note \in Note
  <2>1. KeptIn(p) \in SUBSET Messages
    BY KeptIs DEF KeptIn, OfThread
  <2>2. states[current].sig \in Sigs
    BY CurrentIs, BlobTypes
  <2> QED
    BY <2>1, <2>2 DEF Note
<1>3. note # Absent /\ MessagesIn(note) = KeptIn(p) /\ MessagesIn(Absent) = {}
  BY <1>2, BlobTypes
<1>4. ASSUME p \in NotePaths, p[1] = current, KeptIn(p) # {}
      PROVE  InRange(p[2])
  <2>1. PICK m \in Kept : PathOf(current, m) = p
    BY <1>4 DEF KeptIn
  <2> QED
    BY <2>1, KeptIs
<1> HIDE DEF note
<1> QED
  BY <1>1, <1>2, <1>3, <1>4

\* What rendering adds to the operations.
LEMMA RenderOpsSound ==
    ASSUME Assumptions, IInv, current # None, waiting = {}, NEW c \in RenderOps
    PROVE  /\ c.path \in NotePaths /\ c.path[1] = current /\ c.from = existing[c.path]
           /\ c.to \in Note \cup {Absent} /\ MessagesIn(c.to) \subseteq Of(server, c.path)
           /\ Shown(existing, c.path) \subseteq MessagesIn(c.to)
           /\ Of(server \ late, c.path) \subseteq MessagesIn(c.to)
<1> DEFINE keep == Paths \ {p \in NotePaths : p[1] = current /\ InRange(p[2])}
           p == c.path
<1>1. DOMAIN existing = Paths
  BY DEF IInv, TypeOK, IsFolder
<1>2. c \in Diff(Rendered, existing, keep)
  BY DEF RenderOps
<1>3. /\ p \in Paths /\ c.from = existing[p] /\ c.to = Rendered[p]
      /\ c.to = Absent => p \notin keep
  BY <1>1, <1>2, DiffIs
<1>4. p \in NotePaths /\ p[1] = current /\ InRange(p[2])
  BY <1>3, RenderedIs
<1>5. c.to \in Note \cup {Absent} /\ MessagesIn(c.to) = KeptIn(p)
  BY <1>3, <1>4, RenderedIs
<1> HIDE DEF p
<1>6. KeptIn(p) \subseteq Of(server, p)
  BY KeptIs DEF KeptIn
<1>7. \A m \in Of(server, p) \ KeptIn(p) : m \in late /\ m \notin Shown(existing, p)
  <2> TAKE m \in Of(server, p) \ KeptIn(p)
  <2>1. PathOf(current, m) = p
    BY <1>4, OfIs DEF IInv, TypeOK
  <2>2. m \notin Kept
    BY <2>1 DEF KeptIn
  <2> QED
    BY <1>4, <2>2, RangeComplete
<1>8. Shown(existing, p) \subseteq Of(server, p)
  BY <1>4 DEF IInv, NotesTrue
<1>9. \A m \in Of(server \ late, p) : m \in Of(server, p) /\ m \notin late
  BY DEF Of, OfThread
<1> QED
  BY <1>3, <1>4, <1>5, <1>6, <1>7, <1>8, <1>9 DEF p

\* What is rendered is shown already, or will be written.
LEMMA RenderOpsCover ==
    ASSUME Assumptions, IInv, current # None, NEW m \in Kept
    PROVE  LET p == PathOf(current, m)
           IN  \/ p \in damaged \/ m \in Shown(folder, p)
               \/ \E c \in RenderOps : c.path = p
<1> DEFINE p == PathOf(current, m)
<1>1. p \in NotePaths /\ p[1] = current /\ p \in Paths
  BY KeptIs DEF Paths
<1>2. m \in KeptIn(p)
  BY DEF KeptIn
<1>3. Rendered[p] # Absent /\ m \in MessagesIn(Rendered[p])
  BY <1>1, <1>2, RenderedIs, BlobTypes
<1>4. CASE Rendered[p] = existing[p]
  <2>1. m \in Shown(existing, p)
    BY <1>3, <1>4 DEF Shown
  <2>2. p \in damaged \/ folder[p] = existing[p]
    BY <1>1, CurrentIs DEF IInv, FolderListed
  <2> HIDE DEF p
  <2> QED
    BY <2>1, <2>2 DEF Shown, p
<1>5. CASE Rendered[p] # existing[p]
  <2>1. DOMAIN existing = Paths
    BY DEF IInv, TypeOK, IsFolder
  <2> DEFINE keep == Paths \ {q \in NotePaths : q[1] = current /\ InRange(q[2])}
  <2>0. RenderOps = Diff(Rendered, existing, keep)
    BY DEF RenderOps
  <2> HIDE DEF p, keep
  <2>2. \E c \in RenderOps : c.path = p
    BY <1>1, <1>3, <1>5, <2>0, <2>1, DiffIs
  <2> QED
    BY <2>2 DEF p
<1> QED
  BY <1>4, <1>5

LEMMA RenderThreadSteps ==
    ASSUME Assumptions, IInv, RenderThread
    PROVE  IInv'
<1> USE DEF outside, history
<1> DEFINE st == StateAfter(states[current])
<1>1. /\ UNCHANGED <<outside, folder, pc, selected, newest, existing, events, history>>
      /\ pc = "threads" /\ current # None /\ waiting = {}
      /\ pending' = pending \cup RenderOps
      /\ states' = [states EXCEPT ![current] = st] /\ left' = left \ {current}
      /\ spent' = spent + Cardinality(got)
      /\ current' = None /\ waiting' = {} /\ got' = {} /\ cuts' = {}
  BY DEF RenderThread, RenderOps, Rendered, KeptIn
<1>2. /\ current \in left /\ current \in selected /\ current \in Threads
      /\ states[current] \in State
  BY <1>1, CurrentIs
<1>3. /\ st \in State /\ st # Absent
      /\ st.cursor = 0 \/ \E n \in OfThread(server, current) : st.cursor <= Date[n]
      /\ \A m \in OfThread(server \ late, current) :
            Date[m] < st.cursor => Date[m] < states[current].cursor \/ m \in Kept
  BY <1>1, StateAfterIs
<1>4. /\ states' \in [Threads -> State \cup {Absent}] /\ states'[current] = st
      /\ \A t \in Threads : t # current => states'[t] = states[t]
  <2>1. states \in [Threads -> State \cup {Absent}]
    BY DEF IInv, TypeOK
  <2> HIDE DEF st
  <2> QED
    BY <1>1, <1>2, <1>3, <2>1
<1> HIDE DEF st
<1>5. TypeOK'
  <2>1. Cardinality(got) \in Nat
    BY SetTypes DEF IInv, TypeOK
  <2>2. \A c \in RenderOps : c.path \in Paths
    BY <1>1, RenderOpsSound DEF Paths
  <2> QED
    BY <1>1, <1>4, <2>1, <2>2 DEF IInv, TypeOK
<1>6. NothingSkipped' /\ NotesTrue'
  BY <1>1 DEF IInv, NothingSkipped, NotesTrue, Entries
<1>7. CursorsReached'
  <2>1. \A t \in Threads : IsReached(Entries[t], t) /\ IsReached(states[t], t)
    BY DEF IInv, CursorsReached
  <2>2. UNCHANGED <<server, folder>>
    BY <1>1
  <2> QED
    BY <1>3, <1>4, <2>1, <2>2 DEF CursorsReached, IsReached, Entries
<1>8. FolderListed' /\ FetchComplete'
  BY <1>1 DEF IInv, FolderListed, FetchComplete
<1>9. PendingSound'
  <2>1. \A c \in RenderOps :
           /\ c.path \in NotePaths /\ c.path[1] = current /\ c.from = existing[c.path]
           /\ c.to \in Note \cup {Absent} /\ MessagesIn(c.to) \subseteq Of(server, c.path)
           /\ Shown(existing, c.path) \subseteq MessagesIn(c.to)
           /\ Of(server \ late, c.path) \subseteq MessagesIn(c.to)
    BY <1>1, RenderOpsSound
  <2>2. \A c \in pending :
           /\ c.from = existing[c.path] /\ c.path \in NotePaths /\ c.to \in Note \cup {Absent}
           /\ MessagesIn(c.to) \subseteq Of(server, c.path) /\ IsWhole(c)
           /\ c.path[1] \in selected \ left
    BY <1>1 DEF IInv, PendingSound
  <2>3. \A c, d \in pending' : c.path = d.path => c = d
    <3>1. \A c, d \in RenderOps : c.path = d.path => c = d
      BY DiffIs DEF RenderOps, OnePerPath
    <3>2. \A c, d \in pending : c.path = d.path => c = d
      BY DEF IInv, PendingSound
    <3>3. \A c \in pending, d \in RenderOps : c.path # d.path
      BY <1>2, <2>1, <2>2
    <3> QED
      BY <1>1, <3>1, <3>2, <3>3
  <2>4. \A c \in RenderOps : IsWhole(c)'
    BY <1>1, <2>1 DEF IsWhole
  <2>5. \A c \in pending : IsWhole(c)'
    <3> SUFFICES ASSUME NEW c \in pending
                 PROVE  IsWhole(c)'
      OBVIOUS
    <3>1. c.path[1] \in Threads /\ states'[c.path[1]] = states[c.path[1]]
      BY <1>2, <1>4, <2>2 DEF IInv, TypeOK
    <3>2. IsWhole(c) /\ UNCHANGED <<selected, existing, server, late, folder>>
      BY <1>1, <2>2
    <3> QED
      BY <3>1, <3>2 DEF IsWhole, Entries
  <2> QED
    BY <1>1, <1>2, <2>1, <2>2, <2>3, <2>4, <2>5 DEF PendingSound
<1>10. CursorsSound'
  <2>1. selected' = {t \in Threads : states'[t] # Absent}
    <3>1. selected = {t \in Threads : states[t] # Absent}
      BY <1>1 DEF IInv, CursorsSound
    <3> QED
      BY <1>1, <1>2, <1>3, <1>4, <3>1
  <2>2. ASSUME NEW t \in Threads, states'[t] # Absent,
               NEW m \in OfThread(server \ late, t), Date[m] < states'[t].cursor
        PROVE  \/ PathOf(t, m) \in damaged \/ m \in Shown(folder, PathOf(t, m))
               \/ \E c \in pending' : c.path = PathOf(t, m)
    <3>1. CASE states[t] # Absent /\ Date[m] < states[t].cursor
      BY <1>1, <2>2, <3>1 DEF IInv, CursorsSound
    <3>2. CASE t = current /\ ~(Date[m] < states[current].cursor)
      <4>1. m \in Kept
        BY <1>3, <1>4, <2>2, <3>2
      <4> QED
        BY <1>1, <3>2, <4>1, RenderOpsCover
    <3>3. states[current] # Absent
      BY <1>2, BlobTypes
    <3> QED
      BY <1>4, <2>2, <3>1, <3>2, <3>3
  <2> QED
    BY <1>1, <2>1, <2>2 DEF CursorsSound
<1> QED
  BY <1>5, <1>6, <1>7, <1>8, <1>9, <1>10 DEF IInv

--------------------------------------------------------------------------------
(***************************************************************************)
(* The commits.                                                            *)
(***************************************************************************)
LEMMA DiffNotesSteps ==
    ASSUME Assumptions, IInv, DiffNotes
    PROVE  IInv'
<1> USE DEF outside, history, thread
<1> DEFINE keep == Paths \ {p \in NotePaths : p[1] \notin selected}
           ops == Diff(NoFiles, existing, keep)
<1>1. /\ UNCHANGED <<outside, folder, selected, states, newest, existing, left, thread, spent,
                     events, history>>
      /\ pc = "threads" /\ current = None /\ left = {} /\ pc' = "notes"
      /\ pending' = pending \cup ops
  BY DEF DiffNotes
<1>2. DOMAIN existing = Paths
  BY DEF IInv, TypeOK, IsFolder
<1> HIDE DEF keep
<1>3. \A c \in ops : /\ c.path \in Paths /\ c.from = existing[c.path] /\ c.to = Absent
                     /\ c.path \notin keep
  <2>1. \A p \in Paths : NoFiles[p] = Absent
    BY DEF NoFiles
  <2> QED
    BY <1>2, <2>1, DiffIs
<1>4. OnePerPath(ops)
  BY DiffIs
<1> HIDE DEF ops
<1>5. \A c \in ops : c.path \in NotePaths /\ c.path[1] \notin selected
  BY <1>3 DEF keep
<1>6. TypeOK'
  BY <1>1, <1>3 DEF IInv, TypeOK
<1>7. NothingSkipped' /\ NotesTrue'
  BY <1>1 DEF IInv, NothingSkipped, NotesTrue, Entries
<1>8. CursorsReached'
  BY <1>1 DEF IInv, CursorsReached, IsReached, Entries
<1>9. FolderListed' /\ FetchComplete'
  BY <1>1 DEF IInv, FolderListed, FetchComplete
<1>10. PendingSound'
  <2>1. \A c \in pending :
           /\ c.from = existing[c.path] /\ c.path \in NotePaths /\ c.to \in Note \cup {Absent}
           /\ MessagesIn(c.to) \subseteq Of(server, c.path) /\ IsWhole(c)
           /\ c.path[1] \in selected
    BY <1>1 DEF IInv, PendingSound
  <2>2. \A c, d \in pending' : c.path = d.path => c = d
    <3>1. \A c, d \in pending : c.path = d.path => c = d
      BY DEF IInv, PendingSound
    <3> QED
      BY <1>1, <1>4, <1>5, <2>1, <3>1 DEF OnePerPath
  <2>3. \A c \in pending : IsWhole(c)'
    BY <1>1, <2>1 DEF IsWhole, Entries
  <2>4. \A c \in ops : IsWhole(c)' /\ MessagesIn(c.to) \subseteq Of(server, c.path)
    BY <1>1, <1>3, <1>5, BlobTypes DEF IsWhole
  <2> QED
    BY <1>1, <1>3, <1>5, <2>1, <2>2, <2>3, <2>4 DEF PendingSound
<1>11. CursorsSound'
  BY <1>1 DEF IInv, CursorsSound
<1> QED
  BY <1>6, <1>7, <1>8, <1>9, <1>10, <1>11 DEF IInv

LEMMA DiffIndexSteps ==
    ASSUME Assumptions, IInv, DiffIndex
    PROVE  IInv'
<1> USE DEF outside, history, thread
<1> DEFINE wanted == [NoFiles EXCEPT ![IndexPath] = [threads |-> states]]
           ops == Diff(wanted, existing, NotePaths)
<1>1. /\ UNCHANGED <<outside, folder, selected, states, newest, existing, left, thread, spent,
                     events, history>>
      /\ pc = "notes" /\ pending = {} /\ pc' = "index" /\ pending' = ops
  BY DEF DiffIndex
<1>2. DOMAIN existing = Paths
  BY DEF IInv, TypeOK, IsFolder
<1>3. /\ \A p \in Paths : p # IndexPath => wanted[p] = Absent
      /\ wanted[IndexPath] = [threads |-> states]
  BY DEF NoFiles, Paths
<1> HIDE DEF wanted
<1>4. /\ \A c \in ops : /\ c.path \in Paths /\ c.from = existing[c.path]
                        /\ c.to = wanted[c.path]
                        /\ c.to = Absent => c.path \notin NotePaths
      /\ OnePerPath(ops)
  BY <1>2, DiffIs
<1> HIDE DEF ops
<1>5. \A c \in ops : c.path = IndexPath /\ c.to = [threads |-> states]
  BY <1>3, <1>4 DEF Paths
<1>6. TypeOK'
  BY <1>1, <1>4 DEF IInv, TypeOK
<1>7. NothingSkipped' /\ NotesTrue'
  BY <1>1 DEF IInv, NothingSkipped, NotesTrue, Entries
<1>8. CursorsReached'
  BY <1>1 DEF IInv, CursorsReached, IsReached, Entries
<1>9. FolderListed' /\ FetchComplete'
  BY <1>1 DEF IInv, FolderListed, FetchComplete
<1>10. PendingSound'
  BY <1>1, <1>4, <1>5 DEF PendingSound, OnePerPath
<1>11. CursorsSound'
  BY <1>1 DEF IInv, CursorsSound
<1> QED
  BY <1>6, <1>7, <1>8, <1>9, <1>10, <1>11 DEF IInv

\* A batch of notes lands.
LEMMA NotesLand ==
    ASSUME Assumptions, IInv, pc = "notes", NEW b \in SUBSET pending, Landed(b)
    PROVE  /\ IsFolder(folder') /\ folder'[IndexPath] = folder[IndexPath]
           /\ damaged' \subseteq NotePaths
           /\ \A p \in NotePaths : (\A c \in b : c.path # p) =>
                 folder'[p] = folder[p] /\ (p \in damaged' <=> p \in damaged)
           /\ \A c \in b : c.path \in NotePaths /\ folder'[c.path] = c.to
                 /\ (c.path[1] \notin selected => c.path \in damaged')
<1>1. /\ OnePerPath(b)
      /\ \A c \in b : c.path \in NotePaths /\ c.to \in Note \cup {Absent}
  BY DEF IInv, PendingSound, OnePerPath
<1>2. DOMAIN folder = Paths /\ folder' = Committed(folder, b)
  BY DEF IInv, TypeOK, IsFolder, Landed
<1>3. DOMAIN folder' = Paths
  BY <1>2 DEF Committed
<1>4. \A p \in Paths : (\A c \in b : c.path # p) => folder'[p] = folder[p]
  BY <1>1, <1>2, CommittedAt
<1>5. \A c \in b : folder'[c.path] = c.to
  <2> TAKE c \in b
  <2>1. c.path \in DOMAIN folder
    BY <1>1, <1>2 DEF Paths
  <2> QED
    BY <1>1, <1>2, <2>1, CommittedAt
<1>6. IndexPath \notin Written(b) /\ IndexPath \in Paths /\ \A p \in NotePaths : p \in Paths
  BY <1>1, NoteFacts DEF Written, Paths
<1>7. damaged' = (damaged \ Written(b)) \cup Unselected(b)
  BY <1>6 DEF Landed
<1>8. \A p : p \in Written(b) <=> \E c \in b : c.path = p
  BY DEF Written
<1>9. \A p : p \in Unselected(b) <=> p \in Written(b) /\ p # IndexPath /\ p[1] \notin selected
  BY DEF Unselected
<1>10. folder'[IndexPath] = folder[IndexPath]
  BY <1>4, <1>6, <1>8
<1>11. IsFolder(folder')
  <2>1. ASSUME NEW p \in NotePaths
        PROVE  folder'[p] \in Note \cup {Hand, Absent}
    <3>1. folder[p] \in Note \cup {Hand, Absent}
      BY DEF IInv, TypeOK, IsFolder
    <3> QED
      BY <1>1, <1>4, <1>5, <1>6, <3>1
  <2>2. folder[IndexPath] \in IndexFile \cup {Hand, Absent}
    BY DEF IInv, TypeOK, IsFolder
  <2> QED
    BY <1>3, <1>10, <2>1, <2>2 DEF IsFolder
<1>12. damaged' \subseteq NotePaths
  BY <1>1, <1>7, <1>8, <1>9 DEF IInv, TypeOK
<1> QED
  BY <1>1, <1>4, <1>5, <1>6, <1>7, <1>8, <1>9, <1>10, <1>11, <1>12

\* What a batch of notes leaves is sound: a note of a selected thread shows all that
\* the cursors have passed.
LEMMA NotesLandSound ==
    ASSUME Assumptions, IInv, pc = "notes", NEW b \in SUBSET pending, Landed(b),
           UNCHANGED <<server, late>>
    PROVE  /\ NothingSkipped'
           /\ \A p \in NotePaths : Shown(folder', p) \subseteq Of(server, p)
           /\ Entries' = Entries
           /\ \A t \in Threads : states[t] # Absent =>
                 \A m \in OfThread(server \ late, t) : Date[m] < states[t].cursor =>
                    \/ PathOf(t, m) \in damaged' \/ m \in Shown(folder', PathOf(t, m))
                    \/ \E c \in pending \ b : c.path = PathOf(t, m)
<1>1. /\ folder'[IndexPath] = folder[IndexPath]
      /\ \A p \in NotePaths : (\A c \in b : c.path # p) =>
            folder'[p] = folder[p] /\ (p \in damaged' <=> p \in damaged)
      /\ \A c \in b : c.path \in NotePaths /\ folder'[c.path] = c.to
            /\ (c.path[1] \notin selected => c.path \in damaged')
  BY NotesLand
<1>2. Entries' = Entries
  BY <1>1 DEF Entries
<1>3. \A c \in b : MessagesIn(c.to) \subseteq Of(server, c.path) /\ IsWhole(c)
  BY DEF IInv, PendingSound
<1>4. \A p \in NotePaths : Shown(folder', p) \subseteq Of(server, p)
  BY <1>1, <1>3 DEF IInv, NotesTrue, Shown
<1>5. ASSUME NEW t \in Threads, NEW m \in OfThread(server \ late, t),
             NEW st \in {Entries[t], states[t]}, st # Absent, Date[m] < st.cursor,
             NEW c \in b, c.path = PathOf(t, m), PathOf(t, m) \notin damaged'
      PROVE  m \in Shown(folder', PathOf(t, m))
  <2> DEFINE p == PathOf(t, m)
  <2>1. m \in OfThread(Messages, t) /\ server \ late \in SUBSET Messages
    BY DEF OfThread, IInv, TypeOK
  <2>2. p \in NotePaths /\ p[1] = t
    BY <2>1, PathFacts
  <2>3. m \in Of(server \ late, p)
    BY <2>1, <2>2, OfIs
  <2>4. p[1] \in selected /\ c.path = p
    BY <1>1, <1>5
  <2>5. Date[m] \in Nat /\ st.cursor \in Nat
    <3>1. st \in State \cup {Absent}
      BY EntriesType DEF IInv, TypeOK
    <3> QED
      BY <1>5, <2>1, <3>1, BlobTypes, DateTypes DEF OfThread
  <2>6. ~(st.cursor <= Date[m])
    BY <1>5, <2>5
  <2> HIDE DEF p
  <2>7. m \in MessagesIn(c.to)
    BY <1>3, <1>5, <2>2, <2>3, <2>4, <2>6 DEF IsWhole
  <2>8. folder'[p] = c.to
    BY <1>1, <2>4
  <2>9. m \in Shown(folder', p)
    BY <2>7, <2>8 DEF Shown
  <2> QED
    BY <2>9 DEF p
<1>6. ASSUME NEW t \in Threads, NEW m \in OfThread(server \ late, t),
             \A c \in b : c.path # PathOf(t, m)
      PROVE  /\ PathOf(t, m) \in damaged' <=> PathOf(t, m) \in damaged
             /\ Shown(folder', PathOf(t, m)) = Shown(folder, PathOf(t, m))
  <2>1. m \in OfThread(Messages, t)
    BY DEF OfThread, IInv, TypeOK
  <2>2. PathOf(t, m) \in NotePaths
    BY <2>1, PathFacts
  <2> QED
    BY <1>1, <1>6, <2>2 DEF Shown
<1>7. NothingSkipped'
  <2>1. \A t \in Threads : \A m \in OfThread(server \ late, t) :
           Entries[t] # Absent /\ Date[m] < Entries[t].cursor /\ PathOf(t, m) \notin damaged
           => m \in Shown(folder, PathOf(t, m))
    BY DEF IInv, NothingSkipped
  <2>2. ASSUME NEW t \in Threads, NEW m \in OfThread(server \ late, t),
               Entries[t] # Absent, Date[m] < Entries[t].cursor, PathOf(t, m) \notin damaged'
        PROVE  m \in Shown(folder', PathOf(t, m))
    <3>1. CASE \E c \in b : c.path = PathOf(t, m)
      BY <1>5, <2>2, <3>1
    <3>2. CASE \A c \in b : c.path # PathOf(t, m)
      BY <1>6, <2>1, <2>2, <3>2
    <3> QED
      BY <3>1, <3>2
  <2> QED
    BY <1>2, <2>2 DEF NothingSkipped
<1>8. ASSUME NEW t \in Threads, states[t] # Absent,
             NEW m \in OfThread(server \ late, t), Date[m] < states[t].cursor
      PROVE  \/ PathOf(t, m) \in damaged' \/ m \in Shown(folder', PathOf(t, m))
             \/ \E c \in pending \ b : c.path = PathOf(t, m)
  <2>1. \/ PathOf(t, m) \in damaged \/ m \in Shown(folder, PathOf(t, m))
        \/ \E c \in pending : c.path = PathOf(t, m)
    BY <1>8 DEF IInv, CursorsSound
  <2>2. CASE \E c \in b : c.path = PathOf(t, m)
    BY <1>5, <1>8, <2>2
  <2>3. CASE \A c \in b : c.path # PathOf(t, m)
    BY <1>6, <2>1, <2>3
  <2> QED
    BY <2>2, <2>3
<1> QED
  BY <1>2, <1>4, <1>7, <1>8

\* The index lands: the cursors of this run are the stored ones.
LEMMA IndexLands ==
    ASSUME Assumptions, IInv, pc = "index", NEW b \in SUBSET pending, b # {}, Landed(b),
           UNCHANGED <<server, late>>
    PROVE  /\ IsFolder(folder') /\ \A p \in NotePaths : folder'[p] = folder[p]
           /\ damaged' = {p \in damaged : p[1] \in selected}
           /\ NothingSkipped' /\ Entries' = states
<1>1. /\ OnePerPath(b)
      /\ \A c \in pending : c.path = IndexPath /\ c.to = [threads |-> states]
  BY DEF IInv, PendingSound, OnePerPath
<1>2. DOMAIN folder = Paths /\ folder' = Committed(folder, b)
  BY DEF IInv, TypeOK, IsFolder, Landed
<1>3. DOMAIN folder' = Paths
  BY <1>2 DEF Committed
<1>4. PICK c \in b : c.path = IndexPath /\ c.to = [threads |-> states]
  BY <1>1
<1>5. IndexPath \in Paths /\ \A p \in NotePaths : p \in Paths /\ p # IndexPath
  BY NoteFacts DEF Paths
<1>6. folder'[IndexPath] = [threads |-> states]
  BY <1>1, <1>2, <1>4, <1>5, CommittedAt
<1>7. \A p \in NotePaths : folder'[p] = folder[p]
  <2> TAKE p \in NotePaths
  <2>1. \A d \in b : d.path # p
    BY <1>1, <1>5
  <2> QED
    BY <1>1, <1>2, <1>5, <2>1, CommittedAt
<1>8. [threads |-> states] \in IndexFile
  BY DEF IndexFile, IInv, TypeOK
<1>9. Entries' = states
  BY <1>6, <1>8, BlobTypes DEF Entries
<1>10. IsFolder(folder')
  BY <1>3, <1>6, <1>7, <1>8 DEF IsFolder, IInv, TypeOK
<1>11. damaged' = {p \in damaged : p[1] \in selected}
  BY <1>4 DEF Landed, Written
<1>12. NothingSkipped'
  <2>1. ASSUME NEW t \in Threads, NEW m \in OfThread(server \ late, t),
               states[t] # Absent, Date[m] < states[t].cursor, PathOf(t, m) \notin damaged'
        PROVE  m \in Shown(folder', PathOf(t, m))
    <3>1. m \in OfThread(Messages, t)
      BY DEF OfThread, IInv, TypeOK
    <3>2. PathOf(t, m) \in NotePaths /\ PathOf(t, m)[1] = t
      BY <3>1, PathFacts
    <3>3. t \in selected
      BY <2>1 DEF IInv, CursorsSound
    <3>4. PathOf(t, m) \notin damaged
      BY <1>11, <2>1, <3>2, <3>3
    <3>5. ~\E d \in pending : d.path = PathOf(t, m)
      BY <1>1, <1>5, <3>2
    <3>6. m \in Shown(folder, PathOf(t, m))
      BY <2>1, <3>4, <3>5 DEF IInv, CursorsSound
    <3> QED
      BY <1>7, <3>2, <3>6 DEF Shown
  <2> QED
    BY <1>9, <2>1 DEF NothingSkipped
<1> QED
  BY <1>7, <1>9, <1>10, <1>11, <1>12

\* What the next batch is.
LEMMA BatchIs ==
    ASSUME NEW b \in Batches(pending, {})
    PROVE  b \in SUBSET pending /\ b # {}
BY DEF Batches

LEMMA PostBatchSteps ==
    ASSUME Assumptions, IInv, PostBatch
    PROVE  IInv'
<1> USE DEF outside, history, thread
<1>1. PICK b \in SUBSET pending : b # {} /\ Landed(b) /\ pending' = pending \ b
  BY BatchIs DEF PostBatch
<1>2. /\ UNCHANGED <<outside, pc, selected, states, newest, existing, left, thread, spent,
                     events, late>>
      /\ pc \in {"notes", "index"}
  BY DEF PostBatch
<1>3. FolderListed' /\ FetchComplete'
  BY <1>2 DEF IInv, FolderListed, FetchComplete
<1>4. CASE pc = "notes"
  <2>1. /\ IsFolder(folder') /\ damaged' \subseteq NotePaths
    BY <1>1, <1>4, NotesLand
  <2>2. /\ NothingSkipped'
        /\ \A p \in NotePaths : Shown(folder', p) \subseteq Of(server, p)
        /\ Entries' = Entries
        /\ \A t \in Threads : states[t] # Absent =>
              \A m \in OfThread(server \ late, t) : Date[m] < states[t].cursor =>
                 \/ PathOf(t, m) \in damaged' \/ m \in Shown(folder', PathOf(t, m))
                 \/ \E c \in pending \ b : c.path = PathOf(t, m)
    BY <1>1, <1>2, <1>4, NotesLandSound
  <2>3. TypeOK'
    BY <1>1, <1>2, <2>1 DEF IInv, TypeOK
  <2>4. NotesTrue'
    BY <1>2, <2>2 DEF IInv, NotesTrue
  <2>5. CursorsReached'
    BY <1>2, <2>2 DEF IInv, CursorsReached, IsReached
  <2>6. PendingSound'
    <3>1. \A c \in pending : IsWhole(c) => IsWhole(c)'
      BY <1>2, <2>2 DEF IsWhole
    <3> QED
      BY <1>1, <1>2, <1>4, <3>1 DEF IInv, PendingSound
  <2>7. CursorsSound'
    <3>1. pc' = pc /\ selected = {t \in Threads : states[t] # Absent}
      BY <1>2, <1>4 DEF IInv, CursorsSound
    <3> QED
      BY <1>1, <1>2, <2>2, <3>1 DEF CursorsSound
  <2> QED
    BY <1>3, <2>2, <2>3, <2>4, <2>5, <2>6, <2>7 DEF IInv
<1>5. CASE pc = "index"
  <2>1. /\ IsFolder(folder') /\ \A p \in NotePaths : folder'[p] = folder[p]
        /\ damaged' = {p \in damaged : p[1] \in selected}
        /\ NothingSkipped' /\ Entries' = states
    BY <1>1, <1>2, <1>5, IndexLands
  <2>2. TypeOK'
    BY <1>1, <1>2, <2>1 DEF IInv, TypeOK
  <2>3. NotesTrue'
    BY <1>2, <2>1 DEF IInv, NotesTrue, Shown
  <2>4. CursorsReached'
    BY <1>2, <2>1 DEF IInv, CursorsReached, IsReached
  <2>5. PendingSound'
    BY <1>1, <1>2, <1>5 DEF IInv, PendingSound
  <2>6. CursorsSound'
    <3>1. pc' = pc /\ selected = {t \in Threads : states[t] # Absent}
      BY <1>2, <1>5 DEF IInv, CursorsSound
    <3>2. ASSUME NEW t \in Threads, states[t] # Absent,
                 NEW m \in OfThread(server \ late, t), Date[m] < states[t].cursor
          PROVE  PathOf(t, m) \in damaged' \/ m \in Shown(folder', PathOf(t, m))
      <4>1. /\ \/ PathOf(t, m) \in damaged \/ m \in Shown(folder, PathOf(t, m))
               \/ \E c \in pending : c.path = PathOf(t, m)
            /\ \A c \in pending : c.path = IndexPath
        BY <1>5, <3>2 DEF IInv, CursorsSound, PendingSound
      <4>2. m \in OfThread(Messages, t)
        BY DEF OfThread, IInv, TypeOK
      <4>3. PathOf(t, m) \in NotePaths /\ PathOf(t, m)[1] = t /\ PathOf(t, m) # IndexPath
        BY <4>2, PathFacts, NoteFacts
      <4>4. t \in selected
        BY <3>1, <3>2
      <4> QED
        BY <2>1, <4>1, <4>3, <4>4 DEF Shown
    <3> QED
      BY <1>2, <3>1, <3>2 DEF CursorsSound
  <2> QED
    BY <1>3, <2>1, <2>2, <2>3, <2>4, <2>5, <2>6 DEF IInv
<1> QED
  BY <1>2, <1>4, <1>5

LEMMA AnswerLostSteps ==
    ASSUME Assumptions, IInv, AnswerLost
    PROVE  IInv'
<1> USE DEF outside
<1>1. PICK b \in SUBSET pending : b # {} /\ Landed(b)
  BY BatchIs DEF AnswerLost
<1>2. UNCHANGED <<outside, late>> /\ pc \in {"notes", "index"} /\ EndRun
        /\ events' \in 0 .. MaxEvents
  BY DEF AnswerLost, Event, IInv, TypeOK, Assumptions, BoundsAssumption
<1>3. PendingSound' /\ CursorsSound' /\ FolderListed' /\ FetchComplete'
  BY <1>2, EndSound
<1>4. /\ IsFolder(folder') /\ damaged' \subseteq NotePaths /\ NothingSkipped'
      /\ \A p \in NotePaths : Shown(folder', p) \subseteq Of(server, p)
      /\ \A t \in Threads : Entries'[t] \in {Entries[t], states[t]}
  <2>1. CASE pc = "notes"
    BY <1>1, <1>2, <2>1, NotesLand, NotesLandSound
  <2>2. CASE pc = "index"
    <3>1. /\ IsFolder(folder') /\ \A p \in NotePaths : folder'[p] = folder[p]
          /\ damaged' = {p \in damaged : p[1] \in selected}
          /\ NothingSkipped' /\ Entries' = states
      BY <1>1, <1>2, <2>2, IndexLands
    <3>2. damaged' \subseteq NotePaths
      BY <3>1 DEF IInv, TypeOK
    <3>3. \A p \in NotePaths : Shown(folder', p) \subseteq Of(server, p)
      BY <3>1 DEF IInv, NotesTrue, Shown
    <3> QED
      BY <3>1, <3>2, <3>3
  <2> QED
    BY <1>2, <2>1, <2>2
<1>5. TypeOK'
  <2>1. /\ server' \subseteq Messages /\ chosen' \subseteq Threads /\ sig' \in [Threads -> Sigs]
        /\ late' \subseteq Messages
    BY <1>2 DEF IInv, TypeOK
  <2> QED
    BY <1>2, <1>4, <2>1, EndTypes
<1>6. NotesTrue'
  <2>1. \A p \in NotePaths : Shown(NoFiles, p) = {}
    BY BlobTypes DEF Paths
  <2>2. existing' = NoFiles
    BY <1>2 DEF EndRun
  <2> QED
    BY <1>2, <1>4, <2>1, <2>2 DEF NotesTrue
<1>7. CursorsReached'
  <2>1. states' = NoStates /\ \A t \in Threads : NoStates[t] = Absent
    BY <1>2 DEF EndRun, NoStates
  <2>2. \A t \in Threads : IsReached(Entries[t], t) /\ IsReached(states[t], t)
    BY DEF IInv, CursorsReached
  <2> QED
    BY <1>2, <1>4, <2>1, <2>2 DEF CursorsReached, IsReached
<1> QED
  BY <1>3, <1>4, <1>5, <1>6, <1>7 DEF IInv

LEMMA PostDroppedSteps ==
    ASSUME Assumptions, IInv, PostDropped
    PROVE  IInv'
<1> USE DEF outside, history, thread
<1>1. PICK b \in SUBSET pending : pending' = pending \ b
                                  /\ damaged' = damaged \cup (Written(b) \ {IndexPath})
  BY BatchIs DEF PostDropped
<1>2. /\ UNCHANGED <<outside, folder, pc, selected, states, newest, existing, left, thread,
                     spent, events, late>>
      /\ pc \in {"notes", "index"}
  BY DEF PostDropped
<1>3. \A p : p \in Written(b) <=> \E c \in b : c.path = p
  BY DEF Written
<1>4. damaged' \subseteq NotePaths
  <2>1. \A c \in b : c.path \in NotePaths \cup {IndexPath}
    BY DEF IInv, TypeOK, Paths
  <2> QED
    BY <1>1, <1>3, <2>1 DEF IInv, TypeOK
<1>5. TypeOK'
  BY <1>1, <1>2, <1>4 DEF IInv, TypeOK
<1>6. NothingSkipped' /\ NotesTrue'
  BY <1>1, <1>2 DEF IInv, NothingSkipped, NotesTrue, Entries
<1>7. CursorsReached'
  BY <1>2 DEF IInv, CursorsReached, IsReached, Entries
<1>8. PendingSound'
  BY <1>1, <1>2 DEF IInv, PendingSound, IsWhole, Entries
<1>9. FolderListed' /\ FetchComplete'
  BY <1>2 DEF IInv, FolderListed, FetchComplete
<1>10. CursorsSound'
  <2>1. ASSUME NEW t \in Threads, states[t] # Absent,
               NEW m \in OfThread(server \ late, t), Date[m] < states[t].cursor
        PROVE  \/ PathOf(t, m) \in damaged' \/ m \in Shown(folder, PathOf(t, m))
               \/ \E c \in pending' : c.path = PathOf(t, m)
    <3>1. \/ PathOf(t, m) \in damaged \/ m \in Shown(folder, PathOf(t, m))
          \/ \E c \in pending : c.path = PathOf(t, m)
      BY <2>1 DEF IInv, CursorsSound
    <3>2. m \in OfThread(Messages, t)
      BY DEF OfThread, IInv, TypeOK
    <3>3. PathOf(t, m) # IndexPath
      BY <3>2, PathFacts, NoteFacts
    <3> QED
      BY <1>1, <1>3, <3>1, <3>3
  <2>2. pc' = pc /\ selected = {t \in Threads : states[t] # Absent}
    BY <1>2 DEF IInv, CursorsSound
  <2> QED
    BY <1>2, <2>1, <2>2 DEF CursorsSound
<1> QED
  BY <1>5, <1>6, <1>7, <1>8, <1>9, <1>10 DEF IInv

--------------------------------------------------------------------------------
(***************************************************************************)
(* The world.                                                              *)
(***************************************************************************)
LEMMA ListingPartialSteps ==
    ASSUME Assumptions, IInv, ListingPartial
    PROVE  IInv'
<1> USE DEF outside, history, thread
<1>1. pending = {} /\ current = None /\ left = {}
  BY NothingPending DEF ListingPartial
<1>2. /\ UNCHANGED <<outside, folder, pc, states, newest, existing, left, thread, spent, pending,
                     history>>
      /\ pc = "list" /\ selected' \subseteq selected /\ events' \in 0 .. MaxEvents
  BY DEF ListingPartial, Event, IInv, TypeOK, Assumptions, BoundsAssumption
<1>3. TypeOK'
  BY <1>1, <1>2 DEF IInv, TypeOK
<1>4. NothingSkipped' /\ NotesTrue'
  BY <1>2 DEF IInv, NothingSkipped, NotesTrue, Entries
<1>5. CursorsReached'
  BY <1>2 DEF IInv, CursorsReached, IsReached, Entries
<1>6. PendingSound' /\ FolderListed' /\ FetchComplete'
  BY <1>1, <1>2 DEF IInv, PendingSound, FolderListed, FetchComplete
<1>7. CursorsSound'
  BY <1>2 DEF IInv, CursorsSound
<1> QED
  BY <1>3, <1>4, <1>5, <1>6, <1>7 DEF IInv

\* Settings change.
LEMMA SettingsSteps ==
    ASSUME Assumptions, IInv, UNCHANGED <<server, folder, pc, local, history>>,
           chosen' \subseteq Threads, sig' \in [Threads -> Sigs], events' \in 0 .. MaxEvents
    PROVE  IInv'
<1> USE DEF local, thread, history
<1>1. TypeOK'
  BY DEF IInv, TypeOK
<1>2. NothingSkipped' /\ NotesTrue'
  BY DEF IInv, NothingSkipped, NotesTrue, Entries
<1>3. CursorsReached'
  BY DEF IInv, CursorsReached, IsReached, Entries
<1>4. PendingSound'
  BY DEF IInv, PendingSound, IsWhole, Entries
<1>5. FolderListed' /\ FetchComplete'
  BY DEF IInv, FolderListed, FetchComplete
<1>6. CursorsSound'
  BY DEF IInv, CursorsSound
<1> QED
  BY <1>1, <1>2, <1>3, <1>4, <1>5, <1>6 DEF IInv

\* A message is new: the cursors have not passed it, unless it is late; and while its
\* thread is fetched it is yet to come, or counts as late.
LEMMA ServerGrows ==
    ASSUME Assumptions, IInv, UNCHANGED <<chosen, sig, folder, pc, local, damaged>>,
           events' \in 0 .. MaxEvents,
           NEW m \in Messages \ server, server' = server \cup {m},
           late \subseteq late', late' \subseteq late \cup {m},
           m \in late' \/ \A n \in OfThread(server, ThreadOf(m)) : Date[n] < Date[m],
           m \in late' \/ current # ThreadOf(m) \/ ChatOf[m] \in waiting
    PROVE  IInv'
<1> USE DEF local, thread
<1>1. TypeOK'
  BY DEF IInv, TypeOK
<1>2. \A S : \A n \in OfThread(S \cup {m}, ThreadOf(m)) : n \in OfThread(S, ThreadOf(m)) \/ n = m
  BY DEF OfThread
<1>3. ASSUME NEW t \in Threads, NEW n \in OfThread(server' \ late', t)
      PROVE  \/ n \in OfThread(server \ late, t)
             \/ n = m /\ t = ThreadOf(m) /\ m \notin late'
  BY <1>3, ThreadIs DEF OfThread
<1>4. ASSUME m \notin late', NEW st \in {Entries[ThreadOf(m)], states[ThreadOf(m)]}, st # Absent
      PROVE  st.cursor <= Date[m] /\ ~(Date[m] < st.cursor)
  <2>1. ThreadOf(m) \in Threads
    BY ThreadIs
  <2>2. st.cursor = 0 \/ \E n \in OfThread(server, ThreadOf(m)) : st.cursor <= Date[n]
    BY <1>4, <2>1 DEF IInv, CursorsReached, IsReached
  <2>3. st \in State
    BY <1>4, <2>1, EntriesType DEF IInv, TypeOK
  <2>4. Date[m] \in Nat /\ st.cursor \in Nat
    BY <2>3, DateTypes, BlobTypes
  <2>5. \A n \in OfThread(server, ThreadOf(m)) : Date[n] \in Nat
    BY DateTypes DEF OfThread, IInv, TypeOK
  <2> QED
    BY <1>4, <2>2, <2>4, <2>5
<1>5. NothingSkipped'
  <2>1. ASSUME NEW t \in Threads, NEW n \in OfThread(server' \ late', t),
               Entries[t] # Absent, Date[n] < Entries[t].cursor, PathOf(t, n) \notin damaged
        PROVE  n \in Shown(folder, PathOf(t, n))
    BY <1>3, <1>4, <2>1 DEF IInv, NothingSkipped
  <2> QED
    BY <2>1 DEF NothingSkipped, Entries
<1>6. \A p \in NotePaths : Of(server, p) \subseteq Of(server', p)
  BY DEF Of, OfThread
<1>7. NotesTrue'
  BY <1>6 DEF IInv, NotesTrue
<1>8. CursorsReached'
  <2>1. \A t \in Threads : OfThread(server, t) \subseteq OfThread(server', t)
    BY DEF OfThread
  <2>2. \A t \in Threads : IsReached(Entries[t], t) /\ IsReached(states[t], t)
    BY DEF IInv, CursorsReached
  <2> QED
    BY <2>1, <2>2 DEF CursorsReached, IsReached, Entries
<1>9. PendingSound'
  <2>1. ASSUME NEW c \in pending, pc # "index"
        PROVE  IsWhole(c)' /\ MessagesIn(c.to) \subseteq Of(server', c.path)
    <3>1. IsWhole(c) /\ MessagesIn(c.to) \subseteq Of(server, c.path) /\ c.path \in NotePaths
      BY <2>1 DEF IInv, PendingSound
    <3>2. c.path[1] \in Threads
      BY <3>1, NoteFacts
    <3>3. \A n \in Of(server' \ late', c.path) :
             \/ n \in Of(server \ late, c.path)
             \/ n = m /\ c.path[1] = ThreadOf(m) /\ m \notin late'
      BY <1>3, <3>2 DEF Of
    <3>4. ASSUME c.path[1] \in selected, NEW n \in Of(server' \ late', c.path) \ MessagesIn(c.to),
                 NEW st \in {Entries[c.path[1]], states[c.path[1]]} \ {Absent}
          PROVE  st.cursor <= Date[n]
      BY <1>4, <3>1, <3>3, <3>4 DEF IsWhole
    <3>5. IsWhole(c)'
      <4>1. c.path[1] \in selected => Shown(existing, c.path) \subseteq MessagesIn(c.to)
        BY <3>1 DEF IsWhole
      <4>2. UNCHANGED <<selected, existing, states, folder>>
        OBVIOUS
      <4> QED
        BY <3>4, <4>1, <4>2 DEF IsWhole, Entries
    <3> QED
      BY <1>6, <3>1, <3>5
  <2>2. UNCHANGED <<pc, pending, existing, states, selected, left>>
    OBVIOUS
  <2> QED
    BY <2>1, <2>2 DEF IInv, PendingSound
<1>10. FolderListed'
  BY DEF IInv, FolderListed
<1>11. CursorsSound'
  <2>1. ASSUME NEW t \in Threads, states[t] # Absent,
               NEW n \in OfThread(server' \ late', t), Date[n] < states[t].cursor
        PROVE  \/ PathOf(t, n) \in damaged \/ n \in Shown(folder, PathOf(t, n))
               \/ \E c \in pending : c.path = PathOf(t, n)
    BY <1>3, <1>4, <2>1 DEF IInv, CursorsSound
  <2>2. UNCHANGED <<pc, selected, states, pending, folder, damaged>>
    OBVIOUS
  <2>3. pc \in {"threads", "notes", "index"} => selected = {t \in Threads : states[t] # Absent}
    BY DEF IInv, CursorsSound
  <2> QED
    BY <2>1, <2>2, <2>3 DEF CursorsSound
<1>12. FetchComplete'
  <2>1. CASE current = None
    BY <2>1 DEF IInv, FetchComplete
  <2>2. CASE current # None
    <3>1. current \in Threads /\ server \in SUBSET Messages
      BY <2>2, CurrentIs DEF IInv, TypeOK
    <3>2. OfThread(server, current) \subseteq OfThread(server', current)
      BY DEF OfThread
    <3>3. ASSUME NEW n \in OfThread(server', current) \ got
          PROVE  \/ Date[n] < states[current].cursor \/ ChatOf[n] \in waiting
                 \/ n \in late' /\ n \notin Shown(existing, PathOf(current, n))
                 \/ \E x \in cuts : x <= Date[n]
      <4>1. CASE n \in OfThread(server, current)
        BY <2>2, <3>3, <4>1 DEF IInv, FetchComplete
      <4>2. CASE n \notin OfThread(server, current)
        <5>1. n = m /\ m \in OfThread(Messages, current) /\ current = ThreadOf(m)
          BY <3>1, <4>2, ThreadIs DEF OfThread
        <5>2. PathOf(current, m) \in NotePaths
          BY <3>1, <5>1, PathFacts
        <5>3. m \notin Shown(existing, PathOf(current, m))
          BY <3>1, <5>2, OfIs DEF IInv, NotesTrue
        <5> QED
          BY <5>1, <5>3
      <4> QED
        BY <4>1, <4>2
    <3>4. UNCHANGED <<current, left, waiting, got, cuts, states, pc, existing>>
      OBVIOUS
    <3>5. /\ left # {} => pc = "threads"
          /\ current \in left /\ waiting \subseteq ChatsOf[current]
          /\ got \subseteq {n \in OfThread(server, current) : states[current].cursor <= Date[n]}
          /\ cuts \subseteq {MonthStart(Date[n]) : n \in got}
      BY <2>2 DEF IInv, FetchComplete
    <3>6. got \subseteq {n \in OfThread(server', current) : states[current].cursor <= Date[n]}
      BY <3>2, <3>5
    <3> QED
      BY <2>2, <3>3, <3>4, <3>5, <3>6 DEF FetchComplete
  <2> QED
    BY <2>1, <2>2
<1> QED
  BY <1>1, <1>5, <1>7, <1>8, <1>9, <1>10, <1>11, <1>12 DEF IInv

LEMMA EditByHandSteps ==
    ASSUME Assumptions, IInv, EditByHand
    PROVE  IInv'
<1> USE DEF outside, local, thread
<1>1. PICK q \in Editable : \E b \in {Hand, Absent} :
         /\ folder' = [folder EXCEPT ![q] = b]
         /\ damaged' = damaged \cup ({q} \ {IndexPath})
  BY DEF EditByHand
<1>2. PICK b \in {Hand, Absent} : folder' = [folder EXCEPT ![q] = b]
  BY <1>1
<1>3. UNCHANGED <<outside, pc, local, late>> /\ events' \in 0 .. MaxEvents
  BY DEF EditByHand, Event, IInv, TypeOK, Assumptions, BoundsAssumption
<1>4. q \in Paths /\ DOMAIN folder = Paths /\ IndexPath \in Paths
  BY DEF Assumptions, DistinctAssumption, IInv, TypeOK, IsFolder, Paths
<1>5. /\ DOMAIN folder' = Paths /\ folder'[q] = b
      /\ \A p \in Paths : p # q => folder'[p] = folder[p]
  BY <1>2, <1>4
<1>6. damaged \subseteq damaged' /\ (q # IndexPath => q \in damaged')
        /\ damaged' \subseteq NotePaths
  BY <1>1, <1>4 DEF IInv, TypeOK, Paths
<1>7. \A p \in NotePaths : p \in Paths /\ p # IndexPath
  BY NoteFacts
<1>8. IsFolder(folder')
  <2>1. IsFolder(folder)
    BY DEF IInv, TypeOK
  <2> QED
    BY <1>4, <1>5, <1>7, <2>1 DEF IsFolder
<1>9. MessagesIn(b) = {} /\ Loaded(b) = NoStates /\ \A t \in Threads : NoStates[t] = Absent
  BY BlobTypes DEF NoStates
<1>10. \A t \in Threads : Entries'[t] = Entries[t] \/ Entries'[t] = Absent
  <2>1. CASE q = IndexPath
    BY <1>5, <1>9, <2>1 DEF Entries
  <2>2. CASE q # IndexPath
    BY <1>4, <1>5, <2>2 DEF Entries
  <2> QED
    BY <2>1, <2>2
<1>11. \A p \in NotePaths : p \notin damaged' => folder'[p] = folder[p] /\ p \notin damaged
  BY <1>5, <1>6, <1>7
<1>12. ASSUME NEW t \in Threads, NEW m \in OfThread(server \ late, t)
       PROVE  PathOf(t, m) \in NotePaths
  <2>1. m \in OfThread(Messages, t)
    BY DEF OfThread, IInv, TypeOK
  <2> QED
    BY <2>1, PathFacts
<1>13. TypeOK'
  BY <1>3, <1>6, <1>8 DEF IInv, TypeOK
<1>14. NothingSkipped'
  <2>1. ASSUME NEW t \in Threads, NEW m \in OfThread(server \ late, t), Entries'[t] # Absent,
               Date[m] < Entries'[t].cursor, PathOf(t, m) \notin damaged'
        PROVE  m \in Shown(folder', PathOf(t, m))
    <3>1. Entries'[t] = Entries[t]
      BY <1>10, <2>1
    <3>2. PathOf(t, m) \notin damaged /\ folder'[PathOf(t, m)] = folder[PathOf(t, m)]
      BY <1>11, <1>12, <2>1
    <3> QED
      BY <2>1, <3>1, <3>2 DEF IInv, NothingSkipped, Shown
  <2> QED
    BY <1>3, <2>1 DEF NothingSkipped
<1>15. NotesTrue'
  <2>1. \A p \in NotePaths : Shown(folder', p) \subseteq Shown(folder, p)
    BY <1>5, <1>7, <1>9 DEF Shown
  <2> QED
    BY <1>3, <2>1 DEF IInv, NotesTrue
<1>16. CursorsReached'
  BY <1>3, <1>10 DEF IInv, CursorsReached, IsReached
<1>17. PendingSound'
  <2>1. \A c \in pending : pc # "index" => IsWhole(c)'
    <3> SUFFICES ASSUME NEW c \in pending, pc # "index"
                 PROVE  IsWhole(c)'
      OBVIOUS
    <3>1. IsWhole(c) /\ c.path \in NotePaths
      BY DEF IInv, PendingSound
    <3>2. c.path[1] \in Threads
      BY <3>1, NoteFacts
    <3>3. Entries'[c.path[1]] = Entries[c.path[1]] \/ Entries'[c.path[1]] = Absent
      BY <1>10, <3>2
    <3> QED
      BY <1>3, <3>1, <3>3 DEF IsWhole
  <2> QED
    BY <1>3, <2>1 DEF IInv, PendingSound
<1>18. FolderListed'
  BY <1>3, <1>11 DEF IInv, FolderListed
<1>19. CursorsSound'
  <2>1. ASSUME NEW t \in Threads, states[t] # Absent,
               NEW m \in OfThread(server \ late, t), Date[m] < states[t].cursor
        PROVE  \/ PathOf(t, m) \in damaged' \/ m \in Shown(folder', PathOf(t, m))
               \/ \E c \in pending : c.path = PathOf(t, m)
    <3>1. \/ PathOf(t, m) \in damaged \/ m \in Shown(folder, PathOf(t, m))
          \/ \E c \in pending : c.path = PathOf(t, m)
      BY <2>1 DEF IInv, CursorsSound
    <3> QED
      BY <1>11, <1>12, <3>1 DEF Shown
  <2>2. pc \in {"threads", "notes", "index"} => selected = {t \in Threads : states[t] # Absent}
    BY DEF IInv, CursorsSound
  <2> QED
    BY <1>3, <2>1, <2>2 DEF CursorsSound
<1>20. FetchComplete'
  BY <1>3 DEF IInv, FetchComplete
<1> QED
  BY <1>13, <1>14, <1>15, <1>16, <1>17, <1>18, <1>19, <1>20 DEF IInv

--------------------------------------------------------------------------------
(***************************************************************************)
(* The theorems.                                                           *)
(***************************************************************************)
LEMMA InitInv ==
    ASSUME Assumptions, Init
    PROVE  IInv
<1>1. /\ NoStates \in [Threads -> State \cup {Absent}] /\ NoDates \in [Chats -> Dates]
      /\ IsFolder(NoFiles) /\ \A p \in Paths : Shown(NoFiles, p) = {}
      /\ \A t \in Threads : NoStates[t] = Absent
      /\ IndexPath \in Paths /\ \A p \in NotePaths : p \in Paths
  BY BlobTypes DEF NoStates, Paths
<1>2. 0 \in Sigs /\ 0 \in 0 .. MaxEvents
  BY DEF Sigs, Assumptions, BoundsAssumption
<1>3. TypeOK
  BY <1>1, <1>2 DEF Init, TypeOK, Assumptions, MessagesAssumption
<1>4. Entries = NoStates
  BY <1>1, BlobTypes DEF Init, Entries, NoFiles
<1>5. NothingSkipped /\ NotesTrue /\ CursorsReached
  BY <1>1, <1>4 DEF Init, NothingSkipped, NotesTrue, CursorsReached, IsReached
<1>6. PendingSound /\ CursorsSound /\ FolderListed /\ FetchComplete
  BY <1>1 DEF Init, PendingSound, CursorsSound, FolderListed, FetchComplete
<1> QED
  BY <1>3, <1>5, <1>6 DEF IInv

LEMMA NextInv ==
    ASSUME Assumptions, IInv, [Next]_vars
    PROVE  IInv'
<1>0. events \in 0 .. MaxEvents /\ MaxEvents \in Nat /\ chosen \subseteq Threads
        /\ sig \in [Threads -> Sigs]
  BY DEF IInv, TypeOK, Assumptions, BoundsAssumption
<1>1. CASE Begin
  BY <1>1, BeginSteps
<1>2. CASE ListChats
  BY <1>2, ListChatsSteps
<1>3. CASE NoChats \/ PostRefused \/ Finish \/ RunFails
  <2>1. EndRun /\ UNCHANGED <<outside, folder, history>> /\ events' \in 0 .. MaxEvents
    BY <1>0, <1>3 DEF NoChats, PostRefused, Finish, RunFails, Event
  <2> QED
    BY <2>1, Ends
<1>4. CASE ListNotes
  BY <1>4, ListNotesSteps
<1>5. CASE SkipThread
  BY <1>5, SkipThreadSteps
<1>6. CASE StartThread
  BY <1>6, StartThreadSteps
<1>7. CASE FetchChat
  BY <1>7, FetchChatSteps
<1>8. CASE RenderThread
  BY <1>8, RenderThreadSteps
<1>9. CASE DiffNotes
  BY <1>9, DiffNotesSteps
<1>10. CASE DiffIndex
  BY <1>10, DiffIndexSteps
<1>11. CASE PostBatch
  BY <1>11, PostBatchSteps
<1>12. CASE PostDropped
  BY <1>12, PostDroppedSteps
<1>13. CASE AnswerLost
  BY <1>13, AnswerLostSteps
<1>14. CASE ListingPartial
  BY <1>14, ListingPartialSteps
<1>15. CASE MessageArrives
  <2>1. PICK m \in Messages \ server :
           /\ \A n \in OfThread(server, ThreadOf(m)) : Date[n] < Date[m]
           /\ server' = server \cup {m}
           /\ late' = IF current = ThreadOf(m) /\ ChatOf[m] \notin waiting
                      THEN late \cup {m} ELSE late
    BY <1>15 DEF MessageArrives
  <2>2. UNCHANGED <<chosen, sig, folder, pc, local, damaged>> /\ events' \in 0 .. MaxEvents
    BY <1>0, <1>15 DEF MessageArrives
  <2>3. /\ late \subseteq late' /\ late' \subseteq late \cup {m}
        /\ m \in late' \/ current # ThreadOf(m) \/ ChatOf[m] \in waiting
    BY <2>1
  <2> QED
    BY <2>1, <2>2, <2>3, ServerGrows
<1>16. CASE LateMessage
  <2>1. PICK m \in Messages \ server : server' = server \cup {m} /\ late' = late \cup {m}
    BY <1>16 DEF LateMessage
  <2>2. UNCHANGED <<chosen, sig, folder, pc, local, damaged>> /\ events' \in 0 .. MaxEvents
    BY <1>0, <1>16 DEF LateMessage, Event
  <2> QED
    BY <2>1, <2>2, ServerGrows
<1>17. CASE ChooseThreads
  <2>1. /\ UNCHANGED <<server, folder, pc, local, history>>
        /\ chosen' \subseteq Threads /\ sig' \in [Threads -> Sigs] /\ events' \in 0 .. MaxEvents
    BY <1>0, <1>17 DEF ChooseThreads, Event
  <2> QED
    BY <2>1, SettingsSteps
<1>18. CASE SigChanges
  <2>1. UNCHANGED <<server, folder, pc, local, history>> /\ chosen' \subseteq Threads
        /\ events' \in 0 .. MaxEvents
    BY <1>0, <1>18 DEF SigChanges, Event
  <2>2. sig' \in [Threads -> Sigs]
    <3>1. PICK t \in Threads : sig' = [sig EXCEPT ![t] = events']
      BY <1>18 DEF SigChanges
    <3> QED
      BY <1>0, <2>1, <3>1 DEF Sigs
  <2> QED
    BY <2>1, <2>2, SettingsSteps
<1>19. CASE EditByHand
  BY <1>19, EditByHandSteps
<1>20. CASE UNCHANGED vars
  <2>1. UNCHANGED <<server, folder, pc, local, history, chosen, sig, events>>
    BY <1>20 DEF vars, outside
  <2> QED
    BY <1>0, <2>1, SettingsSteps
<1> QED
  BY <1>1, <1>2, <1>3, <1>4, <1>5, <1>6, <1>7, <1>8, <1>9, <1>10, <1>11, <1>12, <1>13,
     <1>14, <1>15, <1>16, <1>17, <1>18, <1>19, <1>20 DEF Next, Run, World

\* The inductive invariant of brain-messages holds in every state.
THEOREM InvariantHolds ==
    ASSUME Assumptions
    PROVE  Spec => []IInv
<1>1. Init => IInv
  BY InitInv
<1>2. IInv /\ [Next]_vars => IInv'
  BY NextInv
<1> QED
  BY <1>1, <1>2, PTL DEF Spec

\* The cursors can be trusted: what the stored cursor of a thread has passed is in its
\* notes, but for messages that came late and notes others changed.
THEOREM CursorsTrusted ==
    ASSUME Assumptions
    PROVE  Spec => []Safe
<1>1. IInv => Safe
  BY DEF IInv, Safe
<1> QED
  BY <1>1, InvariantHolds, PTL

\* A batch takes no message out of a note of a selected thread.
LEMMA LandingForgetsNothing ==
    ASSUME Assumptions, IInv, pc \in {"notes", "index"}, NEW b \in Batches(pending, {}),
           IsCurrent(folder, b), Landed(b), UNCHANGED <<server, late>>,
           NEW p \in NotePaths, p \notin damaged'
    PROVE  Shown(folder, p) \subseteq Shown(folder', p)
<1>1. b \in SUBSET pending /\ b # {}
  BY BatchIs
<1>2. CASE pc = "notes"
  <2>1. /\ (\A c \in b : c.path # p) => folder'[p] = folder[p]
        /\ \A c \in b : folder'[c.path] = c.to
             /\ (c.path[1] \notin selected => c.path \in damaged')
    BY <1>1, <1>2, NotesLand
  <2>2. ASSUME NEW c \in b, c.path = p
        PROVE  Shown(folder, p) \subseteq Shown(folder', p)
    <3>1. folder[p] = c.from /\ c.from = existing[p] /\ IsWhole(c)
      BY <1>1, <1>2, <2>2 DEF IsCurrent, IInv, PendingSound
    <3>2. p[1] \in selected
      BY <2>1, <2>2
    <3>3. Shown(existing, p) \subseteq MessagesIn(c.to)
      BY <2>2, <3>1, <3>2 DEF IsWhole
    <3> QED
      BY <2>1, <2>2, <3>1, <3>3 DEF Shown
  <2> QED
    BY <2>1, <2>2 DEF Shown
<1>3. CASE pc = "index"
  <2>1. folder'[p] = folder[p]
    BY <1>1, <1>3, IndexLands
  <2> QED
    BY <2>1 DEF Shown
<1> QED
  BY <1>2, <1>3

\* No step takes a message out of a note, but an edit by hand and the deletion of a
\* thread that is not selected.
THEOREM NothingForgotten ==
    ASSUME Assumptions
    PROVE  Spec => NeverForgets
<1> DEFINE Step == \A p \in NotePaths :
                      p \notin damaged' => Shown(folder, p) \subseteq Shown(folder', p)
<1>1. ASSUME IInv, [Next]_vars
      PROVE  Step
  <2>1. CASE PostBatch
    <3>1. pc \in {"notes", "index"} /\ UNCHANGED <<server, late>>
      BY <2>1 DEF PostBatch, outside
    <3>2. PICK b \in Batches(pending, {}) : IsCurrent(folder, b) /\ Landed(b)
      BY <2>1 DEF PostBatch
    <3> QED
      BY <1>1, <3>1, <3>2, LandingForgetsNothing
  <2>2. CASE AnswerLost
    <3>1. pc \in {"notes", "index"} /\ UNCHANGED <<server, late>>
      BY <2>2 DEF AnswerLost, outside
    <3>2. PICK b \in Batches(pending, {}) : IsCurrent(folder, b) /\ Landed(b)
      BY <2>2 DEF AnswerLost
    <3> QED
      BY <1>1, <3>1, <3>2, LandingForgetsNothing
  <2>3. CASE EditByHand
    <3>1. PICK q \in Editable, b \in {Hand, Absent} :
             /\ folder' = [folder EXCEPT ![q] = b]
             /\ damaged' = damaged \cup ({q} \ {IndexPath})
      BY <2>3 DEF EditByHand
    <3>2. \A p \in NotePaths : p \notin damaged' => p # q
      BY <3>1, NoteFacts
    <3>3. \A p \in NotePaths : p \in DOMAIN folder
      BY <1>1 DEF IInv, TypeOK, IsFolder, Paths
    <3> QED
      BY <3>1, <3>2, <3>3 DEF Shown
  <2>4. CASE UNCHANGED folder
    BY <2>4
  <2>5. PostBatch \/ AnswerLost \/ EditByHand \/ UNCHANGED folder
    BY <1>1
       DEF Next, Run, World, vars, Begin, ListChats, NoChats, ListNotes, SkipThread, StartThread,
       FetchChat, RenderThread, DiffNotes, DiffIndex, PostRefused, PostDropped, Finish, RunFails,
       ListingPartial, MessageArrives, LateMessage, ChooseThreads, SigChanges
  <2> QED
    BY <2>1, <2>2, <2>3, <2>4, <2>5
<1>2. ASSUME IInv, [Next]_vars
      PROVE  [Step]_vars
  BY <1>1, <1>2
<1> QED
  BY <1>2, InvariantHolds, PTL DEF Spec, NeverForgets

--------------------------------------------------------------------------------
(***************************************************************************)
(* The promise of ConditionalCommits: seen is the listing of a run, from   *)
(* which both the notes and the index are committed.                       *)
(***************************************************************************)

Functions == folder \in Promise!States /\ existing \in Promise!States

\* What has the values of a folder is one.
LEMMA FolderStates ==
    ASSUME NEW f, IsFolder(f), f = [p \in DOMAIN f |-> f[p]]
    PROVE  f \in Promise!States
<1>1. \A p \in Paths : f[p] \in Blobs \cup {Absent}
  BY DEF IsFolder, Paths, Blobs
<1> QED
  BY <1>1 DEF IsFolder, Promise!States

LEMMA FunctionsStep ==
    ASSUME Functions, IInv', [Next]_vars
    PROVE  Functions'
<1> USE DEF Functions
<1>0. IsFolder(folder') /\ IsFolder(existing')
  BY DEF IInv, TypeOK
<1>1. CASE PostBatch \/ AnswerLost
  <2>1. PICK b \in Batches(pending, {}) : Landed(b)
    BY <1>1 DEF PostBatch, AnswerLost
  <2>2. folder' = [p \in DOMAIN folder |-> folder'[p]]
    BY <2>1 DEF Landed, Committed
  <2>3. DOMAIN folder' = DOMAIN folder
    BY <2>2
  <2>4. existing' \in {existing, NoFiles}
    BY <1>1 DEF PostBatch, AnswerLost, EndRun
  <2>5. folder' \in Promise!States
    BY <1>0, <2>2, <2>3, FolderStates
  <2> QED
    BY <2>4, <2>5 DEF NoFiles, Promise!States
<1>2. CASE EditByHand
  <2>1. PICK p \in Editable, b \in {Hand, Absent} : folder' = [folder EXCEPT ![p] = b]
    BY <1>2 DEF EditByHand
  <2> QED
    BY <1>2, <2>1 DEF EditByHand, local, Promise!States, Blobs
<1>3. CASE UNCHANGED folder
  <2>1. existing' \in {existing, folder, NoFiles}
    BY <1>3
       DEF Next, Run, World, vars, local, Begin, ListChats, NoChats, ListNotes, SkipThread,
       StartThread, FetchChat, RenderThread, DiffNotes, DiffIndex, PostBatch, PostRefused,
       PostDropped, Finish, RunFails, AnswerLost, ListingPartial, MessageArrives, LateMessage,
       ChooseThreads, SigChanges, EditByHand, EndRun
  <2> QED
    BY <1>3, <2>1 DEF NoFiles, Promise!States
<1>4. PostBatch \/ AnswerLost \/ EditByHand \/ UNCHANGED folder
  BY DEF Next, Run, World, vars, Begin, ListChats, NoChats, ListNotes, SkipThread, StartThread,
     FetchChat, RenderThread, DiffNotes, DiffIndex, PostRefused, PostDropped, Finish, RunFails,
     ListingPartial, MessageArrives, LateMessage, ChooseThreads, SigChanges, outside
<1> QED
  BY <1>1, <1>2, <1>3, <1>4

\* A batch that Forgejo accepts changes only what is as the listing saw it.
LEMMA LandingKeepsPromise ==
    ASSUME IInv, Functions, Functions', pc \in {"notes", "index"},
           NEW b \in Batches(pending, {}), IsCurrent(folder, b), Landed(b),
           \/ pc' = pc /\ existing' = existing /\ events' = events
           \/ pc' = "idle" /\ events' = events + 1
    PROVE  Promise!Commit
<1>1. folder \in Promise!States /\ existing \in Promise!States /\ folder' \in Promise!States
  BY DEF Functions
<1>2. ASSUME NEW p \in Paths, folder'[p] # folder[p]
      PROVE  folder[p] = existing[p]
  <2>1. PICK c \in b : c.path = p
    BY <1>1, <1>2 DEF Landed, Committed, Promise!States
  <2>2. c.from = existing[p]
    BY <2>1, BatchIs DEF IInv, PendingSound
  <2> QED
    BY <2>1, <2>2 DEF IsCurrent
<1>3. existing # Nothing
  BY <1>1, NothingAssumption DEF Promise!States
<1> QED
  BY <1>1, <1>2, <1>3 DEF Promise!Commit

LEMMA PromiseStep ==
    ASSUME IInv, Functions, Functions', [Next]_vars
    PROVE  [Promise!Next]_(Promise!vars)
<1> USE DEF Promise!vars, Promise!Next
<1>1. CASE ListNotes
  BY <1>1 DEF ListNotes, outside, Promise!Look
<1>2. CASE \/ Begin \/ ListChats \/ SkipThread \/ StartThread \/ FetchChat \/ RenderThread
           \/ DiffNotes \/ DiffIndex \/ PostDropped
  BY <1>2 DEF Begin, ListChats, SkipThread, StartThread, FetchChat, RenderThread, DiffNotes,
              DiffIndex, PostDropped, outside
<1>3. CASE PostBatch
  <2>1. PICK b \in Batches(pending, {}) : IsCurrent(folder, b) /\ Landed(b)
    BY <1>3 DEF PostBatch
  <2>2. /\ pc \in {"notes", "index"}
        /\ pc' = pc /\ existing' = existing /\ events' = events
    BY <1>3 DEF PostBatch
  <2> QED
    BY <2>1, <2>2, LandingKeepsPromise
<1>4. CASE AnswerLost
  <2>1. PICK b \in Batches(pending, {}) : IsCurrent(folder, b) /\ Landed(b)
    BY <1>4 DEF AnswerLost
  <2>2. pc \in {"notes", "index"} /\ pc' = "idle" /\ events' = events + 1
    BY <1>4 DEF AnswerLost, EndRun, Event
  <2> QED
    BY <2>1, <2>2, LandingKeepsPromise
<1>5. CASE NoChats \/ PostRefused \/ Finish \/ RunFails
  <2>1. pc' = "idle" /\ folder' = folder /\ events' \in {events, events + 1}
    BY <1>5 DEF NoChats, PostRefused, Finish, RunFails, EndRun, outside, Event
  <2> QED
    BY <2>1 DEF Promise!Forget
<1>6. CASE EditByHand
  <2>1. PICK p \in Editable, b \in {Hand, Absent} : folder' = [folder EXCEPT ![p] = b]
    BY <1>6 DEF EditByHand
  <2>2. p \in Paths /\ b \in Blobs \cup {Absent}
    BY DistinctAssumption DEF Blobs
  <2>3. pc' = pc /\ existing' = existing /\ events' = events + 1
    BY <1>6 DEF EditByHand, local, Event
  <2> QED
    BY <2>1, <2>2, <2>3 DEF Promise!Edit
<1>7. CASE \/ ListingPartial \/ MessageArrives \/ LateMessage \/ ChooseThreads \/ SigChanges
           \/ UNCHANGED vars
  <2>1. /\ folder' = folder /\ pc' = pc /\ existing' = existing
        /\ events' \in {events, events + 1}
    BY <1>7 DEF ListingPartial, MessageArrives, LateMessage, ChooseThreads, SigChanges, vars,
                local, Event
  <2> QED
    BY <2>1 DEF Promise!Elapse
<1> QED
  BY <1>1, <1>2, <1>3, <1>4, <1>5, <1>6, <1>7 DEF Next, Run, World

\* MessagesSync implements ConditionalCommits: neither the notes nor the index, which
\* are committed one after the other from one listing, replace what others wrote since.
THEOREM PromiseKept ==
    ASSUME Assumptions
    PROVE  Spec => KeepsPromise
<1>1. Init => Functions /\ Promise!Init
  BY DEF Init, NoFiles, Functions, Promise!Init, Promise!States
<1>2. Functions /\ IInv' /\ [Next]_vars => Functions'
  BY FunctionsStep
<1>3. IInv /\ Functions /\ Functions' /\ [Next]_vars => [Promise!Next]_(Promise!vars)
  BY PromiseStep
<1> QED
  BY <1>1, <1>2, <1>3, InvariantHolds, PTL DEF Spec, KeepsPromise, Promise!Spec

--------------------------------------------------------------------------------
(***************************************************************************)
(* The Gmail source, from here on: its types, that no two threads share a  *)
(* note, and that the index says what the notes are.                       *)
(***************************************************************************)
CONSTANTS MailThreads, Short, Base, People, Links, NoSuffix, MaxFetch, Edits

VARIABLES box, old, dir, meta, index, view, listed, matched, checked, edited, torn

Mail == INSTANCE GmailSync WITH Threads <- MailThreads

MailAssumed ==
    /\ Mail!ThreadsAssumption /\ Mail!ShortAssumption
    /\ Mail!BoundsAssumption /\ Mail!DistinctAssumption /\ Mail!NothingAssumption

\* Numbers of sets and commits are the same in either module.
LEMMA CardinalityIs ==
    \A S : Mail!Cardinality(S) = Cardinality(S) /\ (Mail!IsFiniteSet(S) <=> IsFiniteSet(S))
BY DEF Mail!Cardinality, Cardinality, Mail!IsFiniteSet, IsFiniteSet

LEMMA CommitsAre ==
    /\ \A f, b : Mail!Committed(f, b) = Committed(f, b)
    /\ \A g, f, keep : Mail!Diff(g, f, keep) = Diff(g, f, keep)
BY DEF Mail!Committed, Committed, Mail!Diff, Diff, Mail!Change, Change

\* What assign_paths gives a thread.
LEMMA PathValue ==
    ASSUME MailAssumed, NEW S \in SUBSET MailThreads, NEW t \in S
    PROVE  /\ Mail!AssignPaths(S, Base, Short)[t] =
                 <<Base[t], IF \A u \in S : Base[u] = Base[t] => t <= u
                            THEN NoSuffix ELSE Short[t]>>
           /\ Mail!AssignPaths(S, Base, Short)[t] \in Mail!NoteSlots
<1> DEFINE suffix == IF \A u \in S : Base[u] = Base[t] => t <= u THEN NoSuffix ELSE Short[t]
<1>1. Mail!AssignPaths(S, Base, Short)[t] = <<Base[t], suffix>>
  BY DEF Mail!AssignPaths, Mail!NotePath, Mail!IsOldest
<1>2. suffix \in {NoSuffix} \cup {Short[u] : u \in MailThreads}
        /\ Base[t] \in {Base[u] : u \in MailThreads}
  OBVIOUS
<1> QED
  BY <1>1, <1>2 DEF Mail!NoteSlots

\* Two threads never get the same one.
LEMMA PathsDistinct ==
    ASSUME MailAssumed, NEW S \in SUBSET MailThreads, NEW t \in S, NEW u \in S,
           Mail!AssignPaths(S, Base, Short)[t] = Mail!AssignPaths(S, Base, Short)[u]
    PROVE  t = u
<1> DEFINE Plain(x) == \A y \in S : Base[y] = Base[x] => x <= y
<1>1. t \in Nat /\ u \in Nat /\ t \in MailThreads /\ u \in MailThreads
  BY DEF MailAssumed, Mail!ThreadsAssumption
<1>2. /\ Base[t] = Base[u]
      /\ (IF Plain(t) THEN NoSuffix ELSE Short[t]) = (IF Plain(u) THEN NoSuffix ELSE Short[u])
  BY PathValue
<1>3. CASE Plain(t) /\ Plain(u)
  <2>1. t <= u /\ u <= t
    BY <1>2, <1>3
  <2> QED
    BY <2>1, <1>1
<1>4. CASE ~Plain(t) /\ ~Plain(u)
  BY <1>1, <1>2, <1>4 DEF MailAssumed, Mail!ShortAssumption
<1>5. CASE Plain(t) # Plain(u)
  <2>1. Short[t] = NoSuffix \/ Short[u] = NoSuffix
    BY <1>2, <1>5
  <2> QED
    BY <2>1, <1>1 DEF MailAssumed, Mail!ShortAssumption
<1> QED
  BY <1>3, <1>4, <1>5

--------------------------------------------------------------------------------
(***************************************************************************)
(* Types.                                                                  *)
(***************************************************************************)
MailBlobs == Mail!Blobs \cup {Absent}

IsMail(f) ==
    /\ f \in [Mail!Paths -> MailBlobs] /\ f[IndexPath] \in Mail!IndexFile \cup {Hand, Absent}
    /\ \A p \in Mail!NoteSlots : f[p] \in Mail!Note \cup {Hand, Absent}

\* What one operation leaves is of the type of its path.
IsSound(c) ==
    \/ c.path = IndexPath /\ c.to \in Mail!IndexFile /\ Mail!Distinct(c.to.entries)
    \/ c.path \in Mail!NoteSlots /\ c.to \in Mail!Note \cup {Absent}

\* What the steps see of the types.
LEMMA MailTypes ==
    ASSUME MailAssumed, Mail!TypeOK
    PROVE  /\ box \in [MailThreads -> Mail!Thread \cup {Absent}] /\ old \subseteq MailThreads
           /\ dir \in [People -> Links \cup {None}] /\ view \in [People -> Links \cup {None}]
           /\ IsMail(folder) /\ existing \in [Mail!Paths -> MailBlobs]
           /\ meta \in [MailThreads -> Mail!Meta \cup {Absent}] /\ index \in Mail!Index
           /\ listed \in [MailThreads -> Mail!Revisions \cup {Absent}]
           /\ matched \in [MailThreads -> Mail!Match \cup {Absent}]
           /\ checked \in 0 .. MaxFetch /\ events \in 0 .. MaxEvents
           /\ edited \in BOOLEAN /\ torn \in BOOLEAN
BY DEF Mail!TypeOK, IsMail, MailBlobs, Mail!Index

\* And what they have to show.
LEMMA MailTypesAre ==
    ASSUME MailAssumed, box' \in [MailThreads -> Mail!Thread \cup {Absent}],
           old' \subseteq MailThreads,
           dir' \in [People -> Links \cup {None}], view' \in [People -> Links \cup {None}],
           IsMail(folder'), existing' \in [Mail!Paths -> MailBlobs],
           meta' \in [MailThreads -> Mail!Meta \cup {Absent}], index' \in Mail!Index,
           pc' \in {"idle", "index", "list", "check", "render", "commit"},
           listed' \in [MailThreads -> Mail!Revisions \cup {Absent}],
           matched' \in [MailThreads -> Mail!Match \cup {Absent}],
           checked' \in 0 .. MaxFetch, \A c \in pending' : c.path \in Mail!Paths,
           events' \in 0 .. MaxEvents, edited' \in BOOLEAN, torn' \in BOOLEAN
    PROVE  Mail!TypeOK'
BY DEF Mail!TypeOK, IsMail, MailBlobs, Mail!Index

\* Records, and the empty values.
LEMMA RecordTypes ==
    ASSUME MailAssumed
    PROVE
    /\ \A m \in Mail!Thread : m # Absent /\ m.hid \in Mail!Revisions /\ m.who \in People
         /\ Mail!MetaOf(m) \in Mail!Meta
    /\ \A m \in Mail!Meta : m # Absent /\ m.hid \in Mail!Revisions /\ m.who \in People
    /\ \A m \in Mail!Meta \cup Mail!Entry : \A s \in BOOLEAN : Mail!MatchOf(m, s) \in Mail!Match
    /\ \A e \in Mail!Entry : e # Absent /\ e.path \in Mail!NoteSlots /\ e.hid \in Mail!Revisions
         /\ e.who \in People
                        /\ e.link \in Links \cup {None} /\ Mail!MetaOf(e) \in Mail!Meta
    /\ \A m \in Mail!Match : m # Absent /\ m.hid \in Mail!Revisions /\ m.who \in People
         /\ m.stale \in BOOLEAN
    /\ \A n \in Mail!Note \cup Mail!IndexFile : n \notin {Absent, Hand}
    /\ Mail!NoThreads \in Mail!Index /\ IsMail(Mail!NoFiles)
         /\ Mail!NoView \in [People -> Links \cup {None}]
    /\ IndexPath \notin Mail!NoteSlots
    /\ 0 \in 0 .. MaxFetch /\ 0 \in Mail!Revisions /\ 0 \in 0 .. MaxEvents
<1>1. 0 \in 0 .. MaxFetch /\ 0 \in Mail!Revisions /\ 0 \in 0 .. MaxEvents
  BY DEF Mail!Revisions, MailAssumed, Mail!BoundsAssumption
<1>2. \A m \in Mail!Thread : m # Absent /\ m.hid \in Mail!Revisions /\ m.who \in People
        /\ Mail!MetaOf(m) \in Mail!Meta
  BY DEF Mail!Thread, Mail!MetaOf, Mail!Meta, MailAssumed, Mail!DistinctAssumption
<1>3. \A m \in Mail!Meta : m # Absent /\ m.hid \in Mail!Revisions /\ m.who \in People
  BY DEF Mail!Meta, MailAssumed, Mail!DistinctAssumption
<1>4. \A e \in Mail!Entry : e # Absent /\ e.path \in Mail!NoteSlots /\ e.hid \in Mail!Revisions
        /\ e.who \in People
                       /\ e.link \in Links \cup {None} /\ Mail!MetaOf(e) \in Mail!Meta
  BY DEF Mail!Entry, Mail!MetaOf, Mail!Meta, MailAssumed, Mail!DistinctAssumption
<1>5. \A m \in Mail!Meta \cup Mail!Entry : \A s \in BOOLEAN : Mail!MatchOf(m, s) \in Mail!Match
  BY <1>3, <1>4 DEF Mail!MatchOf, Mail!Match
<1>6. \A m \in Mail!Match : m # Absent /\ m.hid \in Mail!Revisions /\ m.who \in People
        /\ m.stale \in BOOLEAN
  BY DEF Mail!Match, MailAssumed, Mail!DistinctAssumption
<1>7. \A n \in Mail!Note \cup Mail!IndexFile : n \notin {Absent, Hand}
  BY DEF MailAssumed, Mail!DistinctAssumption
<1>8. IndexPath \notin Mail!NoteSlots
  BY DEF MailAssumed, Mail!DistinctAssumption
<1>9. Mail!NoThreads \in Mail!Index /\ IsMail(Mail!NoFiles)
        /\ Mail!NoView \in [People -> Links \cup {None}]
  BY DEF Mail!NoThreads, Mail!Index, IsMail, Mail!NoFiles, Mail!Paths, MailBlobs, Mail!NoView
<1> QED
  BY <1>1, <1>2, <1>3, <1>4, <1>5, <1>6, <1>7, <1>8, <1>9

\* The index of a folder.
LEMMA ParsedType ==
    ASSUME MailAssumed
    PROVE  \A f : IsMail(f) => Mail!Parsed(f[IndexPath]) \in Mail!Index
BY RecordTypes DEF IsMail, Mail!Parsed, Mail!IndexFile

\* The folder a commit leaves.
LEMMA CommittedType ==
    ASSUME MailAssumed, NEW f, IsMail(f), NEW b, \A c \in b : IsSound(c)
    PROVE  IsMail(Mail!Committed(f, b))
<1> DEFINE g == Mail!Committed(f, b)
<1>1. ASSUME NEW p \in Mail!Paths
      PROVE  /\ p = IndexPath => g[p] \in Mail!IndexFile \cup {Hand, Absent}
             /\ p \in Mail!NoteSlots => g[p] \in Mail!Note \cup {Hand, Absent}
  <2>1. CASE \E c \in b : c.path = p
    <3> DEFINE d == CHOOSE c \in b : c.path = p
    <3>1. d \in b /\ d.path = p
      BY <2>1
    <3>2. g[p] = d.to
      BY <2>1, <1>1 DEF Mail!Committed, IsMail
    <3>3. IsSound(d)
      BY <3>1
    <3> QED
      BY <3>1, <3>2, <3>3, RecordTypes DEF IsSound
  <2>2. CASE ~\E c \in b : c.path = p
    <3>1. g[p] = f[p]
      BY <2>2, <1>1 DEF Mail!Committed, IsMail
    <3> QED
      BY <3>1, <1>1 DEF IsMail
  <2> QED
    BY <2>1, <2>2
<1>2. g = [p \in Mail!Paths |-> g[p]]
  BY DEF Mail!Committed, IsMail
<1>3. \A p \in Mail!Paths : g[p] \in MailBlobs
  BY <1>1 DEF Mail!Paths, MailBlobs, Mail!Blobs
<1> HIDE DEF g
<1>4. g \in [Mail!Paths -> MailBlobs]
  BY <1>2, <1>3
<1>5. IsMail(g)
  BY <1>1, <1>4 DEF IsMail, Mail!Paths
<1> QED
  BY <1>5 DEF g

\* Of some threads there is a number.
LEMMA CountType ==
    ASSUME MailAssumed, NEW S \in SUBSET MailThreads
    PROVE  IsFiniteSet(S) /\ Mail!Cardinality(S) \in Nat
BY CardinalityIs, FS_Subset, FS_CardinalityType DEF MailAssumed, Mail!ThreadsAssumption

\* The first half of render_gmail.
LEMMA CheckTypes ==
    ASSUME MailAssumed, Mail!TypeOK, Mail!CheckThreads
    PROVE  Mail!TypeOK'
<1> USE DEF Mail!outside, Mail!history
<1> DEFINE needy == {t \in Mail!Known(listed) : ~Mail!IsIndexed(t) /\ ~Mail!IsCached(t)}
           found(L) == L \cap Mail!Known(box)
           new(L) == [t \in MailThreads |-> IF t \in found(L) THEN Mail!MetaOf(box[t])
             ELSE meta[t]]
           about(L) == [t \in MailThreads |->
                           IF t \in Mail!Known(listed) /\ Mail!IsIndexed(t) /\ ~Mail!IsCached(t)
                           THEN Mail!MetaOf(index[t]) ELSE new(L)[t]]
           found2(L, t) ==
               CASE t \in needy \ L /\ index[t] # Absent -> Mail!MatchOf(index[t], TRUE)
                 [] t \in Mail!Known(listed) \ (needy \ found(L)) /\ Mail!Matches(about(L)[t]) ->
                        Mail!MatchOf(about(L)[t], FALSE)
                 [] Mail!IsAged(t) -> Mail!MatchOf(index[t], TRUE)
                 [] OTHER -> Absent
<1>1. PICK L \in SUBSET needy :
         /\ Mail!Cardinality(L) <= Mail!CheckBudget
         /\ meta' = new(L) /\ checked' = Mail!Cardinality(L)
         /\ matched' = [t \in MailThreads |-> found2(L, t)]
  BY DEF Mail!CheckThreads
<1>2. needy \subseteq MailThreads /\ \A t \in Mail!Known(box) : t \in MailThreads
        /\ box[t] \in Mail!Thread
  BY MailTypes DEF Mail!Known
<1>3. checked' \in 0 .. MaxFetch
  <2>1. Mail!Cardinality(L) \in Nat
    BY <1>2, CountType
  <2>2. Mail!CheckBudget \in Int /\ Mail!CheckBudget <= MaxFetch /\ MaxFetch \in Nat
    BY DEF Mail!CheckBudget, MailAssumed, Mail!BoundsAssumption
  <2> QED
    BY <1>1, <2>1, <2>2
<1>4. ASSUME NEW t \in MailThreads
      PROVE  new(L)[t] \in Mail!Meta \cup {Absent} /\ (t \in found(L) => new(L)[t] \in Mail!Meta)
  <2>1. meta[t] \in Mail!Meta \cup {Absent}
    BY MailTypes
  <2>2. t \in found(L) => Mail!MetaOf(box[t]) \in Mail!Meta
    BY <1>2, RecordTypes
  <2> QED
    BY <2>1, <2>2
<1>5. meta' \in [MailThreads -> Mail!Meta \cup {Absent}]
  BY <1>1, <1>4
<1>6. ASSUME NEW t \in MailThreads
      PROVE  found2(L, t) \in Mail!Match \cup {Absent}
  <2>1. index[t] # Absent => index[t] \in Mail!Entry
    BY MailTypes DEF Mail!Index
  <2>2. index[t] # Absent
          => Mail!MatchOf(index[t], TRUE) \in Mail!Match /\ Mail!MetaOf(index[t]) \in Mail!Meta
    BY <2>1, RecordTypes
  <2>3. ASSUME t \in Mail!Known(listed) \ (needy \ found(L))
        PROVE  Mail!MatchOf(about(L)[t], FALSE) \in Mail!Match
    <3>1. about(L)[t] \in Mail!Meta
      <4>1. CASE Mail!IsIndexed(t) /\ ~Mail!IsCached(t)
        BY <2>2, <2>3, <4>1 DEF Mail!IsIndexed
      <4>2. CASE Mail!IsCached(t)
        <5>1. meta[t] \in Mail!Meta
          BY <4>2, MailTypes DEF Mail!IsCached
        <5>2. new(L)[t] \in Mail!Meta
          BY <1>4, <5>1
        <5> QED
          BY <4>2, <5>2
      <4>3. CASE ~Mail!IsIndexed(t) /\ ~Mail!IsCached(t)
        <5>1. t \in found(L)
          BY <2>3, <4>3
        <5> QED
          BY <1>4, <4>3, <5>1
      <4> QED
        BY <4>1, <4>2, <4>3
    <3> QED
      BY <3>1, RecordTypes
  <2>4. Mail!IsAged(t) => index[t] # Absent
    BY DEF Mail!IsAged
  <2> HIDE DEF needy, found, new, about
  <2> QED
    BY <2>2, <2>3, <2>4
<1>7. matched' \in [MailThreads -> Mail!Match \cup {Absent}]
  <2> HIDE DEF found2
  <2> QED
    BY <1>1, <1>6
<1>8. UNCHANGED <<box, old, dir, view, folder, existing, index, listed, pending, events,
                  edited, torn>>
      /\ pc' = "render"
  BY DEF Mail!CheckThreads
<1> QED
  BY <1>3, <1>5, <1>7, <1>8 DEF Mail!TypeOK

--------------------------------------------------------------------------------
(***************************************************************************)
(* What a pass renders.                                                    *)
(***************************************************************************)

\* The paths of the matching threads.
LEMMA PathOfValue ==
    ASSUME MailAssumed, Mail!TypeOK
    PROVE  /\ Mail!Known(matched) \in SUBSET MailThreads
           /\ \A t \in Mail!Known(matched) : Mail!PathOf[t] \in Mail!NoteSlots
           /\ \A t, u \in Mail!Known(matched) : Mail!PathOf[t] = Mail!PathOf[u] => t = u
<1>1. Mail!Known(matched) \in SUBSET MailThreads
  BY MailTypes DEF Mail!Known
<1> QED
  BY <1>1, PathValue, PathsDistinct DEF Mail!PathOf

\* The new index, thread by thread.
LEMMA EntryCases ==
    ASSUME MailAssumed, Mail!TypeOK, NEW fetched \in SUBSET (Mail!Known(matched) \ Mail!Kept)
    PROVE  /\ DOMAIN Mail!NewEntries(fetched) = MailThreads
           /\ Mail!Kept \subseteq Mail!Known(matched)
                /\ Mail!Rendered(fetched) \subseteq Mail!Known(matched) \ Mail!Kept
           /\ \A t \in Mail!Kept : /\ Mail!NewEntries(fetched)[t] \in {index[t], Absent}
                                   /\ index[t] # Absent /\ index[t].path = Mail!PathOf[t]
           /\ Mail!Postponed(fetched) \subseteq Mail!Known(matched)
           /\ \A t \in Mail!Postponed(fetched) :
                 Mail!NewEntries(fetched)[t] \in {index[t], Absent} /\ index[t] # Absent
           /\ \A t \in Mail!Rendered(fetched) : Mail!NewEntries(fetched)[t]
                = Mail!EntryOf(t, box[t])
           /\ \A t \in MailThreads \ (Mail!Kept \cup Mail!Postponed(fetched)
                \cup Mail!Rendered(fetched)) :
                 Mail!NewEntries(fetched)[t] = Absent
           /\ \A t \in Mail!Kept \cup Mail!Postponed(fetched) :
                 Mail!NewEntries(fetched)[t] = Absent <=>
                    /\ index[t].path \in {Mail!PathOf[u] : u \in Mail!Rendered(fetched)}
                    /\ Mail!PathOf[t] # index[t].path
<1> DEFINE R == Mail!Rendered(fetched)
           put == Mail!Postponed(fetched)
           e == [t \in MailThreads |->
                    CASE t \in Mail!Kept \/ t \in put -> index[t]
                      [] t \in R -> Mail!EntryOf(t, box[t])
                      [] OTHER -> Absent]
           evicted(t) == /\ e[t] # Absent
                         /\ e[t].path \in {Mail!PathOf[u] : u \in R}
                         /\ (t \in Mail!Known(matched) => Mail!PathOf[t] # e[t].path)
<1>1. Mail!NewEntries(fetched) = [t \in MailThreads |-> IF evicted(t) THEN Absent ELSE e[t]]
  BY DEF Mail!NewEntries, Mail!Evict
<1>2. Mail!Kept \subseteq Mail!Known(matched) /\ put \subseteq Mail!Known(matched)
        /\ Mail!Known(matched) \subseteq MailThreads
      /\ R \subseteq Mail!Known(matched) \ Mail!Kept /\ R \cap put = {} /\ put \cap Mail!Kept = {}
  BY PathOfValue DEF Mail!Kept, Mail!Postponed, Mail!Rendered
<1>3. \A t \in Mail!Kept : index[t] # Absent /\ index[t].path = Mail!PathOf[t]
  BY DEF Mail!Kept, Mail!Same, Mail!HasNote
<1>4. \A t \in put : index[t] # Absent
  BY DEF Mail!Postponed
<1>5. \A t \in R : Mail!EntryOf(t, box[t]) \in Mail!Entry
        /\ Mail!EntryOf(t, box[t]).path = Mail!PathOf[t]
  <2> TAKE t \in R
  <2>1. box[t] \in Mail!Thread /\ t \in Mail!Known(matched)
    BY <1>2, MailTypes DEF Mail!Rendered, Mail!Known
  <2>2. Mail!PathOf[t] \in Mail!NoteSlots /\ box[t].hid \in Mail!Revisions /\ box[t].who \in People
    BY <2>1, PathOfValue, RecordTypes
  <2>3. view[box[t].who] \in Links \cup {None}
    BY <2>2, MailTypes
  <2> QED
    BY <2>2, <2>3 DEF Mail!EntryOf, Mail!Entry
<1>6. /\ \A t \in Mail!Kept \cup put : e[t] = index[t]
      /\ \A t \in R : e[t] = Mail!EntryOf(t, box[t])
      /\ \A t \in MailThreads \ (Mail!Kept \cup put \cup R) : e[t] = Absent
  <2> HIDE DEF R, put
  <2> QED
    BY <1>2
<1> HIDE DEF e
<1>7. \A t \in R : ~evicted(t)
  <2> TAKE t \in R
  <2>1. t \in Mail!Known(matched) /\ e[t].path = Mail!PathOf[t]
    BY <1>2, <1>5, <1>6
  <2> QED
    BY <2>1
<1>8. \A t \in Mail!Kept \cup put :
         evicted(t) <=> /\ index[t].path \in {Mail!PathOf[u] : u \in R}
                        /\ Mail!PathOf[t] # index[t].path
  BY <1>2, <1>3, <1>4, <1>6
<1>9. \A t \in MailThreads \ (Mail!Kept \cup put \cup R) : ~evicted(t)
  BY <1>6
<1> HIDE DEF evicted
<1>10. DOMAIN Mail!NewEntries(fetched) = MailThreads
  BY <1>1
<1>11. \A t \in Mail!Kept \cup put : /\ Mail!NewEntries(fetched)[t] \in {index[t], Absent}
                                     /\ Mail!NewEntries(fetched)[t] = Absent <=> evicted(t)
  <2> TAKE t \in Mail!Kept \cup put
  <2>1. Mail!NewEntries(fetched)[t] = IF evicted(t) THEN Absent ELSE e[t]
    BY <1>1, <1>2
  <2>2. e[t] = index[t] /\ index[t] # Absent
    BY <1>3, <1>4, <1>6
  <2> QED
    BY <2>1, <2>2
<1>12. \A t \in R : Mail!NewEntries(fetched)[t] = Mail!EntryOf(t, box[t])
  BY <1>1, <1>2, <1>6, <1>7
<1>13. \A t \in MailThreads \ (Mail!Kept \cup put \cup R) : Mail!NewEntries(fetched)[t] = Absent
  BY <1>1, <1>6, <1>9
<1> QED
  BY <1>2, <1>3, <1>4, <1>8, <1>10, <1>11, <1>12, <1>13

\* A rendered thread has an entry of its path.
LEMMA EntryOfType ==
    ASSUME MailAssumed, Mail!TypeOK, NEW t \in Mail!Known(matched) \cap Mail!Known(box)
    PROVE  /\ Mail!EntryOf(t, box[t]) \in Mail!Entry
                /\ Mail!EntryOf(t, box[t]).path = Mail!PathOf[t]
           /\ Mail!EntryOf(t, box[t]).hid = box[t].hid
                /\ Mail!EntryOf(t, box[t]).link = view[box[t].who]
           /\ Mail!NoteOf(t) \in Mail!Note
<1>1. box[t] \in Mail!Thread /\ t \in MailThreads
  BY MailTypes DEF Mail!Known
<1>2. Mail!PathOf[t] \in Mail!NoteSlots /\ box[t].hid \in Mail!Revisions /\ box[t].who \in People
  BY <1>1, PathOfValue, RecordTypes
<1>3. view[box[t].who] \in Links \cup {None}
  BY <1>2, MailTypes
<1> QED
  BY <1>1, <1>2, <1>3 DEF Mail!EntryOf, Mail!Entry, Mail!NoteOf, Mail!Note

\* The new index is one, and if the old one gave threads distinct notes it does.
LEMMA NewIndex ==
    ASSUME MailAssumed, Mail!TypeOK, Mail!Distinct(index),
           NEW fetched \in SUBSET (Mail!Known(matched) \ Mail!Kept)
    PROVE  Mail!NewEntries(fetched) \in Mail!Index /\ Mail!Distinct(Mail!NewEntries(fetched))
<1> DEFINE e == Mail!NewEntries(fetched)
           R == Mail!Rendered(fetched)
           old2 == Mail!Kept \cup Mail!Postponed(fetched)
<1>1. /\ DOMAIN e = MailThreads /\ R \subseteq Mail!Known(matched) \cap Mail!Known(box)
           /\ old2 \subseteq Mail!Known(matched)
      /\ \A t \in old2 : e[t] \in {index[t], Absent} /\ index[t] # Absent
      /\ \A t \in Mail!Kept : index[t].path = Mail!PathOf[t]
      /\ \A t \in R : e[t] = Mail!EntryOf(t, box[t])
      /\ \A t \in MailThreads \ (old2 \cup R) : e[t] = Absent
      /\ \A t \in old2 : e[t] = Absent <=>
            /\ index[t].path \in {Mail!PathOf[u] : u \in R}
            /\ Mail!PathOf[t] # index[t].path
  BY EntryCases DEF Mail!Rendered
<1>2. e = [t \in MailThreads |-> e[t]]
  BY DEF Mail!NewEntries, Mail!Evict
<1>3. Mail!Known(matched) \subseteq MailThreads /\ R \cap old2 = {}
  BY PathOfValue DEF Mail!Rendered, Mail!Kept, Mail!Postponed
<1>4. \A t \in R : e[t] \in Mail!Entry /\ e[t].path = Mail!PathOf[t]
  BY <1>1, EntryOfType
<1> HIDE DEF e, R, old2
<1>5. \A t \in MailThreads : index[t] \in Mail!Entry \cup {Absent}
  BY MailTypes DEF Mail!Index
<1>6. \A t \in MailThreads : e[t] \in Mail!Entry \cup {Absent}
  BY <1>1, <1>3, <1>4, <1>5
<1>7. e \in Mail!Index
  BY <1>2, <1>6 DEF Mail!Index
<1>8. ASSUME NEW t \in Mail!Known(e), NEW u \in Mail!Known(e), e[t].path = e[u].path
      PROVE  t = u
  <2>1. t \in old2 \cup R /\ u \in old2 \cup R /\ e[t] # Absent /\ e[u] # Absent
        /\ t \in MailThreads /\ u \in MailThreads
    BY <1>1, <1>8 DEF Mail!Known
  <2>2. ASSUME NEW r \in R, NEW o \in old2, e[o] # Absent, e[r].path = e[o].path
        PROVE  FALSE
    <3>1. e[o] = index[o] /\ e[r].path = Mail!PathOf[r]
      BY <1>1, <1>4, <2>2
    <3>2. index[o].path = Mail!PathOf[r] /\ Mail!PathOf[o] = index[o].path
      BY <1>1, <2>2, <3>1
    <3>3. o = r
      BY <1>1, <2>2, <3>2, PathOfValue
    <3> QED
      BY <1>3, <2>2, <3>3
  <2>3. CASE t \in R /\ u \in R
    BY <1>1, <1>4, <1>8, <2>3, PathOfValue
  <2>4. CASE t \in old2 /\ u \in old2
    <3>1. e[t] = index[t] /\ e[u] = index[u]
      BY <1>1, <2>1, <2>4
    <3>2. t \in Mail!Known(index) /\ u \in Mail!Known(index)
      BY <1>1, <2>1, <2>4, MailTypes DEF Mail!Known, Mail!Index
    <3> QED
      BY <1>8, <3>1, <3>2 DEF Mail!Distinct
  <2> QED
    BY <1>8, <2>1, <2>2, <2>3, <2>4
<1> QED
  BY <1>7, <1>8 DEF Mail!Distinct, e

\* The files a pass wants, path by path.
LEMMA NewFilesAre ==
    ASSUME MailAssumed, Mail!TypeOK, NEW fetched \in SUBSET (Mail!Known(matched) \ Mail!Kept)
    PROVE  /\ Mail!NewFiles(fetched)[IndexPath] = [entries |-> Mail!NewEntries(fetched)]
           /\ \A t \in Mail!Rendered(fetched) : Mail!NewFiles(fetched)[Mail!PathOf[t]]
                = Mail!NoteOf(t)
           /\ \A p \in Mail!NoteSlots : p \notin {Mail!PathOf[t] : t \in Mail!Rendered(fetched)} =>
                 Mail!NewFiles(fetched)[p] = Absent
           /\ \A p \in Mail!NoteSlots : Mail!NewFiles(fetched)[p] \in Mail!Note \cup {Absent}
<1> DEFINE R == Mail!Rendered(fetched)
           files == Mail!NewFiles(fetched)
<1>1. R \subseteq Mail!Known(matched) \cap Mail!Known(box)
  BY DEF Mail!Rendered
<1>2. ASSUME NEW p \in Mail!NoteSlots
      PROVE  files[p] = IF \E t \in R : Mail!PathOf[t] = p
                        THEN Mail!NoteOf(CHOOSE t \in R : Mail!PathOf[t] = p) ELSE Absent
  BY RecordTypes DEF Mail!NewFiles, Mail!Paths
<1>3. files[IndexPath] = [entries |-> Mail!NewEntries(fetched)]
  BY DEF Mail!NewFiles, Mail!Paths
<1> HIDE DEF files
<1>4. \A t \in R : files[Mail!PathOf[t]] = Mail!NoteOf(t)
  <2> TAKE t \in R
  <2> DEFINE u == CHOOSE x \in R : Mail!PathOf[x] = Mail!PathOf[t]
  <2>1. u \in R /\ Mail!PathOf[u] = Mail!PathOf[t]
    OBVIOUS
  <2> HIDE DEF R
  <2>2. u = t
    BY <1>1, <2>1, PathOfValue
  <2>3. Mail!PathOf[t] \in Mail!NoteSlots
    BY <1>1, PathOfValue
  <2> QED
    BY <1>2, <2>2, <2>3
<1>5. \A p \in Mail!NoteSlots : p \notin {Mail!PathOf[t] : t \in R} => files[p] = Absent
  BY <1>2
<1>6. \A t \in R : Mail!NoteOf(t) \in Mail!Note
  BY <1>1, EntryOfType
<1>7. \A p \in Mail!NoteSlots : files[p] \in Mail!Note \cup {Absent}
  <2> TAKE p \in Mail!NoteSlots
  <2>1. CASE p \in {Mail!PathOf[t] : t \in R}
    BY <1>4, <1>6, <2>1
  <2>2. CASE p \notin {Mail!PathOf[t] : t \in R}
    BY <1>5, <2>2
  <2> QED
    BY <2>1, <2>2
<1> QED
  BY <1>3, <1>4, <1>5, <1>7 DEF files

\* When the folder listed was described by its index, the one the pass leads to is.
LEMMA RenderDescribes ==
    ASSUME MailAssumed, Mail!TypeOK, index = Mail!Parsed(existing[IndexPath]),
           Mail!Distinct(index), Mail!Described(existing),
           NEW fetched \in SUBSET (Mail!Known(matched) \ Mail!Kept),
           NEW f, DOMAIN f = Mail!Paths,
           \A p \in Mail!Paths : f[p] =
              IF Mail!NewFiles(fetched)[p] = Absent
                /\ p \in Mail!KeptPaths(Mail!Postponed(fetched))
              THEN existing[p] ELSE Mail!NewFiles(fetched)[p]
    PROVE  Mail!Described(f)
<1> DEFINE e == Mail!NewEntries(fetched)
           R == Mail!Rendered(fetched)
           old2 == Mail!Kept \cup Mail!Postponed(fetched)
           files == Mail!NewFiles(fetched)
<1>1. /\ DOMAIN e = MailThreads /\ R \subseteq Mail!Known(matched) \cap Mail!Known(box)
           /\ old2 \subseteq Mail!Known(matched)
      /\ \A t \in old2 : e[t] \in {index[t], Absent} /\ index[t] # Absent
      /\ \A t \in R : e[t] = Mail!EntryOf(t, box[t])
      /\ \A t \in MailThreads \ (old2 \cup R) : e[t] = Absent
      /\ \A t \in old2 : e[t] = Absent <=>
            /\ index[t].path \in {Mail!PathOf[u] : u \in R}
            /\ Mail!PathOf[t] # index[t].path
  BY EntryCases DEF Mail!Rendered
<1>2. /\ files[IndexPath] = [entries |-> e] /\ \A t \in R : files[Mail!PathOf[t]] = Mail!NoteOf(t)
      /\ \A p \in Mail!NoteSlots : p \notin {Mail!PathOf[t] : t \in R} => files[p] = Absent
      /\ \A p \in Mail!NoteSlots : files[p] \in Mail!Note \cup {Absent}
  BY NewFilesAre
<1>3. Mail!KeptPaths(Mail!Postponed(fetched)) = {index[t].path : t \in old2}
  BY DEF Mail!KeptPaths
<1>4. R \cap old2 = {} /\ Mail!Known(matched) \subseteq MailThreads
  BY PathOfValue DEF Mail!Rendered, Mail!Kept, Mail!Postponed
<1> HIDE DEF e, R, old2, files
<1>5. Mail!Parsed(f[IndexPath]) = e
  <2>1. [entries |-> e] \in Mail!IndexFile
    BY NewIndex DEF Mail!IndexFile, e
  <2>2. f[IndexPath] = [entries |-> e]
    BY <1>2, <2>1, RecordTypes DEF Mail!Paths, files
  <2> QED
    BY <2>1, <2>2, RecordTypes DEF Mail!Parsed
<1>6. \A t \in MailThreads : index[t] # Absent =>
         /\ index[t].path \in Mail!NoteSlots
         /\ existing[index[t].path] = [thread |-> t, hid |-> index[t].hid, link |-> index[t].link]
  <2> TAKE t \in MailThreads
  <2>1. index[t] # Absent => t \in Mail!Known(index) /\ index[t] \in Mail!Entry
    BY MailTypes DEF Mail!Known, Mail!Index
  <2> QED
    BY <2>1, RecordTypes DEF Mail!Described
<1>7. \A t \in old2 : e[t] # Absent => index[t].path \notin {Mail!PathOf[u] : u \in R}
  <2> SUFFICES ASSUME NEW t \in old2, e[t] # Absent, NEW u \in R, index[t].path = Mail!PathOf[u]
               PROVE  FALSE
    OBVIOUS
  <2>1. Mail!PathOf[t] = Mail!PathOf[u]
    BY <1>1
  <2>2. t = u
    BY <1>1, <2>1, PathOfValue
  <2> QED
    BY <1>4, <2>2
<1>8. ASSUME NEW t \in Mail!Known(e)
      PROVE  f[e[t].path] = [thread |-> t, hid |-> e[t].hid, link |-> e[t].link]
  <2>1. e[t] # Absent /\ t \in MailThreads /\ t \in old2 \cup R
    BY <1>1, <1>8 DEF Mail!Known
  <2>2. CASE t \in R
    <3>1. e[t].path = Mail!PathOf[t] /\ e[t].hid = box[t].hid /\ e[t].link = view[box[t].who]
          /\ Mail!NoteOf(t) \in Mail!Note /\ Mail!PathOf[t] \in Mail!NoteSlots
      BY <1>1, <2>2, EntryOfType, PathOfValue
    <3>2. f[Mail!PathOf[t]] = Mail!NoteOf(t)
      BY <1>2, <2>2, <3>1, RecordTypes DEF Mail!Paths, files
    <3> QED
      BY <3>1, <3>2 DEF Mail!NoteOf
  <2>3. CASE t \in old2
    <3>1. e[t] = index[t] /\ index[t].path \notin {Mail!PathOf[u] : u \in R}
      BY <1>1, <1>7, <2>1, <2>3
    <3>2. index[t].path \in Mail!NoteSlots /\ files[index[t].path] = Absent
      BY <1>2, <1>6, <2>1, <3>1
    <3>3. f[index[t].path] = existing[index[t].path]
      BY <1>3, <2>3, <3>2 DEF Mail!Paths, files
    <3> QED
      BY <1>6, <2>1, <3>1, <3>3
  <2> QED
    BY <2>1, <2>2, <2>3
<1>9. ASSUME NEW p \in Mail!NoteSlots, f[p] # Absent
      PROVE  \E t \in Mail!Known(e) : e[t].path = p
  <2>1. CASE p \in {Mail!PathOf[t] : t \in R}
    <3>1. PICK t \in R : Mail!PathOf[t] = p
      BY <2>1
    <3>2. e[t] \in Mail!Entry /\ e[t].path = Mail!PathOf[t] /\ t \in MailThreads
      BY <1>1, <1>4, EntryOfType
    <3>3. t \in Mail!Known(e)
      BY <1>1, <3>2, RecordTypes DEF Mail!Known
    <3> QED
      BY <3>1, <3>2, <3>3
  <2>2. CASE p \notin {Mail!PathOf[t] : t \in R}
    <3>1. p \in {index[t].path : t \in old2}
      BY <1>2, <1>3, <1>9, <2>2 DEF Mail!Paths, files
    <3>2. PICK t \in old2 : p = index[t].path
      BY <3>1
    <3>3. e[t] # Absent /\ e[t] = index[t] /\ t \in MailThreads
      BY <1>1, <1>4, <2>2, <3>2
    <3> QED
      BY <1>1, <3>2, <3>3 DEF Mail!Known
  <2> QED
    BY <2>1, <2>2
<1> QED
  BY <1>5, <1>8, <1>9 DEF Mail!Described

--------------------------------------------------------------------------------
(***************************************************************************)
(* The invariant.                                                          *)
(***************************************************************************)

\* Only whether it is torn, the folder, the listing and the operations matter.
LEMMA SameFolder ==
    ASSUME MailAssumed, Mail!IInv, Mail!TypeOK',
           UNCHANGED <<folder, existing, index, pending, edited, torn>>,
           pc' = pc \/ {pc, pc'} \subseteq {"list", "check", "render"}
    PROVE  Mail!IInv'
<1>1. Mail!PathsInjective' /\ Mail!PendingSound'
  BY DEF Mail!IInv, Mail!PathsInjective, Mail!Entries, Mail!PendingSound
<1>2. Mail!PassListing'
  BY DEF Mail!IInv, Mail!PassListing
<1>3. Mail!DescribedAround'
  BY DEF Mail!IInv, Mail!DescribedAround
<1> QED
  BY <1>1, <1>2, <1>3 DEF Mail!IInv

\* Nothing is there yet.
LEMMA MailInit ==
    ASSUME MailAssumed, Mail!Init
    PROVE  Mail!IInv
<1> USE DEF Mail!Init
<1>1. [hid : {0}, who : People, recent : {TRUE}] \subseteq Mail!Thread
  BY RecordTypes DEF Mail!Thread
<1>2. box \in [MailThreads -> Mail!Thread \cup {Absent}]
  BY <1>1
<1>3. Mail!NoThreads \in [MailThreads -> Mail!Meta \cup {Absent}]
        /\ Mail!NoThreads \in [MailThreads -> Mail!Entry \cup {Absent}]
      /\ Mail!NoThreads \in [MailThreads -> Mail!Revisions \cup {Absent}]
      /\ Mail!NoThreads \in [MailThreads -> Mail!Match \cup {Absent}]
  BY DEF Mail!NoThreads
<1>4. Mail!TypeOK
  BY <1>2, <1>3, RecordTypes DEF Mail!TypeOK, IsMail, MailBlobs
<1>5. Mail!Parsed(folder[IndexPath]) = Mail!NoThreads
  BY DEF Mail!NoFiles, Mail!Paths, Mail!Parsed
<1>6. Mail!Known(Mail!NoThreads) = {}
  BY DEF Mail!Known, Mail!NoThreads
<1>7. Mail!PathsInjective /\ Mail!Described(folder)
  BY <1>5, <1>6 DEF Mail!PathsInjective, Mail!Entries, Mail!Distinct, Mail!Described,
     Mail!NoFiles, Mail!Paths
<1>8. Mail!PassListing /\ Mail!PendingSound /\ Mail!DescribedAround
  BY <1>6, <1>7 DEF Mail!PassListing, Mail!PendingSound, Mail!DescribedAround, Mail!IsCurrent,
     Mail!Distinct
<1> QED
  BY <1>4, <1>7, <1>8 DEF Mail!IInv

\* The folder is listed.
LEMMA BeginInv ==
    ASSUME MailAssumed, Mail!IInv, Mail!Begin
    PROVE  Mail!IInv'
<1> USE DEF Mail!outside, Mail!history
<1>1. Mail!TypeOK
  BY DEF Mail!IInv
<1>2. Mail!TypeOK'
  <2>1. existing' \in [Mail!Paths -> Mail!Blobs \cup {Absent}]
    BY <1>1, MailTypes DEF IsMail, MailBlobs, Mail!Begin
  <2>2. view' \in [People -> Links \cup {None}]
    BY <1>1, MailTypes DEF Mail!Begin
  <2> QED
    BY <1>1, <2>1, <2>2 DEF Mail!TypeOK, Mail!Begin
<1>3. /\ UNCHANGED <<folder, index, pending, edited, torn>> /\ existing' = folder
      /\ pc = "idle" /\ pc' = "index" /\ pending = {}
  BY DEF Mail!Begin, Mail!IInv, Mail!PassListing
<1> QED
  BY <1>2, <1>3
     DEF Mail!IInv, Mail!PathsInjective, Mail!Entries, Mail!PassListing, Mail!PendingSound,
       Mail!DescribedAround

\* The index is read: it may be newer than the listing.
LEMMA ReadIndexInv ==
    ASSUME MailAssumed, Mail!IInv, Mail!ReadIndex
    PROVE  Mail!IInv'
<1> USE DEF Mail!outside, Mail!history
<1>1. Mail!TypeOK
  BY DEF Mail!IInv
<1>2. /\ UNCHANGED <<box, old, dir, folder, meta, existing, view, listed, matched, checked, pending,
                     events, edited, torn>>
      /\ pc = "index" /\ pc' = "list"
      /\ index' = IF existing[IndexPath] = Absent THEN Mail!NoThreads
                  ELSE Mail!Parsed(folder[IndexPath])
  BY DEF Mail!ReadIndex
<1>3. index' \in Mail!Index /\ Mail!Distinct(index')
  <2>1. Mail!Distinct(Mail!NoThreads)
    BY DEF Mail!Distinct, Mail!Known, Mail!NoThreads
  <2>2. /\ Mail!Parsed(folder[IndexPath]) \in Mail!Index
        /\ Mail!Distinct(Mail!Parsed(folder[IndexPath]))
    BY <1>1, MailTypes, ParsedType DEF Mail!IInv, Mail!PathsInjective, Mail!Entries
  <2> QED
    BY <1>2, <2>1, <2>2, RecordTypes
<1>4. Mail!TypeOK'
  BY <1>1, <1>2, <1>3 DEF Mail!TypeOK, Mail!Index
<1>5. ~edited => index' = Mail!Parsed(existing[IndexPath])
  BY <1>2 DEF Mail!IInv, Mail!PassListing, Mail!Parsed
<1> QED
  BY <1>2, <1>3, <1>4, <1>5
     DEF Mail!IInv, Mail!PathsInjective, Mail!Entries, Mail!PassListing, Mail!PendingSound,
       Mail!DescribedAround

\* The mailbox is listed and looked at.
LEMMA LookInv ==
    ASSUME MailAssumed, Mail!IInv, Mail!ListThreads \/ Mail!CheckThreads
    PROVE  Mail!IInv'
<1> USE DEF Mail!outside, Mail!history
<1>1. Mail!TypeOK
  BY DEF Mail!IInv
<1>2. CASE Mail!ListThreads
  <2>1. \A t \in MailThreads : box[t] # Absent => box[t].hid \in Mail!Revisions
    BY <1>1, MailTypes, RecordTypes
  <2>2. listed' \in [MailThreads -> Mail!Revisions \cup {Absent}]
    BY <1>2, <2>1 DEF Mail!ListThreads
  <2>3. Mail!TypeOK'
    BY <1>1, <1>2, <2>2 DEF Mail!TypeOK, Mail!ListThreads
  <2> QED
    BY <1>2, <2>3, SameFolder DEF Mail!ListThreads
<1>3. CASE Mail!CheckThreads
  <2>1. Mail!TypeOK'
    BY <1>1, <1>3, CheckTypes
  <2> QED
    BY <1>3, <2>1, SameFolder DEF Mail!CheckThreads
<1> QED
  BY <1>2, <1>3

\* The operations lead to a folder as it should be.
LEMMA RenderInv ==
    ASSUME MailAssumed, Mail!IInv, Mail!Render
    PROVE  Mail!IInv'
<1> USE DEF Mail!outside, Mail!history
<1>1. Mail!TypeOK
  BY DEF Mail!IInv
<1>2. PICK fetched \in SUBSET (Mail!Known(matched) \ Mail!Kept) :
         /\ meta' = [t \in MailThreads |-> IF t \in Mail!Rendered(fetched)
              THEN Mail!MetaOf(box[t]) ELSE meta[t]]
         /\ pending' = Mail!Diff(Mail!NewFiles(fetched), existing,
              Mail!KeptPaths(Mail!Postponed(fetched)))
  BY DEF Mail!Render
<1>3. /\ UNCHANGED <<box, old, dir, folder, existing, index, view, listed, matched, checked,
                     events, edited, torn>>
      /\ pc = "render" /\ pc' = "commit"
  BY DEF Mail!Render
<1>4. /\ ~edited => existing = folder /\ index = Mail!Parsed(existing[IndexPath])
      /\ Mail!Distinct(index)
  BY <1>3 DEF Mail!IInv, Mail!PassListing
<1>5. DOMAIN existing = Mail!Paths
  BY <1>1, MailTypes
<1>6. /\ OnePerPath(pending')
      /\ \A c \in pending' : /\ c.path \in Mail!Paths /\ c.from = existing[c.path]
                             /\ c.to = Mail!NewFiles(fetched)[c.path]
      /\ \A p \in Mail!Paths : Mail!Committed(existing, pending')[p] =
            IF Mail!NewFiles(fetched)[p] = Absent /\ p \in Mail!KeptPaths(Mail!Postponed(fetched))
            THEN existing[p] ELSE Mail!NewFiles(fetched)[p]
  BY <1>2, <1>5, CommitsAre, DiffLeads
<1>7. \A c \in pending' : IsSound(c)
  <2> TAKE c \in pending'
  <2>1. CASE c.path = IndexPath
    <3>1. c.to = [entries |-> Mail!NewEntries(fetched)]
      BY <1>1, <1>6, <2>1, NewFilesAre
    <3>2. c.to \in Mail!IndexFile /\ c.to.entries = Mail!NewEntries(fetched)
      BY <1>1, <1>4, <3>1, NewIndex DEF Mail!IndexFile
    <3> QED
      BY <1>1, <1>4, <2>1, <3>2, NewIndex DEF IsSound
  <2>2. CASE c.path \in Mail!NoteSlots
    BY <1>1, <1>6, <2>2, NewFilesAre DEF IsSound
  <2> QED
    BY <1>6, <2>1, <2>2 DEF Mail!Paths
<1>8. meta' \in [MailThreads -> Mail!Meta \cup {Absent}]
  <2>1. \A t \in Mail!Rendered(fetched) : Mail!MetaOf(box[t]) \in Mail!Meta
    BY <1>1, MailTypes, RecordTypes DEF Mail!Rendered, Mail!Known
  <2>2. \A t \in MailThreads : meta[t] \in Mail!Meta \cup {Absent}
    BY <1>1, MailTypes
  <2> QED
    BY <1>2, <2>1, <2>2
<1>9. Mail!TypeOK'
  BY <1>1, <1>3, <1>6, <1>8 DEF Mail!TypeOK
<1>10. Mail!PathsInjective' /\ Mail!PassListing' /\ Mail!PendingSound'
  <2>1. Mail!PathsInjective' /\ Mail!PendingSound'
    BY <1>3, <1>6, <1>7
       DEF Mail!IInv, Mail!PathsInjective, Mail!Entries, Mail!PendingSound, OnePerPath, IsSound
  <2>2. ~edited => Mail!IsCurrent(folder, pending')
    BY <1>4, <1>6 DEF Mail!IsCurrent
  <2> QED
    BY <1>3, <1>4, <2>1, <2>2 DEF Mail!PassListing
<1>11. Mail!DescribedAround'
  <2> SUFFICES ASSUME ~edited, ~torn
               PROVE  Mail!Described(existing) /\ Mail!Described(Mail!Committed(folder, pending'))
    BY <1>3 DEF Mail!DescribedAround
  <2>1. Mail!Described(existing)
    BY <1>3, <1>4 DEF Mail!IInv, Mail!DescribedAround
  <2>2. DOMAIN Mail!Committed(existing, pending') = Mail!Paths
    BY <1>5, CommitsAre, CommittedDomain
  <2>3. Mail!Described(Mail!Committed(existing, pending'))
    BY <1>1, <1>4, <1>6, <2>1, <2>2, RenderDescribes
  <2> QED
    BY <1>4, <2>1, <2>3
<1> QED
  BY <1>9, <1>10, <1>11 DEF Mail!IInv

\* A batch leaves an index of distinct notes, whichever part of the operations it is.
LEMMA PostBatchInv ==
    ASSUME MailAssumed, Mail!IInv, Mail!PostBatch
    PROVE  Mail!IInv'
<1> USE DEF Mail!outside, Mail!history
<1>1. Mail!TypeOK
  BY DEF Mail!IInv
<1>2. PICK b \in SUBSET pending : /\ Mail!IsCurrent(folder, b)
                                  /\ folder' = Mail!Committed(folder, b) /\ pending' = pending \ b
  BY DEF Mail!PostBatch, Mail!Batches
<1>3. UNCHANGED <<box, old, dir, meta, pc, existing, index, view, listed, matched, checked,
                  events, edited, torn>> /\ pc = "commit"
  BY DEF Mail!PostBatch
<1>4. OnePerPath(pending) /\ OnePerPath(b) /\ \A c \in pending : IsSound(c)
  BY DEF Mail!IInv, Mail!PendingSound, OnePerPath, IsSound
<1>5. IsMail(folder) /\ IsMail(folder')
  BY <1>1, <1>2, <1>4, MailTypes, CommittedType
<1>6. Mail!TypeOK'
  BY <1>1, <1>2, <1>3, <1>5 DEF Mail!TypeOK, IsMail, MailBlobs
<1>7. Mail!PathsInjective'
  <2>1. IndexPath \in DOMAIN folder
    BY <1>5 DEF IsMail, Mail!Paths
  <2>2. CASE \A c \in b : c.path # IndexPath
    <3>1. folder'[IndexPath] = folder[IndexPath]
      BY <1>2, <1>4, <2>1, <2>2, CommitsAre, CommittedAt
    <3> QED
      BY <3>1 DEF Mail!IInv, Mail!PathsInjective, Mail!Entries
  <2>3. CASE \E c \in b : c.path = IndexPath
    <3>1. PICK c \in b : c.path = IndexPath
      BY <2>3
    <3>2. folder'[IndexPath] = c.to
      BY <1>2, <1>4, <2>1, <3>1, CommitsAre, CommittedAt
    <3>3. c.to \in Mail!IndexFile /\ Mail!Distinct(c.to.entries)
      BY <1>4, <3>1, RecordTypes DEF IsSound
    <3>4. Mail!Parsed(folder'[IndexPath]) = c.to.entries
      BY <3>2, <3>3, RecordTypes DEF Mail!Parsed
    <3> QED
      BY <3>3, <3>4 DEF Mail!PathsInjective, Mail!Entries
  <2> QED
    BY <2>2, <2>3
<1>8. Mail!PassListing' /\ Mail!PendingSound'
  <2>1. ASSUME ~edited, NEW c \in pending \ b
        PROVE  folder'[c.path] = c.from
    <3>1. folder[c.path] = c.from
      BY <1>3, <2>1 DEF Mail!IInv, Mail!PassListing, Mail!IsCurrent
    <3>2. c.path \in DOMAIN folder /\ \A d \in b : d.path # c.path
      BY <1>1, <1>4, <1>5 DEF Mail!TypeOK, IsMail, OnePerPath
    <3> QED
      BY <1>2, <1>4, <3>1, <3>2, CommitsAre, CommittedAt
  <2> QED
    BY <1>2, <1>3, <2>1 DEF Mail!IInv, Mail!PassListing, Mail!PendingSound, Mail!IsCurrent
<1>9. Mail!Committed(folder', pending') = Mail!Committed(folder, pending)
  BY <1>2, <1>4, CommitsAre, BatchTarget
<1>10. Mail!DescribedAround'
  BY <1>3, <1>9 DEF Mail!IInv, Mail!DescribedAround
<1> QED
  BY <1>6, <1>7, <1>8, <1>10 DEF Mail!IInv

\* Without operations a commit changes nothing.
LEMMA NothingCommitted ==
    ASSUME MailAssumed, Mail!TypeOK
    PROVE  Mail!Committed(folder, {}) = folder
<1>1. folder = [p \in Mail!Paths |-> folder[p]]
  BY MailTypes DEF IsMail
<1>2. Mail!Committed(folder, {}) = [p \in Mail!Paths |-> folder[p]]
  BY <1>1 DEF Mail!Committed
<1> QED
  BY <1>1, <1>2

\* Forgejo finds what a pass listed, unless somebody edited the folder meanwhile.
LEMMA AcceptedUnlessEdited ==
    ASSUME Mail!IInv, ~edited, NEW b \in Mail!Batches(pending, {IndexPath})
    PROVE  ~Mail!IsStale(folder, b) /\ ~Mail!IsGone(folder, b)
<1>1. Mail!IsCurrent(folder, pending)
  BY DEF Mail!IInv, Mail!PassListing
<1>2. b \subseteq pending
  BY DEF Mail!Batches
<1> QED
  BY <1>1, <1>2 DEF Mail!IsCurrent, Mail!IsStale, Mail!IsGone

\* A pass ends, done or broken off: what it leaves is described unless it is torn.
LEMMA EndInv ==
    ASSUME MailAssumed, Mail!IInv,
           Mail!Finish \/ Mail!PostRefused \/ Mail!RequestFails \/ Mail!Restart
    PROVE  Mail!IInv'
<1> USE DEF Mail!outside, Mail!history
<1>1. Mail!TypeOK
  BY DEF Mail!IInv
<1>2. Mail!EndPass /\ UNCHANGED <<box, old, dir, folder, edited>>
  BY DEF Mail!Finish, Mail!PostRefused, Mail!RequestFails, Mail!Restart
<1>3. meta' \in [MailThreads -> Mail!Meta \cup {Absent}]
  BY <1>1, MailTypes DEF Mail!Finish, Mail!PostRefused, Mail!RequestFails, Mail!Restart,
     Mail!NoThreads
<1>4. events' \in 0 .. MaxEvents
  BY <1>1, MailTypes DEF Mail!Finish, Mail!PostRefused, Mail!RequestFails, Mail!Restart,
     Mail!Event, MailAssumed, Mail!BoundsAssumption
<1>5. torn' \in BOOLEAN /\ edited' \in BOOLEAN
  BY <1>1, <1>2, MailTypes DEF Mail!Finish, Mail!PostRefused, Mail!RequestFails, Mail!Restart
<1>6. /\ existing' = Mail!NoFiles /\ index' = Mail!NoThreads /\ view' = Mail!NoView
           /\ listed' = Mail!NoThreads
      /\ matched' = Mail!NoThreads /\ checked' = 0 /\ pending' = {} /\ pc' = "idle"
  BY <1>2 DEF Mail!EndPass
<1>7. Mail!TypeOK'
  <2>1. listed' \in [MailThreads -> Mail!Revisions \cup {Absent}]
          /\ matched' \in [MailThreads -> Mail!Match \cup {Absent}]
    BY <1>6 DEF Mail!NoThreads
  <2>2. existing' \in [Mail!Paths -> MailBlobs] /\ index' \in Mail!Index
          /\ view' \in [People -> Links \cup {None}]
        /\ checked' \in 0 .. MaxFetch
    BY <1>6, RecordTypes DEF IsMail
  <2>3. box' \in [MailThreads -> Mail!Thread \cup {Absent}] /\ old' \subseteq MailThreads
        /\ dir' \in [People -> Links \cup {None}] /\ IsMail(folder')
    BY <1>1, <1>2, MailTypes
  <2> QED
    BY <1>3, <1>4, <1>5, <1>6, <2>1, <2>2, <2>3, MailTypesAre
<1>8. Mail!PathsInjective' /\ Mail!PassListing' /\ Mail!PendingSound'
  <2>1. Mail!Distinct(Mail!NoThreads)
    BY DEF Mail!Distinct, Mail!Known, Mail!NoThreads
  <2> QED
    BY <1>2, <1>6, <2>1
       DEF Mail!IInv, Mail!PathsInjective, Mail!Entries, Mail!PassListing, Mail!PendingSound,
         Mail!IsCurrent
<1>9. Mail!DescribedAround'
  <2> SUFFICES ASSUME ~torn', ~edited
               PROVE  Mail!Described(folder)
    BY <1>2, <1>6 DEF Mail!DescribedAround
  <2>1. ~torn /\ ~Mail!PostRefused
    <3>1. ~Mail!PostRefused
      BY AcceptedUnlessEdited DEF Mail!PostRefused
    <3>2. torn => torn'
      BY DEF Mail!Finish, Mail!PostRefused, Mail!RequestFails, Mail!Restart
    <3> QED
      BY <3>1, <3>2
  <2>2. CASE pc # "commit"
    BY <2>1, <2>2 DEF Mail!IInv, Mail!DescribedAround
  <2>3. CASE pc = "commit" /\ pending = {}
    BY <1>1, <2>1, <2>3, NothingCommitted DEF Mail!IInv, Mail!DescribedAround
  <2>4. CASE pc = "commit" /\ folder = existing
    BY <2>1, <2>4 DEF Mail!IInv, Mail!DescribedAround
  <2> QED
    BY <2>1, <2>2, <2>3, <2>4 DEF Mail!Finish, Mail!RequestFails, Mail!Restart
<1> QED
  BY <1>7, <1>8, <1>9 DEF Mail!IInv

\* A batch that Forgejo misses a file of is given up.
LEMMA DroppedInv ==
    ASSUME MailAssumed, Mail!IInv, Mail!PostDropped
    PROVE  Mail!IInv'
<1> USE DEF Mail!outside
<1>1. /\ UNCHANGED <<box, old, dir, folder, meta, pc, existing, index, view, listed, matched, checked,
                     events, edited>>
      /\ torn' \in BOOLEAN /\ pending' \subseteq pending /\ pc = "commit"
  BY MailTypes DEF Mail!PostDropped, Mail!IInv
<1>2. Mail!TypeOK'
  BY <1>1 DEF Mail!IInv, Mail!TypeOK
<1>3. edited' /\ edited
  BY <1>1, AcceptedUnlessEdited DEF Mail!PostDropped
<1> QED
  BY <1>1, <1>2, <1>3
     DEF Mail!IInv, Mail!PathsInjective, Mail!Entries, Mail!PassListing, Mail!PendingSound,
       Mail!DescribedAround, Mail!IsCurrent

\* An index edited by hand claims nothing.
LEMMA EditByHandInv ==
    ASSUME MailAssumed, Mail!IInv, Mail!EditByHand
    PROVE  Mail!IInv'
<1> USE DEF Mail!outside, Mail!local
<1>1. Mail!TypeOK /\ IsMail(folder)
  BY MailTypes DEF Mail!IInv
<1>2. PICK p \in Mail!Paths, b \in {Hand, Absent} :
         /\ folder' = [folder EXCEPT ![p] = b]
         /\ torn' = (torn \/ (p # IndexPath /\ b = Hand))
  BY DEF Mail!EditByHand
<1>3. /\ UNCHANGED <<box, old, dir, meta, pc, existing, index, view, listed, matched, checked, pending>>
      /\ edited' = TRUE /\ Mail!Event
  BY DEF Mail!EditByHand
<1>4. IsMail(folder')
  <2>1. b \in MailBlobs
    BY DEF MailBlobs, Mail!Blobs
  <2>2. folder' \in [Mail!Paths -> MailBlobs]
    BY <1>1, <1>2, <2>1 DEF IsMail
  <2>3. ASSUME NEW q \in Mail!Paths
        PROVE  folder'[q] \in {folder[q], Hand, Absent}
    BY <1>1, <1>2 DEF IsMail
  <2>4. IndexPath \in Mail!Paths /\ Mail!NoteSlots \subseteq Mail!Paths
    BY DEF Mail!Paths
  <2> QED
    BY <1>1, <2>2, <2>3, <2>4 DEF IsMail
<1>5. events' \in 0 .. MaxEvents /\ torn' \in BOOLEAN
  BY <1>1, <1>2, <1>3, MailTypes DEF Mail!Event, MailAssumed, Mail!BoundsAssumption
<1>6. Mail!TypeOK'
  BY <1>1, <1>3, <1>4, <1>5 DEF Mail!TypeOK, IsMail, MailBlobs
<1>7. Mail!PathsInjective'
  <2>1. CASE p = IndexPath
    <3>1. Mail!Parsed(folder'[IndexPath]) = Mail!NoThreads
      BY <1>1, <1>2, <2>1 DEF IsMail, Mail!Paths, Mail!Parsed
    <3> QED
      BY <3>1 DEF Mail!PathsInjective, Mail!Entries, Mail!Distinct, Mail!Known, Mail!NoThreads
  <2>2. CASE p # IndexPath
    <3>1. folder'[IndexPath] = folder[IndexPath]
      BY <1>1, <1>2, <2>2 DEF IsMail, Mail!Paths
    <3> QED
      BY <3>1 DEF Mail!IInv, Mail!PathsInjective, Mail!Entries
  <2> QED
    BY <2>1, <2>2
<1>8. Mail!PassListing' /\ Mail!PendingSound' /\ Mail!DescribedAround'
  BY <1>3 DEF Mail!IInv, Mail!PassListing, Mail!PendingSound, Mail!DescribedAround
<1> QED
  BY <1>6, <1>7, <1>8 DEF Mail!IInv

\* The mailbox, the rules and the pages change.
MailboxChanges ==
    Mail!MessageArrives \/ Mail!DeleteThread \/ Mail!TimePasses \/ Mail!DirectoryChanges

LEMMA WorldInv ==
    ASSUME MailAssumed, Mail!IInv, MailboxChanges
    PROVE  Mail!IInv'
<1> USE DEF Mail!local, Mail!history, MailboxChanges
<1>1. Mail!TypeOK
  BY DEF Mail!IInv
<1>2. UNCHANGED <<folder, meta, pc, existing, index, view, listed, matched, checked, pending,
        edited, torn>>
      /\ Mail!Event
  BY DEF Mail!MessageArrives, Mail!DeleteThread, Mail!TimePasses, Mail!DirectoryChanges
<1>3. events' \in 0 .. MaxEvents /\ events' \in Mail!Revisions
  BY <1>1, <1>2, MailTypes DEF Mail!Event, Mail!Revisions, MailAssumed, Mail!BoundsAssumption
<1>4. box' \in [MailThreads -> Mail!Thread \cup {Absent}]
  <2>1. CASE Mail!MessageArrives
    BY <1>1, <1>3, <2>1, MailTypes DEF Mail!MessageArrives, Mail!Thread
  <2>2. CASE Mail!DeleteThread
    BY <1>1, <2>2, MailTypes DEF Mail!DeleteThread
  <2>3. CASE Mail!TimePasses
    <3>1. PICK t \in Mail!Known(box) : \E recent \in {box[t].recent, FALSE} :
             box' = [box EXCEPT ![t].recent = recent]
      BY <2>3 DEF Mail!TimePasses
    <3>2. box[t] \in Mail!Thread /\ t \in MailThreads
      BY <1>1, MailTypes DEF Mail!Known
    <3>3. \A recent \in {box[t].recent, FALSE} : [box[t] EXCEPT !.recent = recent] \in Mail!Thread
      BY <3>2 DEF Mail!Thread
    <3> QED
      BY <1>1, <3>1, <3>3, MailTypes
  <2>4. CASE Mail!DirectoryChanges
    BY <1>1, <2>4, MailTypes DEF Mail!DirectoryChanges
  <2> QED
    BY <2>1, <2>2, <2>3, <2>4
<1>5. old' \subseteq MailThreads
  BY <1>1, MailTypes DEF Mail!MessageArrives, Mail!DeleteThread, Mail!TimePasses,
     Mail!DirectoryChanges, Mail!Known
<1>6. dir' \in [People -> Links \cup {None}]
  BY <1>1, MailTypes DEF Mail!MessageArrives, Mail!DeleteThread, Mail!TimePasses,
     Mail!DirectoryChanges
<1>7. Mail!TypeOK'
  BY <1>1, <1>2, <1>3, <1>4, <1>5, <1>6 DEF Mail!TypeOK
<1> QED
  BY <1>2, <1>7, SameFolder

\* Every step keeps the invariant.
LEMMA MailNext ==
    ASSUME MailAssumed
    PROVE  Mail!IInv /\ [Mail!Next]_Mail!vars => Mail!IInv'
<1> SUFFICES ASSUME Mail!IInv, [Mail!Next]_Mail!vars
             PROVE  Mail!IInv'
  OBVIOUS
<1>1. CASE Mail!Pass
  BY <1>1, BeginInv, ReadIndexInv, LookInv, RenderInv, PostBatchInv, DroppedInv, EndInv
     DEF Mail!Pass
<1>2. CASE Mail!RequestFails \/ Mail!Restart \/ Mail!World
  BY <1>2, EndInv, WorldInv, EditByHandInv DEF Mail!World, MailboxChanges
<1>3. CASE UNCHANGED Mail!vars
  <2>1. UNCHANGED <<box, old, dir, folder, meta, pc, existing, index, view, listed, matched,
                    checked, pending, events, edited, torn>>
    BY <1>3 DEF Mail!vars, Mail!outside, Mail!local, Mail!history
  <2>2. Mail!TypeOK'
    BY <2>1 DEF Mail!IInv, Mail!TypeOK
  <2> QED
    BY <2>1, <2>2, SameFolder
<1> QED
  BY <1>1, <1>2, <1>3 DEF Mail!Next

\* The inductive invariant of the Gmail source holds.
THEOREM MailInvariant ==
    ASSUME MailAssumed
    PROVE  Mail!Spec => []Mail!IInv
BY MailInit, MailNext, PTL DEF Mail!Spec

\* Whatever is postponed, evicted or renamed and however passes break off, no two
\* threads of the index share a note, though people edit the index too; and unless
\* somebody edited the folder or a pass landed only in part the index says what the
\* notes are.
THEOREM MailSafe ==
    ASSUME MailAssumed
    PROVE  Mail!Spec => []Mail!Safe
<1>1. Mail!IInv => Mail!Safe
  BY DEF Mail!IInv, Mail!Safe, Mail!IndexMatchesNotes, Mail!DescribedAround
<1> QED
  BY <1>1, MailInvariant, PTL
--------------------------------------------------------------------------------
(***************************************************************************)
(* The promise of the Gmail source.                                        *)
(***************************************************************************)

\* A batch that Forgejo takes changes only files that are as they were listed.
LEMMA MailLanding ==
    ASSUME MailAssumed, Mail!IInv, Mail!PostBatch
    PROVE  Mail!Promise!Commit
<1>1. PICK b \in SUBSET pending : Mail!IsCurrent(folder, b) /\ folder' = Mail!Committed(folder, b)
  BY DEF Mail!PostBatch, Mail!Batches
<1>2. /\ pc = "commit" /\ UNCHANGED <<pc, existing, events>>
      /\ DOMAIN folder = Mail!Paths /\ existing \in [Mail!Paths -> Mail!Blobs \cup {Absent}]
  BY MailTypes DEF Mail!PostBatch, Mail!IInv, IsMail, MailBlobs
<1>3. folder' \in Mail!Promise!States
  BY PostBatchInv DEF Mail!IInv, Mail!TypeOK, Mail!Promise!States
<1>4. ASSUME NEW p \in Mail!Paths, folder'[p] # folder[p]
      PROVE  folder[p] = existing[p]
  <2>1. PICK c \in b : c.path = p
    BY <1>1, <1>2, <1>4 DEF Mail!Committed
  <2>2. folder[p] = c.from
    BY <1>1, <2>1 DEF Mail!IsCurrent
  <2> QED
    BY <1>1, <2>1, <2>2 DEF Mail!IInv, Mail!PendingSound
<1>5. existing # Nothing
  BY <1>2 DEF MailAssumed, Mail!NothingAssumption
<1> QED
  BY <1>2, <1>3, <1>4, <1>5 DEF Mail!Promise!Commit

\* Every step of the source and around it is one that the promise allows.
LEMMA MailPromiseStep ==
    ASSUME MailAssumed, Mail!IInv, [Mail!Next]_(Mail!vars)
    PROVE  [Mail!Promise!Next]_(Mail!Promise!vars)
<1> USE DEF Mail!Promise!Next, Mail!Promise!vars, Mail!Event
<1>1. CASE Mail!Begin
  BY <1>1 DEF Mail!Begin, Mail!Promise!Look
<1>2. CASE Mail!PostBatch
  BY <1>2, MailLanding
<1>3. CASE Mail!ReadIndex \/ Mail!ListThreads \/ Mail!CheckThreads \/ Mail!Render \/ Mail!PostDropped
  BY <1>3 DEF Mail!ReadIndex, Mail!ListThreads, Mail!CheckThreads, Mail!Render, Mail!PostDropped
<1>4. CASE Mail!PostRefused \/ Mail!Finish \/ Mail!RequestFails \/ Mail!Restart
  <2>1. folder' = folder /\ pc' = "idle" /\ events' \in {events, events + 1}
    BY <1>4 DEF Mail!PostRefused, Mail!Finish, Mail!RequestFails, Mail!Restart, Mail!EndPass
  <2> QED
    BY <2>1 DEF Mail!Promise!Forget
<1>5. CASE MailboxChanges
  <2>1. UNCHANGED <<folder, pc, existing>> /\ events' = events + 1
    BY <1>5 DEF MailboxChanges, Mail!MessageArrives, Mail!DeleteThread, Mail!TimePasses,
       Mail!DirectoryChanges, Mail!local
  <2> QED
    BY <2>1 DEF Mail!Promise!Elapse
<1>6. CASE Mail!EditByHand
  <2>1. PICK p \in Mail!Paths, b \in {Hand, Absent} : folder' = [folder EXCEPT ![p] = b]
    BY <1>6 DEF Mail!EditByHand
  <2>2. p \in Mail!Paths /\ b \in Mail!Blobs \cup {Absent}
    BY DEF MailAssumed, Mail!DistinctAssumption, Mail!Blobs
  <2>3. UNCHANGED <<pc, existing>> /\ events' = events + 1
    BY <1>6 DEF Mail!EditByHand, Mail!local
  <2> QED
    BY <2>1, <2>2, <2>3 DEF Mail!Promise!Edit
<1>7. CASE UNCHANGED Mail!vars
  BY <1>7 DEF Mail!vars, Mail!local
<1> QED
  BY <1>1, <1>2, <1>3, <1>4, <1>5, <1>6, <1>7
     DEF Mail!Next, Mail!Pass, Mail!World, MailboxChanges

\* GmailSync implements ConditionalCommits: what sync_google renders, keeps, postpones
\* or evicts, index and notes replace and remove only files that are as the pass
\* listed them, however passes break off and whatever people edit meanwhile.
THEOREM MailConditional ==
    ASSUME MailAssumed
    PROVE  Mail!Spec => Mail!KeepsPromise
<1>1. Mail!Init => Mail!Promise!Init
  BY DEF Mail!Init, Mail!NoFiles, Mail!Promise!Init, Mail!Promise!States
<1>2. Mail!IInv /\ [Mail!Next]_(Mail!vars) => [Mail!Promise!Next]_(Mail!Promise!vars)
  BY MailPromiseStep
<1> QED
  BY <1>1, <1>2, MailInvariant, PTL DEF Mail!Spec, Mail!KeepsPromise, Mail!Promise!Spec
================================================================================
