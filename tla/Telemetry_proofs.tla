-------------------------- MODULE Telemetry_proofs --------------------------
(***************************************************************************)
(* What holds of Telemetry for every size of the queue, every number of    *)
(* requests, days and faults, and whatever the runs of a backend print.    *)
(***************************************************************************)
EXTENDS Telemetry, Queues_proofs, FiniteSetTheorems

Kinds == {"evicted", "state"}
Figures == [evictions : Nat, prompts : Nat]
FreshLines == [line : Nat \X Nat, kind : Kinds]
Watches == [pc : {"off", "idle", "asked", "open", "lines"}, offset : Nat, inode : Nat,
            replay : Nat, stats : Figures, fresh : Seq(FreshLines)]
Placed == [ino : Nat, lines : Nat, found : Nat]

-----------------------------------------------------------------------------
(* The inductive invariant: the log and the watch *)

\* The log at the path is what its backend printed so far.
Logged ==
    /\ ino \in 1..Len(Prints)
    /\ log \in Seq(Kinds) /\ Len(log) <= Len(Prints[ino])
    /\ \A i \in 1..Len(log) : log[i] = Prints[ino][i]
    /\ half \in BOOLEAN /\ there \in BOOLEAN
    /\ half => log # <<>>
    /\ ~there => log = <<>> /\ ino < Len(Prints)

\* The lines the watch has read, and those of them it has counted.
ReadUp == watch.offset \div 2
Heard == ReadUp - Len(watch.fresh)

\* The watch's place: a log it knows is never shorter than what it has read, and
\* the poll that meets a log moved since its stat finds it empty.
Following ==
    /\ watch \in Watches /\ watch.offset = 2 * ReadUp
    /\ watch.inode <= ino
    /\ watch.pc = "off" => watch.inode = 0
    /\ watch.inode = 0 => /\ watch.offset = 0 /\ watch.stats = Zero
                          /\ watch.pc \notin {"open", "lines"}
    /\ watch.pc # "lines" => watch.fresh = <<>>
    /\ Overtaken => log = <<>>
    /\ watch.inode # 0 => ReadUp <= Len(Prints[watch.inode])
    /\ there /\ watch.inode = ino => ReadUp <= Complete

\* What is read and not counted yet: the lines that come next.
Fresh ==
    /\ Len(watch.fresh) <= ReadUp
    /\ \A i \in 1..Len(watch.fresh) :
          /\ watch.fresh[i].line = <<watch.inode, Heard + i>>
          /\ watch.fresh[i].kind = Prints[watch.inode][Heard + i]

\* Totals, of what the backend of log g printed.
TotalsOf(g, n) ==
    LET evicted == {i \in 1..n : Prints[g][i] = "evicted"}
        states  == {i \in 1..n : Prints[g][i] = "state"}
    IN  [evictions |-> Cardinality(evicted),
         prompts   |-> IF states = {} THEN 0
                       ELSE CHOOSE i \in states : \A j \in states : j <= i]

Totalled ==
    /\ watch.inode # 0 => watch.stats = TotalsOf(watch.inode, Heard)
    /\ shown \in Figures
    /\ watch.pc \in {"off", "idle", "asked"} => shown = watch.stats

-----------------------------------------------------------------------------
(* The inductive invariant: what is offered *)

Rowed ==
    /\ offered \in Seq(Rows) /\ today \in Days
    /\ stamp \in [Requesters -> Days \cup {NoDay}]

\* A request writes once.
Once ==
    /\ \A r \in Requesters : stamp[r] # NoDay => ~HasWritten(r)
    /\ \A i, j \in 1..Len(offered) :
          offered[i].by = offered[j].by /\ offered[i].by # "watch" => i = j

FromWatch(i) == i \in 1..Len(offered) /\ offered[i].by = "watch"

\* The watch offers lines it has counted, each once.
Told ==
    /\ \A i \in 1..Len(offered) : FromWatch(i) =>
          /\ offered[i].n \in Nat \X Nat /\ offered[i].n[1] \in 1..watch.inode
          /\ offered[i].n[1] = watch.inode => offered[i].n[2] \in 1..Heard
    /\ \A i, j \in 1..Len(offered) :
          FromWatch(i) /\ FromWatch(j) /\ offered[i].n = offered[j].n => i = j

\* How much of the log it found first the watch replays: of the others nothing.
Replays ==
    /\ before \in Placed
    /\ before.found <= watch.inode /\ (watch.inode # 0 => before.found # 0)
    /\ watch.pc = "off" => watch.replay = 0 /\ before.lines = 0
    /\ IF watch.inode = before.found
       THEN watch.replay = 2 * before.lines \/ watch.replay = 2 * before.lines + 1
       ELSE watch.replay = 0

\* A line of log g that the sink should have.
Due(g, n) == Prints[g][n] = "evicted" /\ (g = before.found => n > before.lines)

Sunk ==
    watch.inode # 0 =>
        /\ \A i \in 1..Len(offered) : FromWatch(i) /\ offered[i].n[1] = watch.inode =>
              Due(watch.inode, offered[i].n[2])
        /\ \A n \in 1..Heard : Due(watch.inode, n) =>
              \E i \in 1..Len(offered) :
                  FromWatch(i) /\ offered[i].n[1] = watch.inode /\ offered[i].n[2] = n

-----------------------------------------------------------------------------
(* The inductive invariant: the rows on their way to the files *)

Filed ==
    /\ queue \in Seq(Rows) /\ Len(queue) <= MaxQueue
    /\ hand \in Rows \cup {NoRow}
    /\ files \in [Days -> Seq(Rows)] /\ buffer \in Seq(Rows)
    /\ handle \in {"none", "open", "closed"} /\ day \in Days \cup {NoDay}
    /\ (buffer # <<>> => handle = "open") /\ (handle # "none" => day # NoDay)
    /\ dropped \in Nat
    /\ flusher \in [pc : {"out", "in", "back"}, rows : SUBSET Rows]

\* The pairs of rows of which the first was written before the second.
Earlier == {p \in Rows \X Rows :
               \E i, j \in 1..Len(offered) : i < j /\ p = <<offered[i], offered[j]>>}

OrderedBy(R, s) == \A i, j \in 1..Len(s) : i < j => <<s[i], s[j]>> \in R

InHand == {hand} \ {NoRow}
Gone == InFiles \cup Range(buffer)

\* The files, what is left in the handle, the row in hand and the queue hold
\* rows in the order of their writes.
InOrder ==
    /\ Gone \cup InHand \cup Range(queue) \subseteq Range(offered)
    /\ \A d \in Days : OrderedBy(Earlier, files[d])
    /\ OrderedBy(Earlier, buffer) /\ OrderedBy(Earlier, queue)
    /\ day # NoDay => Range(files[day]) \X Range(buffer) \subseteq Earlier
    /\ Gone \X InHand \subseteq Earlier
    /\ (Gone \cup InHand) \X Range(queue) \subseteq Earlier

\* Each is of its file's day.
UnderDay ==
    /\ \A d \in Days : \A x \in Range(files[d]) : x.day = d
    /\ \A x \in Range(buffer) : x.day = day

\* What was written and is neither in a file nor on its way there.
Lost == Range(offered) \ (InFiles \cup InHand \cup Range(queue))

Accounted ==
    /\ IsFiniteSet(Range(offered)) /\ Cardinality(Lost) <= dropped
    /\ flusher.rows \subseteq Range(offered)
    /\ FlushCovers

Watching == Logged /\ Following /\ Fresh /\ Totalled
Offering == Rowed /\ Once /\ Told
Sinking == Replays /\ Sunk
Writing == Filed /\ InOrder /\ UnderDay /\ Accounted

IInv == Watching /\ Offering /\ Sinking /\ Writing
-----------------------------------------------------------------------------
(* What the backends print, and its totals *)

\* Each run of a backend prints lines of the two kinds.
LEMMA PrintsTyped ==
  /\ Len(Prints) \in Nat /\ Len(Prints) # 0
  /\ \A g \in 1..Len(Prints) :
        /\ Len(Prints[g]) \in Nat
        /\ \A n \in 1..Len(Prints[g]) : Prints[g][n] \in Kinds
<1>1. Prints \in Seq(Seq(Kinds)) /\ Prints # <<>>
  BY TelemetryAssumption DEF Kinds
<1>2. \A g \in 1..Len(Prints) : Prints[g] \in Seq(Kinds)
  BY <1>1
<1> QED
  BY <1>1, <1>2

\* Of no lines the totals are zero.
LEMMA TotalsOfNone == \A g : TotalsOf(g, 0) = Zero
<1> SUFFICES ASSUME NEW g PROVE TotalsOf(g, 0) = Zero
  OBVIOUS
<1>1. \A k : {i \in 1..0 : Prints[g][i] = k} = {}
  OBVIOUS
<1> QED
  BY <1>1, FS_EmptySet DEF TotalsOf, Zero

\* The next line is counted by its kind.
LEMMA TotalsOfNext ==
  ASSUME NEW g \in 1..Len(Prints), NEW n \in Nat, n + 1 \in 1..Len(Prints[g])
  PROVE  /\ TotalsOf(g, n) \in Figures
         /\ Prints[g][n + 1] = "evicted" =>
               /\ TotalsOf(g, n + 1).evictions = TotalsOf(g, n).evictions + 1
               /\ TotalsOf(g, n + 1).prompts = TotalsOf(g, n).prompts
         /\ Prints[g][n + 1] = "state" =>
               /\ TotalsOf(g, n + 1).evictions = TotalsOf(g, n).evictions
               /\ TotalsOf(g, n + 1).prompts = n + 1
<1> DEFINE p == Prints[g]
           E(m) == {i \in 1..m : p[i] = "evicted"}
           S(m) == {i \in 1..m : p[i] = "state"}
           Top(X) == IF X = {} THEN 0 ELSE CHOOSE i \in X : \A j \in X : j <= i
           Newest(m) == Top(S(m))
<1>1. \A m : TotalsOf(g, m).evictions = Cardinality(E(m)) /\ TotalsOf(g, m).prompts = Newest(m)
  BY DEF TotalsOf
<1>2. \A m : TotalsOf(g, m) = [evictions |-> Cardinality(E(m)), prompts |-> Newest(m)]
  BY DEF TotalsOf
<1>3. 1..(n + 1) = 1..n \cup {n + 1} /\ n + 1 \notin 1..n
  OBVIOUS
<1>4. /\ p[n + 1] = "evicted" => E(n + 1) = E(n) \cup {n + 1} /\ S(n + 1) = S(n)
      /\ p[n + 1] = "state" => E(n + 1) = E(n) /\ S(n + 1) = S(n) \cup {n + 1}
  BY <1>3
<1>5. n + 1 \notin E(n) /\ IsFiniteSet(E(n)) /\ Cardinality(E(n)) \in Nat
  <2>1. IsFiniteSet(1..n)
    BY FS_Interval
  <2>2. E(n) \subseteq 1..n
    OBVIOUS
  <2> QED
    BY <1>3, <2>1, <2>2, FS_Subset, FS_CardinalityType
<1>6. Cardinality(E(n) \cup {n + 1}) = Cardinality(E(n)) + 1
  BY <1>5, FS_AddElement
<1>7. Newest(n) \in Nat
  <2>1. S(n) \subseteq 0..n
    OBVIOUS
  <2>2. CASE S(n) # {}
    <3>1. \E i \in S(n) : \A j \in S(n) : j <= i
      BY <2>1, <2>2, GreatestOf
    <3>2. Newest(n) \in S(n)
      BY <2>2, <3>1
    <3> QED
      BY <2>1, <3>2
  <2> QED
    BY <2>2
<1>8. p[n + 1] = "state" => Newest(n + 1) = n + 1
  <2> SUFFICES ASSUME p[n + 1] = "state" PROVE Newest(n + 1) = n + 1
    OBVIOUS
  <2>1. n + 1 \in S(n + 1) /\ \A j \in S(n + 1) : j \in Nat /\ j <= n + 1
    OBVIOUS
  <2>2. ASSUME NEW i \in S(n + 1), \A j \in S(n + 1) : j <= i PROVE i = n + 1
    <3>1. n + 1 <= i /\ i \in Nat /\ i <= n + 1
      BY <2>1, <2>2
    <3> QED
      BY <3>1
  <2> QED
    BY <2>1, <2>2
<1> HIDE DEF p, E, S, Top
<1>9. TotalsOf(g, n) \in Figures
  BY <1>2, <1>5, <1>7 DEF Figures
<1>10. p[n + 1] = "evicted" => Newest(n + 1) = Newest(n) /\ Cardinality(E(n + 1)) = Cardinality(E(n)) + 1
  BY <1>4, <1>6
<1>11. p[n + 1] = "state" => Newest(n + 1) = n + 1 /\ Cardinality(E(n + 1)) = Cardinality(E(n))
  BY <1>4, <1>8
<1> HIDE DEF Newest
<1> QED
  BY <1>1, <1>9, <1>10, <1>11 DEF p

\* The totals of a log are those of what its backend printed.
LEMMA TotalsAgree ==
  ASSUME Logged, NEW n \in Nat, n <= Len(log)
  PROVE  Totals(n) = TotalsOf(ino, n)
<1>1. Len(log) \in Nat
  BY DEF Logged
<1>2. \A i \in 1..n : log[i] = Prints[ino][i]
  <2>1. \A i \in 1..n : i \in 1..Len(log)
    BY <1>1
  <2> QED
    BY <2>1 DEF Logged
<1> DEFINE A(k) == {i \in 1..n : log[i] = k}
           B(k) == {i \in 1..n : Prints[ino][i] = k}
           F(X, Y) == [evictions |-> Cardinality(X),
                       prompts   |-> IF Y = {} THEN 0 ELSE CHOOSE i \in Y : \A j \in Y : j <= i]
<1>3. A("evicted") = B("evicted") /\ A("state") = B("state")
  BY <1>2
<1>4. Totals(n) = F(A("evicted"), A("state")) /\ TotalsOf(ino, n) = F(B("evicted"), B("state"))
  BY DEF Totals, TotalsOf
<1> HIDE DEF A, B, F
<1> QED
  BY <1>3, <1>4

-----------------------------------------------------------------------------
(* The log and the watch: every step keeps Watching *)

\* Twice a number has an even half.
LEMMA Halved == \A n \in Nat : (2 * n) \div 2 = n
  OBVIOUS

\* The fields of the watch.
LEMMA WatchParts ==
  ASSUME Following
  PROVE  /\ watch.pc \in {"off", "idle", "asked", "open", "lines"}
         /\ watch.offset \in Nat /\ watch.inode \in Nat /\ watch.replay \in Nat
         /\ watch.stats \in Figures /\ watch.fresh \in Seq(FreshLines)
         /\ Len(watch.fresh) \in Nat /\ ReadUp \in Nat /\ watch.offset = 2 * ReadUp
<1>1. watch \in Watches /\ watch.offset = 2 * ReadUp
  BY DEF Following
<1>2. watch.fresh \in Seq(FreshLines) /\ watch.offset \in Nat
  BY <1>1 DEF Watches
<1>3. watch.offset \div 2 \in Nat
  BY <1>2
<1> QED
  BY <1>1, <1>2, <1>3 DEF Watches, ReadUp

\* The log's sizes.
LEMMA LogParts ==
  ASSUME Logged
  PROVE  /\ Len(log) \in Nat /\ Complete \in Nat /\ Complete <= Len(log)
         /\ ino \in Nat /\ ino # 0
         /\ Complete <= Len(Prints[ino]) /\ Len(Prints[ino]) \in Nat
         /\ Size \in Nat /\ (Size = 2 * Complete \/ Size = 2 * Complete + 1)
         /\ log = <<>> => Complete = 0 /\ Size = 0
<1>1. /\ Len(log) \in Nat /\ half \in BOOLEAN /\ (half => Len(log) # 0)
      /\ Len(log) <= Len(Prints[ino]) /\ ino \in 1..Len(Prints)
      /\ log = <<>> => Len(log) = 0 /\ ~half
  BY DEF Logged
<1>2. ino \in Nat /\ ino # 0 /\ Len(Prints[ino]) \in Nat
  BY <1>1, PrintsTyped
<1> DEFINE n == Len(log)
           k == Len(Prints[ino])
<1>3. Complete = n - (IF half THEN 1 ELSE 0) /\ Size = 2 * n - (IF half THEN 1 ELSE 0)
  BY DEF Complete, Size
<1> HIDE DEF n, k
<1>4. /\ n \in Nat /\ k \in Nat /\ n <= k /\ half \in BOOLEAN /\ (half => n # 0)
      /\ log = <<>> => n = 0 /\ ~half
  BY <1>1, <1>2 DEF n, k
<1>5. /\ Complete \in Nat /\ Complete <= n /\ Complete <= k /\ Size \in Nat
      /\ Size = 2 * Complete \/ Size = 2 * Complete + 1
      /\ log = <<>> => Complete = 0 /\ Size = 0
  <2>1. CASE half
    BY <1>3, <1>4, <2>1
  <2>2. CASE ~half
    BY <1>3, <1>4, <2>2
  <2> QED
    BY <2>1, <2>2
<1> QED
  BY <1>2, <1>4, <1>5 DEF n, k

\* The watch keeps its place while the log is written to or moved.
LEMMA FollowsOn ==
  ASSUME Following, watch' = watch, ino' \in Nat, ino \in Nat, ino <= ino',
         watch.pc = "open" /\ watch.inode # ino' => log' = <<>>,
         there' /\ watch.inode = ino' => ReadUp <= Complete'
  PROVE  Following'
<1>1. ReadUp' = ReadUp
  BY DEF ReadUp
<1>2. watch.inode <= ino'
  BY WatchParts DEF Following
<1> QED
  BY <1>1, <1>2 DEF Following, Overtaken

\* A line begins.
LEMMA BeginLineWatching ==
  ASSUME Logged, Following, BeginLine, watch' = watch
  PROVE  Logged' /\ Following'
<1> DEFINE line == Prints[ino][Len(log) + 1]
<1>1. /\ Len(log) \in Nat /\ Len(Prints[ino]) \in Nat /\ ino \in 1..Len(Prints)
      /\ Len(log) < Len(Prints[ino]) /\ log \in Seq(Kinds)
      /\ \A i \in 1..Len(log) : log[i] = Prints[ino][i]
  BY LogParts DEF Logged, BeginLine
<1>2. line \in Kinds
  BY <1>1, PrintsTyped
<1>3. log' = Append(log, line) /\ half' = TRUE /\ there' = there /\ ino' = ino /\ there /\ ~half
  BY DEF BeginLine
<1> HIDE DEF line
<1>4. /\ log' \in Seq(Kinds) /\ Len(log') = Len(log) + 1 /\ log'[Len(log) + 1] = line
      /\ \A i \in 1..Len(log) : log'[i] = log[i]
  BY <1>1, <1>2, <1>3
<1>5. \A i \in 1..Len(log') : log'[i] = Prints[ino][i]
  <2> SUFFICES ASSUME NEW i \in 1..Len(log') PROVE log'[i] = Prints[ino][i]
    OBVIOUS
  <2>1. i \in 1..Len(log) \/ i = Len(log) + 1
    BY <1>1, <1>4
  <2> QED
    BY <1>1, <1>4, <2>1 DEF line
<1>6. Logged'
  <2>1. Len(log') <= Len(Prints[ino]) /\ log' # <<>>
    BY <1>1, <1>4
  <2> QED
    BY <1>1, <1>3, <1>4, <1>5, <2>1 DEF Logged
<1>7. Complete' = Complete
  BY <1>1, <1>3, <1>4 DEF Complete
<1>8. there /\ watch.inode = ino => ReadUp <= Complete
  BY DEF Following
<1>9. watch.pc = "open" => watch.inode = ino
  BY DEF BeginLine, Overtaken
<1> QED
  BY <1>3, <1>6, <1>7, <1>8, <1>9, FollowsOn, LogParts

\* A backend prints, or its log is moved.
LEMMA BackendWatching ==
  ASSUME Watching, Backend
  PROVE  Watching'
<1>1. Logged /\ Following /\ Fresh /\ Totalled
  BY DEF Watching
<1>2. watch' = watch /\ shown' = shown
  BY DEF Backend, watchVars
<1>3. Fresh' /\ Totalled'
  BY <1>1, <1>2 DEF Fresh, Totalled, Heard, ReadUp, TotalsOf
<1>4. /\ watch.inode <= ino /\ watch.inode \in Nat /\ ino \in Nat
      /\ watch.pc = "open" /\ watch.inode # ino => log = <<>>
      /\ there /\ watch.inode = ino => ReadUp <= Complete
      /\ ReadUp \in Nat
  BY <1>1, WatchParts, LogParts DEF Following, Overtaken
<1>5. CASE BeginLine
  BY <1>1, <1>2, <1>3, <1>5, BeginLineWatching DEF Watching
<1>6. CASE EndLine
  <2>1. there /\ half /\ half' = FALSE /\ log' = log /\ there' = there /\ ino' = ino
    BY <1>6 DEF EndLine
  <2>2. Logged'
    BY <1>1, <2>1 DEF Logged
  <2>3. Complete' = Complete + 1
    BY <1>1, <2>1, LogParts DEF Complete
  <2>4. there' /\ watch.inode = ino' => ReadUp <= Complete'
    BY <1>1, <1>4, <2>1, <2>3, LogParts
  <2>5. Following'
    BY <1>1, <1>2, <1>4, <2>1, <2>4, FollowsOn
  <2> QED
    BY <1>3, <2>2, <2>5 DEF Watching
<1>7. CASE MoveLog
  <2>1. ino < Len(Prints) /\ ~there' /\ log' = <<>> /\ ~half' /\ half' \in BOOLEAN /\ ino' = ino
        /\ there' \in BOOLEAN
    BY <1>7 DEF MoveLog
  <2>2. log' \in Seq(Kinds) /\ Len(log') = 0 /\ \A i \in 1..Len(log') : FALSE
    BY <2>1
  <2>3. Logged'
    BY <1>1, <2>1, <2>2, LogParts DEF Logged
  <2>4. Following'
    BY <1>1, <1>2, <1>4, <2>1, FollowsOn
  <2> QED
    BY <1>3, <2>3, <2>4 DEF Watching
<1>8. CASE NewLog
  <2>1. ~there /\ there' /\ there' \in BOOLEAN /\ ino' = ino + 1 /\ log' = log /\ half' = half
    BY <1>8 DEF NewLog
  <2>2. log = <<>> /\ ino < Len(Prints) /\ half \in BOOLEAN /\ ~half
    BY <1>1, <2>1 DEF Logged
  <2>3. ino' \in 1..Len(Prints) /\ Len(Prints[ino']) \in Nat
    BY <1>1, <2>1, <2>2, PrintsTyped DEF Logged
  <2>4. log' \in Seq(Kinds) /\ Len(log') = 0 /\ \A i \in 1..Len(log') : FALSE
    BY <2>1, <2>2
  <2>5. Logged'
    BY <2>1, <2>2, <2>3, <2>4 DEF Logged
  <2>6. ino <= ino' /\ watch.inode # ino' /\ ino' \in Nat
    BY <1>4, <2>1
  <2>7. Following'
    BY <1>1, <1>2, <1>4, <2>1, <2>2, <2>6, FollowsOn
  <2> QED
    BY <1>3, <2>5, <2>7 DEF Watching
<1> QED
  BY <1>5, <1>6, <1>7, <1>8 DEF Backend

\* The watch waits, with its place kept and its totals shown.
LEMMA PlaceKept ==
  ASSUME Logged, Following, Fresh, Totalled, UNCHANGED backendVars,
         watch' \in Watches, watch'.offset = watch.offset, watch'.inode = watch.inode,
         watch'.stats = watch.stats, watch'.fresh = watch.fresh,
         watch'.pc \in {"idle", "asked"}, watch.fresh = <<>>, shown' = watch.stats
  PROVE  Watching'
<1>1. ReadUp' = ReadUp /\ Heard' = Heard
  BY DEF ReadUp, Heard
<1>2. log' = log /\ half' = half /\ there' = there /\ ino' = ino /\ Complete' = Complete
  BY DEF backendVars, Complete
<1>3. Logged'
  BY <1>2 DEF Logged
<1>4. Following'
  BY <1>1, <1>2, Zenon DEF Following, Overtaken
<1>5. Fresh'
  BY <1>1 DEF Fresh
<1>6. shown' \in Figures
  BY WatchParts
<1>7. Totalled'
  BY <1>1, <1>6 DEF Totalled, TotalsOf
<1> QED
  BY <1>3, <1>4, <1>5, <1>7 DEF Watching

\* A record of the watch with another place in its poll.
LEMMA PcSet ==
  ASSUME Following, NEW pc \in {"off", "idle", "asked", "open", "lines"},
         watch' = [watch EXCEPT !.pc = pc]
  PROVE  /\ watch' \in Watches /\ watch'.pc = pc /\ watch'.offset = watch.offset
         /\ watch'.inode = watch.inode /\ watch'.replay = watch.replay
         /\ watch'.stats = watch.stats /\ watch'.fresh = watch.fresh
  BY DEF Following, Watches

\* The router starts.
LEMMA StartFields ==
  ASSUME Logged, Following, Start
  PROVE  /\ watch' \in Watches /\ watch'.pc = "idle" /\ watch'.offset = watch.offset
         /\ watch'.inode = watch.inode /\ watch'.replay = (IF there THEN Size ELSE 0)
         /\ watch'.stats = watch.stats /\ watch'.fresh = watch.fresh
<1> DEFINE size == IF there THEN Size ELSE 0
<1>1. size \in Nat
  BY LogParts
<1>2. watch' = [watch EXCEPT !.pc = "idle", !.replay = size]
  BY DEF Start
<1> HIDE DEF size
<1>3. /\ watch' \in Watches /\ watch'.pc = "idle" /\ watch'.offset = watch.offset
      /\ watch'.inode = watch.inode /\ watch'.replay = size
      /\ watch'.stats = watch.stats /\ watch'.fresh = watch.fresh
  BY <1>1, <1>2 DEF Following, Watches
<1> QED
  BY <1>3 DEF size

\* The poll waits for its log, or ends.
LEMMA WaitWatching ==
  ASSUME Watching, Start \/ Ask \/ StatMissing \/ OpenMissing \/ EndPoll,
         UNCHANGED backendVars
  PROVE  Watching'
<1>1. Logged /\ Following /\ Fresh /\ Totalled
  BY DEF Watching
<1>2. CASE Start
  <2>1. watch.pc = "off" /\ shown' = shown
    BY <1>2 DEF Start
  <2>2. watch.fresh = <<>> /\ shown = watch.stats
    BY <1>1, <2>1 DEF Following, Totalled
  <2> QED
    BY <1>1, <1>2, <2>1, <2>2, StartFields, PlaceKept
<1>3. CASE Ask
  <2>1. watch.pc = "idle" /\ shown' = shown /\ watch' = [watch EXCEPT !.pc = "asked"]
    BY <1>3 DEF Ask
  <2>2. watch.fresh = <<>> /\ shown = watch.stats
    BY <1>1, <2>1 DEF Following, Totalled
  <2> QED
    BY <1>1, <2>1, <2>2, PcSet, PlaceKept
<1>4. CASE StatMissing \/ OpenMissing \/ EndPoll
  <2>1. shown' = watch.stats /\ watch' = [watch EXCEPT !.pc = "idle"]
    BY <1>4 DEF StatMissing, OpenMissing, EndPoll
  <2>2. watch.pc \in {"asked", "open"} \/ watch.fresh = <<>>
    BY <1>4 DEF StatMissing, OpenMissing, EndPoll
  <2>3. watch.fresh = <<>>
    BY <1>1, <2>2 DEF Following
  <2> QED
    BY <1>1, <2>1, <2>3, PcSet, PlaceKept
<1> QED
  BY <1>2, <1>3, <1>4

\* A log that was replaced is read from its start, and counted anew.
LEMMA StatFields ==
  ASSUME Watching, Stat
  PROVE  /\ watch' \in Watches /\ watch'.pc = "open" /\ watch'.inode = ino
         /\ watch'.fresh = <<>> /\ watch.fresh = <<>>
         /\ \/ /\ watch.inode \in {0, ino} /\ watch'.offset = watch.offset
               /\ watch'.replay = watch.replay /\ watch'.stats = watch.stats
            \/ /\ watch.inode # 0 /\ watch.inode < ino /\ watch'.offset = 0
               /\ watch'.replay = 0 /\ watch'.stats = Zero
<1>1. Logged /\ Following
  BY DEF Watching
<1>2. ino \in Nat /\ watch.inode \in Nat /\ watch.inode <= ino
  BY <1>1, LogParts, WatchParts DEF Following
<1>3. Zero \in Figures
  BY DEF Zero, Figures
<1>4. watch.fresh = <<>> /\ there /\ watch.pc = "asked"
  BY <1>1 DEF Stat, Following
<1>5. CASE Replaced
  <2>1. watch' = [watch EXCEPT !.pc = "open", !.inode = ino, !.offset = 0,
                               !.replay = 0, !.stats = Zero]
    BY <1>5 DEF Stat
  <2>2. /\ watch' \in Watches /\ watch'.pc = "open" /\ watch'.inode = ino
        /\ watch'.offset = 0 /\ watch'.replay = 0 /\ watch'.stats = Zero
        /\ watch'.fresh = watch.fresh
    BY <1>1, <1>2, <1>3, <2>1 DEF Following, Watches
  <2>3. watch.inode # 0 /\ watch.inode # ino
    <3>1. watch.inode = 0 \/ watch.inode = ino => ~(Size < watch.offset)
      <4>1. Size \in Nat /\ Complete \in Nat /\ (Size = 2 * Complete \/ Size = 2 * Complete + 1)
        BY <1>1, LogParts
      <4>2. watch.offset = 2 * ReadUp /\ ReadUp \in Nat
        BY <1>1, WatchParts
      <4>3. watch.inode = 0 => watch.offset = 0
        BY <1>1 DEF Following
      <4>4. watch.inode = ino => ReadUp <= Complete
        BY <1>1, <1>4 DEF Following
      <4> QED
        BY <4>1, <4>2, <4>3, <4>4
    <3> QED
      BY <1>5, <3>1 DEF Replaced
  <2> QED
    BY <1>2, <1>4, <2>2, <2>3
<1>6. CASE ~Replaced
  <2>1. watch' = [watch EXCEPT !.pc = "open", !.inode = ino]
    BY <1>6 DEF Stat
  <2>2. /\ watch' \in Watches /\ watch'.pc = "open" /\ watch'.inode = ino
        /\ watch'.offset = watch.offset /\ watch'.replay = watch.replay
        /\ watch'.stats = watch.stats /\ watch'.fresh = watch.fresh
    BY <1>1, <1>2, <2>1 DEF Following, Watches
  <2>3. watch.inode \in {0, ino}
    BY <1>6 DEF Replaced
  <2> QED
    BY <1>4, <2>2, <2>3
<1> QED
  BY <1>5, <1>6

\* The stat.
LEMMA StatWatching ==
  ASSUME Watching, Stat, UNCHANGED backendVars
  PROVE  Watching'
<1>1. Logged /\ Following /\ Fresh /\ Totalled
  BY DEF Watching
<1>2. /\ watch' \in Watches /\ watch'.pc = "open" /\ watch'.inode = ino
      /\ watch'.fresh = <<>> /\ watch.fresh = <<>>
  BY StatFields
<1>3. log' = log /\ half' = half /\ there' = there /\ ino' = ino /\ Complete' = Complete
      /\ shown' = shown /\ there
  BY DEF backendVars, Complete, Stat
<1>4. Logged'
  BY <1>1, <1>3 DEF Logged
<1>5. ino \in Nat /\ ino # 0 /\ Complete \in Nat /\ Complete <= Len(Prints[ino]) /\ Len(Prints[ino]) \in Nat
  BY <1>1, LogParts
<1>6. Len(watch.fresh) = 0 /\ Len(watch'.fresh) = 0 /\ ReadUp \in Nat /\ watch.offset = 2 * ReadUp
  BY <1>1, <1>2, WatchParts
<1>7. /\ watch'.offset = 2 * ReadUp' /\ ReadUp' \in Nat /\ ReadUp' <= Complete
      /\ watch'.stats = TotalsOf(ino, ReadUp')
  <2>1. CASE watch.inode = 0 /\ watch'.offset = watch.offset /\ watch'.stats = watch.stats
    <3>1. watch'.offset = 0 /\ watch'.stats = Zero
      BY <1>1, <2>1 DEF Following
    <3>2. ReadUp' = 0
      BY <3>1, Halved DEF ReadUp
    <3> QED
      BY <1>5, <3>1, <3>2, TotalsOfNone
  <2>2. CASE watch.inode = ino /\ watch'.offset = watch.offset /\ watch'.stats = watch.stats
    <3>1. ReadUp' = ReadUp
      BY <2>2 DEF ReadUp
    <3>2. Heard = ReadUp
      BY <1>6 DEF Heard
    <3>3. ReadUp <= Complete /\ watch.stats = TotalsOf(ino, ReadUp)
      BY <1>1, <1>3, <1>5, <2>2, <3>2 DEF Following, Totalled
    <3> QED
      BY <1>6, <2>2, <3>1, <3>3
  <2>3. CASE watch'.offset = 0 /\ watch'.stats = Zero
    <3>2. ReadUp' = 0
      BY <2>3, Halved DEF ReadUp
    <3> QED
      BY <1>5, <2>3, <3>2, TotalsOfNone
  <2> QED
    BY <2>1, <2>2, <2>3, StatFields
<1>8. Heard' = ReadUp'
  <2>1. Heard' = ReadUp' - 0
    BY <1>6 DEF Heard
  <2>2. \A n \in Nat : n - 0 = n
    OBVIOUS
  <2> QED
    BY <1>7, <2>1, <2>2
<1>9. Following'
  <2>1. ReadUp' <= Len(Prints[ino])
    BY <1>5, <1>7
  <2> QED
    BY <1>2, <1>3, <1>5, <1>7, <2>1 DEF Following, Overtaken
<1>10. Fresh'
  BY <1>6, <1>7 DEF Fresh
<1>11. shown' \in Figures
  BY <1>1, <1>3 DEF Totalled
<1>12. Totalled'
  BY <1>2, <1>7, <1>8, <1>11 DEF Totalled, TotalsOf
<1> QED
  BY <1>4, <1>9, <1>10, <1>12 DEF Watching

\* What a poll reads: the whole lines that are new.
LEMMA ReadFields ==
  ASSUME Watching, Read
  PROVE  /\ watch' \in Watches /\ watch'.pc = "lines" /\ watch'.inode = watch.inode
         /\ watch'.replay = watch.replay /\ watch'.stats = watch.stats
         /\ watch.fresh = <<>> /\ watch.inode # 0 /\ there
         /\ \/ /\ watch.inode = ino /\ watch'.offset = 2 * Complete
               /\ Len(watch'.fresh) = Complete - ReadUp
               /\ \A i \in 1..Len(watch'.fresh) :
                     /\ watch'.fresh[i].line = <<ino, ReadUp + i>>
                     /\ watch'.fresh[i].kind = log[ReadUp + i]
            \/ watch.inode # ino /\ watch'.offset = watch.offset /\ watch'.fresh = <<>>
<1>1. Logged /\ Following
  BY DEF Watching
<1>2. watch.pc = "open" /\ there /\ watch.fresh = <<>> /\ watch.inode # 0
  BY <1>1 DEF Read, Following
<1>3. /\ Complete \in Nat /\ ReadUp \in Nat /\ watch.offset = 2 * ReadUp /\ ino \in Nat
      /\ watch.offset \div 2 = ReadUp /\ Len(log) \in Nat /\ Complete <= Len(log)
  BY <1>1, LogParts, WatchParts DEF ReadUp
<1> DEFINE r == ReadUp
           c == Complete
           o == IF 2 * c > 2 * r THEN 2 * c ELSE 2 * r
           m == IF 2 * c > 2 * r THEN c - r ELSE 0
           f == [i \in 1..m |-> [line |-> <<ino, r + i>>, kind |-> log[r + i]]]
<1>4. watch' = [watch EXCEPT !.pc = "lines", !.offset = o, !.fresh = f]
  <2>1. watch' = [watch EXCEPT !.pc = "lines",
                     !.offset = IF 2 * Complete > watch.offset THEN 2 * Complete ELSE watch.offset,
                     !.fresh = [i \in 1..(IF 2 * Complete > watch.offset
                                          THEN Complete - watch.offset \div 2
                                          ELSE 0) |->
                                [line |-> <<ino, watch.offset \div 2 + i>>,
                                 kind |-> log[watch.offset \div 2 + i]]]]
    BY <1>1 DEF Read, Following, Watches
  <2> QED
    BY <1>3, <2>1
<1>5. c \in Nat /\ r \in Nat /\ c <= Len(log)
  BY <1>3
<1> HIDE DEF c, r
<1>6. o \in Nat /\ m \in Nat /\ (m # 0 => m = c - r)
  BY <1>5
<1>7. f \in Seq(FreshLines) /\ Len(f) = m
  <2>1. ASSUME NEW i \in 1..m
        PROVE  r + i \in Nat /\ log[r + i] \in Kinds
    <3>1. r + i \in 1..Len(log)
      BY <1>3, <1>5, <1>6
    <3> QED
      BY <1>1, <3>1 DEF Logged
  <2>2. \A i \in 1..m : [line |-> <<ino, r + i>>, kind |-> log[r + i]] \in FreshLines
    BY <1>3, <2>1 DEF FreshLines
  <2> HIDE DEF m
  <2> QED
    BY <1>6, <2>2
<1>8. \A i \in 1..m : f[i].line = <<ino, r + i>> /\ f[i].kind = log[r + i]
  OBVIOUS
<1>9. CASE watch.inode = ino
  <2>1. r <= c
    BY <1>1, <1>2, <1>9 DEF Following, r, c
  <2>2. o = 2 * c /\ m = c - r
    BY <1>5, <2>1
  <2> HIDE DEF o, m, f
  <2>3. /\ watch' \in Watches /\ watch'.pc = "lines" /\ watch'.offset = o
        /\ watch'.fresh = f /\ watch'.inode = watch.inode /\ watch'.replay = watch.replay
        /\ watch'.stats = watch.stats
    BY <1>1, <1>4, <1>6, <1>7 DEF Following, Watches
  <2> QED
    BY <1>2, <1>7, <1>8, <1>9, <2>2, <2>3 DEF r, c
<1>10. CASE watch.inode # ino
  <2>1. c = 0
    BY <1>1, <1>2, <1>10, LogParts DEF Following, Overtaken, c
  <2>2. o = 2 * r /\ m = 0
    BY <1>5, <2>1
  <2>3. f = <<>>
    <3>1. m = 0 /\ Len(f) = 0
      BY <1>7, <2>2
    <3> HIDE DEF f
    <3> QED
      BY <1>7, <3>1
  <2> HIDE DEF o, m, f
  <2>4. /\ watch' \in Watches /\ watch'.pc = "lines" /\ watch'.offset = o
        /\ watch'.fresh = f /\ watch'.inode = watch.inode /\ watch'.replay = watch.replay
        /\ watch'.stats = watch.stats
    BY <1>1, <1>4, <1>6, <1>7 DEF Following, Watches
  <2> QED
    BY <1>2, <1>3, <1>10, <2>2, <2>3, <2>4 DEF r, c
<1> QED
  BY <1>9, <1>10

\* What a read adds is not counted yet.
LEMMA ReadPlace ==
  ASSUME Watching, Read, UNCHANGED backendVars
  PROVE  /\ Heard' = Heard /\ ReadUp' \in Nat /\ Heard = ReadUp
         /\ watch'.offset = 2 * ReadUp' /\ ReadUp <= ReadUp'
         /\ watch.inode = ino => ReadUp' = Complete
         /\ watch.inode # ino => ReadUp' = ReadUp
<1>1. Logged /\ Following
  BY DEF Watching
<1>2. /\ Complete \in Nat /\ ReadUp \in Nat /\ watch.offset = 2 * ReadUp
      /\ Len(<<>>) = 0
  BY <1>1, LogParts, WatchParts
<1>3. \A n \in Nat : n - 0 = n
  OBVIOUS
<1>4. Heard = ReadUp
  <2>1. Heard = ReadUp - 0
    BY <1>2, ReadFields DEF Heard
  <2> QED
    BY <1>2, <1>3, <2>1
<1>5. CASE watch.inode = ino
  <2>1. ReadUp' = Complete /\ ReadUp <= Complete
    BY <1>1, <1>2, <1>5, Halved, ReadFields DEF ReadUp, Following
  <2>2. Heard' = Complete - (Complete - ReadUp)
    BY <1>5, <2>1, ReadFields DEF Heard
  <2>3. \A m, n \in Nat : m - (m - n) = n
    OBVIOUS
  <2> QED
    BY <1>2, <1>4, <1>5, <2>1, <2>2, <2>3, ReadFields
<1>6. CASE watch.inode # ino
  <2>1. ReadUp' = ReadUp
    BY <1>6, ReadFields DEF ReadUp
  <2>2. Heard' = ReadUp - 0
    BY <1>2, <1>6, <2>1, ReadFields DEF Heard
  <2> QED
    BY <1>2, <1>3, <1>4, <1>6, <2>1, <2>2, ReadFields
<1> QED
  BY <1>5, <1>6

\* The read.
LEMMA ReadWatching ==
  ASSUME Watching, Read, UNCHANGED backendVars
  PROVE  Watching'
<1>1. Logged /\ Following /\ Fresh /\ Totalled
  BY DEF Watching
<1>2. log' = log /\ half' = half /\ there' = there /\ ino' = ino /\ Complete' = Complete
      /\ shown' = shown
  BY DEF backendVars, Complete, Read
<1>3. Logged'
  BY <1>1, <1>2 DEF Logged
<1>4. /\ Complete \in Nat /\ Complete <= Len(Prints[ino]) /\ Len(Prints[ino]) \in Nat
      /\ Complete <= Len(log) /\ Len(log) \in Nat
      /\ ReadUp \in Nat /\ watch.inode \in Nat /\ watch.inode <= ino
      /\ ReadUp <= Len(Prints[watch.inode])
  BY <1>1, LogParts, WatchParts, ReadFields DEF Following
<1>5. /\ watch' \in Watches /\ watch'.pc = "lines" /\ watch'.inode = watch.inode
      /\ watch'.stats = watch.stats /\ watch.inode # 0 /\ there
  BY ReadFields
<1>6. Following'
  <2>1. CASE watch.inode = ino
    <3>1. ReadUp' = Complete /\ Complete <= Complete
      BY <1>4, <2>1, ReadPlace
    <3> QED
      BY <1>2, <1>4, <1>5, <2>1, <3>1, ReadPlace DEF Following, Overtaken
  <2>2. CASE watch.inode # ino
    BY <1>2, <1>4, <1>5, <2>2, ReadPlace DEF Following, Overtaken
  <2> QED
    BY <2>1, <2>2
<1>7. Fresh'
  <2>1. CASE watch.inode = ino
    <3>1. Len(watch'.fresh) = Complete - ReadUp /\ ReadUp' = Complete /\ Heard' = ReadUp
          /\ ReadUp <= Complete
      BY <2>1, ReadFields, ReadPlace
    <3>2. Len(watch'.fresh) <= ReadUp'
      BY <1>4, <3>1
    <3>3. ASSUME NEW i \in 1..Len(watch'.fresh)
          PROVE  /\ watch'.fresh[i].line = <<ino, ReadUp + i>>
                 /\ watch'.fresh[i].kind = Prints[ino][ReadUp + i]
      <4>1. ReadUp + i \in 1..Len(log)
        BY <1>4, <3>1
      <4>2. log[ReadUp + i] = Prints[ino][ReadUp + i]
        BY <1>1, <4>1 DEF Logged
      <4> QED
        BY <2>1, <4>2, ReadFields
    <3> QED
      BY <1>5, <2>1, <3>1, <3>2, <3>3 DEF Fresh
  <2>2. CASE watch.inode # ino
    <3>1. Len(watch'.fresh) = 0 /\ 1..0 = {}
      BY <2>2, ReadFields
    <3> QED
      BY <3>1, ReadPlace DEF Fresh
  <2> QED
    BY <2>1, <2>2
<1>8. Totalled'
  BY <1>1, <1>2, <1>5, ReadPlace DEF Totalled, TotalsOf
<1> QED
  BY <1>3, <1>6, <1>7, <1>8 DEF Watching

\* The line the watch comes to.
LEMMA NextLine ==
  ASSUME Watching, watch.pc = "lines", watch.fresh # <<>>
  PROVE  /\ watch.inode \in 1..Len(Prints) /\ Heard \in Nat
         /\ Heard + 1 \in 1..Len(Prints[watch.inode]) /\ Heard + 1 <= ReadUp
         /\ Head(watch.fresh) \in FreshLines
         /\ Head(watch.fresh).line = <<watch.inode, Heard + 1>>
         /\ Head(watch.fresh).kind = Prints[watch.inode][Heard + 1]
         /\ Tail(watch.fresh) \in Seq(FreshLines)
         /\ Len(Tail(watch.fresh)) = Len(watch.fresh) - 1
         /\ \A i \in 1..Len(Tail(watch.fresh)) : Tail(watch.fresh)[i] = watch.fresh[i + 1]
<1>1. Logged /\ Following /\ Fresh
  BY DEF Watching
<1> DEFINE f == watch.fresh
           k == Len(f)
           r == ReadUp
<1>2. f \in Seq(FreshLines) /\ f # <<>> /\ r \in Nat /\ watch.inode \in Nat
  BY <1>1, WatchParts
<1>3. watch.inode # 0 /\ watch.inode <= ino /\ ino \in 1..Len(Prints)
      /\ r <= Len(Prints[watch.inode]) /\ k <= r
  BY <1>1 DEF Following, Logged, Fresh
<1>4. watch.inode \in 1..Len(Prints)
  BY <1>2, <1>3, PrintsTyped
<1>5. Len(Prints[watch.inode]) \in Nat
  BY <1>4, PrintsTyped
<1>6. Heard = r - k
  BY DEF Heard
<1>7. f[1].line = <<watch.inode, Heard + 1>> /\ f[1].kind = Prints[watch.inode][Heard + 1]
  <2>1. 1 \in 1..Len(watch.fresh)
    BY <1>2
  <2> QED
    BY <1>1, <2>1 DEF Fresh
<1> HIDE DEF f, r
<1>8. /\ Head(f) = f[1] /\ f[1] \in FreshLines /\ k \in Nat /\ k # 0
      /\ Tail(f) \in Seq(FreshLines) /\ Len(Tail(f)) = k - 1
      /\ \A i \in 1..Len(Tail(f)) : Tail(f)[i] = f[i + 1]
  BY <1>2
<1> HIDE DEF k
<1>9. Heard \in Nat /\ Heard + 1 <= r /\ Heard + 1 \in 1..Len(Prints[watch.inode])
  BY <1>2, <1>3, <1>5, <1>6, <1>8
<1> QED
  BY <1>4, <1>7, <1>8, <1>9 DEF f, r, k

\* A line is counted.
LEMMA LineFields ==
  ASSUME Watching, Line
  PROVE  /\ watch' \in Watches /\ watch'.pc = watch.pc /\ watch'.offset = watch.offset
         /\ watch'.inode = watch.inode /\ watch'.replay = watch.replay
         /\ watch'.stats = Counted(watch.stats, Head(watch.fresh))
         /\ watch'.stats = TotalsOf(watch.inode, Heard + 1)
         /\ watch'.fresh = Tail(watch.fresh)
         /\ ReadUp' = ReadUp /\ Heard' = Heard + 1
<1> DEFINE l == Head(watch.fresh)
           t == Tail(watch.fresh)
           n == Heard
<1>1. Logged /\ Following /\ Fresh /\ Totalled
  BY DEF Watching
<1>2. watch.pc = "lines" /\ watch.fresh # <<>>
      /\ watch' = [watch EXCEPT !.stats = Counted(watch.stats, l), !.fresh = t]
  BY <1>1 DEF Line, Following, Watches
<1>3. /\ watch.inode \in 1..Len(Prints) /\ n \in Nat /\ n + 1 \in 1..Len(Prints[watch.inode])
      /\ l \in FreshLines /\ l.line = <<watch.inode, n + 1>>
      /\ l.kind = Prints[watch.inode][n + 1] /\ t \in Seq(FreshLines)
      /\ Len(t) = Len(watch.fresh) - 1
  BY <1>2, NextLine
<1>4. watch.stats = TotalsOf(watch.inode, n) /\ watch.stats \in Figures
  BY <1>1, <1>3, WatchParts DEF Totalled
<1>5. l.line[2] = n + 1 /\ l.kind \in Kinds
  BY <1>3 DEF FreshLines
<1> HIDE DEF l, t, n
<1>6. Counted(watch.stats, l) \in Figures /\ Counted(watch.stats, l) = TotalsOf(watch.inode, n + 1)
  <2> DEFINE a == watch.stats
             b == TotalsOf(watch.inode, n + 1)
  <2>1. /\ l.kind = "evicted" => b.evictions = a.evictions + 1 /\ b.prompts = a.prompts
        /\ l.kind = "state" => b.evictions = a.evictions /\ b.prompts = n + 1
        /\ a \in Figures
    BY <1>3, <1>4, TotalsOfNext
  <2>2. b = [evictions |-> b.evictions, prompts |-> b.prompts]
    BY DEF TotalsOf
  <2>3. Counted(a, l) = IF l.kind = "evicted" THEN [a EXCEPT !.evictions = a.evictions + 1]
                        ELSE [a EXCEPT !.prompts = n + 1]
    BY <1>5, <2>1 DEF Counted, Figures
  <2> HIDE DEF a, b
  <2>4. CASE l.kind = "evicted"
    <3>1. Counted(a, l) = [evictions |-> a.evictions + 1, prompts |-> a.prompts]
      BY <2>1, <2>3, <2>4 DEF Figures
    <3>2. a.evictions + 1 \in Nat /\ a.prompts \in Nat
      BY <2>1 DEF Figures
    <3>3. Counted(a, l) \in Figures
      BY <3>1, <3>2 DEF Figures
    <3>4. Counted(a, l) = b
      BY <2>1, <2>2, <2>4, <3>1
    <3> QED
      BY <3>3, <3>4 DEF a, b
  <2>5. CASE l.kind # "evicted"
    <3>0. l.kind = "state"
      BY <1>5, <2>5 DEF Kinds
    <3>1. Counted(a, l) = [evictions |-> a.evictions, prompts |-> n + 1]
      BY <2>1, <2>3, <2>5 DEF Figures
    <3>2. a.evictions \in Nat /\ n + 1 \in Nat
      BY <1>3, <2>1 DEF Figures
    <3>3. Counted(a, l) \in Figures
      BY <3>1, <3>2 DEF Figures
    <3>4. Counted(a, l) = b
      BY <2>1, <2>2, <3>0, <3>1
    <3> QED
      BY <3>3, <3>4 DEF a, b
  <2> QED
    BY <2>4, <2>5
<1>7. /\ watch' \in Watches /\ watch'.pc = watch.pc /\ watch'.offset = watch.offset
      /\ watch'.inode = watch.inode /\ watch'.replay = watch.replay
      /\ watch'.stats = Counted(watch.stats, l) /\ watch'.fresh = t
  BY <1>1, <1>2, <1>3, <1>6 DEF Following, Watches
<1>8. ReadUp' = ReadUp
  BY <1>7 DEF ReadUp
<1>9. Heard' = Heard + 1
  <2>1. Heard' = ReadUp - (Len(watch.fresh) - 1) /\ Heard = ReadUp - Len(watch.fresh)
    BY <1>3, <1>7, <1>8 DEF Heard
  <2>2. \A a, b \in Nat : a - (b - 1) = (a - b) + 1
    OBVIOUS
  <2>3. ReadUp \in Nat /\ Len(watch.fresh) \in Nat
    BY <1>1, WatchParts
  <2> QED
    BY <2>1, <2>2, <2>3
<1> QED
  BY <1>6, <1>7, <1>8, <1>9 DEF l, t, n

\* The count.
LEMMA LineWatching ==
  ASSUME Watching, Line, UNCHANGED backendVars
  PROVE  Watching'
<1>1. Logged /\ Following /\ Fresh /\ Totalled
  BY DEF Watching
<1>2. log' = log /\ half' = half /\ there' = there /\ ino' = ino /\ Complete' = Complete
      /\ shown' = shown /\ watch.pc = "lines" /\ watch.fresh # <<>>
  BY DEF backendVars, Complete, Line
<1>3. Logged'
  BY <1>1, <1>2 DEF Logged
<1>4. /\ watch' \in Watches /\ watch'.pc = "lines" /\ watch'.offset = watch.offset
      /\ watch'.inode = watch.inode /\ watch'.fresh = Tail(watch.fresh)
      /\ ReadUp' = ReadUp /\ Heard' = Heard + 1
  BY <1>2, LineFields
<1>5. watch.inode # 0
  BY <1>1, <1>2 DEF Following
<1>6. Following'
  BY <1>1, <1>2, <1>4, <1>5, Zenon DEF Following, Overtaken
<1>7. Fresh'
  <2>1. Len(watch'.fresh) = Len(watch.fresh) - 1 /\ Len(watch.fresh) \in Nat
    BY <1>1, <1>2, <1>4, NextLine, WatchParts
  <2>2. Len(watch.fresh) <= ReadUp /\ ReadUp \in Nat /\ Heard \in Nat
    BY <1>1, <1>2, NextLine, WatchParts DEF Fresh
  <2>3. Len(watch'.fresh) <= ReadUp
    BY <2>1, <2>2
  <2>4. ASSUME NEW i \in 1..Len(watch'.fresh)
        PROVE  /\ watch'.fresh[i].line = <<watch.inode, (Heard + 1) + i>>
               /\ watch'.fresh[i].kind = Prints[watch.inode][(Heard + 1) + i]
    <3>1. i + 1 \in 1..Len(watch.fresh) /\ Heard + (i + 1) = (Heard + 1) + i
      BY <2>1, <2>2
    <3>2. watch'.fresh[i] = watch.fresh[i + 1]
      BY <1>2, <1>4, NextLine
    <3>3. /\ watch.fresh[i + 1].line = <<watch.inode, Heard + (i + 1)>>
          /\ watch.fresh[i + 1].kind = Prints[watch.inode][Heard + (i + 1)]
      BY <1>1, <3>1 DEF Fresh
    <3> QED
      BY <3>1, <3>2, <3>3
  <2> QED
    BY <1>4, <2>3, <2>4 DEF Fresh
<1>8. Totalled'
  BY <1>1, <1>2, <1>4, LineFields DEF Totalled, TotalsOf
<1> QED
  BY <1>3, <1>6, <1>7, <1>8 DEF Watching

\* Nothing happens to the log or the watch.
LEMMA WatchingStays ==
  ASSUME Watching, UNCHANGED <<backendVars, watchVars>>
  PROVE  Watching'
<1>1. Logged /\ Following /\ Fresh /\ Totalled
  BY DEF Watching
<1>2. /\ log' = log /\ half' = half /\ there' = there /\ ino' = ino
      /\ watch' = watch /\ shown' = shown
  BY DEF backendVars, watchVars
<1>3. Complete' = Complete /\ ReadUp' = ReadUp /\ Heard' = Heard
  BY <1>2 DEF Complete, ReadUp, Heard
<1>4. Logged'
  BY <1>1, <1>2 DEF Logged
<1>5. Following'
  BY <1>1, <1>2, <1>3, Zenon DEF Following, Overtaken
<1>6. Fresh'
  BY <1>1, <1>2, <1>3 DEF Fresh
<1>7. Totalled'
  BY <1>1, <1>2, <1>3 DEF Totalled, TotalsOf
<1> QED
  BY <1>4, <1>5, <1>6, <1>7 DEF Watching

\* At the start there is an empty log, and the watch has read none.
LEMMA InitWatching == Init => Watching
<1> SUFFICES ASSUME Init PROVE Watching
  OBVIOUS
<1>1. /\ log = <<>> /\ half = FALSE /\ there = TRUE /\ ino = 1 /\ shown = Zero
      /\ watch = [pc |-> "off", offset |-> 0, inode |-> 0, replay |-> 0,
                  stats |-> Zero, fresh |-> <<>>]
  BY DEF Init
<1>2. Logged
  <2>1. log \in Seq(Kinds) /\ Len(log) = 0 /\ \A i \in 1..0 : FALSE
    BY <1>1
  <2>2. ino \in 1..Len(Prints) /\ Len(Prints[ino]) \in Nat
    BY <1>1, PrintsTyped
  <2>3. Len(log) <= Len(Prints[ino])
    BY <2>1, <2>2
  <2>4. \A i \in 1..Len(log) : log[i] = Prints[ino][i]
    BY <2>1
  <2> QED
    BY <1>1, <2>1, <2>2, <2>3, <2>4 DEF Logged
<1>3. Zero \in Figures
  BY DEF Zero, Figures
<1>4. ReadUp = 0
  BY <1>1, Halved DEF ReadUp
<1>5. watch \in Watches
  <2>1. <<>> \in Seq(FreshLines)
    BY EmptyTyped
  <2> QED
    BY <1>1, <1>3, <2>1 DEF Watches
<1>6. Following
  BY <1>1, <1>4, <1>5 DEF Following, Overtaken
<1>7. Fresh
  <2>1. Len(watch.fresh) = 0 /\ 1..0 = {}
    BY <1>1
  <2> QED
    BY <1>4, <2>1 DEF Fresh
<1>8. Totalled
  BY <1>1, <1>3 DEF Totalled
<1> QED
  BY <1>2, <1>6, <1>7, <1>8 DEF Watching

\* Every step keeps what is known of the log and the watch.
LEMMA NextWatching == Watching /\ [Next]_vars => Watching'
<1> SUFFICES ASSUME Watching, [Next]_vars PROVE Watching'
  OBVIOUS
<1>1. CASE Backend
  BY <1>1, BackendWatching
<1>2. CASE Watcher
  <2>1. UNCHANGED backendVars
    BY <1>2 DEF Watcher
  <2> QED
    BY <1>2, <2>1, WaitWatching, StatWatching, ReadWatching, LineWatching
    DEF Watcher, PollStep
<1>3. CASE Midnight \/ Writer \/ Flush \/ UNCHANGED vars \/ \E r \in Requesters : Requester(r)
  <2>1. UNCHANGED <<backendVars, watchVars>>
    BY <1>3 DEF Midnight, Writer, Flush, vars, Requester
  <2> QED
    BY <2>1, WatchingStays
<1> QED
  BY <1>1, <1>2, <1>3 DEF Next

-----------------------------------------------------------------------------
(* What is offered: every step keeps Offering *)

\* A row more.
LEMMA OneMore ==
  ASSUME NEW T, NEW s \in Seq(T), NEW e \in T
  PROVE  /\ Append(s, e) \in Seq(T) /\ Len(s) \in Nat /\ Len(Append(s, e)) = Len(s) + 1
         /\ Append(s, e)[Len(s) + 1] = e
         /\ \A i \in 1..Len(s) : Append(s, e)[i] = s[i]
         /\ \A i \in 1..Len(Append(s, e)) : i \in 1..Len(s) \/ i = Len(s) + 1
  OBVIOUS

\* A request's row.
LEMMA RequestRow ==
  ASSUME NEW r \in Requesters, NEW d \in Days
  PROVE  /\ [by |-> r, n |-> <<>>, day |-> d] \in Rows
         /\ [by |-> r, n |-> <<>>, day |-> d].by = r /\ r # "watch"
  BY TelemetryAssumption DEF Rows

\* The watch's.
LEMMA WatchRow ==
  ASSUME NEW g \in 1..Len(Prints), NEW n \in 1..Len(Prints[g]), today \in Days
  PROVE  /\ LineRow(<<g, n>>) \in Rows
         /\ LineRow(<<g, n>>).by = "watch" /\ LineRow(<<g, n>>).n = <<g, n>>
<1>1. <<g, n>> \in Lines
  BY DEF Lines
<1> QED
  BY <1>1 DEF LineRow, Rows

\* A request writes its row.
LEMMA PutOffering ==
  ASSUME Offering, NEW r \in Requesters, Put(r), UNCHANGED <<watchVars, today>>
  PROVE  Offering'
<1>1. Rowed /\ Once /\ Told
  BY DEF Offering
<1> DEFINE row == [by |-> r, n |-> <<>>, day |-> stamp[r]]
<1>2. /\ offered \in Seq(Rows) /\ stamp \in [Requesters -> Days \cup {NoDay}]
      /\ stamp[r] # NoDay /\ offered' = Append(offered, row)
      /\ stamp' = [stamp EXCEPT ![r] = NoDay] /\ watch' = watch /\ today' = today
  BY <1>1 DEF Rowed, Put, Offer, watchVars
<1>3. row \in Rows /\ row.by = r /\ r # "watch"
  BY <1>2, RequestRow
<1> HIDE DEF row
<1>4. /\ offered' \in Seq(Rows) /\ Len(offered) \in Nat /\ Len(offered') = Len(offered) + 1
      /\ offered'[Len(offered) + 1] = row
      /\ \A i \in 1..Len(offered) : offered'[i] = offered[i]
      /\ \A i \in 1..Len(offered') : i \in 1..Len(offered) \/ i = Len(offered) + 1
  BY <1>2, <1>3, OneMore
<1>5. ~HasWritten(r)
  BY <1>1, <1>2 DEF Once
<1>6. Rowed'
  BY <1>1, <1>2, <1>4 DEF Rowed
<1>7. Once'
  <2>1. ASSUME NEW q \in Requesters, stamp'[q] # NoDay PROVE ~HasWritten(q)'
    <3>1. q # r /\ stamp[q] # NoDay
      BY <1>2, <2>1
    <3>2. ~HasWritten(q)
      BY <1>1, <3>1 DEF Once
    <3> QED
      BY <1>3, <1>4, <3>1, <3>2 DEF HasWritten
  <2>2. ASSUME NEW i \in 1..Len(offered'), NEW j \in 1..Len(offered'),
               offered'[i].by = offered'[j].by, offered'[i].by # "watch"
        PROVE  i = j
    <3>1. CASE i \in 1..Len(offered) /\ j \in 1..Len(offered)
      BY <1>1, <1>4, <2>2, <3>1 DEF Once
    <3>2. CASE i = Len(offered) + 1 /\ j \in 1..Len(offered)
      BY <1>3, <1>4, <1>5, <2>2, <3>2 DEF HasWritten
    <3>3. CASE j = Len(offered) + 1 /\ i \in 1..Len(offered)
      BY <1>3, <1>4, <1>5, <2>2, <3>3 DEF HasWritten
    <3> QED
      BY <1>4, <3>1, <3>2, <3>3
  <2> QED
    BY <2>1, <2>2 DEF Once
<1>8. \A i \in 1..Len(offered') : FromWatch(i)' => i \in 1..Len(offered) /\ FromWatch(i)
  BY <1>3, <1>4 DEF FromWatch
<1>9. Heard' = Heard /\ watch'.inode = watch.inode
  BY <1>2 DEF Heard, ReadUp
<1>10. Told'
  BY <1>1, <1>4, <1>8, <1>9 DEF Told
<1> QED
  BY <1>6, <1>7, <1>10 DEF Offering

\* The watch offers a line, or does not.
LEMMA LineOffering ==
  ASSUME Watching, Offering, Line, UNCHANGED <<today, stamp>>
  PROVE  Offering'
<1>1. Rowed /\ Once /\ Told
  BY DEF Offering
<1> DEFINE l == Head(watch.fresh)
           row == LineRow(<<watch.inode, Heard + 1>>)
<1>2. /\ watch.inode \in 1..Len(Prints) /\ Heard \in Nat
      /\ Heard + 1 \in 1..Len(Prints[watch.inode])
      /\ l.line = <<watch.inode, Heard + 1>>
  BY NextLine DEF Line
<1>3. row \in Rows /\ row.by = "watch" /\ row.n = <<watch.inode, Heard + 1>>
  BY <1>1, <1>2, WatchRow DEF Rowed
<1>4. offered' = Append(offered, row) \/ offered' = offered
  BY <1>2 DEF Line, Offer
<1>5. Heard' = Heard + 1 /\ watch'.inode = watch.inode
  BY LineFields
<1>6. offered \in Seq(Rows) /\ watch.inode \in Nat
  BY <1>1, <1>2, PrintsTyped DEF Rowed
<1> HIDE DEF row
<1>7. CASE offered' = offered
  <2>1. Rowed' /\ Once'
    BY <1>1, <1>7 DEF Rowed, Once, HasWritten
  <2>2. \A i : FromWatch(i)' <=> FromWatch(i)
    BY <1>7 DEF FromWatch
  <2>3. Told'
    BY <1>1, <1>2, <1>5, <1>7, <2>2 DEF Told
  <2> QED
    BY <2>1, <2>3 DEF Offering
<1>8. CASE offered' = Append(offered, row)
  <2>1. /\ offered' \in Seq(Rows) /\ Len(offered) \in Nat /\ Len(offered') = Len(offered) + 1
        /\ offered'[Len(offered) + 1] = row
        /\ \A i \in 1..Len(offered) : offered'[i] = offered[i]
        /\ \A i \in 1..Len(offered') : i \in 1..Len(offered) \/ i = Len(offered) + 1
    BY <1>3, <1>6, <1>8, OneMore
  <2>2. Rowed'
    BY <1>1, <2>1 DEF Rowed
  <2>3. "watch" \notin Requesters
    BY TelemetryAssumption
  <2>4. Once'
    <3>1. \A r \in Requesters : HasWritten(r)' => HasWritten(r)
      BY <1>3, <2>1, <2>3 DEF HasWritten
    <3>2. ASSUME NEW i \in 1..Len(offered'), NEW j \in 1..Len(offered'),
                 offered'[i].by = offered'[j].by, offered'[i].by # "watch"
          PROVE  i = j
      <4>1. i \in 1..Len(offered) /\ j \in 1..Len(offered)
        BY <1>3, <2>1, <3>2
      <4> QED
        BY <1>1, <2>1, <3>2, <4>1 DEF Once
    <3> QED
      BY <1>1, <3>1, <3>2 DEF Once
  <2>5. \A i \in 1..Len(offered) : FromWatch(i)' <=> FromWatch(i)
    BY <2>1 DEF FromWatch
  <2>6. Told'
    <3>1. ASSUME NEW i \in 1..Len(offered'), FromWatch(i)'
          PROVE  /\ offered'[i].n \in Nat \X Nat /\ offered'[i].n[1] \in 1..watch.inode
                 /\ offered'[i].n[1] = watch.inode => offered'[i].n[2] \in 1..(Heard + 1)
      <4>1. CASE i \in 1..Len(offered)
        <5>1. /\ offered[i].n \in Nat \X Nat /\ offered[i].n[1] \in 1..watch.inode
              /\ offered[i].n[1] = watch.inode => offered[i].n[2] \in 1..Heard
          BY <1>1, <2>5, <3>1, <4>1 DEF Told
        <5>2. 1..Heard \subseteq 1..(Heard + 1)
          BY <1>2
        <5> QED
          BY <2>1, <4>1, <5>1, <5>2
      <4>2. CASE i = Len(offered) + 1
        <5> DEFINE g == watch.inode
                   m == Heard + 1
        <5>1. g \in Nat /\ m \in Nat /\ m \in 1..m /\ g \in 1..g
          BY <1>2, <1>6, PrintsTyped
        <5>2. offered'[i].n = <<g, m>>
          BY <1>3, <2>1, <4>2
        <5> HIDE DEF g, m
        <5>3. <<g, m>> \in Nat \X Nat /\ <<g, m>>[1] = g /\ <<g, m>>[2] = m
          BY <5>1
        <5>4. /\ offered'[i].n \in Nat \X Nat /\ offered'[i].n[1] \in 1..g
              /\ offered'[i].n[2] \in 1..m
          BY <5>1, <5>2, <5>3
        <5> QED
          BY <5>4 DEF g, m
      <4> QED
        BY <2>1, <4>1, <4>2
    <3>2. ASSUME NEW i \in 1..Len(offered), FromWatch(i)
          PROVE  offered[i].n # row.n
      <4>1. /\ offered[i].n[1] = watch.inode => offered[i].n[2] \in 1..Heard
            /\ Heard + 1 \notin 1..Heard
        BY <1>1, <1>2, <3>2 DEF Told
      <4> QED
        BY <1>3, <4>1
    <3>3. ASSUME NEW i \in 1..Len(offered'), NEW j \in 1..Len(offered'),
                 FromWatch(i)', FromWatch(j)', offered'[i].n = offered'[j].n
          PROVE  i = j
      <4>1. CASE i \in 1..Len(offered) /\ j \in 1..Len(offered)
        BY <1>1, <2>1, <2>5, <3>3, <4>1 DEF Told
      <4>2. CASE i = Len(offered) + 1 /\ j \in 1..Len(offered)
        BY <2>1, <2>5, <3>2, <3>3, <4>2
      <4>3. CASE j = Len(offered) + 1 /\ i \in 1..Len(offered)
        BY <2>1, <2>5, <3>2, <3>3, <4>3
      <4> QED
        BY <2>1, <4>1, <4>2, <4>3
    <3> QED
      BY <1>5, <3>1, <3>3 DEF Told
  <2> QED
    BY <2>2, <2>4, <2>6 DEF Offering
<1> QED
  BY <1>4, <1>7, <1>8

\* The watch keeps its log and what it has counted of it.
LEMMA PlaceOf ==
  ASSUME Watching, UNCHANGED watch \/ Start \/ Ask \/ StatMissing \/ OpenMissing \/ EndPoll
                   \/ (Read /\ UNCHANGED backendVars)
  PROVE  watch'.inode = watch.inode /\ Heard' = Heard
<1>1. Logged /\ Following
  BY DEF Watching
<1>2. CASE UNCHANGED watch
  BY <1>2 DEF Heard, ReadUp
<1>3. CASE Start
  BY <1>1, <1>3, StartFields DEF Heard, ReadUp
<1>4. CASE Ask \/ StatMissing \/ OpenMissing \/ EndPoll
  <2>1. PICK pc \in {"idle", "asked"} : watch' = [watch EXCEPT !.pc = pc]
    BY <1>4 DEF Ask, StatMissing, OpenMissing, EndPoll
  <2> QED
    BY <1>1, <2>1, PcSet DEF Heard, ReadUp
<1>5. CASE Read /\ UNCHANGED backendVars
  BY <1>5, ReadPlace, ReadFields
<1> QED
  BY <1>2, <1>3, <1>4, <1>5

\* What the stat makes of its place.
LEMMA StatPlace ==
  ASSUME Watching, Stat
  PROVE  /\ watch'.inode = ino /\ ino \in Nat /\ ino # 0
         /\ watch.inode \in Nat /\ watch.inode <= ino
         /\ \/ watch.inode = ino /\ Heard' = Heard /\ watch'.replay = watch.replay
            \/ watch.inode = 0 /\ Heard' = 0 /\ watch'.replay = watch.replay
            \/ watch.inode # 0 /\ watch.inode < ino /\ Heard' = 0 /\ watch'.replay = 0
<1>1. Logged /\ Following
  BY DEF Watching
<1>2. ino \in Nat /\ ino # 0 /\ watch.inode \in Nat /\ watch.inode <= ino
  BY <1>1, LogParts, WatchParts DEF Following
<1>3. watch'.inode = ino /\ watch'.fresh = <<>> /\ watch.fresh = <<>> /\ Len(<<>>) = 0
  BY StatFields
<1>4. watch'.offset = watch.offset => Heard' = Heard
  BY <1>3 DEF Heard, ReadUp
<1>5. watch'.offset = 0 => Heard' = 0
  <2> SUFFICES ASSUME watch'.offset = 0 PROVE Heard' = 0
    OBVIOUS
  <2>1. ReadUp' = 0
    BY Halved DEF ReadUp
  <2>2. Heard' = 0 - 0
    BY <1>3, <2>1 DEF Heard
  <2> QED
    BY <2>2
<1>6. watch.inode = 0 => watch.offset = 0
  BY <1>1 DEF Following
<1> QED
  BY <1>2, <1>3, <1>4, <1>5, <1>6, StatFields

\* The stat changes nothing of what is told.
LEMMA StatTells ==
  ASSUME Watching, Told, Stat, offered' = offered
  PROVE  Told'
<1>1. \A i : FromWatch(i)' <=> FromWatch(i)
  BY DEF FromWatch
<1>2. ASSUME NEW i \in 1..Len(offered), FromWatch(i)
      PROVE  /\ offered[i].n \in Nat \X Nat /\ offered[i].n[1] \in 1..watch'.inode
             /\ offered[i].n[1] = watch'.inode => offered[i].n[2] \in 1..Heard'
  <2> DEFINE g == offered[i].n[1]
             w == watch.inode
  <2>1. offered[i].n \in Nat \X Nat /\ g \in 1..w /\ (g = w => offered[i].n[2] \in 1..Heard)
    BY <1>2 DEF Told
  <2>2. /\ ino \in Nat /\ w \in Nat /\ w <= ino /\ watch'.inode = ino
        /\ (w = ino /\ Heard' = Heard) \/ w = 0 \/ w < ino
    BY StatPlace
  <2> HIDE DEF g, w
  <2>3. g \in 1..ino /\ (g = ino => w = ino)
    BY <2>1, <2>2
  <2>4. w = ino => Heard' = Heard
    <3>1. 1..0 = {}
      OBVIOUS
    <3> QED
      BY <2>1, <2>2, <3>1
  <2>5. g = ino => offered[i].n[2] \in 1..Heard'
    BY <2>1, <2>3, <2>4
  <2> QED
    BY <2>1, <2>2, <2>3, <2>5 DEF g
<1> QED
  BY <1>1, <1>2 DEF Told

\* Every step keeps what is known of the rows written.
LEMMA NextOffering == Watching /\ Offering /\ [Next]_vars => Offering'
<1> SUFFICES ASSUME Watching, Offering, [Next]_vars PROVE Offering'
  OBVIOUS
<1>1. Rowed /\ Once /\ Told
  BY DEF Offering
<1>2. ASSUME offered' = offered, today' \in Days, stamp' = stamp PROVE (Rowed /\ Once)'
  BY <1>1, <1>2 DEF Rowed, Once, HasWritten
<1>3. ASSUME offered' = offered, watch'.inode = watch.inode, Heard' = Heard PROVE Told'
  <2>1. \A i : FromWatch(i)' <=> FromWatch(i)
    BY <1>3 DEF FromWatch
  <2> QED
    BY <1>1, <1>3, <2>1 DEF Told
<1>4. CASE Backend \/ Writer \/ Flush \/ UNCHANGED vars
  <2>1. offered' = offered /\ today' = today /\ stamp' = stamp /\ watch' = watch
    BY <1>4 DEF Backend, Writer, Flush, vars, watchVars
  <2> QED
    BY <1>1, <1>2, <1>3, <2>1, PlaceOf DEF Offering, Rowed
<1>5. CASE Midnight
  <2>1. offered' = offered /\ today' = today + 1 /\ today < MaxDays /\ stamp' = stamp
        /\ watch' = watch
    BY <1>5 DEF Midnight, watchVars
  <2>2. today' \in Days
    BY <1>1, <2>1, TelemetryAssumption DEF Rowed, Days
  <2> QED
    BY <1>1, <1>2, <1>3, <2>1, <2>2, PlaceOf DEF Offering
<1>6. ASSUME NEW r \in Requesters, Requester(r) PROVE Offering'
  <2>1. UNCHANGED <<watchVars, today>>
    BY <1>6 DEF Requester
  <2>2. CASE Put(r)
    BY <2>1, <2>2, PutOffering
  <2>3. CASE Stamp(r)
    <3>1. stamp' = [stamp EXCEPT ![r] = today] /\ offered' = offered /\ ~HasWritten(r)
      BY <2>3 DEF Stamp
    <3>2. Rowed'
      BY <1>1, <2>1, <3>1 DEF Rowed
    <3>3. Once'
      <4>1. ASSUME NEW q \in Requesters, stamp'[q] # NoDay PROVE ~HasWritten(q)
        BY <1>1, <3>1, <4>1 DEF Rowed, Once
      <4> QED
        BY <1>1, <3>1, <4>1 DEF Once, HasWritten
    <3>4. watch' = watch
      BY <2>1 DEF watchVars
    <3> QED
      BY <1>3, <3>1, <3>2, <3>3, <3>4, PlaceOf DEF Offering
  <2> QED
    BY <1>6, <2>2, <2>3 DEF Requester
<1>7. CASE Watcher
  <2>1. UNCHANGED backendVars /\ UNCHANGED <<today, stamp>>
    BY <1>7 DEF Watcher
  <2>2. CASE Line
    BY <2>1, <2>2, LineOffering
  <2>3. CASE Stat
    <3>1. offered' = offered
      BY <2>3 DEF Stat
    <3> QED
      BY <1>1, <1>2, <2>1, <2>3, <3>1, StatTells DEF Offering, Rowed
  <2>4. CASE Start \/ Ask \/ StatMissing \/ OpenMissing \/ EndPoll \/ Read
    <3>1. offered' = offered
      BY <2>4 DEF Start, Ask, StatMissing, OpenMissing, EndPoll, Read
    <3> QED
      BY <1>1, <1>2, <1>3, <2>1, <2>4, <3>1, PlaceOf DEF Offering, Rowed
  <2> QED
    BY <1>7, <2>2, <2>3, <2>4 DEF Watcher, PollStep
<1> QED
  BY <1>4, <1>5, <1>6, <1>7 DEF Next

\* No two rows written are the same.
LEMMA Distinct ==
  ASSUME Offering, NEW i \in 1..Len(offered), NEW j \in 1..Len(offered),
         offered[i] = offered[j]
  PROVE  i = j
  BY DEF Offering, Once, Told, FromWatch

-----------------------------------------------------------------------------
(* What is due: every step keeps Sinking *)

\* A line that ends past what is replayed is one after those there at the start.
LEMMA PastReplay ==
  ASSUME Replays, watch.replay \in Nat, NEW n \in Nat, n # 0
  PROVE  2 * n > watch.replay <=> (watch.inode = before.found => n > before.lines)
<1>1. /\ before.lines \in Nat
      /\ IF watch.inode = before.found
         THEN watch.replay = 2 * before.lines \/ watch.replay = 2 * before.lines + 1
         ELSE watch.replay = 0
  BY DEF Replays, Placed
<1>2. CASE watch.inode = before.found
  <2>1. \A k, a \in Nat : a = 2 * k \/ a = 2 * k + 1 => (2 * n > a <=> n > k)
    OBVIOUS
  <2> QED
    BY <1>1, <1>2, <2>1
<1>3. CASE watch.inode # before.found
  <2>1. 2 * n > 0
    OBVIOUS
  <2> QED
    BY <1>1, <1>3, <2>1
<1> QED
  BY <1>2, <1>3

\* The watch keeps to what it replays.
LEMMA WatchReplays ==
  ASSUME Watching, Replays, Watcher
  PROVE  Replays'
<1>1. Logged /\ Following
  BY DEF Watching
<1>2. before \in Placed /\ before.found \in Nat /\ watch.inode \in Nat /\ ino \in Nat /\ ino # 0
  BY <1>1, LogParts, WatchParts DEF Replays, Placed
<1>3. CASE Start
  <2>1. watch.pc = "off" /\ watch.inode = 0
    BY <1>1, <1>3 DEF Start, Following
  <2>2. watch'.inode = 0 /\ watch'.pc = "idle" /\ watch'.replay = IF there THEN Size ELSE 0
    BY <1>1, <1>3, <2>1, StartFields
  <2>3. Complete \in Nat /\ (Size = 2 * Complete \/ Size = 2 * Complete + 1)
    BY <1>1, LogParts
  <2>4. before.found = 0
    BY <1>2, <2>1 DEF Replays
  <2>5. CASE there
    <3>1. before' = [before EXCEPT !.ino = ino, !.lines = Complete]
      BY <1>3, <2>5 DEF Start
    <3>2. before' \in Placed /\ before'.found = 0 /\ before'.lines = Complete
      BY <1>2, <2>3, <2>4, <3>1 DEF Placed
    <3> QED
      BY <2>2, <2>3, <2>5, <3>2 DEF Replays
  <2>6. CASE ~there
    <3>1. before' = before
      BY <1>3, <2>6 DEF Start
    <3>2. watch'.replay = 0 /\ before.lines = 0
      BY <2>1, <2>2, <2>6 DEF Replays
    <3> QED
      BY <1>2, <2>1, <2>2, <2>4, <3>1, <3>2 DEF Replays
  <2> QED
    BY <2>5, <2>6
<1>4. CASE Stat
  <2>1. /\ watch'.inode = ino /\ watch'.pc = "open"
        /\ before' = [before EXCEPT !.found = IF watch.inode = 0 THEN ino ELSE @]
    BY <1>4, StatPlace, StatFields DEF Stat
  <2>2. CASE watch.inode = 0 /\ watch'.replay = watch.replay
    <3>1. before.found = 0
      BY <1>2, <2>2 DEF Replays
    <3>2. before' \in Placed /\ before'.found = ino /\ before'.lines = before.lines
      BY <1>2, <2>1, <2>2 DEF Placed
    <3> QED
      BY <1>2, <2>1, <2>2, <3>1, <3>2 DEF Replays
  <2>3. CASE watch.inode # 0
    <3>1. before' = before
      BY <1>2, <2>1, <2>3 DEF Placed
    <3>2. CASE watch.inode = ino /\ watch'.replay = watch.replay
      BY <2>1, <3>1, <3>2 DEF Replays
    <3>3. CASE watch.inode < ino /\ watch'.replay = 0
      <4>1. before.found <= ino /\ before.found # ino
        BY <1>2, <3>3 DEF Replays
      <4> QED
        BY <1>2, <2>1, <2>3, <3>1, <3>3, <4>1 DEF Replays
    <3> QED
      BY <1>4, <2>3, <3>2, <3>3, StatPlace
  <2> QED
    BY <1>2, <1>4, <2>2, <2>3, StatPlace
<1>5. CASE Ask \/ StatMissing \/ OpenMissing \/ EndPoll \/ Read \/ Line
  <2>1. before' = before /\ watch.pc # "off"
    BY <1>5 DEF Ask, StatMissing, OpenMissing, EndPoll, Read, Line
  <2>2. watch'.inode = watch.inode /\ watch'.replay = watch.replay /\ watch'.pc # "off"
    <3>1. CASE Ask \/ StatMissing \/ OpenMissing \/ EndPoll
      <4>1. PICK pc \in {"idle", "asked"} : watch' = [watch EXCEPT !.pc = pc]
        BY <3>1 DEF Ask, StatMissing, OpenMissing, EndPoll
      <4> QED
        BY <1>1, <4>1, PcSet
    <3>2. CASE Read
      BY <3>2, ReadFields
    <3>3. CASE Line
      BY <2>1, <3>3, LineFields
    <3> QED
      BY <1>5, <3>1, <3>2, <3>3
  <2> QED
    BY <2>1, <2>2 DEF Replays
<1> QED
  BY <1>3, <1>4, <1>5 DEF Watcher, PollStep

\* Nothing is due and nothing told of a log the watch has just met.
LEMMA NothingTold ==
  ASSUME Watching, Offering, Stat, watch.inode # ino, NEW i \in 1..Len(offered), FromWatch(i)
  PROVE  offered[i].n[1] # ino
<1> DEFINE g == offered[i].n[1]
           w == watch.inode
<1>1. g \in 1..w
  BY DEF Offering, Told
<1>2. w \in Nat /\ ino \in Nat /\ w <= ino /\ w # ino
  BY StatPlace
<1> HIDE DEF g, w
<1>3. g # ino
  BY <1>1, <1>2
<1> QED
  BY <1>3 DEF g

\* What is due is the same while the watch's log, what it has counted and the
\* rows it has offered are.
LEMMA SinksOn ==
  ASSUME Sunk, before' = before, watch'.inode = watch.inode, Heard' = Heard,
         \A i \in 1..Len(offered) : i \in 1..Len(offered') /\ offered'[i] = offered[i],
         \A i \in 1..Len(offered') : FromWatch(i)' => i \in 1..Len(offered)
  PROVE  Sunk'
<1>1. \A i \in 1..Len(offered) : FromWatch(i)' <=> FromWatch(i)
  BY DEF FromWatch
<1>2. \A g, n : Due(g, n)' <=> Due(g, n)
  BY DEF Due
<1> QED
  BY <1>1, <1>2 DEF Sunk

\* A line is offered if it is due.
LEMMA LineSunk ==
  ASSUME Watching, Offering, Replays, Sunk, Line
  PROVE  Sunk'
<1>1. Logged /\ Following /\ Fresh /\ Rowed /\ Told
  BY DEF Watching, Offering
<1> DEFINE l == Head(watch.fresh)
           g == watch.inode
           n == Heard + 1
           row == LineRow(<<g, n>>)
<1>2. /\ g \in 1..Len(Prints) /\ Heard \in Nat /\ n \in 1..Len(Prints[g])
      /\ l.line = <<g, n>> /\ l.kind = Prints[g][n] /\ g # 0
  BY <1>1, NextLine DEF Line, Following
<1>3. row \in Rows /\ row.by = "watch" /\ row.n = <<g, n>>
  BY <1>1, <1>2, WatchRow DEF Rowed
<1>4. Heard' = n /\ watch'.inode = g /\ before' = before
  BY LineFields DEF Line
<1>5. n \in Nat /\ n # 0 /\ watch.replay \in Nat
  BY <1>1, <1>2, WatchParts
<1>6. Due(g, n) <=> l.kind = "evicted" /\ 2 * n > watch.replay
  BY <1>2, <1>5, PastReplay DEF Due
<1>7. l.line[2] = n
  BY <1>2
<1>8. IF Due(g, n) THEN offered' = Append(offered, row) \/ offered' = offered ELSE offered' = offered
  BY <1>2, <1>6, <1>7 DEF Line, Offer
<1>9. Due(g, n) => offered' = Append(offered, row)
  BY <1>2, <1>6, <1>7 DEF Line, Offer
<1>10. \A h, m : Due(h, m)' <=> Due(h, m)
  BY <1>4 DEF Due
<1> HIDE DEF row
<1>11. offered \in Seq(Rows)
  BY <1>1 DEF Rowed
<1>12. \A m \in 1..n : m \in 1..Heard \/ m = n
  BY <1>2
<1>13. /\ \A i \in 1..Len(offered) : FromWatch(i) /\ offered[i].n[1] = g => Due(g, offered[i].n[2])
       /\ \A m \in 1..Heard : Due(g, m) =>
             \E i \in 1..Len(offered) : FromWatch(i) /\ offered[i].n[1] = g /\ offered[i].n[2] = m
  BY <1>2 DEF Sunk
<1>14. CASE ~Due(g, n)
  <2>1. offered' = offered
    BY <1>8, <1>14
  <2>2. \A i : FromWatch(i)' <=> FromWatch(i)
    BY <2>1 DEF FromWatch
  <2>3. \A m \in 1..n : Due(g, m) => m \in 1..Heard
    BY <1>12, <1>14
  <2> QED
    BY <1>4, <1>10, <1>13, <2>1, <2>2, <2>3 DEF Sunk
<1>15. CASE Due(g, n)
  <2>1. /\ Len(offered) \in Nat /\ Len(offered') = Len(offered) + 1
        /\ offered'[Len(offered) + 1] = row
        /\ \A i \in 1..Len(offered) : offered'[i] = offered[i]
        /\ \A i \in 1..Len(offered') : i \in 1..Len(offered) \/ i = Len(offered) + 1
    BY <1>3, <1>9, <1>11, <1>15, OneMore
  <2>2. \A i \in 1..Len(offered) : i \in 1..Len(offered') /\ (FromWatch(i)' <=> FromWatch(i))
    BY <2>1 DEF FromWatch
  <2>3. PICK k \in 1..Len(offered') : k = Len(offered) + 1
    BY <2>1
  <2>4. FromWatch(k)' /\ offered'[k] = row
    BY <1>3, <2>1, <2>3 DEF FromWatch
  <2>5. <<g, n>>[1] = g /\ <<g, n>>[2] = n
    OBVIOUS
  <2> HIDE DEF g, n
  <2>6. ASSUME NEW i \in 1..Len(offered'), FromWatch(i)', offered'[i].n[1] = g
        PROVE  Due(g, offered'[i].n[2])
    <3>1. CASE i \in 1..Len(offered)
      BY <1>13, <2>1, <2>2, <2>6, <3>1
    <3>2. CASE i = Len(offered) + 1
      BY <1>3, <1>15, <2>1, <2>5, <3>2
    <3> QED
      BY <2>1, <3>1, <3>2
  <2>7. ASSUME NEW m \in 1..n, Due(g, m)
        PROVE  \E i \in 1..Len(offered') :
                   FromWatch(i)' /\ offered'[i].n[1] = g /\ offered'[i].n[2] = m
    <3>1. CASE m \in 1..Heard
      <4>1. PICK i \in 1..Len(offered) :
                FromWatch(i) /\ offered[i].n[1] = g /\ offered[i].n[2] = m
        BY <1>13, <2>7, <3>1
      <4> QED
        BY <2>1, <2>2, <4>1
    <3>2. CASE m = n
      BY <1>3, <2>4, <2>5, <3>2
    <3> QED
      BY <1>12, <3>1, <3>2
  <2> QED
    BY <1>4, <1>10, <2>6, <2>7 DEF Sunk
<1> QED
  BY <1>14, <1>15

\* Every step keeps what is known of the sink.
LEMMA NextSinking ==
  Watching /\ Offering /\ Sinking /\ [Next]_vars => Sinking'
<1> SUFFICES ASSUME Watching, Offering, Replays, Sunk, [Next]_vars
             PROVE  Replays' /\ Sunk'
  BY DEF Sinking
<1>1. ASSUME offered' = offered, before' = before, watch'.inode = watch.inode, Heard' = Heard
      PROVE  Sunk'
  BY <1>1, SinksOn DEF FromWatch
<1>2. CASE Backend
  <2>1. offered' = offered /\ before' = before /\ watch' = watch
    BY <1>2 DEF Backend, watchVars
  <2> QED
    BY <1>1, <2>1, PlaceOf DEF Replays
<1>3. CASE Midnight \/ Writer \/ Flush \/ UNCHANGED vars
  <2>1. /\ offered' = offered /\ before' = before /\ watch' = watch /\ ino' = ino
        /\ there' = there
    BY <1>3 DEF Midnight, Writer, Flush, vars, watchVars, backendVars
  <2> QED
    BY <1>1, <2>1, PlaceOf DEF Replays
<1>4. ASSUME NEW r \in Requesters, Requester(r) PROVE Replays' /\ Sunk'
  <2>1. before' = before /\ watch' = watch /\ ino' = ino /\ there' = there
    BY <1>4 DEF Requester, watchVars, backendVars
  <2>2. Replays'
    BY <2>1 DEF Replays
  <2>3. CASE Stamp(r)
    BY <1>1, <2>1, <2>2, <2>3, PlaceOf DEF Stamp
  <2>4. CASE Put(r)
    <3> DEFINE row == [by |-> r, n |-> <<>>, day |-> stamp[r]]
    <3>1. offered \in Seq(Rows) /\ offered' = Append(offered, row) /\ stamp[r] \in Days
      BY <2>4 DEF Offering, Rowed, Put, Offer
    <3>2. row \in Rows /\ row.by # "watch"
      BY <3>1, RequestRow
    <3> HIDE DEF row
    <3>3. /\ Len(offered) \in Nat /\ Len(offered') = Len(offered) + 1
          /\ offered'[Len(offered) + 1] = row
          /\ \A i \in 1..Len(offered) : offered'[i] = offered[i]
          /\ \A i \in 1..Len(offered') : i \in 1..Len(offered) \/ i = Len(offered) + 1
      BY <3>1, <3>2, OneMore
    <3>4. \A i \in 1..Len(offered) : i \in 1..Len(offered')
      BY <3>3
    <3>5. \A i \in 1..Len(offered') : FromWatch(i)' => i \in 1..Len(offered)
      BY <3>2, <3>3 DEF FromWatch
    <3> QED
      BY <2>1, <2>2, <3>3, <3>4, <3>5, PlaceOf, SinksOn
  <2> QED
    BY <1>4, <2>3, <2>4 DEF Requester
<1>5. CASE Watcher
  <2>1. Replays' /\ UNCHANGED backendVars
    BY <1>5, WatchReplays DEF Watcher
  <2>2. CASE Start
    <3>1. watch'.inode = 0
      BY <2>2, PlaceOf DEF Start, Watching, Following
    <3> QED
      BY <2>1, <3>1 DEF Sunk
  <2>3. CASE Stat
    <3>1. offered' = offered
      BY <2>3 DEF Stat
    <3>2. CASE watch.inode = ino /\ Heard' = Heard
      <4>1. watch.inode # 0
        BY <2>3, <3>2, StatPlace
      <4>2. before \in Placed
        BY DEF Replays
      <4>3. before' = before
        BY <2>3, <4>1, <4>2 DEF Stat, Placed
      <4> QED
        BY <1>1, <2>1, <2>3, <3>1, <3>2, <4>3, StatPlace
    <3>3. CASE watch.inode # ino /\ Heard' = 0
      <4>1. \A i : FromWatch(i)' <=> FromWatch(i)
        BY <3>1 DEF FromWatch
      <4>2. \A i \in 1..Len(offered) : FromWatch(i) => offered[i].n[1] # ino
        BY <2>3, <3>3, NothingTold
      <4>3. watch'.inode = ino /\ 1..0 = {}
        BY <2>3, StatPlace
      <4> QED
        BY <2>1, <3>1, <3>3, <4>1, <4>2, <4>3 DEF Sunk
    <3>4. watch.inode = ino \/ Heard' = 0
      BY <2>3, StatPlace
    <3>5. watch.inode = ino => Heard' = Heard
      <4>1. ~(ino < ino) /\ ino # 0
        BY <2>3, StatPlace
      <4> QED
        BY <2>3, <4>1, StatPlace
    <3> QED
      BY <3>2, <3>3, <3>4, <3>5
  <2>4. CASE Line
    BY <2>1, <2>4, LineSunk
  <2>5. CASE Ask \/ StatMissing \/ OpenMissing \/ EndPoll \/ Read
    <3>1. offered' = offered /\ before' = before
      BY <2>5 DEF Ask, StatMissing, OpenMissing, EndPoll, Read
    <3> QED
      BY <1>1, <2>1, <2>5, <3>1, PlaceOf
  <2> QED
    BY <1>5, <2>2, <2>3, <2>4, <2>5 DEF Watcher, PollStep
<1> QED
  BY <1>2, <1>3, <1>4, <1>5 DEF Next

-----------------------------------------------------------------------------
(* Sequences in an order *)

\* An empty sequence is, and one of one row.
LEMMA FewOrdered == \A R, e : OrderedBy(R, <<>>) /\ OrderedBy(R, <<e>>)
  BY DEF OrderedBy

\* A longer relation orders what a shorter one did.
LEMMA MoreOrdered ==
  ASSUME NEW R, NEW S, R \subseteq S, NEW s, OrderedBy(R, s)
  PROVE  OrderedBy(S, s)
  BY DEF OrderedBy

\* A row that comes after all goes to the end.
LEMMA AppendOrdered ==
  ASSUME NEW R, NEW T, NEW s \in Seq(T), NEW e \in T, OrderedBy(R, s),
         Range(s) \X {e} \subseteq R
  PROVE  OrderedBy(R, Append(s, e))
<1> DEFINE a == Append(s, e)
<1>1. /\ a \in Seq(T) /\ Len(s) \in Nat /\ Len(a) = Len(s) + 1 /\ a[Len(s) + 1] = e
      /\ \A i \in 1..Len(s) : a[i] = s[i]
      /\ \A i \in 1..Len(a) : i \in 1..Len(s) \/ i = Len(s) + 1
  BY OneMore
<1>2. Range(s) = {s[i] : i \in 1..Len(s)}
  BY MemberOf
<1>3. \A i \in 1..Len(s) : s[i] \in Range(s)
  BY <1>2
<1> HIDE DEF a
<1>4. ASSUME NEW i \in 1..Len(a), NEW j \in 1..Len(a), i < j PROVE <<a[i], a[j]>> \in R
  <2>1. CASE j \in 1..Len(s)
    <3>1. i \in 1..Len(s)
      BY <1>1, <1>4, <2>1
    <3>2. <<s[i], s[j]>> \in R
      BY <1>4, <2>1, <3>1 DEF OrderedBy
    <3> QED
      BY <1>1, <2>1, <3>1, <3>2
  <2>2. CASE j = Len(s) + 1
    <3>1. i \in 1..Len(s)
      BY <1>1, <1>4, <2>2
    <3>2. <<s[i], e>> \in R
      BY <1>3, <3>1
    <3> QED
      BY <1>1, <2>2, <3>1, <3>2
  <2> QED
    BY <1>1, <2>1, <2>2
<1> QED
  BY <1>4 DEF OrderedBy, a

\* So do several.
LEMMA ConcatOrdered ==
  ASSUME NEW R, NEW T, NEW s \in Seq(T), NEW t \in Seq(T), OrderedBy(R, s),
         OrderedBy(R, t), Range(s) \X Range(t) \subseteq R
  PROVE  OrderedBy(R, s \o t)
<1> DEFINE a == s \o t
<1>1. /\ a \in Seq(T) /\ Len(s) \in Nat /\ Len(t) \in Nat /\ Len(a) = Len(s) + Len(t)
      /\ \A i \in 1..Len(s) : a[i] = s[i]
      /\ \A i \in 1..Len(t) : a[Len(s) + i] = t[i]
  OBVIOUS
<1>2. Range(s) = {s[i] : i \in 1..Len(s)} /\ Range(t) = {t[i] : i \in 1..Len(t)}
  BY MemberOf
<1>3. \A i \in 1..Len(s), j \in 1..Len(t) : <<s[i], t[j]>> \in R
  BY <1>2
<1> HIDE DEF a
<1>4. ASSUME NEW i \in 1..Len(a), i \notin 1..Len(s)
      PROVE  i - Len(s) \in 1..Len(t) /\ a[i] = t[i - Len(s)]
  <2>1. i - Len(s) \in 1..Len(t) /\ i = Len(s) + (i - Len(s))
    BY <1>1, <1>4
  <2> QED
    BY <1>1, <2>1
<1>5. ASSUME NEW i \in 1..Len(a), NEW j \in 1..Len(a), i < j PROVE <<a[i], a[j]>> \in R
  <2>1. CASE j \in 1..Len(s)
    <3>1. i \in 1..Len(s)
      BY <1>1, <1>5, <2>1
    <3>2. <<s[i], s[j]>> \in R
      BY <1>5, <2>1, <3>1 DEF OrderedBy
    <3> QED
      BY <1>1, <2>1, <3>1, <3>2
  <2>2. CASE j \notin 1..Len(s) /\ i \in 1..Len(s)
    BY <1>1, <1>3, <1>4, <2>2
  <2>3. CASE j \notin 1..Len(s) /\ i \notin 1..Len(s)
    <3>1. i - Len(s) \in 1..Len(t) /\ j - Len(s) \in 1..Len(t) /\ i - Len(s) < j - Len(s)
      BY <1>1, <1>4, <1>5, <2>3
    <3>2. <<t[i - Len(s)], t[j - Len(s)]>> \in R
      BY <3>1 DEF OrderedBy
    <3> QED
      BY <1>4, <2>3, <3>2
  <2> QED
    BY <2>1, <2>2, <2>3
<1> QED
  BY <1>5 DEF OrderedBy, a

\* The first of an ordered sequence comes before the others.
LEMMA HeadOrdered ==
  ASSUME NEW R, NEW T, NEW s \in Seq(T), s # <<>>, OrderedBy(R, s)
  PROVE  /\ Head(s) \in T /\ Tail(s) \in Seq(T) /\ Len(Tail(s)) < Len(s)
         /\ Range(s) = {Head(s)} \cup Range(Tail(s))
         /\ OrderedBy(R, Tail(s)) /\ {Head(s)} \X Range(Tail(s)) \subseteq R
<1> DEFINE t == Tail(s)
           h == Head(s)
<1>1. /\ t \in Seq(T) /\ h \in T /\ h = s[1] /\ Len(s) \in Nat /\ Len(s) # 0
      /\ Len(t) = Len(s) - 1 /\ \A i \in 1..Len(t) : t[i] = s[i + 1]
  OBVIOUS
<1>2. Range(s) = {s[i] : i \in 1..Len(s)} /\ Range(t) = {t[i] : i \in 1..Len(t)}
  BY <1>1, MemberOf
<1> HIDE DEF t, h
<1>3. \A i \in 1..Len(t) : i + 1 \in 1..Len(s) /\ 1 < i + 1
  BY <1>1
<1>4. 1 \in 1..Len(s)
  BY <1>1
<1>5. \A i \in 1..Len(t) : <<h, t[i]>> \in R
  BY <1>1, <1>3, <1>4 DEF OrderedBy
<1>6. {h} \X Range(t) \subseteq R
  BY <1>2, <1>5
<1>7. ASSUME NEW i \in 1..Len(t), NEW j \in 1..Len(t), i < j PROVE <<t[i], t[j]>> \in R
  <2>1. i + 1 \in 1..Len(s) /\ j + 1 \in 1..Len(s) /\ i + 1 < j + 1
    BY <1>1, <1>7
  <2>2. <<s[i + 1], s[j + 1]>> \in R
    BY <2>1 DEF OrderedBy
  <2> QED
    BY <1>1, <2>2
<1>8. Range(s) = {h} \cup Range(t)
  <2>1. Range(s) \subseteq {h} \cup Range(t)
    <3>1. ASSUME NEW i \in 1..Len(s) PROVE s[i] \in {h} \cup Range(t)
      <4>1. CASE i = 1
        BY <1>1, <4>1
      <4>2. CASE i # 1
        <5>1. i - 1 \in 1..Len(t) /\ i = (i - 1) + 1
          BY <1>1, <4>2
        <5>2. s[i] = t[i - 1]
          BY <1>1, <5>1
        <5> QED
          BY <1>2, <5>1, <5>2
      <4> QED
        BY <4>1, <4>2
    <3> QED
      BY <1>2, <3>1
  <2>2. {h} \cup Range(t) \subseteq Range(s)
    BY <1>1, <1>2, <1>3, <1>4
  <2> QED
    BY <2>1, <2>2
<1>9. OrderedBy(R, t)
  BY <1>7 DEF OrderedBy
<1>10. Len(t) < Len(s)
  BY <1>1
<1> QED
  BY <1>1, <1>6, <1>8, <1>9, <1>10 DEF t, h

\* One more at most.
LEMMA OneLarger ==
  ASSUME NEW S, IsFiniteSet(S), NEW x, NEW T, T \subseteq S \cup {x}
  PROVE  /\ IsFiniteSet(T) /\ Cardinality(T) \in Nat /\ Cardinality(S) \in Nat
         /\ Cardinality(T) <= Cardinality(S) + 1
         /\ T \subseteq S => Cardinality(T) <= Cardinality(S)
<1>1. IsFiniteSet(S \cup {x}) /\ Cardinality(S) \in Nat
      /\ (Cardinality(S \cup {x}) = Cardinality(S) \/ Cardinality(S \cup {x}) = Cardinality(S) + 1)
  BY FS_AddElement, FS_CardinalityType
<1>2. /\ IsFiniteSet(T) /\ Cardinality(T) <= Cardinality(S \cup {x})
      /\ T \subseteq S => Cardinality(T) <= Cardinality(S)
  BY <1>1, FS_Subset
<1>3. Cardinality(T) \in Nat
  BY <1>2, FS_CardinalityType
<1> QED
  BY <1>1, <1>2, <1>3

-----------------------------------------------------------------------------
(* The rows on their way: every step keeps Writing *)

\* What a row is: never the mark of an empty hand.
LEMMA NoRowIsNone == NoRow \notin Rows /\ \A x \in Rows : x.day \in Days
<1>1. ASSUME NEW x \in Rows PROVE x.day \in Days
  BY DEF Rows
<1>2. NoRow.day \notin Days
  BY DEF NoRow, NoDay, Days
<1> QED
  BY <1>1, <1>2

\* What is in the files.
LEMMA InFilesIs == \A x : x \in InFiles <=> \E d \in Days : x \in Range(files[d])
  BY DEF InFiles

\* A row written comes after all those before it.
LEMMA EarlierGrows ==
  ASSUME offered \in Seq(Rows), NEW row \in Rows, offered' = Append(offered, row)
  PROVE  /\ Earlier \subseteq Earlier' /\ Range(offered) \X {row} \subseteq Earlier'
         /\ Range(offered') = Range(offered) \cup {row}
<1>1. /\ Len(offered) \in Nat /\ Len(offered') = Len(offered) + 1
      /\ offered'[Len(offered) + 1] = row
      /\ \A i \in 1..Len(offered) : offered'[i] = offered[i]
  BY OneMore
<1>2. \A i \in 1..Len(offered) : i \in 1..Len(offered')
  BY <1>1
<1>3. Range(offered) = {offered[i] : i \in 1..Len(offered)} /\ Range(offered) \subseteq Rows
  BY MemberOf
<1>4. ASSUME NEW p \in Earlier PROVE p \in Earlier'
  <2>1. PICK i \in 1..Len(offered), j \in 1..Len(offered) :
            i < j /\ p = <<offered[i], offered[j]>> /\ p \in Rows \X Rows
    BY DEF Earlier
  <2>2. i \in 1..Len(offered') /\ j \in 1..Len(offered') /\ p = <<offered'[i], offered'[j]>>
    BY <1>1, <1>2, <2>1
  <2> QED
    BY <2>1, <2>2 DEF Earlier
<1>5. ASSUME NEW i \in 1..Len(offered) PROVE <<offered[i], row>> \in Earlier'
  <2>1. PICK k \in 1..Len(offered') : k = Len(offered) + 1
    BY <1>1
  <2>2. i < k /\ i \in 1..Len(offered')
    BY <1>1, <2>1
  <2>3. offered'[i] = offered[i] /\ offered'[k] = row
    BY <1>1, <2>1
  <2>4. <<offered[i], row>> \in Rows \X Rows
    BY <1>3
  <2> QED
    BY <2>2, <2>3, <2>4 DEF Earlier
<1>6. Range(offered') = Range(offered) \cup {row}
  BY AppendRange
<1> QED
  BY <1>3, <1>4, <1>5, <1>6

\* A row is queued, or counted as dropped.
LEMMA OfferWriting ==
  ASSUME Writing, Rowed, NEW row \in Rows, Offer(row), UNCHANGED <<hand, fileVars, flusher>>
  PROVE  Writing'
<1>1. Filed /\ InOrder /\ UnderDay /\ Accounted /\ offered \in Seq(Rows)
  BY DEF Writing, Rowed
<1>2. /\ hand' = hand /\ files' = files /\ handle' = handle /\ day' = day
      /\ buffer' = buffer /\ flusher' = flusher /\ offered' = Append(offered, row)
  BY DEF fileVars, Offer
<1>3. /\ Earlier \subseteq Earlier' /\ Range(offered) \X {row} \subseteq Earlier'
      /\ Range(offered') = Range(offered) \cup {row}
  BY <1>1, <1>2, EarlierGrows
<1>4. \/ queue' = Append(queue, row) /\ Len(queue) < MaxQueue /\ dropped' = dropped
      \/ queue' = queue /\ dropped' = dropped + 1
  BY DEF Offer
<1>5. InFiles' = InFiles /\ Gone' = Gone /\ InHand' = InHand
  BY <1>2 DEF InFiles, Gone, InHand
<1>6. queue \in Seq(Rows) /\ MaxQueue \in Nat /\ dropped \in Nat /\ Len(queue) <= MaxQueue
  BY <1>1, TelemetryAssumption DEF Filed
<1>7. Range(queue') = Range(queue) \cup {row} \/ Range(queue') = Range(queue)
  BY <1>4, <1>6, AppendRange
<1>8. queue' \in Seq(Rows) /\ Len(queue') <= MaxQueue /\ dropped' \in Nat /\ dropped <= dropped'
  BY <1>4, <1>6, OneMore
<1>9. Filed'
  BY <1>1, <1>2, <1>8 DEF Filed
<1>10. InOrder'
  <2>1. /\ Gone \cup InHand \cup Range(queue) \subseteq Range(offered)
        /\ \A d \in Days : OrderedBy(Earlier, files[d])
        /\ OrderedBy(Earlier, buffer) /\ OrderedBy(Earlier, queue)
        /\ day # NoDay => Range(files[day]) \X Range(buffer) \subseteq Earlier
        /\ Gone \X InHand \subseteq Earlier
        /\ (Gone \cup InHand) \X Range(queue) \subseteq Earlier
    BY <1>1 DEF InOrder
  <2>2. OrderedBy(Earlier', queue')
    <3>1. OrderedBy(Earlier', queue) /\ Range(queue) \X {row} \subseteq Earlier'
      BY <1>3, <2>1, MoreOrdered
    <3> QED
      BY <1>4, <1>6, <3>1, AppendOrdered
  <2>3. /\ \A d \in Days : OrderedBy(Earlier', files[d])
        /\ OrderedBy(Earlier', buffer)
    BY <1>3, <2>1, MoreOrdered
  <2>4. (Gone \cup InHand) \X Range(queue') \subseteq Earlier'
    BY <1>3, <1>7, <2>1
  <2>5. Gone \cup InHand \cup Range(queue') \subseteq Range(offered')
    BY <1>3, <1>7, <2>1
  <2>6. /\ day # NoDay => Range(files[day]) \X Range(buffer) \subseteq Earlier'
        /\ Gone \X InHand \subseteq Earlier'
    BY <1>3, <2>1
  <2> QED
    BY <1>2, <1>5, <2>2, <2>3, <2>4, <2>5, <2>6 DEF InOrder
<1>11. UnderDay'
  BY <1>1, <1>2 DEF UnderDay
<1>12. Accounted'
  <2>1. /\ IsFiniteSet(Range(offered)) /\ Cardinality(Lost) <= dropped
        /\ flusher.rows \subseteq Range(offered) /\ FlushCovers
    BY <1>1 DEF Accounted
  <2>2. IsFiniteSet(Range(offered'))
    BY <1>3, <2>1, FS_AddElement
  <2>3. IsFiniteSet(Lost)
    BY <2>1, FS_Subset DEF Lost
  <2>4. Lost' \subseteq Lost \cup {row} /\ (queue' = Append(queue, row) => Lost' \subseteq Lost)
    <3>1. queue' = Append(queue, row) => Range(queue') = Range(queue) \cup {row}
      BY <1>6, AppendRange
    <3> QED
      BY <1>3, <1>5, <1>7, <3>1 DEF Lost
  <2>5. Cardinality(Lost') <= dropped'
    <3> DEFINE c == Cardinality(Lost)
               e == Cardinality(Lost')
    <3>1. e \in Nat /\ c \in Nat /\ e <= c + 1 /\ (queue' = Append(queue, row) => e <= c)
      BY <2>3, <2>4, OneLarger
    <3>2. c <= dropped
      BY <2>1
    <3> HIDE DEF c, e
    <3>3. (dropped' = dropped /\ e <= c) \/ dropped' = dropped + 1
      BY <1>4, <3>1
    <3>4. e <= dropped'
      BY <1>6, <3>1, <3>2, <3>3
    <3> QED
      BY <3>4 DEF e
  <2>6. FlushCovers'
    <3> SUFFICES ASSUME flusher.pc = "back"
                 PROVE  Cardinality(flusher.rows \ InFiles) <= dropped'
      BY <1>2, <1>5 DEF FlushCovers
    <3> DEFINE c == Cardinality(flusher.rows \ InFiles)
    <3>1. c <= dropped
      BY <2>1 DEF FlushCovers
    <3>2. IsFiniteSet(flusher.rows \ InFiles)
      <4>1. flusher.rows \ InFiles \subseteq Range(offered)
        BY <2>1
      <4> QED
        BY <2>1, <4>1, FS_Subset
    <3>3. c \in Nat
      BY <3>2, FS_CardinalityType
    <3> HIDE DEF c
    <3>4. c <= dropped'
      BY <1>6, <1>8, <3>1, <3>3
    <3> QED
      BY <3>4 DEF c
  <2> QED
    BY <1>2, <1>3, <2>1, <2>2, <2>5, <2>6 DEF Accounted
<1> QED
  BY <1>9, <1>10, <1>11, <1>12 DEF Writing

\* Nothing happens to a row.
LEMMA WritingStays ==
  ASSUME Writing, UNCHANGED <<queue, hand, fileVars, dropped, flusher, offered>>
  PROVE  Writing'
<1>1. /\ queue' = queue /\ hand' = hand /\ files' = files /\ handle' = handle /\ day' = day
      /\ buffer' = buffer /\ dropped' = dropped /\ flusher' = flusher /\ offered' = offered
  BY DEF fileVars
<1>2. Earlier' = Earlier
  BY <1>1 DEF Earlier
<1>3. InFiles' = InFiles /\ Gone' = Gone /\ InHand' = InHand
  BY <1>1 DEF InFiles, Gone, InHand
<1>4. Lost' = Lost
  BY <1>1, <1>3 DEF Lost
<1>5. Filed'
  BY <1>1 DEF Writing, Filed
<1>6. InOrder'
  BY <1>1, <1>2, <1>3 DEF Writing, InOrder
<1>7. UnderDay'
  BY <1>1 DEF Writing, UnderDay
<1>8. FlushCovers'
  BY <1>1, <1>3 DEF Writing, Accounted, FlushCovers
<1>9. Accounted'
  BY <1>1, <1>4, <1>8 DEF Writing, Accounted
<1> QED
  BY <1>5, <1>6, <1>7, <1>9 DEF Writing

\* A flush begins with every row written, and returns with none under way.
LEMMA FlushWriting ==
  ASSUME Writing, Rowed, Flush
  PROVE  Writing'
<1>1. Filed /\ InOrder /\ UnderDay /\ Accounted /\ offered \in Seq(Rows)
  BY DEF Writing, Rowed
<1>2. /\ queue' = queue /\ hand' = hand /\ files' = files /\ handle' = handle /\ day' = day
      /\ buffer' = buffer /\ dropped' = dropped /\ offered' = offered
  BY DEF Flush, fileVars
<1>3. Earlier' = Earlier
  BY <1>2 DEF Earlier
<1>4. InFiles' = InFiles /\ Gone' = Gone /\ InHand' = InHand
  BY <1>2 DEF InFiles, Gone, InHand
<1>5. Lost' = Lost
  BY <1>2, <1>4 DEF Lost
<1>6. flusher \in [pc : {"out", "in", "back"}, rows : SUBSET Rows]
  BY <1>1 DEF Filed
<1>7. Range(offered) \subseteq Rows
  BY <1>1, MemberOf
<1>8. /\ flusher' \in [pc : {"out", "in", "back"}, rows : SUBSET Rows]
      /\ flusher'.rows \subseteq Range(offered)
      /\ flusher'.pc = "back" => flusher'.rows = flusher.rows /\ ~Undone
  <2>1. CASE FlushCall
    BY <1>7, <2>1 DEF FlushCall
  <2>2. CASE FlushReturn
    <3>1. flusher' = [flusher EXCEPT !.pc = "back"] /\ ~Undone
      BY <2>2 DEF FlushReturn
    <3> QED
      BY <1>1, <1>6, <3>1 DEF Accounted
  <2> QED
    BY <2>1, <2>2 DEF Flush
<1>9. Filed'
  BY <1>1, <1>2, <1>8 DEF Filed
<1>10. InOrder'
  BY <1>1, <1>2, <1>3, <1>4 DEF InOrder
<1>11. UnderDay'
  BY <1>1, <1>2 DEF UnderDay
<1>12. FlushCovers'
  <2> SUFFICES ASSUME flusher'.pc = "back"
               PROVE  Cardinality(flusher'.rows \ InFiles) <= dropped
    BY <1>2, <1>4 DEF FlushCovers
  <2> DEFINE c == Cardinality(flusher'.rows \ InFiles)
             e == Cardinality(Lost)
  <2>1. queue = <<>> /\ hand = NoRow
    BY <1>8 DEF Undone
  <2>2. Range(queue) = {} /\ InHand = {}
    BY <2>1, EmptyRange DEF InHand
  <2>3. flusher'.rows \ InFiles \subseteq Lost
    BY <1>8, <2>2 DEF Lost
  <2>4. IsFiniteSet(Lost)
    BY <1>1, FS_Subset DEF Accounted, Lost
  <2>5. c \in Nat /\ e \in Nat /\ c <= e
    BY <2>3, <2>4, OneLarger
  <2>6. e <= dropped /\ dropped \in Nat
    BY <1>1 DEF Accounted, Filed
  <2> HIDE DEF c, e
  <2>7. c <= dropped
    BY <2>5, <2>6
  <2> QED
    BY <2>7 DEF c
<1>13. Accounted'
  BY <1>1, <1>2, <1>5, <1>8, <1>12 DEF Accounted
<1> QED
  BY <1>9, <1>10, <1>11, <1>13 DEF Writing

\* The thread takes a row.
LEMMA GetWriting ==
  ASSUME Writing, Get, UNCHANGED <<flusher, offered>>
  PROVE  Writing'
<1>1. Filed /\ InOrder /\ UnderDay /\ Accounted
  BY DEF Writing
<1>2. /\ files' = files /\ handle' = handle /\ day' = day /\ buffer' = buffer
      /\ dropped' = dropped /\ offered' = offered /\ flusher' = flusher
      /\ hand = NoRow /\ queue # <<>> /\ hand' = Head(queue) /\ queue' = Tail(queue)
  BY DEF Get, fileVars
<1>3. queue \in Seq(Rows) /\ OrderedBy(Earlier, queue) /\ Len(queue) \in Nat
      /\ Len(queue) <= MaxQueue /\ MaxQueue \in Nat
  BY <1>1, TelemetryAssumption DEF Filed, InOrder
<1>4. /\ hand' \in Rows /\ queue' \in Seq(Rows) /\ Len(queue') < Len(queue)
      /\ Range(queue) = {hand'} \cup Range(queue')
      /\ OrderedBy(Earlier, queue') /\ {hand'} \X Range(queue') \subseteq Earlier
  BY <1>2, <1>3, HeadOrdered
<1>5. InHand = {} /\ InHand' = {hand'}
  BY <1>2, <1>4, NoRowIsNone DEF InHand
<1>6. Earlier' = Earlier /\ InFiles' = InFiles /\ Gone' = Gone
  BY <1>2 DEF Earlier, InFiles, Gone
<1>7. InHand' \cup Range(queue') = InHand \cup Range(queue)
  BY <1>4, <1>5
<1>8. Lost' = Lost
  BY <1>2, <1>6, <1>7 DEF Lost
<1>9. Filed'
  <2>1. Len(queue') <= MaxQueue
    BY <1>3, <1>4
  <2> QED
    BY <1>1, <1>2, <1>4, <2>1 DEF Filed
<1>10. InOrder'
  <2>1. (Gone \cup InHand) \X Range(queue) \subseteq Earlier
        /\ Gone \cup InHand \cup Range(queue) \subseteq Range(offered)
    BY <1>1 DEF InOrder
  <2>2. Gone \X InHand' \subseteq Earlier /\ (Gone \cup InHand') \X Range(queue') \subseteq Earlier
    BY <1>4, <1>5, <2>1
  <2>3. Gone \cup InHand' \cup Range(queue') \subseteq Range(offered)
    BY <1>7, <2>1
  <2> QED
    BY <1>1, <1>2, <1>4, <1>6, <2>2, <2>3 DEF InOrder
<1>11. UnderDay' /\ FlushCovers'
  BY <1>1, <1>2, <1>6 DEF UnderDay, Accounted, FlushCovers
<1>12. Accounted'
  BY <1>1, <1>2, <1>8, <1>11 DEF Accounted
<1> QED
  BY <1>9, <1>10, <1>11, <1>12 DEF Writing

\* Files that hold these rows, in their order and under their days.
FilesOf(G, rows) ==
    /\ G \in [Days -> Seq(Rows)]
    /\ \A d \in Days : OrderedBy(Earlier, G[d]) /\ \A x \in Range(G[d]) : x.day = d
    /\ \A x : x \in rows <=> \E d \in Days : x \in Range(G[d])

\* A file that is flushed has what was left in the handle.
LEMMA FlushedFiles ==
  ASSUME Writing
  PROVE  FilesOf(Flushed, Gone) /\ FilesOf(files, InFiles)
<1>1. /\ files \in [Days -> Seq(Rows)] /\ buffer \in Seq(Rows) /\ day \in Days \cup {NoDay}
      /\ (buffer # <<>> => handle = "open") /\ (handle # "none" => day # NoDay)
      /\ \A d \in Days : OrderedBy(Earlier, files[d])
      /\ OrderedBy(Earlier, buffer)
      /\ day # NoDay => Range(files[day]) \X Range(buffer) \subseteq Earlier
      /\ \A d \in Days : \A x \in Range(files[d]) : x.day = d
      /\ \A x \in Range(buffer) : x.day = day
  BY DEF Writing, Filed, InOrder, UnderDay
<1>2. FilesOf(files, InFiles)
  BY <1>1, InFilesIs DEF FilesOf
<1>3. CASE handle # "open"
  <2>1. Flushed = files
    BY <1>3 DEF Flushed
  <2>2. Gone = InFiles
    BY <1>1, <1>3, EmptyRange DEF Gone
  <2> QED
    BY <1>2, <2>1, <2>2
<1>4. CASE handle = "open"
  <2>1. day \in Days
    BY <1>1, <1>4
  <2> DEFINE c == files[day] \o buffer
  <2>2. c \in Seq(Rows) /\ Range(c) = Range(files[day]) \cup Range(buffer)
    BY <1>1, <2>1, ConcatRange
  <2>3. OrderedBy(Earlier, c)
    <3> DEFINE f == files[day]
    <3>1. f \in Seq(Rows) /\ OrderedBy(Earlier, f)
      BY <1>1, <2>1
    <3>2. Range(f) \X Range(buffer) \subseteq Earlier
      BY <1>1, <2>1 DEF NoDay, Days
    <3> HIDE DEF f
    <3>3. OrderedBy(Earlier, f \o buffer)
      BY <1>1, <3>1, <3>2, ConcatOrdered
    <3> QED
      BY <3>3 DEF f
  <2>4. Flushed = [files EXCEPT ![day] = c]
    BY <1>4 DEF Flushed
  <2> HIDE DEF c
  <2>5. /\ Flushed \in [Days -> Seq(Rows)] /\ Flushed[day] = c
        /\ \A d \in Days : d # day => Flushed[d] = files[d]
    BY <1>1, <2>1, <2>2, <2>4
  <2>6. \A d \in Days : OrderedBy(Earlier, Flushed[d]) /\ \A x \in Range(Flushed[d]) : x.day = d
    BY <1>1, <2>2, <2>3, <2>5
  <2>7. ASSUME NEW x PROVE x \in Gone <=> \E d \in Days : x \in Range(Flushed[d])
    BY <2>1, <2>2, <2>5, InFilesIs DEF Gone
  <2> QED
    BY <1>2, <2>5, <2>6, <2>7 DEF FilesOf
<1> QED
  BY <1>3, <1>4

\* And one that is written to, the row in hand.
LEMMA AppendedFiles ==
  ASSUME Writing, hand # NoRow
  PROVE  /\ hand \in Rows /\ hand.day \in Days
         /\ FilesOf([Flushed EXCEPT ![hand.day] = Append(Flushed[hand.day], hand)], Gone \cup {hand})
<1>1. hand \in Rows /\ hand.day \in Days
  BY NoRowIsNone DEF Writing, Filed
<1> DEFINE d == hand.day
           F == Flushed
           a == Append(F[d], hand)
           G == [F EXCEPT ![d] = a]
<1>2. FilesOf(F, Gone)
  BY FlushedFiles
<1>3. Gone \X {hand} \subseteq Earlier
  BY DEF Writing, InOrder, InHand
<1>4. F[d] \in Seq(Rows) /\ Range(F[d]) \subseteq Gone
  BY <1>1, <1>2 DEF FilesOf
<1> HIDE DEF F
<1>5. a \in Seq(Rows) /\ Range(a) = Range(F[d]) \cup {hand}
  BY <1>1, <1>4, AppendRange, OneMore
<1>6. OrderedBy(Earlier, a)
  <2>1. Range(F[d]) \X {hand} \subseteq Earlier /\ OrderedBy(Earlier, F[d])
    BY <1>1, <1>2, <1>3, <1>4 DEF FilesOf
  <2> QED
    BY <1>1, <1>4, <2>1, AppendOrdered
<1> HIDE DEF a
<1>7. /\ G \in [Days -> Seq(Rows)] /\ G[d] = a /\ \A e \in Days : e # d => G[e] = F[e]
  BY <1>1, <1>2, <1>5 DEF FilesOf
<1> HIDE DEF G
<1>8. \A e \in Days : OrderedBy(Earlier, G[e]) /\ \A x \in Range(G[e]) : x.day = e
  <2> SUFFICES ASSUME NEW e \in Days
               PROVE  OrderedBy(Earlier, G[e]) /\ \A x \in Range(G[e]) : x.day = e
    OBVIOUS
  <2>1. CASE e # d
    BY <1>2, <1>7, <2>1 DEF FilesOf
  <2>2. CASE e = d
    <3>1. \A x \in Range(F[d]) : x.day = d
      BY <1>1, <1>2 DEF FilesOf
    <3> QED
      BY <1>5, <1>6, <1>7, <2>2, <3>1
  <2> QED
    BY <2>1, <2>2
<1>9. ASSUME NEW x PROVE x \in Gone \cup {hand} <=> \E e \in Days : x \in Range(G[e])
  <2>1. x \in Gone <=> \E e \in Days : x \in Range(F[e])
    BY <1>2 DEF FilesOf
  <2> QED
    BY <1>1, <1>5, <1>7, <2>1
<1>10. FilesOf(G, Gone \cup {hand})
  BY <1>7, <1>8, <1>9 DEF FilesOf
<1> QED
  BY <1>1, <1>10 DEF G, F, a

\* What an emission leaves: files, a buffer and a count, with the hand empty.
LEMMA EmitsTo ==
  ASSUME Writing, hand # NoRow, hand' = NoRow, UNCHANGED <<queue, flusher, offered>>,
         NEW rows, FilesOf(files, rows)', InFiles \subseteq rows, rows \subseteq Gone \cup {hand},
         handle' \in {"none", "open", "closed"}, day' \in Days \cup {NoDay},
         buffer' \in Seq(Rows), Range(buffer') \subseteq Gone \cup {hand},
         buffer' # <<>> => handle' = "open", handle' # "none" => day' # NoDay,
         OrderedBy(Earlier, buffer'), \A x \in Range(buffer') : x.day = day',
         day' # NoDay => Range(files'[day']) \X Range(buffer') \subseteq Earlier,
         dropped' = dropped + 1 \/ (dropped' = dropped /\ rows = Gone \cup {hand})
  PROVE  Writing'
<1>1. Filed /\ InOrder /\ UnderDay /\ Accounted
  BY DEF Writing
<1>2. queue' = queue /\ flusher' = flusher /\ offered' = offered
  OBVIOUS
<1>3. Earlier' = Earlier
  BY <1>2 DEF Earlier
<1>4. /\ files' \in [Days -> Seq(Rows)]
      /\ \A d \in Days : OrderedBy(Earlier, files'[d]) /\ \A x \in Range(files'[d]) : x.day = d
      /\ \A x : x \in rows <=> \E d \in Days : x \in Range(files'[d])
  BY <1>3 DEF FilesOf
<1>5. InFiles' = rows
  BY <1>4 DEF InFiles
<1>6. Gone' = rows \cup Range(buffer') /\ Gone' \subseteq Gone \cup {hand}
  BY <1>5 DEF Gone
<1>7. InHand' = {} /\ InHand = {hand}
  BY DEF InHand
<1>8. dropped \in Nat /\ dropped' \in Nat /\ dropped <= dropped'
  BY <1>1 DEF Filed
<1>9. Filed'
  BY <1>1, <1>2, <1>4, <1>8 DEF Filed
<1>10. InOrder'
  <2>1. /\ Gone \cup {hand} \cup Range(queue) \subseteq Range(offered)
        /\ OrderedBy(Earlier, queue)
        /\ (Gone \cup {hand}) \X Range(queue) \subseteq Earlier
    BY <1>1, <1>7 DEF InOrder
  <2>2. Gone' \cup InHand' \cup Range(queue) \subseteq Range(offered)
    BY <1>6, <1>7, <2>1
  <2>3. Gone' \X InHand' \subseteq Earlier /\ (Gone' \cup InHand') \X Range(queue) \subseteq Earlier
    BY <1>6, <1>7, <2>1
  <2> QED
    BY <1>2, <1>3, <1>4, <2>1, <2>2, <2>3 DEF InOrder
<1>11. UnderDay'
  BY <1>4 DEF UnderDay
<1>12. Accounted'
  <2>1. /\ IsFiniteSet(Range(offered)) /\ Cardinality(Lost) <= dropped
        /\ flusher.rows \subseteq Range(offered) /\ FlushCovers
    BY <1>1 DEF Accounted
  <2>2. IsFiniteSet(Lost) /\ IsFiniteSet(flusher.rows \ InFiles)
    <3>1. flusher.rows \ InFiles \subseteq Range(offered) /\ Lost \subseteq Range(offered)
      BY <2>1 DEF Lost
    <3> QED
      BY <2>1, <3>1, FS_Subset
  <2>3. Lost' \subseteq Lost \cup {hand} /\ (rows = Gone \cup {hand} => Lost' \subseteq Lost)
    BY <1>2, <1>5, <1>7 DEF Lost, Gone
  <2>4. Cardinality(Lost') <= dropped'
    <3> DEFINE c == Cardinality(Lost)
               e == Cardinality(Lost')
    <3>1. e \in Nat /\ c \in Nat /\ e <= c + 1 /\ (rows = Gone \cup {hand} => e <= c)
      BY <2>2, <2>3, OneLarger
    <3>2. c <= dropped
      BY <2>1
    <3> HIDE DEF c, e
    <3>3. (dropped' = dropped /\ e <= c) \/ dropped' = dropped + 1
      BY <3>1
    <3>4. e <= dropped'
      BY <1>8, <3>1, <3>2, <3>3
    <3> QED
      BY <3>4 DEF e
  <2>5. FlushCovers'
    <3> SUFFICES ASSUME flusher.pc = "back"
                 PROVE  Cardinality(flusher.rows \ InFiles') <= dropped'
      BY <1>2 DEF FlushCovers
    <3> DEFINE c == Cardinality(flusher.rows \ InFiles)
               e == Cardinality(flusher.rows \ InFiles')
    <3>1. c <= dropped
      BY <2>1 DEF FlushCovers
    <3>2. /\ flusher.rows \ InFiles' \subseteq flusher.rows \ InFiles
          /\ flusher.rows \ InFiles' \subseteq (flusher.rows \ InFiles) \cup {hand}
      BY <1>5
    <3>3. e \in Nat /\ c \in Nat /\ e <= c
      BY <2>2, <3>2, OneLarger
    <3> HIDE DEF c, e
    <3>4. e <= dropped'
      BY <1>8, <3>1, <3>3
    <3> QED
      BY <3>4 DEF e
  <2> QED
    BY <1>2, <2>1, <2>4, <2>5 DEF Accounted
<1> QED
  BY <1>9, <1>10, <1>11, <1>12 DEF Writing

\* The thread writes a row, or the disk refuses some of it.
LEMMA EmitWriting ==
  ASSUME Writing, Emit, UNCHANGED <<flusher, offered>>
  PROVE  Writing'
<1>1. /\ hand # NoRow /\ hand' = NoRow /\ queue' = queue /\ flusher' = flusher
      /\ offered' = offered
  BY DEF Emit
<1>2. Filed /\ InOrder /\ UnderDay
  BY DEF Writing
<1>3. hand \in Rows /\ hand.day \in Days /\ hand.day # NoDay /\ hand.day \in Days \cup {NoDay}
  BY <1>1, AppendedFiles DEF Days, NoDay
<1>4. Earlier' = Earlier
  BY <1>1 DEF Earlier
<1>5. \A rows : FilesOf(files', rows) => FilesOf(files, rows)'
  BY <1>4 DEF FilesOf
<1>6. /\ FilesOf(Flushed, Gone) /\ FilesOf(files, InFiles)
      /\ FilesOf([Flushed EXCEPT ![hand.day] = Append(Flushed[hand.day], hand)], Gone \cup {hand})
  BY <1>1, FlushedFiles, AppendedFiles
<1>7. /\ InFiles \subseteq InFiles /\ InFiles \subseteq Gone /\ InFiles \subseteq Gone \cup {hand}
      /\ Gone \subseteq Gone \cup {hand} /\ Range(buffer) \subseteq Gone
  BY DEF Gone
<1>8. /\ <<>> \in Seq(Rows) /\ Range(<<>>) = {} /\ OrderedBy(Earlier, <<>>)
      /\ \A X : X \X {} = {}
  BY EmptyTyped, EmptyRange, FewOrdered
<1>9. /\ handle \in {"none", "open", "closed"} /\ (handle # "none" => day # NoDay)
      /\ day \in Days \cup {NoDay} /\ buffer \in Seq(Rows)
      /\ (buffer # <<>> => handle = "open")
  BY <1>2 DEF Filed
<1>10. Gone \X {hand} \subseteq Earlier
  BY <1>1, <1>2 DEF InOrder, InHand
<1>11. CASE Emitted
  <2>1. /\ handle' = "open" /\ buffer' = <<>> /\ dropped' = dropped
        /\ day' = hand.day
        /\ files' = [Flushed EXCEPT ![hand.day] = Append(Flushed[hand.day], hand)]
    <3>1. IF Switching THEN day' = hand.day ELSE day' = day /\ hand.day = day
      BY <1>11 DEF Emitted, Switching
    <3>2. files' = [Flushed EXCEPT ![IF Switching THEN hand.day ELSE day] = Append(@, hand)]
      BY <1>11 DEF Emitted
    <3>3. (IF Switching THEN hand.day ELSE day) = hand.day
      BY <3>1
    <3>4. files' = [Flushed EXCEPT ![hand.day] = Append(@, hand)]
      BY <3>2, <3>3
    <3> QED
      BY <1>11, <3>1, <3>4 DEF Emitted
  <2>2. PICK rows : rows = Gone \cup {hand}
    OBVIOUS
  <2>3. FilesOf(files, rows)'
    BY <1>5, <1>6, <2>1, <2>2
  <2> QED
    BY <1>1, <1>3, <1>7, <1>8, <2>1, <2>2, <2>3, EmitsTo
<1>12. CASE OpenFails
  <2>1. /\ files' = Flushed /\ buffer' = <<>> /\ dropped' = dropped + 1 /\ day' = day
        /\ handle' = IF handle = "none" THEN "none" ELSE "closed"
    BY <1>12 DEF OpenFails
  <2>2. PICK rows : rows = Gone
    OBVIOUS
  <2>3. FilesOf(files, rows)'
    BY <1>5, <1>6, <2>1, <2>2
  <2> QED
    BY <1>1, <1>3, <1>7, <1>8, <1>9, <2>1, <2>2, <2>3, EmitsTo
<1>13. CASE CloseFails
  <2>1. /\ files' = files /\ buffer' = <<>> /\ dropped' = dropped + 1 /\ day' = day
        /\ handle' = "closed" /\ handle = "open"
    BY <1>13 DEF CloseFails
  <2>2. PICK rows : rows = InFiles
    OBVIOUS
  <2>3. FilesOf(files, rows)'
    BY <1>5, <1>6, <2>1, <2>2
  <2> QED
    BY <1>1, <1>3, <1>7, <1>8, <1>9, <2>1, <2>2, <2>3, EmitsTo
<1>14. CASE FlushFails /\ Switching
  <2>1. /\ files' = Flushed /\ buffer' = <<hand>> /\ day' = hand.day /\ handle' = "open"
        /\ dropped' = dropped + 1
    BY <1>14 DEF FlushFails
  <2>2. PICK rows : rows = Gone
    OBVIOUS
  <2>3. FilesOf(files, rows)'
    BY <1>5, <1>6, <2>1, <2>2
  <2>4. /\ buffer' \in Seq(Rows) /\ Range(buffer') = {hand} /\ OrderedBy(Earlier, buffer')
    <3>1. <<hand>> = Append(<<>>, hand)
      OBVIOUS
    <3>2. PICK none \in Seq(Rows) : none = <<>>
      BY <1>8
    <3>3. Append(none, hand) \in Seq(Rows) /\ Range(Append(none, hand)) = Range(none) \cup {hand}
      BY <1>3, AppendRange, OneMore
    <3> QED
      BY <1>8, <2>1, <3>1, <3>2, <3>3, FewOrdered
  <2>5. Range(files'[day']) \X Range(buffer') \subseteq Earlier
    <3>1. Range(files'[day']) \subseteq Gone
      BY <1>3, <1>6, <2>1 DEF FilesOf
    <3> QED
      BY <1>10, <2>4, <3>1
  <2>6. \A x \in Range(buffer') : x.day = day'
    BY <2>1, <2>4
  <2> QED
    BY <1>1, <1>3, <1>7, <2>1, <2>2, <2>3, <2>4, <2>5, <2>6, EmitsTo
<1>15. CASE FlushFails /\ ~Switching
  <2>1. /\ handle = "open" /\ buffer' = Append(buffer, hand) /\ day' = day /\ files' = files
        /\ handle' = "open" /\ dropped' = dropped + 1 /\ hand.day = day
    BY <1>15 DEF FlushFails, Switching
  <2>2. PICK rows : rows = InFiles
    OBVIOUS
  <2>3. FilesOf(files, rows)'
    BY <1>5, <1>6, <2>1, <2>2
  <2>4. /\ buffer' \in Seq(Rows) /\ Range(buffer') = Range(buffer) \cup {hand}
    BY <1>3, <1>9, <2>1, AppendRange, OneMore
  <2>5. OrderedBy(Earlier, buffer')
    <3>1. Range(buffer) \X {hand} \subseteq Earlier /\ OrderedBy(Earlier, buffer)
      BY <1>2, <1>7, <1>10 DEF InOrder
    <3> QED
      BY <1>3, <1>9, <2>1, <3>1, AppendOrdered
  <2>6. Range(files'[day']) \X Range(buffer') \subseteq Earlier
    <3>1. Range(files[day]) \subseteq Gone
      BY <1>3, <1>6, <1>7, <2>1 DEF FilesOf
    <3>2. Range(files[day]) \X Range(buffer) \subseteq Earlier
      BY <1>2, <1>3, <2>1 DEF InOrder
    <3> QED
      BY <1>10, <2>1, <2>4, <3>1, <3>2
  <2>7. \A x \in Range(buffer') : x.day = day'
    BY <1>2, <2>1, <2>4 DEF UnderDay
  <2>8. Range(buffer') \subseteq Gone \cup {hand}
    BY <1>7, <2>4
  <2> QED
    BY <1>1, <1>3, <1>7, <2>1, <2>2, <2>3, <2>4, <2>5, <2>6, <2>7, <2>8, EmitsTo
<1>16. CASE WriteRefused
  <2>1. /\ files' = files /\ buffer' = buffer /\ dropped' = dropped + 1 /\ day' = day
        /\ handle' = handle /\ buffer = <<>>
    BY <1>9, <1>16 DEF WriteRefused, fileVars
  <2>2. PICK rows : rows = InFiles
    OBVIOUS
  <2>3. FilesOf(files, rows)'
    BY <1>5, <1>6, <2>1, <2>2
  <2> QED
    BY <1>1, <1>3, <1>7, <1>8, <1>9, <2>1, <2>2, <2>3, EmitsTo
<1> QED
  BY <1>11, <1>12, <1>13, <1>14, <1>15, <1>16 DEF Emit

\* Every step keeps what is known of the rows on their way.
LEMMA NextWriting == Watching /\ Offering /\ Writing /\ [Next]_vars => Writing'
<1> SUFFICES ASSUME Watching, Offering, Writing, [Next]_vars PROVE Writing'
  OBVIOUS
<1>1. Rowed
  BY DEF Offering
<1>2. CASE Backend \/ Midnight \/ UNCHANGED vars
  BY <1>2, WritingStays DEF Backend, Midnight, vars
<1>3. ASSUME NEW r \in Requesters, Requester(r) PROVE Writing'
  <2>1. UNCHANGED <<hand, fileVars, flusher>>
    BY <1>3 DEF Requester
  <2>2. CASE Stamp(r)
    BY <2>1, <2>2, WritingStays DEF Stamp
  <2>3. CASE Put(r)
    <3> DEFINE row == [by |-> r, n |-> <<>>, day |-> stamp[r]]
    <3>1. Offer(row) /\ stamp[r] \in Days
      BY <1>1, <2>3 DEF Put, Rowed
    <3>2. row \in Rows
      BY <3>1, RequestRow
    <3> HIDE DEF row
    <3> QED
      BY <1>1, <2>1, <3>1, <3>2, OfferWriting
  <2> QED
    BY <1>3, <2>2, <2>3 DEF Requester
<1>4. CASE Watcher
  <2>1. UNCHANGED <<hand, fileVars, flusher>>
    BY <1>4 DEF Watcher
  <2>2. CASE Line
    <3> DEFINE l == Head(watch.fresh)
               row == LineRow(l.line)
    <3>1. Offer(row) \/ UNCHANGED <<queue, dropped, offered>>
      BY <2>2 DEF Line
    <3>2. row \in Rows
      BY <1>1, <2>2, NextLine, WatchRow DEF Line, Rowed
    <3> HIDE DEF row
    <3> QED
      BY <1>1, <2>1, <3>1, <3>2, OfferWriting, WritingStays
  <2>3. CASE Start \/ Ask \/ StatMissing \/ Stat \/ OpenMissing \/ Read \/ EndPoll
    BY <2>1, <2>3, WritingStays
    DEF Start, Ask, StatMissing, Stat, OpenMissing, Read, EndPoll
  <2> QED
    BY <1>4, <2>2, <2>3 DEF Watcher, PollStep
<1>5. CASE Writer
  BY <1>5, GetWriting, EmitWriting DEF Writer
<1>6. CASE Flush
  BY <1>1, <1>6, FlushWriting
<1> QED
  BY <1>2, <1>3, <1>4, <1>5, <1>6 DEF Next

-----------------------------------------------------------------------------
(* Theorems *)

\* It holds at the start.
LEMMA InitIInv == Init => IInv
<1> SUFFICES ASSUME Init PROVE IInv
  OBVIOUS
<1>1. Watching /\ watch.inode = 0 /\ watch.pc = "off" /\ watch.replay = 0
  BY InitWatching DEF Init
<1>2. /\ offered = <<>> /\ queue = <<>> /\ hand = NoRow /\ buffer = <<>>
      /\ files = [d \in Days |-> <<>>] /\ handle = "none" /\ day = NoDay /\ dropped = 0
      /\ flusher = [pc |-> "out", rows |-> {}] /\ today = 1
      /\ stamp = [r \in Requesters |-> NoDay] /\ ino = 1
      /\ before = [ino |-> 0, lines |-> 0, found |-> 0]
  BY DEF Init
<1>3. /\ offered \in Seq(Rows) /\ Len(offered) = 0 /\ Range(offered) = {}
      /\ queue \in Seq(Rows) /\ Len(queue) = 0 /\ Range(queue) = {}
      /\ buffer \in Seq(Rows) /\ Range(buffer) = {}
      /\ \A d \in Days : files[d] = <<>> /\ Range(files[d]) = {}
      /\ 1..0 = {}
  BY <1>2, EmptyTyped, EmptyRange
<1>4. Offering
  <2>1. today \in Days
    BY <1>2, TelemetryAssumption DEF Days
  <2>2. Rowed
    BY <1>2, <1>3, <2>1 DEF Rowed
  <2>3. Once /\ Told
    BY <1>2, <1>3 DEF Once, Told
  <2> QED
    BY <2>2, <2>3 DEF Offering
<1>5. Sinking
  <2>1. before \in Placed /\ before.found = 0 /\ before.lines = 0
    BY <1>2 DEF Placed
  <2>2. Replays
    BY <1>1, <2>1 DEF Replays
  <2> QED
    BY <1>1, <2>2 DEF Sinking, Sunk
<1>6. Writing
  <2>1. InFiles = {} /\ InHand = {} /\ Gone = {}
    BY <1>2, <1>3 DEF InFiles, InHand, Gone
  <2>2. Filed
    <3>1. files \in [Days -> Seq(Rows)]
      BY <1>2, EmptyTyped
    <3>2. flusher \in [pc : {"out", "in", "back"}, rows : SUBSET Rows]
      BY <1>2
    <3>3. Len(queue) <= MaxQueue /\ dropped \in Nat
      BY <1>2, <1>3, TelemetryAssumption
    <3> QED
      BY <1>2, <1>3, <3>1, <3>2, <3>3 DEF Filed
  <2>3. InOrder
    BY <1>2, <1>3, <2>1, FewOrdered DEF InOrder
  <2>4. UnderDay
    BY <1>3 DEF UnderDay
  <2>5. Accounted
    <3>1. Lost = {} /\ IsFiniteSet({}) /\ Cardinality({}) = 0 /\ flusher.rows = {}
          /\ flusher.pc = "out"
      BY <1>2, <1>3, FS_EmptySet DEF Lost
    <3>2. IsFiniteSet(Range(offered)) /\ Cardinality(Lost) <= dropped
      <4>1. Range(offered) = {} /\ dropped = 0
        BY <1>2, <1>3
      <4>2. IsFiniteSet(Range(offered))
        BY <3>1, <4>1
      <4>3. Cardinality(Lost) = 0
        BY <3>1
      <4> HIDE DEF Lost
      <4> QED
        BY <4>1, <4>2, <4>3
    <3>3. flusher.rows \subseteq Range(offered) /\ FlushCovers
      BY <3>1 DEF FlushCovers
    <3> QED
      BY <3>2, <3>3 DEF Accounted
  <2> QED
    BY <2>2, <2>3, <2>4, <2>5 DEF Writing
<1> QED
  BY <1>1, <1>4, <1>5, <1>6 DEF IInv

\* Every step keeps it.
LEMMA NextIInv == IInv /\ [Next]_vars => IInv'
  BY NextWatching, NextOffering, NextSinking, NextWriting DEF IInv

\* The inductive invariant holds throughout.
THEOREM Invariant == Spec => []IInv
  BY InitIInv, NextIInv, PTL DEF Spec

\* Every variable keeps its type: nothing is queued past maxsize, the watch's
\* place is the end of a line, and what a failed flush left is in an open file.
THEOREM TelemetryTyped == Spec => []TypeOK
<1>1. IInv => TypeOK
  <2> SUFFICES ASSUME IInv PROVE TypeOK
    OBVIOUS
  <2>1. Logged /\ Following /\ Rowed /\ Filed
    BY DEF IInv, Watching, Offering, Writing
  <2>2. IsPrefix(log, Prints[ino])
    <3>1. Prints[ino] \in Seq(Kinds)
      BY <2>1, TelemetryAssumption DEF Logged, Kinds
    <3>2. log \in Seq(Kinds) /\ Len(log) \in Nat /\ Len(log) <= Len(Prints[ino])
          /\ \A i \in 1..Len(log) : log[i] = Prints[ino][i]
      BY <2>1, LogParts DEF Logged
    <3> DEFINE p == Prints[ino]
    <3> HIDE DEF p
    <3>3. SubSeq(log, 1, Len(log)) = SubSeq(p, 1, Len(log))
      BY <3>1, <3>2 DEF p
    <3> QED
      BY <3>2, <3>3 DEF IsPrefix, p
  <2>3. watch.offset % 2 = 0
    <3>1. \A n \in Nat : (2 * n) % 2 = 0
      OBVIOUS
    <3> QED
      BY <2>1, <3>1, WatchParts
  <2>4. watch.inode \in 0..Len(Prints)
    <3> DEFINE w == watch.inode
    <3>1. w \in Nat /\ w <= ino /\ ino \in 1..Len(Prints)
      BY <2>1, WatchParts DEF Following, Logged
    <3> HIDE DEF w
    <3>2. w \in 0..Len(Prints)
      BY <3>1, PrintsTyped
    <3> QED
      BY <3>2 DEF w
  <2>5. ino \in DOMAIN Prints
    BY <2>1, TelemetryAssumption DEF Logged
  <2> QED
    BY <2>1, <2>2, <2>3, <2>4, <2>5, WatchParts DEF TypeOK, Logged, Rowed, Filed
<1> QED
  BY <1>1, Invariant, PTL

\* Nothing that flush waits for is lost unseen: when it returns, what was
\* written before it is in a file or counted, whatever the disk refused.
THEOREM FlushesCover == Spec => []FlushCovers
<1>1. IInv => FlushCovers
  BY DEF IInv, Writing, Accounted
<1> QED
  BY <1>1, Invariant, PTL

\* The files hold rows under their days in the order of their writes, each once.
THEOREM RowsKeepOrder == Spec => []RowsInOrder
<1>1. IInv => RowsInOrder
  <2> SUFFICES ASSUME IInv, NEW d \in Days PROVE
        LET at == [i \in 1..Len(files[d]) |->
                      CHOOSE j \in 1..Len(offered) : offered[j] = files[d][i]]
        IN  /\ \A i \in 1..Len(files[d]) : files[d][i].day = d
            /\ \A i, j \in 1..Len(files[d]) : i < j => at[i] < at[j]
    BY DEF RowsInOrder
  <2> DEFINE f == files[d]
             at == [i \in 1..Len(f) |-> CHOOSE j \in 1..Len(offered) : offered[j] = f[i]]
  <2>1. /\ f \in Seq(Rows) /\ OrderedBy(Earlier, f) /\ \A x \in Range(f) : x.day = d
        /\ Offering
    BY DEF IInv, Writing, Filed, InOrder, UnderDay
  <2>2. \A i \in 1..Len(f) : f[i] \in Range(f)
    BY <2>1, MemberOf
  <2>3. ASSUME NEW i \in 1..Len(f), NEW j \in 1..Len(f), i < j PROVE at[i] < at[j]
    <3>1. <<f[i], f[j]>> \in Earlier
      BY <2>1, <2>3 DEF OrderedBy
    <3>2. PICK m \in 1..Len(offered), n \in 1..Len(offered) :
              m < n /\ <<f[i], f[j]>> = <<offered[m], offered[n]>>
      BY <3>1 DEF Earlier
    <3>3. offered[m] = f[i] /\ offered[n] = f[j]
      BY <3>2
    <3>4. \A k \in 1..Len(offered) : (offered[k] = f[i] => k = m) /\ (offered[k] = f[j] => k = n)
      BY <2>1, <3>3, Distinct
    <3>5. at[i] = m /\ at[j] = n
      BY <3>3, <3>4
    <3> QED
      BY <3>2, <3>5
  <2> QED
    BY <2>1, <2>2, <2>3
<1> QED
  BY <1>1, Invariant, PTL

\* What the dashboard shows of a log is the totals of the lines read of it, and
\* of no other log, wherever in a poll one was moved.
THEOREM TotalsOfThisLog == Spec => []TotalsAreOfThisLog
<1>1. IInv => TotalsAreOfThisLog
  <2> SUFFICES ASSUME IInv, Settled
               PROVE  watch.offset <= Size /\ shown = Totals(watch.offset \div 2)
    BY DEF TotalsAreOfThisLog
  <2>1. Logged /\ Following /\ Fresh /\ Totalled
    BY DEF IInv, Watching
  <2>2. watch.pc \in {"idle", "asked"} /\ there /\ watch.inode = ino
    BY DEF Settled
  <2>3. /\ ino # 0 /\ ReadUp \in Nat /\ Complete \in Nat /\ ReadUp <= Complete
        /\ watch.offset = 2 * ReadUp /\ Len(log) \in Nat /\ Complete <= Len(log)
        /\ Size \in Nat /\ (Size = 2 * Complete \/ Size = 2 * Complete + 1)
    BY <2>1, <2>2, LogParts, WatchParts DEF Following
  <2>4. watch.offset <= Size
    BY <2>3
  <2>5. Heard = ReadUp
    <3>1. Heard = ReadUp - 0
      BY <2>1, <2>2 DEF Heard, Following
    <3> QED
      BY <2>3, <3>1
  <2>6. shown = TotalsOf(ino, ReadUp)
    BY <2>1, <2>2, <2>3, <2>5 DEF Totalled
  <2>7. ReadUp <= Len(log)
    BY <2>3
  <2>8. Totals(ReadUp) = TotalsOf(ino, ReadUp)
    BY <2>1, <2>3, <2>7, TotalsAgree
  <2> QED
    BY <2>4, <2>6, <2>8 DEF ReadUp
<1> QED
  BY <1>1, Invariant, PTL

\* The sink is given each line the watch read of this log once, but for as many
\* of the log it found first as there were when the router started.
THEOREM SinkIsGiven == Spec => []SinkIsTold
<1>1. IInv => SinkIsTold
  <2> SUFFICES ASSUME IInv PROVE SinkIsTold
    OBVIOUS
  <2> DEFINE kept == IF ino = before.found THEN 1..before.lines ELSE {}
  <2>1. Logged /\ Following /\ Told /\ Sunk /\ Replays
    BY DEF IInv, Watching, Offering, Sinking
  <2>2. \A i, j \in Given : offered[i].n = offered[j].n => i = j
    BY <2>1 DEF Given, Told, FromWatch
  <2>3. ASSUME Settled
        PROVE  {offered[i].n[2] : i \in Given} =
                   {n \in 1..ReadUp : log[n] = "evicted" /\ n \notin kept}
    <3>1. watch.pc \in {"idle", "asked"} /\ there /\ watch.inode = ino
      BY <2>3 DEF Settled
    <3>2. /\ ino # 0 /\ ReadUp \in Nat /\ Complete \in Nat /\ ReadUp <= Complete
          /\ Len(log) \in Nat /\ Complete <= Len(log)
      BY <2>1, <3>1, LogParts, WatchParts DEF Following
    <3>3. Heard = ReadUp
      <4>1. Heard = ReadUp - 0
        BY <2>1, <3>1 DEF Heard, Following
      <4> QED
        BY <3>2, <4>1
    <3>4. \A n \in 1..ReadUp : log[n] = Prints[ino][n]
      <4>1. \A n \in 1..ReadUp : n \in 1..Len(log)
        BY <3>2
      <4> QED
        BY <2>1, <4>1 DEF Logged
    <3>5. \A n \in 1..ReadUp :
              Due(ino, n) <=> log[n] = "evicted" /\ n \notin kept
      <4>1. before.lines \in Nat
        BY <2>1 DEF Replays, Placed
      <4>2. \A n \in 1..ReadUp : n \in 1..before.lines <=> ~(n > before.lines)
        BY <3>2, <4>1
      <4> QED
        BY <3>4, <4>2 DEF Due
    <3>6. ASSUME NEW i \in Given
          PROVE  offered[i].n[2] \in 1..ReadUp /\ Due(ino, offered[i].n[2])
      <4>1. i \in 1..Len(offered) /\ FromWatch(i) /\ offered[i].n[1] = watch.inode
        BY <3>1 DEF FromWatch, Given
      <4> QED
        BY <2>1, <3>1, <3>2, <3>3, <4>1 DEF Told, Sunk
    <3>7. ASSUME NEW n \in 1..ReadUp, Due(ino, n)
          PROVE  \E i \in Given : offered[i].n[2] = n
      BY <2>1, <3>1, <3>2, <3>3, <3>7 DEF Sunk, FromWatch, Given
    <3> HIDE DEF kept
    <3> QED
      BY <3>5, <3>6, <3>7
  <2> QED
    BY <2>2, <2>3 DEF SinkIsTold, SunkBut, ReadUp
<1> QED
  BY <1>1, Invariant, PTL
=============================================================================
