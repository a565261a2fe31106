--------------------------- MODULE Openings_proofs ---------------------------
(***************************************************************************)
(* What holds of Openings for every number of requests, openings, messages *)
(* and faults.                                                             *)
(***************************************************************************)
EXTENDS Openings, Queues_proofs

PlanKinds == {"none", "load", "wait", "read", "start"}
Outs == {"none", "cold", "warm", "raised"}

\* Where a thread is, and what it was planned for, go together.
PlanOf(t) ==
    /\ rq[t].pc = "new" => rq[t].plan = "none"
    /\ rq[t].pc \in {"link", "reading", "sweep"} => Builds(t)
    /\ rq[t].pc = "lookup" => rq[t].plan = "start"
    /\ rq[t].pc = "wait" => rq[t].plan = "wait"
    /\ rq[t].pc \in {"loading", "loaded", "refused", "unlink"} =>
           rq[t].plan \in {"load", "start", "wait"}
    /\ rq[t].pc \in {"lookup", "wait", "loading", "loaded", "refused", "unlink"} =>
           rq[t].load \in Keys
    /\ rq[t].plan = "read" => rq[t].key \in Bases
    /\ rq[t].plan = "start" => rq[t].key \in Starts
    /\ rq[t].pc # "sweep" => rq[t].spent = {}
Plans == \A t \in Requests : PlanOf(t)

\* NoStrayFile, with a key that is being read only once its link was made.
FilesAccounted ==
    \A k \in Keys : files[k] # "none" =>
        \/ Has(k)
        \/ \E t \in Requests : rq[t].pc = "reading" /\ rq[t].key = k
        \/ \E t \in Requests : k \in Unlinks(t)

IInv == TypeOK /\ Plans /\ OneReader /\ StartsAreKnown /\ FilesAccounted

-------------------------------------------------------------------------------
\* What the helpers return.

\* A start of a message, short of its last line, is a start.
LEMMA StartTyped ==
  ASSUME NEW t \in Requests, NEW n \in 1..(Len(Text[t]) - 1)
  PROVE  Start(t, n) \in Starts
  BY DEF Starts

\* The keys are bases or starts, and None is neither.
LEMMA KeysSplit ==
  /\ Keys = Bases \cup Starts /\ Bases \cap Starts = {} /\ NoKey \notin Keys
  /\ \A t \in Requests : Base[t] \in Bases \cup {NoKey} /\ (Base[t] # NoKey => Base[t] \in Bases)
  BY Parameters DEF Keys, Bases

\* The longest kept start of a message is one of its starts.
LEMMA FoundTyped ==
  ASSUME NEW t \in Requests, Found(t) # {}
  PROVE  Start(t, Most(Found(t))) \in Starts
<1>1. Found(t) \in SUBSET (0..Len(Text[t])) /\ Len(Text[t]) \in Nat
  BY Parameters DEF Found
<1>2. \E n \in Found(t) : \A m \in Found(t) : m <= n
  BY <1>1, GreatestOf
<1>3. \E n \in Found(t) : \A m \in Found(t) : n >= m
  BY <1>1, <1>2
<1>4. Most(Found(t)) \in Found(t)
  BY <1>3 DEF Most
<1>5. Most(Found(t)) \in 1..(Len(Text[t]) - 1)
  BY <1>4 DEF Found
<1> QED
  BY <1>5, StartTyped

\* What several messages share is a start of each.
LEMMA WantedTyped ==
  ASSUME NEW t \in Requests
  PROVE  Wanted(t) \subseteq Starts \ building
<1> DEFINE x == Text[t]
           others == heads[Lead[t]]
<1>1. x \in Seq(Lines) /\ Len(x) \in Nat
  BY Parameters
<1>2. ASSUME NEW y, Shared(x, y) # {} PROVE Most(Shared(x, y)) \in 1..(Len(x) - 1)
  <2>1. Shared(x, y) \in SUBSET (0..Len(x))
    BY <1>1 DEF Shared
  <2>2. \E n \in Shared(x, y) : \A m \in Shared(x, y) : m <= n
    BY <1>1, <1>2, <2>1, GreatestOf
  <2>3. \E n \in Shared(x, y) : \A m \in Shared(x, y) : n >= m
    BY <2>1, <2>2
  <2>4. Most(Shared(x, y)) \in Shared(x, y)
    BY <2>3 DEF Most
  <2> QED
    BY <2>4 DEF Shared
<1>3. SharedLengths(x, others) \subseteq 1..(Len(x) - 1)
  BY <1>2 DEF SharedLengths
<1> QED
  BY <1>3, StartTyped DEF Wanted

\* Moved to the end, a key is kept like the others.
LEMMA ToEndRange ==
  ASSUME NEW q \in Seq(Keys), NEW k \in Keys
  PROVE  ToEnd(q, k) \in Seq(Keys) /\ Range(ToEnd(q, k)) = Range(q) \cup {k}
<1> DEFINE w == Without(q, {k})
<1>1. w \in Seq(Keys) /\ Range(w) = Range(q) \ {k}
  BY WithoutRange
<1>2. ToEnd(q, k) = Append(w, k)
  BY DEF ToEnd
<1> HIDE DEF w
<1>3. Range(Append(w, k)) = Range(w) \cup {k}
  BY <1>1, AppendRange
<1>4. Append(w, k) \in Seq(Keys)
  BY <1>1
<1> QED
  BY <1>1, <1>2, <1>3, <1>4

\* What is trimmed was kept, and nobody reads it.
LEMMA TrimTyped ==
  ASSUME NEW q \in Seq(Keys), NEW keep
  PROVE  Trim(q, keep) \subseteq Range(q) \ keep
<1> DEFINE p1 == Pick(q, Starts \ keep)
           p2 == Pick(q, Bases \ keep)
           free == p1 \o p2
<1>1. /\ p1 \in Seq(Keys) /\ Range(p1) = Range(q) \cap (Starts \ keep)
      /\ p2 \in Seq(Keys) /\ Range(p2) = Range(q) \cap (Bases \ keep)
  BY PickRange
<1>2. Range(free) = Range(p1) \cup Range(p2)
  <2> HIDE DEF p1, p2
  <2> QED
    BY <1>1, ConcatRange
<1>3. \A i \in DOMAIN free : free[i] \in Range(free)
  BY DEF Range
<1>4. Trim(q, keep) \subseteq Range(free)
  <2>1. Trim(q, keep) = {free[i] : i \in {i \in DOMAIN free : i <= Len(q) - BlockBudget}}
    BY DEF Trim
  <2> HIDE DEF free
  <2> QED
    BY <1>3, <2>1
<1> HIDE DEF free, p1, p2
<1> QED
  BY <1>1, <1>2, <1>4

\* The messages under a lead.
LEMMA HeardTyped ==
  ASSUME TypeOK, NEW t \in Requests
  PROVE  Heard(t) \in [Leads -> Seq({Text[u] : u \in Requests})]
<1> DEFINE T == {Text[u] : u \in Requests}
           h == heads[Lead[t]]
           more == Append(h, Text[t])
<1>1. Lead[t] \in Leads /\ heads \in [Leads -> Seq(T)] /\ Text[t] \in T
  BY DEF Leads, TypeOK
<1>2. h \in Seq(T)
  BY <1>1
<1>3. more \in Seq(T) /\ Tail(more) \in Seq(T)
  BY <1>1, <1>2
<1> DEFINE kept == IF Len(more) > MaxHeads THEN Tail(more) ELSE more
<1>4. kept \in Seq(T)
  BY <1>3
<1>5. Heard(t) = heads \/ Heard(t) = [heads EXCEPT ![Lead[t]] = kept]
  BY Zenon DEF Heard
<1> HIDE DEF T, h, more, kept
<1>6. Heard(t) \in [Leads -> Seq(T)]
  BY <1>1, <1>4, <1>5
<1> QED
  BY <1>6 DEF T

-------------------------------------------------------------------------------
\* A step moves one thread.

Moved(t) == /\ rq' \in [Requests -> Threads]
            /\ \A u \in Requests \ {t} : rq'[u] = rq[u]

\* Go changes where the thread is, and nothing else of it.
LEMMA GoMoves ==
  ASSUME TypeOK, NEW t \in Requests, NEW pc \in Pcs, Go(t, pc)
  PROVE  Moved(t) /\ rq'[t] = [rq[t] EXCEPT !.pc = pc]
<1>1. rq \in [Requests -> Threads] /\ rq[t] \in Threads
  BY DEF TypeOK
<1>2. [rq[t] EXCEPT !.pc = pc] \in Threads
  BY <1>1 DEF Threads
<1>3. rq' = [rq EXCEPT ![t] = [rq[t] EXCEPT !.pc = pc]]
  BY DEF Go
<1> QED
  BY <1>1, <1>2, <1>3 DEF Moved

\* Leave ends the thread with its outcome.
LEMMA LeaveMoves ==
  ASSUME TypeOK, NEW t \in Requests, NEW out \in Outs, Leave(t, out)
  PROVE  Moved(t) /\ rq'[t] = [rq[t] EXCEPT !.pc = "done", !.out = out]
<1>1. rq \in [Requests -> Threads] /\ rq[t] \in Threads
  BY DEF TypeOK
<1>2. [rq[t] EXCEPT !.pc = "done", !.out = out] \in Threads
  BY <1>1 DEF Threads, Outs, Pcs
<1>3. rq' = [rq EXCEPT ![t] = [rq[t] EXCEPT !.pc = "done", !.out = out]]
  BY <1>1 DEF Leave
<1> QED
  BY <1>1, <1>2, <1>3 DEF Moved

\* Decide fills in the plan.
LEMMA DecideMoves ==
  ASSUME TypeOK, NEW t \in Requests, NEW pc \in Pcs, NEW plan \in PlanKinds,
         NEW key \in Keys \cup {NoKey}, NEW load \in Keys \cup {NoKey},
         Decide(t, pc, plan, key, load)
  PROVE  /\ Moved(t)
         /\ rq'[t].pc = pc /\ rq'[t].plan = plan /\ rq'[t].key = key /\ rq'[t].load = load
         /\ rq'[t].spent = rq[t].spent
<1> DEFINE r == [rq[t] EXCEPT !.pc = pc, !.plan = plan, !.key = key, !.load = load]
<1>1. rq \in [Requests -> Threads] /\ rq[t] \in Threads
  BY DEF TypeOK
<1>2. r \in Threads
  BY <1>1 DEF Threads, PlanKinds
<1>3. rq' = [rq EXCEPT ![t] = r]
  BY <1>1 DEF Decide
<1>4. r.pc = pc /\ r.plan = plan /\ r.key = key /\ r.load = load /\ r.spent = rq[t].spent
  BY <1>1 DEF Threads
<1> HIDE DEF r
<1>5. Moved(t) /\ rq'[t] = r
  BY <1>1, <1>2, <1>3 DEF Moved
<1> QED
  BY <1>4, <1>5

\* The plans of the threads that did not move stand.
LEMMA PlansMoved ==
  ASSUME Plans, NEW t \in Requests, Moved(t), PlanOf(t)'
  PROVE  Plans'
  BY DEF Plans, PlanOf, Moved, Builds

\* A thread that goes on reading, begins to, or ends it, with its key.
LEMMA ReaderMoved ==
  ASSUME TypeOK, OneReader, NEW t \in Requests, Moved(t),
         \/ /\ Reading(t)' <=> Reading(t)
            /\ Reading(t) => rq'[t].key = rq[t].key
            /\ building' = building
         \/ /\ ~Reading(t) /\ Reading(t)'
            /\ rq'[t].key \notin building
            /\ building' = building \cup {rq'[t].key}
         \/ /\ ~Reading(t)' /\ (Builds(t) => Reading(t))
            /\ building' = NotBuilding(t)
  PROVE  OneReader'
<1>1. \A u \in Requests \ {t} : (Reading(u)' <=> Reading(u)) /\ rq'[u] = rq[u]
  BY DEF Moved, Reading, Builds
<1>2. \A k : k \in building <=> \E u \in Requests : Reading(u) /\ rq[u].key = k
  BY DEF OneReader
<1>3. \A u, v \in Requests : Reading(u) /\ Reading(v) /\ rq[u].key = rq[v].key => u = v
  BY DEF OneReader
<1>4. SUFFICES /\ \A k : k \in building' <=> \E u \in Requests : Reading(u)' /\ rq'[u].key = k
               /\ \A u, v \in Requests : Reading(u)' /\ Reading(v)' /\ rq'[u].key = rq'[v].key => u = v
  BY DEF OneReader, Reading, Builds
<1>5. CASE /\ Reading(t)' <=> Reading(t)
           /\ Reading(t) => rq'[t].key = rq[t].key
           /\ building' = building
  BY <1>1, <1>2, <1>3, <1>5
<1>6. CASE /\ ~Reading(t) /\ Reading(t)'
           /\ rq'[t].key \notin building
           /\ building' = building \cup {rq'[t].key}
  BY <1>1, <1>2, <1>3, <1>6
<1>7. CASE /\ ~Reading(t)' /\ (Builds(t) => Reading(t))
           /\ building' = NotBuilding(t)
  <2>1. CASE Builds(t)
    <3>1. building' = building \ {rq[t].key}
      BY <1>7, <2>1 DEF NotBuilding
    <3> QED
      BY <1>1, <1>2, <1>3, <1>7, <2>1, <3>1
  <2>2. CASE ~Builds(t)
    <3>1. building' = building
      BY <1>7, <2>2 DEF NotBuilding
    <3>2. ~Reading(t)
      BY <2>2 DEF Reading
    <3> QED
      BY <1>1, <1>2, <1>3, <1>7, <3>1, <3>2
  <2> QED
    BY <2>1, <2>2
<1> QED
  BY <1>5, <1>6, <1>7

\* The files nobody touched are accounted for as before.
LEMMA FilesMoved ==
  ASSUME FilesAccounted, NEW t \in Requests, Moved(t),
         files' = files, Range(openings) \subseteq Range(openings'),
         rq[t].pc # "reading", Unlinks(t) \subseteq Unlinks(t)'
  PROVE  FilesAccounted'
  BY DEF FilesAccounted, Moved, Has, Unlinks

\* With openings as they were, so is what is known of them.
LEMMA StartsMoved ==
  ASSUME StartsAreKnown, Range(openings') = Range(openings), starts' = starts
  PROVE  StartsAreKnown'
  BY DEF StartsAreKnown

-------------------------------------------------------------------------------
\* The invariant holds at first.
LEMMA InitIInv == Init => IInv
<1> SUFFICES ASSUME Init PROVE IInv
  OBVIOUS
<1>1. New \in Threads /\ \A t \in Requests : rq[t] = New
  BY DEF Init, New, Threads, Pcs
<1>2. Adopted \in Seq(Keys)
  BY Parameters
<1>3. TypeOK
  <2>1. heads \in [Leads -> Seq({Text[t] : t \in Requests})]
    BY DEF Init
  <2> QED
    BY <1>1, <1>2, <2>1 DEF Init, TypeOK
<1>4. Plans
  BY <1>1 DEF Plans, PlanOf, New, Builds
<1>5. OneReader
  BY <1>1 DEF Init, OneReader, Reading, Builds, New
<1>6. StartsAreKnown
  BY DEF Init, StartsAreKnown
<1>7. FilesAccounted
  BY DEF Init, FilesAccounted, Has
<1> QED
  BY <1>3, <1>4, <1>5, <1>6, <1>7 DEF IInv

\* A plan that leaves the keys being read as they are.
LEMMA PlansNothing ==
  ASSUME IInv, NEW t \in Requests, NEW pc \in Pcs, NEW plan \in {"none", "load", "wait"},
         NEW key \in Keys \cup {NoKey}, NEW load \in Keys \cup {NoKey},
         Decide(t, pc, plan, key, load), building' = building,
         \/ pc = "loading" /\ plan = "load" /\ load \in Keys
         \/ pc = "wait" /\ plan = "wait" /\ load \in Keys
         \/ pc = "done" /\ plan = "none"
  PROVE  IInv'
<1>1. /\ Moved(t)
      /\ rq'[t].pc = pc /\ rq'[t].plan = plan /\ rq'[t].key = key /\ rq'[t].load = load
      /\ rq'[t].spent = rq[t].spent
  <2>1. TypeOK /\ plan \in PlanKinds
    BY DEF IInv, PlanKinds
  <2> QED
    BY <2>1, DecideMoves
<1>2. /\ rq[t] \in Threads /\ rq[t].pc = "new"
      /\ openings' = openings /\ starts' = starts /\ files' = files
  BY DEF Decide, IInv, TypeOK
<1>3. rq[t].plan = "none" /\ rq[t].spent = {}
  BY <1>2 DEF IInv, Plans, PlanOf
<1>4. /\ rq'[t].pc = pc /\ rq'[t].plan = plan /\ rq'[t].key = key /\ rq'[t].load = load
      /\ rq'[t].spent = {}
  BY <1>1, <1>2, <1>3 DEF Threads
<1>5. TypeOK'
  BY <1>1, <1>2, HeardTyped DEF TypeOK, IInv, Decide, Moved
<1>6. Plans'
  BY <1>1, <1>4, PlansMoved DEF PlanOf, Builds, IInv
<1>7. OneReader'
  <2>1. ~Reading(t) /\ ~Reading(t)'
    BY <1>3, <1>4 DEF Reading, Builds
  <2> QED
    BY <1>1, <2>1, ReaderMoved DEF IInv
<1>8. StartsAreKnown'
  BY <1>2, StartsMoved DEF IInv
<1>9. FilesAccounted'
  BY <1>1, <1>2, <1>3, <1>4, FilesMoved DEF IInv, Unlinks
<1> QED
  BY <1>5, <1>6, <1>7, <1>8, <1>9 DEF IInv

\* A plan to read a key nobody reads.
LEMMA PlansToRead ==
  ASSUME IInv, NEW t \in Requests, NEW pc \in {"link", "lookup"}, NEW plan \in {"read", "start"},
         NEW key \in Keys, NEW load \in Keys \cup {NoKey},
         Decide(t, pc, plan, key, load), key \notin building,
         building' = building \cup {key},
         plan = "read" => key \in Bases, plan = "start" => key \in Starts,
         pc = "lookup" => plan = "start" /\ load \in Keys
  PROVE  IInv'
<1>0. pc \in Pcs
  BY DEF Pcs
<1>1. /\ Moved(t)
      /\ rq'[t].pc = pc /\ rq'[t].plan = plan /\ rq'[t].key = key /\ rq'[t].load = load
      /\ rq'[t].spent = rq[t].spent
  <2>1. TypeOK /\ plan \in PlanKinds
    BY DEF IInv, PlanKinds
  <2> QED
    BY <1>0, <2>1, DecideMoves
<1>2. /\ rq[t] \in Threads /\ rq[t].pc = "new"
      /\ openings' = openings /\ starts' = starts /\ files' = files
  BY DEF Decide, IInv, TypeOK
<1>3. rq[t].plan = "none" /\ rq[t].spent = {}
  BY <1>2 DEF IInv, Plans, PlanOf
<1>4. /\ rq'[t].pc = pc /\ rq'[t].plan = plan /\ rq'[t].key = key /\ rq'[t].load = load
      /\ rq'[t].spent = {}
  BY <1>1, <1>2, <1>3 DEF Threads
<1>5. TypeOK'
  BY <1>1, <1>2, HeardTyped DEF TypeOK, IInv, Decide, Moved
<1>6. Plans'
  BY <1>1, <1>4, PlansMoved DEF PlanOf, Builds, IInv
<1>7. OneReader'
  <2>1. ~Reading(t) /\ Reading(t)'
    BY <1>3, <1>4 DEF Reading, Builds
  <2> QED
    BY <1>1, <1>4, <2>1, ReaderMoved DEF IInv
<1>8. StartsAreKnown'
  BY <1>2, StartsMoved DEF IInv
<1>9. FilesAccounted'
  BY <1>1, <1>2, <1>3, <1>4, FilesMoved DEF IInv, Unlinks
<1> QED
  BY <1>5, <1>6, <1>7, <1>8, <1>9 DEF IInv

\* The plans warm_prefix makes.
LEMMA PlanIInv ==
  ASSUME IInv, NEW t \in Requests,
         \/ PlanLoadStart(t) \/ PlanStart(t) \/ PlanLoadBase(t)
         \/ PlanWait(t) \/ PlanRead(t) \/ PlanNone(t)
  PROVE  IInv'
<1>0. {"loading", "wait", "done"} \subseteq Pcs
  BY DEF Pcs
<1>1. CASE PlanLoadStart(t)
  <2>1. Start(t, Most(Found(t))) \in Keys
    BY <1>1, FoundTyped, KeysSplit DEF PlanLoadStart
  <2> QED
    BY <1>0, <1>1, <2>1, PlansNothing DEF PlanLoadStart
<1>2. CASE PlanStart(t)
  <2>1. PICK k \in Wanted(t) :
          /\ IF t \in OnBase THEN Decide(t, "lookup", "start", k, Base[t])
                             ELSE Decide(t, "link", "start", k, NoKey)
          /\ building' = building \cup {k}
    BY <1>2 DEF PlanStart
  <2>2. k \in Starts /\ k \in Keys /\ k \notin building
    BY <2>1, WantedTyped, KeysSplit
  <2>3. t \in OnBase => Base[t] \in Keys
    BY Parameters, KeysSplit
  <2> QED
    BY <2>1, <2>2, <2>3, PlansToRead
<1>3. CASE PlanLoadBase(t)
  <2>1. Base[t] \in Keys
    <3>1. Range(openings) \subseteq Keys
      BY MemberOf DEF IInv, TypeOK
    <3> QED
      BY <1>3, <3>1 DEF PlanLoadBase, Has
  <2> QED
    BY <1>0, <1>3, <2>1, PlansNothing DEF PlanLoadBase
<1>4. CASE PlanWait(t)
  <2>1. Base[t] \in Keys
    BY <1>4, KeysSplit DEF PlanWait, Unsaved
  <2> QED
    BY <1>0, <1>4, <2>1, PlansNothing DEF PlanWait
<1>5. CASE PlanRead(t)
  <2>1. Base[t] \in Keys /\ Base[t] \in Bases
    BY <1>5, KeysSplit DEF PlanRead, Unsaved
  <2> QED
    BY <1>5, <2>1, PlansToRead DEF PlanRead
<1>6. CASE PlanNone(t)
  BY <1>0, <1>6, PlansNothing DEF PlanNone
<1> QED
  BY <1>1, <1>2, <1>3, <1>4, <1>5, <1>6

\* A thread that comes out of warm_prefix, whose file goes with it when it was
\* being read or unlinked.
LEMMA LeavesIInv ==
  ASSUME IInv, NEW t \in Requests, NEW out \in Outs, Leave(t, out),
         rq[t].pc # "done", building' = NotBuilding(t),
         openings' \in Seq(Keys), Range(openings') = Range(openings),
         starts' = starts, heads' = heads,
         \/ rq[t].pc \notin {"reading", "unlink"} /\ files' = files
         \/ rq[t].pc = "unlink" /\ files' = [files EXCEPT ![rq[t].load] = "none"]
         \/ rq[t].pc = "reading" /\ files' = [files EXCEPT ![rq[t].key] = "none"],
         rq[t].spent = {}
  PROVE  IInv'
<1>1. Moved(t) /\ rq'[t] = [rq[t] EXCEPT !.pc = "done", !.out = out]
  BY LeaveMoves DEF IInv
<1>2. rq[t] \in Threads
  BY DEF IInv, TypeOK
<1>3. /\ rq'[t].pc = "done" /\ rq'[t].plan = rq[t].plan /\ rq'[t].key = rq[t].key
      /\ rq'[t].load = rq[t].load /\ rq'[t].spent = {}
  BY <1>1, <1>2 DEF Threads
<1>4. files' \in [Keys -> {"none", "link", "good", "stale"}]
  BY DEF IInv, TypeOK
<1>5. building' \subseteq Keys
  BY DEF IInv, TypeOK, NotBuilding
<1>6. TypeOK'
  BY <1>1, <1>4, <1>5 DEF IInv, TypeOK, Moved
<1>7. Plans'
  <2>1. PlanOf(t)
    BY DEF IInv, Plans
  <2>2. PlanOf(t)'
    BY <1>3, <2>1 DEF PlanOf, Builds
  <2> QED
    BY <1>1, <2>2, PlansMoved DEF IInv
<1>8. OneReader'
  <2>1. ~Reading(t)' /\ (Builds(t) => Reading(t))
    BY <1>3 DEF Reading
  <2> QED
    BY <1>1, <2>1, ReaderMoved DEF IInv
<1>9. StartsAreKnown'
  BY StartsMoved DEF IInv
<1>10. FilesAccounted'
  <2>1. CASE rq[t].pc \notin {"reading", "unlink"} /\ files' = files
    BY <1>1, <1>3, <2>1, FilesMoved DEF IInv, Unlinks
  <2>2. ASSUME NEW f \in Keys, files' = [files EXCEPT ![f] = "none"],
               rq[t].pc = "reading" => f = rq[t].key,
               Unlinks(t) \subseteq {f}
        PROVE  FilesAccounted'
    <3> SUFFICES ASSUME NEW k \in Keys, files'[k] # "none"
                 PROVE  \/ Has(k)'
                        \/ \E u \in Requests : rq'[u].pc = "reading" /\ rq'[u].key = k
                        \/ \E u \in Requests : k \in Unlinks(u)'
      BY DEF FilesAccounted
    <3>1. k # f /\ files[k] = files'[k]
      BY <2>2 DEF IInv, TypeOK
    <3>2. \/ Has(k)
          \/ \E u \in Requests : rq[u].pc = "reading" /\ rq[u].key = k
          \/ \E u \in Requests : k \in Unlinks(u)
      BY <3>1 DEF IInv, FilesAccounted
    <3>3. Has(k) => Has(k)'
      BY DEF Has
    <3>4. \A u \in Requests \ {t} : rq'[u] = rq[u] /\ Unlinks(u)' = Unlinks(u)
      BY <1>1 DEF Moved, Unlinks
    <3> QED
      BY <2>2, <3>1, <3>2, <3>3, <3>4
  <2>3. CASE rq[t].pc = "unlink" /\ files' = [files EXCEPT ![rq[t].load] = "none"]
    <3>1. rq[t].load \in Keys /\ Unlinks(t) \subseteq {rq[t].load}
      BY <2>3 DEF IInv, Plans, PlanOf, Unlinks
    <3> QED
      BY <2>2, <2>3, <3>1
  <2>4. CASE rq[t].pc = "reading" /\ files' = [files EXCEPT ![rq[t].key] = "none"]
    <3>1. rq[t].key \in Keys /\ Unlinks(t) = {}
      BY <2>4, KeysSplit DEF IInv, Plans, PlanOf, Unlinks, Builds
    <3> QED
      BY <2>2, <2>4, <3>1
  <2> QED
    BY <2>1, <2>3, <2>4
<1> QED
  BY <1>6, <1>7, <1>8, <1>9, <1>10 DEF IInv

\* A thread that goes on with its plan, and touches no file.
LEMMA GoesIInv ==
  ASSUME IInv, NEW t \in Requests, Moved(t),
         rq[t].pc \in {"lookup", "wait", "loading", "loaded"},
         rq'[t].pc \in {"loading", "loaded", "refused", "link"},
         rq'[t].pc = "link" => rq[t].plan = "start",
         rq'[t].plan = rq[t].plan, rq'[t].key = rq[t].key,
         rq'[t].load = rq[t].load, rq'[t].spent = rq[t].spent,
         building' = building, files' = files, starts' = starts, heads' = heads,
         openings' \in Seq(Keys), Range(openings') = Range(openings)
  PROVE  IInv'
<1>1. PlanOf(t) /\ rq[t].spent = {}
  BY DEF IInv, Plans, PlanOf
<1>2. TypeOK'
  BY DEF IInv, TypeOK, Moved
<1>3. Plans'
  <2>1. PlanOf(t)'
    BY <1>1 DEF PlanOf, Builds
  <2> QED
    BY <2>1, PlansMoved DEF IInv
<1>4. OneReader'
  <2>1. Reading(t)' <=> Reading(t)
    BY DEF Reading, Builds
  <2> QED
    BY <2>1, ReaderMoved DEF IInv
<1>5. StartsAreKnown'
  BY StartsMoved DEF IInv
<1>6. FilesAccounted'
  BY <1>1, FilesMoved DEF IInv, Unlinks
<1> QED
  BY <1>2, <1>3, <1>4, <1>5, <1>6 DEF IInv

-------------------------------------------------------------------------------
\* The requests that load: warm_prefix, _load_prefix and _wait_for_opening.

\* A request with a copy of its own comes out at once. (warm_prefix)
LEMMA SkipIInv ==
  ASSUME IInv, NEW t \in Requests, Skip(t)
  PROVE  IInv'
<1>1. rq[t].pc = "new" /\ rq[t].plan = "none" /\ rq[t].spent = {}
  BY DEF Skip, IInv, Plans, PlanOf
<1>2. building' = NotBuilding(t)
  BY <1>1 DEF Skip, NotBuilding, Builds
<1> QED
  BY <1>1, <1>2, LeavesIInv DEF Skip, Outs, IInv, TypeOK

\* The base is looked up with the lock let go. (_read_start)
LEMMA LookupIInv ==
  ASSUME IInv, NEW t \in Requests, Lookup(t)
  PROVE  IInv'
<1> DEFINE r == [rq[t] EXCEPT !.pc = "loading", !.named = Has(rq[t].load)]
<1>1. rq \in [Requests -> Threads] /\ rq[t] \in Threads
  BY DEF IInv, TypeOK
<1>2. Has(rq[t].load) \in BOOLEAN
  BY DEF Has
<1>3. r \in Threads
  BY <1>1, <1>2 DEF Threads, Pcs
<1>4. /\ r.pc = "loading" /\ r.plan = rq[t].plan /\ r.key = rq[t].key
      /\ r.load = rq[t].load /\ r.spent = rq[t].spent
  BY <1>1 DEF Threads
<1>5. rq' = [rq EXCEPT ![t] = r]
  BY <1>1 DEF Lookup
<1> HIDE DEF r
<1>6. Moved(t) /\ rq'[t] = r
  BY <1>1, <1>3, <1>5 DEF Moved
<1> QED
  BY <1>4, <1>6, GoesIInv DEF Lookup, IInv, TypeOK

\* The backend's answer changes nothing of the pool's. (_load_prefix)
LEMMA AnswerIInv ==
  ASSUME IInv, NEW t \in Requests, Answer(t)
  PROVE  IInv'
<1> DEFINE pc == IF rq[t].named /\ files[rq[t].load] = "good" THEN "loaded" ELSE "refused"
<1>1. pc \in Pcs /\ Go(t, pc) /\ pc \in {"loaded", "refused"} /\ rq[t].pc = "loading"
  BY DEF Answer, Pcs
<1> HIDE DEF pc
<1>2. Moved(t) /\ rq'[t] = [rq[t] EXCEPT !.pc = pc] /\ rq[t] \in Threads
  BY <1>1, GoMoves DEF IInv, TypeOK
<1>3. /\ rq'[t].pc = pc /\ rq'[t].plan = rq[t].plan /\ rq'[t].key = rq[t].key
      /\ rq'[t].load = rq[t].load /\ rq'[t].spent = rq[t].spent
  BY <1>2 DEF Threads
<1> QED
  BY <1>1, <1>2, <1>3, GoesIInv DEF Answer, IInv, TypeOK

\* An answer that never came ends the plan, and takes its key out.
LEMMA LoadLostIInv ==
  ASSUME IInv, NEW t \in Requests, LoadLost(t)
  PROVE  IInv'
<1>1. rq[t].spent = {}
  BY DEF LoadLost, IInv, Plans, PlanOf
<1> QED
  BY <1>1, LeavesIInv DEF LoadLost, Unloaded, Outs, IInv, TypeOK

\* A load that worked makes the opening the latest used.
LEMMA LoadedIInv ==
  ASSUME IInv, NEW t \in Requests, Loaded(t)
  PROVE  IInv'
<1>1. /\ rq[t].pc = "loaded" /\ rq[t].plan \in {"load", "start", "wait"}
      /\ rq[t].load \in Keys /\ rq[t].spent = {} /\ rq[t] \in Threads
  BY DEF Loaded, IInv, Plans, PlanOf, TypeOK
<1>2. openings' \in Seq(Keys) /\ Range(openings') = Range(openings)
  <2>1. CASE Has(rq[t].load)
    <3>1. openings' = ToEnd(openings, rq[t].load)
      BY <2>1 DEF Loaded
    <3>2. openings \in Seq(Keys) /\ rq[t].load \in Range(openings)
      BY <2>1 DEF Has, IInv, TypeOK
    <3>3. /\ ToEnd(openings, rq[t].load) \in Seq(Keys)
          /\ Range(ToEnd(openings, rq[t].load)) = Range(openings) \cup {rq[t].load}
      BY <1>1, <3>2, ToEndRange
    <3>4. Range(openings) \cup {rq[t].load} = Range(openings)
      BY <3>2
    <3> QED
      BY <3>1, <3>3, <3>4, Zenon
  <2>2. CASE ~Has(rq[t].load)
    BY <2>2 DEF Loaded, IInv, TypeOK
  <2> QED
    BY <2>1, <2>2
<1>3. CASE rq[t].plan = "start"
  <2>1. Moved(t) /\ rq'[t] = [rq[t] EXCEPT !.pc = "link"]
    <3>1. Go(t, "link") /\ "link" \in Pcs
      BY <1>3 DEF Loaded, Pcs
    <3> QED
      BY <3>1, GoMoves DEF IInv
  <2>2. /\ rq'[t].pc = "link" /\ rq'[t].plan = rq[t].plan /\ rq'[t].key = rq[t].key
        /\ rq'[t].load = rq[t].load /\ rq'[t].spent = rq[t].spent
    BY <1>1, <2>1 DEF Threads
  <2> QED
    BY <1>1, <1>2, <1>3, <2>1, <2>2, GoesIInv DEF Loaded
<1>4. CASE rq[t].plan # "start"
  <2>1. building' = NotBuilding(t)
    BY <1>1, <1>4 DEF Loaded, NotBuilding, Builds
  <2> QED
    BY <1>1, <1>2, <1>4, <2>1, LeavesIInv DEF Loaded, Outs
<1> QED
  BY <1>3, <1>4

\* A refusal of what is no longer kept drops nothing. (_drop_opening)
LEMMA RefusedIInv ==
  ASSUME IInv, NEW t \in Requests, RefusedOther(t) \/ RefusedRaised(t)
  PROVE  IInv'
<1>1. rq[t].pc = "refused" /\ rq[t].spent = {}
  BY DEF RefusedOther, RefusedRaised, IInv, Plans, PlanOf
<1>2. \E out \in Outs : Leave(t, out)
  BY DEF RefusedOther, RefusedRaised, Unloaded, Outs
<1>3. /\ building' = NotBuilding(t) /\ openings' = openings /\ starts' = starts
      /\ heads' = heads /\ files' = files
  BY DEF RefusedOther, RefusedRaised, Unloaded
<1> QED
  BY <1>1, <1>2, <1>3, LeavesIInv DEF IInv, TypeOK

\* The file of the opening dropped goes after its key.
LEMMA UnlinkIInv ==
  ASSUME IInv, NEW t \in Requests, Unlink(t)
  PROVE  IInv'
<1>1. rq[t].spent = {}
  BY DEF Unlink, IInv, Plans, PlanOf
<1> QED
  BY <1>1, LeavesIInv DEF Unlink, Unloaded, Outs, IInv, TypeOK

\* The three ways a wait ends.
LEMMA WaitIInv ==
  ASSUME IInv, NEW t \in Requests, Waited(t) \/ WaitedLong(t) \/ WaitLeft(t)
  PROVE  IInv'
<1>1. /\ rq[t].pc = "wait" /\ rq[t].plan = "wait" /\ rq[t].spent = {}
      /\ rq[t] \in Threads /\ rq[t].load \in Keys
  BY DEF Waited, WaitedLong, WaitLeft, IInv, Plans, PlanOf, TypeOK
<1>2. /\ building' = building /\ openings' = openings /\ starts' = starts
      /\ heads' = heads /\ files' = files
      /\ openings \in Seq(Keys)
  BY DEF Waited, WaitedLong, WaitLeft, IInv, TypeOK
<1>3. Go(t, "loading") \/ Leave(t, "cold")
  BY DEF Waited, WaitedLong, WaitLeft, WaitOver
<1>4. CASE Go(t, "loading")
  <2>1. Moved(t) /\ rq'[t] = [rq[t] EXCEPT !.pc = "loading"]
    <3>1. "loading" \in Pcs
      BY DEF Pcs
    <3> QED
      BY <1>4, <3>1, GoMoves DEF IInv
  <2>2. /\ rq'[t].pc = "loading" /\ rq'[t].plan = rq[t].plan /\ rq'[t].key = rq[t].key
        /\ rq'[t].load = rq[t].load /\ rq'[t].spent = rq[t].spent
    BY <1>1, <2>1 DEF Threads
  <2> QED
    BY <1>1, <1>2, <2>1, <2>2, GoesIInv
<1>5. CASE Leave(t, "cold")
  <2>1. building' = NotBuilding(t)
    BY <1>1, <1>2 DEF NotBuilding, Builds
  <2> QED
    BY <1>1, <1>2, <1>5, <2>1, LeavesIInv DEF Outs
<1> QED
  BY <1>3, <1>4, <1>5

\* _drop_opening takes the key out, and then its file.
LEMMA RefusedDroppedIInv ==
  ASSUME IInv, NEW t \in Requests, RefusedDropped(t)
  PROVE  IInv'
<1> DEFINE k == rq[t].load
<1>1. /\ rq[t].pc = "refused" /\ rq[t].spent = {} /\ rq[t] \in Threads /\ k \in Keys
      /\ PlanOf(t)
  BY DEF RefusedDropped, IInv, Plans, PlanOf, TypeOK
<1>2. Moved(t) /\ rq'[t] = [rq[t] EXCEPT !.pc = "unlink"]
  <2>1. Go(t, "unlink") /\ "unlink" \in Pcs
    BY DEF RefusedDropped, Pcs
  <2> QED
    BY <2>1, GoMoves DEF IInv
<1>3. /\ rq'[t].pc = "unlink" /\ rq'[t].plan = rq[t].plan /\ rq'[t].key = rq[t].key
      /\ rq'[t].load = k /\ rq'[t].spent = {}
  BY <1>1, <1>2 DEF Threads
<1>4. openings' \in Seq(Keys) /\ Range(openings') = Range(openings) \ {k}
  <2>1. openings \in Seq(Keys) /\ openings' = Without(openings, {k})
    BY DEF RefusedDropped, IInv, TypeOK
  <2> QED
    BY <2>1, WithoutRange
<1>5. /\ starts' = starts \ {k} /\ building' = building /\ files' = files /\ heads' = heads
  BY DEF RefusedDropped
<1>6. TypeOK'
  BY <1>2, <1>4, <1>5 DEF IInv, TypeOK, Moved
<1>7. Plans'
  <2>1. PlanOf(t)'
    BY <1>1, <1>3 DEF PlanOf, Builds
  <2> QED
    BY <1>2, <2>1, PlansMoved DEF IInv
<1>8. OneReader'
  <2>1. Reading(t)' <=> Reading(t)
    BY <1>1, <1>3 DEF Reading, Builds
  <2> QED
    BY <1>2, <1>3, <1>5, <2>1, ReaderMoved DEF IInv
<1>9. StartsAreKnown'
  BY <1>4, <1>5 DEF IInv, StartsAreKnown
<1>10. FilesAccounted'
  <2> SUFFICES ASSUME NEW f \in Keys, files'[f] # "none"
               PROVE  \/ f \in Range(openings')
                      \/ \E u \in Requests : rq'[u].pc = "reading" /\ rq'[u].key = f
                      \/ \E u \in Requests : f \in Unlinks(u)'
    BY DEF FilesAccounted, Has
  <2>1. \/ f \in Range(openings)
        \/ \E u \in Requests : rq[u].pc = "reading" /\ rq[u].key = f
        \/ \E u \in Requests : f \in Unlinks(u)
    BY <1>5 DEF IInv, FilesAccounted, Has
  <2>2. \A u \in Requests \ {t} : rq'[u] = rq[u] /\ Unlinks(u)' = Unlinks(u)
    BY <1>2 DEF Moved, Unlinks
  <2>3. Unlinks(t) = {} /\ Unlinks(t)' = {k}
    BY <1>1, <1>3 DEF Unlinks
  <2> QED
    BY <1>1, <1>4, <2>1, <2>2, <2>3
<1> QED
  BY <1>6, <1>7, <1>8, <1>9, <1>10 DEF IInv

-------------------------------------------------------------------------------
\* The requests that read: _read_prefix and _read_start.

\* The name is made before anything is read into it. (link_block)
LEMMA LinkIInv ==
  ASSUME IInv, NEW t \in Requests, Link(t)
  PROVE  IInv'
<1> DEFINE k == rq[t].key
<1>1. /\ rq[t].pc = "link" /\ rq[t].spent = {} /\ rq[t] \in Threads /\ PlanOf(t)
      /\ Builds(t) /\ k \in Keys
  BY KeysSplit DEF Link, IInv, Plans, PlanOf, TypeOK, Builds
<1>2. Moved(t) /\ rq'[t] = [rq[t] EXCEPT !.pc = "reading"]
  <2>1. Go(t, "reading") /\ "reading" \in Pcs
    BY DEF Link, Pcs
  <2> QED
    BY <2>1, GoMoves DEF IInv
<1>3. /\ rq'[t].pc = "reading" /\ rq'[t].plan = rq[t].plan /\ rq'[t].key = k
      /\ rq'[t].load = rq[t].load /\ rq'[t].spent = {}
  BY <1>1, <1>2 DEF Threads
<1>4. /\ openings' = openings /\ starts' = starts /\ building' = building /\ heads' = heads
      /\ files' = [files EXCEPT ![k] = "link"]
  BY DEF Link
<1>5. TypeOK'
  BY <1>2, <1>4 DEF IInv, TypeOK, Moved
<1>6. Plans'
  <2>1. PlanOf(t)'
    BY <1>1, <1>3 DEF PlanOf, Builds
  <2> QED
    BY <1>2, <2>1, PlansMoved DEF IInv
<1>7. OneReader'
  <2>1. Reading(t)' <=> Reading(t)
    BY <1>1, <1>3 DEF Reading, Builds
  <2> QED
    BY <1>2, <1>3, <1>4, <2>1, ReaderMoved DEF IInv
<1>8. StartsAreKnown'
  BY <1>4, StartsMoved DEF IInv
<1>9. FilesAccounted'
  <2> SUFFICES ASSUME NEW f \in Keys, files'[f] # "none"
               PROVE  \/ f \in Range(openings)
                      \/ \E u \in Requests : rq'[u].pc = "reading" /\ rq'[u].key = f
                      \/ \E u \in Requests : f \in Unlinks(u)'
    BY <1>4 DEF FilesAccounted, Has
  <2>1. CASE f = k
    BY <1>3, <2>1
  <2>2. CASE f # k
    <3>1. files[f] # "none"
      BY <1>4, <2>2 DEF IInv, TypeOK
    <3>2. \/ f \in Range(openings)
          \/ \E u \in Requests : rq[u].pc = "reading" /\ rq[u].key = f
          \/ \E u \in Requests : f \in Unlinks(u)
      BY <3>1 DEF IInv, FilesAccounted, Has
    <3>3. \A u \in Requests \ {t} : rq'[u] = rq[u] /\ Unlinks(u)' = Unlinks(u)
      BY <1>2 DEF Moved, Unlinks
    <3>4. Unlinks(t) = {}
      BY <1>1 DEF Unlinks
    <3> QED
      BY <1>1, <3>2, <3>3, <3>4
  <2> QED
    BY <2>1, <2>2
<1> QED
  BY <1>5, <1>6, <1>7, <1>8, <1>9 DEF IInv

\* Keeping what was read drops nothing that is being read: the key itself is
\* safe, and what goes is in the hands of the thread.
LEMMA ReadKeptIInv ==
  ASSUME IInv, NEW t \in Requests, ReadKept(t)
  PROVE  IInv'
<1> DEFINE k == rq[t].key
           more == ToEnd(openings, k)
           gone == Trim(more, building)
<1>1. /\ rq[t].pc = "reading" /\ rq[t].spent = {} /\ rq[t] \in Threads /\ PlanOf(t)
      /\ Builds(t) /\ k \in Keys
  BY KeysSplit DEF ReadKept, IInv, Plans, PlanOf, TypeOK, Builds
<1>2. /\ files' = [files EXCEPT ![k] = "good"]
      /\ openings' = Without(more, gone)
      /\ starts' = IF rq[t].plan = "start" THEN (starts \cup {k}) \ gone ELSE starts
      /\ rq' = [rq EXCEPT ![t] = [rq[t] EXCEPT !.pc = "sweep", !.spent = gone]]
      /\ heads' = heads /\ building' = building
  BY DEF ReadKept, IInv, TypeOK
<1>3. more \in Seq(Keys) /\ Range(more) = Range(openings) \cup {k}
  <2>1. openings \in Seq(Keys)
    BY DEF IInv, TypeOK
  <2> QED
    BY <1>1, <2>1, ToEndRange
<1> HIDE DEF more
<1>4. gone \subseteq Range(more) \ building
  BY <1>3, TrimTyped
<1> HIDE DEF gone
<1>5. openings' \in Seq(Keys) /\ Range(openings') = Range(more) \ gone
  BY <1>2, <1>3, WithoutRange
<1>6. k \in building
  BY <1>1 DEF IInv, OneReader, Reading
<1>7. k \notin gone /\ gone \subseteq Keys
  <2>1. Range(more) \subseteq Keys
    BY <1>3, MemberOf
  <2> QED
    BY <1>4, <1>6, <2>1
<1>8. /\ Moved(t)
      /\ rq'[t].pc = "sweep" /\ rq'[t].plan = rq[t].plan /\ rq'[t].key = k
      /\ rq'[t].load = rq[t].load /\ rq'[t].spent = gone
  <2> DEFINE r == [rq[t] EXCEPT !.pc = "sweep", !.spent = gone]
  <2>1. r \in Threads
    BY <1>1, <1>7 DEF Threads, Pcs
  <2>2. /\ r.pc = "sweep" /\ r.plan = rq[t].plan /\ r.key = k
        /\ r.load = rq[t].load /\ r.spent = gone
    BY <1>1 DEF Threads
  <2> HIDE DEF r
  <2>3. rq \in [Requests -> Threads] /\ rq' = [rq EXCEPT ![t] = r]
    BY <1>2 DEF IInv, TypeOK, r
  <2> QED
    BY <2>1, <2>2, <2>3 DEF Moved
<1>9. TypeOK'
  <2>1. starts' \subseteq Starts
    BY <1>1, <1>2 DEF IInv, TypeOK, PlanOf
  <2> QED
    BY <1>2, <1>5, <1>8, <2>1 DEF IInv, TypeOK, Moved
<1>10. Plans'
  <2>1. PlanOf(t)'
    BY <1>1, <1>8 DEF PlanOf, Builds
  <2> QED
    BY <1>8, <2>1, PlansMoved DEF IInv
<1>11. OneReader'
  <2>1. Reading(t)' <=> Reading(t)
    BY <1>1, <1>8 DEF Reading, Builds
  <2> QED
    BY <1>2, <1>8, <2>1, ReaderMoved DEF IInv
<1>12. StartsAreKnown'
  <2>1. CASE rq[t].plan = "start"
    BY <1>2, <1>3, <1>5, <2>1 DEF IInv, StartsAreKnown
  <2>2. CASE rq[t].plan # "start"
    <3>1. k \notin Starts
      BY <1>1, <2>2, KeysSplit DEF Builds, PlanOf
    <3> QED
      BY <1>2, <1>3, <1>5, <2>2, <3>1 DEF IInv, StartsAreKnown
  <2> QED
    BY <2>1, <2>2
<1>13. FilesAccounted'
  <2> SUFFICES ASSUME NEW f \in Keys, files'[f] # "none"
               PROVE  \/ f \in Range(openings')
                      \/ \E u \in Requests : rq'[u].pc = "reading" /\ rq'[u].key = f
                      \/ \E u \in Requests : f \in Unlinks(u)'
    BY DEF FilesAccounted, Has
  <2>1. CASE f = k
    BY <1>3, <1>5, <1>7, <2>1
  <2>2. CASE f # k
    <3>1. files[f] # "none"
      BY <1>2, <2>2 DEF IInv, TypeOK
    <3>2. \/ f \in Range(openings)
          \/ \E u \in Requests : rq[u].pc = "reading" /\ rq[u].key = f
          \/ \E u \in Requests : f \in Unlinks(u)
      BY <3>1 DEF IInv, FilesAccounted, Has
    <3>3. \A u \in Requests \ {t} : rq'[u] = rq[u] /\ Unlinks(u)' = Unlinks(u)
      BY <1>8 DEF Moved, Unlinks
    <3>4. Unlinks(t) = {} /\ Unlinks(t)' = gone
      BY <1>1, <1>8 DEF Unlinks
    <3> QED
      BY <1>3, <1>5, <2>2, <3>2, <3>3, <3>4
  <2> QED
    BY <2>1, <2>2
<1> QED
  BY <1>9, <1>10, <1>11, <1>12, <1>13 DEF IInv

\* A read that failed takes its file and its key away.
LEMMA ReadFailedIInv ==
  ASSUME IInv, NEW t \in Requests, ReadFailed(t)
  PROVE  IInv'
<1>1. rq[t].pc = "reading" /\ rq[t].spent = {}
  BY DEF ReadFailed, IInv, Plans, PlanOf
<1>2. \E out \in Outs : Leave(t, out)
  BY DEF ReadFailed, Outs
<1>3. /\ files' = [files EXCEPT ![rq[t].key] = "none"] /\ building' = NotBuilding(t)
      /\ openings' = openings /\ starts' = starts /\ heads' = heads
      /\ openings \in Seq(Keys)
  BY DEF ReadFailed, IInv, TypeOK
<1> QED
  BY <1>1, <1>2, <1>3, LeavesIInv

\* One file goes, and with it the thread's hold on the key.
LEMMA SweepIInv ==
  ASSUME IInv, NEW t \in Requests, Sweep(t)
  PROVE  IInv'
<1>1. PICK k \in rq[t].spent :
        /\ files' = [files EXCEPT ![k] = "none"]
        /\ rq' = [rq EXCEPT ![t].spent = @ \ {k}]
  BY DEF Sweep
<1>2. /\ rq[t].pc = "sweep" /\ rq[t] \in Threads /\ PlanOf(t)
      /\ rq \in [Requests -> Threads]
  BY DEF Sweep, IInv, TypeOK, Plans
<1>3. k \in Keys
  BY <1>2 DEF Threads
<1>4. /\ Moved(t)
      /\ rq'[t].pc = "sweep" /\ rq'[t].plan = rq[t].plan /\ rq'[t].key = rq[t].key
      /\ rq'[t].load = rq[t].load /\ rq'[t].spent = rq[t].spent \ {k}
  <2> DEFINE r == [rq[t] EXCEPT !.spent = rq[t].spent \ {k}]
  <2>1. r \in Threads
    BY <1>2 DEF Threads
  <2>2. /\ r.pc = "sweep" /\ r.plan = rq[t].plan /\ r.key = rq[t].key
        /\ r.load = rq[t].load /\ r.spent = rq[t].spent \ {k}
    BY <1>2 DEF Threads
  <2>3. rq' = [rq EXCEPT ![t] = r]
    BY <1>1, <1>2
  <2> HIDE DEF r
  <2> QED
    BY <1>2, <2>1, <2>2, <2>3 DEF Moved
<1>5. openings' = openings /\ starts' = starts /\ heads' = heads /\ building' = building
  BY DEF Sweep
<1>6. TypeOK'
  BY <1>1, <1>4, <1>5 DEF IInv, TypeOK, Moved
<1>7. Plans'
  <2>1. PlanOf(t)'
    BY <1>2, <1>4 DEF PlanOf, Builds
  <2> QED
    BY <1>4, <2>1, PlansMoved DEF IInv
<1>8. OneReader'
  <2>1. Reading(t)' <=> Reading(t)
    BY <1>2, <1>4 DEF Reading, Builds
  <2> QED
    BY <1>4, <1>5, <2>1, ReaderMoved DEF IInv
<1>9. StartsAreKnown'
  BY <1>5, StartsMoved DEF IInv
<1>10. FilesAccounted'
  <2> SUFFICES ASSUME NEW f \in Keys, files'[f] # "none"
               PROVE  \/ f \in Range(openings)
                      \/ \E u \in Requests : rq'[u].pc = "reading" /\ rq'[u].key = f
                      \/ \E u \in Requests : f \in Unlinks(u)'
    BY <1>5 DEF FilesAccounted, Has
  <2>1. f # k /\ files[f] # "none"
    BY <1>1, <1>3 DEF IInv, TypeOK
  <2>2. \/ f \in Range(openings)
        \/ \E u \in Requests : rq[u].pc = "reading" /\ rq[u].key = f
        \/ \E u \in Requests : f \in Unlinks(u)
    BY <2>1 DEF IInv, FilesAccounted, Has
  <2>3. \A u \in Requests \ {t} : rq'[u] = rq[u] /\ Unlinks(u)' = Unlinks(u)
    BY <1>4 DEF Moved, Unlinks
  <2>4. Unlinks(t) \ {k} \subseteq Unlinks(t)'
    BY <1>2, <1>4 DEF Unlinks
  <2> QED
    BY <1>2, <2>1, <2>2, <2>3, <2>4
<1> QED
  BY <1>6, <1>7, <1>8, <1>9, <1>10 DEF IInv

\* When the files dropped are gone the key comes out.
LEMMA SweptIInv ==
  ASSUME IInv, NEW t \in Requests, Swept(t)
  PROVE  IInv'
<1>1. openings \in Seq(Keys)
  BY DEF IInv, TypeOK
<1> QED
  BY <1>1, LeavesIInv DEF Swept, Outs

-------------------------------------------------------------------------------
\* Every step keeps the invariant.
LEMMA NextIInv == IInv /\ [Next]_vars => IInv'
<1> SUFFICES ASSUME IInv, [Next]_vars PROVE IInv'
  OBVIOUS
<1>1. ASSUME NEW t \in Requests, Step(t) PROVE IInv'
  BY <1>1, SkipIInv, PlanIInv, LookupIInv, AnswerIInv, LoadedIInv, RefusedIInv,
     RefusedDroppedIInv, UnlinkIInv, WaitIInv, LinkIInv, ReadKeptIInv, SweepIInv,
     SweptIInv DEF Step
<1>2. ASSUME NEW t \in Requests, Fault(t) PROVE IInv'
  BY <1>2, LoadLostIInv, WaitIInv, ReadFailedIInv DEF Fault
<1>3. CASE UNCHANGED vars
  BY <1>3 DEF vars, IInv, TypeOK, Plans, PlanOf, OneReader, StartsAreKnown,
     FilesAccounted, Has, Reading, Builds, Unlinks
<1> QED
  BY <1>1, <1>2, <1>3 DEF Next

\* The inductive invariant holds throughout.
THEOREM Invariant == Spec => []IInv
  BY InitIInv, NextIInv, PTL DEF Spec

\* The openings, the keys being read and the threads are of their types.
THEOREM OpeningsTyped == Spec => []TypeOK
<1>1. IInv => TypeOK
  BY DEF IInv
<1> QED
  BY <1>1, Invariant, PTL

\* `building` is the keys of the requests that read, and no two read the same:
\* whoever comes while it is read waits, and no key is left behind by a refusal,
\* a lost answer, a client that left or a read that failed.
THEOREM OneReaderHolds == Spec => []OneReader
<1>1. IInv => OneReader
  BY DEF IInv
<1> QED
  BY <1>1, Invariant, PTL

\* A start that trim_openings left in the openings still has its row.
THEOREM StartsStayKnown == Spec => []StartsAreKnown
<1>1. IInv => StartsAreKnown
  BY DEF IInv
<1> QED
  BY <1>1, Invariant, PTL

\* No slot file is forgotten: it is kept, read into, or somebody's to delete.
THEOREM NoFileIsStray == Spec => []NoStrayFile
<1>1. IInv => NoStrayFile
  <2>1. ASSUME IInv, NEW t \in Requests, rq[t].pc = "reading" PROVE rq[t].key \in building
    BY <2>1 DEF IInv, Plans, PlanOf, OneReader, Reading
  <2> QED
    BY <2>1 DEF IInv, FilesAccounted, NoStrayFile
<1> QED
  BY <1>1, Invariant, PTL
===============================================================================
