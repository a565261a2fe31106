---------------------------- MODULE Reply_proofs ----------------------------
(***************************************************************************)
(* What holds of Reply for every request and fault, and any number of      *)
(* keep-alives: the type invariant, the two invariants of the frames, and  *)
(* the refinement of Stream.                                               *)
(***************************************************************************)
EXTENDS Reply, Queues_proofs

\* What a backend sends, by halves, and what a splice passes on.
Sent == {"start", "text", "delta", "stop", "usage", "done"}
HalfItems == [ev : Sent, part : {"first", "second"}]
WholeItems == [ev : Sent \cup {"delta and usage"}, part : {"whole"}]
Usages == {"none", "held", "moved"}
PingPcs == {"off", "waiting", "awake", "writing", "dead"}

-------------------------------------------------------------------------------
\* What the splices make of a piece.

\* The events of a reply.
LEMMA SendsTyped == Sends \in Seq(Sent)
<1>1. /\ <<"start", "text", "delta", "stop">> \in Seq(Sent)
      /\ <<"text", "usage", "done">> \in Seq(Sent)
      /\ <<"text", "done">> \in Seq(Sent)
  BY DEF Sent
<1> QED
  BY <1>1, Zenon DEF Sends

\* And their halves.
LEMMA HalvesTyped == Halves \in Seq(HalfItems) /\ Len(Halves) \in Nat
<1>1. Len(Sends) \in Nat /\ \A i \in 1..Len(Sends) : Sends[i] \in Sent
  BY SendsTyped
<1>2. ASSUME NEW i \in 1..(2 * Len(Sends)) PROVE Sends[(i + 1) \div 2] \in Sent
  <2>1. (i + 1) \div 2 \in 1..Len(Sends)
    BY <1>1
  <2> QED
    BY <1>1, <2>1
<1> QED
  BY <1>1, <1>2 DEF Halves, HalfItems

\* A piece of them is a sequence of halves.
LEMMA PieceTyped ==
  ASSUME NEW m \in Nat, NEW n \in m..Len(Halves)
  PROVE  SubSeq(Halves, m + 1, n) \in Seq(HalfItems)
  BY HalvesTyped

\* What is flat is put together part by part.
LEMMA FlattenSteps ==
  ASSUME NEW S, NEW q \in Seq(Seq(S)), Len(q) # 0
  PROVE  \E h : /\ FlattenSeq(q) = h[Len(q)] /\ h[1] = q[1]
                /\ \A i \in 2..Len(q) : h[i] = h[i - 1] \o q[i]
                /\ \A i \in 1..Len(q) : h[i] \in Seq(S)
<1> DEFINE k == Len(q)
           step == [i \in 1..k |-> [v \in Seq(S) |-> IF i = 1 THEN q[1] ELSE v \o q[i]]]
           Is(f) == f = [i \in 1..k |-> IF i = 1 THEN q[i] ELSE f[i - 1] \o q[i]]
<1>1. k \in Nat /\ k > 0 /\ \A i \in 1..k : q[i] \in Seq(S)
  OBVIOUS
<1>2. step \in [1..k -> [Seq(S) -> Seq(S)]]
  <2>1. ASSUME NEW i \in 1..k, NEW v \in Seq(S)
        PROVE  (IF i = 1 THEN q[1] ELSE v \o q[i]) \in Seq(S)
    BY <1>1
  <2> QED
    BY <2>1
<1>3. ASSUME NEW n \in 1..k, NEW v \in Seq(S)
      PROVE  step[n][v] = IF n = 1 THEN q[1] ELSE v \o q[n]
  OBVIOUS
<1>4. <<>> \in Seq(S)
  OBVIOUS
<1> HIDE DEF step, k
<1>5. PICK f : Computes(f, Seq(S), k, <<>>, step)
  BY <1>1, <1>2, <1>4, RecursionExists
<1> DEFINE g == [i \in 1..k |-> f[i]]
<1>6. ASSUME NEW i \in 1..k PROVE g[i] = IF i = 1 THEN q[i] ELSE g[i - 1] \o q[i]
  <2>1. i - 1 \in 0..k /\ (i # 1 => i - 1 \in 1..k)
    BY <1>1
  <2>2. f[i - 1] \in Seq(S) /\ f[i] = step[i][f[i - 1]]
    BY <1>5, <2>1 DEF Computes
  <2>3. f[i] = IF i = 1 THEN q[1] ELSE f[i - 1] \o q[i]
    BY <1>3, <2>2, Zenon
  <2> QED
    BY <2>1, <2>3
<1>7. Is(g)
  <2>1. g = [i \in 1..k |-> g[i]]
    OBVIOUS
  <2> HIDE DEF g
  <2> QED
    BY <1>6, <2>1
<1> DEFINE h == CHOOSE f2 : Is(f2)
<1>8. Is(h)
  <2> HIDE DEF Is
  <2> QED
    BY <1>7
<1>9. FlattenSeq(q) = h[k]
  BY DEF FlattenSeq, k
<1> HIDE DEF h
<1>10. \A i \in 1..k : h[i] = IF i = 1 THEN q[i] ELSE h[i - 1] \o q[i]
  BY <1>8, Zenon
<1> DEFINE P == {n \in Nat : n + 1 \in 1..k => h[n + 1] \in Seq(S)}
<1>11. 0 \in P
  <2>1. 1 \in 1..k /\ h[1] = q[1]
    BY <1>1, <1>10
  <2> QED
    BY <1>1, <2>1
<1>12. ASSUME NEW n \in Nat, n \in P PROVE n + 1 \in P
  <2> SUFFICES ASSUME n + 2 \in 1..k PROVE h[n + 2] \in Seq(S)
    BY <1>12
  <2>1. h[n + 1] \in Seq(S) /\ q[n + 2] \in Seq(S)
    BY <1>1, <1>12
  <2>2. h[n + 2] = h[n + 1] \o q[n + 2]
    <3>1. (n + 2) - 1 = n + 1 /\ n + 2 # 1
      OBVIOUS
    <3> QED
      BY <1>10, <3>1
  <2> QED
    BY <2>1, <2>2
<1>13. Nat \subseteq P
  <2> HIDE DEF P
  <2> QED
    BY <1>11, <1>12, SetInduction
<1>14. ASSUME NEW i \in 1..k PROVE h[i] \in Seq(S)
  <2>1. i - 1 \in Nat /\ (i - 1) + 1 = i
    BY <1>1
  <2>2. i - 1 \in P
    <3> HIDE DEF P
    <3> QED
      BY <1>13, <2>1
  <2> QED
    BY <2>1, <2>2
<1>15. h[1] = q[1] /\ \A i \in 2..k : h[i] = h[i - 1] \o q[i]
  <2>1. 1 \in 1..k /\ \A i \in 2..k : i \in 1..k /\ i # 1
    BY <1>1
  <2> QED
    BY <1>10, <2>1, Zenon
<1> QED
  BY <1>9, <1>14, <1>15 DEF k

\* What is flat holds what its parts hold.
LEMMA FlattenTyped ==
  ASSUME NEW S, NEW q \in Seq(Seq(S))
  PROVE  FlattenSeq(q) \in Seq(S)
<1>1. CASE Len(q) = 0
  BY <1>1 DEF FlattenSeq
<1>2. CASE Len(q) # 0
  <2>1. Len(q) \in 1..Len(q)
    BY <1>2
  <2>2. PICK h : /\ FlattenSeq(q) = h[Len(q)] /\ h[1] = q[1]
                 /\ \A i \in 2..Len(q) : h[i] = h[i - 1] \o q[i]
                 /\ \A i \in 1..Len(q) : h[i] \in Seq(S)
    BY <1>2, FlattenSteps
  <2>3. h[Len(q)] \in Seq(S)
    BY <2>1, <2>2, Zenon
  <2> QED
    BY <2>2, <2>3
<1> QED
  BY <1>1, <1>2

\* The usage while a splice goes through events, as Fed has it.
HeldAlong(events, u) ==
    CHOOSE f : f = [i \in 0..Len(events) |-> IF i = 0 THEN u ELSE Noted(events[i], f[i - 1])]

\* It starts with the usage the splice has, and notes every event.
LEMMA HeldTyped ==
  ASSUME NEW events \in Seq(Sent), NEW u \in Usages, NEW h, h = HeldAlong(events, u)
  PROVE  /\ \A i \in 0..Len(events) : h[i] \in Usages
         /\ h[0] = u /\ \A i \in 1..Len(events) : h[i] = Noted(events[i], h[i - 1])
<1> DEFINE k == Len(events)
           step == [i \in 1..k |-> [v \in Usages |-> Noted(events[i], v)]]
           Is(f) == f = [i \in 0..k |-> IF i = 0 THEN u ELSE Noted(events[i], f[i - 1])]
<1>1. k \in Nat
  OBVIOUS
<1>2. ASSUME NEW i \in 1..k, NEW v \in Usages PROVE Noted(events[i], v) \in Usages
  BY DEF Noted, Usages
<1>3. step \in [1..k -> [Usages -> Usages]]
  BY <1>2
<1>4. ASSUME NEW n \in 1..k, NEW v \in Usages PROVE step[n][v] = Noted(events[n], v)
  OBVIOUS
<1>5. h = CHOOSE f : Is(f)
  BY DEF HeldAlong
<1> HIDE DEF step, k
<1>6. PICK f : Computes(f, Usages, k, u, step)
  BY <1>1, <1>3, RecursionExists
<1>7. Is(f)
  <2>1. ASSUME NEW i \in 1..k PROVE f[i] = Noted(events[i], f[i - 1])
    <3>1. f[i - 1] \in Usages
      BY <1>1, <1>6 DEF Computes
    <3> QED
      BY <1>4, <1>6, <3>1 DEF Computes
  <2>2. \A i \in 0..k : f[i] = IF i = 0 THEN u ELSE Noted(events[i], f[i - 1])
    BY <1>1, <1>6, <2>1 DEF Computes
  <2> QED
    BY <1>6, <2>2 DEF Computes
<1>8. Is(h)
  <2> HIDE DEF Is
  <2> QED
    BY <1>5, <1>7
<1>9. \A i \in 0..k : h[i] = IF i = 0 THEN u ELSE Noted(events[i], h[i - 1])
  BY <1>8, Zenon
<1> DEFINE P == {n \in Nat : n \in 0..k => h[n] \in Usages}
<1>10. 0 \in P
  BY <1>1, <1>9
<1>11. ASSUME NEW n \in Nat, n \in P PROVE n + 1 \in P
  <2> SUFFICES ASSUME n + 1 \in 0..k PROVE h[n + 1] \in Usages
    BY <1>11
  <2>1. h[n] \in Usages /\ n + 1 \in 1..k
    BY <1>1, <1>11
  <2>2. h[n + 1] = Noted(events[n + 1], h[n])
    <3>1. (n + 1) - 1 = n /\ n + 1 # 0 /\ n + 1 \in 0..k
      BY <1>1, <2>1
    <3> QED
      BY <1>9, <3>1
  <2> QED
    BY <1>2, <2>1, <2>2
<1>12. Nat \subseteq P
  <2> HIDE DEF P
  <2> QED
    BY <1>10, <1>11, SetInduction
<1>13. h[0] = u /\ \A i \in 1..k : h[i] = Noted(events[i], h[i - 1])
  BY <1>1, <1>9
<1> QED
  BY <1>1, <1>12, <1>13 DEF k

\* What a splice makes of a piece: `all` is the piece behind the half that was
\* left, `n` its events, `h` the usage along them, and `outs` what each becomes.
FedAlong(piece, all, n, h, outs) ==
    /\ Fed(piece) = [out |-> FlattenSeq(outs), usage |-> h[n],
                     rest |-> SubSeq(all, 2 * n + 1, Len(all))]
    /\ h[0] = usage /\ \A i \in 0..n : h[i] \in Usages
    /\ \A i \in 1..n : h[i] = Noted(all[2 * i - 1].ev, h[i - 1])
    /\ outs \in Seq(Seq(WholeItems)) /\ Len(outs) = n
    /\ \A i \in 1..n : outs[i] = Passed(all[2 * i - 1].ev, h[i - 1])

\* It goes through the piece event by event.
LEMMA FedSteps ==
  ASSUME rest \in Seq(HalfItems), usage \in Usages, NEW piece \in Seq(HalfItems),
         NEW all, all = rest \o piece, NEW n, n = Len(all) \div 2
  PROVE  \E h, outs : FedAlong(piece, all, n, h, outs)
<1> DEFINE events == [i \in 1..n |-> all[2 * i - 1].ev]
           h == CHOOSE f : f = [i \in 0..Len(events) |->
                     IF i = 0 THEN usage ELSE Noted(events[i], f[i - 1])]
           outs == [i \in 1..Len(events) |-> Passed(events[i], h[i - 1])]
<1>1. all \in Seq(HalfItems) /\ Len(all) \in Nat /\ n \in Nat /\ 2 * n <= Len(all)
      /\ Len(all) <= 2 * n + 1
  OBVIOUS
<1>2. Fed(piece) = [out |-> FlattenSeq(outs), usage |-> h[Len(events)],
                    rest |-> SubSeq(all, 2 * Len(events) + 1, Len(all))]
  BY DEF Fed
<1>3. ASSUME NEW i \in 1..n PROVE all[2 * i - 1].ev \in Sent
  <2>1. 2 * i - 1 \in 1..Len(all)
    BY <1>1
  <2>2. all[2 * i - 1] \in HalfItems
    BY <1>1, <2>1
  <2> QED
    BY <2>2 DEF HalfItems
<1>4. events \in Seq(Sent) /\ Len(events) = n /\ \A i \in 1..n : events[i] = all[2 * i - 1].ev
  BY <1>1, <1>3
<1> HIDE DEF events
<1>5. h = HeldAlong(events, usage)
  BY DEF HeldAlong
<1> HIDE DEF h
<1>6. /\ \A i \in 0..Len(events) : h[i] \in Usages
      /\ h[0] = usage /\ \A i \in 1..Len(events) : h[i] = Noted(events[i], h[i - 1])
  <2>1. \A i \in 0..Len(events) : h[i] \in Usages
    BY <1>4, <1>5, HeldTyped
  <2>2. h[0] = usage
    BY <1>4, <1>5, HeldTyped
  <2>3. \A i \in 1..Len(events) : h[i] = Noted(events[i], h[i - 1])
    BY <1>4, <1>5, HeldTyped
  <2> QED
    BY <2>1, <2>2, <2>3
<1>7. \A ev \in Sent : \A u \in Usages : Passed(ev, u) \in Seq(WholeItems)
  <2> SUFFICES ASSUME NEW ev \in Sent, NEW u \in Usages PROVE Passed(ev, u) \in Seq(WholeItems)
    OBVIOUS
  <2>1. Item(ev) \in WholeItems /\ Item("delta and usage") \in WholeItems
    BY DEF Item, WholeItems
  <2>2. ASSUME NEW w \in WholeItems PROVE <<w>> \in Seq(WholeItems)
    OBVIOUS
  <2>3. <<>> \in Seq(WholeItems)
    OBVIOUS
  <2> QED
    BY <2>1, <2>2, <2>3, Zenon DEF Passed
<1>8. /\ outs \in Seq(Seq(WholeItems)) /\ Len(outs) = n
      /\ \A i \in 1..n : outs[i] = Passed(events[i], h[i - 1])
  <2>1. ASSUME NEW i \in 1..n PROVE Passed(events[i], h[i - 1]) \in Seq(WholeItems)
    <3>1. events[i] \in Sent /\ h[i - 1] \in Usages
      BY <1>1, <1>4, <1>6
    <3> QED
      BY <1>7, <3>1
  <2> QED
    BY <1>1, <1>4, <2>1
<1> HIDE DEF outs
<1>9. /\ \A i \in 0..n : h[i] \in Usages
      /\ \A i \in 1..n : h[i] = Noted(all[2 * i - 1].ev, h[i - 1])
      /\ \A i \in 1..n : outs[i] = Passed(all[2 * i - 1].ev, h[i - 1])
  BY <1>4, <1>6, <1>8
<1>10. Fed(piece) = [out |-> FlattenSeq(outs), usage |-> h[n],
                     rest |-> SubSeq(all, 2 * n + 1, Len(all))]
  BY <1>2, <1>4
<1>11. h[0] = usage
  BY <1>6
<1> HIDE DEF outs
<1>12. outs \in Seq(Seq(WholeItems)) /\ Len(outs) = n
  BY <1>8
<1> QED
  BY <1>9, <1>10, <1>11, <1>12, Zenon DEF FedAlong

\* Splice.feed passes whole events on, and keeps at most one half.
LEMMA FedTyped ==
  ASSUME rest \in Seq(HalfItems), usage \in Usages, NEW piece \in Seq(HalfItems)
  PROVE  /\ Fed(piece).out \in Seq(WholeItems)
         /\ Fed(piece).usage \in Usages
         /\ Fed(piece).rest \in Seq(HalfItems) /\ Len(Fed(piece).rest) <= 1
<1> DEFINE all == rest \o piece
           n == Len(all) \div 2
<1>1. all \in Seq(HalfItems) /\ Len(all) \in Nat /\ n \in Nat /\ 2 * n <= Len(all)
      /\ Len(all) <= 2 * n + 1
  OBVIOUS
<1>2. all = rest \o piece /\ n = Len(all) \div 2
  OBVIOUS
<1> HIDE DEF all, n
<1>3. PICK h, outs : FedAlong(piece, all, n, h, outs)
  BY <1>2, FedSteps
<1>4. FlattenSeq(outs) \in Seq(WholeItems)
  BY <1>3, FlattenTyped DEF FedAlong
<1>5. /\ SubSeq(all, 2 * n + 1, Len(all)) \in Seq(HalfItems)
      /\ Len(SubSeq(all, 2 * n + 1, Len(all))) <= 1
  BY <1>1
<1>6. h[n] \in Usages
  BY <1>1, <1>3 DEF FedAlong
<1> QED
  BY <1>3, <1>4, <1>5, <1>6 DEF FedAlong

-------------------------------------------------------------------------------
\* The inductive invariant.

\* A keep-alive that was told to stop, or was never started.
Quiet(p) == halt[p] \/ ping[p] = "off"

\* What the handler waits for, and where it goes next.
Joins ==
    /\ main.pc = "join" =>
          \/ /\ main.waits = "before" /\ main.next \in {"connect", "say", "left"}
             /\ ping["within"] = "off"
          \/ main.waits = "within" /\ main.next \in {"say", "end"} /\ halt["within"]
    /\ main.pc \in {"put", "putting"} => main.next \in {"reading", "done"}

\* The lock is with whoever writes.
Locked ==
    /\ \A p \in Pingers : ping[p] = "writing" <=> lock = p
    /\ main.pc \in {"putting", "ending", "saying"} <=> lock = "main"

\* The keep-alives are quiet before the handler ends the stream, and nobody has
\* the lock when it has.
Halted ==
    /\ main.pc = "begin" => ping["before"] = "off"
    /\ main.pc \in {"begin", "working", "connect"} => ping["within"] = "off"
    /\ main.pc \notin {"begin", "working"} => Quiet("before")
    /\ main.pc \in {"end", "ending", "say", "saying", "closed"} => Quiet("within")
    /\ main.pc = "closed" => lock = "free"
    /\ ~ask.opened => ping["before"] = "off"

\* What is about to be put, or waits in the splice, comes from the backend.
Carried ==
    /\ rest \in Seq(HalfItems)
    /\ main.out \in Seq(HalfItems \cup WholeItems)

\* Of a stream the router opened, whole events: what the backend never ended
\* goes out last.
Outgoing ==
    ask.opened /\ main.pc \in {"put", "putting"} =>
        IF main.next = "reading" THEN main.out \in Seq(WholeItems) ELSE Len(main.out) <= 1

Control == TypeOK /\ Joins /\ Locked /\ Halted /\ Carried /\ Outgoing

\* The end of the stream is the last thing on the wire.
EndIsLast == \A i \in 1..Len(wire) : wire[i].ev = "end" => i = Len(wire) /\ main.pc = "closed"

\* A place a client can read.
Cut == \E i \in 1..Len(wire) : wire[i].ev = "half a frame"
Shown(i) == i \in 1..Len(wire) /\ \A j \in 1..i : wire[j].ev # "half a frame"

\* The backend's reply is over.
Late == \/ main.pc \in {"done", "end", "ending", "closed", "left"}
        \/ main.pc = "join" /\ main.next = "end"

\* EventsStayWhole, and half an event only when the backend's reply is over.
HalfIsLast ==
    ask.opened => \A i \in 1..Len(wire) : Shown(i) /\ wire[i].part # "whole" =>
        /\ Late \/ Cut
        /\ \A j \in (i + 1)..Len(wire) : Shown(j) => wire[j].ev \in {"ping", "end"}

IInv == Control /\ EndIsLast /\ HalfIsLast

-------------------------------------------------------------------------------
\* What a write does.

More(items) ==
    /\ wire' \in Seq(Items)
    /\ Len(wire') = Len(wire) + Len(items)
    /\ \A n \in 1..Len(wire) : wire'[n] = wire[n]
    /\ \A n \in 1..Len(items) : wire'[Len(wire) + n] = items[n]

\* What is written: no half frame, no half event, keep-alives and the end only.
WholeFrames(items) == \A n \in 1..Len(items) : items[n].ev # "half a frame"
WholeEvents(items) == \A n \in 1..Len(items) : items[n].part = "whole"
NoEvents(items) == \A n \in 1..Len(items) : items[n].ev \in {"ping", "end"}

\* The last of them may end a stream.
EndsLast(items) ==
    \A n \in 1..Len(items) : items[n].ev = "end" => n = Len(items) /\ main'.pc = "closed"

\* What may follow on a stream the router opened.
Follows(items) ==
    \/ WholeEvents(items) /\ (~Late \/ (Late' /\ NoEvents(items)))
    \/ ~Late /\ Late' /\ Len(items) <= 1

\* Half a frame.
HalfMore ==
    /\ wire' \in Seq(Items)
    /\ Len(wire') = Len(wire) + 1
    /\ \A n \in 1..Len(wire) : wire'[n] = wire[n]
    /\ wire'[Len(wire) + 1].ev = "half a frame"

\* The wire is a sequence of items.
LEMMA WireTyped == TypeOK => wire \in Seq(Items) /\ Len(wire) \in Nat
<1>1. TypeOK => wire \in Seq(Items)
  BY DEF TypeOK
<1> QED
  BY <1>1

\* All of it, half a frame, or nothing.
LEMMA Writes ==
  ASSUME TypeOK, NEW items \in Seq(Items), wire' = Written(items)
  PROVE  \/ client = "there" /\ More(items)
         \/ client = "stalled" /\ HalfMore
         \/ client = "gone" /\ wire' = wire
<1>1. wire \in Seq(Items) /\ Len(wire) \in Nat
  BY WireTyped
<1>2. Item("half a frame") \in Items
  BY DEF Item, Items, Names
<1>3. client \in {"there", "stalled", "gone"}
  BY DEF TypeOK
<1>4. CASE client = "there"
  <2>1. wire' = wire \o items
    BY <1>4 DEF Written
  <2>2. More(items)
    BY <1>1, <2>1 DEF More
  <2> QED
    BY <1>4, <2>2
<1>5. CASE client = "stalled"
  <2> DEFINE half == Item("half a frame")
  <2>1. wire' = Append(wire, half)
    BY <1>5 DEF Written
  <2>2. half.ev = "half a frame"
    BY DEF Item
  <2>3. half \in Items
    BY <1>2
  <2> HIDE DEF half
  <2>4. HalfMore
    <3>1. wire' \in Seq(Items) /\ Len(wire') = Len(wire) + 1
      BY <1>1, <2>1, <2>3
    <3>2. \A n \in 1..Len(wire) : wire'[n] = wire[n]
      BY <1>1, <2>1, <2>3
    <3>3. wire'[Len(wire) + 1] = half
      BY <1>1, <2>1, <2>3
    <3> QED
      BY <2>2, <3>1, <3>2, <3>3 DEF HalfMore
  <2> QED
    BY <1>5, <2>4
<1>6. CASE client = "gone"
  BY <1>6 DEF Written
<1> QED
  BY <1>3, <1>4, <1>5, <1>6

\* Nothing is written after the end, and it is written last.
LEMMA EndMoved ==
  ASSUME TypeOK, EndIsLast,
         \/ wire' = wire /\ (main.pc = "closed" => main'.pc = "closed")
         \/ main.pc # "closed" /\ HalfMore
         \/ /\ main.pc # "closed"
            /\ \E new \in Seq(Items) : More(new) /\ EndsLast(new)
  PROVE  EndIsLast'
<1>0. wire \in Seq(Items) /\ Len(wire) \in Nat
  BY WireTyped
<1>1. CASE wire' = wire /\ (main.pc = "closed" => main'.pc = "closed")
  BY <1>1 DEF EndIsLast
<1>2. CASE main.pc # "closed" /\ HalfMore
  <2>1. \A i \in 1..Len(wire) : wire[i].ev # "end"
    BY <1>2 DEF EndIsLast
  <2>2. wire'[Len(wire) + 1].ev # "end" /\ Len(wire') = Len(wire) + 1
    BY <1>2 DEF HalfMore
  <2> QED
    <3>1. \A i \in 1..Len(wire') : i \in 1..Len(wire) \/ i = Len(wire) + 1
      BY <1>0, <2>2
    <3>2. \A i \in 1..Len(wire) : wire'[i] = wire[i]
      BY <1>2 DEF HalfMore
    <3> QED
      BY <2>1, <2>2, <3>1, <3>2 DEF EndIsLast
<1>3. ASSUME main.pc # "closed", NEW items \in Seq(Items), More(items), EndsLast(items)
      PROVE  EndIsLast'
  <2>1. \A i \in 1..Len(wire) : wire[i].ev # "end"
    BY <1>3 DEF EndIsLast
  <2> SUFFICES ASSUME NEW i \in 1..Len(wire'), wire'[i].ev = "end"
               PROVE  i = Len(wire') /\ main'.pc = "closed"
    BY DEF EndIsLast
  <2>2. i \notin 1..Len(wire)
    BY <1>3, <2>1 DEF More
  <2>3. i - Len(wire) \in 1..Len(items) /\ wire'[i] = items[i - Len(wire)]
    <3>1. i - Len(wire) \in 1..Len(items) /\ i = Len(wire) + (i - Len(wire))
      BY <1>0, <1>3, <2>2 DEF More
    <3> QED
      BY <1>3, <3>1 DEF More
  <2>4. i - Len(wire) = Len(items) /\ main'.pc = "closed"
    BY <1>3, <2>3 DEF EndsLast
  <2>5. Len(items) \in Nat /\ Len(wire') = Len(wire) + Len(items)
    BY <1>3 DEF More
  <2> QED
    BY <1>0, <2>4, <2>5
<1> QED
  BY <1>1, <1>2, <1>3

\* Half an event stays last.
LEMMA HalfMoved ==
  ASSUME TypeOK, HalfIsLast, ask' = ask,
         \/ wire' = wire /\ (Late => Late')
         \/ HalfMore
         \/ \E new \in Seq(Items) :
               More(new) /\ WholeFrames(new) /\ (ask.opened => Follows(new))
  PROVE  HalfIsLast'
<1>0. wire \in Seq(Items) /\ Len(wire) \in Nat
  BY WireTyped
<1>1. CASE wire' = wire /\ (Late => Late')
  BY <1>1 DEF HalfIsLast, Shown, Cut
<1>2. CASE HalfMore
  <2>0. \A n \in 1..Len(wire) : wire'[n] = wire[n]
    BY <1>2 DEF HalfMore
  <2>1. Len(wire') = Len(wire) + 1
    BY <1>2 DEF HalfMore
  <2>9. wire'[Len(wire')].ev = "half a frame"
    BY <1>2 DEF HalfMore
  <2>2. \A i \in 1..Len(wire') : Shown(i)' <=> i # Len(wire') /\ Shown(i)
    <3> SUFFICES ASSUME NEW i \in 1..Len(wire') PROVE Shown(i)' <=> i # Len(wire') /\ Shown(i)
      OBVIOUS
    <3>1. CASE i = Len(wire')
      <4>1. i \in 1..i
        BY <1>0, <2>1, <3>1
      <4> QED
        BY <2>9, <3>1, <4>1 DEF Shown
    <3>2. CASE i # Len(wire')
      <4>1. i \in 1..Len(wire) /\ \A j \in 1..i : wire'[j] = wire[j]
        BY <1>0, <2>0, <2>1, <3>2
      <4> QED
        BY <3>2, <4>1 DEF Shown
    <3> QED
      BY <3>1, <3>2
  <2>3. Cut'
    <3>1. Len(wire') \in 1..Len(wire')
      BY <1>0, <2>1
    <3> QED
      BY <2>9, <3>1 DEF Cut
  <2> SUFFICES ASSUME ask.opened, NEW i \in 1..Len(wire'), Shown(i)', wire'[i].part # "whole",
                      NEW j \in (i + 1)..Len(wire'), Shown(j)'
               PROVE  wire'[j].ev \in {"ping", "end"}
    BY <2>3 DEF HalfIsLast
  <2>4. /\ i \in 1..Len(wire) /\ Shown(i) /\ wire'[i] = wire[i]
        /\ j \in (i + 1)..Len(wire) /\ Shown(j) /\ wire'[j] = wire[j]
    <3>1. i # Len(wire') /\ Shown(i) /\ i \in 1..Len(wire)
      BY <1>0, <2>1, <2>2
    <3>2. j \in 1..Len(wire') /\ j # Len(wire') /\ Shown(j) /\ j \in (i + 1)..Len(wire)
      BY <1>0, <2>1, <2>2, <3>1
    <3> QED
      BY <1>0, <2>0, <3>1, <3>2
  <2> QED
    BY <2>4 DEF HalfIsLast
<1>3. ASSUME NEW items \in Seq(Items), More(items), WholeFrames(items),
             ask.opened => Follows(items)
      PROVE  HalfIsLast'
  <2> SUFFICES ASSUME ask.opened, NEW i \in 1..Len(wire'), Shown(i)', wire'[i].part # "whole"
               PROVE  /\ Late' \/ Cut'
                      /\ \A j \in (i + 1)..Len(wire') : Shown(j)' => wire'[j].ev \in {"ping", "end"}
    BY DEF HalfIsLast
  <2>1. Len(items) \in Nat /\ Len(wire') = Len(wire) + Len(items)
    BY <1>3 DEF More
  <2>2. ASSUME NEW j \in 1..Len(wire), Shown(j)' PROVE Shown(j) /\ wire'[j] = wire[j]
    <3>1. \A n \in 1..j : wire'[n] = wire[n]
      BY <1>0, <1>3 DEF More
    <3>2. \A n \in 1..j : wire'[n].ev # "half a frame"
      BY <2>2 DEF Shown
    <3>3. j \in 1..j
      BY <1>0
    <3> QED
      BY <3>1, <3>2, <3>3 DEF Shown
  <2>3. ASSUME NEW j \in (Len(wire) + 1)..Len(wire')
        PROVE  /\ j - Len(wire) \in 1..Len(items) /\ wire'[j] = items[j - Len(wire)]
    <3>1. j - Len(wire) \in 1..Len(items) /\ j = Len(wire) + (j - Len(wire))
      BY <1>0, <2>1
    <3> QED
      BY <1>3, <3>1 DEF More
  <2>4. ASSUME NEW j \in (Len(wire) + 1)..Len(wire'), Shown(j)' PROVE ~Cut
    <3>1. \A k \in 1..Len(wire) : wire'[k].ev # "half a frame" /\ wire'[k] = wire[k]
      <4>1. \A k \in 1..Len(wire) : wire'[k] = wire[k]
        BY <1>3 DEF More
      <4>2. \A k \in 1..Len(wire) : wire'[k].ev # "half a frame"
        <5>1. \A k \in 1..j : wire'[k].ev # "half a frame"
          BY <2>4 DEF Shown
        <5>2. \A k \in 1..Len(wire) : k \in 1..j
          BY <1>0, <2>1
        <5> QED
          BY <5>1, <5>2
      <4> QED
        BY <4>1, <4>2
    <3> QED
      BY <3>1 DEF Cut
  <2>5. Cut => Cut'
    <3>1. \A k \in 1..Len(wire) : wire'[k] = wire[k] /\ k \in 1..Len(wire')
      BY <1>0, <1>3, <2>1 DEF More
    <3> QED
      BY <3>1 DEF Cut
  <2>6. CASE i \in 1..Len(wire)
    <3>1. /\ Late \/ Cut
          /\ \A j \in (i + 1)..Len(wire) : Shown(j) => wire[j].ev \in {"ping", "end"}
      BY <2>2, <2>6 DEF HalfIsLast
    <3>2. Late => Late' /\ NoEvents(items)
      BY <1>3 DEF Follows
    <3>3. ASSUME NEW j \in (i + 1)..Len(wire'), Shown(j)' PROVE wire'[j].ev \in {"ping", "end"}
      <4>1. CASE j \in 1..Len(wire)
        BY <2>2, <3>1, <3>3, <4>1
      <4>2. CASE j \notin 1..Len(wire)
        <5>1. j \in (Len(wire) + 1)..Len(wire')
          BY <1>0, <2>1, <2>6, <4>2
        <5>2. Late
          BY <2>4, <3>1, <3>3, <5>1
        <5> QED
          BY <2>3, <3>2, <5>1, <5>2 DEF NoEvents
      <4> QED
        BY <4>1, <4>2
    <3> QED
      BY <2>5, <3>1, <3>2, <3>3
  <2>7. CASE i \notin 1..Len(wire)
    <3>1. i \in (Len(wire) + 1)..Len(wire')
      BY <1>0, <2>1, <2>7
    <3>2. Late' /\ Len(items) <= 1
      <4>1. ~WholeEvents(items)
        BY <2>3, <3>1 DEF WholeEvents
      <4> QED
        BY <1>3, <4>1 DEF Follows
    <3>3. i = Len(wire')
      BY <1>0, <2>1, <3>1, <3>2
    <3> QED
      BY <1>0, <2>1, <3>2, <3>3
  <2> QED
    BY <2>6, <2>7
<1> QED
  BY <1>1, <1>2, <1>3

-------------------------------------------------------------------------------
\* Types.

Mains == [pc : {"begin", "working", "join", "connect", "reading", "put", "putting",
                "done", "end", "ending", "say", "saying", "closed", "left"},
          next : {"", "connect", "say", "left", "reading", "done", "end"},
          out : Seq(Items), waits : Pingers]
Pings == [Pingers -> PingPcs]

\* What a splice carries is made of items.
LEMMA ItemsTyped == Seq(HalfItems) \cup Seq(WholeItems) \subseteq Seq(Items)
                    /\ Seq(HalfItems \cup WholeItems) \subseteq Seq(Items)
<1>1. HalfItems \cup WholeItems \subseteq Items
  BY DEF HalfItems, WholeItems, Items, Sent, Names
<1> HIDE DEF HalfItems, WholeItems, Items
<1> QED
  BY <1>1

\* The request stays, and so does what is sent for it.
LEMMA HalvesStay == ask' = ask => Halves' = Halves
  BY DEF Halves, Sends

\* The parts of the type invariant.
LEMMA Parts ==
  TypeOK =>
    /\ main \in Mains /\ ping \in Pings /\ halt \in [Pingers -> BOOLEAN]
    /\ rest \in Seq(Items) /\ Len(rest) <= 1 /\ usage \in Usages
    /\ up \in 0..Len(Halves) /\ lock \in Pingers \cup {"free", "main"}
    /\ client \in {"there", "stalled", "gone"}
  BY DEF TypeOK, Mains, Pings, PingPcs, Usages

\* A step that keeps them keeps the invariant.
LEMMA Typed ==
  ASSUME TypeOK, ask' = ask, main' \in Mains, ping' \in Pings,
         halt' \in [Pingers -> BOOLEAN], rest' \in Seq(Items), Len(rest') <= 1,
         usage' \in Usages, up' \in 0..Len(Halves),
         lock' \in Pingers \cup {"free", "main"}, client' \in {"there", "stalled", "gone"},
         wire' \in Seq(Items)
  PROVE  TypeOK'
<1>1. Halves' = Halves
  BY HalvesStay
<1>2. ask' \in Asks
  BY DEF TypeOK
<1> QED
  BY <1>1, <1>2 DEF TypeOK, Mains, Pings, PingPcs, Usages

\* The handler goes to another place.
LEMMA Goes ==
  ASSUME TypeOK, NEW pc \in {"begin", "working", "join", "connect", "reading", "put",
                             "putting", "done", "end", "ending", "say", "saying",
                             "closed", "left"}, Goto(pc)
  PROVE  /\ main' \in Mains
         /\ main'.pc = pc /\ main'.next = main.next /\ main'.out = main.out
         /\ main'.waits = main.waits
<1>1. main \in Mains
  BY Parts
<1> QED
  BY <1>1 DEF Goto, Mains

\* Or waits for a keep-alive first.
LEMMA Awaits ==
  ASSUME NEW p \in Pingers,
         NEW next \in {"", "connect", "say", "left", "reading", "done", "end"},
         Await(p, next)
  PROVE  /\ main' \in Mains
         /\ main'.pc = "join" /\ main'.next = next /\ main'.out = <<>> /\ main'.waits = p
<1>1. <<>> \in Seq(Items)
  BY EmptyTyped
<1> QED
  BY <1>1 DEF Await, Mains

\* A flag is set.
LEMMA Halts ==
  ASSUME TypeOK, NEW p \in Pingers, halt' = [halt EXCEPT ![p] = TRUE]
  PROVE  /\ halt' \in [Pingers -> BOOLEAN] /\ halt'[p]
         /\ \A q \in Pingers : halt[q] => halt'[q]
<1>1. halt \in [Pingers -> BOOLEAN]
  BY Parts
<1> QED
  BY <1>1

\* A keep-alive goes to another place.
LEMMA PingGoes ==
  ASSUME TypeOK, NEW p \in Pingers, NEW pc \in PingPcs, ping' = [ping EXCEPT ![p] = pc]
  PROVE  ping' \in Pings /\ ping'[p] = pc /\ \A q \in Pingers \ {p} : ping'[q] = ping[q]
<1>1. ping \in Pings
  BY Parts
<1> QED
  BY <1>1 DEF Pings

\* A step that writes nothing, and reopens nothing.
LEMMA Silent ==
  ASSUME IInv, Control', wire' = wire, ask' = ask,
         main.pc = "closed" => main'.pc = "closed", Late => Late'
  PROVE  IInv'
<1>1. EndIsLast'
  BY EndMoved DEF IInv, Control
<1>2. HalfIsLast'
  BY HalfMoved DEF IInv, Control
<1> QED
  BY <1>1, <1>2 DEF IInv

\* The invariant holds at first.
LEMMA InitIInv == Init => IInv
<1> SUFFICES ASSUME Init PROVE IInv
  OBVIOUS
<1>1. main = [pc |-> "begin", next |-> "", out |-> <<>>, waits |-> "before"]
  BY DEF Init
<1>0. /\ <<>> \in Seq(Items) /\ <<>> \in Seq(HalfItems) /\ <<>> \in Seq(HalfItems \cup WholeItems)
      /\ Len(<<>>) = 0
  BY EmptyTyped
<1>2. wire = <<>> /\ rest = <<>> /\ up = 0 /\ usage = "none" /\ ask \in Asks
      /\ lock = "free" /\ client = "there"
      /\ ping = [p \in Pingers |-> "off"] /\ halt = [p \in Pingers |-> FALSE]
  BY DEF Init
<1>3. main \in Mains /\ main.pc = "begin" /\ main.out = <<>>
  BY <1>0, <1>1 DEF Mains, Pingers
<1>4. up \in 0..Len(Halves)
  BY <1>2, HalvesTyped
<1>5. TypeOK
  <2>1. rest \in Seq(Items) /\ Len(rest) <= 1 /\ wire \in Seq(Items)
    BY <1>0, <1>2
  <2>2. ping \in Pings /\ halt \in [Pingers -> BOOLEAN]
    BY <1>2 DEF Pings, PingPcs
  <2>3. /\ usage \in Usages /\ lock \in Pingers \cup {"free", "main"}
        /\ client \in {"there", "stalled", "gone"} /\ ask \in Asks
    BY <1>2 DEF Usages
  <2>4. main \in Mains
    BY <1>3
  <2> QED
    BY <1>4, <2>1, <2>2, <2>3, <2>4 DEF TypeOK, Mains, Pings, PingPcs, Usages
<1>6. Joins /\ Carried /\ Outgoing
  BY <1>0, <1>2, <1>3 DEF Joins, Carried, Outgoing
<1>7. Locked /\ Halted
  BY <1>2, <1>3 DEF Locked, Halted, Pingers
<1>8. EndIsLast /\ HalfIsLast
  BY <1>2 DEF EndIsLast, HalfIsLast, Shown
<1> QED
  BY <1>5, <1>6, <1>7, <1>8 DEF IInv, Control

-------------------------------------------------------------------------------
\* The handler's steps that write nothing.

\* The parts of the invariant that are about where everybody is.
LEMMA Parted == IInv => TypeOK /\ Joins /\ Locked /\ Halted /\ Carried /\ Outgoing
  BY DEF IInv, Control

\* A request that is not opened first goes to its backend.
LEMMA NotOpenedIInv == IInv /\ NotOpened => IInv'
<1> SUFFICES ASSUME IInv, NotOpened PROVE IInv'
  OBVIOUS
<1>1. TypeOK /\ Joins /\ Locked /\ Halted /\ Carried /\ Outgoing
  BY Parted
<1>2. /\ main.pc = "begin" /\ ~ask.opened /\ ask' = ask /\ up' = up /\ rest' = rest
      /\ usage' = usage /\ ping' = ping /\ halt' = halt /\ lock' = lock
      /\ client' = client /\ wire' = wire
  BY DEF NotOpened
<1>3. /\ main' \in Mains
      /\ main'.pc = "connect" /\ main'.next = main.next /\ main'.out = main.out
  <2>1. Goto("connect")
    BY DEF NotOpened
  <2> QED
    BY <1>1, <2>1, Goes
<1>4. TypeOK'
  BY <1>1, <1>2, <1>3, Parts, WireTyped, Typed
<1>5. (Joins /\ Locked /\ Carried /\ Outgoing)'
  BY <1>1, <1>2, <1>3 DEF Joins, Locked, Carried, Outgoing
<1>6. Halted'
  BY <1>1, <1>2, <1>3 DEF Halted, Quiet
<1>7. Late => Late'
  BY <1>2 DEF Late
<1> QED
  BY <1>2, <1>4, <1>5, <1>6, <1>7, Silent DEF Control

\* The turn is over for the keep-alive before the reply.
LEMMA WorkIInv == IInv /\ Work => IInv'
<1> SUFFICES ASSUME IInv, Work PROVE IInv'
  OBVIOUS
<1>1. TypeOK /\ Joins /\ Locked /\ Halted /\ Carried /\ Outgoing
  BY Parted
<1>2. /\ main.pc = "working" /\ ask' = ask /\ up' = up /\ rest' = rest
      /\ usage' = usage /\ ping' = ping /\ lock' = lock
      /\ client' = client /\ wire' = wire
  BY DEF Work
<1>3. PICK next \in {"connect", "say", "left"} : Await("before", next)
  BY DEF Work
<1>4. /\ main' \in Mains /\ main'.pc = "join" /\ main'.next = next
      /\ main'.out = <<>> /\ main'.waits = "before"
  BY <1>3, Awaits DEF Pingers
<1>5. halt' \in [Pingers -> BOOLEAN] /\ halt'["before"]
  BY <1>1, Halts DEF Work, Pingers
<1>6. TypeOK'
  BY <1>1, <1>2, <1>4, <1>5, Parts, WireTyped, Typed
<1>7. (Joins /\ Locked)'
  BY <1>1, <1>2, <1>4 DEF Joins, Locked, Halted
<1>8. (Carried /\ Outgoing)'
  BY <1>1, <1>2, <1>4, EmptyTyped DEF Carried, Outgoing
<1>9. Halted'
  BY <1>1, <1>2, <1>4, <1>5 DEF Halted, Quiet
<1>10. Late => Late'
  BY <1>2 DEF Late
<1> QED
  BY <1>2, <1>6, <1>7, <1>8, <1>9, <1>10, Silent DEF Control

\* Whatever the handler does after it waited, it waited for.
LEMMA JoinedIInv == IInv /\ Joined => IInv'
<1> SUFFICES ASSUME IInv, Joined PROVE IInv'
  OBVIOUS
<1>1. TypeOK /\ Joins /\ Locked /\ Halted /\ Carried /\ Outgoing
  BY Parted
<1>2. /\ main.pc = "join" /\ ask' = ask /\ up' = up /\ rest' = rest
      /\ usage' = usage /\ ping' = ping /\ halt' = halt /\ lock' = lock
      /\ client' = client /\ wire' = wire
  BY DEF Joined
<1>3. \/ /\ main.next \in {"connect", "say", "left"} /\ ping["within"] = "off"
      \/ main.next \in {"say", "end"} /\ halt["within"]
  BY <1>1, <1>2 DEF Joins
<1>4. /\ main' \in Mains
      /\ main'.pc = main.next /\ main'.next = main.next /\ main'.out = main.out
  <2>1. Goto(main.next)
    BY DEF Joined
  <2> QED
    BY <1>1, <1>3, <2>1, Goes
<1>5. TypeOK'
  BY <1>1, <1>2, <1>4, Parts, WireTyped, Typed
<1>6. (Joins /\ Locked /\ Carried /\ Outgoing)'
  BY <1>1, <1>2, <1>3, <1>4 DEF Joins, Locked, Carried, Outgoing
<1>7. Halted'
  BY <1>1, <1>2, <1>3, <1>4 DEF Halted, Quiet
<1>8. Late => Late'
  BY <1>2, <1>3, <1>4 DEF Late
<1> QED
  BY <1>2, <1>5, <1>6, <1>7, <1>8, Silent DEF Control

\* A piece, through the splice of a stream the router opened.
LEMMA ReadIInv == IInv /\ Read => IInv'
<1> SUFFICES ASSUME IInv, Read PROVE IInv'
  OBVIOUS
<1>1. TypeOK /\ Joins /\ Locked /\ Halted /\ Carried /\ Outgoing
  BY Parted
<1>2. /\ main.pc = "reading" /\ ask' = ask /\ ping' = ping /\ halt' = halt /\ lock' = lock
      /\ client' = client /\ wire' = wire
  BY DEF Read
<1> DEFINE Piece(n) == SubSeq(Halves, up + 1, n)
           Out(n) == IF Spliced THEN Fed(Piece(n)).out ELSE Piece(n)
<1>3. PICK n \in (up + 1)..Len(Halves) :
        /\ up' = n
        /\ IF Spliced THEN rest' = Fed(Piece(n)).rest /\ usage' = Fed(Piece(n)).usage
           ELSE rest' = rest /\ usage' = usage
        /\ main' = [main EXCEPT !.out = Out(n), !.next = "reading",
                                !.pc = IF Out(n) = <<>> THEN "reading" ELSE "put"]
  BY DEF Read
<1> DEFINE piece == Piece(n)
           out == Out(n)
           pc == IF out = <<>> THEN "reading" ELSE "put"
<1>4. up \in Nat /\ n \in up..Len(Halves) /\ n \in 0..Len(Halves)
  <2>1. up \in 0..Len(Halves) /\ Len(Halves) \in Nat
    BY <1>1, Parts, HalvesTyped
  <2> QED
    BY <2>1
<1>5. piece \in Seq(HalfItems)
  BY <1>4, PieceTyped
<1>6. rest \in Seq(HalfItems) /\ usage \in Usages /\ Len(rest) <= 1
  BY <1>1, Parts DEF Carried
<1> HIDE DEF Piece
<1>7. /\ Fed(piece).out \in Seq(WholeItems) /\ Fed(piece).usage \in Usages
      /\ Fed(piece).rest \in Seq(HalfItems) /\ Len(Fed(piece).rest) <= 1
  BY <1>5, <1>6, FedTyped
<1>8. /\ rest' \in Seq(HalfItems) /\ Len(rest') <= 1 /\ usage' \in Usages
  BY <1>3, <1>6, <1>7
<1>9. /\ out \in Seq(HalfItems) \cup Seq(WholeItems)
      /\ Spliced => out \in Seq(WholeItems)
  BY <1>5, <1>7
<1>10. out \in Seq(Items) /\ out \in Seq(HalfItems \cup WholeItems)
  <2> HIDE DEF out
  <2>1. ASSUME NEW q \in Seq(HalfItems) \cup Seq(WholeItems)
        PROVE  q \in Seq(HalfItems \cup WholeItems)
    OBVIOUS
  <2> QED
    BY <1>9, <2>1, ItemsTyped
<1>11. main' = [main EXCEPT !.out = out, !.next = "reading", !.pc = pc]
  BY <1>3
<1>12. pc \in {"reading", "put"}
  OBVIOUS
<1> HIDE DEF out, pc
<1>13. /\ main' \in Mains /\ main'.pc = pc /\ main'.next = "reading" /\ main'.out = out
  <2>1. main \in Mains
    BY <1>1, Parts
  <2> QED
    BY <1>10, <1>11, <1>12, <2>1 DEF Mains
<1>14. TypeOK'
  <2>1. rest' \in Seq(Items) /\ up' \in 0..Len(Halves)
    BY <1>3, <1>4, <1>8, ItemsTyped
  <2> QED
    BY <1>1, <1>2, <1>8, <1>13, <2>1, Parts, WireTyped, Typed
<1>15. (Joins /\ Locked)'
  BY <1>1, <1>2, <1>12, <1>13 DEF Joins, Locked
<1>16. (Carried /\ Outgoing)'
  BY <1>2, <1>8, <1>9, <1>10, <1>13 DEF Carried, Outgoing, Spliced
<1>17. Halted'
  BY <1>1, <1>2, <1>12, <1>13 DEF Halted, Quiet
<1>18. Late => Late'
  BY <1>2 DEF Late
<1> QED
  BY <1>2, <1>14, <1>15, <1>16, <1>17, <1>18, Silent DEF Control

\* The end of what the backend sends, with what it left open.
LEMMA ReadEndIInv == IInv /\ ReadEnd => IInv'
<1> SUFFICES ASSUME IInv, ReadEnd PROVE IInv'
  OBVIOUS
<1>1. TypeOK /\ Joins /\ Locked /\ Halted /\ Carried /\ Outgoing
  BY Parted
<1>2. /\ main.pc = "reading" /\ ask' = ask /\ up' = up /\ rest' = <<>>
      /\ usage' = usage /\ ping' = ping /\ halt' = halt /\ lock' = lock
      /\ client' = client /\ wire' = wire
  BY DEF ReadEnd
<1>3. rest' \in Seq(HalfItems) /\ rest' \in Seq(Items) /\ Len(rest') <= 1
  BY <1>2, EmptyTyped
<1>4. \/ Goto("done")
      \/ main' = [main EXCEPT !.pc = "put", !.next = "done",
                              !.out = [i \in 1..Len(rest) |-> rest[i]]]
  BY DEF ReadEnd
<1>5. /\ main' \in Mains /\ main'.out \in Seq(HalfItems \cup WholeItems)
      /\ \/ main'.pc = "done"
         \/ main'.pc = "put" /\ main'.next = "done" /\ Len(main'.out) <= 1
  <2>1. CASE Goto("done")
    BY <1>1, <2>1, Goes DEF Carried
  <2>2. CASE main' = [main EXCEPT !.pc = "put", !.next = "done",
                                  !.out = [i \in 1..Len(rest) |-> rest[i]]]
    <3> DEFINE out == [i \in 1..Len(rest) |-> rest[i]]
    <3>1. rest \in Seq(HalfItems) /\ Len(rest) <= 1
      BY <1>1, Parts DEF Carried
    <3>2. out \in Seq(HalfItems) /\ Len(out) = Len(rest)
      BY <3>1
    <3> HIDE DEF out
    <3>3. out \in Seq(HalfItems \cup WholeItems)
      BY <3>2
    <3>4. out \in Seq(Items)
      BY <3>2, ItemsTyped
    <3>5. main \in Mains /\ main' = [main EXCEPT !.pc = "put", !.next = "done", !.out = out]
      BY <1>1, <2>2, Parts DEF out
    <3>6. /\ main' \in Mains /\ main'.out = out /\ main'.pc = "put" /\ main'.next = "done"
      BY <3>4, <3>5 DEF Mains
    <3> QED
      BY <3>1, <3>2, <3>3, <3>6
  <2> QED
    BY <1>4, <2>1, <2>2
<1>6. TypeOK'
  BY <1>1, <1>2, <1>3, <1>5, Parts, WireTyped, Typed
<1>7. (Joins /\ Locked /\ Outgoing)'
  BY <1>1, <1>2, <1>5 DEF Joins, Locked, Outgoing
<1>8. Carried'
  BY <1>3, <1>5 DEF Carried
<1>9. Halted'
  BY <1>1, <1>2, <1>5 DEF Halted, Quiet
<1>10. Late => Late'
  BY <1>2 DEF Late
<1> QED
  BY <1>2, <1>6, <1>7, <1>8, <1>9, <1>10, Silent DEF Control

\* A backend that went away, or ended: the keep-alive is told to stop.
LEMMA StopIInv == IInv /\ (Reset \/ Done) => IInv'
<1> SUFFICES ASSUME IInv, Reset \/ Done PROVE IInv'
  OBVIOUS
<1>1. TypeOK /\ Joins /\ Locked /\ Halted /\ Carried /\ Outgoing
  BY Parted
<1>2. /\ main.pc \in {"reading", "done"} /\ ask' = ask /\ up' = up /\ rest' = rest
      /\ usage' = usage /\ ping' = ping /\ lock' = lock
      /\ client' = client /\ wire' = wire /\ halt' = [halt EXCEPT !["within"] = TRUE]
  BY DEF Reset, Done
<1>3. PICK next \in {"say", "end"} :
        Await("within", next) /\ (main.pc = "done" => next = "end")
  BY DEF Reset, Done
<1>4. /\ main' \in Mains /\ main'.pc = "join" /\ main'.next = next
      /\ main'.out = <<>> /\ main'.waits = "within"
  BY <1>3, Awaits DEF Pingers
<1>5. halt' \in [Pingers -> BOOLEAN] /\ halt'["within"] /\ (halt["before"] => halt'["before"])
  BY <1>1, <1>2, Halts DEF Pingers
<1>6. TypeOK'
  BY <1>1, <1>2, <1>4, <1>5, Parts, WireTyped, Typed
<1>7. (Joins /\ Locked)'
  BY <1>1, <1>2, <1>4, <1>5 DEF Joins, Locked
<1>8. (Carried /\ Outgoing)'
  BY <1>1, <1>2, <1>4, EmptyTyped DEF Carried, Outgoing
<1>9. Halted'
  BY <1>1, <1>2, <1>4, <1>5 DEF Halted, Quiet
<1>10. Late => Late'
  BY <1>2, <1>3, <1>4 DEF Late
<1> QED
  BY <1>2, <1>6, <1>7, <1>8, <1>9, <1>10, Silent DEF Control

\* The lock is taken only when nobody writes.
LEMMA LockIInv == IInv /\ Lock => IInv'
<1> SUFFICES ASSUME IInv, Lock PROVE IInv'
  OBVIOUS
<1>1. TypeOK /\ Joins /\ Locked /\ Halted /\ Carried /\ Outgoing
  BY Parted
<1>2. /\ main.pc \in {"put", "end", "say"} /\ lock = "free" /\ lock' = "main"
      /\ ask' = ask /\ up' = up /\ rest' = rest /\ usage' = usage /\ ping' = ping
      /\ halt' = halt /\ client' = client /\ wire' = wire
  BY DEF Lock
<1>3. PICK pc \in {"putting", "ending", "saying"} :
        /\ Goto(pc)
        /\ pc = "putting" <=> main.pc = "put"
        /\ pc = "ending" <=> main.pc = "end"
  BY <1>2 DEF Lock, Goto
<1>4. /\ main' \in Mains
      /\ main'.pc = pc /\ main'.next = main.next /\ main'.out = main.out
  BY <1>1, <1>3, Goes
<1>5. TypeOK'
  BY <1>1, <1>2, <1>4, Parts, WireTyped, Typed
<1>6. (Joins /\ Carried)'
  BY <1>1, <1>2, <1>3, <1>4 DEF Joins, Carried
<1>7. Outgoing'
  BY <1>1, <1>2, <1>3, <1>4 DEF Outgoing
<1>8. Locked'
  BY <1>1, <1>2, <1>4 DEF Locked, Pingers
<1>9. Halted'
  BY <1>1, <1>2, <1>3, <1>4 DEF Halted, Quiet
<1>10. Late => Late'
  BY <1>2, <1>3, <1>4 DEF Late
<1> QED
  BY <1>2, <1>5, <1>6, <1>7, <1>8, <1>9, <1>10, Silent DEF Control

-------------------------------------------------------------------------------
\* The keep-alives and the client, short of a write.

\* A keep-alive that wakes, ends, or takes the lock with its flag not set.
LEMMA PingIInv ==
  ASSUME IInv, NEW p \in Pingers, Wake(p) \/ Stop(p) \/ Claim(p)
  PROVE  IInv'
<1>1. TypeOK /\ Joins /\ Locked /\ Halted /\ Carried /\ Outgoing
  BY Parted
<1>2. /\ ask' = ask /\ main' = main /\ up' = up /\ rest' = rest /\ usage' = usage
      /\ halt' = halt /\ client' = client /\ wire' = wire
  BY DEF Wake, Stop, Claim
<1>3. /\ ping[p] \in {"waiting", "awake"}
      /\ \E pc \in {"awake", "writing", "dead"} :
            /\ ping' = [ping EXCEPT ![p] = pc]
            /\ IF pc = "writing" THEN lock = "free" /\ ~halt[p] /\ lock' = p ELSE lock' = lock
  <2>1. CASE Wake(p)
    BY <2>1 DEF Wake
  <2>2. CASE Stop(p)
    BY <2>2 DEF Stop
  <2>3. CASE Claim(p)
    BY <2>3 DEF Claim
  <2> QED
    BY <2>1, <2>2, <2>3
<1>4. PICK pc \in {"awake", "writing", "dead"} :
        /\ ping' = [ping EXCEPT ![p] = pc]
        /\ IF pc = "writing" THEN lock = "free" /\ ~halt[p] /\ lock' = p ELSE lock' = lock
  BY <1>3
<1>5. ping' \in Pings /\ ping'[p] = pc /\ \A q \in Pingers \ {p} : ping'[q] = ping[q]
  <2>1. pc \in PingPcs
    BY DEF PingPcs
  <2> QED
    BY <1>1, <1>4, <2>1, PingGoes
<1>6. ~Quiet(p) => main.pc # "closed"
  BY <1>1 DEF Halted, Pingers, Quiet
<1>7. TypeOK'
  <2>1. lock' \in Pingers \cup {"free", "main"}
    BY <1>1, <1>4, Parts
  <2> QED
    BY <1>1, <1>2, <1>5, <2>1, Parts, WireTyped, Typed
<1>8. (Joins /\ Carried /\ Outgoing)'
  BY <1>1, <1>2, <1>3, <1>5 DEF Joins, Carried, Outgoing, Pingers
<1>9. Locked'
  <2>1. \A q \in Pingers : q # "free" /\ q # "main"
    BY DEF Pingers
  <2> QED
    BY <1>1, <1>2, <1>3, <1>4, <1>5, <2>1 DEF Locked
<1>10. Halted'
  <2>1. \A q \in Pingers : (ping[q] = "off" => ping'[q] = "off") /\ (Quiet(q) => Quiet(q)')
    BY <1>2, <1>3, <1>5 DEF Quiet
  <2>2. main.pc = "closed" => lock' = lock
    BY <1>3, <1>4, <1>6 DEF Quiet
  <2> QED
    BY <1>1, <1>2, <2>1, <2>2 DEF Halted, Pingers
<1>11. Late => Late'
  BY <1>2 DEF Late
<1> QED
  BY <1>2, <1>7, <1>8, <1>9, <1>10, <1>11, Silent DEF Control

\* The client may do what it likes.
LEMMA ClientIInv == IInv /\ (Leave \/ Stall \/ Resume) => IInv'
<1> SUFFICES ASSUME IInv, Leave \/ Stall \/ Resume PROVE IInv'
  OBVIOUS
<1>1. TypeOK /\ Joins /\ Locked /\ Halted /\ Carried /\ Outgoing
  BY Parted
<1>2. /\ ask' = ask /\ main' = main /\ up' = up /\ rest' = rest /\ usage' = usage
      /\ ping' = ping /\ halt' = halt /\ lock' = lock /\ wire' = wire
      /\ client' \in {"there", "stalled", "gone"}
  BY DEF Leave, Stall, Resume
<1>3. TypeOK'
  BY <1>1, <1>2, Parts, WireTyped, Typed
<1>4. (Joins /\ Locked /\ Carried /\ Outgoing)'
  BY <1>1, <1>2 DEF Joins, Locked, Carried, Outgoing
<1>5. Halted'
  BY <1>1, <1>2 DEF Halted, Quiet
<1>6. Late => Late'
  BY <1>2 DEF Late
<1> QED
  BY <1>2, <1>3, <1>4, <1>5, <1>6, Silent DEF Control

-------------------------------------------------------------------------------
\* The writes.

\* An item or two of the router's own.
LEMMA OwnTyped ==
  ASSUME NEW a \in {"open", "error", "end", "ping"}, NEW b \in {"open", "error", "end", "ping"}
  PROVE  /\ <<Item(a)>> \in Seq(Items) /\ Len(<<Item(a)>>) = 1 /\ <<Item(a)>>[1] = Item(a)
         /\ <<Item(a), Item(b)>> \in Seq(Items) /\ Len(<<Item(a), Item(b)>>) = 2
         /\ <<Item(a), Item(b)>>[1] = Item(a) /\ <<Item(a), Item(b)>>[2] = Item(b)
         /\ Item(a).ev = a /\ Item(b).ev = b /\ Item(a).part = "whole" /\ Item(b).part = "whole"
<1> DEFINE x == Item(a)
           y == Item(b)
<1>1. x \in Items /\ y \in Items
  BY DEF Item, Items, Names
<1>2. x.ev = a /\ y.ev = b /\ x.part = "whole" /\ y.part = "whole"
  BY DEF Item
<1> HIDE DEF x, y
<1>3. /\ <<x>> \in Seq(Items) /\ Len(<<x>>) = 1 /\ <<x>>[1] = x
      /\ <<x, y>> \in Seq(Items) /\ Len(<<x, y>>) = 2
      /\ <<x, y>>[1] = x /\ <<x, y>>[2] = y
  BY <1>1
<1> QED
  BY <1>2, <1>3 DEF x, y

\* What a write does to the promises about the wire.
LEMMA WriteKeeps ==
  ASSUME TypeOK, EndIsLast, HalfIsLast, ask' = ask, NEW items \in Seq(Items),
         wire' = Written(items), main.pc # "closed", WholeFrames(items),
         EndsLast(items), client = "there" /\ ask.opened => Follows(items),
         client = "gone" => (Late => Late')
  PROVE  wire' \in Seq(Items) /\ EndIsLast' /\ HalfIsLast'
<1>1. CASE client = "there" /\ More(items)
  <2>1. EndIsLast'
    BY <1>1, EndMoved
  <2>2. HalfIsLast'
    BY <1>1, HalfMoved
  <2> QED
    BY <1>1, <2>1, <2>2 DEF More
<1>2. CASE client = "stalled" /\ HalfMore
  <2>1. EndIsLast'
    BY <1>2, EndMoved
  <2>2. HalfIsLast'
    BY <1>2, HalfMoved
  <2> QED
    BY <1>2, <2>1, <2>2 DEF HalfMore
<1>3. CASE client = "gone" /\ wire' = wire
  <2>1. EndIsLast'
    BY <1>3, EndMoved
  <2>2. HalfIsLast'
    BY <1>3, HalfMoved
  <2> QED
    BY <1>3, <2>1, <2>2, WireTyped
<1> QED
  BY <1>1, <1>2, <1>3, Writes

\* The stream's opening event goes out before any keep-alive.
LEMMA OpenIInv == IInv /\ Open => IInv'
<1> SUFFICES ASSUME IInv, Open PROVE IInv'
  OBVIOUS
<1>1. TypeOK /\ Joins /\ Locked /\ Halted /\ Carried /\ Outgoing
  BY Parted
<1>2. /\ main.pc = "begin" /\ ask.opened /\ ask' = ask /\ up' = up /\ rest' = rest
      /\ usage' = usage /\ halt' = halt /\ lock' = lock /\ client' = client
  BY DEF Open
<1>3. \/ client = "there" /\ Goto("working") /\ ping' = [ping EXCEPT !["before"] = "waiting"]
      \/ client # "there" /\ Goto("left") /\ ping' = ping
  BY DEF Open
<1>4. PICK pc \in {"working", "left"} :
        Goto(pc) /\ (client = "there" <=> pc = "working")
  BY <1>3
<1>5. /\ main' \in Mains
      /\ main'.pc = pc /\ main'.next = main.next /\ main'.out = main.out
  BY <1>1, <1>4, Goes
<1>6. /\ ping' \in Pings /\ ping'["within"] = ping["within"]
      /\ \A q \in Pingers : ping'[q] = "writing" <=> ping[q] = "writing"
      /\ pc = "left" => ping' = ping
  <2>1. CASE ping' = ping
    BY <1>1, <2>1, Parts
  <2>2. CASE client = "there" /\ ping' = [ping EXCEPT !["before"] = "waiting"]
    <3>1. /\ ping' \in Pings /\ ping'["before"] = "waiting"
          /\ \A q \in Pingers \ {"before"} : ping'[q] = ping[q]
      BY <1>1, <2>2, PingGoes DEF Pingers, PingPcs
    <3>2. ping["before"] = "off"
      BY <1>1, <1>2 DEF Halted
    <3> QED
      BY <1>4, <2>2, <3>1, <3>2 DEF Pingers
  <2> QED
    BY <1>3, <2>1, <2>2
<1>7. wire' \in Seq(Items) /\ EndIsLast' /\ HalfIsLast'
  <2> DEFINE items == IF ask.api = "anthropic" THEN <<Item("open")>> ELSE <<>>
  <2>1. wire' = Written(items)
    BY DEF Open
  <2>2. /\ items \in Seq(Items)
        /\ \A n \in 1..Len(items) : items[n] = Item("open")
    BY OwnTyped, EmptyTyped
  <2>3. Item("open").ev = "open" /\ Item("open").part = "whole"
    BY OwnTyped
  <2> HIDE DEF items
  <2>4. WholeFrames(items) /\ EndsLast(items) /\ WholeEvents(items)
    BY <2>2, <2>3 DEF WholeFrames, EndsLast, WholeEvents
  <2>5. ~Late
    BY <1>2 DEF Late
  <2> QED
    BY <1>1, <1>2, <2>1, <2>2, <2>4, <2>5, WriteKeeps DEF IInv, Follows
<1>8. TypeOK'
  BY <1>1, <1>2, <1>5, <1>6, <1>7, Parts, Typed
<1>9. (Joins /\ Carried /\ Outgoing)'
  BY <1>1, <1>2, <1>5 DEF Joins, Carried, Outgoing
<1>10. Locked'
  BY <1>1, <1>2, <1>5, <1>6 DEF Locked
<1>11. Halted'
  BY <1>1, <1>2, <1>5, <1>6 DEF Halted, Quiet
<1> QED
  BY <1>7, <1>8, <1>9, <1>10, <1>11 DEF IInv, Control

\* The backend is there, or refuses: a reply that was not opened ends with that.
LEMMA ConnectIInv == IInv /\ Connect => IInv'
<1> SUFFICES ASSUME IInv, Connect PROVE IInv'
  OBVIOUS
<1>1. TypeOK /\ Joins /\ Locked /\ Halted /\ Carried /\ Outgoing
  BY Parted
<1>2. /\ main.pc = "connect" /\ ask' = ask /\ up' = up /\ rest' = rest
      /\ usage' = usage /\ halt' = halt /\ lock' = lock /\ client' = client
  BY DEF Connect
<1>3. \/ Goto("reading") /\ ping' = [ping EXCEPT !["within"] = "waiting"] /\ wire' = wire
      \/ ask.opened /\ Goto("say") /\ ping' = ping /\ wire' = wire
      \/ /\ ~ask.opened /\ Goto("closed") /\ ping' = ping
         /\ wire' = Written(<<Item("error"), Item("end")>>)
  BY DEF Connect
<1>4. PICK pc \in {"reading", "say", "closed"} :
        /\ Goto(pc)
        /\ pc # "reading" => ping' = ping
        /\ pc = "reading" => ping' = [ping EXCEPT !["within"] = "waiting"]
        /\ pc # "closed" => wire' = wire
        /\ pc = "closed" => ~ask.opened /\ wire' = Written(<<Item("error"), Item("end")>>)
  BY <1>3
<1>5. /\ main' \in Mains
      /\ main'.pc = pc /\ main'.next = main.next /\ main'.out = main.out
  BY <1>1, <1>4, Goes
<1>6. /\ ping["within"] = "off" /\ Quiet("before")
      /\ ~ask.opened => ping["before"] = "off"
  BY <1>1, <1>2 DEF Halted
<1>7. /\ ping' \in Pings /\ ping'["before"] = ping["before"]
      /\ \A q \in Pingers : ping'[q] = "writing" <=> ping[q] = "writing"
  <2>1. CASE pc # "reading"
    BY <1>1, <1>4, <2>1, Parts
  <2>2. CASE pc = "reading"
    <3>1. /\ ping' \in Pings /\ ping'["within"] = "waiting"
          /\ \A q \in Pingers \ {"within"} : ping'[q] = ping[q]
      BY <1>1, <1>4, <2>2, PingGoes DEF Pingers, PingPcs
    <3> QED
      BY <1>6, <3>1 DEF Pingers
  <2> QED
    BY <2>1, <2>2
<1>8. wire' \in Seq(Items) /\ EndIsLast' /\ HalfIsLast'
  <2>1. CASE pc # "closed"
    <3>1. wire' = wire /\ ~Late /\ main.pc # "closed"
      BY <1>2, <1>4, <2>1 DEF Late
    <3>2. EndIsLast'
      BY <1>1, <3>1, EndMoved DEF IInv
    <3>3. HalfIsLast'
      BY <1>1, <1>2, <3>1, HalfMoved DEF IInv
    <3> QED
      BY <1>1, <3>1, <3>2, <3>3, WireTyped
  <2>2. CASE pc = "closed"
    <3> DEFINE items == <<Item("error"), Item("end")>>
    <3>1. wire' = Written(items)
      BY <1>4, <2>2
    <3>2. /\ items \in Seq(Items) /\ Len(items) = 2
          /\ items[1] = Item("error") /\ items[2] = Item("end")
      BY OwnTyped
    <3>3. Item("error").ev = "error" /\ Item("end").ev = "end"
      BY OwnTyped
    <3> HIDE DEF items
    <3>4. \A n \in 1..Len(items) : n = 1 \/ n = 2
      BY <3>2
    <3>5. WholeFrames(items) /\ EndsLast(items)
      BY <1>5, <2>2, <3>2, <3>3, <3>4 DEF WholeFrames, EndsLast
    <3>6. ~Late /\ ~ask.opened /\ main.pc # "closed"
      BY <1>2, <1>4, <2>2 DEF Late
    <3> QED
      BY <1>1, <1>2, <3>1, <3>2, <3>5, <3>6, WriteKeeps DEF IInv
  <2> QED
    BY <2>1, <2>2
<1>9. TypeOK'
  BY <1>1, <1>2, <1>5, <1>7, <1>8, Parts, Typed
<1>10. (Joins /\ Carried /\ Outgoing)'
  BY <1>1, <1>2, <1>5 DEF Joins, Carried, Outgoing
<1>11. Locked'
  BY <1>1, <1>2, <1>5, <1>7 DEF Locked
<1>12. Halted'
  <2>1. pc = "closed" => lock = "free"
    <3>1. pc = "closed" => \A q \in Pingers : ping[q] = "off"
      BY <1>4, <1>6 DEF Pingers
    <3>2. lock \in Pingers \cup {"free", "main"} /\ lock # "main"
      BY <1>1, <1>2, Parts DEF Locked
    <3> QED
      BY <1>1, <3>1, <3>2 DEF Locked
  <2>2. pc # "reading" => ping'["within"] = "off"
    BY <1>4, <1>6
  <2> QED
    BY <1>1, <1>2, <1>5, <1>6, <1>7, <2>1, <2>2 DEF Halted, Quiet
<1> QED
  BY <1>8, <1>9, <1>10, <1>11, <1>12 DEF IInv, Control

\* What Put does besides writing: the lock goes back, and the handler goes on,
\* out, or waits for the keep-alive it told to stop.
LEMMA PutControl ==
  ASSUME IInv, NEW items \in Seq(Items), NEW next \in {"reading", "done", "closed"},
         Put(items, next), main.pc \in {"putting", "ending"},
         next = "closed" => main.pc = "ending", wire' \in Seq(Items)
  PROVE  Control' /\ (client = "there" => main'.pc = next)
         /\ (client = "gone" => main'.pc = "left")
<1>1. TypeOK /\ Joins /\ Locked /\ Halted /\ Carried /\ Outgoing
  BY Parted
<1>2. /\ lock' = "free" /\ ask' = ask /\ up' = up /\ rest' = rest /\ usage' = usage
      /\ ping' = ping /\ client' = client
  BY DEF Put
<1>3. client \in {"there", "stalled", "gone"}
  BY <1>1, Parts
<1>4. /\ client = "there" => Goto(next) /\ halt' = halt
      /\ client = "gone" => Goto("left") /\ halt' = [halt EXCEPT !["within"] = TRUE]
      /\ client = "stalled" => Await("within", "say") /\ halt' = [halt EXCEPT !["within"] = TRUE]
  BY DEF Put
<1>5. /\ main' \in Mains /\ main'.out \in Seq(HalfItems \cup WholeItems)
      /\ client = "there" => main'.pc = next
      /\ client = "gone" => main'.pc = "left"
      /\ client = "stalled" => main'.pc = "join" /\ main'.next = "say" /\ main'.waits = "within"
  <2>1. CASE client = "stalled"
    <3>1. /\ main' \in Mains /\ main'.out = <<>>
          /\ main'.pc = "join" /\ main'.next = "say" /\ main'.waits = "within"
      BY <1>4, <2>1, Awaits DEF Pingers
    <3> QED
      BY <2>1, <3>1, EmptyTyped
  <2>2. CASE client = "there"
    <3>1. main' \in Mains /\ main'.out = main.out /\ main'.pc = next
      BY <1>1, <1>4, <2>2, Goes
    <3> QED
      BY <1>1, <2>2, <3>1 DEF Carried
  <2>3. CASE client = "gone"
    <3>1. main' \in Mains /\ main'.out = main.out /\ main'.pc = "left"
      BY <1>1, <1>4, <2>3, Goes
    <3> QED
      BY <1>1, <2>3, <3>1 DEF Carried
  <2> QED
    BY <1>3, <2>1, <2>2, <2>3
<1>6. /\ halt' \in [Pingers -> BOOLEAN] /\ \A q \in Pingers : halt[q] => halt'[q]
      /\ client = "stalled" => halt'["within"]
  <2>1. CASE halt' = halt /\ client # "stalled"
    BY <1>1, <2>1, Parts
  <2>2. CASE halt' = [halt EXCEPT !["within"] = TRUE]
    BY <1>1, <2>2, Halts DEF Pingers
  <2> QED
    BY <1>3, <1>4, <2>1, <2>2
<1>7. TypeOK'
  BY <1>1, <1>2, <1>5, <1>6, Parts, Typed
<1>8. (Joins /\ Outgoing)'
  BY <1>3, <1>5, <1>6 DEF Joins, Outgoing
<1>9. Carried'
  BY <1>1, <1>2, <1>5 DEF Carried
<1>10. Locked'
  <2>1. \A q \in Pingers : q # "free" /\ q # "main"
    BY DEF Pingers
  <2>2. lock = "main"
    BY <1>1 DEF Locked
  <2> QED
    BY <1>1, <1>2, <1>3, <1>5, <2>1, <2>2 DEF Locked
<1>11. Halted'
  BY <1>1, <1>2, <1>3, <1>5, <1>6 DEF Halted, Quiet, Pingers
<1> QED
  BY <1>5, <1>7, <1>8, <1>9, <1>10, <1>11 DEF Control

\* A piece goes out.
LEMMA PutPieceIInv == IInv /\ PutPiece => IInv'
<1> SUFFICES ASSUME IInv, PutPiece PROVE IInv'
  OBVIOUS
<1>1. TypeOK /\ Joins /\ Locked /\ Halted /\ Carried /\ Outgoing
  BY Parted
<1> DEFINE items == main.out
           next == main.next
<1>2. /\ main.pc = "putting" /\ Put(items, next) /\ next \in {"reading", "done"}
      /\ ask' = ask /\ wire' = Written(items)
  BY <1>1 DEF PutPiece, Put, Joins
<1>3. items \in Seq(HalfItems \cup WholeItems) /\ items \in Seq(Items)
  BY <1>1, ItemsTyped DEF Carried
<1>4. ask.opened => IF next = "reading" THEN items \in Seq(WholeItems) ELSE Len(items) <= 1
  BY <1>1, <1>2 DEF Outgoing
<1>5. client = "there" => main'.pc = next
  <2>1. client = "there" => Goto(next)
    BY <1>2 DEF Put
  <2> QED
    BY <1>1, <1>2, <2>1, Goes
<1> HIDE DEF items
<1>6. WholeFrames(items) /\ EndsLast(items)
  <2>1. \A n \in 1..Len(items) : items[n] \in HalfItems \cup WholeItems
    BY <1>3
  <2>2. \A x \in HalfItems \cup WholeItems : x.ev # "half a frame" /\ x.ev # "end"
    BY DEF HalfItems, WholeItems, Sent
  <2> QED
    BY <2>1, <2>2 DEF WholeFrames, EndsLast
<1>7. ~Late /\ main.pc # "closed"
  BY <1>2 DEF Late
<1>8. client = "there" /\ ask.opened => Follows(items)
  <2>1. CASE next = "reading" /\ ask.opened
    <3>1. \A n \in 1..Len(items) : items[n] \in WholeItems
      BY <1>4, <2>1
    <3>2. \A x \in WholeItems : x.part = "whole"
      BY DEF WholeItems
    <3> QED
      BY <1>7, <3>1, <3>2 DEF Follows, WholeEvents
  <2>2. CASE next = "done" /\ ask.opened /\ client = "there"
    <3>1. main'.pc = "done"
      BY <2>2, <1>5
    <3> QED
      BY <1>4, <1>7, <2>2, <3>1 DEF Follows, Late
  <2> QED
    BY <1>2, <2>1, <2>2
<1>9. wire' \in Seq(Items) /\ EndIsLast' /\ HalfIsLast'
  BY <1>1, <1>2, <1>3, <1>6, <1>7, <1>8, WriteKeeps DEF IInv
<1>10. Control'
  BY <1>2, <1>3, <1>9, PutControl
<1> QED
  BY <1>9, <1>10 DEF IInv

\* The end goes out, with the keep-alives quiet.
LEMMA PutEndIInv == IInv /\ PutEnd => IInv'
<1> SUFFICES ASSUME IInv, PutEnd PROVE IInv'
  OBVIOUS
<1>1. TypeOK /\ Joins /\ Locked /\ Halted /\ Carried /\ Outgoing
  BY Parted
<1> DEFINE items == <<Item("end")>>
<1>2. /\ main.pc = "ending" /\ Put(items, "closed")
      /\ ask' = ask /\ wire' = Written(items)
  BY DEF PutEnd, Put
<1>3. items \in Seq(Items) /\ Len(items) = 1 /\ items[1] = Item("end")
  BY OwnTyped
<1>4. Item("end").ev = "end" /\ Item("end").part = "whole"
  BY OwnTyped
<1> HIDE DEF items
<1>5. /\ client = "there" => main'.pc = "closed"
      /\ client = "gone" => main'.pc = "left"
      /\ client = "stalled" => main'.pc = "join"
  <2>1. /\ client = "there" => Goto("closed")
        /\ client = "gone" => Goto("left")
        /\ client = "stalled" => Await("within", "say")
    BY <1>2 DEF Put
  <2>2. client = "there" => main'.pc = "closed"
    BY <1>1, <2>1, Goes
  <2>3. client = "gone" => main'.pc = "left"
    BY <1>1, <2>1, Goes
  <2>4. client = "stalled" => main'.pc = "join"
    BY <2>1, Awaits DEF Pingers
  <2> QED
    BY <2>2, <2>3, <2>4
<1>6. \A n \in 1..Len(items) : items[n] = Item("end") /\ n = Len(items)
  BY <1>3
<1>7. main.pc # "closed"
  BY <1>2
<1>8. CASE client = "there"
  <2>1. WholeFrames(items) /\ EndsLast(items) /\ WholeEvents(items) /\ NoEvents(items)
    BY <1>4, <1>5, <1>6, <1>8 DEF WholeFrames, EndsLast, WholeEvents, NoEvents
  <2>2. Late'
    BY <1>5, <1>8 DEF Late
  <2>3. wire' \in Seq(Items) /\ EndIsLast' /\ HalfIsLast'
    BY <1>1, <1>2, <1>3, <1>7, <2>1, <2>2, WriteKeeps DEF IInv, Follows
  <2>4. Control'
    BY <1>2, <1>3, <2>3, PutControl
  <2> QED
    BY <2>3, <2>4 DEF IInv
<1>9. CASE client # "there"
  <2>1. (client = "stalled" /\ HalfMore) \/ (client = "gone" /\ wire' = wire)
    BY <1>1, <1>2, <1>3, <1>9, Writes
  <2>2. client = "gone" => Late'
    BY <1>5 DEF Late
  <2>3. EndIsLast'
    BY <1>1, <1>7, <2>1, EndMoved DEF IInv
  <2>4. HalfIsLast'
    BY <1>1, <1>2, <2>1, <2>2, HalfMoved DEF IInv
  <2>5. wire' \in Seq(Items)
    BY <1>1, <2>1, WireTyped DEF HalfMore
  <2>6. Control'
    BY <1>2, <1>3, <2>5, PutControl
  <2> QED
    BY <2>3, <2>4, <2>6 DEF IInv
<1> QED
  BY <1>8, <1>9

\* An error and the end go out, with the keep-alives quiet.
LEMMA SayAndEndIInv == IInv /\ SayAndEnd => IInv'
<1> SUFFICES ASSUME IInv, SayAndEnd PROVE IInv'
  OBVIOUS
<1>1. TypeOK /\ Joins /\ Locked /\ Halted /\ Carried /\ Outgoing
  BY Parted
<1> DEFINE items == <<Item("error"), Item("end")>>
<1>2. /\ main.pc = "saying" /\ lock' = "free" /\ Goto("closed")
      /\ ask' = ask /\ up' = up /\ rest' = rest /\ usage' = usage /\ ping' = ping
      /\ halt' = halt /\ client' = client /\ wire' = Written(items)
  BY DEF SayAndEnd
<1>3. /\ items \in Seq(Items) /\ Len(items) = 2
      /\ items[1] = Item("error") /\ items[2] = Item("end")
  BY OwnTyped
<1>4. /\ Item("error").ev = "error" /\ Item("error").part = "whole"
      /\ Item("end").ev = "end" /\ Item("end").part = "whole"
  BY OwnTyped
<1> HIDE DEF items
<1>5. /\ main' \in Mains
      /\ main'.pc = "closed" /\ main'.next = main.next /\ main'.out = main.out
  BY <1>1, <1>2, Goes
<1>6. \A n \in 1..Len(items) : n = 1 \/ n = 2
  BY <1>3
<1>7. WholeFrames(items) /\ EndsLast(items) /\ WholeEvents(items)
  BY <1>3, <1>4, <1>5, <1>6 DEF WholeFrames, EndsLast, WholeEvents
<1>8. ~Late /\ main.pc # "closed"
  BY <1>2 DEF Late
<1>9. wire' \in Seq(Items) /\ EndIsLast' /\ HalfIsLast'
  BY <1>1, <1>2, <1>3, <1>7, <1>8, WriteKeeps DEF IInv, Follows
<1>10. TypeOK'
  BY <1>1, <1>2, <1>5, <1>9, Parts, Typed
<1>11. (Joins /\ Carried /\ Outgoing)'
  BY <1>1, <1>2, <1>5 DEF Joins, Carried, Outgoing
<1>12. Locked'
  <2>1. \A q \in Pingers : q # "free" /\ q # "main"
    BY DEF Pingers
  <2>2. lock = "main"
    BY <1>1, <1>2 DEF Locked
  <2> QED
    BY <1>1, <1>2, <1>5, <2>1, <2>2 DEF Locked
<1>13. Halted'
  BY <1>1, <1>2, <1>5 DEF Halted, Quiet
<1> QED
  BY <1>9, <1>10, <1>11, <1>12, <1>13 DEF IInv, Control

\* A keep-alive goes out; the handler has not ended the stream.
LEMMA BeatIInv ==
  ASSUME IInv, NEW p \in Pingers, Beat(p)
  PROVE  IInv'
<1>1. TypeOK /\ Joins /\ Locked /\ Halted /\ Carried /\ Outgoing
  BY Parted
<1> DEFINE items == <<Item("ping")>>
<1>2. /\ ping[p] = "writing" /\ lock' = "free" /\ ask' = ask /\ main' = main /\ up' = up
      /\ rest' = rest /\ usage' = usage /\ halt' = halt /\ client' = client
      /\ wire' = Written(items)
  BY DEF Beat
<1>3. items \in Seq(Items) /\ Len(items) = 1 /\ items[1] = Item("ping")
  BY OwnTyped
<1>4. Item("ping").ev = "ping" /\ Item("ping").part = "whole"
  BY OwnTyped
<1> HIDE DEF items
<1>5. lock = p /\ p # "free" /\ p # "main"
  BY <1>1, <1>2 DEF Locked, Pingers
<1>6. main.pc # "closed"
  BY <1>1, <1>5 DEF Halted
<1>7. \A n \in 1..Len(items) : items[n] = Item("ping")
  BY <1>3
<1>8. WholeFrames(items) /\ EndsLast(items) /\ WholeEvents(items) /\ NoEvents(items)
  BY <1>4, <1>7 DEF WholeFrames, EndsLast, WholeEvents, NoEvents
<1>9. Late <=> Late'
  BY <1>2 DEF Late
<1>10. wire' \in Seq(Items) /\ EndIsLast' /\ HalfIsLast'
  BY <1>1, <1>2, <1>3, <1>6, <1>8, <1>9, WriteKeeps DEF IInv, Follows
<1>11. PICK pc \in {"waiting", "dead"} : ping' = [ping EXCEPT ![p] = pc]
  BY DEF Beat
<1>12. ping' \in Pings /\ ping'[p] = pc /\ \A q \in Pingers \ {p} : ping'[q] = ping[q]
  <2>1. pc \in PingPcs
    BY DEF PingPcs
  <2> QED
    BY <1>1, <1>11, <2>1, PingGoes
<1>13. TypeOK'
  BY <1>1, <1>2, <1>10, <1>12, Parts, Typed
<1>14. (Joins /\ Carried /\ Outgoing)'
  BY <1>1, <1>2, <1>12 DEF Joins, Carried, Outgoing, Pingers
<1>15. Locked'
  <2>1. \A q \in Pingers : q # "free" /\ q # "main"
    BY DEF Pingers
  <2> QED
    BY <1>1, <1>2, <1>5, <1>12, <2>1 DEF Locked
<1>16. Halted'
  <2>1. \A q \in Pingers : (ping[q] = "off" => ping'[q] = "off") /\ (Quiet(q) => Quiet(q)')
    BY <1>2, <1>12 DEF Quiet
  <2> QED
    BY <1>1, <1>2, <1>6, <2>1 DEF Halted, Pingers
<1> QED
  BY <1>10, <1>13, <1>14, <1>15, <1>16 DEF IInv, Control

-------------------------------------------------------------------------------
\* Every step keeps the invariant.
LEMMA NextIInv == IInv /\ [Next]_vars => IInv'
<1> SUFFICES ASSUME IInv, [Next]_vars PROVE IInv'
  OBVIOUS
<1>1. CASE MainStep
  BY <1>1, OpenIInv, NotOpenedIInv, WorkIInv, JoinedIInv, ConnectIInv, ReadIInv,
     ReadEndIInv, StopIInv, LockIInv, PutPieceIInv, PutEndIInv, SayAndEndIInv DEF MainStep
<1>2. ASSUME NEW p \in Pingers, PingStep(p) PROVE IInv'
  BY <1>2, PingIInv, BeatIInv DEF PingStep
<1>3. CASE Leave \/ Stall \/ Resume
  BY <1>3, ClientIInv
<1>4. CASE UNCHANGED vars
  <2>1. /\ ask' = ask /\ main' = main /\ up' = up /\ rest' = rest /\ usage' = usage
        /\ ping' = ping /\ halt' = halt /\ lock' = lock /\ client' = client /\ wire' = wire
    BY <1>4 DEF vars
  <2>2. TypeOK /\ Joins /\ Locked /\ Halted /\ Carried /\ Outgoing
    BY Parted
  <2>3. TypeOK'
    BY <2>1, <2>2, Parts, WireTyped, Typed
  <2>4. (Joins /\ Locked /\ Halted /\ Carried /\ Outgoing)'
    BY <2>1, <2>2 DEF Joins, Locked, Halted, Quiet, Carried, Outgoing
  <2>5. Late => Late'
    BY <2>1 DEF Late
  <2> QED
    BY <2>1, <2>3, <2>4, <2>5, Silent DEF Control
<1> QED
  BY <1>1, <1>2, <1>3, <1>4 DEF Next

\* The inductive invariant holds throughout.
THEOREM Invariant == Spec => []IInv
  BY InitIInv, NextIInv, PTL DEF Spec

\* Every variable keeps its type, and a splice keeps at most half an event,
\* however the backend's pieces cut its events.
THEOREM ReplyTyped == Spec => []TypeOK
<1>1. IInv => TypeOK
  BY DEF IInv, Control
<1> QED
  BY <1>1, Invariant, PTL

\* What a client reads is the wire, up to half a frame.
LEMMA ReadableIs ==
  ASSUME TypeOK
  PROVE  /\ Readable \in Seq(Items)
         /\ \A i \in 1..Len(Readable) : Shown(i) /\ Readable[i] = wire[i]
<1>1. wire \in Seq(Items) /\ Len(wire) \in Nat
  BY WireTyped
<1>2. CASE ~Cut
  <2>1. Readable = wire
    BY <1>2 DEF Cut, Readable
  <2>2. \A i \in 1..Len(wire) : Shown(i)
    <3>1. \A i \in 1..Len(wire) : \A j \in 1..i : j \in 1..Len(wire)
      BY <1>1
    <3> QED
      BY <1>2, <3>1 DEF Cut, Shown
  <2> QED
    BY <1>1, <2>1, <2>2
<1>3. CASE Cut
  <2> DEFINE C == {i \in 1..Len(wire) : wire[i].ev = "half a frame"}
             first == CHOOSE x \in C : \A y \in C : x <= y
  <2>1. PICK c \in C : \A d \in C : c <= d
    <3>1. C # {}
      BY <1>3 DEF Cut
    <3>2. C \subseteq 1..Len(wire)
      OBVIOUS
    <3> HIDE DEF C
    <3>3. C \in SUBSET Nat
      BY <1>1, <3>2
    <3> QED
      BY <3>1, <3>3, LeastOf
  <2>2. first \in C /\ \A d \in C : first <= d
    BY <2>1
  <2>3. SelectInSeq(wire, LAMBDA w : w.ev = "half a frame") = first
    <3>1. C # {}
      BY <2>1
    <3> QED
      BY <3>1 DEF SelectInSeq, Min
  <2>4. Readable = SubSeq(wire, 1, first - 1)
    BY <1>3, <2>3 DEF Readable, Cut
  <2>5. first \in 1..Len(wire)
    BY <2>2
  <2>6. ASSUME NEW i \in 1..(first - 1) PROVE Shown(i)
    <3>1. \A j \in 1..i : j \in 1..Len(wire) => ~(wire[j].ev = "half a frame")
      <4>1. \A j \in 1..Len(wire) : wire[j].ev = "half a frame" => j \in C
        OBVIOUS
      <4> HIDE DEF C, first
      <4>2. \A j \in 1..i : ~(first <= j)
        BY <1>1, <2>5
      <4> QED
        BY <2>2, <4>1, <4>2
    <3> HIDE DEF C, first
    <3>2. i \in 1..Len(wire) /\ \A j \in 1..i : j \in 1..Len(wire)
      BY <1>1, <2>5
    <3> QED
      BY <3>1, <3>2 DEF Shown
  <2> HIDE DEF first, C
  <2>7. /\ Readable \in Seq(Items) /\ Len(Readable) = first - 1
        /\ \A i \in 1..(first - 1) : Readable[i] = wire[i]
    BY <1>1, <2>4, <2>5
  <2> QED
    BY <2>6, <2>7
<1> QED
  BY <1>2, <1>3

\* On a stream the router opened, no keep-alive, error or other event comes
\* inside an event: only what the backend never ended is left open, at the end.
THEOREM EventsWhole == Spec => []EventsStayWhole
<1>1. IInv => EventsStayWhole
  <2> SUFFICES ASSUME IInv, ask.opened, NEW i \in 1..Len(Readable),
                      Readable[i].part # "whole", NEW j \in (i + 1)..Len(Readable)
               PROVE  Readable[j].ev \in {"ping", "end"}
    BY DEF EventsStayWhole
  <2>1. TypeOK /\ HalfIsLast
    BY DEF IInv, Control
  <2>2. Readable \in Seq(Items)
    BY <2>1, ReadableIs
  <2>3. j \in 1..Len(Readable)
    BY <2>2
  <2>4. /\ Shown(i) /\ Readable[i] = wire[i]
        /\ Shown(j) /\ Readable[j] = wire[j]
    BY <2>1, <2>3, ReadableIs
  <2>5. i \in 1..Len(wire) /\ j \in (i + 1)..Len(wire)
    <3>1. i \in 1..Len(wire) /\ j \in 1..Len(wire)
      BY <2>4 DEF Shown
    <3> QED
      BY <2>1, <3>1, WireTyped
  <2> QED
    BY <2>1, <2>4, <2>5 DEF HalfIsLast
<1> QED
  BY <1>1, Invariant, PTL

\* Nothing follows the end of a stream, whoever holds a write up and whenever
\* the keep-alives wake.
THEOREM NothingFollowsTheEnd == Spec => []NothingAfterEnd
<1>1. IInv => NothingAfterEnd
  <2> SUFFICES ASSUME IInv, NEW i \in 1..Len(Readable), Readable[i].ev = "end"
               PROVE  i = Len(wire)
    BY DEF NothingAfterEnd
  <2>1. i \in 1..Len(wire) /\ Readable[i] = wire[i]
    BY ReadableIs DEF IInv, Control, Shown
  <2> QED
    BY <2>1 DEF IInv, EndIsLast
<1> QED
  BY <1>1, Invariant, PTL

-------------------------------------------------------------------------------
\* The events in what is written.

\* f[n] is the events of the first n items of s.
IsEvents(f, s) ==
    /\ f \in [0..Len(s) -> Seq(Names)]
    /\ f[0] = <<>>
    /\ \A n \in 1..Len(s) : f[n] = f[n - 1] \o EventOf(s[n])

\* An item is one event or none.
LEMMA EventTyped ==
  ASSUME NEW w \in Items
  PROVE  EventOf(w) \in Seq(Names)
<1>1. w.ev \in Names
  BY DEF Items
<1>2. <<w.ev>> \in Seq(Names) /\ <<>> \in Seq(Names)
  BY <1>1
<1> QED
  BY <1>2 DEF EventOf

\* The function EventsOf is the end of exists.
LEMMA EventsExist ==
  ASSUME NEW s \in Seq(Items)
  PROVE  \E f : IsEvents(f, s) /\ f[Len(s)] = EventsOf(s)
<1> DEFINE k == Len(s)
           X == Seq(Names)
           step == [n \in 1..k |-> [v \in X |-> v \o EventOf(s[n])]]
           Is(f) == f = [n \in 0..k |-> IF n = 0 THEN <<>> ELSE f[n - 1] \o EventOf(s[n])]
           h == CHOOSE f : Is(f)
<1>1. k \in Nat /\ \A n \in 1..k : s[n] \in Items
  OBVIOUS
<1>2. <<>> \in X /\ \A v \in X, n \in 1..k : v \o EventOf(s[n]) \in X
  <2>1. \A n \in 1..k : EventOf(s[n]) \in X
    BY <1>1, EventTyped
  <2> QED
    BY <2>1
<1>3. EventsOf(s) = h[k]
  BY DEF EventsOf
<1> HIDE DEF X, k
<1>4. step \in [1..k -> [X -> X]]
  BY <1>2
<1>5. ASSUME NEW n \in 1..k, NEW v \in X PROVE step[n][v] = v \o EventOf(s[n])
  OBVIOUS
<1> HIDE DEF step
<1>6. PICK f : Computes(f, X, k, <<>>, step)
  BY <1>1, <1>2, <1>4, RecursionExists
<1>7. \A n \in 1..k : f[n - 1] \in X /\ f[n] = f[n - 1] \o EventOf(s[n])
  <2> SUFFICES ASSUME NEW n \in 1..k PROVE f[n - 1] \in X /\ f[n] = f[n - 1] \o EventOf(s[n])
    OBVIOUS
  <2>1. f[n - 1] \in X
    BY <1>1, <1>6 DEF Computes
  <2> QED
    BY <1>5, <1>6, <2>1 DEF Computes
<1>8. Is(f)
  <2>1. \A n \in 0..k : f[n] = IF n = 0 THEN <<>> ELSE f[n - 1] \o EventOf(s[n])
    <3>1. f[0] = <<>> /\ \A n \in 0..k : n = 0 \/ n \in 1..k
      BY <1>1, <1>6 DEF Computes
    <3> QED
      BY <1>7, <3>1, Zenon
  <2> QED
    BY <1>6, <2>1 DEF Computes
<1>9. Is(h)
  <2> HIDE DEF Is
  <2> QED
    BY <1>8
<1> HIDE DEF h
<1>10. \A n \in 0..k : h[n] = IF n = 0 THEN <<>> ELSE h[n - 1] \o EventOf(s[n])
  BY <1>9, Zenon
<1>11. DOMAIN h = 0..k
  BY <1>9, Zenon
<1> DEFINE P == {n \in Nat : n \in 0..k => h[n] = f[n]}
<1>12. 0 \in P
  BY <1>1, <1>6, <1>10 DEF Computes
<1>13. ASSUME NEW n \in Nat, n \in P PROVE n + 1 \in P
  <2> SUFFICES ASSUME n + 1 \in 0..k PROVE h[n + 1] = f[n + 1]
    BY <1>13
  <2>1. h[n] = f[n] /\ n + 1 \in 1..k /\ (n + 1) - 1 = n /\ n + 1 # 0
    BY <1>1, <1>13
  <2>2. h[n + 1] = h[n] \o EventOf(s[n + 1])
    BY <1>10, <2>1
  <2>3. f[n + 1] = f[n] \o EventOf(s[n + 1])
    BY <1>7, <2>1
  <2> QED
    BY <2>1, <2>2, <2>3
<1>14. Nat \subseteq P
  <2> HIDE DEF P
  <2> QED
    BY <1>12, <1>13, SetInduction
<1>15. f[k] = h[k]
  BY <1>1, <1>14
<1> QED
  BY <1>3, <1>6, <1>7, <1>15 DEF IsEvents, Computes, X, k

\* The events of the same items are the same.
LEMMA EventsAgree ==
  ASSUME NEW s \in Seq(Items), NEW t \in Seq(Items), NEW f, NEW g,
         IsEvents(f, s), IsEvents(g, t),
         NEW m \in Nat, m <= Len(s), m <= Len(t), \A i \in 1..m : s[i] = t[i]
  PROVE  f[m] = g[m]
<1> DEFINE P == {n \in Nat : n <= m => f[n] = g[n]}
<1>1. 0 \in P
  BY DEF IsEvents
<1>2. ASSUME NEW n \in Nat, n \in P PROVE n + 1 \in P
  <2> SUFFICES ASSUME n + 1 <= m PROVE f[n + 1] = g[n + 1]
    BY <1>2
  <2>1. f[n] = g[n] /\ n + 1 \in 1..m /\ n + 1 \in 1..Len(s) /\ n + 1 \in 1..Len(t)
        /\ (n + 1) - 1 = n
    BY <1>2
  <2>2. f[n + 1] = f[n] \o EventOf(s[n + 1]) /\ g[n + 1] = g[n] \o EventOf(t[n + 1])
    BY <2>1 DEF IsEvents
  <2> QED
    BY <2>1, <2>2
<1>3. Nat \subseteq P
  <2> HIDE DEF P
  <2> QED
    BY <1>1, <1>2, SetInduction
<1> QED
  BY <1>3

\* No items, no events; one item more, its event more.
LEMMA EventsOfMore ==
  /\ EventsOf(<<>>) = <<>>
  /\ \A s \in Seq(Items) : EventsOf(s) \in Seq(Names)
  /\ \A s \in Seq(Items), w \in Items : EventsOf(Append(s, w)) = EventsOf(s) \o EventOf(w)
<1>1. EventsOf(<<>>) = <<>>
  <2>1. <<>> \in Seq(Items) /\ Len(<<>>) = 0
    OBVIOUS
  <2>2. PICK f : IsEvents(f, <<>>) /\ f[0] = EventsOf(<<>>)
    BY <2>1, EventsExist
  <2> QED
    BY <2>2 DEF IsEvents
<1>2. ASSUME NEW s \in Seq(Items) PROVE EventsOf(s) \in Seq(Names)
  <2>1. PICK f : IsEvents(f, s) /\ f[Len(s)] = EventsOf(s)
    BY EventsExist
  <2>2. Len(s) \in 0..Len(s)
    OBVIOUS
  <2> QED
    BY <2>1, <2>2 DEF IsEvents
<1>3. ASSUME NEW s \in Seq(Items), NEW w \in Items
      PROVE  EventsOf(Append(s, w)) = EventsOf(s) \o EventOf(w)
  <2> DEFINE t == Append(s, w)
  <2>1. /\ t \in Seq(Items) /\ Len(t) = Len(s) + 1 /\ t[Len(s) + 1] = w /\ Len(s) \in Nat
        /\ \A i \in 1..Len(s) : s[i] = t[i]
    OBVIOUS
  <2> HIDE DEF t
  <2>2. PICK f : IsEvents(f, s) /\ f[Len(s)] = EventsOf(s)
    BY EventsExist
  <2>3. PICK g : IsEvents(g, t) /\ g[Len(t)] = EventsOf(t)
    BY <2>1, EventsExist
  <2>4. f[Len(s)] = g[Len(s)]
    BY <2>1, <2>2, <2>3, EventsAgree
  <2>5. Len(s) + 1 \in 1..Len(t) /\ (Len(s) + 1) - 1 = Len(s)
    BY <2>1
  <2>6. g[Len(s) + 1] = g[Len(s)] \o EventOf(t[Len(s) + 1])
    BY <2>3, <2>5 DEF IsEvents
  <2> QED
    BY <2>1, <2>2, <2>3, <2>4, <2>6 DEF t
<1> QED
  BY <1>1, <1>2, <1>3

\* One sequence behind another, an element at a time.
LEMMA AppendLater ==
  ASSUME NEW S, NEW s \in Seq(S), NEW t \in Seq(S), NEW n \in Nat, n + 1 <= Len(t)
  PROVE  /\ SubSeq(t, 1, n + 1) = Append(SubSeq(t, 1, n), t[n + 1])
         /\ s \o SubSeq(t, 1, n + 1) = Append(s \o SubSeq(t, 1, n), t[n + 1])
         /\ SubSeq(t, 1, n) \in Seq(S) /\ s \o SubSeq(t, 1, n) \in Seq(S)
  OBVIOUS

\* The events of two sequences are those of the first and those of the second.
LEMMA EventsOfBoth ==
  ASSUME NEW s \in Seq(Items), NEW t \in Seq(Items)
  PROVE  EventsOf(s \o t) = EventsOf(s) \o EventsOf(t)
<1> DEFINE P == {n \in Nat : n <= Len(t) =>
                   EventsOf(s \o SubSeq(t, 1, n)) = EventsOf(s) \o EventsOf(SubSeq(t, 1, n))}
<1>1. 0 \in P
  <2>1. SubSeq(t, 1, 0) = <<>> /\ s \o <<>> = s
    OBVIOUS
  <2>2. EventsOf(s) \o <<>> = EventsOf(s)
    BY EventsOfMore
  <2> QED
    BY <2>1, <2>2, EventsOfMore
<1>2. ASSUME NEW n \in Nat, n \in P PROVE n + 1 \in P
  <2> SUFFICES ASSUME n + 1 <= Len(t)
               PROVE  EventsOf(s \o SubSeq(t, 1, n + 1))
                         = EventsOf(s) \o EventsOf(SubSeq(t, 1, n + 1))
    OBVIOUS
  <2> DEFINE u == SubSeq(t, 1, n)
             w == t[n + 1]
  <2>1. EventsOf(s \o u) = EventsOf(s) \o EventsOf(u)
    BY <1>2
  <2>2. /\ SubSeq(t, 1, n + 1) = Append(u, w) /\ s \o SubSeq(t, 1, n + 1) = Append(s \o u, w)
        /\ u \in Seq(Items) /\ s \o u \in Seq(Items)
    BY AppendLater
  <2>3. w \in Items
    OBVIOUS
  <2> HIDE DEF u, w
  <2>4. EventsOf(Append(u, w)) = EventsOf(u) \o EventOf(w)
        /\ EventsOf(Append(s \o u, w)) = EventsOf(s \o u) \o EventOf(w)
    BY <2>2, <2>3, EventsOfMore
  <2>5. EventsOf(s) \in Seq(Names) /\ EventsOf(u) \in Seq(Names) /\ EventOf(w) \in Seq(Names)
    BY <2>2, <2>3, EventsOfMore, EventTyped
  <2>6. (EventsOf(s) \o EventsOf(u)) \o EventOf(w) = EventsOf(s) \o (EventsOf(u) \o EventOf(w))
    BY <2>5
  <2> QED
    BY <2>1, <2>2, <2>4, <2>6
<1>3. Nat \subseteq P
  <2> HIDE DEF P
  <2> QED
    BY <1>1, <1>2, SetInduction
<1>4. Len(t) \in Nat /\ SubSeq(t, 1, Len(t)) = t
  OBVIOUS
<1>5. Len(t) \in P
  <2> HIDE DEF P
  <2> QED
    BY <1>3, <1>4
<1>6. EventsOf(s \o SubSeq(t, 1, Len(t))) = EventsOf(s) \o EventsOf(SubSeq(t, 1, Len(t)))
  BY <1>4, <1>5
<1> QED
  BY <1>4, <1>6

-------------------------------------------------------------------------------
\* What has been told of a reply, by how much of it the backend has sent.

\* The half that waits in the splice.
RestAt(u) == IF u % 2 = 1 THEN <<Halves[u]>> ELSE <<>>

\* The usage it holds after j events.
UsageAt(j) == IF ask.api = "openai" \/ j = 0 THEN "none" ELSE IF j <= 2 THEN "held" ELSE "moved"

\* How many events of the client's reply are out after j of the backend's: the
\* router's opening stands for a message_start, and a usage chunk nobody asked
\* for is left out.
OutAt(j) ==
    CASE ask.api = "anthropic" /\ ask.opened                -> IF j = 0 THEN 1 ELSE j
      [] ask.api = "openai" /\ ask.opened /\ ~ask.asked     -> IF j < 2 THEN j ELSE j - 1
      [] OTHER                                              -> j

\* The events of the reply that are out after u halves.
Told(u) == SubSeq(Reply, 1, OutAt(IF ask.opened THEN u \div 2 ELSE (u + 1) \div 2))

\* A reply, and as much of it as there is.
LEMMA ReplyIs ==
  ASSUME ask \in Asks
  PROVE  /\ Reply \in Seq(Names) /\ Len(Reply) \in Nat
         /\ ~ask.opened => Reply = Sends
         /\ OutAt(Len(Sends)) = Len(Reply)
         /\ \A j \in 0..Len(Sends) : OutAt(j) \in 0..Len(Reply)
<1>1. ask.api \in {"anthropic", "openai"} /\ ask.opened \in BOOLEAN /\ ask.asked \in BOOLEAN
  BY Parameters
<1> DEFINE a == <<"open", "text", "delta and usage", "stop">>
           b == <<"text", "done">>
           c == <<"start", "text", "delta", "stop">>
           d == <<"text", "usage", "done">>
<1>2. /\ a \in Seq(Names) /\ b \in Seq(Names) /\ c \in Seq(Names) /\ d \in Seq(Names)
      /\ Len(a) = 4 /\ Len(b) = 2 /\ Len(c) = 4 /\ Len(d) = 3
  BY DEF Names
<1>3. CASE ask.api = "anthropic" /\ ask.opened
  <2>1. Reply = a /\ Sends = c
    <3>1. Reply = a
      BY <1>3 DEF Reply
    <3>2. Sends = c
      BY <1>3 DEF Sends
    <3> QED
      BY <3>1, <3>2
  <2>2. \A j \in Nat : OutAt(j) = IF j = 0 THEN 1 ELSE j
    BY <1>3 DEF OutAt
  <2> HIDE DEF a, c
  <2>3. Len(Reply) = 4 /\ Len(Sends) = 4 /\ Reply \in Seq(Names)
    BY <1>2, <2>1
  <2> QED
    BY <1>3, <2>2, <2>3
<1>4. CASE ask.api = "openai" /\ ask.opened /\ ~ask.asked
  <2>1. Reply = b /\ Sends = d
    BY <1>4 DEF Reply, Sends
  <2>2. \A j \in Nat : OutAt(j) = IF j < 2 THEN j ELSE j - 1
    BY <1>4 DEF OutAt
  <2> HIDE DEF b, d
  <2>3. Len(Reply) = 2 /\ Len(Sends) = 3 /\ Reply \in Seq(Names)
    BY <1>2, <2>1
  <2> QED
    BY <1>4, <2>2, <2>3
<1>5. CASE ask.api = "openai" /\ ask.opened /\ ask.asked
  <2>1. Reply = d /\ Sends = d
    BY <1>5 DEF Reply, Sends
  <2>2. \A j \in Nat : OutAt(j) = j
    BY <1>5 DEF OutAt
  <2> HIDE DEF d
  <2>3. Len(Reply) = 3 /\ Len(Sends) = 3 /\ Reply \in Seq(Names)
    BY <1>2, <2>1
  <2> QED
    BY <1>5, <2>2, <2>3
<1>6. CASE ~ask.opened
  <2>1. Reply = Sends
    BY <1>6 DEF Reply
  <2>2. Sends \in Seq(Names) /\ Len(Sends) \in Nat
    <3>1. Sends \in {b, c, d}
      BY <1>1, <1>6 DEF Sends
    <3>2. CASE Sends = b
      BY <1>2, <3>2
    <3>3. CASE Sends = c
      BY <1>2, <3>3
    <3>4. CASE Sends = d
      BY <1>2, <3>4
    <3> QED
      BY <3>1, <3>2, <3>3, <3>4
  <2>3. \A j \in Nat : OutAt(j) = j
    BY <1>6 DEF OutAt
  <2> QED
    BY <1>6, <2>1, <2>2, <2>3
<1> QED
  BY <1>1, <1>3, <1>4, <1>5, <1>6

\* Which event a half is of.
LEMMA HalvesAre ==
  /\ Len(Halves) = 2 * Len(Sends) /\ Len(Sends) \in Nat
  /\ \A i \in 1..Len(Halves) :
       /\ Halves[i] \in HalfItems /\ Halves[i] \in Items
       /\ (i + 1) \div 2 \in 1..Len(Sends)
       /\ Halves[i].ev = Sends[(i + 1) \div 2] /\ Halves[i].ev \in Sent
       /\ Halves[i].part = IF i % 2 = 1 THEN "first" ELSE "second"
       /\ EventOf(Halves[i]) = IF i % 2 = 1 THEN <<Halves[i].ev>> ELSE <<>>
<1>1. Len(Sends) \in Nat /\ Len(Halves) = 2 * Len(Sends)
  BY SendsTyped DEF Halves
<1>2. ASSUME NEW i \in 1..Len(Halves)
      PROVE  /\ Halves[i] \in HalfItems /\ (i + 1) \div 2 \in 1..Len(Sends)
             /\ Halves[i].ev = Sends[(i + 1) \div 2]
             /\ Halves[i].part = IF i % 2 = 1 THEN "first" ELSE "second"
  <2>1. Halves[i] = [ev |-> Sends[(i + 1) \div 2], part |-> IF i % 2 = 1 THEN "first" ELSE "second"]
    BY <1>1 DEF Halves
  <2> QED
    BY <1>1, <2>1, HalvesTyped
<1>3. ASSUME NEW i \in 1..Len(Halves)
      PROVE  /\ Halves[i] \in Items /\ Halves[i].ev \in Sent
             /\ EventOf(Halves[i]) = IF i % 2 = 1 THEN <<Halves[i].ev>> ELSE <<>>
  <2>1. Halves[i] \in Items /\ Halves[i].ev \in Sent
    BY <1>2 DEF HalfItems, Items, Names, Sent
  <2> QED
    BY <1>2, <2>1 DEF EventOf, Sent
<1> QED
  BY <1>1, <1>2, <1>3

\* One more of a sequence.
LEMMA OneMore ==
  ASSUME NEW S, NEW q \in Seq(S), NEW n \in 1..Len(q)
  PROVE  SubSeq(q, 1, n) = SubSeq(q, 1, n - 1) \o <<q[n]>>
  OBVIOUS

\* A part of a sequence is one.
LEMMA PartTyped ==
  ASSUME NEW S, NEW q \in Seq(S), NEW n \in 0..Len(q)
  PROVE  /\ SubSeq(q, 1, n) \in Seq(S) /\ Len(SubSeq(q, 1, n)) = n
         /\ SubSeq(q, 1, n) \o <<>> = SubSeq(q, 1, n)
  OBVIOUS

\* On a stream that is passed on as it is, the events are those that have begun.
LEMMA HalvesTell ==
  ASSUME NEW m \in 0..Len(Halves)
  PROVE  EventsOf(SubSeq(Halves, 1, m)) = SubSeq(Sends, 1, (m + 1) \div 2)
<1> DEFINE P == {n \in Nat : n <= Len(Halves) =>
                   EventsOf(SubSeq(Halves, 1, n)) = SubSeq(Sends, 1, (n + 1) \div 2)}
<1>1. 0 \in P
  <2>1. SubSeq(Halves, 1, 0) = <<>> /\ SubSeq(Sends, 1, 0) = <<>> /\ (0 + 1) \div 2 = 0
    BY SendsTyped, HalvesTyped
  <2> QED
    BY <2>1, EventsOfMore
<1>2. ASSUME NEW n \in Nat, n \in P PROVE n + 1 \in P
  <2> SUFFICES ASSUME n + 1 <= Len(Halves)
               PROVE  EventsOf(SubSeq(Halves, 1, n + 1)) = SubSeq(Sends, 1, ((n + 1) + 1) \div 2)
    OBVIOUS
  <2> DEFINE u == SubSeq(Halves, 1, n)
             w == Halves[n + 1]
  <2>1. EventsOf(u) = SubSeq(Sends, 1, (n + 1) \div 2)
    BY <1>2, HalvesTyped
  <2>2. /\ n + 1 \in 1..Len(Halves) /\ w \in Items /\ w \in HalfItems
        /\ w.ev = Sends[((n + 1) + 1) \div 2] /\ ((n + 1) + 1) \div 2 \in 1..Len(Sends)
        /\ EventOf(w) = IF (n + 1) % 2 = 1 THEN <<w.ev>> ELSE <<>>
    BY HalvesAre
  <2>3. u \in Seq(HalfItems) /\ SubSeq(Halves, 1, n + 1) = Append(u, w)
    BY <2>2, HalvesTyped, AppendLater
  <2>4. u \in Seq(Items)
    BY <2>3, ItemsTyped
  <2> HIDE DEF u, w
  <2>5. EventsOf(SubSeq(Halves, 1, n + 1)) = SubSeq(Sends, 1, (n + 1) \div 2) \o EventOf(w)
    BY <2>1, <2>2, <2>3, <2>4, EventsOfMore
  <2>6. CASE (n + 1) % 2 = 1
    <3> DEFINE j == ((n + 1) + 1) \div 2
    <3>1. j \in 1..Len(Sends) /\ (n + 1) \div 2 = j - 1 /\ EventOf(w) = <<Sends[j]>>
      BY <2>2, <2>6
    <3> HIDE DEF j
    <3>2. SubSeq(Sends, 1, j) = SubSeq(Sends, 1, j - 1) \o <<Sends[j]>>
      BY <3>1, OneMore, SendsTyped
    <3> QED
      BY <2>5, <3>1, <3>2 DEF j
  <2>7. CASE (n + 1) % 2 # 1
    <3> DEFINE j == ((n + 1) + 1) \div 2
    <3>1. j \in 0..Len(Sends) /\ (n + 1) \div 2 = j /\ EventOf(w) = <<>>
      BY <2>2, <2>7
    <3> HIDE DEF j
    <3> QED
      BY <2>5, <3>1, PartTyped, SendsTyped DEF j
  <2> QED
    BY <2>6, <2>7
<1>3. Nat \subseteq P
  <2> HIDE DEF P
  <2> QED
    BY <1>1, <1>2, SetInduction
<1>4. m \in Nat /\ m <= Len(Halves)
  BY HalvesTyped
<1> QED
  BY <1>3, <1>4

\* What one event does on a stream the router opened: it is left out, or it is
\* the client's next.
LEMMA OneEvent ==
  ASSUME ask \in Asks, ask.opened, NEW j \in 1..Len(Sends)
  PROVE  /\ UsageAt(j) = Noted(Sends[j], UsageAt(j - 1))
         /\ \/ Passed(Sends[j], UsageAt(j - 1)) = <<>> /\ OutAt(j) = OutAt(j - 1)
            \/ /\ Passed(Sends[j], UsageAt(j - 1)) = <<Item(Reply[OutAt(j)])>>
               /\ OutAt(j) = OutAt(j - 1) + 1 /\ OutAt(j) \in 1..Len(Reply)
               /\ Reply[OutAt(j)] \in Names \ {"ping", "error", "end"}
<1>1. ask.api \in {"anthropic", "openai"} /\ ask.asked \in BOOLEAN
  BY Parameters
<1> DEFINE a == <<"open", "text", "delta and usage", "stop">>
           b == <<"text", "done">>
           c == <<"start", "text", "delta", "stop">>
           d == <<"text", "usage", "done">>
           Goal(ev, u, v, m, n) ==
              /\ v = Noted(ev, u)
              /\ \/ Passed(ev, u) = <<>> /\ n = m
                 \/ /\ Passed(ev, u) = <<Item(Reply[n])>>
                    /\ n = m + 1 /\ n \in 1..Len(Reply)
                    /\ Reply[n] \in Names \ {"ping", "error", "end"}
<1>2. CASE ask.api = "anthropic"
  <2>1. Reply = a /\ Sends = c
    <3>1. Reply = a
      BY <1>2 DEF Reply
    <3>2. Sends = c
      BY <1>2 DEF Sends
    <3> QED
      BY <3>1, <3>2
  <2>2. Len(c) = 4 /\ Len(a) = 4
    OBVIOUS
  <2>3. /\ OutAt(0) = 1 /\ OutAt(1) = 1 /\ OutAt(2) = 2 /\ OutAt(3) = 3 /\ OutAt(4) = 4
        /\ UsageAt(0) = "none" /\ UsageAt(1) = "held" /\ UsageAt(2) = "held"
        /\ UsageAt(3) = "moved" /\ UsageAt(4) = "moved"
    BY <1>2 DEF OutAt, UsageAt
  <2>4. /\ Sends[1] = "start" /\ Sends[2] = "text" /\ Sends[3] = "delta" /\ Sends[4] = "stop"
        /\ Reply[2] = "text" /\ Reply[3] = "delta and usage" /\ Reply[4] = "stop"
    BY <2>1
  <2> HIDE DEF a, c
  <2>5. j \in {1, 2, 3, 4} /\ Len(Reply) = 4
    BY <2>1, <2>2
  <2>6. /\ Passed("start", "none") = <<>> /\ Noted("start", "none") = "held"
        /\ Passed("text", "held") = <<Item("text")>> /\ Noted("text", "held") = "held"
        /\ Passed("delta", "held") = <<Item("delta and usage")>> /\ Noted("delta", "held") = "moved"
        /\ Passed("stop", "moved") = <<Item("stop")>> /\ Noted("stop", "moved") = "moved"
    BY <1>2 DEF Passed, Noted
  <2>7. {"text", "delta and usage", "stop"} \subseteq Names \ {"ping", "error", "end"}
    BY DEF Names
  <2>8. /\ Goal("start", "none", "held", OutAt(0), OutAt(1))
        /\ Goal("text", "held", "held", OutAt(1), OutAt(2))
        /\ Goal("delta", "held", "moved", OutAt(2), OutAt(3))
        /\ Goal("stop", "moved", "moved", OutAt(3), OutAt(4))
    <3>1. Goal("start", "none", "held", OutAt(0), OutAt(1))
      BY <2>3, <2>6
    <3>2. Goal("text", "held", "held", OutAt(1), OutAt(2))
      <4>1. "held" = Noted("text", "held")
        BY <2>6
      <4>2. Passed("text", "held") = <<Item(Reply[OutAt(2)])>>
        BY <2>3, <2>4, <2>6
      <4>3. OutAt(2) = OutAt(1) + 1 /\ OutAt(2) \in 1..Len(Reply)
        BY <2>3, <2>5
      <4>4. Reply[OutAt(2)] \in Names \ {"ping", "error", "end"}
        BY <2>3, <2>4, <2>7
      <4> QED
        BY <4>1, <4>2, <4>3, <4>4
    <3>3. Goal("delta", "held", "moved", OutAt(2), OutAt(3))
      <4>1. "moved" = Noted("delta", "held")
        BY <2>6
      <4>2. Passed("delta", "held") = <<Item(Reply[OutAt(3)])>>
        BY <2>3, <2>4, <2>6
      <4>3. OutAt(3) = OutAt(2) + 1 /\ OutAt(3) \in 1..Len(Reply)
        BY <2>3, <2>5
      <4>4. Reply[OutAt(3)] \in Names \ {"ping", "error", "end"}
        BY <2>3, <2>4, <2>7
      <4> QED
        BY <4>1, <4>2, <4>3, <4>4
    <3>4. Goal("stop", "moved", "moved", OutAt(3), OutAt(4))
      <4>1. "moved" = Noted("stop", "moved")
        BY <2>6
      <4>2. Passed("stop", "moved") = <<Item(Reply[OutAt(4)])>>
        BY <2>3, <2>4, <2>6
      <4>3. OutAt(4) = OutAt(3) + 1 /\ OutAt(4) \in 1..Len(Reply)
        BY <2>3, <2>5
      <4>4. Reply[OutAt(4)] \in Names \ {"ping", "error", "end"}
        BY <2>3, <2>4, <2>7
      <4> QED
        BY <4>1, <4>2, <4>3, <4>4
    <3> QED
      BY <3>1, <3>2, <3>3, <3>4
  <2> HIDE DEF Goal
  <2>9. Goal(Sends[j], UsageAt(j - 1), UsageAt(j), OutAt(j - 1), OutAt(j))
    <3>1. CASE j = 1
      <4>1. j - 1 = 0
        BY <3>1
      <4> QED
        BY <2>3, <2>4, <2>8, <3>1, <4>1
    <3>2. CASE j = 2
      <4>1. j - 1 = 1
        BY <3>2
      <4> QED
        BY <2>3, <2>4, <2>8, <3>2, <4>1
    <3>3. CASE j = 3
      <4>1. j - 1 = 2
        BY <3>3
      <4> QED
        BY <2>3, <2>4, <2>8, <3>3, <4>1
    <3>4. CASE j = 4
      <4>1. j - 1 = 3
        BY <3>4
      <4> QED
        BY <2>3, <2>4, <2>8, <3>4, <4>1
    <3> QED
      BY <2>5, <3>1, <3>2, <3>3, <3>4
  <2> QED
    BY <2>9 DEF Goal
<1>3. CASE ask.api = "openai"
  <2>1. Sends = d
    BY <1>3 DEF Sends
  <2>2. Len(d) = 3 /\ Len(b) = 2
    OBVIOUS
  <2>3. Sends[1] = "text" /\ Sends[2] = "usage" /\ Sends[3] = "done"
    BY <2>1
  <2>4. j \in {1, 2, 3}
    <3> HIDE DEF d
    <3> QED
      BY <2>1, <2>2
  <2>5. \A i : UsageAt(i) = "none"
    BY <1>3 DEF UsageAt
  <2>6. /\ Passed("text", "none") = <<Item("text")>> /\ Noted("text", "none") = "none"
        /\ Passed("usage", "none") = IF ask.asked THEN <<Item("usage")>> ELSE <<>>
        /\ Noted("usage", "none") = "none"
        /\ Passed("done", "none") = <<Item("done")>> /\ Noted("done", "none") = "none"
    BY <1>3 DEF Passed, Noted
  <2>7. {"text", "usage", "done"} \subseteq Names \ {"ping", "error", "end"}
    BY DEF Names
  <2>8. /\ Goal("text", "none", "none", OutAt(0), OutAt(1))
        /\ Goal("usage", "none", "none", OutAt(1), OutAt(2))
        /\ Goal("done", "none", "none", OutAt(2), OutAt(3))
    <3>1. CASE ask.asked
      <4>1. Reply = d
        BY <1>3, <2>1, <3>1 DEF Reply
      <4>2. OutAt(0) = 0 /\ OutAt(1) = 1 /\ OutAt(2) = 2 /\ OutAt(3) = 3
        BY <1>3, <3>1 DEF OutAt
      <4>3. Reply[1] = "text" /\ Reply[2] = "usage" /\ Reply[3] = "done"
        BY <4>1
      <4> HIDE DEF d, b
      <4>4. Len(Reply) = 3
        BY <2>2, <4>1
      <4> QED
        BY <2>6, <2>7, <3>1, <4>2, <4>3, <4>4
    <3>2. CASE ~ask.asked
      <4>1. Reply = b
        BY <1>3, <3>2 DEF Reply
      <4>2. OutAt(0) = 0 /\ OutAt(1) = 1 /\ OutAt(2) = 1 /\ OutAt(3) = 2
        BY <1>3, <3>2 DEF OutAt
      <4>3. Reply[1] = "text" /\ Reply[2] = "done"
        BY <4>1
      <4> HIDE DEF d, b
      <4>4. Len(Reply) = 2
        BY <2>2, <4>1
      <4> QED
        BY <2>6, <2>7, <3>2, <4>2, <4>3, <4>4
    <3> QED
      BY <3>1, <3>2
  <2> HIDE DEF Goal
  <2>9. Goal(Sends[j], UsageAt(j - 1), UsageAt(j), OutAt(j - 1), OutAt(j))
    <3>1. CASE j = 1
      <4>1. j - 1 = 0
        BY <3>1
      <4> QED
        BY <2>3, <2>5, <2>8, <3>1, <4>1
    <3>2. CASE j = 2
      <4>1. j - 1 = 1
        BY <3>2
      <4> QED
        BY <2>3, <2>5, <2>8, <3>2, <4>1
    <3>3. CASE j = 3
      <4>1. j - 1 = 2
        BY <3>3
      <4> QED
        BY <2>3, <2>5, <2>8, <3>3, <4>1
    <3> QED
      BY <2>4, <3>1, <3>2, <3>3
  <2> QED
    BY <2>9 DEF Goal
<1> QED
  BY <1>1, <1>2, <1>3

\* An item that says one event.
LEMMA OneItem ==
  ASSUME NEW e \in Names \ {"ping", "error", "end"}
  PROVE  /\ Item(e) \in Items /\ EventsOf(<<Item(e)>>) = <<e>>
<1> DEFINE w == Item(e)
<1>1. w \in Items /\ EventOf(w) = <<e>>
  BY DEF Item, Items, EventOf
<1> HIDE DEF w
<1>2. <<w>> = Append(<<>>, w) /\ <<>> \in Seq(Items)
  OBVIOUS
<1>3. EventsOf(<<w>>) = EventsOf(<<>>) \o EventOf(w)
  BY <1>1, <1>2, EventsOfMore
<1>4. <<>> \o <<e>> = <<e>>
  OBVIOUS
<1> QED
  BY <1>1, <1>3, <1>4, EventsOfMore DEF w

\* So an event tells the client the reply up to where it is.
LEMMA EventTells ==
  ASSUME ask \in Asks, ask.opened, NEW j \in 1..Len(Sends)
  PROVE  /\ Passed(Sends[j], UsageAt(j - 1)) \in Seq(Items)
         /\ SubSeq(Reply, 1, OutAt(j - 1)) \o EventsOf(Passed(Sends[j], UsageAt(j - 1)))
               = SubSeq(Reply, 1, OutAt(j))
<1> DEFINE p == Passed(Sends[j], UsageAt(j - 1))
<1>1. /\ Reply \in Seq(Names) /\ Len(Sends) \in Nat
      /\ OutAt(j) \in 0..Len(Reply) /\ OutAt(j - 1) \in 0..Len(Reply)
  BY ReplyIs, SendsTyped
<1>2. CASE p = <<>> /\ OutAt(j) = OutAt(j - 1)
  <2>1. SubSeq(Reply, 1, OutAt(j)) \o <<>> = SubSeq(Reply, 1, OutAt(j))
    BY <1>1, PartTyped
  <2>2. p \in Seq(Items) /\ EventsOf(p) = <<>>
    <3>1. <<>> \in Seq(Items)
      OBVIOUS
    <3> HIDE DEF p
    <3> QED
      BY <1>2, <3>1, EventsOfMore
  <2> HIDE DEF p
  <2> QED
    BY <1>2, <2>1, <2>2 DEF p
<1>3. CASE /\ p = <<Item(Reply[OutAt(j)])>>
           /\ OutAt(j) = OutAt(j - 1) + 1 /\ OutAt(j) \in 1..Len(Reply)
           /\ Reply[OutAt(j)] \in Names \ {"ping", "error", "end"}
  <2>1. EventsOf(p) = <<Reply[OutAt(j)]>> /\ Item(Reply[OutAt(j)]) \in Items
    BY <1>3, OneItem
  <2>2. p \in Seq(Items)
    <3> DEFINE w == Item(Reply[OutAt(j)])
    <3>1. p = <<w>> /\ w \in Items
      BY <1>3, <2>1
    <3> HIDE DEF p, w
    <3> QED
      BY <3>1
  <2>3. OutAt(j) - 1 = OutAt(j - 1)
    BY <1>1, <1>3
  <2>4. SubSeq(Reply, 1, OutAt(j)) = SubSeq(Reply, 1, OutAt(j) - 1) \o <<Reply[OutAt(j)]>>
    BY <1>1, <1>3, OneMore
  <2> HIDE DEF p
  <2> QED
    BY <2>1, <2>2, <2>3, <2>4 DEF p
<1> QED
  BY <1>2, <1>3, OneEvent

-------------------------------------------------------------------------------
\* Arithmetic of halves.
LEMMA HalfLess ==
  ASSUME NEW n \in Nat, NEW b \in Nat, 2 * b <= n
  PROVE  (n - 2 * b) \div 2 = n \div 2 - b /\ n \div 2 - b \in Nat
  OBVIOUS

\* An even number, and an odd one.
LEMMA Parity ==
  ASSUME NEW n \in Nat
  PROVE  /\ n % 2 = 1 => n = 2 * (n \div 2) + 1
         /\ n % 2 # 1 => n = 2 * (n \div 2)
         /\ n \div 2 \in Nat
  OBVIOUS

\* The end of a sequence: one element, or none.
LEMMA LastOne ==
  ASSUME NEW S, NEW q \in Seq(S), NEW n \in Nat
  PROVE  /\ n + 1 = Len(q) => SubSeq(q, n + 1, Len(q)) = <<q[n + 1]>>
         /\ n = Len(q) => SubSeq(q, n + 1, Len(q)) = <<>>
<1>1. ASSUME n = Len(q) PROVE SubSeq(q, n + 1, Len(q)) = <<>>
  <2>1. Len(SubSeq(q, n + 1, Len(q))) = 0 /\ SubSeq(q, n + 1, Len(q)) \in Seq(S)
    BY <1>1
  <2> QED
    BY <2>1
<1>2. ASSUME n + 1 = Len(q) PROVE SubSeq(q, n + 1, Len(q)) = <<q[n + 1]>>
  <2> DEFINE t == SubSeq(q, n + 1, Len(q))
             u == <<q[n + 1]>>
  <2>1. t \in Seq(S) /\ Len(t) = 1 /\ t[1] = q[n + 1]
    BY <1>2
  <2>2. q[n + 1] \in S
    BY <1>2
  <2>3. u \in Seq(S) /\ Len(u) = 1 /\ u[1] = q[n + 1]
    BY <2>2
  <2> HIDE DEF t, u
  <2>4. t = u
    BY <2>1, <2>3
  <2> QED
    BY <2>4 DEF t, u
<1> QED
  BY <1>1, <1>2

\* An element, and what is behind it.
LEMMA FromHere ==
  ASSUME NEW S, NEW q \in Seq(S), NEW m \in 1..Len(q), NEW n \in m..Len(q)
  PROVE  <<q[m]>> \o SubSeq(q, m + 1, n) = SubSeq(q, m, n)
  OBVIOUS

\* A part of a sequence, element by element.
LEMMA PartFrom ==
  ASSUME NEW S, NEW q \in Seq(S), NEW m \in Nat, NEW n \in m..Len(q)
  PROVE  /\ SubSeq(q, m + 1, n) \in Seq(S) /\ Len(SubSeq(q, m + 1, n)) = n - m
         /\ \A i \in 1..(n - m) : SubSeq(q, m + 1, n)[i] = q[m + i]
         /\ <<>> \o SubSeq(q, m + 1, n) = SubSeq(q, m + 1, n)
  OBVIOUS

\* Three sequences in a row.
LEMMA InARow ==
  ASSUME NEW S, NEW q \in Seq(S), NEW r \in Seq(S), NEW t \in Seq(S)
  PROVE  q \o (r \o t) = (q \o r) \o t
  OBVIOUS

\* The same of the halves of a reply.
LEMMA HalvesFrom ==
  ASSUME NEW m \in Nat, NEW n \in m..Len(Halves), Halves \in Seq(HalfItems)
  PROVE  /\ SubSeq(Halves, m + 1, n) \in Seq(HalfItems) /\ Len(SubSeq(Halves, m + 1, n)) = n - m
         /\ \A i \in 1..(n - m) : SubSeq(Halves, m + 1, n)[i] = Halves[m + i]
  BY PartFrom

\* The halves of a reply from event b + 1 on, up to half n.
AreHalves(all, b, n) ==
    /\ all \in Seq(HalfItems) /\ Len(all) = n - 2 * b
    /\ Len(all) \div 2 = n \div 2 - b /\ n \div 2 - b \in Nat
    /\ \A i \in 1..(n - 2 * b) : all[i] = Halves[2 * b + i]

\* The half that waits, and the piece behind it.
LEMMA Rejoined ==
  ASSUME NEW m \in 0..Len(Halves), NEW n \in m..Len(Halves), rest = RestAt(m),
         NEW piece, piece = SubSeq(Halves, m + 1, n), NEW all, all = rest \o piece,
         NEW b, b = m \div 2
  PROVE  /\ rest \in Seq(HalfItems) /\ piece \in Seq(HalfItems)
         /\ AreHalves(all, b, n)
<1>1. /\ m \in Nat /\ n \in Nat /\ b \in Nat /\ Len(Halves) = 2 * Len(Sends) /\ Len(Sends) \in Nat
      /\ n <= Len(Halves) /\ m <= n /\ 2 * b <= n /\ n \div 2 - b \in Nat
      /\ Len(Halves) \in Nat
  <2>1. Len(Halves) = 2 * Len(Sends) /\ Len(Sends) \in Nat /\ Len(Halves) \in Nat
    BY HalvesAre
  <2>2. m \in Nat /\ n \in Nat /\ n <= Len(Halves) /\ m <= n
    BY <2>1
  <2>3. b \in Nat /\ 2 * b <= m
    BY <2>2, Parity
  <2>4. 2 * b <= n
    BY <2>2, <2>3
  <2> QED
    BY <2>1, <2>2, <2>3, <2>4, HalfLess
<1>2. Halves \in Seq(HalfItems)
  BY HalvesTyped
<1>3. rest \in Seq(HalfItems) /\ SubSeq(Halves, m + 1, n) \in Seq(HalfItems)
  <2>1. ASSUME m % 2 = 1 PROVE Halves[m] \in HalfItems
    BY <1>1, <2>1, HalvesAre
  <2>2. ASSUME NEW w \in HalfItems PROVE <<w>> \in Seq(HalfItems)
    OBVIOUS
  <2>3. rest \in Seq(HalfItems)
    BY <2>1, <2>2 DEF RestAt
  <2> QED
    BY <1>1, <1>2, <2>3
<1>4. all = SubSeq(Halves, 2 * b + 1, n)
  <2>1. CASE m % 2 = 1
    <3>1. rest = <<Halves[m]>> /\ m = 2 * b + 1 /\ m \in 1..Len(Halves)
      BY <1>1, <2>1, Parity DEF RestAt
    <3>2. <<Halves[m]>> \o SubSeq(Halves, m + 1, n) = SubSeq(Halves, m, n)
      BY <1>1, <1>2, <3>1, FromHere
    <3> QED
      BY <3>1, <3>2
  <2>2. CASE m % 2 # 1
    <3>1. rest = <<>> /\ m = 2 * b
      BY <1>1, <2>2, Parity DEF RestAt
    <3>2. <<>> \o SubSeq(Halves, m + 1, n) = SubSeq(Halves, m + 1, n)
      BY <1>1, <1>2, PartFrom
    <3> QED
      BY <3>1, <3>2
  <2> QED
    BY <2>1, <2>2
<1>5. /\ all \in Seq(HalfItems) /\ Len(all) = n - 2 * b
      /\ \A i \in 1..(n - 2 * b) : all[i] = Halves[2 * b + i]
  <2>1. PICK c \in Nat : c = 2 * b /\ n \in c..Len(Halves)
    BY <1>1
  <2>2. all = SubSeq(Halves, c + 1, n)
    BY <1>4, <2>1
  <2>3. /\ all \in Seq(HalfItems) /\ Len(all) = n - c
        /\ \A i \in 1..(n - c) : all[i] = Halves[c + i]
    <3>1. /\ SubSeq(Halves, c + 1, n) \in Seq(HalfItems) /\ Len(SubSeq(Halves, c + 1, n)) = n - c
          /\ \A i \in 1..(n - c) : SubSeq(Halves, c + 1, n)[i] = Halves[c + i]
      BY <1>2, <2>1, HalvesFrom, Zenon
    <3> QED
      BY <2>2, <3>1, Zenon
  <2> QED
    BY <2>1, <2>3
<1>6. Len(all) \div 2 = n \div 2 - b
  <2>1. (n - 2 * b) \div 2 = n \div 2 - b
    BY <1>1, HalfLess
  <2> QED
    BY <1>5, <2>1
<1> QED
  BY <1>1, <1>3, <1>5, <1>6 DEF AreHalves

\* The events of flat items are those of their parts, one after another.
LEMMA PartsTell ==
  ASSUME NEW outs \in Seq(Seq(Items)), NEW q \in Seq(Names),
         NEW told, told[0] = q,
         \A i \in 1..Len(outs) : told[i - 1] \o EventsOf(outs[i]) = told[i]
  PROVE  q \o EventsOf(FlattenSeq(outs)) = told[Len(outs)]
<1> DEFINE m == Len(outs)
<1>1. m \in Nat /\ \A i \in 1..m : outs[i] \in Seq(Items) /\ EventsOf(outs[i]) \in Seq(Names)
  BY EventsOfMore
<1>2. CASE m = 0
  <2>1. FlattenSeq(outs) = <<>>
    BY <1>2 DEF FlattenSeq
  <2>2. q \o <<>> = q
    OBVIOUS
  <2> QED
    BY <1>2, <2>1, <2>2, EventsOfMore
<1>3. CASE m # 0
  <2>1. PICK g : /\ FlattenSeq(outs) = g[m] /\ g[1] = outs[1]
                 /\ \A i \in 2..m : g[i] = g[i - 1] \o outs[i]
                 /\ \A i \in 1..m : g[i] \in Seq(Items)
    BY <1>3, FlattenSteps
  <2> DEFINE Q == {i \in Nat : i + 1 <= m => q \o EventsOf(g[i + 1]) = told[i + 1]}
  <2> HIDE DEF m
  <2>2. 0 \in Q
    <3>1. 1 \in 1..m /\ 1 - 1 = 0
      BY <1>1, <1>3
    <3>2. told[1 - 1] \o EventsOf(outs[1]) = told[1]
      BY <3>1 DEF m
    <3>3. q \o EventsOf(g[1]) = told[1]
      BY <2>1, <3>1, <3>2
    <3>4. 0 + 1 = 1
      OBVIOUS
    <3> QED
      BY <3>3, <3>4
  <2>3. ASSUME NEW i \in Nat, i \in Q PROVE i + 1 \in Q
    <3> SUFFICES ASSUME (i + 1) + 1 <= m
                 PROVE  q \o EventsOf(g[(i + 1) + 1]) = told[(i + 1) + 1]
      BY <2>3
    <3>1. PICK j \in Nat : j = (i + 1) + 1
      OBVIOUS
    <3>2. j \in 2..m /\ j \in 1..m /\ j - 1 = i + 1 /\ i + 1 \in 1..m /\ i + 1 <= m
      BY <1>1, <3>1
    <3>3. q \o EventsOf(g[j - 1]) = told[j - 1]
      BY <2>3, <3>2
    <3>4. told[j - 1] \o EventsOf(outs[j]) = told[j]
      BY <3>2 DEF m
    <3>5. g[j] = g[j - 1] \o outs[j] /\ g[j - 1] \in Seq(Items) /\ outs[j] \in Seq(Items)
      BY <1>1, <2>1, <3>2
    <3>6. EventsOf(g[j]) = EventsOf(g[j - 1]) \o EventsOf(outs[j])
      BY <3>5, EventsOfBoth
    <3>7. EventsOf(g[j - 1]) \in Seq(Names) /\ EventsOf(outs[j]) \in Seq(Names)
      BY <3>5, EventsOfMore
    <3>8. q \o (EventsOf(g[j - 1]) \o EventsOf(outs[j]))
             = (q \o EventsOf(g[j - 1])) \o EventsOf(outs[j])
      <4>1. PICK s, t : s = EventsOf(g[j - 1]) /\ t = EventsOf(outs[j])
        OBVIOUS
      <4>2. s \in Seq(Names) /\ t \in Seq(Names)
        BY <3>7, <4>1
      <4>3. q \o (s \o t) = (q \o s) \o t
        BY <4>2, InARow
      <4> QED
        BY <4>1, <4>3
    <3>9. q \o EventsOf(g[j]) = told[j]
      BY <3>3, <3>4, <3>6, <3>8
    <3> QED
      BY <3>1, <3>9
  <2>4. Nat \subseteq Q
    <3> HIDE DEF Q
    <3> QED
      BY <2>2, <2>3, SetInduction
  <2>5. m - 1 \in Nat /\ (m - 1) + 1 = m
    BY <1>1, <1>3
  <2>6. m - 1 \in Q
    <3> HIDE DEF Q
    <3> QED
      BY <2>4, <2>5
  <2>7. q \o EventsOf(g[m]) = told[m]
    BY <1>1, <2>5, <2>6
  <2> QED
    BY <2>1, <2>7 DEF m
<1> QED
  BY <1>2, <1>3

\* What a splice makes of a piece: it keeps the half that is left, and passes on
\* what the client has not been told.
LEMMA FedTells ==
  ASSUME ask \in Asks, ask.opened, NEW m \in 0..Len(Halves), NEW n \in m..Len(Halves),
         rest = RestAt(m), usage = UsageAt(m \div 2)
  PROVE  LET fed == Fed(SubSeq(Halves, m + 1, n))
         IN  /\ fed.rest = RestAt(n) /\ fed.usage = UsageAt(n \div 2)
             /\ fed.out \in Seq(Items)
             /\ Told(m) \o EventsOf(fed.out) = Told(n)
<1> DEFINE piece == SubSeq(Halves, m + 1, n)
<1>1. PICK b : b = m \div 2
  OBVIOUS
<1>23. PICK p : p = piece /\ p = SubSeq(Halves, m + 1, n)
  OBVIOUS
<1>2. PICK all : all = rest \o piece
  OBVIOUS
<1>3. PICK k : k = n \div 2 - b
  OBVIOUS
<1>4. /\ m \in Nat /\ n \in Nat /\ b \in Nat /\ k \in Nat /\ Len(Halves) = 2 * Len(Sends)
      /\ Len(Sends) \in Nat /\ b + k = n \div 2 /\ b + k <= Len(Sends)
      /\ n <= Len(Halves) /\ m <= n
  BY <1>1, <1>3, HalvesAre
<1>5. /\ rest \in Seq(HalfItems) /\ piece \in Seq(HalfItems)
      /\ all \in Seq(HalfItems) /\ Len(all) = n - 2 * b
      /\ k = Len(all) \div 2
      /\ \A i \in 1..(n - 2 * b) : all[i] = Halves[2 * b + i]
  <2>1. /\ rest \in Seq(HalfItems) /\ piece \in Seq(HalfItems)
        /\ all \in Seq(HalfItems) /\ Len(all) = n - 2 * b
        /\ Len(all) \div 2 = n \div 2 - b
        /\ \A i \in 1..(n - 2 * b) : all[i] = Halves[2 * b + i]
    <3> HIDE DEF piece
    <3>1. all = rest \o p
      BY <1>23, <1>2
    <3>2. rest \in Seq(HalfItems) /\ p \in Seq(HalfItems) /\ AreHalves(all, b, n)
      BY <1>23, <1>1, <3>1, Rejoined
    <3> QED
      BY <1>23, <3>2 DEF AreHalves
  <2> HIDE DEF piece
  <2> QED
    BY <1>3, <2>1
<1>6. usage \in Usages
  BY DEF UsageAt, Usages
<1>7. PICK h, outs : FedAlong(piece, all, k, h, outs)
  <2> HIDE DEF piece
  <2> QED
    BY <1>2, <1>5, <1>6, FedSteps
<1> HIDE DEF piece
<1>8. ASSUME NEW i \in 1..k
      PROVE  /\ all[2 * i - 1].ev = Sends[b + i] /\ b + i \in 1..Len(Sends)
             /\ (b + i) - 1 = b + (i - 1)
  <2>1. /\ 2 * i - 1 \in 1..(n - 2 * b) /\ 2 * b + (2 * i - 1) \in 1..Len(Halves)
        /\ ((2 * b + (2 * i - 1)) + 1) \div 2 = b + i /\ (b + i) - 1 = b + (i - 1)
        /\ b + i \in 1..Len(Sends)
    BY <1>4
  <2>2. all[2 * i - 1] = Halves[2 * b + (2 * i - 1)]
    BY <1>5, <2>1
  <2> QED
    BY <2>1, <2>2, HalvesAre
<1> DEFINE P == {i \in Nat : i <= k => h[i] = UsageAt(b + i)}
<1>9. 0 \in P
  <2>1. h[0] = UsageAt(b) /\ b + 0 = b
    BY <1>1, <1>4, <1>7 DEF FedAlong
  <2> QED
    BY <2>1
<1>10. ASSUME NEW i \in Nat, i \in P PROVE i + 1 \in P
  <2> SUFFICES ASSUME i + 1 <= k PROVE h[i + 1] = UsageAt(b + (i + 1))
    BY <1>10
  <2>1. PICK j \in Nat : j = i + 1
    OBVIOUS
  <2>2. h[j - 1] = UsageAt(b + (j - 1)) /\ j \in 1..k
    BY <1>4, <1>10, <2>1
  <2>3. h[j] = Noted(Sends[b + j], UsageAt((b + j) - 1)) /\ b + j \in 1..Len(Sends)
    BY <1>7, <1>8, <2>2 DEF FedAlong
  <2>4. UsageAt(b + j) = Noted(Sends[b + j], UsageAt((b + j) - 1))
    BY <2>3, OneEvent
  <2> QED
    BY <2>1, <2>3, <2>4
<1>11. Nat \subseteq P
  <2> HIDE DEF P
  <2> QED
    BY <1>9, <1>10, SetInduction
<1>12. \A i \in 0..k : h[i] = UsageAt(b + i)
  BY <1>4, <1>11
<1>13. Fed(piece).usage = UsageAt(n \div 2)
  <2>1. k \in 0..k
    BY <1>4
  <2>2. h[k] = UsageAt(n \div 2)
    BY <1>4, <1>12, <2>1
  <2> QED
    BY <1>7, <2>2 DEF FedAlong
<1>14. Fed(piece).rest = RestAt(n)
  <2>1. Fed(piece).rest = SubSeq(all, 2 * k + 1, Len(all)) /\ 2 * k \in Nat
    BY <1>4, <1>7 DEF FedAlong
  <2>2. CASE n % 2 = 1
    <3>1. Len(all) = 2 * k + 1 /\ 2 * b + (2 * k + 1) = n /\ 2 * k + 1 \in 1..(n - 2 * b)
      <4>1. n = 2 * (n \div 2) + 1
        BY <1>4, <2>2, Parity
      <4>2. n = 2 * (b + k) + 1
        BY <1>4, <4>1
      <4> QED
        BY <1>4, <1>5, <4>2
    <3>2. SubSeq(all, 2 * k + 1, Len(all)) = <<all[2 * k + 1]>>
      BY <1>5, <2>1, <3>1, LastOne
    <3> QED
      BY <1>5, <2>1, <2>2, <3>1, <3>2 DEF RestAt
  <2>3. CASE n % 2 # 1
    <3>1. Len(all) = 2 * k
      <4>1. n = 2 * (n \div 2)
        BY <1>4, <2>3, Parity
      <4> QED
        BY <1>4, <1>5, <4>1
    <3>2. SubSeq(all, 2 * k + 1, Len(all)) = <<>>
      BY <1>5, <2>1, <3>1, LastOne
    <3> QED
      BY <2>1, <2>3, <3>2 DEF RestAt
  <2> QED
    BY <2>2, <2>3
<1> DEFINE told == [i \in 0..k |-> SubSeq(Reply, 1, OutAt(b + i))]
<1>15. ASSUME NEW i \in 1..k
       PROVE  /\ outs[i] \in Seq(Items)
              /\ told[i - 1] \o EventsOf(outs[i]) = told[i]
  <2>1. /\ b + i \in 1..Len(Sends) /\ i - 1 \in 0..k /\ i \in 0..k
        /\ (b + i) - 1 = b + (i - 1)
    BY <1>4, <1>8
  <2>2. outs[i] = Passed(Sends[b + i], UsageAt((b + i) - 1))
    <3>1. outs[i] = Passed(all[2 * i - 1].ev, h[i - 1])
      BY <1>7 DEF FedAlong
    <3>2. h[i - 1] = UsageAt(b + (i - 1))
      BY <1>12, <2>1
    <3> QED
      BY <1>8, <2>1, <3>1, <3>2
  <2>3. /\ outs[i] \in Seq(Items)
        /\ SubSeq(Reply, 1, OutAt((b + i) - 1)) \o EventsOf(outs[i])
              = SubSeq(Reply, 1, OutAt(b + i))
    BY <2>1, <2>2, EventTells
  <2>4. /\ told[i - 1] = SubSeq(Reply, 1, OutAt((b + i) - 1))
        /\ told[i] = SubSeq(Reply, 1, OutAt(b + i))
    BY <2>1
  <2> HIDE DEF told
  <2> QED
    BY <2>3, <2>4
<1>16. outs \in Seq(Seq(Items)) /\ Len(outs) = k
  <2>1. outs \in Seq(Seq(WholeItems)) /\ Len(outs) = k
    BY <1>7 DEF FedAlong
  <2>2. Seq(WholeItems) \subseteq Seq(Items)
    BY ItemsTyped
  <2> QED
    BY <2>1, <2>2
<1>17. told[0] = SubSeq(Reply, 1, OutAt(b)) /\ told[k] = SubSeq(Reply, 1, OutAt(n \div 2))
  <2>1. 0 \in 0..k /\ k \in 0..k /\ b + 0 = b
    BY <1>4
  <2>2. told[0] = SubSeq(Reply, 1, OutAt(b + 0)) /\ told[k] = SubSeq(Reply, 1, OutAt(b + k))
    BY <2>1
  <2> HIDE DEF told
  <2> QED
    BY <1>4, <2>1, <2>2
<1>18. told[0] \in Seq(Names)
  <2>1. b \in 0..Len(Sends)
    BY <1>4
  <2> QED
    BY <1>17, <2>1, ReplyIs, PartTyped
<1>19. told[0] \o EventsOf(FlattenSeq(outs)) = told[k]
  <2> HIDE DEF told
  <2> QED
    BY <1>15, <1>16, <1>18, PartsTell
<1>20. FlattenSeq(outs) \in Seq(Items)
  BY <1>16, FlattenTyped
<1>21. Fed(piece).out = FlattenSeq(outs)
  BY <1>7 DEF FedAlong
<1>22. Told(m) = told[0] /\ Told(n) = told[k]
  BY <1>1, <1>17 DEF Told
<1> HIDE DEF told
<1> QED
  BY <1>13, <1>14, <1>19, <1>20, <1>21, <1>22 DEF piece

-------------------------------------------------------------------------------
\* What a client can read, and what a write adds to it.

\* f is the first frame that was cut short.
FirstCut(f, w) ==
    /\ f \in 1..Len(w) /\ w[f].ev = "half a frame"
    /\ \A i \in 1..(f - 1) : w[i].ev # "half a frame"

\* A client reads up to there.
LEMMA ReadToCut == TypeOK /\ Cut => \E f : FirstCut(f, wire) /\ Readable = SubSeq(wire, 1, f - 1)
<1> SUFFICES ASSUME TypeOK, Cut
             PROVE  \E f : FirstCut(f, wire) /\ Readable = SubSeq(wire, 1, f - 1)
  OBVIOUS
<1>1. Len(wire) \in Nat
  BY WireTyped
<1> DEFINE C == {i \in 1..Len(wire) : wire[i].ev = "half a frame"}
           first == CHOOSE x \in C : \A y \in C : x <= y
<1>2. PICK c \in C : \A d \in C : c <= d
  <2>1. C # {}
    BY DEF Cut
  <2>2. C \subseteq 1..Len(wire)
    OBVIOUS
  <2> HIDE DEF C
  <2>3. C \in SUBSET Nat
    BY <1>1, <2>2
  <2> QED
    BY <2>1, <2>3, LeastOf
<1>3. first \in C /\ \A d \in C : first <= d
  BY <1>2
<1>4. SelectInSeq(wire, LAMBDA w : w.ev = "half a frame") = first
  <2>1. C # {}
    BY <1>2
  <2> QED
    BY <2>1 DEF SelectInSeq, Min
<1>5. Readable = SubSeq(wire, 1, first - 1)
  BY <1>4 DEF Readable, Cut
<1>6. first \in 1..Len(wire)
  BY <1>3
<1>8. wire[first].ev = "half a frame"
  BY <1>3
<1>7. ASSUME NEW i \in 1..(first - 1) PROVE wire[i].ev # "half a frame"
  <2>1. wire[i].ev = "half a frame" /\ i \in 1..Len(wire) => i \in C
    OBVIOUS
  <2> HIDE DEF C, first
  <2>2. i \in 1..Len(wire) /\ ~(first <= i)
    BY <1>1, <1>6
  <2> QED
    BY <1>3, <2>1, <2>2
<1> HIDE DEF first, C
<1> QED
  BY <1>5, <1>6, <1>7, <1>8 DEF FirstCut

\* The same of the next state.
LEMMA ReadToCutNext ==
  (TypeOK /\ Cut => \E f : FirstCut(f, wire) /\ Readable = SubSeq(wire, 1, f - 1))'
  BY ReadToCut, PTL

\* The wire only grows.
Grows == Len(wire) <= Len(wire') /\ \A n \in 1..Len(wire) : wire'[n] = wire[n]

\* The next wire is a sequence of items, too.
LEMMA WireTypedNext == TypeOK' => wire' \in Seq(Items) /\ Len(wire') \in Nat
<1>1. TypeOK' => wire' \in Seq(Items)
  BY DEF TypeOK
<1> QED
  BY <1>1

\* The first of some parts of a sequence that agree on it is the same.
LEMMA SameCut ==
  ASSUME NEW v, NEW w, NEW f \in Nat, NEW g \in Nat, NEW m \in Nat,
         FirstCut(f, v), FirstCut(g, w), 1 <= f, 1 <= g, f <= m, \A i \in 1..m : w[i] = v[i]
  PROVE  g = f
<1>1. f \in 1..m /\ w[f] = v[f]
  OBVIOUS
<1>2. ~(f < g)
  <2>1. ASSUME f < g PROVE FALSE
    <3>1. f \in 1..(g - 1)
      BY <2>1
    <3>2. w[f].ev # "half a frame"
      BY <3>1 DEF FirstCut
    <3>3. v[f].ev = "half a frame"
      BY DEF FirstCut
    <3> QED
      BY <1>1, <3>2, <3>3
  <2> QED
    BY <2>1
<1>3. ~(g < f)
  <2>1. ASSUME g < f PROVE FALSE
    <3>1. g \in 1..(f - 1) /\ g \in 1..m
      BY <2>1
    <3>2. v[g].ev # "half a frame"
      BY <3>1 DEF FirstCut
    <3>3. w[g].ev = "half a frame"
      BY DEF FirstCut
    <3>4. w[g] = v[g]
      BY <3>1
    <3> QED
      BY <3>2, <3>3, <3>4
  <2> QED
    BY <2>1
<1> QED
  BY <1>2, <1>3

\* The beginning of sequences that agree on it is the same.
LEMMA SameStart ==
  ASSUME NEW S, NEW v \in Seq(S), NEW w \in Seq(S), NEW m \in Nat, m <= Len(v), m <= Len(w),
         \A i \in 1..m : w[i] = v[i]
  PROVE  SubSeq(w, 1, m) = SubSeq(v, 1, m) /\ Len(SubSeq(w, 1, m)) = m
  OBVIOUS

\* What cannot be read stays so.
LEMMA CutStays ==
  ASSUME TypeOK, TypeOK', Cut, Grows
  PROVE  Cut' /\ Readable' = Readable /\ Readable' # wire'
<1>1. PICK m \in Nat, n \in Nat : m = Len(wire) /\ n = Len(wire') /\ m <= n
  BY WireTyped, WireTypedNext DEF Grows
<1>2. PICK f : FirstCut(f, wire) /\ Readable = SubSeq(wire, 1, f - 1)
  BY ReadToCut
<1>3. f \in 1..m /\ f \in 1..n /\ f \in Nat /\ f - 1 \in Nat /\ f - 1 <= m /\ f - 1 < n
  <2>1. f \in 1..m
    BY <1>1, <1>2 DEF FirstCut
  <2> QED
    BY <1>1, <2>1
<1>4. wire'[f].ev = "half a frame"
  BY <1>1, <1>2, <1>3 DEF FirstCut, Grows
<1>5. Cut'
  BY <1>1, <1>3, <1>4 DEF Cut
<1>6. PICK g : FirstCut(g, wire') /\ Readable' = SubSeq(wire', 1, g - 1)
  BY <1>5, ReadToCutNext
<1>7. g = f
  <2>1. g \in Nat /\ 1 <= g
    <3>1. g \in 1..Len(wire')
      BY <1>6 DEF FirstCut
    <3> QED
      BY <1>1, <3>1
  <2>2. \A i \in 1..m : wire'[i] = wire[i]
    BY <1>1 DEF Grows
  <2>3. 1 <= f /\ f <= m
    BY <1>3
  <2> QED
    BY <1>2, <1>3, <1>6, <2>1, <2>2, <2>3, SameCut
<1>8. SubSeq(wire', 1, f - 1) = SubSeq(wire, 1, f - 1) /\ Len(SubSeq(wire', 1, f - 1)) = f - 1
  <2>1. \A i \in 1..(f - 1) : wire'[i] = wire[i]
    <3>1. \A i \in 1..(f - 1) : i \in 1..m
      BY <1>1, <1>3
    <3> QED
      BY <1>1, <3>1 DEF Grows
  <2>2. wire \in Seq(Items) /\ wire' \in Seq(Items)
    BY WireTyped, WireTypedNext
  <2>3. PICK k \in Nat : k = f - 1
    BY <1>3
  <2>4. k <= Len(wire) /\ k <= Len(wire')
    BY <1>1, <1>3, <2>3
  <2> QED
    BY <2>1, <2>2, <2>3, <2>4, SameStart
<1>9. Readable' # wire'
  <2>1. Len(Readable') = f - 1 /\ f - 1 # n
    BY <1>1, <1>3, <1>6, <1>7, <1>8
  <2> QED
    BY <1>1, <2>1
<1> QED
  BY <1>2, <1>5, <1>6, <1>7, <1>8, <1>9

\* Nothing more can be read.
Hidden == Cut' /\ Readable' = Readable /\ Readable' # wire'

\* All of it can.
Visible(items) ==
    ~Cut /\ ~Cut' /\ Readable = wire /\ Readable' = wire' /\ wire' = wire \o items

\* A write goes to nobody, is not read, or is read.
LEMMA WriteShows ==
  ASSUME TypeOK, TypeOK', NEW items \in Seq(Items), WholeFrames(items), wire' = Written(items)
  PROVE  \/ client = "gone" /\ wire' = wire
         \/ client # "gone" /\ Hidden
         \/ client = "there" /\ Visible(items)
<1>1. PICK m \in Nat, n \in Nat, k \in Nat : m = Len(wire) /\ n = Len(wire') /\ k = Len(items)
  BY WireTyped, WireTypedNext
<1>2. CASE client = "gone"
  BY <1>2 DEF Written
<1>3. CASE client # "gone" /\ Cut
  <2>1. More(items) \/ HalfMore
    BY <1>3, Writes
  <2>2. m <= n
    <3>1. n = m + k \/ n = m + 1
      BY <1>1, <2>1 DEF More, HalfMore
    <3> QED
      BY <3>1
  <2>3. Grows
    BY <1>1, <2>1, <2>2 DEF More, HalfMore, Grows
  <2> QED
    BY <1>3, <2>3, CutStays DEF Hidden
<1>4. CASE client = "stalled" /\ ~Cut
  <2>1. HalfMore
    BY <1>4, Writes
  <2>2. Readable = wire
    BY <1>4 DEF Readable, Cut
  <2>3. n = m + 1 /\ m + 1 \in 1..n /\ wire'[m + 1].ev = "half a frame"
    <3>1. Len(wire') = Len(wire) + 1 /\ wire'[Len(wire) + 1].ev = "half a frame"
      BY <2>1 DEF HalfMore
    <3>2. n = m + 1
      BY <1>1, <3>1
    <3>3. m + 1 \in 1..n
      BY <3>2
    <3> QED
      BY <1>1, <3>1, <3>2, <3>3
  <2>4. Cut'
    BY <1>1, <2>3 DEF Cut
  <2>5. PICK g : FirstCut(g, wire') /\ Readable' = SubSeq(wire', 1, g - 1)
    BY <2>4, ReadToCutNext
  <2>6. \A i \in 1..m : wire'[i] = wire[i] /\ wire[i].ev # "half a frame"
    BY <1>1, <1>4, <2>1 DEF Cut, HalfMore
  <2>7. g = m + 1
    <3>1. g \in 1..n
      BY <1>1, <2>5 DEF FirstCut
    <3>2. wire'[g].ev = "half a frame"
      BY <2>5 DEF FirstCut
    <3>3. g \notin 1..m
      BY <2>6, <3>2
    <3>4. n = m + 1
      BY <2>3
    <3> QED
      BY <3>1, <3>3, <3>4
  <2>8. SubSeq(wire', 1, m) = wire
    <3>1. wire \in Seq(Items) /\ wire' \in Seq(Items)
      BY WireTyped, WireTypedNext
    <3>2. m <= Len(wire) /\ m <= Len(wire')
      <4>0. n = m + 1
        BY <2>3
      <4>1. m <= m /\ m <= n
        BY <4>0
      <4> QED
        BY <1>1, <4>1
    <3>3. SubSeq(wire', 1, m) = SubSeq(wire, 1, m)
      BY <2>6, <3>1, <3>2, SameStart
    <3>4. SubSeq(wire, 1, Len(wire)) = wire
      BY <3>1
    <3> QED
      BY <1>1, <3>3, <3>4
  <2>9. g - 1 = m /\ m # n
    <3>1. n = m + 1
      BY <2>3
    <3> QED
      BY <2>7, <3>1
  <2>10. wire # wire'
    BY <1>1, <2>9
  <2> QED
    BY <1>4, <2>2, <2>4, <2>5, <2>8, <2>9, <2>10 DEF Hidden
<1>5. CASE client = "there" /\ ~Cut
  <2>1. wire' = wire \o items /\ More(items)
    BY <1>5, Writes DEF Written
  <2>2. ~Cut'
    <3>1. n = m + k /\ \A i \in 1..m : wire'[i] = wire[i]
      BY <1>1, <2>1 DEF More
    <3>2. \A i \in 1..k : wire'[m + i] = items[i]
      BY <1>1, <2>1 DEF More
    <3>3. \A i \in 1..m : wire[i].ev # "half a frame"
      BY <1>1, <1>5 DEF Cut
    <3>4. \A i \in 1..k : items[i].ev # "half a frame"
      BY <1>1 DEF WholeFrames
    <3>5. ASSUME NEW i \in 1..n PROVE wire'[i].ev # "half a frame"
      <4>1. CASE i \in 1..m
        BY <3>1, <3>3, <4>1
      <4>2. CASE i \notin 1..m
        <5>1. i - m \in 1..k /\ m + (i - m) = i
          BY <3>1, <4>2
        <5>2. wire'[m + (i - m)] = items[i - m]
          BY <3>2, <5>1
        <5> QED
          BY <3>4, <5>1, <5>2
      <4> QED
        BY <4>1, <4>2
    <3> QED
      BY <1>1, <3>5 DEF Cut
  <2>3. Readable = wire /\ Readable' = wire'
    BY <1>5, <2>2 DEF Readable, Cut
  <2> QED
    BY <1>5, <2>1, <2>2, <2>3 DEF Visible
<1>6. client \in {"there", "stalled", "gone"}
  BY DEF TypeOK
<1> QED
  BY <1>2, <1>3, <1>4, <1>5, <1>6

-------------------------------------------------------------------------------
\* What the client has been told, wherever the handler is.

\* Before the backend's reply, in it, and behind it.
Starting ==
    \/ main.pc \in {"begin", "working", "connect"}
    \/ main.pc = "join" /\ main.next = "connect"
Relaying ==
    \/ main.pc = "reading"
    \/ main.pc \in {"put", "putting"} /\ main.next = "reading"
Finishing ==
    \/ main.pc \in {"done", "end", "ending"}
    \/ main.pc = "join" /\ main.next = "end"

\* The client has the events of q, or will have them once main.out is out; or it
\* reads no more.
Has(q) == Cut \/ EventsOf(wire) = q
WillHave(q) == Cut \/ EventsOf(wire) \o EventsOf(main.out) = q

\* The error that ends a stream is the end of it.
ErrorIsLast == (\E i \in 1..Len(wire) : wire[i].ev = "error") => main.pc = "closed"

\* Nothing is written or read at first.
Fresh ==
    /\ main.pc = "begin" => wire = <<>>
    /\ Starting => up = 0 /\ rest = <<>> /\ usage = "none"
    /\ ~ask.opened => rest = <<>>

\* A splice is where the backend's reply is.
Midway == ask.opened /\ Relaying => rest = RestAt(up) /\ usage = UsageAt(up \div 2)

\* And the client has all that was sent, and all of the reply when it is over.
ToldNow == Starting \/ main.pc = "reading" => main.pc = "begin" \/ Has(Told(up))
ToldSoon ==
    main.pc \in {"put", "putting"} => WillHave(IF main.next = "reading" THEN Told(up) ELSE Reply)
ToldAll == Finishing => Has(Reply)

Telling == Fresh /\ Midway /\ ToldNow /\ ToldSoon /\ ToldAll

\* The request decides what it is told.
LEMMA ToldStays ==
  ASSUME ask' = ask, NEW u, up' = u
  PROVE  /\ Reply' = Reply /\ Told(up)' = Told(u) /\ RestAt(up)' = RestAt(u)
         /\ UsageAt(up \div 2)' = UsageAt(u \div 2)
<1>1. Sends' = Sends
  BY DEF Sends
<1>2. Reply' = Reply
  BY <1>1 DEF Reply
<1>3. Halves' = Halves
  BY <1>1 DEF Halves
<1>4. Told(up)' = Told(u)
  BY <1>2 DEF Told, OutAt
<1>5. RestAt(up)' = RestAt(u)
  BY <1>3 DEF RestAt
<1>6. UsageAt(up \div 2)' = UsageAt(u \div 2)
  BY DEF UsageAt
<1> QED
  BY <1>2, <1>4, <1>5, <1>6

\* What a write adds, to a client that reads.
Gets(items) == (Cut => Cut') /\ (Cut' \/ EventsOf(wire') = EventsOf(wire) \o EventsOf(items))

\* A client that is there gets it, and one that stalls reads no more.
LEMMA WriteGets ==
  ASSUME TypeOK, TypeOK', NEW items \in Seq(Items), WholeFrames(items), wire' = Written(items)
  PROVE  \/ client = "gone" /\ wire' = wire
         \/ client = "stalled" /\ Cut'
         \/ client = "there" /\ Gets(items)
<1>1. CASE Visible(items)
  <2>1. EventsOf(wire \o items) = EventsOf(wire) \o EventsOf(items)
    BY WireTyped, EventsOfBoth
  <2> QED
    BY <1>1, <2>1, WriteShows DEF Visible, Gets, Hidden
<1>2. CASE ~Visible(items)
  BY <1>2, WriteShows DEF Hidden, Gets, TypeOK
<1> QED
  BY <1>1, <1>2

\* The opening is what a client is told before the backend answers.
LEMMA AtFirst ==
  ASSUME ask \in Asks
  PROVE  /\ Told(0) = IF ask.opened /\ ask.api = "anthropic" THEN <<"open">> ELSE <<>>
         /\ RestAt(0) = <<>> /\ UsageAt(0 \div 2) = "none"
<1>1. ask.api \in {"anthropic", "openai"} /\ ask.opened \in BOOLEAN /\ ask.asked \in BOOLEAN
  BY Parameters
<1>2. 0 % 2 = 0 /\ 0 \div 2 = 0 /\ (0 + 1) \div 2 = 0
  OBVIOUS
<1>3. RestAt(0) = <<>> /\ UsageAt(0 \div 2) = "none"
  BY <1>2 DEF RestAt, UsageAt
<1>4. CASE ask.opened /\ ask.api = "anthropic"
  <2> DEFINE q == <<"open", "text", "delta and usage", "stop">>
  <2>1. Reply = q /\ OutAt(0) = 1
    <3>1. Reply = q
      BY <1>4 DEF Reply
    <3>2. OutAt(0) = 1
      BY <1>4 DEF OutAt
    <3> QED
      BY <3>1, <3>2
  <2>2. SubSeq(q, 1, 1) = <<"open">>
    <3>1. q \in Seq(Names) /\ Len(q) = 4 /\ q[1] = "open"
      BY DEF Names
    <3> HIDE DEF q
    <3>2. SubSeq(q, 1, 1) = SubSeq(q, 1, 1 - 1) \o <<q[1]>>
      <4>1. 1 \in 1..Len(q)
        BY <3>1
      <4> QED
        BY <3>1, <4>1, OneMore
    <3>3. SubSeq(q, 1, 1 - 1) = <<>>
      BY <3>1
    <3>4. \A e : <<>> \o <<e>> = <<e>>
      OBVIOUS
    <3> QED
      BY <3>1, <3>2, <3>3, <3>4
  <2> HIDE DEF q
  <2> QED
    BY <1>2, <1>3, <1>4, <2>1, <2>2 DEF Told
<1>5. CASE ~(ask.opened /\ ask.api = "anthropic")
  <2>1. OutAt(0) = 0
    BY <1>1, <1>5 DEF OutAt
  <2>2. SubSeq(Reply, 1, 0) = <<>>
    BY ReplyIs
  <2> QED
    BY <1>2, <1>3, <1>5, <2>1, <2>2 DEF Told
<1> QED
  BY <1>4, <1>5

\* What has been told is the beginning of the reply.
LEMMA ToldPart == TypeOK => \E k \in 0..Len(Reply) : Told(up) = SubSeq(Reply, 1, k)
<1> SUFFICES ASSUME TypeOK PROVE \E k \in 0..Len(Reply) : Told(up) = SubSeq(Reply, 1, k)
  OBVIOUS
<1>1. ask \in Asks /\ ask.opened \in BOOLEAN
  BY Parameters DEF TypeOK
<1>2. PICK k \in Nat : k = Len(Sends) /\ Len(Halves) = 2 * k
  BY HalvesAre
<1>3. up \in 0..(2 * k)
  BY <1>2 DEF TypeOK
<1>4. PICK j : j = IF ask.opened THEN up \div 2 ELSE (up + 1) \div 2
  OBVIOUS
<1>5. j \in 0..k
  BY <1>1, <1>3, <1>4
<1>6. OutAt(j) \in 0..Len(Reply)
  BY <1>1, <1>2, <1>5, ReplyIs
<1> QED
  BY <1>4, <1>6 DEF Told

\* The same of the next state.
LEMMA ToldPartNext == (TypeOK => \E k \in 0..Len(Reply) : Told(up) = SubSeq(Reply, 1, k))'
  BY ToldPart, PTL

\* What has been told is a sequence of events.
LEMMA ToldTyped ==
  ASSUME TypeOK
  PROVE  /\ Told(up) \o <<>> = Told(up)
         /\ EventsOf(wire) \o EventsOf(<<>>) = EventsOf(wire)
         /\ EventsOf(wire) \o <<>> = EventsOf(wire)
<1>1. EventsOf(wire) \in Seq(Names) /\ EventsOf(<<>>) = <<>>
  BY WireTyped, EventsOfMore
<1>2. \A v \in Seq(Names) : v \o <<>> = v
  OBVIOUS
<1>3. PICK k \in 0..Len(Reply) : Told(up) = SubSeq(Reply, 1, k)
  BY ToldPart
<1>4. Reply \in Seq(Names)
  BY ReplyIs DEF TypeOK
<1>5. Told(up) \o <<>> = Told(up)
  BY <1>3, <1>4, PartTyped
<1> QED
  BY <1>1, <1>2, <1>5

\* What goes out when a stream is opened.
LEMMA OpeningIs ==
  ASSUME ask \in Asks, ask.opened,
         NEW items, items = IF ask.api = "anthropic" THEN <<Item("open")>> ELSE <<>>
  PROVE  /\ items \in Seq(Items) /\ EventsOf(items) = Told(0)
         /\ \A n \in 1..Len(items) : items[n].ev # "half a frame" /\ items[n].ev # "error"
<1>1. CASE ask.api = "anthropic"
  <2> DEFINE q == <<Item("open")>>
  <2>1. q \in Seq(Items) /\ Len(q) = 1 /\ q[1] = Item("open") /\ Item("open").ev = "open"
    BY OwnTyped
  <2>2. "open" \in Names \ {"ping", "error", "end"}
    BY DEF Names
  <2>3. EventsOf(q) = <<"open">>
    BY <2>2, OneItem
  <2> HIDE DEF q
  <2>4. \A n \in 1..Len(q) : q[n] = Item("open")
    BY <2>1
  <2>5. \A n \in 1..Len(q) : q[n].ev # "half a frame" /\ q[n].ev # "error"
    BY <2>1, <2>4
  <2>6. items = q
    BY <1>1 DEF q
  <2> QED
    BY <1>1, <2>1, <2>3, <2>5, <2>6, AtFirst
<1>2. CASE ask.api # "anthropic"
  <2>1. <<>> \in Seq(Items) /\ 1..Len(<<>>) = {} /\ items = <<>>
    BY <1>2
  <2> QED
    BY <1>2, <2>1, AtFirst, EventsOfMore
<1> QED
  BY <1>1, <1>2

\* What is about to be put is made of whole frames, and no error.
LEMMA PieceIs ==
  ASSUME Carried
  PROVE  /\ main.out \in Seq(Items) /\ WholeFrames(main.out)
         /\ \A n \in 1..Len(main.out) : main.out[n].ev # "error"
<1>1. main.out \in Seq(HalfItems \cup WholeItems)
  BY DEF Carried
<1>2. \A n \in 1..Len(main.out) : main.out[n] \in HalfItems \cup WholeItems
  BY <1>1
<1>3. \A x \in HalfItems \cup WholeItems : x.ev # "half a frame" /\ x.ev # "error"
  BY DEF HalfItems, WholeItems, Sent
<1> QED
  BY <1>1, <1>2, <1>3, ItemsTyped DEF WholeFrames

\* What the handler or a keep-alive writes of its own is no event.
LEMMA OwnSays ==
  ASSUME NEW e \in {"error", "end", "ping"}
  PROVE  /\ <<Item(e)>> \in Seq(Items) /\ WholeFrames(<<Item(e)>>) /\ EventsOf(<<Item(e)>>) = <<>>
         /\ <<Item("error"), Item("end")>> \in Seq(Items)
         /\ WholeFrames(<<Item("error"), Item("end")>>)
         /\ EventsOf(<<Item("error"), Item("end")>>) = <<>>
<1>1. \A d \in {"error", "end", "ping"} :
        Item(d) \in Items /\ EventOf(Item(d)) = <<>> /\ Item(d).ev = d
  BY DEF Item, Items, EventOf, Names
<1>2. ASSUME NEW v \in Items, NEW w \in Items, EventOf(v) = <<>>, EventOf(w) = <<>>,
             v.ev # "half a frame", w.ev # "half a frame"
      PROVE  /\ <<v>> \in Seq(Items) /\ WholeFrames(<<v>>) /\ EventsOf(<<v>>) = <<>>
             /\ <<v, w>> \in Seq(Items) /\ WholeFrames(<<v, w>>) /\ EventsOf(<<v, w>>) = <<>>
  <2>1. /\ <<v>> = Append(<<>>, v) /\ <<v, w>> = Append(<<v>>, w) /\ <<>> \in Seq(Items)
        /\ <<v>> \in Seq(Items) /\ <<v, w>> \in Seq(Items) /\ <<>> \o <<>> = <<>>
    OBVIOUS
  <2>2. EventsOf(<<v>>) = <<>>
    <3>1. EventsOf(<<v>>) = EventsOf(<<>>) \o EventOf(v)
      BY <2>1, EventsOfMore
    <3> QED
      BY <1>2, <2>1, <3>1, EventsOfMore
  <2>3. EventsOf(<<v, w>>) = <<>>
    <3>1. EventsOf(<<v, w>>) = EventsOf(<<v>>) \o EventOf(w)
      BY <2>1, EventsOfMore
    <3> QED
      BY <1>2, <2>1, <2>2, <3>1
  <2>4. WholeFrames(<<v>>) /\ WholeFrames(<<v, w>>)
    <3>1. /\ \A i \in 1..Len(<<v>>) : <<v>>[i] = v
          /\ \A i \in 1..Len(<<v, w>>) : <<v, w>>[i] \in {v, w}
      OBVIOUS
    <3> QED
      BY <1>2, <3>1 DEF WholeFrames
  <2> QED
    BY <2>1, <2>2, <2>3, <2>4
<1>3. <<Item(e)>> \in Seq(Items) /\ WholeFrames(<<Item(e)>>) /\ EventsOf(<<Item(e)>>) = <<>>
  <2>1. Item(e) \in Items /\ EventOf(Item(e)) = <<>> /\ Item(e).ev # "half a frame"
    BY <1>1
  <2> QED
    BY <1>2, <2>1
<1>4. /\ <<Item("error"), Item("end")>> \in Seq(Items)
      /\ WholeFrames(<<Item("error"), Item("end")>>)
      /\ EventsOf(<<Item("error"), Item("end")>>) = <<>>
  <2>1. /\ Item("error") \in Items /\ EventOf(Item("error")) = <<>>
        /\ Item("error").ev # "half a frame"
        /\ Item("end") \in Items /\ EventOf(Item("end")) = <<>> /\ Item("end").ev # "half a frame"
    BY <1>1
  <2> QED
    BY <1>2, <2>1
<1> QED
  BY <1>3, <1>4

\* The end of a reply is told as it is sent.
LEMMA LastTells ==
  ASSUME ask \in Asks, ask.opened, NEW n, n = Len(Sends)
  PROVE  SubSeq(Reply, 1, OutAt(n - 1)) \o <<Sends[n]>> = Reply
<1>1. n \in 1..Len(Sends) /\ Sends[n] \in {"stop", "done"}
  <2>1. ask.api \in {"anthropic", "openai"}
    BY Parameters
  <2>2. CASE ask.api = "anthropic"
    <3> DEFINE c == <<"start", "text", "delta", "stop">>
    <3>1. Sends = c
      BY <2>2 DEF Sends
    <3>2. Len(c) = 4 /\ c[4] = "stop"
      OBVIOUS
    <3> HIDE DEF c
    <3> QED
      BY <3>1, <3>2
  <2>3. CASE ask.api = "openai"
    <3> DEFINE d == <<"text", "usage", "done">>
    <3>1. Sends = d
      BY <2>3 DEF Sends
    <3>2. Len(d) = 3 /\ d[3] = "done"
      OBVIOUS
    <3> HIDE DEF d
    <3> QED
      BY <3>1, <3>2
  <2> QED
    BY <2>1, <2>2, <2>3
<1>2. Passed(Sends[n], UsageAt(n - 1)) = <<Item(Sends[n])>>
  BY <1>1 DEF Passed
<1>3. /\ <<Item(Sends[n])>> = <<Item(Reply[OutAt(n)])>>
      /\ OutAt(n) = OutAt(n - 1) + 1 /\ OutAt(n) \in 1..Len(Reply)
  <2>1. <<Item(Sends[n])>> # <<>>
    OBVIOUS
  <2> QED
    BY <1>1, <1>2, <2>1, OneEvent
<1>4. Sends[n] = Reply[OutAt(n)]
  <2>1. Item(Sends[n]) = Item(Reply[OutAt(n)])
    BY <1>3
  <2> QED
    BY <2>1 DEF Item
<1>5. OutAt(n) = Len(Reply) /\ Reply \in Seq(Names)
  BY ReplyIs
<1>6. PICK k \in Nat : k = Len(Reply)
  BY ReplyIs
<1>7. k \in 1..Len(Reply) /\ OutAt(n - 1) = k - 1 /\ Reply[k] = Sends[n]
  <2>1. OutAt(n - 1) = k - 1
    <3>1. OutAt(n - 1) \in Nat
      <4>1. n - 1 \in 0..Len(Sends)
        BY <1>1
      <4> QED
        BY <4>1, ReplyIs
    <3> QED
      BY <1>3, <1>5, <1>6, <3>1
  <2> QED
    BY <1>3, <1>4, <1>5, <1>6, <2>1
<1>8. SubSeq(Reply, 1, k) = SubSeq(Reply, 1, k - 1) \o <<Reply[k]>>
  BY <1>5, <1>7, OneMore
<1>9. SubSeq(Reply, 1, Len(Reply)) = Reply
  BY <1>5
<1> QED
  BY <1>6, <1>7, <1>8, <1>9

\* A piece of a stream that is passed on as it is.
LEMMA PieceTells ==
  ASSUME ask \in Asks, ~ask.opened, NEW m \in 0..Len(Halves), NEW n \in m..Len(Halves)
  PROVE  /\ Told(m) \o EventsOf(SubSeq(Halves, m + 1, n)) = Told(n)
         /\ SubSeq(Halves, m + 1, n) \in Seq(Items)
<1>1. Halves \in Seq(HalfItems) /\ Len(Halves) \in Nat
  BY HalvesTyped
<1>2. n \in 0..Len(Halves) /\ m \in Nat
  BY <1>1
<1>3. /\ Told(m) = EventsOf(SubSeq(Halves, 1, m))
      /\ Told(n) = EventsOf(SubSeq(Halves, 1, n))
  <2>1. Reply = Sends /\ \A j : OutAt(j) = j
    BY ReplyIs DEF OutAt
  <2> QED
    BY <1>2, <2>1, HalvesTell DEF Told
<1>4. SubSeq(Halves, 1, m) \o SubSeq(Halves, m + 1, n) = SubSeq(Halves, 1, n)
  BY <1>1, <1>2
<1>5. SubSeq(Halves, 1, m) \in Seq(HalfItems) /\ SubSeq(Halves, m + 1, n) \in Seq(HalfItems)
  BY <1>1, <1>2
<1>6. SubSeq(Halves, 1, m) \in Seq(Items) /\ SubSeq(Halves, m + 1, n) \in Seq(Items)
  BY <1>5, ItemsTyped
<1> QED
  BY <1>3, <1>4, <1>6, EventsOfBoth

\* The reply is told when all but its last half has been sent, and that half.
LEMMA EndTells ==
  ASSUME ask \in Asks, NEW m \in 0..Len(Halves), m >= Len(Halves) - 1,
         NEW waits, waits = IF ask.opened THEN RestAt(m) ELSE <<>>
  PROVE  Told(m) \o EventsOf(waits) = Reply
<1>1. PICK k \in Nat : k = Len(Sends) /\ Len(Halves) = 2 * k
  BY HalvesAre
<1>2. m = 2 * k \/ m = 2 * k - 1
  BY <1>1
<1>3. Reply \in Seq(Names) /\ SubSeq(Reply, 1, OutAt(k)) = Reply /\ Reply \o <<>> = Reply
  <2>1. Reply \in Seq(Names) /\ OutAt(k) = Len(Reply)
    BY <1>1, ReplyIs
  <2>2. SubSeq(Reply, 1, Len(Reply)) = Reply /\ Reply \o <<>> = Reply
    BY <2>1
  <2> QED
    BY <2>1, <2>2
<1>4. CASE ~ask.opened \/ m = 2 * k
  <2>1. Told(m) = Reply
    <3>1. (IF ask.opened THEN m \div 2 ELSE (m + 1) \div 2) = k
      BY <1>1, <1>2, <1>4
    <3> QED
      BY <1>3, <3>1 DEF Told
  <2>2. waits = <<>>
    <3>1. m = 2 * k => m % 2 = 0
      BY <1>1
    <3> QED
      BY <1>4, <3>1 DEF RestAt
  <2> QED
    BY <1>3, <2>1, <2>2, EventsOfMore
<1>5. CASE ask.opened /\ m = 2 * k - 1
  <2>1. m % 2 = 1 /\ m \div 2 = k - 1 /\ (m + 1) \div 2 = k /\ m \in 1..Len(Halves)
    BY <1>1, <1>5
  <2>2. waits = <<Halves[m]>>
    BY <1>5, <2>1 DEF RestAt
  <2>3. Halves[m] \in Items /\ EventOf(Halves[m]) = <<Sends[k]>>
    BY <2>1, HalvesAre
  <2>4. EventsOf(waits) = <<Sends[k]>>
    <3> DEFINE w == Halves[m]
    <3>1. w \in Items /\ waits = <<w>> /\ EventOf(w) = <<Sends[k]>>
      BY <2>2, <2>3
    <3> HIDE DEF w
    <3>2. <<w>> = Append(<<>>, w) /\ <<>> \in Seq(Items)
      OBVIOUS
    <3>3. EventsOf(<<w>>) = EventsOf(<<>>) \o EventOf(w)
      BY <3>1, <3>2, EventsOfMore
    <3>4. <<>> \o <<Sends[k]>> = <<Sends[k]>>
      OBVIOUS
    <3> QED
      BY <3>1, <3>3, <3>4, EventsOfMore
  <2>5. Told(m) = SubSeq(Reply, 1, OutAt(k - 1))
    BY <1>5, <2>1 DEF Told
  <2> QED
    BY <1>1, <1>5, <2>4, <2>5, LastTells
<1> QED
  BY <1>2, <1>4, <1>5

-------------------------------------------------------------------------------
\* The error is written last.
LEMMA ErrorMoved ==
  ASSUME TypeOK, TypeOK', ErrorIsLast,
         \/ wire' = wire /\ (main.pc = "closed" => main'.pc = "closed")
         \/ main'.pc = "closed"
         \/ /\ main.pc # "closed"
            /\ \E new \in Seq(Items) :
                  wire' = Written(new) /\ \A n \in 1..Len(new) : new[n].ev # "error"
  PROVE  ErrorIsLast'
<1>1. CASE wire' = wire /\ (main.pc = "closed" => main'.pc = "closed")
  BY <1>1 DEF ErrorIsLast
<1>2. CASE main'.pc = "closed"
  BY <1>2 DEF ErrorIsLast
<1>3. ASSUME main.pc # "closed", NEW new \in Seq(Items), wire' = Written(new),
             \A n \in 1..Len(new) : new[n].ev # "error"
      PROVE  ErrorIsLast'
  <2>1. \A i \in 1..Len(wire) : wire[i].ev # "error"
    BY <1>3 DEF ErrorIsLast
  <2>2. PICK m \in Nat, n \in Nat, k \in Nat : m = Len(wire) /\ n = Len(wire') /\ k = Len(new)
    BY <1>3, WireTyped, WireTypedNext
  <2>3. CASE More(new)
    <3>1. n = m + k /\ \A i \in 1..m : wire'[i] = wire[i]
      BY <2>2, <2>3 DEF More
    <3>2. \A i \in 1..k : wire'[m + i] = new[i]
      BY <2>2, <2>3 DEF More
    <3>3. ASSUME NEW i \in 1..n PROVE wire'[i].ev # "error"
      <4>1. CASE i \in 1..m
        BY <2>1, <2>2, <3>1, <4>1
      <4>2. CASE i \notin 1..m
        <5>1. i - m \in 1..k /\ m + (i - m) = i
          BY <3>1, <4>2
        <5>2. wire'[m + (i - m)] = new[i - m]
          BY <3>2, <5>1
        <5> QED
          BY <1>3, <2>2, <5>1, <5>2
      <4> QED
        BY <4>1, <4>2
    <3> QED
      BY <2>2, <3>3 DEF ErrorIsLast
  <2>4. CASE HalfMore
    <3>1. Len(wire') = Len(wire) + 1 /\ wire'[Len(wire) + 1].ev = "half a frame"
      BY <2>4 DEF HalfMore
    <3>2. n = m + 1
      BY <2>2, <3>1
    <3>3. \A i \in 1..m : wire'[i] = wire[i]
      BY <2>2, <2>4 DEF HalfMore
    <3>4. \A i \in 1..n : i \in 1..m \/ i = m + 1
      BY <3>2
    <3>5. \A i \in 1..n : wire'[i].ev # "error"
      BY <2>1, <2>2, <3>1, <3>3, <3>4
    <3> QED
      BY <2>2, <3>5 DEF ErrorIsLast
  <2>5. CASE wire' = wire
    BY <2>1, <2>5 DEF ErrorIsLast
  <2> QED
    BY <1>3, <2>3, <2>4, <2>5, Writes
<1> QED
  BY <1>1, <1>2, <1>3

\* The invariant of the promise.
PInv == IInv /\ ErrorIsLast /\ Telling

\* It holds at first.
LEMMA InitPInv == Init => PInv
<1> SUFFICES ASSUME Init PROVE PInv
  OBVIOUS
<1>1. IInv
  BY InitIInv
<1>2. /\ main = [pc |-> "begin", next |-> "", out |-> <<>>, waits |-> "before"]
      /\ wire = <<>> /\ up = 0 /\ rest = <<>> /\ usage = "none"
  BY DEF Init
<1>3. main.pc = "begin"
  BY <1>2
<1>4. ErrorIsLast
  <2>0. Len(wire) = 0
    BY <1>2, EmptyTyped
  <2>1. 1..Len(wire) = {}
    BY <2>0
  <2> QED
    BY <2>1 DEF ErrorIsLast
<1>5. Telling
  BY <1>2, <1>3 DEF Telling, Fresh, Midway, ToldNow, ToldSoon, ToldAll,
                    Starting, Relaying, Finishing
<1> QED
  BY <1>1, <1>4, <1>5 DEF PInv

\* The handler stands still, and what is written says nothing.
LEMMA Stands ==
  ASSUME PInv, ask' = ask, main' = main, up' = up, rest' = rest, usage' = usage,
         \/ wire' = wire
         \/ main.pc # "begin" /\ (Cut => Cut') /\ (Cut' \/ EventsOf(wire') = EventsOf(wire))
  PROVE  Telling'
<1>1. PICK u : u = up
  OBVIOUS
<1>2. /\ Reply' = Reply /\ Told(up)' = Told(up) /\ RestAt(up)' = RestAt(up)
      /\ UsageAt(up \div 2)' = UsageAt(up \div 2)
  BY <1>1, ToldStays
<1>3. (Cut => Cut') /\ (Cut' \/ EventsOf(wire') = EventsOf(wire))
  BY DEF Cut
<1>4. Fresh'
  BY DEF PInv, Telling, Fresh, Starting
<1>5. Midway'
  BY <1>2 DEF PInv, Telling, Midway, Relaying
<1>6. ToldNow'
  BY <1>2, <1>3 DEF PInv, Telling, ToldNow, Starting, Has
<1>7. ToldSoon'
  BY <1>2, <1>3 DEF PInv, Telling, ToldSoon, WillHave
<1>8. ToldAll'
  BY <1>2, <1>3 DEF PInv, Telling, ToldAll, Finishing, Has
<1> QED
  BY <1>4, <1>5, <1>6, <1>7, <1>8 DEF Telling

\* The handler goes where nothing more is owed: the client left, or is told that
\* the reply failed, or the stream is closed.
LEMMA OwesNothing ==
  ASSUME PInv, ask' = ask, rest' = rest,
         \/ main'.pc \in {"left", "say", "saying", "closed"}
         \/ main'.pc = "join" /\ main'.next \in {"say", "left"}
  PROVE  Telling'
<1>1. /\ ~Starting' /\ ~Relaying' /\ ~Finishing'
      /\ main'.pc \notin {"begin", "reading", "put", "putting"}
  BY DEF Starting, Relaying, Finishing
<1> QED
  BY <1>1 DEF PInv, Telling, Fresh, Midway, ToldNow, ToldSoon, ToldAll

\* What the invariant says, part by part.
LEMMA PParts ==
  PInv => /\ TypeOK /\ main \in Mains /\ Joins /\ Locked /\ Halted /\ Carried
          /\ Fresh /\ Midway /\ ToldNow /\ ToldSoon /\ ToldAll
<1>1. PInv => IInv /\ Telling
  BY DEF PInv
<1>2. IInv => TypeOK /\ Joins /\ Locked /\ Halted /\ Carried
  BY Parted
<1>3. TypeOK => main \in Mains
  BY Parts
<1> QED
  BY <1>1, <1>2, <1>3 DEF Telling

\* The splice is fed, or what a piece says goes on as it is.
LEMMA ReadTelling == PInv /\ Read => Telling'
<1> SUFFICES ASSUME PInv, Read PROVE Telling'
  OBVIOUS
<1>1. /\ TypeOK /\ main \in Mains /\ Joins /\ Locked /\ Halted /\ Carried
      /\ Fresh /\ Midway /\ ToldNow /\ ToldSoon /\ ToldAll
  BY PParts
<1>2. PICK n \in (up + 1)..Len(Halves) :
        LET piece == SubSeq(Halves, up + 1, n)
            fed == Fed(piece)
            out == IF Spliced THEN fed.out ELSE piece
        IN  /\ up' = n
            /\ IF Spliced THEN rest' = fed.rest /\ usage' = fed.usage
               ELSE UNCHANGED <<rest, usage>>
            /\ main' = [main EXCEPT !.out = out, !.next = "reading",
                                    !.pc = IF out = <<>> THEN "reading" ELSE "put"]
  BY DEF Read
<1>3. /\ main.pc = "reading" /\ ask' = ask /\ wire' = wire
  BY DEF Read
<1> DEFINE piece == SubSeq(Halves, up + 1, n)
           out == IF Spliced THEN Fed(piece).out ELSE piece
<1>4. /\ main' = [main EXCEPT !.out = out, !.next = "reading",
                              !.pc = IF out = <<>> THEN "reading" ELSE "put"]
      /\ up' = n
      /\ IF Spliced THEN rest' = Fed(piece).rest /\ usage' = Fed(piece).usage
         ELSE rest' = rest /\ usage' = usage
  BY <1>2
<1>5. ask \in Asks /\ up \in 0..Len(Halves) /\ Len(Halves) \in Nat /\ ask.opened \in BOOLEAN
  BY <1>1, HalvesTyped, Parameters DEF TypeOK
<1>6. n \in up..Len(Halves)
  BY <1>5
<1>22. ask.opened => rest = RestAt(up) /\ usage = UsageAt(up \div 2)
  <2>1. Midway /\ Relaying
    BY <1>1, <1>3 DEF Relaying
  <2> QED
    BY <2>1 DEF Midway
<1>7. Told(up) \o EventsOf(out) = Told(n)
  <2>1. CASE ask.opened
    <3>1. rest = RestAt(up) /\ usage = UsageAt(up \div 2)
      BY <1>22, <2>1
    <3>2. Told(up) \o EventsOf(Fed(piece).out) = Told(n)
      BY <1>5, <1>6, <2>1, <3>1, FedTells
    <3> QED
      BY <2>1, <3>2 DEF Spliced
  <2>2. CASE ~ask.opened
    <3>1. Told(up) \o EventsOf(piece) = Told(n)
      BY <1>5, <1>6, <2>2, PieceTells
    <3> QED
      BY <2>2, <3>1 DEF Spliced
  <2> QED
    BY <2>1, <2>2
<1>8. ask.opened => rest' = RestAt(n) /\ usage' = UsageAt(n \div 2)
  <2> SUFFICES ASSUME ask.opened PROVE rest' = RestAt(n) /\ usage' = UsageAt(n \div 2)
    OBVIOUS
  <2>1. rest = RestAt(up) /\ usage = UsageAt(up \div 2)
    BY <1>22
  <2>2. Fed(piece).rest = RestAt(n) /\ Fed(piece).usage = UsageAt(n \div 2)
    BY <1>5, <1>6, <2>1, FedTells
  <2> QED
    BY <1>4, <2>2 DEF Spliced
<1>9. ~ask.opened => rest' = <<>>
  BY <1>1, <1>4 DEF Fresh, Spliced
<1> HIDE DEF out, piece
<1>10. /\ main'.out = out /\ main'.next = "reading"
       /\ main'.pc = IF out = <<>> THEN "reading" ELSE "put"
  BY <1>1, <1>4 DEF Mains
<1>11. /\ Told(up)' = Told(n) /\ RestAt(up)' = RestAt(n) /\ UsageAt(up \div 2)' = UsageAt(n \div 2)
  BY <1>3, <1>4, ToldStays
<1>12. ~Starting' /\ ~Finishing' /\ main'.pc # "begin"
  BY <1>10 DEF Starting, Finishing
<1>13. Fresh'
  BY <1>3, <1>9, <1>12 DEF Fresh
<1>14. Midway'
  BY <1>3, <1>8, <1>11 DEF Midway
<1>15. Cut' = Cut /\ EventsOf(wire)' = EventsOf(wire) /\ (Cut \/ EventsOf(wire) = Told(up))
  <2>1. Cut' = Cut /\ EventsOf(wire)' = EventsOf(wire)
    BY <1>3 DEF Cut
  <2> QED
    BY <1>1, <1>3, <2>1 DEF ToldNow, Has
<1>16. ToldNow'
  <2> SUFFICES ASSUME main'.pc = "reading" PROVE Has(Told(up))'
    BY <1>12 DEF ToldNow
  <2>1. out = <<>>
    BY <1>10
  <2>2. Told(up) = Told(n)
    BY <1>1, <1>7, <2>1, ToldTyped, EventsOfMore
  <2> QED
    BY <1>11, <1>15, <2>2 DEF Has
<1>17. ToldSoon'
  <2>1. Cut \/ EventsOf(wire) \o EventsOf(out) = Told(n)
    BY <1>7, <1>15
  <2>2. WillHave(Told(up))'
    BY <1>10, <1>11, <1>15, <2>1 DEF WillHave
  <2> QED
    BY <1>10, <2>2 DEF ToldSoon
<1>18. ToldAll'
  BY <1>12 DEF ToldAll
<1> QED
  BY <1>13, <1>14, <1>16, <1>17, <1>18 DEF Telling

\* What is left of the backend's stream is the end of the reply.
LEMMA ReadEndTelling == PInv /\ ReadEnd => Telling'
<1> SUFFICES ASSUME PInv, ReadEnd PROVE Telling'
  OBVIOUS
<1>1. /\ TypeOK /\ main \in Mains /\ Joins /\ Locked /\ Halted /\ Carried
      /\ Fresh /\ Midway /\ ToldNow /\ ToldSoon /\ ToldAll
  BY PParts
<1>2. /\ main.pc = "reading" /\ up >= Len(Halves) - 1 /\ rest' = <<>>
      /\ ask' = ask /\ up' = up /\ wire' = wire
      /\ rest # <<>> => main' = [main EXCEPT !.pc = "put", !.next = "done",
                                             !.out = [i \in 1..Len(rest) |-> rest[i]]]
      /\ rest = <<>> => Goto("done")
  BY DEF ReadEnd
<1>3. ask \in Asks /\ up \in 0..Len(Halves) /\ ask.opened \in BOOLEAN /\ rest \in Seq(Items)
  BY <1>1, Parameters DEF TypeOK
<1>4. Told(up) \o EventsOf(rest) = Reply
  <2>1. rest = IF ask.opened THEN RestAt(up) ELSE <<>>
    <3>1. Midway /\ Relaying /\ Fresh
      BY <1>1, <1>2 DEF Relaying
    <3> QED
      BY <1>3, <3>1 DEF Midway, Fresh
  <2> QED
    BY <1>2, <1>3, <2>1, EndTells
<1>5. [i \in 1..Len(rest) |-> rest[i]] = rest
  BY <1>3
<1>6. /\ rest # <<>> => main'.pc = "put" /\ main'.next = "done" /\ main'.out = rest
      /\ rest = <<>> => main'.pc = "done"
  <2>1. rest # <<>> => main' = [main EXCEPT !.pc = "put", !.next = "done", !.out = rest]
    BY <1>2, <1>5
  <2>2. rest # <<>> => main'.pc = "put" /\ main'.next = "done" /\ main'.out = rest
    BY <1>1, <2>1 DEF Mains
  <2>3. rest = <<>> => main'.pc = "done"
    BY <1>1, <1>2, Goes
  <2> QED
    BY <2>2, <2>3
<1>7. ~Starting' /\ ~Relaying' /\ main'.pc \notin {"begin", "reading"}
  BY <1>6 DEF Starting, Relaying
<1>8. Reply' = Reply
  <2>1. PICK u : u = up
    OBVIOUS
  <2> QED
    BY <1>2, <2>1, ToldStays
<1>9. Cut' = Cut /\ EventsOf(wire)' = EventsOf(wire) /\ (Cut \/ EventsOf(wire) = Told(up))
  <2>1. Cut' = Cut /\ EventsOf(wire)' = EventsOf(wire)
    BY <1>2 DEF Cut
  <2> QED
    BY <1>1, <1>2, <2>1 DEF ToldNow, Has
<1>10. Fresh' /\ Midway' /\ ToldNow'
  BY <1>2, <1>7 DEF Fresh, Midway, ToldNow
<1>11. ToldSoon'
  <2> SUFFICES ASSUME main'.pc \in {"put", "putting"} PROVE WillHave(Reply)'
    BY <1>6 DEF ToldSoon
  <2>1. main'.out = rest
    BY <1>6
  <2> QED
    BY <1>4, <1>8, <1>9, <2>1 DEF WillHave
<1>12. ToldAll'
  <2> SUFFICES ASSUME Finishing' PROVE Has(Reply)'
    BY DEF ToldAll
  <2>1. rest = <<>>
    BY <1>6 DEF Finishing
  <2>2. Told(up) = Reply
    BY <1>1, <1>4, <2>1, ToldTyped, EventsOfMore
  <2> QED
    BY <1>8, <1>9, <2>2 DEF Has
<1> QED
  BY <1>10, <1>11, <1>12 DEF Telling

\* The opening goes out first.
LEMMA OpenTelling == PInv /\ TypeOK' /\ Open => Telling'
<1> SUFFICES ASSUME PInv, TypeOK', Open PROVE Telling'
  OBVIOUS
<1>1. /\ TypeOK /\ main \in Mains /\ Joins /\ Locked /\ Halted /\ Carried
      /\ Fresh /\ Midway /\ ToldNow /\ ToldSoon /\ ToldAll
  BY PParts
<1> DEFINE items == IF ask.api = "anthropic" THEN <<Item("open")>> ELSE <<>>
<1>2. /\ main.pc = "begin" /\ ask.opened /\ wire' = Written(items)
      /\ client = "there" => Goto("working")
      /\ client # "there" => Goto("left")
      /\ ask' = ask /\ up' = up /\ rest' = rest /\ usage' = usage
  BY DEF Open
<1>3. client # "there" => main'.pc = "left"
  BY <1>1, <1>2, Goes
<1>4. client = "there" => main'.pc = "working"
  BY <1>1, <1>2, Goes
<1>5. CASE client # "there"
  BY <1>2, <1>3, <1>5, OwesNothing
<1>6. CASE client = "there"
  <2>1. Starting /\ wire = <<>> /\ up = 0
    BY <1>1, <1>2 DEF Starting, Fresh
  <2>2. Starting' /\ ~Relaying' /\ ~Finishing' /\ main'.pc = "working"
    BY <1>4, <1>6 DEF Starting, Relaying, Finishing
  <2>3. Fresh' /\ Midway' /\ ToldSoon' /\ ToldAll'
    BY <1>1, <1>2, <2>1, <2>2 DEF Fresh, Midway, ToldSoon, ToldAll
  <2>4. items \in Seq(Items) /\ WholeFrames(items) /\ EventsOf(items) = Told(0)
    <3>1. ask \in Asks
      BY <1>1 DEF TypeOK
    <3>2. PICK q : q = items
      OBVIOUS
    <3>3. q \in Seq(Items) /\ EventsOf(q) = Told(0) /\ WholeFrames(q)
      BY <1>2, <3>1, <3>2, OpeningIs DEF WholeFrames
    <3> QED
      BY <3>2, <3>3
  <2> HIDE DEF items
  <2>5. Cut' \/ EventsOf(wire') = EventsOf(wire) \o EventsOf(items)
    BY <1>1, <1>2, <1>6, <2>4, WriteGets DEF Gets
  <2>6. EventsOf(wire) \o EventsOf(items) = Told(0)
    <3>1. EventsOf(wire) = <<>> /\ EventsOf(items) \in Seq(Names)
      BY <2>1, <2>4, EventsOfMore
    <3>2. \A q \in Seq(Names) : <<>> \o q = q
      OBVIOUS
    <3> QED
      BY <2>4, <3>1, <3>2
  <2>7. Told(up)' = Told(0)
    <3>1. PICK u : u = up /\ u = 0
      BY <2>1
    <3> QED
      BY <1>2, <3>1, ToldStays
  <2>8. ToldNow'
    BY <2>5, <2>6, <2>7 DEF ToldNow, Has
  <2> QED
    BY <2>3, <2>8 DEF Telling
<1> QED
  BY <1>5, <1>6

\* A reply that is not opened has no opening.
LEMMA NotOpenedTelling == PInv /\ NotOpened => Telling'
<1> SUFFICES ASSUME PInv, NotOpened PROVE Telling'
  OBVIOUS
<1>1. /\ TypeOK /\ main \in Mains /\ Joins /\ Locked /\ Halted /\ Carried
      /\ Fresh /\ Midway /\ ToldNow /\ ToldSoon /\ ToldAll
  BY PParts
<1>2. /\ main.pc = "begin" /\ ~ask.opened /\ Goto("connect")
      /\ ask' = ask /\ up' = up /\ rest' = rest /\ usage' = usage /\ wire' = wire
  BY DEF NotOpened
<1>3. main'.pc = "connect"
  BY <1>1, <1>2, Goes
<1>4. Starting /\ wire = <<>> /\ up = 0
  BY <1>1, <1>2 DEF Starting, Fresh
<1>5. Starting' /\ ~Relaying' /\ ~Finishing'
  BY <1>3 DEF Starting, Relaying, Finishing
<1>6. Fresh' /\ Midway' /\ ToldSoon' /\ ToldAll'
  BY <1>1, <1>2, <1>3, <1>4, <1>5 DEF Fresh, Midway, ToldSoon, ToldAll
<1>7. Told(up)' = Told(0)
  <2>1. PICK u : u = up /\ u = 0
    BY <1>4
  <2> QED
    BY <1>2, <2>1, ToldStays
<1>8. EventsOf(wire') = Told(0)
  <2>1. ask \in Asks
    BY <1>1 DEF TypeOK
  <2> QED
    BY <1>2, <1>4, <2>1, AtFirst, EventsOfMore
<1>9. ToldNow'
  BY <1>7, <1>8 DEF ToldNow, Has
<1> QED
  BY <1>6, <1>9 DEF Telling

\* The turn, and the wait for a keep-alive, say nothing.
LEMMA WaitTelling == PInv /\ (Work \/ Joined) => Telling'
<1> SUFFICES ASSUME PInv, Work \/ Joined PROVE Telling'
  OBVIOUS
<1>1. /\ TypeOK /\ main \in Mains /\ Joins /\ Locked /\ Halted /\ Carried
      /\ Fresh /\ Midway /\ ToldNow /\ ToldSoon /\ ToldAll
  BY PParts
<1>2. ask' = ask /\ up' = up /\ rest' = rest /\ usage' = usage /\ wire' = wire
  BY DEF Work, Joined
<1>3. \/ Starting /\ main.pc # "begin" /\ Starting' /\ main'.pc \in {"join", "connect"}
      \/ Finishing /\ Finishing' /\ main'.pc = "end"
      \/ main'.pc \in {"left", "say", "saying", "closed"}
      \/ main'.pc = "join" /\ main'.next \in {"say", "left"}
  <2>1. CASE Work
    <3>1. PICK next \in {"connect", "say", "left"} : Await("before", next)
      BY <2>1 DEF Work
    <3>2. main'.pc = "join" /\ main'.next = next /\ main.pc = "working"
      BY <2>1, <3>1, Awaits DEF Pingers, Work
    <3> QED
      BY <3>1, <3>2 DEF Starting
  <2>2. CASE Joined
    <3>1. main.pc = "join" /\ Goto(main.next) /\ main.next \in {"connect", "say", "left", "end"}
      BY <1>1, <2>2 DEF Joined, Joins
    <3>2. main'.pc = main.next
      BY <1>1, <3>1, Goes
    <3> QED
      BY <3>1, <3>2 DEF Starting, Finishing
  <2> QED
    BY <2>1, <2>2
<1>4. Reply' = Reply /\ Told(up)' = Told(up)
  <2>1. PICK u : u = up
    OBVIOUS
  <2> QED
    BY <1>2, <2>1, ToldStays
<1>5. Cut' = Cut /\ EventsOf(wire)' = EventsOf(wire)
  BY <1>2 DEF Cut
<1>6. CASE Starting /\ main.pc # "begin" /\ Starting' /\ main'.pc \in {"join", "connect"}
  <2>1. ~Relaying' /\ ~Finishing' /\ main'.pc \notin {"begin", "put", "putting"}
    BY <1>6 DEF Starting, Relaying, Finishing
  <2>2. Fresh' /\ Midway' /\ ToldSoon' /\ ToldAll'
    BY <1>1, <1>2, <1>6, <2>1 DEF Fresh, Midway, ToldSoon, ToldAll
  <2>3. ToldNow'
    BY <1>1, <1>4, <1>5, <1>6 DEF ToldNow, Has
  <2> QED
    BY <2>2, <2>3 DEF Telling
<1>7. CASE Finishing /\ Finishing' /\ main'.pc = "end"
  <2>1. ~Starting' /\ ~Relaying'
    BY <1>7 DEF Starting, Relaying
  <2>2. Fresh' /\ Midway' /\ ToldNow' /\ ToldSoon'
    BY <1>1, <1>2, <1>7, <2>1 DEF Fresh, Midway, ToldNow, ToldSoon
  <2>3. ToldAll'
    BY <1>1, <1>4, <1>5, <1>7 DEF ToldAll, Has
  <2> QED
    BY <2>2, <2>3 DEF Telling
<1> QED
  BY <1>2, <1>3, <1>6, <1>7, OwesNothing

\* The backend is opened with the splice empty, or refuses.
LEMMA ConnectTelling == PInv /\ Connect => Telling'
<1> SUFFICES ASSUME PInv, Connect PROVE Telling'
  OBVIOUS
<1>1. /\ TypeOK /\ main \in Mains /\ Joins /\ Locked /\ Halted /\ Carried
      /\ Fresh /\ Midway /\ ToldNow /\ ToldSoon /\ ToldAll
  BY PParts
<1>2. /\ main.pc = "connect"
      /\ ask' = ask /\ up' = up /\ rest' = rest /\ usage' = usage
      /\ \/ Goto("reading") /\ wire' = wire
         \/ Goto("say")
         \/ Goto("closed")
  BY DEF Connect
<1>3. \/ main'.pc = "reading" /\ wire' = wire
      \/ main'.pc \in {"say", "closed"}
  BY <1>1, <1>2, Goes
<1>4. CASE main'.pc \in {"say", "closed"}
  BY <1>2, <1>4, OwesNothing
<1>5. CASE main'.pc = "reading" /\ wire' = wire
  <2>1. Starting /\ up = 0 /\ rest = <<>> /\ usage = "none" /\ main.pc # "begin"
    BY <1>1, <1>2 DEF Starting, Fresh
  <2>2. ~Starting' /\ ~Finishing'
    BY <1>5 DEF Starting, Finishing
  <2>3. /\ Told(up)' = Told(up) /\ RestAt(up)' = RestAt(0)
        /\ UsageAt(up \div 2)' = UsageAt(0 \div 2)
    <3>1. PICK u : u = up /\ u = 0
      BY <2>1
    <3> QED
      BY <1>2, <3>1, ToldStays
  <2>4. RestAt(0) = <<>> /\ UsageAt(0 \div 2) = "none"
    <3>1. ask \in Asks
      BY <1>1 DEF TypeOK
    <3> QED
      BY <3>1, AtFirst
  <2>5. Fresh' /\ ToldSoon' /\ ToldAll'
    BY <1>2, <1>5, <2>1, <2>2 DEF Fresh, ToldSoon, ToldAll
  <2>6. Midway'
    BY <1>2, <2>1, <2>3, <2>4 DEF Midway
  <2>7. ToldNow'
    <3>1. Cut' = Cut /\ EventsOf(wire)' = EventsOf(wire)
      BY <1>5 DEF Cut
    <3> QED
      BY <1>1, <2>1, <2>3, <3>1 DEF ToldNow, Has
  <2> QED
    BY <2>5, <2>6, <2>7 DEF Telling
<1> QED
  BY <1>3, <1>4, <1>5

\* The backend is given up on, the reply is over, or the lock is taken.
LEMMA PassTelling == PInv /\ (Reset \/ Done \/ Lock) => Telling'
<1> SUFFICES ASSUME PInv, Reset \/ Done \/ Lock PROVE Telling'
  OBVIOUS
<1>1. /\ TypeOK /\ main \in Mains /\ Joins /\ Locked /\ Halted /\ Carried
      /\ Fresh /\ Midway /\ ToldNow /\ ToldSoon /\ ToldAll
  BY PParts
<1>2. ask' = ask /\ up' = up /\ rest' = rest /\ usage' = usage /\ wire' = wire
  BY DEF Reset, Done, Lock
<1>3. \/ main'.pc = "join" /\ main'.next = "say"
      \/ Finishing /\ main'.pc = "join" /\ main'.next = "end"
      \/ main.pc = "put" /\ main'.pc = "putting" /\ main'.next = main.next /\ main'.out = main.out
      \/ Finishing /\ main'.pc = "ending"
      \/ main'.pc = "saying"
  <2>1. CASE Reset
    <3>1. Await("within", "say")
      BY <2>1 DEF Reset
    <3> QED
      BY <3>1, Awaits DEF Pingers
  <2>2. CASE Done
    <3>1. Await("within", "end") /\ main.pc = "done"
      BY <2>2 DEF Done
    <3> QED
      BY <3>1, Awaits DEF Pingers, Finishing
  <2>3. CASE Lock
    <3>1. \/ main.pc = "put" /\ main' = [main EXCEPT !.pc = "putting"]
          \/ main.pc = "end" /\ main' = [main EXCEPT !.pc = "ending"]
          \/ main.pc = "say" /\ main' = [main EXCEPT !.pc = "saying"]
      BY <2>3 DEF Lock
    <3> QED
      BY <1>1, <3>1 DEF Mains, Finishing
  <2> QED
    BY <2>1, <2>2, <2>3
<1>4. /\ Reply' = Reply /\ Told(up)' = Told(up) /\ RestAt(up)' = RestAt(up)
      /\ UsageAt(up \div 2)' = UsageAt(up \div 2)
  <2>1. PICK u : u = up
    OBVIOUS
  <2> QED
    BY <1>2, <2>1, ToldStays
<1>5. Cut' = Cut /\ EventsOf(wire)' = EventsOf(wire)
  BY <1>2 DEF Cut
<1>6. CASE Finishing /\ (main'.pc = "ending" \/ (main'.pc = "join" /\ main'.next = "end"))
  <2>1. ~Starting' /\ ~Relaying' /\ main'.pc \notin {"begin", "reading", "put", "putting"}
    BY <1>6 DEF Starting, Relaying
  <2>2. Fresh' /\ Midway' /\ ToldNow' /\ ToldSoon'
    BY <1>1, <1>2, <2>1 DEF Fresh, Midway, ToldNow, ToldSoon
  <2>3. ToldAll'
    BY <1>1, <1>4, <1>5, <1>6 DEF ToldAll, Has
  <2> QED
    BY <2>2, <2>3 DEF Telling
<1>7. CASE /\ main.pc = "put" /\ main'.pc = "putting" /\ main'.next = main.next
           /\ main'.out = main.out
  <2>1. ~Starting' /\ ~Finishing' /\ (Relaying' => Relaying)
    BY <1>7 DEF Starting, Finishing, Relaying
  <2>2. Fresh' /\ ToldNow' /\ ToldAll'
    BY <1>1, <1>2, <1>7, <2>1 DEF Fresh, ToldNow, ToldAll
  <2>3. Midway'
    BY <1>1, <1>2, <1>4, <2>1 DEF Midway
  <2>4. ToldSoon'
    BY <1>1, <1>4, <1>5, <1>7 DEF ToldSoon, WillHave
  <2> QED
    BY <2>2, <2>3, <2>4 DEF Telling
<1> QED
  BY <1>2, <1>3, <1>6, <1>7, OwesNothing

\* A piece goes out, to a client that reads, or no more is owed.
LEMMA PutPieceTelling == PInv /\ TypeOK' /\ PutPiece => Telling'
<1> SUFFICES ASSUME PInv, TypeOK', PutPiece PROVE Telling'
  OBVIOUS
<1>1. /\ TypeOK /\ main \in Mains /\ Joins /\ Locked /\ Halted /\ Carried
      /\ Fresh /\ Midway /\ ToldNow /\ ToldSoon /\ ToldAll
  BY PParts
<1>2. /\ main.pc = "putting" /\ main.next \in {"reading", "done"} /\ wire' = Written(main.out)
      /\ ask' = ask /\ up' = up /\ rest' = rest /\ usage' = usage
      /\ client = "there" => Goto(main.next)
      /\ client = "gone" => Goto("left")
      /\ client = "stalled" => Await("within", "say")
  BY <1>1 DEF PutPiece, Put, Joins
<1>3. /\ client = "there" => main'.pc = main.next /\ main'.next = main.next
      /\ client = "gone" => main'.pc = "left"
      /\ client = "stalled" => main'.pc = "join" /\ main'.next = "say"
  <2>1. client = "there" => main'.pc = main.next /\ main'.next = main.next
    BY <1>1, <1>2, Goes
  <2>2. client = "gone" => main'.pc = "left"
    BY <1>1, <1>2, Goes
  <2>3. client = "stalled" => main'.pc = "join" /\ main'.next = "say"
    BY <1>2, Awaits DEF Pingers
  <2> QED
    BY <2>1, <2>2, <2>3
<1>4. CASE client # "there"
  <2>1. client \in {"stalled", "gone"}
    BY <1>1, <1>4, Parts
  <2> QED
    BY <1>2, <1>3, <2>1, OwesNothing
<1>5. CASE client = "there"
  <2>1. main.out \in Seq(Items) /\ WholeFrames(main.out)
    BY <1>1, PieceIs
  <2>2. (Cut => Cut') /\ (Cut' \/ EventsOf(wire') = EventsOf(wire) \o EventsOf(main.out))
    BY <1>1, <1>2, <1>5, <2>1, WriteGets DEF Gets
  <2>3. Cut' \/ EventsOf(wire') = IF main.next = "reading" THEN Told(up) ELSE Reply
    BY <1>1, <1>2, <2>2 DEF ToldSoon, WillHave
  <2>4. /\ Reply' = Reply /\ Told(up)' = Told(up) /\ RestAt(up)' = RestAt(up)
        /\ UsageAt(up \div 2)' = UsageAt(up \div 2)
    <3>1. PICK u : u = up
      OBVIOUS
    <3> QED
      BY <1>2, <3>1, ToldStays
  <2>5. main'.pc = main.next /\ main'.pc \in {"reading", "done"}
    BY <1>2, <1>3, <1>5
  <2>6. ~Starting' /\ (Relaying' => Relaying)
    BY <1>2, <2>5 DEF Starting, Relaying
  <2>7. Fresh' /\ ToldSoon'
    BY <1>1, <1>2, <2>5, <2>6 DEF Fresh, ToldSoon
  <2>8. Midway'
    BY <1>1, <1>2, <2>4, <2>6 DEF Midway
  <2>9. ToldNow'
    BY <2>3, <2>4, <2>5, <2>6 DEF ToldNow, Has
  <2>10. ToldAll'
    <3> SUFFICES ASSUME Finishing' PROVE Has(Reply)'
      BY DEF ToldAll
    <3>1. main.next # "reading"
      BY <2>5 DEF Finishing
    <3> QED
      BY <2>3, <2>4, <3>1 DEF Has
  <2> QED
    BY <2>7, <2>8, <2>9, <2>10 DEF Telling
<1> QED
  BY <1>4, <1>5

\* Behind the end, and behind an error, nothing is owed.
LEMMA EndTelling == PInv /\ (PutEnd \/ SayAndEnd) => Telling'
<1> SUFFICES ASSUME PInv, PutEnd \/ SayAndEnd PROVE Telling'
  OBVIOUS
<1>1. TypeOK
  BY PParts
<1>2. ask' = ask /\ rest' = rest
  BY DEF PutEnd, SayAndEnd, Put
<1>3. \/ main'.pc \in {"left", "closed"}
      \/ main'.pc = "join" /\ main'.next = "say"
  <2>1. \/ Goto("closed") \/ Goto("left") \/ Await("within", "say")
    BY <1>1, Parts DEF PutEnd, SayAndEnd, Put
  <2>2. CASE Goto("closed")
    BY <1>1, <2>2, Goes
  <2>3. CASE Goto("left")
    BY <1>1, <2>3, Goes
  <2>4. CASE Await("within", "say")
    BY <2>4, Awaits DEF Pingers
  <2> QED
    BY <2>1, <2>2, <2>3, <2>4
<1> QED
  BY <1>2, <1>3, OwesNothing

\* A keep-alive is no event.
LEMMA BeatTelling == ASSUME PInv, TypeOK', NEW p \in Pingers, Beat(p) PROVE Telling'
<1>1. /\ TypeOK /\ main \in Mains /\ Joins /\ Locked /\ Halted /\ Carried
      /\ Fresh /\ Midway /\ ToldNow /\ ToldSoon /\ ToldAll
  BY PParts
<1> DEFINE items == <<Item("ping")>>
<1>2. /\ ping[p] = "writing" /\ ask' = ask /\ main' = main /\ up' = up
      /\ rest' = rest /\ usage' = usage /\ wire' = Written(items)
  BY DEF Beat
<1>3. items \in Seq(Items) /\ WholeFrames(items)
  BY OwnSays
<1>4. EventsOf(items) = EventsOf(<<>>)
  BY OwnSays, EventsOfMore
<1> HIDE DEF items
<1>5. main.pc # "begin"
  BY <1>1, <1>2 DEF Halted, Pingers
<1>6. EventsOf(wire) \o EventsOf(items) = EventsOf(wire)
  BY <1>1, <1>4, ToldTyped
<1>7. \/ wire' = wire
      \/ (Cut => Cut') /\ (Cut' \/ EventsOf(wire') = EventsOf(wire))
  BY <1>1, <1>2, <1>3, <1>6, WriteGets DEF Gets
<1> QED
  BY <1>2, <1>5, <1>7, Stands

\* The error goes out with the end, and behind it the stream is closed.
LEMMA ErrorStays == PInv /\ TypeOK' /\ [Next]_vars => ErrorIsLast'
<1> SUFFICES ASSUME PInv, TypeOK', [Next]_vars PROVE ErrorIsLast'
  OBVIOUS
<1>1. TypeOK /\ main \in Mains /\ Locked /\ Halted /\ Carried /\ ErrorIsLast
  BY PParts DEF PInv
<1>2. ASSUME wire' = wire, main.pc = "closed" => main'.pc = "closed"
      PROVE  ErrorIsLast'
  BY <1>1, <1>2, ErrorMoved
<1>3. ASSUME main'.pc = "closed"
      PROVE  ErrorIsLast'
  BY <1>1, <1>3, ErrorMoved
<1>4. ASSUME main.pc # "closed", NEW new \in Seq(Items), wire' = Written(new),
             \A n \in 1..Len(new) : new[n].ev # "error"
      PROVE  ErrorIsLast'
  BY <1>1, <1>4, ErrorMoved
<1>5. ASSUME NEW e \in {"end", "ping"}, main.pc # "closed",
             wire' = Written(<<Item(e)>>)
      PROVE  ErrorIsLast'
  <2> DEFINE q == <<Item(e)>>
  <2>1. q \in Seq(Items) /\ Len(q) = 1 /\ q[1] = Item(e) /\ Item(e).ev = e
    BY OwnTyped
  <2> HIDE DEF q
  <2>2. \A n \in 1..Len(q) : q[n] = Item(e)
    BY <2>1
  <2>3. \A n \in 1..Len(q) : q[n].ev # "error"
    BY <2>1, <2>2
  <2> QED
    BY <1>4, <1>5, <2>1, <2>3 DEF q
<1>6. CASE NotOpened \/ Work \/ Joined \/ Read \/ ReadEnd \/ Reset \/ Lock \/ Done
  BY <1>2, <1>6 DEF NotOpened, Work, Joined, Read, ReadEnd, Reset, Lock, Done
<1>7. CASE Open
  <2>1. PICK items : items = IF ask.api = "anthropic" THEN <<Item("open")>> ELSE <<>>
    OBVIOUS
  <2>2. main.pc # "closed" /\ ask.opened /\ wire' = Written(items)
    BY <1>7, <2>1 DEF Open
  <2>3. items \in Seq(Items) /\ \A n \in 1..Len(items) : items[n].ev # "error"
    <3>1. ask \in Asks
      BY <1>1 DEF TypeOK
    <3> QED
      BY <1>1, <2>1, <2>2, <3>1, OpeningIs
  <2> QED
    BY <1>4, <2>2, <2>3
<1>8. CASE Connect
  <2>1. \/ wire' = wire /\ main.pc # "closed"
        \/ Goto("closed")
    BY <1>8 DEF Connect
  <2> QED
    BY <1>1, <1>2, <1>3, <2>1, Goes
<1>9. CASE PutPiece
  <2>1. main.pc # "closed" /\ wire' = Written(main.out)
    BY <1>9 DEF PutPiece, Put
  <2> QED
    BY <1>1, <1>4, <2>1, PieceIs
<1>10. CASE PutEnd
  BY <1>5, <1>10 DEF PutEnd, Put
<1>11. CASE SayAndEnd
  BY <1>1, <1>3, <1>11, Goes DEF SayAndEnd
<1>12. ASSUME NEW p \in Pingers, PingStep(p) PROVE ErrorIsLast'
  <2>1. CASE Wake(p) \/ Stop(p) \/ Claim(p)
    BY <1>2, <2>1 DEF Wake, Stop, Claim
  <2>2. CASE Beat(p)
    <3>1. ping[p] = "writing" /\ wire' = Written(<<Item("ping")>>)
      BY <2>2 DEF Beat
    <3>2. main.pc # "closed"
      BY <1>1, <3>1 DEF Locked, Halted, Pingers
    <3> QED
      BY <1>5, <3>1, <3>2
  <2> QED
    BY <1>12, <2>1, <2>2 DEF PingStep
<1>13. CASE Leave \/ Stall \/ Resume \/ UNCHANGED vars
  BY <1>2, <1>13 DEF Leave, Stall, Resume, vars
<1> QED
  BY <1>6, <1>7, <1>8, <1>9, <1>10, <1>11, <1>12, <1>13 DEF Next, MainStep

\* Every step keeps the invariant of the promise.
LEMMA NextPInv == PInv /\ [Next]_vars => PInv'
<1> SUFFICES ASSUME PInv, [Next]_vars PROVE PInv'
  OBVIOUS
<1>1. IInv'
  BY NextIInv DEF PInv
<1>2. TypeOK'
  <2>1. IInv => TypeOK
    BY Parted
  <2> QED
    BY <1>1 DEF IInv, Control
<1>3. ErrorIsLast'
  BY <1>2, ErrorStays
<1>4. Telling'
  <2>1. CASE MainStep
    BY <1>2, <2>1, OpenTelling, NotOpenedTelling, WaitTelling, ConnectTelling, ReadTelling,
       ReadEndTelling, PassTelling, PutPieceTelling, EndTelling DEF MainStep
  <2>2. ASSUME NEW p \in Pingers, PingStep(p) PROVE Telling'
    <3>1. CASE Wake(p) \/ Stop(p) \/ Claim(p)
      BY <3>1, Stands DEF Wake, Stop, Claim
    <3>2. CASE Beat(p)
      BY <1>2, <3>2, BeatTelling
    <3> QED
      BY <2>2, <3>1, <3>2 DEF PingStep
  <2>3. CASE Leave \/ Stall \/ Resume \/ UNCHANGED vars
    BY <2>3, Stands DEF Leave, Stall, Resume, vars
  <2> QED
    BY <2>1, <2>2, <2>3 DEF Next
<1> QED
  BY <1>1, <1>3, <1>4 DEF PInv

\* The invariant of the promise holds.
LEMMA PromiseInvariant == Spec => []PInv
  BY InitPInv, NextPInv, PTL DEF Spec

-------------------------------------------------------------------------------
\* The steps of the promise.

\* What a client cannot read is what is cut.
LEMMA CutIs == TypeOK => (Readable # wire <=> Cut)
<1> SUFFICES ASSUME TypeOK PROVE Readable # wire <=> Cut
  OBVIOUS
<1>1. CASE ~Cut
  BY <1>1 DEF Readable, Cut
<1>2. CASE Cut
  <2>1. PICK f : FirstCut(f, wire) /\ Readable = SubSeq(wire, 1, f - 1)
    BY <1>2, ReadToCut
  <2>2. PICK m \in Nat : m = Len(wire)
    BY WireTyped
  <2>3. f \in 1..m
    BY <2>1, <2>2 DEF FirstCut
  <2>4. Len(SubSeq(wire, 1, f - 1)) = f - 1
    <3>1. PICK k \in Nat : k = f - 1
      BY <2>3
    <3>2. k <= Len(wire)
      BY <2>2, <2>3, <3>1
    <3>3. wire \in Seq(Items)
      BY WireTyped
    <3>4. Len(SubSeq(wire, 1, k)) = k
      BY <3>2, <3>3, SameStart
    <3> QED
      BY <3>1, <3>4
  <2>5. f - 1 # m
    BY <2>3
  <2> QED
    BY <1>2, <2>1, <2>2, <2>4, <2>5
<1> QED
  BY <1>1, <1>2

\* A stream that is not closed shows no end.
LEMMA NoEndYet == PInv /\ main.pc # "closed" => ~Shows("error") /\ ~Shows("end")
<1> SUFFICES ASSUME PInv, main.pc # "closed" PROVE ~Shows("error") /\ ~Shows("end")
  OBVIOUS
<1>1. TypeOK
  BY PParts
<1>2. \A i \in 1..Len(wire) : wire[i].ev # "error" /\ wire[i].ev # "end"
  BY DEF PInv, IInv, ErrorIsLast, EndIsLast
<1>3. \A i \in 1..Len(Readable) : i \in 1..Len(wire) /\ Readable[i] = wire[i]
  BY <1>1, ReadableIs DEF Shown
<1> QED
  BY <1>2, <1>3 DEF Shows

\* It is lost once it is cut, or the handler left it.
LEMMA OverIs ==
  PInv /\ main.pc # "closed" => Over = IF Cut \/ main.pc = "left" THEN "cut" ELSE "no"
<1> SUFFICES ASSUME PInv, main.pc # "closed"
             PROVE  Over = IF Cut \/ main.pc = "left" THEN "cut" ELSE "no"
  OBVIOUS
<1>1. ~Shows("error") /\ ~Shows("end")
  BY NoEndYet
<1>2. Readable # wire <=> Cut
  BY PParts, CutIs
<1> QED
  BY <1>1, <1>2 DEF Over

\* The same of the next state.
LEMMA OverIsNext ==
  (PInv /\ main.pc # "closed" => Over = IF Cut \/ main.pc = "left" THEN "cut" ELSE "no")'
  BY OverIs, PTL

\* The reply of a stream is decided.
LEMMA ReplyStays == ask' = ask => Reply' = Reply
<1> SUFFICES ASSUME ask' = ask PROVE Reply' = Reply
  OBVIOUS
<1>1. PICK u : u = up'
  OBVIOUS
<1> QED
  BY <1>1, ToldStays

\* What can be read is a matter of the wire.
LEMMA ReadableStays == wire' = wire => Readable' = Readable
  BY DEF Readable, SelectInSeq

\* A step of the promise, or none.
Keeps == [Promise!Next]_(Promise!vars)

\* Nothing is written and nobody left: the promise stands still.
LEMMA StillKeeps ==
  ASSUME ask' = ask, wire' = wire, main.pc = "left" <=> main'.pc = "left"
  PROVE  Keeps
<1>1. Reply' = Reply
  BY ReplyStays
<1>2. Readable' = Readable
  BY ReadableStays
<1>3. Over' = Over
  BY <1>2 DEF Over, Shows
<1>4. EventsOf(Readable)' = EventsOf(Readable)
  BY <1>2
<1> QED
  BY <1>1, <1>3, <1>4 DEF Keeps, Promise!vars

\* What is said stays, and the stream ends, or fails, or is cut, at most once.
LEMMA OverKeeps ==
  ASSUME ask' = ask, EventsOf(Readable)' = EventsOf(Readable),
         \/ Over' = Over
         \/ Over = "no" /\ Over' \in {"failed", "cut"}
         \/ Over = "no" /\ Over' = "ended" /\ EventsOf(Readable) = Reply
  PROVE  Keeps
<1>1. Reply' = Reply
  BY ReplyStays
<1> QED
  BY <1>1 DEF Keeps, Promise!vars, Promise!Next, Promise!Ended, Promise!Failed, Promise!Cut

\* What is written after a cut changes nothing.
LEMMA HiddenKeeps ==
  ASSUME PInv, ask' = ask, main.pc # "closed", Hidden
  PROVE  Keeps
<1>1. ~Shows("error") /\ ~Shows("end") /\ Over \in {"no", "cut"}
  BY NoEndYet, OverIs
<1>2. Readable' = Readable /\ Readable' # wire'
  BY DEF Hidden
<1>3. ~Shows("error")' /\ ~Shows("end")'
  BY <1>1, <1>2 DEF Shows
<1>4. Over' = "cut"
  BY <1>2, <1>3 DEF Over
<1>5. EventsOf(Readable)' = EventsOf(Readable)
  BY <1>2
<1> QED
  BY <1>1, <1>4, <1>5, OverKeeps

\* Who leaves loses the stream.
LEMMA LeftKeeps ==
  ASSUME PInv, PInv', ask' = ask, wire' = wire, main.pc # "closed", main'.pc = "left"
  PROVE  Keeps
<1>1. Over \in {"no", "cut"}
  BY OverIs
<1>2. Over' = "cut"
  BY OverIsNext
<1>3. EventsOf(Readable)' = EventsOf(Readable)
  <2>1. Readable' = Readable
    BY ReadableStays
  <2> QED
    BY <2>1
<1> QED
  BY <1>1, <1>2, <1>3, OverKeeps

\* The events of a piece are the reply's next.
LEMMA EventsKeep ==
  ASSUME PInv, PInv', ask' = ask, NEW items \in Seq(Items), Visible(items),
         main.pc \notin {"closed", "left"}, main'.pc \notin {"closed", "left"},
         NEW k \in 0..Len(Reply), EventsOf(wire') = SubSeq(Reply, 1, k)
  PROVE  Keeps
<1>1. /\ ~Cut /\ ~Cut' /\ Readable = wire /\ Readable' = wire' /\ wire' = wire \o items
  BY DEF Visible
<1>2. TypeOK
  BY PParts
<1>3. Over = "no" /\ Over' = "no"
  BY <1>1, OverIs, OverIsNext
<1>4. Reply' = Reply /\ Reply \in Seq(Names)
  <2>1. ask \in Asks
    BY <1>2 DEF TypeOK
  <2> QED
    BY <2>1, ReplyStays, ReplyIs
<1>5. /\ EventsOf(wire') = EventsOf(wire) \o EventsOf(items)
      /\ EventsOf(wire) \in Seq(Names) /\ EventsOf(items) \in Seq(Names)
  BY <1>1, <1>2, WireTyped, EventsOfBoth, EventsOfMore
<1>6. PICK v \in Seq(Names), x \in Seq(Names) : v = EventsOf(wire) /\ x = EventsOf(items)
  BY <1>5
<1>7. SubSeq(Reply, 1, k) = v \o x
  BY <1>5, <1>6
<1>8. k = Len(v) + Len(x)
  <2>1. Len(SubSeq(Reply, 1, k)) = k
    BY <1>4, PartTyped
  <2>2. Len(v \o x) = Len(v) + Len(x)
    OBVIOUS
  <2> QED
    BY <1>7, <2>1, <2>2
<1>9. CASE x = <<>>
  <2>1. v \o x = v
    BY <1>9
  <2>2. EventsOf(Readable)' = EventsOf(Readable)
    BY <1>1, <1>5, <1>6, <2>1
  <2> QED
    BY <1>3, <2>2, OverKeeps
<1>10. CASE x # <<>>
  <2>1. Len(x) \in Nat /\ Len(x) # 0 /\ Len(v) \in Nat
    BY <1>10
  <2>2. k \in (Len(v) + 1)..Len(Reply)
    <3>1. PICK r \in Nat : r = Len(Reply)
      BY <1>4
    <3> QED
      BY <1>8, <2>1, <3>1
  <2>3. EventsOf(Readable) = v /\ EventsOf(Readable)' = SubSeq(Reply, 1, k)
    BY <1>1, <1>6
  <2>4. Promise!Say
    BY <1>3, <1>4, <2>2, <2>3 DEF Promise!Say
  <2> QED
    BY <2>4 DEF Keeps, Promise!Next
<1> QED
  BY <1>9, <1>10

\* What was said stays, when no event is written.
LEMMA SaysNoMore ==
  ASSUME TypeOK, NEW items \in Seq(Items), EventsOf(items) = <<>>, Visible(items)
  PROVE  EventsOf(Readable)' = EventsOf(Readable)
<1>1. Readable = wire /\ Readable' = wire' /\ wire' = wire \o items
  BY DEF Visible
<1>2. EventsOf(wire \o items) = EventsOf(wire) \o <<>>
  BY WireTyped, EventsOfBoth
<1>3. EventsOf(wire) \o <<>> = EventsOf(wire)
  BY ToldTyped
<1> QED
  BY <1>1, <1>2, <1>3

\* What a client reads of a write that ends the stream, it shows.
LEMMA EndShows ==
  ASSUME PInv, main.pc # "closed",
         NEW items \in Seq(Items), Visible(items), NEW n \in 1..Len(items)
  PROVE  /\ Shows(items[n].ev)'
         /\ (\A i \in 1..Len(items) : items[i].ev # "error") => ~Shows("error")'
<1>1. Readable = wire /\ Readable' = wire' /\ wire' = wire \o items
  BY DEF Visible
<1>2. TypeOK
  BY PParts
<1>3. PICK w \in Seq(Items) : w = wire /\ w \o items = wire'
  BY <1>1, <1>2, WireTyped
<1>4. /\ Len(w) + n \in 1..Len(w \o items) /\ (w \o items)[Len(w) + n] = items[n]
      /\ \A i \in 1..Len(w \o items) :
            \/ i \in 1..Len(w) /\ (w \o items)[i] = w[i]
            \/ i - Len(w) \in 1..Len(items) /\ (w \o items)[i] = items[i - Len(w)]
  OBVIOUS
<1>5. Shows(items[n].ev)'
  BY <1>1, <1>3, <1>4 DEF Shows
<1>6. ASSUME \A i \in 1..Len(items) : items[i].ev # "error" PROVE ~Shows("error")'
  <2>1. \A i \in 1..Len(w) : w[i].ev # "error"
    <3>1. ~Shows("error")
      BY NoEndYet
    <3> QED
      BY <1>1, <1>3, <3>1 DEF Shows
  <2> QED
    BY <1>1, <1>3, <1>4, <1>6, <2>1 DEF Shows
<1> QED
  BY <1>5, <1>6

\* A step that writes nothing goes on, or leaves.
LEMMA SilentKeeps ==
  ASSUME PInv, PInv', ask' = ask, wire' = wire, main.pc \notin {"closed", "left"}
  PROVE  Keeps
<1>1. CASE main'.pc = "left"
  BY <1>1, LeftKeeps
<1>2. CASE main'.pc # "left"
  BY <1>2, StillKeeps
<1> QED
  BY <1>1, <1>2

\* The opening is the first event of its reply.
LEMMA OpenKeeps == PInv /\ PInv' /\ Open => Keeps
<1> SUFFICES ASSUME PInv, PInv', Open PROVE Keeps
  OBVIOUS
<1>1. TypeOK /\ TypeOK' /\ ToldNow'
  BY DEF PInv, IInv, Control, Telling
<1> DEFINE items == IF ask.api = "anthropic" THEN <<Item("open")>> ELSE <<>>
<1>2. /\ main.pc = "begin" /\ ask.opened /\ ask' = ask /\ wire' = Written(items)
      /\ client = "there" => Goto("working")
  BY DEF Open
<1>3. items \in Seq(Items) /\ WholeFrames(items)
  <2>1. ask \in Asks
    BY <1>1 DEF TypeOK
  <2>2. PICK q : q = items
    OBVIOUS
  <2>3. q \in Seq(Items) /\ EventsOf(q) = Told(0) /\ WholeFrames(q)
    BY <1>2, <2>1, <2>2, OpeningIs DEF WholeFrames
  <2> QED
    BY <2>2, <2>3
<1> HIDE DEF items
<1>4. CASE client = "gone" /\ wire' = wire
  BY <1>2, <1>4, SilentKeeps
<1>5. CASE client # "gone" /\ Hidden
  BY <1>2, <1>5, HiddenKeeps
<1>6. CASE client = "there" /\ Visible(items)
  <2>1. main'.pc = "working"
    BY <1>1, <1>2, <1>6, Goes
  <2>2. EventsOf(wire') = Told(up)'
    <3>1. Starting' /\ ~Cut'
      BY <1>6, <2>1 DEF Starting, Visible
    <3> QED
      BY <1>1, <2>1, <3>1 DEF ToldNow, Has
  <2>3. PICK k \in 0..Len(Reply') : Told(up)' = SubSeq(Reply', 1, k)
    BY <1>1, ToldPartNext
  <2>4. Reply' = Reply
    BY <1>2, ReplyStays
  <2>5. k \in 0..Len(Reply) /\ EventsOf(wire') = SubSeq(Reply, 1, k)
    BY <2>2, <2>3, <2>4
  <2>6. main.pc \notin {"closed", "left"} /\ main'.pc \notin {"closed", "left"}
    BY <1>2, <2>1
  <2> QED
    BY <1>2, <1>3, <1>6, <2>5, <2>6, EventsKeep
<1> QED
  BY <1>1, <1>2, <1>3, <1>4, <1>5, <1>6, WriteShows

\* A piece says the reply's next events.
LEMMA PutPieceKeeps == PInv /\ PInv' /\ PutPiece => Keeps
<1> SUFFICES ASSUME PInv, PInv', PutPiece PROVE Keeps
  OBVIOUS
<1>1. TypeOK /\ TypeOK' /\ ToldNow' /\ ToldAll' /\ Joins /\ Carried
  BY PParts DEF PInv, IInv, Control, Telling
<1>2. /\ main.pc = "putting" /\ main.next \in {"reading", "done"} /\ wire' = Written(main.out)
      /\ ask' = ask
      /\ client = "there" => Goto(main.next)
  BY <1>1 DEF PutPiece, Put, Joins
<1>3. main.out \in Seq(Items) /\ WholeFrames(main.out)
  BY <1>1, PieceIs
<1>4. CASE client = "gone" /\ wire' = wire
  BY <1>2, <1>4, SilentKeeps
<1>5. CASE client # "gone" /\ Hidden
  BY <1>2, <1>5, HiddenKeeps
<1>6. CASE client = "there" /\ Visible(main.out)
  <2>1. main'.pc = main.next
    BY <1>1, <1>2, <1>6, Goes
  <2>2. ~Cut'
    BY <1>6 DEF Visible
  <2>3. Reply' = Reply
    BY <1>2, ReplyStays
  <2>4. PICK k \in 0..Len(Reply) : EventsOf(wire') = SubSeq(Reply, 1, k)
    <3>1. CASE main.next = "reading"
      <4>1. EventsOf(wire') = Told(up)'
        BY <1>1, <2>1, <2>2, <3>1 DEF ToldNow, Has
      <4>2. PICK k \in 0..Len(Reply') : Told(up)' = SubSeq(Reply', 1, k)
        BY <1>1, ToldPartNext
      <4> QED
        BY <2>3, <4>1, <4>2
    <3>2. CASE main.next = "done"
      <4>1. EventsOf(wire') = Reply
        BY <1>1, <2>1, <2>2, <2>3, <3>2 DEF ToldAll, Has, Finishing
      <4>2. Reply \in Seq(Names)
        <5>1. ask \in Asks
          BY <1>1 DEF TypeOK
        <5> QED
          BY <5>1, ReplyIs
      <4>3. SubSeq(Reply, 1, Len(Reply)) = Reply /\ Len(Reply) \in 0..Len(Reply)
        BY <4>2
      <4> QED
        BY <4>1, <4>3
    <3> QED
      BY <1>2, <3>1, <3>2
  <2>5. main.pc \notin {"closed", "left"} /\ main'.pc \notin {"closed", "left"}
    BY <1>2, <2>1
  <2> QED
    BY <1>2, <1>3, <1>6, <2>4, <2>5, EventsKeep
<1> QED
  BY <1>1, <1>2, <1>3, <1>4, <1>5, <1>6, WriteShows

\* The end goes out behind the last event.
LEMMA PutEndKeeps == PInv /\ PInv' /\ PutEnd => Keeps
<1> SUFFICES ASSUME PInv, PInv', PutEnd PROVE Keeps
  OBVIOUS
<1> DEFINE items == <<Item("end")>>
<1>1. TypeOK /\ TypeOK' /\ ToldAll
  BY PParts DEF PInv, IInv, Control
<1>2. main.pc = "ending" /\ ask' = ask /\ wire' = Written(items)
  BY DEF PutEnd, Put
<1>3. items \in Seq(Items) /\ WholeFrames(items) /\ EventsOf(items) = <<>>
  BY OwnSays
<1>4. Len(items) = 1 /\ items[1].ev = "end"
  BY OwnTyped
<1> HIDE DEF items
<1>5. CASE client = "gone" /\ wire' = wire
  BY <1>2, <1>5, SilentKeeps
<1>6. CASE client # "gone" /\ Hidden
  BY <1>2, <1>6, HiddenKeeps
<1>7. CASE client = "there" /\ Visible(items)
  <2>1. ~Cut /\ Readable = wire
    BY <1>7 DEF Visible
  <2>2. Over = "no"
    BY <1>2, <2>1, OverIs
  <2>3. EventsOf(Readable) = Reply
    BY <1>1, <1>2, <2>1 DEF ToldAll, Has, Finishing
  <2>4. EventsOf(Readable)' = EventsOf(Readable)
    BY <1>1, <1>3, <1>7, SaysNoMore
  <2>5. Shows("end")' /\ ~Shows("error")'
    <3>1. 1 \in 1..Len(items) /\ \A i \in 1..Len(items) : i = 1
      BY <1>4
    <3>2. \A i \in 1..Len(items) : items[i].ev # "error"
      BY <1>4, <3>1
    <3>3. Shows(items[1].ev)' /\ ~Shows("error")'
      BY <1>2, <1>3, <1>7, <3>1, <3>2, EndShows
    <3> QED
      BY <1>4, <3>3 DEF Shows
  <2>6. Over' = "ended"
    BY <2>5 DEF Over
  <2> QED
    BY <1>2, <2>2, <2>3, <2>4, <2>6, OverKeeps
<1> QED
  BY <1>1, <1>2, <1>3, <1>5, <1>6, <1>7, WriteShows

\* A stream that ends with an error failed.
LEMMA ErrorKeeps ==
  ASSUME PInv, PInv', ask' = ask, main.pc \notin {"closed", "left"},
         wire' = Written(<<Item("error"), Item("end")>>)
  PROVE  Keeps
<1> DEFINE items == <<Item("error"), Item("end")>>
<1>1. TypeOK /\ TypeOK'
  BY PParts DEF PInv, IInv, Control
<1>2. wire' = Written(items)
  OBVIOUS
<1>3. items \in Seq(Items) /\ WholeFrames(items) /\ EventsOf(items) = <<>>
  BY OwnSays
<1>4. Len(items) = 2 /\ items[1].ev = "error"
  BY OwnTyped
<1> HIDE DEF items
<1>5. CASE client = "gone" /\ wire' = wire
  BY <1>5, SilentKeeps
<1>6. CASE client # "gone" /\ Hidden
  BY <1>6, HiddenKeeps
<1>7. CASE client = "there" /\ Visible(items)
  <2>1. Over = "no"
    <3>1. ~Cut
      BY <1>7 DEF Visible
    <3> QED
      BY <3>1, OverIs
  <2>2. EventsOf(Readable)' = EventsOf(Readable)
    BY <1>1, <1>3, <1>7, SaysNoMore
  <2>3. Shows("error")'
    <3>1. 1 \in 1..Len(items)
      BY <1>4
    <3>2. Shows(items[1].ev)'
      BY <1>3, <1>7, <3>1, EndShows
    <3> QED
      BY <1>4, <3>2 DEF Shows
  <2>4. Over' = "failed"
    BY <2>3 DEF Over
  <2> QED
    BY <2>1, <2>2, <2>4, OverKeeps
<1> QED
  BY <1>1, <1>2, <1>3, <1>5, <1>6, <1>7, WriteShows

\* A keep-alive says nothing.
LEMMA BeatKeeps == ASSUME PInv, PInv', NEW p \in Pingers, Beat(p) PROVE Keeps
<1> DEFINE items == <<Item("ping")>>
<1>1. TypeOK /\ TypeOK' /\ Locked /\ Halted
  BY PParts DEF PInv, IInv, Control
<1>2. ping[p] = "writing" /\ ask' = ask /\ main' = main /\ wire' = Written(items)
  BY DEF Beat
<1>3. main.pc # "closed"
  BY <1>1, <1>2 DEF Locked, Halted, Pingers
<1>4. items \in Seq(Items) /\ WholeFrames(items) /\ EventsOf(items) = <<>>
  BY OwnSays
<1> HIDE DEF items
<1>5. CASE client = "gone" /\ wire' = wire
  BY <1>2, <1>5, StillKeeps
<1>6. CASE client # "gone" /\ Hidden
  BY <1>2, <1>3, <1>6, HiddenKeeps
<1>7. CASE client = "there" /\ Visible(items)
  <2>1. ~Cut /\ ~Cut'
    BY <1>7 DEF Visible
  <2>2. Over' = Over
    BY <1>2, <1>3, <2>1, OverIs, OverIsNext
  <2>3. EventsOf(Readable)' = EventsOf(Readable)
    BY <1>1, <1>4, <1>7, SaysNoMore
  <2> QED
    BY <1>2, <2>2, <2>3, OverKeeps
<1> QED
  BY <1>1, <1>2, <1>4, <1>5, <1>6, <1>7, WriteShows

\* A stream begins as its promise does.
LEMMA InitKeeps == Init => Promise!Init
<1> SUFFICES ASSUME Init PROVE Promise!Init
  OBVIOUS
<1>1. ask \in Asks /\ main.pc = "begin" /\ wire = <<>>
  BY DEF Init
<1>2. 1..Len(wire) = {}
  <2>1. Len(wire) = 0
    BY <1>1, EmptyTyped
  <2> QED
    BY <2>1
<1>3. Readable = <<>>
  BY <1>1, <1>2 DEF Readable
<1>4. ~Shows("error") /\ ~Shows("end")
  BY <1>1, <1>2, <1>3 DEF Shows
<1>5. Over = "no"
  BY <1>1, <1>3, <1>4 DEF Over
<1>6. EventsOf(Readable) = <<>>
  BY <1>3, EventsOfMore
<1>7. Reply \in {<<"open", "text", "delta and usage", "stop">>, <<"text", "done">>,
                 <<"text", "usage", "done">>, <<"start", "text", "delta", "stop">>}
  <2>1. ask.api \in {"anthropic", "openai"} /\ ask.opened \in BOOLEAN /\ ask.asked \in BOOLEAN
    BY <1>1, Parameters
  <2> QED
    BY <2>1 DEF Reply, Sends
<1> QED
  BY <1>5, <1>6, <1>7 DEF Promise!Init

\* Every step is one of the promise, or none.
LEMMA NextKeeps == PInv /\ PInv' /\ [Next]_vars => [Promise!Next]_(Promise!vars)
<1> SUFFICES ASSUME PInv, PInv', [Next]_vars PROVE Keeps
  BY DEF Keeps
<1>1. CASE NotOpened \/ Work \/ Joined \/ Read \/ ReadEnd \/ Reset \/ Lock \/ Done
  BY <1>1, SilentKeeps DEF NotOpened, Work, Joined, Read, ReadEnd, Reset, Lock, Done
<1>2. CASE Connect
  <2>1. /\ main.pc = "connect" /\ ask' = ask
        /\ wire' = wire \/ wire' = Written(<<Item("error"), Item("end")>>)
    BY <1>2 DEF Connect
  <2> QED
    BY <2>1, SilentKeeps, ErrorKeeps
<1>3. CASE SayAndEnd
  BY <1>3, ErrorKeeps DEF SayAndEnd
<1>4. ASSUME NEW p \in Pingers, PingStep(p) PROVE Keeps
  <2>1. CASE Wake(p) \/ Stop(p) \/ Claim(p)
    BY <2>1, StillKeeps DEF Wake, Stop, Claim
  <2>2. CASE Beat(p)
    BY <2>2, BeatKeeps
  <2> QED
    BY <1>4, <2>1, <2>2 DEF PingStep
<1>5. CASE Leave \/ Stall \/ Resume \/ UNCHANGED vars
  BY <1>5, StillKeeps DEF Leave, Stall, Resume, vars
<1> QED
  BY <1>1, <1>2, <1>3, <1>4, <1>5, OpenKeeps, PutPieceKeeps, PutEndKeeps DEF Next, MainStep

\* KeepsPromise: what the client of a streamed reply can read is what Stream
\* promises, whatever the backend's pieces, the keep-alives and the client do.
THEOREM KeepsItsPromise == Spec => KeepsPromise
<1>1. PInv /\ PInv' /\ [Next]_vars => [Promise!Next]_(Promise!vars)
  BY NextKeeps
<1> QED
  BY <1>1, InitKeeps, PromiseInvariant, PTL DEF Spec, KeepsPromise, Promise!Spec
===============================================================================
